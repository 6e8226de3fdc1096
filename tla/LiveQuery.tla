------------------------------ MODULE LiveQuery ------------------------------
(***************************************************************************)
(* One call of useSubscription (hooks/use-subscription.ts) as a page sees  *)
(* it, with its share of the wire and of the broker.  ConsoleClient and    *)
(* Broker model the two ends; here is what they amount to for one hook:    *)
(* the server reads a snapshot, registers the subscription, and only then  *)
(* sends the snapshot and the deltas that follow, in order.                *)
(***************************************************************************)
EXTENDS PageData, Sequences

\* What a hook can be, for the snapshots S and the deltas D of the topic.
Subscriptions(Keys, S, D) ==
    [key : Keys, stage : {"asked", "read", "failed", "live"},
     wire : Seq([kind : {"snapshot"}, data : S] \cup [kind : {"delta"}, data : D]),
     error : BOOLEAN, snapshot : S \cup {NoData}, delta : D \cup {NoData}]

\* The hook after its first effect: nothing held, a subscribe call under way.
NewSub(key) ==
    [key |-> key, stage |-> "asked", wire |-> <<>>, error |-> FALSE,
     snapshot |-> NoData, delta |-> NoData]

\* The effect runs again: for other params, or because the socket was lost and
\* is open again.  Messages of the earlier run are ignored from now on (the
\* cancelled flag); the data that it delivered stay.
Resubscribed(s, key) == [s EXCEPT !.key = key, !.stage = "asked", !.wire = <<>>]

\* resolver.snapshot(params) has returned; the broker registers after an await.
SnapshotRead(s, data) ==
    [s EXCEPT !.stage = "read", !.wire = <<[kind |-> "snapshot", data |-> data]>>]

\* resolver.snapshot has thrown.  Nothing ever takes the error back: it stays when
\* a later run of the effect succeeds.
Failed(s) == [s EXCEPT !.stage = "failed", !.error = TRUE]

Registered(s) == [s EXCEPT !.stage = "live"]

\* Deltas of one event reach the registered subscription only.
Published(s, ds) ==
    IF s.stage # "live" THEN s
    ELSE [s EXCEPT !.wire = @ \o [k \in DOMAIN ds |-> [kind |-> "delta", data |-> ds[k]]]]

Deliverable(s) == s.stage = "live" /\ s.wire # <<>>
Arriving(s)    == Head(s.wire).kind

\* onSnapshot or onDelta: the field is overwritten.
Delivered(s) == [s EXCEPT !.wire = Tail(@), ![Arriving(s)] = Head(s.wire).data]

\* The hook has been sent everything there is.
UpToDate(s) == s.stage = "live" /\ s.wire = <<>>
=============================================================================
