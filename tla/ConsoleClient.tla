---------------------------- MODULE ConsoleClient ----------------------------
(***************************************************************************)
(* The browser side of the Console's WebSocket: ConsoleClient              *)
(* (api/ws-client.ts), the useSubscription hook of the React components    *)
(* (hooks/use-subscription.ts), the wire, and as much of the server as the *)
(* client can observe.  One client, from its construction to its close().  *)
(*                                                                         *)
(* A step is one browser task: a socket event, a timer, a React commit, or *)
(* a call of the application.  The status the hooks see is React state:    *)
(* setStatus only schedules a render, so it lags behind the client's own.  *)
(*                                                                         *)
(* A run of a hook's effect has a number of its own (1, 2, ...); the data  *)
(* a hook shows is abstracted to the run whose handlers delivered it.      *)
(***************************************************************************)
EXTENDS Naturals, Sequences, FiniteSets

CONSTANTS
    Hook,          \* calls of useSubscription in the component tree
    Rpc,           \* calls of client.rpc
    MaxChanges,    \* bound on mounts, unmounts and changes of params
    MaxDrops,      \* bound on lost sockets
    MaxDeltas,     \* bound on deltas
    Fallible,      \* may the server answer with an error?
    PromptCommits  \* does React commit a status before the reconnect timer
                   \* fires?  (the shortest delay is 500 ms)

ASSUME ConsoleClientAssumption ==
    /\ MaxChanges \in Nat
    /\ MaxDrops \in Nat
    /\ MaxDeltas \in Nat
    /\ Fallible \in BOOLEAN
    /\ PromptCommits \in BOOLEAN

\* A subscribe request is named for what it asks: the run of a hook's effect,
\* or (of # 0) the active subscription that socket number conn re-issues.
Request == [hook : Hook, run : Nat, of : Nat, conn : Nat]

ToServer == [type : {"subscribe"}, req : Request]
            \cup [type : {"unsubscribe"}, sid : Nat]
            \cup [type : {"rpc"}, rpc : Rpc]

ToClient == [type : {"accepted"}, req : Request, sid : Nat]
            \cup [type : {"snapshot", "delta"}, sid : Nat]
            \cup [type : {"result"}, rpc : Rpc]
            \cup [type : {"error"}, re : Request \cup Rpc]

\* Requests and calls are told apart by their ids, which are random UUIDs.
ASSUME IdsDiffer == \A r \in Rpc : r \notin Request

VARIABLES
    status,            \* client.status: "closed", "connecting", "open"
    conn,              \* how many sockets the client opened (0: none)
    timer,             \* is the reconnect timer armed?
    explicitlyClosed,  \* client.explicitlyClosed
    rendered,          \* the status React committed last
    mounted,           \* mounted hooks
    runs,              \* per hook, the number of its latest effect run
    live,              \* per hook, has that run not been cleaned up?
    handle,            \* per hook, the subscription id that the closure unsub
                       \* of that run will unsubscribe (0: unsub is null)
    shown,             \* per hook, the runs that delivered what it shows
    pending,           \* client.pendingSubscribes
    active,            \* client.active
    rpcs,              \* per rpc call: "idle", "pending", "resolved", "rejected"
    sentOn,            \* the socket it was sent on (0: none)
    authed,            \* did the server take the token of the current socket?
    toServer,          \* messages on their way to the server, which answers
                       \* them in any order
    toClient,          \* messages on their way to the client, in order
    regs,              \* ids registered for the socket by the server's broker
    nextSid,           \* the next subscription id the server mints
    executed,          \* per rpc call, how often the gateway ran it (history)
    refused,           \* effect runs that were answered with an error (history)
    abandoned,         \* effect runs cleaned up before they were accepted (history)
    changes, drops, deltas

socket == <<status, conn, timer, explicitlyClosed>>
react  == <<rendered, mounted, runs, live, handle>>
calls  == <<rpcs, sentOn, executed>>
server == <<authed, regs, nextSid>>
wire   == <<toServer, toClient>>
past   == <<refused, abandoned>>
bounds == <<changes, drops, deltas>>
vars   == <<socket, react, shown, pending, active, calls, server, wire, past, bounds>>

\* Mutant: a hook starts without an error field.
NothingBlank == [snapshot |-> 0, delta |-> 0]

Nothing == [snapshot |-> 0, delta |-> 0, error |-> 0]

Init ==
    /\ status = "closed" /\ conn = 0 /\ timer = FALSE /\ explicitlyClosed = FALSE
    /\ rendered = "closed"
    /\ mounted = {}
    /\ runs = [h \in Hook |-> 0]
    /\ live = [h \in Hook |-> FALSE]
    /\ handle = [h \in Hook |-> 0]
    /\ shown = [h \in Hook |-> Nothing]
    /\ pending = {} /\ active = {}
    /\ rpcs = [r \in Rpc |-> "idle"]
    /\ sentOn = [r \in Rpc |-> 0]
    /\ executed = [r \in Rpc |-> 0]
    /\ authed = FALSE /\ regs = {} /\ nextSid = 1
    /\ toServer = {} /\ toClient = <<>>
    /\ refused = {} /\ abandoned = {}
    /\ changes = 0 /\ drops = 0 /\ deltas = 0

-----------------------------------------------------------------------------
(* The socket.                                                             *)

\* socket.send drops what it is given once close() was called on the socket.
CanSend == status = "open" /\ ~explicitlyClosed

OpenSocket ==
    /\ status' = "connecting"
    /\ conn' = conn + 1

\* client.connect(), called by the provider's effect.
Connect ==
    /\ conn = 0 /\ ~explicitlyClosed
    /\ OpenSocket
    /\ UNCHANGED <<timer, explicitlyClosed, react, shown, pending, active, calls,
                   server, wire, past, bounds>>

ReconnectTimer ==
    /\ timer
    /\ PromptCommits => rendered = status
    /\ timer' = FALSE
    /\ OpenSocket
    /\ UNCHANGED <<explicitlyClosed, react, shown, pending, active, calls, server,
                   wire, past, bounds>>

\* The subscriptions of an earlier socket, asked for again.
Reissued == {[hook |-> a.hook, run |-> a.run, of |-> a.sid, conn |-> conn] : a \in active}

Subscribe(Q) == {[type |-> "subscribe", req |-> q] : q \in Q}

\* Mutant: requests that were queued while there was no socket are not sent.
OpenNoResend ==
    /\ status = "connecting" /\ ~explicitlyClosed
    /\ status' = "open"
    /\ authed' \in BOOLEAN
    /\ pending' = pending \cup Reissued
    /\ toServer' = Subscribe(Reissued)
    /\ UNCHANGED <<conn, timer, explicitlyClosed, react, shown, active, calls,
                   regs, nextSid, toClient, past, bounds>>

\* onopen: every pending subscribe is sent, also when an earlier socket sent it,
\* and every active subscription is asked for again under a new request id.
Open ==
    /\ status = "connecting" /\ ~explicitlyClosed
    /\ status' = "open"
    /\ authed' \in BOOLEAN
    /\ pending' = pending \cup Reissued
    /\ toServer' = Subscribe(pending \cup Reissued)
    /\ UNCHANGED <<conn, timer, explicitlyClosed, react, shown, active, calls,
                   regs, nextSid, toClient, past, bounds>>

\* Mutant: in-flight RPCs are left to a retry that does not exist.
FailPendingRpcsNever == UNCHANGED rpcs

FailPendingRpcs ==
    rpcs' = [r \in Rpc |-> IF rpcs[r] = "pending" THEN "rejected" ELSE rpcs[r]]

\* onclose.  The socket was closed by the client, lost, or refused by the server
\* with 4401, which ends the session.  What was in flight may already have been
\* handled, and is gone otherwise.
SocketClosed ==
    /\ status # "closed"
    /\ \/ /\ explicitlyClosed
          /\ UNCHANGED <<explicitlyClosed, drops>>
       \/ /\ ~explicitlyClosed /\ drops < MaxDrops
          /\ drops' = drops + 1
          /\ UNCHANGED explicitlyClosed
       \/ /\ ~explicitlyClosed /\ status = "open" /\ ~authed
          /\ explicitlyClosed' = TRUE
          /\ UNCHANGED drops
    /\ status' = "closed"
    /\ timer' = ~explicitlyClosed'
    /\ FailPendingRpcs
    /\ authed' = FALSE
    /\ regs' = {}
    /\ toServer' = {} /\ toClient' = <<>>
    /\ UNCHANGED <<conn, react, shown, pending, active, sentOn, executed, nextSid,
                   past, changes, deltas>>

\* client.close(), called when the provider unmounts or the user logs out.
Close ==
    /\ conn > 0 /\ ~explicitlyClosed
    /\ explicitlyClosed' = TRUE
    /\ timer' = FALSE
    /\ UNCHANGED <<status, conn, react, shown, pending, active, calls, server, wire,
                   past, bounds>>

-----------------------------------------------------------------------------
(* The hooks.                                                              *)

\* The runs whose cleanup finds unsub still null.
Unanswered(H) == {[hook |-> h, run |-> runs[h]] : h \in {x \in H : live[x] /\ handle[x] = 0}}

\* Mutant: the cleanup of an effect run forgets the subscription.
RerunNoUnsubscribe(H, R) ==
    LET asks == {[hook |-> h, run |-> runs[h] + 1, of |-> 0, conn |-> 0] : h \in R}
    IN  /\ runs' = [h \in Hook |-> IF h \in R THEN runs[h] + 1 ELSE runs[h]]
        /\ live' = [h \in Hook |-> h \in R \/ (live[h] /\ h \notin H)]
        /\ handle' = [h \in Hook |-> IF h \in H THEN 0 ELSE handle[h]]
        /\ abandoned' = abandoned \cup Unanswered(H)
        /\ active' = active
        /\ pending' = pending \cup asks
        /\ toServer' = IF CanSend THEN toServer \cup Subscribe(asks) ELSE toServer

\* The effects of the hooks H are cleaned up, then those of the hooks R run.
\* The cleanup unsubscribes only if the subscription was accepted meanwhile.
Rerun(H, R) ==
    LET gone == {a \in active : \E h \in H : live[h] /\ handle[h] = a.sid}
        asks == {[hook |-> h, run |-> runs[h] + 1, of |-> 0, conn |-> 0] : h \in R}
        unsubscribes == {[type |-> "unsubscribe", sid |-> a.sid] : a \in gone}
    IN  /\ runs' = [h \in Hook |-> IF h \in R THEN runs[h] + 1 ELSE runs[h]]
        /\ live' = [h \in Hook |-> h \in R \/ (live[h] /\ h \notin H)]
        /\ handle' = [h \in Hook |-> IF h \in H THEN 0 ELSE handle[h]]
        /\ abandoned' = abandoned \cup Unanswered(H)
        /\ active' = active \ gone
        /\ pending' = pending \cup asks
        /\ toServer' = IF CanSend
                       THEN toServer \cup unsubscribes \cup Subscribe(asks)
                       ELSE toServer

\* The effect subscribes only when the committed status is open.
IfOpen(H, committed) == IF committed = "open" THEN H ELSE {}

\* Mutant: the status is missing in the dependencies of the effect.
CommitNoRerun ==
    /\ rendered # status
    /\ rendered' = status
    /\ UNCHANGED <<socket, mounted, runs, live, handle, shown, pending, active, calls,
                   server, wire, past, bounds>>

\* React commits the status: it is a dependency of every hook's effect.
Commit ==
    /\ rendered # status
    /\ rendered' = status
    /\ Rerun(mounted, IfOpen(mounted, status))
    /\ UNCHANGED <<socket, mounted, shown, calls, server, toClient, refused, bounds>>

Mount(h) ==
    /\ h \notin mounted /\ changes < MaxChanges
    /\ changes' = changes + 1
    /\ mounted' = mounted \cup {h}
    /\ shown' = [shown EXCEPT ![h] = Nothing]
    /\ Rerun({h}, IfOpen({h}, rendered))
    /\ UNCHANGED <<socket, rendered, calls, server, toClient, refused, drops, deltas>>

Unmount(h) ==
    /\ h \in mounted /\ changes < MaxChanges
    /\ changes' = changes + 1
    /\ mounted' = mounted \ {h}
    /\ Rerun({h}, {})
    /\ UNCHANGED <<socket, rendered, shown, calls, server, toClient, refused, drops,
                   deltas>>

\* The hook is rendered with another query or other params.  What it shows is
\* kept until the new subscription delivers.
ParamsChange(h) ==
    /\ h \in mounted /\ changes < MaxChanges
    /\ changes' = changes + 1
    /\ Rerun({h}, IfOpen({h}, rendered))
    /\ UNCHANGED <<socket, rendered, mounted, shown, calls, server, toClient, refused,
                   drops, deltas>>

\* client.rpc: the call is pending whether or not it could be sent.
CallRpc(r) ==
    /\ rpcs[r] = "idle"
    /\ rpcs' = [rpcs EXCEPT ![r] = "pending"]
    /\ sentOn' = [sentOn EXCEPT ![r] = IF status = "open" THEN conn ELSE 0]
    /\ toServer' = IF CanSend THEN toServer \cup {[type |-> "rpc", rpc |-> r]}
                   ELSE toServer
    /\ UNCHANGED <<socket, react, shown, pending, active, executed, server, toClient,
                   past, bounds>>

-----------------------------------------------------------------------------
(* The server (see Broker for its inside).                                 *)

Receive(m) ==
    /\ authed /\ status = "open" /\ m \in toServer
    /\ toServer' = toServer \ {m}

\* The broker registered the subscription and answers.
Accept(m) ==
    /\ m.type = "subscribe" /\ Receive(m)
    /\ regs' = regs \cup {nextSid}
    /\ nextSid' = nextSid + 1
    /\ toClient' = toClient \o <<[type |-> "accepted", req |-> m.req, sid |-> nextSid],
                                 [type |-> "snapshot", sid |-> nextSid]>>
    /\ UNCHANGED <<socket, react, shown, pending, active, calls, authed, past, bounds>>

Refuse(m) ==
    /\ Fallible /\ m.type = "subscribe" /\ Receive(m)
    /\ toClient' = Append(toClient, [type |-> "error", re |-> m.req])
    /\ UNCHANGED <<socket, react, shown, pending, active, calls, server, past, bounds>>

Unregister(m) ==
    /\ m.type = "unsubscribe" /\ Receive(m)
    /\ regs' = regs \ {m.sid}
    /\ UNCHANGED <<socket, react, shown, pending, active, calls, authed, nextSid,
                   toClient, past, bounds>>

\* handleRpc forwards the command to the gateway, which may fail after it ran it.
Execute(m) ==
    /\ m.type = "rpc" /\ Receive(m)
    /\ executed' = [executed EXCEPT ![m.rpc] = @ + 1]
    /\ \/ toClient' = Append(toClient, [type |-> "result", rpc |-> m.rpc])
       \/ Fallible /\ toClient' = Append(toClient, [type |-> "error", re |-> m.rpc])
    /\ UNCHANGED <<socket, react, shown, pending, active, rpcs, sentOn, server, past, bounds>>

\* A Kafka event concerns a registered subscription.
Push(sid) ==
    /\ authed /\ status = "open" /\ sid \in regs /\ deltas < MaxDeltas
    /\ deltas' = deltas + 1
    /\ toClient' = Append(toClient, [type |-> "delta", sid |-> sid])
    /\ UNCHANGED <<socket, react, shown, pending, active, calls, server, toServer,
                   past, changes, drops>>

-----------------------------------------------------------------------------
(* handleServerMessage.  A closing socket delivers nothing any more.       *)

Arrives(type) ==
    /\ CanSend
    /\ toClient # <<>> /\ Head(toClient).type = type
    /\ toClient' = Tail(toClient)

\* The cancelled flag of the closure of a run of hook h.
Cancelled(h, run) == ~live[h] \/ run # runs[h]

\* The promise of client.subscribe resolves before the next message is read, so
\* the effect run that asked knows how to unsubscribe.
OnAccepted ==
    /\ Arrives("accepted")
    /\ LET m == Head(toClient)
           q == m.req
       IN  IF q \in pending
           THEN /\ active' = active \cup {[sid |-> m.sid, hook |-> q.hook, run |-> q.run]}
                /\ pending' = pending \ {q}
                /\ handle' = IF q.of = 0 /\ ~Cancelled(q.hook, q.run)
                             THEN [handle EXCEPT ![q.hook] = m.sid]
                             ELSE handle
           ELSE UNCHANGED <<active, pending, handle>>
    /\ UNCHANGED <<socket, rendered, mounted, runs, live, shown, calls, server, toServer,
                   past, bounds>>

\* Mutant: the handlers do not look at the cancelled flag.
ListeningAll(sid) ==
    {h \in Hook : \E a \in active : a.sid = sid /\ a.hook = h}

\* The hooks that a message for subscription sid makes render: the handlers of
\* a cancelled run ignore it.
Listening(sid) ==
    {h \in Hook : \E a \in active : a.sid = sid /\ a.hook = h /\ ~Cancelled(h, a.run)}

RunOf(sid) == (CHOOSE a \in active : a.sid = sid).run

OnSnapshot ==
    /\ Arrives("snapshot")
    /\ LET sid == Head(toClient).sid
       IN  shown' = [h \in Hook |-> IF h \in Listening(sid)
                                    THEN [shown[h] EXCEPT !.snapshot = RunOf(sid)]
                                    ELSE shown[h]]
    /\ UNCHANGED <<socket, react, pending, active, calls, server, toServer, past, bounds>>

OnDelta ==
    /\ Arrives("delta")
    /\ LET sid == Head(toClient).sid
       IN  shown' = [h \in Hook |-> IF h \in Listening(sid)
                                    THEN [shown[h] EXCEPT !.delta = RunOf(sid)]
                                    ELSE shown[h]]
    /\ UNCHANGED <<socket, react, pending, active, calls, server, toServer, past, bounds>>

OnResult ==
    /\ Arrives("result")
    /\ LET r == Head(toClient).rpc
       IN  rpcs' = [rpcs EXCEPT ![r] = IF @ = "pending" THEN "resolved" ELSE @]
    /\ UNCHANGED <<socket, react, shown, pending, active, sentOn, executed, server,
                   toServer, past, bounds>>

\* An error rejects the promise of the call it answers; the promise of a
\* re-issued subscription has nobody listening.
OnError ==
    /\ Arrives("error")
    /\ LET re == Head(toClient).re
       IN  IF re \in Rpc
           THEN /\ rpcs' = [rpcs EXCEPT ![re] = IF @ = "pending" THEN "rejected" ELSE @]
                /\ UNCHANGED <<pending, shown, refused>>
           ELSE /\ pending' = pending \ {re}
                /\ refused' = refused \cup {[hook |-> re.hook, run |-> re.run]}
                /\ shown' = IF re \in pending /\ re.of = 0 /\ ~Cancelled(re.hook, re.run)
                            THEN [shown EXCEPT ![re.hook].error = re.run]
                            ELSE shown
                /\ UNCHANGED rpcs
    /\ UNCHANGED <<socket, react, active, sentOn, executed, server, toServer,
                   abandoned, bounds>>

-----------------------------------------------------------------------------
Deliver == OnAccepted \/ OnSnapshot \/ OnDelta \/ OnResult \/ OnError

Answer(m) == Accept(m) \/ Refuse(m) \/ Unregister(m) \/ Execute(m)

Next ==
    \/ Connect \/ ReconnectTimer \/ Open \/ SocketClosed \/ Close
    \/ Commit
    \/ \E h \in Hook : Mount(h) \/ Unmount(h) \/ ParamsChange(h)
    \/ \E r \in Rpc : CallRpc(r)
    \/ \E m \in toServer : Answer(m)
    \/ \E sid \in regs : Push(sid)
    \/ Deliver

Spec == Init /\ [][Next]_vars

\* The socket closes because one of the two sides closed it.
Closes == (explicitlyClosed \/ (status = "open" /\ ~authed)) /\ SocketClosed

\* The browser fires timers and events and React commits; the socket connects or
\* closes; the server answers every message (see SubscribeAnswered of Broker).
Fairness ==
    /\ WF_vars(Connect) /\ WF_vars(ReconnectTimer)
    /\ WF_vars(Open) /\ WF_vars(Closes)
    /\ WF_vars(Commit)
    /\ WF_vars(Deliver)
    /\ WF_vars(\E m \in toServer : Answer(m))

FairSpec == Spec /\ Fairness

-----------------------------------------------------------------------------
(* Properties.                                                             *)

\* Every variable keeps the type of the client field or message it models.
TypeOK ==
    /\ status \in {"closed", "connecting", "open"}
    /\ conn \in Nat /\ timer \in BOOLEAN /\ explicitlyClosed \in BOOLEAN
    /\ rendered \in {"closed", "connecting", "open"}
    /\ mounted \in SUBSET Hook
    /\ runs \in [Hook -> Nat] /\ live \in [Hook -> BOOLEAN] /\ handle \in [Hook -> Nat]
    /\ shown \in [Hook -> [snapshot : Nat, delta : Nat, error : Nat]]
    /\ pending \in SUBSET Request
    /\ active \in SUBSET [sid : Nat, hook : Hook, run : Nat]
    /\ rpcs \in [Rpc -> {"idle", "pending", "resolved", "rejected"}]
    /\ sentOn \in [Rpc -> Nat] /\ executed \in [Rpc -> Nat]
    /\ authed \in BOOLEAN /\ regs \in SUBSET Nat /\ nextSid \in Nat
    /\ toServer \in SUBSET ToServer /\ toClient \in Seq(ToClient)
    /\ refused \in SUBSET [hook : Hook, run : Nat]
    /\ abandoned \in SUBSET [hook : Hook, run : Nat]
    /\ changes \in 0..MaxChanges /\ drops \in 0..MaxDrops /\ deltas \in 0..MaxDeltas

\* Nothing is under way between the client and the server.
Quiet ==
    /\ status = "open" /\ rendered = "open" /\ authed /\ ~explicitlyClosed
    /\ toServer = {} /\ toClient = <<>>

\* Whatever the interleaving of socket events, React commits and user actions,
\* once nothing is under way every mounted hook is served: its latest effect run
\* has a subscription that the client routes to it and that the server has
\* registered for this very socket, or it was answered with an error.
HookFed ==
    Quiet => \A h \in mounted :
                 \/ \E a \in active : /\ a.hook = h /\ a.run = runs[h]
                                      /\ a.sid \in regs
                 \/ [hook |-> h, run |-> runs[h]] \in refused

\* However late the answers of earlier params come, a hook never goes back to
\* the data of an earlier effect run (the cancelled flag of use-subscription).
NeverOlderData ==
    [][\A h \in Hook :
          (h \in mounted /\ h \in mounted')
             => /\ shown'[h].snapshot >= shown[h].snapshot
                /\ shown'[h].delta >= shown[h].delta
                /\ shown'[h].error >= shown[h].error]_vars

\* The only subscriptions that outlive the effect run that asked for them are
\* those that were not accepted yet when it was cleaned up.
OnlyAbandonedOutlive ==
    \A a \in active :
        \/ ~Cancelled(a.hook, a.run) /\ handle[a.hook] = a.sid
        \/ [hook |-> a.hook, run |-> a.run] \in abandoned

\* If the socket stays up from some time on, every mounted hook gets the data or
\* the error of its latest effect run ("clients reconnect, re-subscribe,
\* re-snapshot").
HookServed ==
    \A h \in Hook :
        (h \in mounted) ~> \/ h \notin mounted \/ explicitlyClosed
                           \/ /\ runs[h] > 0
                              /\ runs[h] \in {shown[h].snapshot, shown[h].error}

\* A command that was sent on a socket is answered or rejected, also when the
\* socket is lost before the answer.
RpcSettles ==
    \A r \in Rpc : (rpcs[r] = "pending" /\ sentOn[r] # 0) ~> (rpcs[r] # "pending")

-----------------------------------------------------------------------------
(* What the documentation says of the code and the code does not do.       *)

\* "unsubscribe when the component unmounts": once nothing is under way, the
\* server only serves subscriptions of mounted hooks.
UnmountedUnsubscribed ==
    Quiet => \A sid \in regs : \E h \in mounted : handle[h] = sid

\* "re-establish active subscriptions (lost across reconnect)": once nothing is
\* under way, the server has every active subscription registered.
ActiveEstablished == Quiet => \A a \in active : a.sid \in regs

\* "ignores stale duplicates": a delta of an earlier subscription is not laid
\* over the snapshot of a later one.
NoStaleOverlay ==
    \A h \in mounted : shown[h].delta # 0 => shown[h].delta >= shown[h].snapshot

\* "If not open, the message will be [...] rejected with 'reconnect' (RPCs)": a
\* command called while there is no socket is settled while the session lasts.
QueuedRpcSettles ==
    \A r \in Rpc : (rpcs[r] = "pending" /\ sentOn[r] = 0)
                       ~> (rpcs[r] # "pending" \/ explicitlyClosed)
=============================================================================
