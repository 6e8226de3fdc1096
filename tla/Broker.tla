------------------------------- MODULE Broker -------------------------------
(***************************************************************************)
(* The subscription broker of the Console server (broker/broker.ts), with  *)
(* the parts of the WS route (routes/ws.ts) that call it, the query        *)
(* resolvers (broker/queries.ts) and the Kafka tail (kafka/tail.ts) that   *)
(* feeds it.  The server is one Node process: a step of this module is     *)
(* what runs between two awaits that reach the network, so a resolver that *)
(* calls the gateway takes three steps (ask, read at the gateway, answer)  *)
(* and one that does not is part of the step that handles the event.       *)
(*                                                                         *)
(* A charge point's row is abstracted to what the properties tell apart:   *)
(*   rev     the number of the last event that changed the row,            *)
(*   online  the presence flag (it stands for every field of the row that  *)
(*           the list query can filter on),                                *)
(*   at      the stamp of the connector status shown in the row.           *)
(***************************************************************************)
EXTENDS Naturals, Sequences, FiniteSets

CONSTANTS
    Conn,        \* WebSocket connection ids (randomUUID: never reused)
    Sub,         \* subscription ids, one per subscribe call (randomUUID)
    CP,          \* charge points
    NoCp,        \* "no cp_id": a missing parameter, an event without a key
    NoConn,      \* owner of a subscription id that was not minted yet
    Query,       \* the queries the clients ask for, a subset of QueryType
    Topics,      \* the Kafka topics on which events are published
    MaxEvents,   \* bound on the number of published events
    MaxSamples,  \* bound on the sampled values of one cp.meter report (0: the
                 \* payload has nothing a resolver can use, whatever the topic)
    Fallible     \* may a gateway request fail?

Topic == {"cp.boot", "cp.status", "cp.meter", "cp.connected",
          "cp.disconnected", "cp.diagnostics_status", "cp.firmware_status",
          "tx.started", "tx.stopped"}

QueryName == {"charge-points", "charge-point", "transactions-active",
              "meter-history", "status-history", "device-events"}

\* online is the set of row.online values that the list filter lets through.
QueryType == [name : QueryName, cp : CP \cup {NoCp}, online : SUBSET BOOLEAN]

ASSUME BrokerAssumption ==
    /\ NoCp \notin CP
    /\ NoConn \notin Conn
    /\ Query \subseteq QueryType
    /\ Topics \subseteq Topic
    /\ MaxEvents \in Nat
    /\ MaxSamples \in Nat \ {0}
    /\ Fallible \in BOOLEAN

Event == [topic : Topic, cp : CP \cup {NoCp}, n : Nat]
Row   == [cp : CP, rev : Nat, online : BOOLEAN, at : Nat]

\* What the server writes on the socket for one subscription.
Message == [type : {"accepted", "error"}]
           \cup [type : {"snapshot"}, rows : SUBSET Row]
           \cup [type : {"append"}, ev : Nat]
           \cup [type : {"upsert"}, ev : Nat, row : Row]
           \cup [type : {"remove"}, ev : Nat, cp : CP]

VARIABLES
    kafka,     \* the events published so far, in order of publication
    gw,        \* the rows as the gateway's REST API shows them
    reported,  \* per charge point, the stamp of its newest connector status
    handled,   \* the events the Kafka tail handed out, in order, each with the
               \* subscriptions that were registered then (history)
    sock,      \* the WebSockets: "new", "open", "closed"
    conns,     \* keys of broker.connections
    attached,  \* is broker.onKafkaEvent registered with the tail?
    subs,      \* conn.subscriptions of each connection object
    owner,     \* the connection a subscribe call came in on
    query,     \* its query and params
    call,      \* how far the call is
    snap,      \* the snapshot it read at the gateway
    asked,     \* resolver runs whose gateway request was not served yet
    answered,  \* resolver runs whose gateway response is on its way back
    out,       \* what the client was sent for each subscription
    lost       \* subscriptions for which a resolver run failed (history)

world == <<kafka, gw, reported>>
calls == <<owner, query, call, snap>>
runs  == <<asked, answered>>
vars  == <<world, handled, sock, conns, attached, subs, calls, runs, out, lost>>

-----------------------------------------------------------------------------
(* The resolvers (broker/queries.ts).                                      *)

ListTopics   == {"cp.boot", "cp.status", "cp.connected", "cp.disconnected"}
DetailTopics == ListTopics \cup {"cp.diagnostics_status", "cp.firmware_status"}

TopicsOf(name) ==
    CASE name = "charge-points"       -> ListTopics
      [] name = "charge-point"        -> DetailTopics
      [] name = "transactions-active" -> {"tx.started"}
      [] name = "meter-history"       -> {"cp.meter"}
      [] name = "status-history"      -> {"cp.status"}
      [] name = "device-events"       -> Topic

PerCharger == {"charge-point", "meter-history", "status-history", "device-events"}

\* These two resolvers re-fetch the row from the gateway.
Refetches(q) == q.name \in {"charge-points", "charge-point"}

\* Does the event make the resolver of q do something?  A per-charger query
\* without cp_id makes stringParam throw, and the run ends in resolver_failed.
Relevant(q, e) ==
    /\ e.topic \in TopicsOf(q.name)
    /\ q.name = "charge-points" => e.cp # NoCp
    /\ q.name \in PerCharger => q.cp # NoCp /\ e.cp = q.cp
    /\ Refetches(q) \/ e.n > 0

Matches(q, row) == row.online \in q.online

\* The deltas of a resolver that needs no gateway request.  One MeterValues
\* report fans out into one append per sampled value.
Streamed(q, i) ==
    IF q.name = "meter-history"
    THEN [k \in 1..kafka[i].n |-> [type |-> "append", ev |-> i]]
    ELSE <<[type |-> "append", ev |-> i]>>

\* Mutant: the event is not patched into the row.
MergeNothing(row, i) == row

\* mergeConnectorFromStatusEvent: patch the connector status of the event into
\* the row unless the row already has one that is as new.
Merge(row, i) ==
    IF kafka[i].topic = "cp.status" /\ kafka[i].n > 0 /\ row.at < i
    THEN [row EXCEPT !.at = i]
    ELSE row

\* Mutant: the filter is only applied by the snapshot.
FromRowUnfiltered(q, i, row) == [type |-> "upsert", ev |-> i, row |-> Merge(row, i)]

\* Mutant: the remove op does not say which row.
FromRowAnonymous(q, i, row) ==
    IF q.name = "charge-points" /\ ~Matches(q, row)
    THEN [type |-> "remove", ev |-> i]
    ELSE [type |-> "upsert", ev |-> i, row |-> row]

\* The delta of a re-fetching resolver, from the row the gateway returned.
FromRow(q, i, row) ==
    IF q.name = "charge-points"
    THEN LET merged == Merge(row, i)
         IN  IF Matches(q, merged)
             THEN [type |-> "upsert", ev |-> i, row |-> merged]
             ELSE [type |-> "remove", ev |-> i, cp |-> row.cp]
    ELSE [type |-> "upsert", ev |-> i, row |-> row]

\* What the snapshot of q shows when the gateway reads it.
SnapshotOf(q) ==
    CASE q.name = "charge-points" -> {gw[p] : p \in {x \in CP : Matches(q, gw[x])}}
      [] q.name = "charge-point"  -> {gw[q.cp]}
      [] OTHER                    -> {}

\* The snapshots that are answered without leaving the process.
Immediate(q) ==
    \/ q.name \in {"meter-history", "status-history"}
    \/ q.name = "device-events" /\ q.cp = NoCp

\* chargePoint.snapshot is the only one that insists on its cp_id.
BadParams(q) == q.name = "charge-point" /\ q.cp = NoCp

-----------------------------------------------------------------------------
(* Writing on a socket that is no longer open is silently dropped.         *)

Send(s, msgs) ==
    out' = [out EXCEPT ![s] = IF sock[owner[s]] = "open" THEN @ \o msgs ELSE @]

Init ==
    /\ kafka = <<>>
    /\ gw = [p \in CP |-> [cp |-> p, rev |-> 0, online |-> FALSE, at |-> 0]]
    /\ reported = [p \in CP |-> 0]
    /\ handled = <<>>
    /\ sock = [c \in Conn |-> "new"]
    /\ conns = {}
    /\ attached = TRUE
    /\ subs = [c \in Conn |-> {}]
    /\ owner = [s \in Sub |-> NoConn]
    /\ query \in [Sub -> Query]
    /\ call = [s \in Sub |-> "idle"]
    /\ snap = [s \in Sub |-> {}]
    /\ asked = {}
    /\ answered = {}
    /\ out = [s \in Sub |-> <<>>]
    /\ lost = {}

-----------------------------------------------------------------------------
(* The gateway and its Kafka topics (external).                            *)

Updated(row, topic, i) ==
    [row EXCEPT !.rev = i,
                !.online = \/ topic = "cp.connected"
                           \/ topic # "cp.disconnected" /\ row.online]

\* A charge point does something: the gateway updates the row it serves and
\* publishes an event.  The connector status of the row comes from another
\* database, which Ingest brings up to date later.
Publish(topic, p, n) ==
    LET i == Len(kafka) + 1
    IN  /\ i <= MaxEvents
        /\ topic # "cp.meter" => n <= 1
        /\ kafka' = Append(kafka, [topic |-> topic, cp |-> p, n |-> n])
        /\ gw' = IF p \in CP /\ topic \in DetailTopics
                 THEN [gw EXCEPT ![p] = Updated(@, topic, i)]
                 ELSE gw
        /\ reported' = IF p \in CP /\ topic = "cp.status" /\ n > 0
                       THEN [reported EXCEPT ![p] = i]
                       ELSE reported
        /\ UNCHANGED <<handled, sock, conns, attached, subs, calls, runs, out, lost>>

\* The ingestor flushes a charge point's newest status to ClickHouse.
Ingest(p) ==
    /\ gw[p].at # reported[p]
    /\ gw' = [gw EXCEPT ![p].at = reported[p]]
    /\ UNCHANGED <<kafka, reported, handled, sock, conns, attached, subs, calls,
                   runs, out, lost>>

-----------------------------------------------------------------------------
(* Connections (routes/ws.ts).                                             *)

\* Subprotocol or token refused: the socket is closed and the broker never
\* hears of it.
RefuseConnection(c) ==
    /\ sock[c] = "new"
    /\ sock' = [sock EXCEPT ![c] = "closed"]
    /\ UNCHANGED <<world, handled, conns, attached, subs, calls, runs, out, lost>>

RegisterConnection(c) ==
    /\ sock[c] = "new"
    /\ sock' = [sock EXCEPT ![c] = "open"]
    /\ conns' = conns \cup {c}
    /\ UNCHANGED <<world, handled, attached, subs, calls, runs, out, lost>>

\* The socket closes for whatever reason (client, network, missed heartbeat).
RemoveConnection(c) ==
    /\ sock[c] = "open"
    /\ sock' = [sock EXCEPT ![c] = "closed"]
    /\ conns' = conns \ {c}
    /\ UNCHANGED <<world, handled, attached, subs, calls, runs, out, lost>>

\* broker.stop(), at shutdown: sockets are still open when it runs.
Stop ==
    /\ attached
    /\ attached' = FALSE
    /\ conns' = {}
    /\ UNCHANGED <<world, handled, sock, subs, calls, runs, out, lost>>

-----------------------------------------------------------------------------
(* Subscribe and unsubscribe.                                              *)

\* A subscribe message that is refused before any gateway request.
SubscribeRefused(c, s) ==
    /\ sock[c] = "open"
    /\ call[s] = "idle"
    /\ c \notin conns \/ BadParams(query[s])
    /\ owner' = [owner EXCEPT ![s] = c]
    /\ call' = [call EXCEPT ![s] = "failed"]
    /\ out' = [out EXCEPT ![s] = @ \o <<[type |-> "error"]>>]
    /\ UNCHANGED <<world, handled, sock, conns, attached, subs, query, snap, runs, lost>>

\* Mutant: the subscription is registered before its snapshot is awaited.
SubscribeAskEager(c, s) ==
    /\ sock[c] = "open"
    /\ call[s] = "idle"
    /\ c \in conns /\ ~BadParams(query[s]) /\ ~Immediate(query[s])
    /\ owner' = [owner EXCEPT ![s] = c]
    /\ call' = [call EXCEPT ![s] = "asked"]
    /\ subs' = [subs EXCEPT ![c] = @ \cup {s}]
    /\ UNCHANGED <<world, handled, sock, conns, attached, query, snap, runs, out, lost>>

\* A subscribe message whose snapshot needs an answer from outside.
SubscribeAsk(c, s) ==
    /\ sock[c] = "open"
    /\ call[s] = "idle"
    /\ c \in conns /\ ~BadParams(query[s]) /\ ~Immediate(query[s])
    /\ owner' = [owner EXCEPT ![s] = c]
    /\ call' = [call EXCEPT ![s] = "asked"]
    /\ UNCHANGED <<world, handled, sock, conns, attached, subs, query, snap, runs,
                   out, lost>>

\* The gateway serves the snapshot request.
SnapshotRead(s) ==
    /\ call[s] = "asked"
    /\ call' = [call EXCEPT ![s] = "answered"]
    /\ snap' = [snap EXCEPT ![s] = SnapshotOf(query[s])]
    /\ UNCHANGED <<world, handled, sock, conns, attached, subs, owner, query, runs,
                   out, lost>>

Accepted(rows) == <<[type |-> "accepted"], [type |-> "snapshot", rows |-> rows]>>

\* The snapshot is back: only now is the subscription put into the map of the
\* connection object the call captured, and the client gets both messages.
SubscribeDone(s) ==
    /\ call[s] = "answered"
    /\ call' = [call EXCEPT ![s] = "done"]
    /\ subs' = [subs EXCEPT ![owner[s]] = @ \cup {s}]
    /\ Send(s, Accepted(snap[s]))
    /\ UNCHANGED <<world, handled, sock, conns, attached, owner, query, snap, runs, lost>>

\* A subscribe message that is answered at once, with an empty snapshot.
SubscribeAtOnce(c, s) ==
    /\ sock[c] = "open"
    /\ call[s] = "idle"
    /\ c \in conns /\ Immediate(query[s])
    /\ owner' = [owner EXCEPT ![s] = c]
    /\ call' = [call EXCEPT ![s] = "done"]
    /\ subs' = [subs EXCEPT ![c] = @ \cup {s}]
    /\ out' = [out EXCEPT ![s] = @ \o Accepted({})]
    /\ UNCHANGED <<world, handled, sock, conns, attached, query, snap, runs, lost>>

\* Mutant: a failing dispatch is logged and not answered.
SubscribeFailedSilently(s) ==
    /\ Fallible
    /\ query[s].name # "device-events"
    /\ call[s] \in {"asked", "answered"}
    /\ call' = [call EXCEPT ![s] = "failed"]
    /\ UNCHANGED <<world, handled, sock, conns, attached, subs, owner, query, snap,
                   runs, out, lost>>

\* The snapshot request failed: dispatch throws and the client gets an error.
SubscribeFailed(s) ==
    /\ Fallible
    /\ query[s].name # "device-events"   \* a log that cannot be read is empty
    /\ call[s] \in {"asked", "answered"}
    /\ call' = [call EXCEPT ![s] = "failed"]
    /\ Send(s, <<[type |-> "error"]>>)
    /\ UNCHANGED <<world, handled, sock, conns, attached, subs, owner, query, snap,
                   runs, lost>>

\* An unsubscribe message; an unknown id (or connection) changes nothing.
Unsubscribe(c, s) ==
    /\ sock[c] = "open"
    /\ c \in conns
    /\ s \in subs[c]
    /\ subs' = [subs EXCEPT ![c] = @ \ {s}]
    /\ UNCHANGED <<world, handled, sock, conns, attached, calls, runs, out, lost>>

-----------------------------------------------------------------------------
(* Kafka events (broker.onKafkaEvent).                                     *)

Handled == {handled[k].ev : k \in 1..Len(handled)}

\* Events with the same topic and key share a partition and come in order.
NextOfPartition(i) ==
    /\ i \notin Handled
    /\ \A j \in 1..(i - 1) :
          (kafka[j].topic = kafka[i].topic /\ kafka[j].cp = kafka[i].cp)
             => j \in Handled

\* The subscriptions the loops of onKafkaEvent reach.
Registered ==
    {s \in Sub : attached /\ owner[s] \in conns /\ s \in subs[owner[s]]}

\* Those whose resolver has something to do with event i.
Interested(i) == {s \in Registered : Relevant(query[s], kafka[i])}

\* Mutant: a subscription that is waiting for the gateway skips the event.
OnKafkaEventCoalesced(i) ==
    /\ NextOfPartition(i)
    /\ handled' = Append(handled, [ev |-> i, live |-> Registered])
    /\ asked' = asked \cup
                {[sub |-> s, ev |-> i] :
                    s \in {x \in Interested(i) : Refetches(query[x])
                                                /\ \A t \in asked : t.sub # x}}
    /\ UNCHANGED <<world, sock, conns, attached, subs, calls, answered, out, lost>>

\* Mutant: the newest appended value comes first.
OnKafkaEventNewestFirst(i) ==
    /\ NextOfPartition(i)
    /\ handled' = Append(handled, [ev |-> i, live |-> Registered])
    /\ out' = [s \in Sub |->
                 IF s \in Interested(i) /\ ~Refetches(query[s])
                 THEN Streamed(query[s], i) \o out[s]
                 ELSE out[s]]
    /\ UNCHANGED <<world, sock, conns, attached, subs, calls, runs, lost>>

\* The tail hands event i to the broker.  Every resolver that needs no gateway
\* request delivers before the process takes another event; the others start.
OnKafkaEvent(i) ==
    /\ NextOfPartition(i)
    /\ handled' = Append(handled, [ev |-> i, live |-> Registered])
    /\ out' = [s \in Sub |->
                 IF s \in Interested(i) /\ ~Refetches(query[s])
                 THEN out[s] \o Streamed(query[s], i)
                 ELSE out[s]]
    /\ asked' = asked \cup
                {[sub |-> s, ev |-> i] :
                    s \in {x \in Interested(i) : Refetches(query[x])}}
    /\ UNCHANGED <<world, sock, conns, attached, subs, calls, answered, lost>>

\* The gateway serves the GET of a resolver run.
RowRead(t) ==
    /\ asked' = asked \ {t}
    /\ answered' = answered \cup
                   {[sub |-> t.sub, ev |-> t.ev, row |-> gw[kafka[t.ev].cp]]}
    /\ UNCHANGED <<world, handled, sock, conns, attached, subs, calls, out, lost>>

\* Its response arrives and the delta is delivered, on whatever has become of
\* the subscription meanwhile.
RowDelivered(t) ==
    /\ answered' = answered \ {t}
    /\ Send(t.sub, <<FromRow(query[t.sub], t.ev, t.row)>>)
    /\ UNCHANGED <<world, handled, sock, conns, attached, subs, calls, asked, lost>>

\* The GET fails: the resolver returns no delta and nothing retries it.
RowFailed(t) ==
    /\ Fallible
    /\ asked' = asked \ {t}
    /\ lost' = lost \cup {t.sub}
    /\ UNCHANGED <<world, handled, sock, conns, attached, subs, calls, answered, out>>

-----------------------------------------------------------------------------
Next ==
    \/ \E topic \in Topics, p \in CP \cup {NoCp}, n \in 0..MaxSamples :
          Publish(topic, p, n)
    \/ \E p \in CP : Ingest(p)
    \/ \E c \in Conn : \/ RefuseConnection(c)
                       \/ RegisterConnection(c)
                       \/ RemoveConnection(c)
    \/ Stop
    \/ \E c \in Conn, s \in Sub : \/ SubscribeRefused(c, s)
                                  \/ SubscribeAsk(c, s)
                                  \/ SubscribeAtOnce(c, s)
                                  \/ Unsubscribe(c, s)
    \/ \E s \in Sub : \/ SnapshotRead(s)
                      \/ SubscribeDone(s)
                      \/ SubscribeFailed(s)
    \/ \E i \in 1..Len(kafka) : OnKafkaEvent(i)
    \/ \E t \in asked : RowRead(t) \/ RowFailed(t)
    \/ \E t \in answered : RowDelivered(t)

Spec == Init /\ [][Next]_vars

\* The gateway answers every request or the HTTP client gives up on it (undici's
\* default timeouts), and the event loop runs every continuation.
Fairness ==
    \A s \in Sub : /\ WF_vars(SnapshotRead(s))
                    /\ WF_vars(SubscribeDone(s) \/ SubscribeFailed(s))

FairSpec == Spec /\ Fairness

-----------------------------------------------------------------------------
(* Properties.                                                             *)

Run == [sub : Sub, ev : Nat]

\* Every variable keeps the type of the broker field or wire message it models.
TypeOK ==
    /\ kafka \in Seq(Event)
    /\ gw \in [CP -> Row]
    /\ reported \in [CP -> Nat]
    /\ handled \in Seq([ev : Nat, live : SUBSET Sub])
    /\ sock \in [Conn -> {"new", "open", "closed"}]
    /\ conns \in SUBSET Conn
    /\ attached \in BOOLEAN
    /\ subs \in [Conn -> SUBSET Sub]
    /\ owner \in [Sub -> Conn \cup {NoConn}]
    /\ query \in [Sub -> Query]
    /\ call \in [Sub -> {"idle", "asked", "answered", "done", "failed"}]
    /\ snap \in [Sub -> SUBSET Row]
    /\ asked \in SUBSET Run
    /\ answered \in SUBSET [sub : Sub, ev : Nat, row : Row]
    /\ out \in [Sub -> Seq(Message)]
    /\ lost \in SUBSET Sub

DeltaType == {"append", "upsert", "remove"}

\* How many deltas of subscription s came from event i.
Delivered(s, i) ==
    Cardinality({k \in 1..Len(out[s]) :
                    out[s][k].type \in DeltaType /\ out[s][k].ev = i})

\* How many resolver runs of s for event i are still waiting for the gateway.
Waiting(s, i) ==
    Cardinality({t \in asked : t.sub = s /\ t.ev = i})
      + Cardinality({t \in answered : t.sub = s /\ t.ev = i})

\* How many deltas event i owes to a query q.
Owed(q, i) ==
    IF ~Relevant(q, kafka[i]) THEN 0
    ELSE IF q.name = "meter-history" THEN kafka[i].n ELSE 1

\* onKafkaEvent loses and duplicates nothing: while a socket stays open and the
\* gateway does not fail, an event handled while s was registered (also when s
\* was unsubscribed since, or when the broker was stopped since) is delivered to
\* s exactly as often as the query asks, counting the runs still under way, and
\* an event handled while s was not registered is never delivered to it.
EveryEventOnce ==
    \A s \in Sub : \A k \in 1..Len(handled) :
        LET i == handled[k].ev
        IN  /\ s \notin handled[k].live => Delivered(s, i) + Waiting(s, i) = 0
            /\ (/\ s \in handled[k].live
                /\ sock[owner[s]] = "open"
                /\ s \notin lost) => Delivered(s, i) + Waiting(s, i) = Owed(query[s], i)

\* The queries that append to a stream (or add transactions) deliver in the order
\* in which the tail handed the events out, though the resolvers are async.
StreamsInOrder ==
    \A s \in Sub : \A a, b \in 1..Len(out[s]) :
        /\ a < b
        /\ out[s][a].type = "append"
        /\ out[s][b].type = "append"
        => \E j, k \in 1..Len(handled) :
              j <= k /\ handled[j].ev = out[s][a].ev /\ handled[k].ev = out[s][b].ev

Belongs(q, m) ==
    /\ m.type \in DeltaType => /\ m.ev \in 1..Len(kafka)
                               /\ Relevant(q, kafka[m.ev])
    /\ m.type = "upsert" => /\ m.row.cp = kafka[m.ev].cp
                            /\ q.name = "charge-points" => Matches(q, m.row)
    /\ m.type = "snapshot" /\ q.name = "charge-points"
          => \A row \in m.rows : Matches(q, row)

\* A subscriber only gets what its params ask for: a delta comes from an event of
\* one of the query's topics, about the query's charge point where there is one,
\* and a row that is sent is of that charge point and passes the list's filter.
RowsBelong ==
    \A s \in Sub : \A k \in 1..Len(out[s]) : Belongs(query[s], out[s][k])

\* The fleet list shows a connector status at the latest with the event that
\* reports it, however far the gateway's own copy lags behind.
ListShowsStatus ==
    \A s \in Sub : \A k \in 1..Len(out[s]) :
        LET m == out[s][k]
        IN  /\ query[s].name = "charge-points"
            /\ m.type = "upsert"
            /\ kafka[m.ev].topic = "cp.status" /\ kafka[m.ev].n > 0
            => m.row.at >= m.ev

\* Every subscribe message on a socket that stays open is answered: the call
\* ends, and if the socket is open the client has its answer.
SubscribeAnswered ==
    \A s \in Sub :
        (call[s] \in {"asked", "answered"})
            ~> (\/ \E c \in Conn : owner[s] = c /\ sock[c] = "closed"
                \/ out[s] # <<>>)

\* Only the kind of a message matters to the wire protocol.
KindOf(m) == IF m.type \in DeltaType THEN "delta" ELSE m.type

KindSeq(a) == [k \in 1..Len(a) |-> KindOf(a[k])]

Kinds == [s \in Sub |-> KindSeq(out[s])]

Wire == INSTANCE SnapshotTail WITH wire <- Kinds

\* The server keeps the snapshot + tail protocol for every subscription: one
\* answer per subscribe call, accepted and snapshot before any delta, and no
\* delta on a call that was refused, though deltas and answers are produced by
\* continuations that run in any order.
SnapshotThenTail == Wire!Spec

-----------------------------------------------------------------------------
(* What the documentation says of the code and the code does not do.       *)

\* The deltas of one subscription never replace a row by an older one (the
\* architecture document promises that stale duplicates are ignored).
RowsNeverGoBack ==
    \A s \in Sub : \A a, b \in 1..Len(out[s]) :
        (/\ a < b
         /\ out[s][a].type = "upsert"
         /\ out[s][b].type = "upsert"
         /\ out[s][a].row.cp = out[s][b].row.cp)
        => out[s][a].row.rev <= out[s][b].row.rev

\* The newest row of charge point p that subscription s was sent.
ShowsRev(s, p, rev) ==
    \E k \in 1..Len(out[s]) :
        \/ out[s][k].type = "snapshot" /\ \E row \in out[s][k].rows :
              row.cp = p /\ row.rev >= rev
        \/ out[s][k].type = "upsert" /\ out[s][k].row.cp = p /\ out[s][k].row.rev >= rev

\* Once every event was handled and no request is under way, a subscriber to one
\* charge point was shown its current row ("no consistency window").
ViewCatchesUp ==
    \A s \in Sub :
        (/\ query[s].name = "charge-point"
         /\ call[s] = "done"
         /\ owner[s] \in conns
         /\ s \in subs[owner[s]]
         /\ s \notin lost
         /\ Len(handled) = Len(kafka)
         /\ asked = {} /\ answered = {})
        => ShowsRev(s, query[s].cp, gw[query[s].cp].rev)

\* A subscribe call that lacks a required cp_id is refused (docs/03-protocol.md).
MissingParamRefused ==
    \A s \in Sub : (query[s].name \in PerCharger /\ query[s].cp = NoCp)
        => \A k \in 1..Len(out[s]) : out[s][k].type = "error"

\* The detail query shows a connector status with the event that reports it, as
\* the list query does.
DetailShowsStatus ==
    \A s \in Sub : \A k \in 1..Len(out[s]) :
        LET m == out[s][k]
        IN  /\ query[s].name = "charge-point"
            /\ m.type = "upsert"
            /\ kafka[m.ev].topic = "cp.status" /\ kafka[m.ev].n > 0
            => m.row.at >= m.ev
=============================================================================
