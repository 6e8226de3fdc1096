---------------------------- MODULE BrokerProofs ----------------------------
(***************************************************************************)
(* Proofs about Broker, for any sets of connections, subscriptions and     *)
(* charge points and any number of events.                                 *)
(***************************************************************************)
EXTENDS Broker, SequenceTheorems, FiniteSetTheorems, TLAPS

\* A call that left the idle state belongs to a connection, and one that waits
\* for its snapshot has the parameters the snapshot needs.
CallsOK ==
    \A s \in Sub : /\ call[s] # "idle" <=> owner[s] \in Conn
                   /\ call[s] \in {"asked", "answered"} => ~BadParams(query[s])

\* A resolver run that waits for the gateway is about a published event that
\* concerns its query, and its subscription belongs to a connection.
RunOK(t) ==
    /\ t.ev \in 1..Len(kafka)
    /\ Refetches(query[t.sub])
    /\ Relevant(query[t.sub], kafka[t.ev])
    /\ owner[t.sub] \in Conn

\* The rows that are on their way belong to what was asked for.
RowsOK ==
    /\ \A p \in CP : gw[p].cp = p
    /\ \A s \in Sub : query[s].name = "charge-points"
          => \A row \in snap[s] : Matches(query[s], row)
    /\ \A t \in answered : t.row.cp = kafka[t.ev].cp

\* TypeOK and RowsBelong are not inductive on their own: what a pending call or
\* a pending resolver run will deliver has to be constrained as well.
IInv ==
    /\ TypeOK
    /\ CallsOK
    /\ \A t \in asked \cup answered : RunOK(t)
    /\ RowsOK
    /\ RowsBelong

-----------------------------------------------------------------------------
(* Facts about the resolvers.                                              *)

\* What the gateway does to a row keeps it a row of the same charge point.
LEMMA RowType ==
    ASSUME NEW row \in Row, NEW n \in Nat, NEW topic
    PROVE  /\ [row EXCEPT !.at = n] \in Row
           /\ [row EXCEPT !.at = n].cp = row.cp
           /\ [row EXCEPT !.at = n].online = row.online
           /\ Updated(row, topic, n) \in Row
           /\ Updated(row, topic, n).cp = row.cp
  BY DEF Row, Updated

\* The wire messages.
LEMMA MessageType ==
    /\ [type |-> "accepted"] \in Message
    /\ [type |-> "error"] \in Message
    /\ \A rows \in SUBSET Row : [type |-> "snapshot", rows |-> rows] \in Message
    /\ \A i \in Nat : [type |-> "append", ev |-> i] \in Message
    /\ \A i \in Nat, row \in Row : [type |-> "upsert", ev |-> i, row |-> row] \in Message
    /\ \A i \in Nat, p \in CP : [type |-> "remove", ev |-> i, cp |-> p] \in Message
  BY DEF Message

\* The delta of a resolver run whose row came back is a message that belongs to
\* the subscriber.
LEMMA FromRowBelongs ==
    ASSUME TypeOK,
           NEW q \in QueryType, NEW i \in 1..Len(kafka), NEW row \in Row,
           Relevant(q, kafka[i]), row.cp = kafka[i].cp
    PROVE  /\ FromRow(q, i, row) \in Message
           /\ Belongs(q, FromRow(q, i, row))
  <1>1. Merge(row, i) \in Row /\ Merge(row, i).cp = row.cp
    BY RowType DEF Merge
  <1>2. row.cp \in CP
    BY DEF Row
  <1> QED
    BY <1>1, <1>2, MessageType DEF FromRow, Belongs, DeltaType

\* So is every delta of a stream.
LEMMA StreamedBelongs ==
    ASSUME TypeOK,
           NEW q \in QueryType, NEW i \in 1..Len(kafka), Relevant(q, kafka[i])
    PROVE  /\ Streamed(q, i) \in Seq(Message)
           /\ \A k \in 1..Len(Streamed(q, i)) : Belongs(q, Streamed(q, i)[k])
  <1>1. kafka[i] \in Event
    BY DEF TypeOK
  <1>2. kafka[i].n \in Nat
    BY <1>1 DEF Event
  <1>3. [type |-> "append", ev |-> i] \in Message
    BY MessageType
  <1>4. Belongs(q, [type |-> "append", ev |-> i])
    BY DEF Belongs, DeltaType
  <1> QED
    BY <1>2, <1>3, <1>4 DEF Streamed

-----------------------------------------------------------------------------
(* Steps that write on a socket, and steps that do not.                    *)

\* Whatever belongs to the subscriber may be written on its socket.
LEMMA SentBelongs ==
    ASSUME TypeOK, RowsBelong, NEW s \in Sub, NEW msgs \in Seq(Message),
           \A k \in 1..Len(msgs) : Belongs(query[s], msgs[k]),
           Send(s, msgs) \/ out' = [out EXCEPT ![s] = @ \o msgs],
           kafka' = kafka, query' = query
    PROVE  /\ out' \in [Sub -> Seq(Message)]
           /\ RowsBelong'
  <1>1. out \in [Sub -> Seq(Message)]
    BY DEF TypeOK
  <1>2. out[s] \o msgs \in Seq(Message)
    BY <1>1
  <1>3. out' = out \/ out' = [out EXCEPT ![s] = @ \o msgs]
    BY <1>1 DEF Send
  <1>4. out' \in [Sub -> Seq(Message)]
    BY <1>1, <1>2, <1>3
  <1>5. ASSUME NEW r \in Sub, NEW k \in 1..Len(out'[r])
        PROVE  Belongs(query[r], out'[r][k])
    <2>1. CASE out'[r] = out[r]
      BY <2>1, <1>5 DEF RowsBelong
    <2>2. CASE out'[r] # out[r]
      <3>1. r = s /\ out'[r] = out[s] \o msgs
        BY <1>1, <1>3, <2>2
      <3>2. CASE k \in 1..Len(out[s])
        <4>1. out'[r][k] = out[s][k]
          BY <1>1, <3>1, <3>2
        <4> QED
          BY <3>1, <3>2, <4>1 DEF RowsBelong
      <3>3. CASE k \notin 1..Len(out[s])
        <4>1. /\ k - Len(out[s]) \in 1..Len(msgs)
              /\ out'[r][k] = msgs[k - Len(out[s])]
          BY <1>1, <1>5, <3>1, <3>3
        <4> QED
          BY <3>1, <4>1
      <3> QED
        BY <3>2, <3>3
    <2> QED
      BY <2>1, <2>2
  <1>6. \A r \in Sub : \A m : Belongs(query[r], m) => Belongs(query[r], m)'
    BY DEF Belongs
  <1> QED
    BY <1>4, <1>5, <1>6 DEF RowsBelong

\* What was written keeps belonging while the log only grows.
LEMMA KeptBelongs ==
    ASSUME RowsBelong, out' = out, query' = query,
           Len(kafka) \in Nat, Len(kafka') \in Nat, Len(kafka') >= Len(kafka),
           \A i \in 1..Len(kafka) : kafka'[i] = kafka[i]
    PROVE  RowsBelong'
  <1>1. ASSUME NEW s \in Sub, NEW k \in 1..Len(out[s]), Belongs(query[s], out[s][k])
        PROVE  Belongs(query[s], out[s][k])'
    <2> DEFINE m == out[s][k]
    <2>1. m.ev \in 1..Len(kafka) => m.ev \in 1..Len(kafka') /\ kafka'[m.ev] = kafka[m.ev]
      OBVIOUS
    <2>2. m.type = "upsert" => m.type \in DeltaType
      BY DEF DeltaType
    <2> QED
      BY <1>1, <2>1, <2>2 DEF Belongs
  <1> QED
    BY <1>1 DEF RowsBelong

\* The runs that wait keep being about a published event while the log only
\* grows and the calls keep their connection.
LEMMA KeptRuns ==
    ASSUME NEW t, RunOK(t), query' = query, owner'[t.sub] = owner[t.sub],
           Len(kafka) \in Nat, Len(kafka') \in Nat, Len(kafka') >= Len(kafka),
           \A i \in 1..Len(kafka) : kafka'[i] = kafka[i]
    PROVE  RunOK(t)'
  BY DEF RunOK

\* The row a run waits for is the row of a charge point.
LEMMA RunOfChargePoint ==
    ASSUME TypeOK, NEW t \in asked \cup answered, RunOK(t)
    PROVE  kafka[t.ev].cp \in CP
  <1>1. kafka[t.ev] \in Event /\ query[t.sub] \in QueryType
    BY BrokerAssumption DEF TypeOK, RunOK, Run
  <1> QED
    BY <1>1, BrokerAssumption DEF RunOK, Relevant, Refetches, Event, QueryType, PerCharger

-----------------------------------------------------------------------------
(* The invariant is inductive.                                             *)

\* Init establishes the invariant.
LEMMA InitInv == Init => IInv
  BY BrokerAssumption
     DEF Init, IInv, TypeOK, Row, Run, CallsOK, RowsOK, RowsBelong, Belongs

\* A step that leaves kafka, the calls and what was sent alone keeps RowsBelong
\* and the parts of the invariant about the calls.
LEMMA NextInv == IInv /\ [Next]_vars => IInv'
  <1> SUFFICES ASSUME IInv, [Next]_vars
               PROVE  IInv'
    OBVIOUS
  <1>0. /\ TypeOK /\ CallsOK /\ RowsOK /\ RowsBelong
        /\ \A t \in asked \cup answered : RunOK(t)
        /\ Len(kafka) \in Nat
    BY DEF IInv, TypeOK
  <1>1. ASSUME NEW topic \in Topics, NEW p \in CP \cup {NoCp}, NEW n \in 0..MaxSamples,
               Publish(topic, p, n)
        PROVE  IInv'
    <2> DEFINE e == [topic |-> topic, cp |-> p, n |-> n]
    <2>1. e \in Event
      BY BrokerAssumption DEF Event
    <2>2. kafka \in Seq(Event) /\ kafka' = Append(kafka, e)
      BY <1>0, <1>1 DEF Publish, TypeOK
    <2>3. /\ kafka' \in Seq(Event)
          /\ Len(kafka') = Len(kafka) + 1
          /\ \A i \in 1..Len(kafka) : kafka'[i] = kafka[i]
      BY <2>1, <2>2
    <2>4. gw' \in [CP -> Row] /\ \A x \in CP : gw'[x].cp = x
      <3>1. gw \in [CP -> Row] /\ \A x \in CP : gw[x].cp = x
        BY <1>0 DEF TypeOK, RowsOK
      <3>2. CASE p \in CP /\ topic \in DetailTopics
        <4> DEFINE row == Updated(gw[p], topic, Len(kafka) + 1)
        <4>1. gw' = [gw EXCEPT ![p] = row]
          BY <1>1, <3>2, Zenon DEF Publish
        <4>2. row \in Row /\ row.cp = p
          <5>1. gw[p] \in Row /\ Len(kafka) + 1 \in Nat /\ gw[p].cp = p
            BY <1>0, <3>1, <3>2
          <5> QED
            BY <5>1, RowType, Zenon
        <4> QED
          BY <3>1, <4>1, <4>2
      <3>3. CASE ~(p \in CP /\ topic \in DetailTopics)
        BY <1>1, <3>1, <3>3 DEF Publish
      <3> QED
        BY <3>2, <3>3
    <2>5. reported' \in [CP -> Nat]
      BY <1>0, <1>1 DEF Publish, TypeOK
    <2>6. UNCHANGED <<handled, sock, conns, attached, subs, owner, query, call, snap,
                      asked, answered, out, lost>>
      BY <1>1 DEF Publish, calls, runs
    <2>7. TypeOK'
      BY <1>0, <2>3, <2>4, <2>5, <2>6 DEF TypeOK
    <2>8. CallsOK'
      BY <1>0, <2>6 DEF CallsOK, BadParams
    <2>9. \A t \in asked' \cup answered' : RunOK(t)'
      BY <1>0, <2>3, <2>6, KeptRuns
    <2>10. RowsOK'
      BY <1>0, <2>3, <2>4, <2>6 DEF RowsOK, RunOK, Matches
    <2>11. RowsBelong'
      BY <1>0, <2>3, <2>6, KeptBelongs
    <2> QED
      BY <2>7, <2>8, <2>9, <2>10, <2>11 DEF IInv
  <1>2. ASSUME NEW p \in CP, Ingest(p)
        PROVE  IInv'
    <2>1. gw' \in [CP -> Row] /\ \A x \in CP : gw'[x].cp = x
      <3> DEFINE row == [gw[p] EXCEPT !.at = reported[p]]
      <3>1. gw \in [CP -> Row] /\ \A x \in CP : gw[x].cp = x
        BY <1>0 DEF TypeOK, RowsOK
      <3>2. gw' = [gw EXCEPT ![p] = row]
        BY <1>2 DEF Ingest
      <3>3. row \in Row /\ row.cp = p
        BY <1>0, <3>1, RowType DEF TypeOK
      <3> QED
        BY <3>1, <3>2, <3>3
    <2>2. UNCHANGED <<kafka, reported, handled, sock, conns, attached, subs, owner,
                      query, call, snap, asked, answered, out, lost>>
      BY <1>2 DEF Ingest, calls, runs
    <2>3. TypeOK' /\ CallsOK' /\ RowsOK' /\ (\A t \in asked' \cup answered' : RunOK(t)')
      BY <1>0, <2>1, <2>2 DEF TypeOK, CallsOK, BadParams, RowsOK, Matches, RunOK
    <2> QED
      BY <1>0, <2>2, <2>3, KeptBelongs DEF IInv
  <1>3. CASE \/ \E c \in Conn : RefuseConnection(c) \/ RegisterConnection(c)
                                \/ RemoveConnection(c)
             \/ Stop
             \/ \E c \in Conn, s \in Sub : Unsubscribe(c, s)
    <2>1. UNCHANGED <<kafka, gw, reported, handled, owner, query, call, snap, asked,
                      answered, out, lost>>
      BY <1>3 DEF RefuseConnection, RegisterConnection, RemoveConnection, Stop,
                  Unsubscribe, world, calls, runs
    <2>2. /\ sock' \in [Conn -> {"new", "open", "closed"}]
          /\ conns' \in SUBSET Conn
          /\ attached' \in BOOLEAN
          /\ subs' \in [Conn -> SUBSET Sub]
      BY <1>0, <1>3 DEF TypeOK, RefuseConnection, RegisterConnection, RemoveConnection,
                        Stop, Unsubscribe
    <2>3. TypeOK' /\ CallsOK' /\ RowsOK' /\ (\A t \in asked' \cup answered' : RunOK(t)')
      BY <1>0, <2>1, <2>2 DEF TypeOK, CallsOK, BadParams, RowsOK, Matches, RunOK
    <2> QED
      BY <1>0, <2>1, <2>3, KeptBelongs DEF IInv
  <1>4. ASSUME NEW c \in Conn, NEW s \in Sub,
               SubscribeRefused(c, s) \/ SubscribeAtOnce(c, s)
        PROVE  IInv'
    <2>1. PICK msgs \in Seq(Message) :
              /\ out' = [out EXCEPT ![s] = @ \o msgs]
              /\ \A k \in 1..Len(msgs) : Belongs(query[s], msgs[k])
      <3>1. CASE SubscribeRefused(c, s)
        <4> DEFINE msgs == <<[type |-> "error"]>>
        <4>1. msgs \in Seq(Message) /\ \A k \in 1..Len(msgs) : Belongs(query[s], msgs[k])
          BY MessageType DEF Belongs, DeltaType
        <4>2. out' = [out EXCEPT ![s] = @ \o msgs]
          BY <3>1 DEF SubscribeRefused
        <4> QED
          BY <4>1, <4>2
      <3>2. CASE SubscribeAtOnce(c, s)
        <4>1. Accepted({}) \in Seq(Message)
          BY MessageType DEF Accepted
        <4>2. \A k \in 1..Len(Accepted({})) : Belongs(query[s], Accepted({})[k])
          BY DEF Accepted, Belongs, DeltaType
        <4> QED
          BY <3>2, <4>1, <4>2 DEF SubscribeAtOnce
      <3> QED
        BY <1>4, <3>1, <3>2
    <2>2. /\ UNCHANGED <<kafka, gw, reported, handled, sock, conns, attached, query,
                         snap, asked, answered, lost>>
          /\ call[s] = "idle"
          /\ owner' = [owner EXCEPT ![s] = c]
          /\ call' \in {[call EXCEPT ![s] = "failed"], [call EXCEPT ![s] = "done"]}
          /\ subs' \in {subs, [subs EXCEPT ![c] = @ \cup {s}]}
      BY <1>4 DEF SubscribeRefused, SubscribeAtOnce, world, runs
    <2>3. out' \in [Sub -> Seq(Message)] /\ RowsBelong'
      BY <1>0, <2>1, <2>2, SentBelongs
    <2>4. TypeOK'
      <3>1. /\ owner' \in [Sub -> Conn \cup {NoConn}]
            /\ call' \in [Sub -> {"idle", "asked", "answered", "done", "failed"}]
            /\ subs' \in [Conn -> SUBSET Sub]
        <4>1. /\ owner \in [Sub -> Conn \cup {NoConn}]
              /\ call \in [Sub -> {"idle", "asked", "answered", "done", "failed"}]
              /\ subs \in [Conn -> SUBSET Sub]
          BY <1>0 DEF TypeOK
        <4>2. subs' \in [Conn -> SUBSET Sub]
          <5>1. subs[c] \cup {s} \in SUBSET Sub
            BY <4>1
          <5> QED
            BY <2>2, <4>1, <5>1
        <4> QED
          BY <2>2, <4>1, <4>2
      <3> QED
        BY <1>0, <2>2, <2>3, <3>1 DEF TypeOK
    <2>5. CallsOK'
      BY <1>0, <2>2, BrokerAssumption DEF CallsOK, BadParams, TypeOK
    <2>6. \A t \in asked' \cup answered' : RunOK(t)'
      BY <1>0, <2>2, BrokerAssumption DEF RunOK, CallsOK, TypeOK, Run
    <2>7. RowsOK'
      BY <1>0, <2>2 DEF RowsOK, Matches
    <2> QED
      BY <2>3, <2>4, <2>5, <2>6, <2>7 DEF IInv
  <1>5. ASSUME NEW c \in Conn, NEW s \in Sub, SubscribeAsk(c, s)
        PROVE  IInv'
    <2>1. /\ UNCHANGED <<kafka, gw, reported, handled, sock, conns, attached, subs,
                         query, snap, asked, answered, out, lost>>
          /\ call[s] = "idle" /\ ~BadParams(query[s])
          /\ owner' = [owner EXCEPT ![s] = c]
          /\ call' = [call EXCEPT ![s] = "asked"]
      BY <1>5 DEF SubscribeAsk, world, runs
    <2>2. TypeOK'
      BY <1>0, <2>1 DEF TypeOK
    <2>3. CallsOK'
      BY <1>0, <2>1 DEF CallsOK, BadParams, TypeOK
    <2>4. \A t \in asked' \cup answered' : RunOK(t)'
      BY <1>0, <2>1, BrokerAssumption DEF RunOK, CallsOK, TypeOK, Run
    <2>5. RowsOK'
      BY <1>0, <2>1 DEF RowsOK, Matches
    <2> QED
      BY <1>0, <2>1, <2>2, <2>3, <2>4, <2>5, KeptBelongs DEF IInv
  <1>6. ASSUME NEW s \in Sub, SnapshotRead(s)
        PROVE  IInv'
    <2>1. /\ UNCHANGED <<kafka, gw, reported, handled, sock, conns, attached, subs,
                         owner, query, asked, answered, out, lost>>
          /\ call[s] = "asked"
          /\ call' = [call EXCEPT ![s] = "answered"]
          /\ snap' = [snap EXCEPT ![s] = SnapshotOf(query[s])]
      BY <1>6 DEF SnapshotRead, world, runs
    <2>2. /\ SnapshotOf(query[s]) \in SUBSET Row
          /\ query[s].name = "charge-points"
                => \A row \in SnapshotOf(query[s]) : Matches(query[s], row)
      <3>1. query[s] \in QueryType /\ ~BadParams(query[s])
        BY <1>0, <2>1, BrokerAssumption DEF CallsOK, TypeOK
      <3>2. query[s].name = "charge-point" => query[s].cp \in CP
        BY <3>1 DEF QueryType, BadParams
      <3> QED
        BY <1>0, <3>2 DEF SnapshotOf, TypeOK
    <2>3. TypeOK'
      BY <1>0, <2>1, <2>2 DEF TypeOK
    <2>4. CallsOK' /\ (\A t \in asked' \cup answered' : RunOK(t)')
      BY <1>0, <2>1 DEF CallsOK, BadParams, TypeOK, RunOK
    <2>5. RowsOK'
      BY <1>0, <2>1, <2>2 DEF RowsOK, Matches, TypeOK
    <2> QED
      BY <1>0, <2>1, <2>3, <2>4, <2>5, KeptBelongs DEF IInv
  <1>7. ASSUME NEW s \in Sub, SubscribeDone(s) \/ SubscribeFailed(s)
        PROVE  IInv'
    <2>1. PICK msgs \in Seq(Message) :
              /\ Send(s, msgs)
              /\ \A k \in 1..Len(msgs) : Belongs(query[s], msgs[k])
      <3>1. CASE SubscribeDone(s)
        <4>1. Accepted(snap[s]) \in Seq(Message)
          BY <1>0, MessageType DEF Accepted, TypeOK
        <4>2. \A k \in 1..Len(Accepted(snap[s])) : Belongs(query[s], Accepted(snap[s])[k])
          BY <1>0 DEF Accepted, Belongs, DeltaType, RowsOK
        <4> QED
          BY <3>1, <4>1, <4>2 DEF SubscribeDone
      <3>2. CASE SubscribeFailed(s)
        <4> DEFINE msgs == <<[type |-> "error"]>>
        <4>1. msgs \in Seq(Message) /\ \A k \in 1..Len(msgs) : Belongs(query[s], msgs[k])
          BY MessageType DEF Belongs, DeltaType
        <4> QED
          BY <3>2, <4>1 DEF SubscribeFailed
      <3> QED
        BY <1>7, <3>1, <3>2
    <2>2. /\ UNCHANGED <<kafka, gw, reported, handled, sock, conns, attached, owner,
                         query, snap, asked, answered, lost>>
          /\ call[s] \in {"asked", "answered"}
          /\ call' \in {[call EXCEPT ![s] = "failed"], [call EXCEPT ![s] = "done"]}
          /\ subs' \in {subs, [subs EXCEPT ![owner[s]] = @ \cup {s}]}
      BY <1>7 DEF SubscribeDone, SubscribeFailed, world, runs
    <2>3. out' \in [Sub -> Seq(Message)] /\ RowsBelong'
      BY <1>0, <2>1, <2>2, SentBelongs
    <2>4. TypeOK'
      <3>1. /\ call' \in [Sub -> {"idle", "asked", "answered", "done", "failed"}]
            /\ subs' \in [Conn -> SUBSET Sub]
        <4>1. /\ call \in [Sub -> {"idle", "asked", "answered", "done", "failed"}]
              /\ subs \in [Conn -> SUBSET Sub]
              /\ owner[s] \in Conn
          BY <1>0, <2>2 DEF TypeOK, CallsOK
        <4>2. subs[owner[s]] \cup {s} \in SUBSET Sub
          BY <4>1
        <4>3. subs' \in [Conn -> SUBSET Sub]
          BY <2>2, <4>1, <4>2
        <4> QED
          BY <2>2, <4>1, <4>3
      <3> QED
        BY <1>0, <2>2, <2>3, <3>1 DEF TypeOK
    <2>5. CallsOK' /\ RowsOK' /\ (\A t \in asked' \cup answered' : RunOK(t)')
      BY <1>0, <2>2 DEF CallsOK, BadParams, TypeOK, RunOK, RowsOK, Matches
    <2> QED
      BY <2>3, <2>4, <2>5 DEF IInv
  <1>8. ASSUME NEW i \in 1..Len(kafka), OnKafkaEvent(i)
        PROVE  IInv'
    <2>1. UNCHANGED <<kafka, gw, reported, sock, conns, attached, subs, owner, query,
                      call, snap, answered, lost>>
      BY <1>8 DEF OnKafkaEvent, world, calls
    <2>2. \A s \in Sub : Interested(i) \subseteq Sub /\ query[s] \in QueryType
      BY <1>0, BrokerAssumption DEF Interested, Registered, TypeOK
    <2>3. ASSUME NEW s \in Sub
          PROVE  /\ out'[s] \in Seq(Message)
                 /\ \A k \in 1..Len(out'[s]) : Belongs(query[s], out'[s][k])
      <3> DEFINE msgs == Streamed(query[s], i)
      <3>1. /\ out[s] \in Seq(Message)
            /\ \A k \in 1..Len(out[s]) : Belongs(query[s], out[s][k])
        BY <1>0 DEF TypeOK, RowsBelong
      <3>2. CASE s \in Interested(i) /\ ~Refetches(query[s])
        <4>1. /\ msgs \in Seq(Message)
              /\ \A k \in 1..Len(msgs) : Belongs(query[s], msgs[k])
          BY <1>0, <2>2, <3>2, StreamedBelongs DEF Interested
        <4>2. out'[s] = out[s] \o msgs
          BY <1>8, <3>2 DEF OnKafkaEvent
        <4> HIDE DEF msgs
        <4>3. ASSUME NEW k \in 1..Len(out'[s])
              PROVE  Belongs(query[s], out'[s][k])
          <5>1. CASE k \in 1..Len(out[s])
            BY <3>1, <4>1, <4>2, <5>1
          <5>2. CASE k \notin 1..Len(out[s])
            <6>1. k - Len(out[s]) \in 1..Len(msgs) /\ out'[s][k] = msgs[k - Len(out[s])]
              BY <3>1, <4>1, <4>2, <4>3, <5>2
            <6> QED
              BY <4>1, <6>1
          <5> QED
            BY <5>1, <5>2
        <4> QED
          BY <3>1, <4>1, <4>2, <4>3
      <3>3. CASE ~(s \in Interested(i) /\ ~Refetches(query[s]))
        <4>1. out'[s] = out[s]
          BY <1>8, <3>3 DEF OnKafkaEvent
        <4> QED
          BY <3>1, <4>1
      <3> QED
        BY <3>2, <3>3
    <2>4. out' \in [Sub -> Seq(Message)]
      BY <1>8, <2>3 DEF OnKafkaEvent
    <2>5. RowsBelong'
      BY <2>1, <2>3 DEF RowsBelong, Belongs
    <2>6. handled' \in Seq([ev : Nat, live : SUBSET Sub])
      <3>1. [ev |-> i, live |-> Registered] \in [ev : Nat, live : SUBSET Sub]
        BY DEF Registered
      <3> QED
        BY <1>0, <1>8, <3>1 DEF OnKafkaEvent, TypeOK
    <2>7. asked' \in SUBSET Run /\ \A t \in asked' : RunOK(t)
      <3>1. ASSUME NEW s \in Interested(i), Refetches(query[s])
            PROVE  [sub |-> s, ev |-> i] \in Run /\ RunOK([sub |-> s, ev |-> i])
        BY <1>0, <3>1 DEF Run, RunOK, Interested, Registered, TypeOK
      <3> QED
        BY <1>0, <1>8, <3>1 DEF OnKafkaEvent, TypeOK
    <2>8. TypeOK'
      BY <1>0, <2>1, <2>4, <2>6, <2>7 DEF TypeOK
    <2>9. CallsOK' /\ RowsOK' /\ (\A t \in asked' \cup answered' : RunOK(t)')
      BY <1>0, <2>1, <2>7 DEF CallsOK, BadParams, RowsOK, RunOK, Matches
    <2> QED
      BY <2>5, <2>8, <2>9 DEF IInv
  <1>9. ASSUME NEW t \in asked, RowRead(t) \/ RowFailed(t)
        PROVE  IInv'
    <2>1. /\ UNCHANGED <<kafka, gw, reported, handled, sock, conns, attached, subs,
                         owner, query, call, snap, out>>
          /\ asked' \subseteq asked
          /\ lost' \in {lost, lost \cup {t.sub}}
      BY <1>9 DEF RowRead, RowFailed, world, calls
    <2>2. t \in Run /\ kafka[t.ev].cp \in CP
      BY <1>0, RunOfChargePoint DEF TypeOK
    <2> DEFINE u == [sub |-> t.sub, ev |-> t.ev, row |-> gw[kafka[t.ev].cp]]
    <2>3. /\ u \in [sub : Sub, ev : Nat, row : Row]
          /\ u.row.cp = kafka[u.ev].cp
          /\ RunOK(u)
      BY <1>0, <2>2 DEF Run, TypeOK, RowsOK, RunOK
    <2>4. answered' \subseteq answered \cup {u}
      BY <1>9 DEF RowRead, RowFailed
    <2>5. TypeOK'
      BY <1>0, <2>1, <2>2, <2>3, <2>4 DEF TypeOK, Run
    <2>6. \A r \in asked' \cup answered' : RunOK(r)'
      BY <1>0, <2>1, <2>3, <2>4 DEF RunOK
    <2>7. CallsOK' /\ RowsOK'
      BY <1>0, <2>1, <2>3, <2>4 DEF CallsOK, BadParams, RowsOK, Matches
    <2> QED
      BY <1>0, <2>1, <2>5, <2>6, <2>7, KeptBelongs DEF IInv
  <1>10. ASSUME NEW t \in answered, RowDelivered(t)
         PROVE  IInv'
    <2> DEFINE m == FromRow(query[t.sub], t.ev, t.row)
    <2>1. /\ UNCHANGED <<kafka, gw, reported, handled, sock, conns, attached, subs,
                         owner, query, call, snap, asked, lost>>
          /\ answered' \subseteq answered
          /\ Send(t.sub, <<m>>)
      BY <1>10 DEF RowDelivered, world, calls
    <2>2. t.sub \in Sub /\ t.row \in Row /\ query[t.sub] \in QueryType /\ t.ev \in 1..Len(kafka)
      BY <1>0, BrokerAssumption DEF TypeOK, RunOK
    <2>3. m \in Message /\ Belongs(query[t.sub], m)
      BY <1>0, <2>2, FromRowBelongs DEF RunOK, RowsOK
    <2> HIDE DEF m
    <2>4. <<m>> \in Seq(Message) /\ \A k \in 1..Len(<<m>>) : Belongs(query[t.sub], <<m>>[k])
      BY <2>3
    <2>5. out' \in [Sub -> Seq(Message)] /\ RowsBelong'
      BY <1>0, <2>1, <2>2, <2>4, SentBelongs
    <2>6. TypeOK'
      BY <1>0, <2>1, <2>5 DEF TypeOK
    <2>7. CallsOK' /\ RowsOK' /\ (\A r \in asked' \cup answered' : RunOK(r)')
      BY <1>0, <2>1 DEF CallsOK, BadParams, RowsOK, RunOK, Matches
    <2> QED
      BY <2>5, <2>6, <2>7 DEF IInv
  <1>11. CASE UNCHANGED vars
    <2>1. UNCHANGED <<kafka, gw, reported, handled, sock, conns, attached, subs, owner,
                      query, call, snap, asked, answered, out, lost>>
      BY <1>11 DEF vars, world, calls, runs
    <2>2. TypeOK' /\ CallsOK' /\ RowsOK' /\ (\A t \in asked' \cup answered' : RunOK(t)')
      BY <1>0, <2>1 DEF TypeOK, CallsOK, BadParams, RowsOK, Matches, RunOK
    <2> QED
      BY <1>0, <2>1, <2>2, KeptBelongs DEF IInv
  <1> QED
    BY <1>1, <1>2, <1>3, <1>4, <1>5, <1>6, <1>7, <1>8, <1>9, <1>10, <1>11 DEF Next

\* The invariant holds in every reachable state.
LEMMA InvHolds == Spec => []IInv
  BY InitInv, NextInv, PTL DEF Spec

\* Every variable keeps its type, for any number of connections and events.
THEOREM TypeCorrect == Spec => []TypeOK
  <1>1. IInv => TypeOK
    BY DEF IInv
  <1> QED
    BY <1>1, InvHolds, PTL

\* A subscriber is only sent what its query and params ask for.
THEOREM SubscribersIsolated == Spec => []RowsBelong
  <1>1. IInv => RowsBelong
    BY DEF IInv
  <1> QED
    BY <1>1, InvHolds, PTL

-----------------------------------------------------------------------------
(* The broker implements SnapshotTail.                                     *)

\* Subscription s was sent its snapshot.
HasSnapshot(s) ==
    /\ Len(out[s]) >= 2
    /\ out[s][1].type = "accepted"
    /\ out[s][2].type = "snapshot"

\* What was sent for a call follows from how far the call is, and only a call that
\* is done can be registered or have resolver runs.  A call whose socket closed
\* before it was done was sent nothing and never will be.
CallWire(s) ==
    /\ call[s] \in {"idle", "asked", "answered"} => out[s] = <<>>
    /\ call[s] # "idle" => sock[owner[s]] # "new"
    /\ call[s] = "done" => HasSnapshot(s) \/ (out[s] = <<>> /\ sock[owner[s]] = "closed")

WireInv ==
    /\ \A s \in Sub : CallWire(s)
    /\ \A c \in Conn : \A s \in subs[c] : call[s] = "done"
    /\ \A t \in asked \cup answered : call[t.sub] = "done"
    /\ \A c \in conns : sock[c] = "open"

\* A step that sends nothing is a stutter of the wire.
LEMMA SilentStep == out' = out => UNCHANGED Kinds
  BY DEF Kinds, KindSeq, KindOf

\* The first message of a call answers it.
LEMMA AnswerStep ==
    ASSUME TypeOK, NEW s \in Sub, out[s] = <<>>, NEW msgs \in Seq(Message),
           \/ \E rows \in SUBSET Row : msgs = Accepted(rows)
           \/ msgs = <<[type |-> "error"]>>,
           out' = [out EXCEPT ![s] = @ \o msgs]
    PROVE  Wire!Next
  <1>1. out \in [Sub -> Seq(Message)]
    BY DEF TypeOK
  <1>3. out' = [out EXCEPT ![s] = msgs]
    BY <1>1
  <1> DEFINE kinds == [k \in 1..Len(msgs) |-> KindOf(msgs[k])]
  <1>4. kinds \in {<<"accepted", "snapshot">>, <<"error">>}
    <2>1. ASSUME NEW rows \in SUBSET Row, msgs = Accepted(rows)
          PROVE  kinds = <<"accepted", "snapshot">>
      BY <2>1 DEF Accepted, KindOf, DeltaType
    <2>2. ASSUME msgs = <<[type |-> "error"]>>
          PROVE  kinds = <<"error">>
      BY <2>2 DEF KindOf, DeltaType
    <2> QED
      BY <2>1, <2>2
  <1>5. Kinds' = [Kinds EXCEPT ![s] = kinds]
    BY <1>1, <1>3 DEF Kinds, KindSeq, KindOf
  <1>6. Kinds[s] = <<>>
    BY DEF Kinds, KindSeq
  <1>7. Wire!Answer(s)
    BY <1>4, <1>5, <1>6 DEF Wire!Answer, Wire!Opening
  <1> QED
    BY <1>7 DEF Wire!Next

\* Subscription s was sent nothing, or some deltas after its snapshot.
DeltasTo(s) ==
    \/ out'[s] = out[s]
    \/ /\ HasSnapshot(s)
       /\ \E msgs \in Seq(Message) : /\ out'[s] = out[s] \o msgs
                                     /\ \A k \in 1..Len(msgs) : msgs[k].type \in DeltaType

\* Appending deltas to messages that open with accepted and snapshot keeps the
\* kinds there were and adds only deltas.
LEMMA KindSeqGrows ==
    ASSUME NEW a \in Seq(Message), NEW msgs \in Seq(Message),
           Len(a) >= 2, a[1].type = "accepted", a[2].type = "snapshot",
           \A k \in 1..Len(msgs) : msgs[k].type \in DeltaType
    PROVE  \A old, new :
              old = KindSeq(a) /\ new = KindSeq(a \o msgs) =>
               /\ Len(old) >= 2
               /\ old[1] = "accepted" /\ old[2] = "snapshot"
               /\ Len(new) >= Len(old)
               /\ \A k \in 1..Len(old) : new[k] = old[k]
               /\ \A k \in (Len(old) + 1)..Len(new) : new[k] = "delta"
  <1> DEFINE old == KindSeq(a)
             new == KindSeq(a \o msgs)
  <1>1. Len(old) = Len(a) /\ Len(new) = Len(a) + Len(msgs)
    BY DEF KindSeq
  <1>2. old[1] = "accepted" /\ old[2] = "snapshot"
    BY DEF KindSeq, KindOf, DeltaType
  <1>5. \A k \in 1..Len(old) : new[k] = old[k]
    BY <1>1 DEF KindSeq
  <1>6. ASSUME NEW k \in (Len(old) + 1)..Len(new)
        PROVE  new[k] = "delta"
    <2>1. k - Len(a) \in 1..Len(msgs) /\ (a \o msgs)[k] = msgs[k - Len(a)]
      BY <1>1
    <2>2. KindOf((a \o msgs)[k]) = "delta"
      BY <2>1 DEF KindOf
    <2>3. new[k] = KindOf((a \o msgs)[k])
      BY <1>1 DEF KindSeq
    <2> QED
      BY <2>2, <2>3
  <1> QED
    BY <1>1, <1>2, <1>5, <1>6

\* The kinds of wire messages.
LEMMA KindSeqType ==
    ASSUME NEW a \in Seq(Message)
    PROVE  KindSeq(a) \in Seq({"accepted", "snapshot", "delta", "error"})
  <1>1. ASSUME NEW m \in Message
        PROVE  KindOf(m) \in {"accepted", "snapshot", "delta", "error"}
    BY <1>1 DEF KindOf, Message, DeltaType
  <1> QED
    BY <1>1 DEF KindSeq

\* A step that sends some subscriptions deltas is a step of the wire.
LEMMA DeltaStep ==
    ASSUME TypeOK, TypeOK', \A s \in Sub : DeltasTo(s)
    PROVE  Wire!Next
  <1> DEFINE S == {s \in Sub : out'[s] # out[s]}
  <1>1. out \in [Sub -> Seq(Message)] /\ out' \in [Sub -> Seq(Message)]
    BY DEF TypeOK
  <1>2. /\ Kinds = [s \in Sub |-> KindSeq(out[s])]
        /\ Kinds' = [s \in Sub |-> KindSeq(out'[s])]
    BY DEF Kinds, KindSeq, KindOf
  <1>4. Kinds' \in [Sub -> Seq({"accepted", "snapshot", "delta", "error"})]
    BY <1>1, <1>2, KindSeqType
  <1>5. ASSUME NEW s \in S
        PROVE  /\ Len(Kinds[s]) >= 2
               /\ Kinds[s][1] = "accepted" /\ Kinds[s][2] = "snapshot"
               /\ Len(Kinds'[s]) >= Len(Kinds[s])
               /\ \A k \in 1..Len(Kinds[s]) : Kinds'[s][k] = Kinds[s][k]
               /\ \A k \in (Len(Kinds[s]) + 1)..Len(Kinds'[s]) : Kinds'[s][k] = "delta"
    <2>1. HasSnapshot(s)
      BY DEF DeltasTo
    <2>2. PICK msgs \in Seq(Message) : /\ out'[s] = out[s] \o msgs
                                       /\ \A k \in 1..Len(msgs) : msgs[k].type \in DeltaType
      BY DEF DeltasTo
    <2>3. Kinds[s] = KindSeq(out[s]) /\ Kinds'[s] = KindSeq(out[s] \o msgs)
      BY <1>2, <2>2
    <2>4. out[s] \in Seq(Message)
      BY <1>1
    <2>5. Len(out[s]) >= 2 /\ out[s][1].type = "accepted" /\ out[s][2].type = "snapshot"
      BY <2>1 DEF HasSnapshot
    <2> DEFINE old == Kinds[s]
               new == Kinds'[s]
    <2>6. old = KindSeq(out[s]) /\ new = KindSeq(out[s] \o msgs)
      BY <2>3
    <2> HIDE DEF old, new
    <2>7. /\ Len(old) >= 2
          /\ old[1] = "accepted" /\ old[2] = "snapshot"
          /\ Len(new) >= Len(old)
          /\ \A k \in 1..Len(old) : new[k] = old[k]
          /\ \A k \in (Len(old) + 1)..Len(new) : new[k] = "delta"
      BY <2>2, <2>4, <2>5, <2>6, KindSeqGrows
    <2> QED
      BY <2>7 DEF old, new
  <1>6. \A s \in Sub \ S : Kinds'[s] = Kinds[s]
    BY <1>2
  <1>7. Wire!Deltas(S)
    BY <1>4, <1>5, <1>6 DEF Wire!Deltas, Wire!Opened, Wire!Opening, Wire!Extends,
                            Wire!Kind
  <1>8. \E T \in SUBSET Sub : Wire!Deltas(T)
    BY <1>7
  <1> QED
    BY <1>8 DEF Wire!Next

\* The wire is empty at first.
LEMMA WireInit == Init => WireInv /\ Wire!Init
  BY DEF Init, WireInv, CallWire, Wire!Init, Kinds, KindSeq

\* Messages written after the snapshot leave it where it is.
LEMMA SnapshotStays ==
    ASSUME TypeOK, NEW s \in Sub, DeltasTo(s)
    PROVE  HasSnapshot(s) => HasSnapshot(s)'
  <1>1. out[s] \in Seq(Message)
    BY DEF TypeOK
  <1>2. CASE out'[s] = out[s]
    BY <1>2 DEF HasSnapshot
  <1>3. CASE out'[s] # out[s]
    <2>1. HasSnapshot(s)
      BY <1>3 DEF DeltasTo
    <2>2. PICK msgs \in Seq(Message) : out'[s] = out[s] \o msgs
      BY <1>3 DEF DeltasTo
    <2>3. /\ Len(out'[s]) >= 2
          /\ out'[s][1] = out[s][1] /\ out'[s][2] = out[s][2]
      BY <1>1, <2>1, <2>2 DEF HasSnapshot
    <2> QED
      BY <2>1, <2>3 DEF HasSnapshot
  <1> QED
    BY <1>2, <1>3

\* Every step of the broker is a step of the wire or leaves it alone, and keeps
\* what the calls and the wire have to do with each other.
LEMMA WireStep == IInv /\ IInv' /\ WireInv /\ [Next]_vars => WireInv' /\ [Wire!Next]_Kinds
  <1> SUFFICES ASSUME IInv, IInv', WireInv, [Next]_vars
               PROVE  WireInv' /\ [Wire!Next]_Kinds
    OBVIOUS
  <1>0. /\ TypeOK /\ TypeOK' /\ CallsOK
        /\ \A s \in Sub : CallWire(s)
    BY DEF IInv, WireInv
  <1>1. CASE \/ \E topic \in Topics, p \in CP \cup {NoCp}, n \in 0..MaxSamples :
                    Publish(topic, p, n)
             \/ \E p \in CP : Ingest(p)
             \/ UNCHANGED vars
    <2>1. UNCHANGED <<sock, conns, subs, owner, call, asked, answered, out>>
      BY <1>1 DEF Publish, Ingest, vars, calls, runs
    <2>2. WireInv'
      BY <2>1 DEF WireInv, CallWire, HasSnapshot
    <2> QED
      BY <2>1, <2>2, SilentStep
  <1>2. CASE \/ \E c \in Conn : RefuseConnection(c) \/ RegisterConnection(c)
                                \/ RemoveConnection(c)
             \/ Stop
             \/ \E c \in Conn, s \in Sub : Unsubscribe(c, s)
    <2>1. UNCHANGED <<owner, call, asked, answered, out>>
      BY <1>2 DEF RefuseConnection, RegisterConnection, RemoveConnection, Stop,
                  Unsubscribe, calls, runs
    <2>2. \A c \in Conn : \/ sock'[c] = sock[c]
                          \/ sock[c] = "new" /\ sock'[c] \in {"open", "closed"}
                          \/ sock'[c] = "closed"
      BY <1>0, <1>2 DEF RefuseConnection, RegisterConnection, RemoveConnection, Stop,
                        Unsubscribe, TypeOK
    <2>3. \A s \in Sub : CallWire(s)'
      <3> SUFFICES ASSUME NEW s \in Sub
                   PROVE  CallWire(s)'
        OBVIOUS
      <3>1. CallWire(s) /\ (call[s] # "idle" => owner[s] \in Conn)
        BY <1>0 DEF CallsOK
      <3> QED
        BY <2>1, <2>2, <3>1 DEF CallWire, HasSnapshot
    <2>4. \A c \in Conn : subs'[c] \subseteq subs[c]
      <3>1. \/ subs' = subs
            \/ \E c \in Conn, s \in Sub : subs' = [subs EXCEPT ![c] = @ \ {s}]
        BY <1>2 DEF RefuseConnection, RegisterConnection, RemoveConnection, Stop,
                    Unsubscribe
      <3>2. subs \in [Conn -> SUBSET Sub]
        BY <1>0 DEF TypeOK
      <3> QED
        BY <3>1, <3>2
    <2>5. \A c \in conns' : sock'[c] = "open"
      BY <1>0, <1>2 DEF RefuseConnection, RegisterConnection, RemoveConnection, Stop,
                        Unsubscribe, TypeOK, WireInv
    <2> QED
      BY <2>1, <2>3, <2>4, <2>5, SilentStep DEF WireInv
  <1>3. ASSUME NEW c \in Conn, NEW s \in Sub,
               SubscribeRefused(c, s) \/ SubscribeAtOnce(c, s)
        PROVE  WireInv' /\ [Wire!Next]_Kinds
    <2>1. /\ sock[c] = "open" /\ call[s] = "idle" /\ out[s] = <<>>
          /\ owner' = [owner EXCEPT ![s] = c]
          /\ UNCHANGED <<sock, conns, asked, answered>>
      BY <1>0, <1>3 DEF SubscribeRefused, SubscribeAtOnce, runs, CallWire
    <2>2. CASE SubscribeRefused(c, s)
      <3> DEFINE msgs == <<[type |-> "error"]>>
      <3>1. msgs \in Seq(Message) /\ out' = [out EXCEPT ![s] = @ \o msgs]
        BY <2>2, MessageType DEF SubscribeRefused
      <3>2. Wire!Next
        BY <1>0, <2>1, <3>1, AnswerStep
      <3>3. WireInv'
        BY <1>0, <2>1, <2>2, <3>1
           DEF SubscribeRefused, WireInv, CallWire, HasSnapshot, TypeOK
      <3> QED
        BY <3>2, <3>3
    <2>3. CASE SubscribeAtOnce(c, s)
      <3> DEFINE msgs == Accepted({})
      <3>1. msgs \in Seq(Message) /\ out' = [out EXCEPT ![s] = @ \o msgs]
        BY <2>3, MessageType DEF SubscribeAtOnce, Accepted
      <3>2. Wire!Next
        BY <1>0, <2>1, <3>1, AnswerStep
      <3>3. out' = [out EXCEPT ![s] = Accepted({})]
        BY <1>0, <2>1, <3>1 DEF TypeOK
      <3>4. HasSnapshot(s)'
        BY <1>0, <3>3 DEF HasSnapshot, Accepted, TypeOK
      <3>5. WireInv'
        BY <1>0, <2>1, <2>3, <3>3, <3>4
           DEF SubscribeAtOnce, WireInv, CallWire, HasSnapshot, TypeOK
      <3> QED
        BY <3>2, <3>5
    <2> QED
      BY <1>3, <2>2, <2>3
  <1>4. ASSUME NEW c \in Conn, NEW s \in Sub, SubscribeAsk(c, s)
        PROVE  WireInv' /\ [Wire!Next]_Kinds
    BY <1>0, <1>4, SilentStep DEF SubscribeAsk, runs, WireInv, CallWire, HasSnapshot, TypeOK
  <1>5. ASSUME NEW s \in Sub, SnapshotRead(s)
        PROVE  WireInv' /\ [Wire!Next]_Kinds
    BY <1>0, <1>5, SilentStep DEF SnapshotRead, runs, WireInv, CallWire, HasSnapshot, TypeOK
  <1>6. ASSUME NEW s \in Sub, SubscribeDone(s) \/ SubscribeFailed(s)
        PROVE  WireInv' /\ [Wire!Next]_Kinds
    <2>1. /\ call[s] \in {"asked", "answered"} /\ out[s] = <<>> /\ owner[s] \in Conn
          /\ sock[owner[s]] \in {"open", "closed"}
          /\ UNCHANGED <<sock, conns, asked, answered, owner>>
      BY <1>0, <1>6 DEF SubscribeDone, SubscribeFailed, runs, CallWire, CallsOK, TypeOK
    <2>2. CASE SubscribeDone(s) /\ sock[owner[s]] = "open"
      <3> DEFINE msgs == Accepted(snap[s])
      <3>1. msgs \in Seq(Message) /\ out' = [out EXCEPT ![s] = @ \o msgs]
        BY <1>0, <2>2, MessageType DEF SubscribeDone, Send, Accepted, TypeOK
      <3>2. Wire!Next
        BY <1>0, <2>1, <3>1, AnswerStep DEF TypeOK
      <3>3. out' = [out EXCEPT ![s] = Accepted(snap[s])]
        BY <1>0, <2>1, <3>1 DEF TypeOK
      <3>4. HasSnapshot(s)'
        BY <1>0, <3>3 DEF HasSnapshot, Accepted, TypeOK
      <3>5. WireInv'
        BY <1>0, <2>1, <2>2, <3>3, <3>4
           DEF SubscribeDone, WireInv, CallWire, HasSnapshot, TypeOK
      <3> QED
        BY <3>2, <3>5
    <2>3. CASE SubscribeFailed(s) /\ sock[owner[s]] = "open"
      <3> DEFINE msgs == <<[type |-> "error"]>>
      <3>1. msgs \in Seq(Message) /\ out' = [out EXCEPT ![s] = @ \o msgs]
        BY <2>3, MessageType DEF SubscribeFailed, Send
      <3>2. Wire!Next
        BY <1>0, <2>1, <3>1, AnswerStep
      <3>3. /\ call' = [call EXCEPT ![s] = "failed"]
            /\ subs' = subs
            /\ \A r \in Sub : r # s => out'[r] = out[r]
        BY <1>0, <2>3, <3>1 DEF SubscribeFailed, TypeOK
      <3>4. WireInv'
        <4>1. call'[s] = "failed" /\ \A r \in Sub : r # s => call'[r] = call[r]
          BY <1>0, <3>3 DEF TypeOK
        <4>2. \A r \in Sub : CallWire(r)'
          BY <1>0, <2>1, <3>3, <4>1 DEF CallWire, HasSnapshot
        <4>3. /\ \A c \in Conn : \A r \in subs[c] : r \in Sub /\ call[r] = "done"
              /\ \A t \in asked \cup answered : t.sub \in Sub /\ call[t.sub] = "done"
          BY <1>0 DEF TypeOK, WireInv, Run
        <4>4. \A r \in Sub : call[r] = "done" => call'[r] = "done"
          BY <2>1, <4>1
        <4>5. \A c \in Conn : \A r \in subs'[c] : call'[r] = "done"
          BY <3>3, <4>3, <4>4
        <4>6. \A t \in asked' \cup answered' : call'[t.sub] = "done"
          BY <2>1, <4>3, <4>4
        <4>7. \A c \in conns' : sock'[c] = "open"
          BY <2>1 DEF WireInv
        <4> QED
          BY <4>2, <4>5, <4>6, <4>7 DEF WireInv
      <3> QED
        BY <3>2, <3>4
    <2>4. CASE sock[owner[s]] = "closed"
      <3>1. out' = out
        BY <1>0, <1>6, <2>4 DEF SubscribeDone, SubscribeFailed, Send, TypeOK
      <3>2. CASE SubscribeDone(s)
        <4>1. WireInv'
          BY <1>0, <2>1, <2>4, <3>1, <3>2
             DEF SubscribeDone, WireInv, CallWire, HasSnapshot, TypeOK
        <4> QED
          BY <3>1, <4>1, SilentStep
      <3>3. CASE SubscribeFailed(s)
        <4>1. /\ call' = [call EXCEPT ![s] = "failed"]
              /\ subs' = subs
          BY <3>3 DEF SubscribeFailed
        <4>2. WireInv'
          BY <1>0, <2>1, <2>4, <3>1, <4>1 DEF WireInv, CallWire, HasSnapshot, TypeOK
        <4> QED
          BY <3>1, <4>2, SilentStep
      <3> QED
        BY <1>6, <3>2, <3>3
    <2> QED
      BY <1>6, <2>1, <2>2, <2>3, <2>4
  <1>7. ASSUME NEW i \in 1..Len(kafka), OnKafkaEvent(i)
        PROVE  WireInv' /\ [Wire!Next]_Kinds
    <2>1. UNCHANGED <<sock, conns, subs, owner, call, answered, query, kafka>>
      BY <1>7 DEF OnKafkaEvent, world, calls
    <2>2. ASSUME NEW s \in Interested(i)
          PROVE  /\ s \in Sub /\ call[s] = "done" /\ HasSnapshot(s)
                 /\ query[s] \in QueryType /\ Relevant(query[s], kafka[i])
      <3>1. s \in Sub /\ owner[s] \in conns /\ s \in subs[owner[s]] /\ Relevant(query[s], kafka[i])
        BY DEF Interested, Registered
      <3>2. call[s] = "done" /\ sock[owner[s]] = "open"
        BY <1>0, <3>1 DEF WireInv, TypeOK
      <3> QED
        BY <1>0, <3>1, <3>2, BrokerAssumption DEF CallWire, TypeOK
    <2>3. ASSUME NEW s \in Sub
          PROVE  DeltasTo(s)
      <3>1. CASE s \in Interested(i) /\ ~Refetches(query[s])
        <4>1. /\ Streamed(query[s], i) \in Seq(Message)
              /\ out'[s] = out[s] \o Streamed(query[s], i)
          BY <1>0, <1>7, <2>2, <3>1, StreamedBelongs DEF OnKafkaEvent
        <4>2. \A k \in 1..Len(Streamed(query[s], i)) :
                  Streamed(query[s], i)[k].type \in DeltaType
          <5>1. kafka[i].n \in Nat
            <6>1. kafka[i] \in Event
              BY <1>0 DEF TypeOK
            <6> QED
              BY <6>1 DEF Event
          <5> QED
            BY <5>1 DEF Streamed, DeltaType
        <4> QED
          BY <2>2, <3>1, <4>1, <4>2 DEF DeltasTo
      <3>2. CASE ~(s \in Interested(i) /\ ~Refetches(query[s]))
        BY <1>7, <3>2 DEF OnKafkaEvent, DeltasTo
      <3> QED
        BY <3>1, <3>2
    <2>4. \A t \in asked' \cup answered' : call[t.sub] = "done"
      BY <1>7, <2>1, <2>2 DEF OnKafkaEvent, WireInv
    <2>5. \A s \in Sub : CallWire(s)'
      <3> SUFFICES ASSUME NEW s \in Sub
                   PROVE  CallWire(s)'
        OBVIOUS
      <3>1. CallWire(s) /\ DeltasTo(s) /\ (HasSnapshot(s) => HasSnapshot(s)')
        BY <1>0, <2>3, SnapshotStays
      <3>2. CASE HasSnapshot(s)
        <4>1. out[s] # <<>>
          BY <3>2 DEF HasSnapshot
        <4> QED
          BY <2>1, <3>1, <3>2, <4>1 DEF CallWire
      <3>3. CASE ~HasSnapshot(s)
        <4>1. out'[s] = out[s]
          BY <3>1, <3>3 DEF DeltasTo
        <4> QED
          BY <2>1, <3>1, <3>3, <4>1 DEF CallWire
      <3> QED
        BY <3>2, <3>3
    <2>6. WireInv'
      BY <2>1, <2>4, <2>5 DEF WireInv
    <2> QED
      BY <1>0, <2>3, <2>6, DeltaStep
  <1>8. ASSUME NEW t \in asked, RowRead(t) \/ RowFailed(t)
        PROVE  WireInv' /\ [Wire!Next]_Kinds
    <2>1. UNCHANGED <<sock, conns, subs, owner, call, out>>
      BY <1>8 DEF RowRead, RowFailed, world, calls
    <2>2. \A r \in asked' \cup answered' : call[r.sub] = "done"
      BY <1>8 DEF RowRead, RowFailed, WireInv
    <2>3. WireInv'
      BY <2>1, <2>2 DEF WireInv, CallWire, HasSnapshot
    <2> QED
      BY <2>1, <2>3, SilentStep
  <1>9. ASSUME NEW t \in answered, RowDelivered(t)
        PROVE  WireInv' /\ [Wire!Next]_Kinds
    <2> DEFINE m == FromRow(query[t.sub], t.ev, t.row)
    <2>1. /\ UNCHANGED <<sock, conns, subs, owner, call, asked>>
          /\ answered' \subseteq answered
          /\ Send(t.sub, <<m>>)
      BY <1>9 DEF RowDelivered, world, calls
    <2>2. /\ t.sub \in Sub /\ call[t.sub] = "done"
          /\ query[t.sub] \in QueryType /\ t.row \in Row /\ t.ev \in Nat
          /\ RunOK(t)
      BY <1>0, BrokerAssumption DEF WireInv, TypeOK, IInv
    <2>3. m \in Message /\ m.type \in DeltaType
      <3>1. m \in Message
        BY <1>0, <2>2, FromRowBelongs DEF RunOK, IInv, RowsOK
      <3> QED
        BY <3>1 DEF FromRow, DeltaType
    <2> HIDE DEF m
    <2>4. ASSUME NEW s \in Sub
          PROVE  DeltasTo(s)
      <3>1. CASE s = t.sub /\ sock[owner[s]] = "open"
        <4>1. out'[s] = out[s] \o <<m>>
          BY <1>0, <2>1, <3>1 DEF Send, TypeOK
        <4>2. HasSnapshot(s)
          BY <1>0, <2>2, <3>1 DEF CallWire
        <4>3. <<m>> \in Seq(Message) /\ \A k \in 1..Len(<<m>>) : <<m>>[k].type \in DeltaType
          BY <2>3
        <4> QED
          BY <4>1, <4>2, <4>3 DEF DeltasTo
      <3>2. CASE ~(s = t.sub /\ sock[owner[s]] = "open")
        BY <1>0, <2>1, <2>2, <3>2 DEF Send, DeltasTo, TypeOK
      <3> QED
        BY <3>1, <3>2
    <2>5. \A s \in Sub : CallWire(s)'
      <3> SUFFICES ASSUME NEW s \in Sub
                   PROVE  CallWire(s)'
        OBVIOUS
      <3>1. CallWire(s) /\ DeltasTo(s) /\ (HasSnapshot(s) => HasSnapshot(s)')
        BY <1>0, <2>4, SnapshotStays
      <3>2. CASE HasSnapshot(s)
        <4>1. out[s] # <<>>
          BY <3>2 DEF HasSnapshot
        <4> QED
          BY <2>1, <3>1, <3>2, <4>1 DEF CallWire
      <3>3. CASE ~HasSnapshot(s)
        <4>1. out'[s] = out[s]
          BY <3>1, <3>3 DEF DeltasTo
        <4> QED
          BY <2>1, <3>1, <3>3, <4>1 DEF CallWire
      <3> QED
        BY <3>2, <3>3
    <2>6. WireInv'
      BY <2>1, <2>5 DEF WireInv
    <2> QED
      BY <1>0, <2>4, <2>6, DeltaStep
  <1> QED
    BY <1>1, <1>2, <1>3, <1>4, <1>5, <1>6, <1>7, <1>8, <1>9 DEF Next

\* The broker implements SnapshotTail: whatever the interleaving of connections,
\* subscribe calls, Kafka events and gateway responses, a client sees one answer
\* per call, and deltas only after its snapshot.
THEOREM BrokerImplementsSnapshotTail == Spec => SnapshotThenTail
  BY InvHolds, WireInit, WireStep, PTL DEF Spec, SnapshotThenTail, Wire!Spec

-----------------------------------------------------------------------------
(* What was sent and what is under way comes from events that were handled. *)

\* Event i was handled while s was registered.
Reached(s, i) ==
    \E k \in 1..Len(handled) : handled[k].ev = i /\ s \in handled[k].live

\* The tail hands every event out once, to calls that are done; and a delta that
\* was sent, or a run that is under way, is owed to an event that reached its
\* subscription.  No subscription has two runs for one event.
Traced ==
    /\ \A j, k \in 1..Len(handled) : handled[j].ev = handled[k].ev => j = k
    /\ \A k \in 1..Len(handled) : /\ handled[k].ev \in 1..Len(kafka)
                                  /\ \A s \in handled[k].live : call[s] = "done"
    /\ \A t \in asked \cup answered : Reached(t.sub, t.ev)
    /\ \A s \in Sub : \A k \in 1..Len(out[s]) :
          out[s][k].type \in DeltaType => Reached(s, out[s][k].ev)
    /\ \A t, u \in answered : t.sub = u.sub /\ t.ev = u.ev => t = u
    /\ \A t \in asked, u \in answered : ~(t.sub = u.sub /\ t.ev = u.ev)

\* What a step may add to what s was sent: an answer to the call, an append of
\* the event that is handled, or the delta of a row that came back.
Fresh(s, m) ==
    \/ m.type \notin DeltaType
    \/ /\ m.type = "append"
       /\ Len(handled') = Len(handled) + 1
       /\ handled'[Len(handled')].ev = m.ev
       /\ s \in handled'[Len(handled')].live
    \/ /\ m.type \in {"upsert", "remove"}
       /\ \E t \in answered : t.sub = s /\ m = FromRow(query[s], t.ev, t.row)

Grows(s) ==
    \E msgs \in Seq(Message) : /\ out'[s] = out[s] \o msgs
                               /\ \A k \in 1..Len(msgs) : Fresh(s, msgs[k])

\* There is a sequence of no messages.
LEMMA NoMessages ==
    \E none \in Seq(Message) : /\ \A a \in Seq(Message) : a \o none = a
                               /\ \A k \in 1..Len(none) : FALSE
  <1>1. <<>> \in Seq(Message) /\ \A a \in Seq(Message) : a \o <<>> = a
    OBVIOUS
  <1>2. \A k \in 1..Len(<<>>) : FALSE
    OBVIOUS
  <1> QED
    BY <1>1, <1>2, Zenon

\* Sending nothing is a way to grow.
LEMMA SilentGrows ==
    ASSUME TypeOK, NEW s \in Sub, out'[s] = out[s]
    PROVE  Grows(s)
  <1>1. out[s] \in Seq(Message)
    BY DEF TypeOK
  <1> QED
    BY <1>1, NoMessages DEF Grows

\* So is writing an answer to the call of one subscription.
LEMMA AnswerGrows ==
    ASSUME TypeOK, NEW s \in Sub, NEW msgs \in Seq(Message),
           \A k \in 1..Len(msgs) : msgs[k].type \notin DeltaType,
           Send(s, msgs) \/ out' = [out EXCEPT ![s] = @ \o msgs],
           NEW r \in Sub
    PROVE  Grows(r)
  <1>1. out'[r] = out[r] \/ (r = s /\ out'[r] = out[r] \o msgs)
    BY DEF Send, TypeOK
  <1> QED
    BY <1>1, SilentGrows DEF Grows, Fresh

\* The messages of an answer are no deltas.
LEMMA AnswerType ==
    /\ \A rows \in SUBSET Row :
          /\ Accepted(rows) \in Seq(Message)
          /\ \A k \in 1..Len(Accepted(rows)) : Accepted(rows)[k].type \notin DeltaType
    /\ <<[type |-> "error"]>> \in Seq(Message)
    /\ \A k \in 1..Len(<<[type |-> "error"]>>) :
          <<[type |-> "error"]>>[k].type \notin DeltaType
  BY MessageType DEF Accepted, DeltaType

\* The steps that neither hand an event out nor move a resolver run.
Quiet ==
    /\ UNCHANGED <<handled, asked, answered, lost>>
    /\ \A s \in Sub : Grows(s)
    /\ \A s \in Sub : \E msgs \in Seq(Message) :
          /\ out'[s] = out[s] \o msgs
          /\ \A k \in 1..Len(msgs) : msgs[k].type \notin DeltaType

\* A step that writes at most an answer is quiet.
LEMMA AnswerQuiet ==
    ASSUME TypeOK, NEW s \in Sub, NEW msgs \in Seq(Message),
           \A k \in 1..Len(msgs) : msgs[k].type \notin DeltaType,
           \/ Send(s, msgs)
           \/ out' = [out EXCEPT ![s] = @ \o msgs],
           UNCHANGED <<handled, asked, answered, lost>>
    PROVE  Quiet
  <1>1. ASSUME NEW r \in Sub
        PROVE  \E more \in Seq(Message) :
                  /\ out'[r] = out[r] \o more
                  /\ \A k \in 1..Len(more) : more[k].type \notin DeltaType
    <2>1. out[r] \in Seq(Message)
      BY DEF TypeOK
    <2>2. out'[r] = out[r] \/ out'[r] = out[r] \o msgs
      BY DEF Send, TypeOK
    <2>3. CASE out'[r] = out[r]
      BY <2>1, <2>3, NoMessages
    <2> QED
      BY <2>2, <2>3
  <1>2. \A r \in Sub : Grows(r)
    BY AnswerGrows
  <1> QED
    BY <1>1, <1>2 DEF Quiet

\* So is a step that writes nothing.
LEMMA SilentQuiet ==
    ASSUME TypeOK, UNCHANGED <<out, handled, asked, answered, lost>>
    PROVE  Quiet
  <1>1. ASSUME NEW r \in Sub
        PROVE  \E more \in Seq(Message) :
                  /\ out'[r] = out[r] \o more
                  /\ \A k \in 1..Len(more) : more[k].type \notin DeltaType
    <2>1. out[r] \in Seq(Message)
      BY DEF TypeOK
    <2> QED
      BY <2>1, NoMessages
  <1> QED
    BY <1>1, SilentGrows DEF Quiet

\* Every step is quiet, hands an event out or moves a resolver run.
LEMMA StepKinds ==
    ASSUME IInv, [Next]_vars
    PROVE  \/ Quiet
           \/ \E i \in 1..Len(kafka) : OnKafkaEvent(i)
           \/ \E t \in asked : RowRead(t) \/ RowFailed(t)
           \/ \E t \in answered : RowDelivered(t)
  <1>0. TypeOK
    BY DEF IInv
  <1>1. CASE \/ \E topic \in Topics, p \in CP \cup {NoCp}, n \in 0..MaxSamples :
                    Publish(topic, p, n)
             \/ \E p \in CP : Ingest(p)
             \/ \E c \in Conn : RefuseConnection(c) \/ RegisterConnection(c)
                                \/ RemoveConnection(c)
             \/ Stop
             \/ \E c \in Conn, s \in Sub : SubscribeAsk(c, s) \/ Unsubscribe(c, s)
             \/ \E s \in Sub : SnapshotRead(s)
             \/ UNCHANGED vars
    <2>1. UNCHANGED <<out, handled, asked, answered, lost>>
      BY <1>1 DEF Publish, Ingest, RefuseConnection, RegisterConnection,
                  RemoveConnection, Stop, SubscribeAsk, Unsubscribe, SnapshotRead,
                  vars, runs
    <2> QED
      BY <1>0, <2>1, SilentQuiet
  <1>2. ASSUME NEW c \in Conn, NEW s \in Sub,
               SubscribeRefused(c, s) \/ SubscribeAtOnce(c, s)
        PROVE  Quiet
    <2>1. UNCHANGED <<handled, asked, answered, lost>>
      BY <1>2 DEF SubscribeRefused, SubscribeAtOnce, runs
    <2>2. \/ out' = [out EXCEPT ![s] = @ \o <<[type |-> "error"]>>]
          \/ out' = [out EXCEPT ![s] = @ \o Accepted({})]
      BY <1>2 DEF SubscribeRefused, SubscribeAtOnce
    <2> QED
      BY <1>0, <2>1, <2>2, AnswerType, AnswerQuiet
  <1>3. ASSUME NEW s \in Sub, SubscribeDone(s) \/ SubscribeFailed(s)
        PROVE  Quiet
    <2>1. UNCHANGED <<handled, asked, answered, lost>>
      BY <1>3 DEF SubscribeDone, SubscribeFailed, runs
    <2>2. Send(s, <<[type |-> "error"]>>) \/ Send(s, Accepted(snap[s]))
      BY <1>3 DEF SubscribeDone, SubscribeFailed
    <2>3. snap[s] \in SUBSET Row
      BY <1>0 DEF TypeOK
    <2> QED
      BY <1>0, <2>1, <2>2, <2>3, AnswerType, AnswerQuiet
  <1> QED
    BY <1>1, <1>2, <1>3 DEF Next

\* What no step takes back: the query of a call, the published events, a call
\* that is done with its connection; and a socket never opens again.
LEMMA Lasting ==
    ASSUME IInv, WireInv, [Next]_vars
    PROVE  /\ query' = query
           /\ Len(kafka) \in Nat /\ Len(kafka') \in Nat /\ Len(kafka') >= Len(kafka)
           /\ \A i \in 1..Len(kafka) : kafka'[i] = kafka[i]
           /\ lost \subseteq lost'
           /\ \A s \in Sub : call[s] = "done" =>
                 /\ call'[s] = "done" /\ owner'[s] = owner[s] /\ owner[s] \in Conn
                 /\ sock'[owner[s]] = "open" => sock[owner[s]] = "open"
  <1>0. /\ TypeOK /\ CallsOK /\ \A s \in Sub : CallWire(s)
        /\ kafka \in Seq(Event)
    BY DEF IInv, WireInv, TypeOK
  <1>1. query' = query /\ lost \subseteq lost'
    BY DEF Next, Publish, Ingest, RefuseConnection, RegisterConnection,
           RemoveConnection, Stop, SubscribeRefused, SubscribeAsk, SubscribeAtOnce,
           Unsubscribe, SnapshotRead, SubscribeDone, SubscribeFailed, OnKafkaEvent,
           RowRead, RowFailed, RowDelivered, vars, calls
  <1>2. CASE \E topic \in Topics, p \in CP \cup {NoCp}, n \in 0..MaxSamples :
                Publish(topic, p, n)
    <2>1. PICK topic \in Topics, p \in CP \cup {NoCp}, n \in 0..MaxSamples :
             Publish(topic, p, n)
      BY <1>2
    <2>2. [topic |-> topic, cp |-> p, n |-> n] \in Event
      BY BrokerAssumption DEF Event
    <2>3. kafka' = Append(kafka, [topic |-> topic, cp |-> p, n |-> n])
      BY <2>1 DEF Publish
    <2>4. /\ Len(kafka') = Len(kafka) + 1
          /\ \A i \in 1..Len(kafka) : kafka'[i] = kafka[i]
      BY <1>0, <2>2, <2>3
    <2>5. call' = call /\ owner' = owner /\ sock' = sock
      BY <2>1 DEF Publish, calls
    <2> QED
      BY <1>0, <1>1, <2>4, <2>5 DEF CallsOK
  <1>3. CASE ~(\E topic \in Topics, p \in CP \cup {NoCp}, n \in 0..MaxSamples :
                  Publish(topic, p, n))
    <2>1. kafka' = kafka
      BY <1>3 DEF Next, Ingest, RefuseConnection, RegisterConnection,
             RemoveConnection, Stop, SubscribeRefused, SubscribeAsk, SubscribeAtOnce,
             Unsubscribe, SnapshotRead, SubscribeDone, SubscribeFailed, OnKafkaEvent,
             RowRead, RowFailed, RowDelivered, vars, world
    <2>2. \/ sock' = sock
          \/ /\ \E c \in Conn : RefuseConnection(c) \/ RegisterConnection(c)
                                \/ RemoveConnection(c)
             /\ UNCHANGED <<call, owner>>
      BY <1>3 DEF Next, Ingest, RefuseConnection, RegisterConnection,
             RemoveConnection, Stop, SubscribeRefused, SubscribeAsk, SubscribeAtOnce,
             Unsubscribe, SnapshotRead, SubscribeDone, SubscribeFailed, OnKafkaEvent,
             RowRead, RowFailed, RowDelivered, vars, calls
    <2>3. \A c \in Conn : sock[c] # "new" /\ sock'[c] = "open" => sock[c] = "open"
      BY <1>0, <2>2 DEF TypeOK, RefuseConnection, RegisterConnection, RemoveConnection
    <2>4. \A s \in Sub : call[s] = "done" => call'[s] = "done" /\ owner'[s] = owner[s]
      <3>1. call \in [Sub -> {"idle", "asked", "answered", "done", "failed"}]
            /\ owner \in [Sub -> Conn \cup {NoConn}]
        BY <1>0 DEF TypeOK
      <3>2. \/ UNCHANGED <<call, owner>>
            \/ \E c \in Conn, s \in Sub : SubscribeRefused(c, s) \/ SubscribeAsk(c, s)
                                         \/ SubscribeAtOnce(c, s)
            \/ \E s \in Sub : SnapshotRead(s) \/ SubscribeDone(s) \/ SubscribeFailed(s)
        BY <1>3 DEF Next, Ingest, RefuseConnection, RegisterConnection, RemoveConnection,
               Stop, Unsubscribe, OnKafkaEvent, RowRead, RowFailed, RowDelivered, vars, calls
      <3>3. \/ UNCHANGED <<call, owner>>
            \/ \E s \in Sub : /\ call[s] # "done"
                             /\ \A x \in Sub \ {s} : /\ call'[x] = call[x]
                                                    /\ owner'[x] = owner[x]
        BY <3>1, <3>2 DEF SubscribeRefused, SubscribeAsk, SubscribeAtOnce, SnapshotRead,
               SubscribeDone, SubscribeFailed
      <3> QED
        BY <3>3
    <2>5. \A s \in Sub : call[s] = "done" => owner[s] \in Conn /\ sock[owner[s]] # "new"
      BY <1>0 DEF CallsOK, CallWire
    <2> QED
      BY <1>0, <1>1, <2>1, <2>3, <2>4, <2>5
  <1> QED
    BY <1>2, <1>3

\* The kinds of the deltas.
LEMMA DeltaKinds ==
    ASSUME TypeOK, NEW q \in QueryType, NEW i \in 1..Len(kafka)
    PROVE  /\ \A k \in 1..Len(Streamed(q, i)) :
                 Streamed(q, i)[k] = [type |-> "append", ev |-> i]
           /\ Len(Streamed(q, i)) = IF q.name = "meter-history" THEN kafka[i].n ELSE 1
  <1>1. kafka[i].n \in Nat
    <2>1. kafka[i] \in Event
      BY DEF TypeOK
    <2> QED
      BY <2>1 DEF Event
  <1> QED
    BY <1>1 DEF Streamed

\* A resolver that refetches the row sends an upsert or a remove.
LEMMA FromRowKind ==
    ASSUME NEW q, NEW i, NEW row
    PROVE  /\ FromRow(q, i, row).type \in {"upsert", "remove"}
           /\ FromRow(q, i, row).ev = i
  BY DEF FromRow

\* Handing out an event records it after the others, with those it reached.
LEMMA Recorded ==
    ASSUME IInv, NEW i \in 1..Len(kafka), OnKafkaEvent(i)
    PROVE  /\ Len(handled) \in Nat /\ Len(handled') = Len(handled) + 1
           /\ \A k \in 1..Len(handled) : handled'[k] = handled[k] /\ handled[k].ev # i
           /\ handled'[Len(handled) + 1] = [ev |-> i, live |-> Registered]
           /\ \A s \in Sub : ~Reached(s, i)
           /\ Interested(i) \subseteq Registered /\ Registered \subseteq Sub
  <1>1. handled \in Seq([ev : Nat, live : SUBSET Sub])
    BY DEF IInv, TypeOK
  <1>2. Registered \in SUBSET Sub /\ i \in Nat
    BY DEF Registered
  <1>3. handled' = Append(handled, [ev |-> i, live |-> Registered])
    BY DEF OnKafkaEvent
  <1>4. [ev |-> i, live |-> Registered] \in [ev : Nat, live : SUBSET Sub]
    BY <1>2
  <1>5. \A k \in 1..Len(handled) : handled[k].ev # i
    BY DEF OnKafkaEvent, NextOfPartition, Handled
  <1>6. /\ Len(handled') = Len(handled) + 1
        /\ \A k \in 1..Len(handled) : handled'[k] = handled[k]
        /\ handled'[Len(handled) + 1] = [ev |-> i, live |-> Registered]
    BY <1>1, <1>3, <1>4
  <1> QED
    BY <1>1, <1>2, <1>5, <1>6 DEF Reached, Interested

\* Every step only adds fresh messages to what a subscription was sent.
LEMMA StepGrows ==
    ASSUME IInv, [Next]_vars, NEW s \in Sub
    PROVE  Grows(s)
  <1>0. TypeOK /\ \A t \in asked \cup answered : RunOK(t)
    BY DEF IInv
  <1>1. CASE Quiet
    BY <1>1 DEF Quiet
  <1>2. ASSUME NEW i \in 1..Len(kafka), OnKafkaEvent(i)
        PROVE  Grows(s)
    <2>1. CASE s \in Interested(i) /\ ~Refetches(query[s])
      <3> DEFINE msgs == Streamed(query[s], i)
      <3>1. query[s] \in QueryType /\ Relevant(query[s], kafka[i])
        BY <1>0, <2>1, BrokerAssumption DEF TypeOK, Interested
      <3>2. msgs \in Seq(Message) /\ \A k \in 1..Len(msgs) : msgs[k] = [type |-> "append", ev |-> i]
        BY <1>0, <3>1, StreamedBelongs, DeltaKinds
      <3>3. out'[s] = out[s] \o msgs
        BY <1>2, <2>1 DEF OnKafkaEvent
      <3> HIDE DEF msgs
      <3>4. /\ Len(handled') = Len(handled) + 1
            /\ handled'[Len(handled')].ev = i
            /\ s \in handled'[Len(handled')].live
        <4>1. /\ Len(handled') = Len(handled) + 1
              /\ handled'[Len(handled) + 1] = [ev |-> i, live |-> Registered]
              /\ Interested(i) \subseteq Registered
          BY <1>2, Recorded
        <4> QED
          BY <2>1, <4>1
      <3>5. \A k \in 1..Len(msgs) : Fresh(s, msgs[k])
        BY <3>2, <3>4 DEF Fresh
      <3> QED
        BY <3>2, <3>3, <3>5 DEF Grows
    <2>2. CASE ~(s \in Interested(i) /\ ~Refetches(query[s]))
      BY <1>0, <1>2, <2>2, SilentGrows DEF OnKafkaEvent
    <2> QED
      BY <2>1, <2>2
  <1>3. ASSUME NEW t \in asked, RowRead(t) \/ RowFailed(t)
        PROVE  Grows(s)
    BY <1>0, <1>3, SilentGrows DEF RowRead, RowFailed
  <1>4. ASSUME NEW t \in answered, RowDelivered(t)
        PROVE  Grows(s)
    <2> DEFINE m == FromRow(query[t.sub], t.ev, t.row)
    <2>1. /\ t.sub \in Sub /\ query[t.sub] \in QueryType /\ t.ev \in 1..Len(kafka)
          /\ t.row \in Row
      BY <1>0, BrokerAssumption DEF TypeOK, RunOK
    <2>2. m \in Message /\ m.type \in {"upsert", "remove"}
      BY <1>0, <2>1, FromRowBelongs, FromRowKind DEF IInv, RunOK, RowsOK
    <2>3. out'[s] = out[s] \/ (s = t.sub /\ out'[s] = out[s] \o <<m>>)
      BY <1>0, <1>4 DEF RowDelivered, Send, TypeOK
    <2>4. CASE s = t.sub /\ out'[s] = out[s] \o <<m>>
      <3>1. <<m>> \in Seq(Message) /\ \A k \in 1..Len(<<m>>) : <<m>>[k] = m
        BY <2>2
      <3>2. Fresh(s, m)
        BY <2>2, <2>4, Zenon DEF Fresh
      <3> QED
        BY <2>4, <3>1, <3>2 DEF Grows
    <2> QED
      BY <1>0, <2>3, <2>4, SilentGrows
  <1> QED
    BY <1>1, <1>2, <1>3, <1>4, StepKinds

\* An event that reached a subscription stays one that did.
LEMMA ReachedStays ==
    ASSUME IInv, [Next]_vars, NEW s \in Sub, NEW i
    PROVE  Reached(s, i) => Reached(s, i)'
  <1>1. CASE handled' = handled
    BY <1>1 DEF Reached
  <1>2. ASSUME NEW j \in 1..Len(kafka), OnKafkaEvent(j)
        PROVE  Reached(s, i) => Reached(s, i)'
    <2>1. /\ Len(handled) \in Nat /\ Len(handled') = Len(handled) + 1
          /\ \A k \in 1..Len(handled) : handled'[k] = handled[k]
      BY <1>2, Recorded
    <2> QED
      BY <2>1 DEF Reached
  <1> QED
    BY <1>1, <1>2, StepKinds DEF Quiet, RowRead, RowFailed, RowDelivered

\* What was sent before a step is still there, and the rest is fresh.
LEMMA OldOrFresh ==
    ASSUME IInv, [Next]_vars, NEW s \in Sub
    PROVE  /\ Len(out[s]) \in Nat
           /\ \A k \in 1..Len(out[s]) : k \in 1..Len(out'[s]) /\ out'[s][k] = out[s][k]
           /\ \A k \in 1..Len(out'[s]) : k > Len(out[s]) => Fresh(s, out'[s][k])
  <1>1. out[s] \in Seq(Message)
    BY DEF IInv, TypeOK
  <1>2. PICK msgs \in Seq(Message) : /\ out'[s] = out[s] \o msgs
                                     /\ \A k \in 1..Len(msgs) : Fresh(s, msgs[k])
    BY StepGrows DEF Grows
  <1>3. ASSUME NEW k \in 1..Len(out'[s]), k > Len(out[s])
        PROVE  Fresh(s, out'[s][k])
    <2>1. k - Len(out[s]) \in 1..Len(msgs) /\ out'[s][k] = msgs[k - Len(out[s])]
      BY <1>1, <1>2, <1>3
    <2> QED
      BY <1>2, <2>1
  <1>4. \A k \in 1..Len(out[s]) : k \in 1..Len(out'[s]) /\ out'[s][k] = out[s][k]
    BY <1>1, <1>2
  <1> QED
    BY <1>1, <1>3, <1>4

\* Everything sent or under way keeps being owed to an event that was handled.
LEMMA TracedStep == IInv /\ WireInv /\ Traced /\ [Next]_vars => Traced'
  <1> SUFFICES ASSUME IInv, WireInv, Traced, [Next]_vars
               PROVE  Traced'
    OBVIOUS
  <1> DEFINE Now(s, i) == \E k \in 1..Len(handled') : /\ handled'[k].ev = i
                                                      /\ s \in handled'[k].live
  <1>0. TypeOK /\ \A t \in asked \cup answered : RunOK(t)
    BY DEF IInv
  <1>1. /\ Len(kafka) \in Nat /\ Len(kafka') \in Nat /\ Len(kafka') >= Len(kafka)
        /\ \A s \in Sub : call[s] = "done" => call'[s] = "done"
    BY Lasting
  <1>2. \A s \in Sub : \A i : Reached(s, i) => Now(s, i)
    BY ReachedStays DEF Reached
  <1> HIDE DEF Now
  <1>3. ASSUME NEW s \in Sub, NEW k \in 1..Len(out'[s]), out'[s][k].type \in DeltaType
        PROVE  Now(s, out'[s][k].ev)
    <2>1. CASE k <= Len(out[s])
      <3>1. k \in 1..Len(out[s]) /\ out'[s][k] = out[s][k]
        BY <1>3, <2>1, OldOrFresh
      <3> QED
        BY <1>2, <1>3, <3>1 DEF Traced
    <2>2. CASE k > Len(out[s])
      <3>1. Fresh(s, out'[s][k])
        BY <1>3, <2>2, OldOrFresh
      <3>2. CASE \E t \in answered : t.sub = s /\ out'[s][k] = FromRow(query[s], t.ev, t.row)
        <4>1. PICK t \in answered : t.sub = s /\ out'[s][k] = FromRow(query[s], t.ev, t.row)
          BY <3>2
        <4>2. Reached(s, t.ev)
          BY <4>1 DEF Traced
        <4>3. t.ev \in 1..Len(kafka) /\ query[s] \in QueryType
          BY <1>0, BrokerAssumption DEF RunOK, TypeOK
        <4>4. out'[s][k].ev = t.ev
          <5>1. FromRow(query[s], t.ev, t.row).ev = t.ev
            BY FromRowKind
          <5> QED
            BY <4>1, <5>1
        <4> QED
          BY <1>2, <4>2, <4>4
      <3>3. CASE ~(\E t \in answered : t.sub = s /\ out'[s][k] = FromRow(query[s], t.ev, t.row))
        <4>1. /\ Len(handled') = Len(handled) + 1 /\ Len(handled) \in Nat
              /\ handled'[Len(handled')].ev = out'[s][k].ev
              /\ s \in handled'[Len(handled')].live
          BY <1>0, <1>3, <3>1, <3>3 DEF Fresh, TypeOK
        <4>2. \E j \in 1..Len(handled') : /\ handled'[j].ev = out'[s][k].ev
                                          /\ s \in handled'[j].live
          BY <4>1
        <4> QED
          BY <4>2, Zenon DEF Now
      <3> QED
        BY <3>2, <3>3
    <2>3. Len(out[s]) \in Nat
      BY OldOrFresh
    <2> QED
      BY <2>1, <2>2, <2>3
  <1>8. \A k \in 1..Len(handled) : /\ handled[k].ev \in 1..Len(kafka')
                                    /\ \A s \in handled[k].live : call'[s] = "done"
    <2>1. \A k \in 1..Len(handled) : handled[k].live \subseteq Sub
      <3>0. handled \in Seq([ev : Nat, live : SUBSET Sub])
        BY <1>0 DEF TypeOK
      <3>1. \A k \in 1..Len(handled) : handled[k] \in [ev : Nat, live : SUBSET Sub]
        BY <3>0, ElementOfSeq
      <3> QED
        BY <3>1
    <2>2. \A k \in 1..Len(handled) : /\ handled[k].ev \in 1..Len(kafka)
                                      /\ \A s \in handled[k].live : call[s] = "done"
      BY DEF Traced
    <2> QED
      BY <1>1, <2>1, <2>2
  <1>9. \A t \in asked \cup answered : t.sub \in Sub /\ Now(t.sub, t.ev)
    BY <1>0, <1>2 DEF Traced, TypeOK, Run
  <1>4. CASE UNCHANGED <<handled, asked, answered>>
    <2>1. /\ \A j, k \in 1..Len(handled') : handled'[j].ev = handled'[k].ev => j = k
          /\ \A k \in 1..Len(handled') : /\ handled'[k].ev \in 1..Len(kafka')
                                         /\ \A s \in handled'[k].live : call'[s] = "done"
      BY <1>4, <1>8 DEF Traced
    <2>2. /\ \A t \in asked' \cup answered' : Now(t.sub, t.ev)
          /\ \A a, b \in answered' : a.sub = b.sub /\ a.ev = b.ev => a = b
          /\ \A a \in asked', b \in answered' : ~(a.sub = b.sub /\ a.ev = b.ev)
      BY <1>4, <1>9 DEF Traced
    <2> QED
      BY <1>3, <2>1, <2>2 DEF Traced, Reached, Now
  <1>5. ASSUME NEW i \in 1..Len(kafka), OnKafkaEvent(i)
        PROVE  Traced'
    <2>1. /\ answered' = answered /\ call' = call
          /\ asked' = asked \cup {[sub |-> s, ev |-> i] :
                                     s \in {x \in Interested(i) : Refetches(query[x])}}
      BY <1>5 DEF OnKafkaEvent, calls
    <2>2. /\ Len(handled) \in Nat /\ Len(handled') = Len(handled) + 1
          /\ \A k \in 1..Len(handled) : handled'[k] = handled[k] /\ handled[k].ev # i
          /\ handled'[Len(handled) + 1] = [ev |-> i, live |-> Registered]
          /\ \A s \in Sub : ~Reached(s, i)
          /\ Interested(i) \subseteq Registered /\ Registered \subseteq Sub
      BY <1>5, Recorded
    <2>3. \A s \in Registered : call[s] = "done"
      BY <1>0 DEF Registered, WireInv, TypeOK
    <2>4. \A s \in Registered : Now(s, i)
      <3>1. Len(handled') \in 1..Len(handled')
        BY <2>2
      <3> QED
        BY <2>2, <3>1 DEF Now
    <2>5. /\ \A j, k \in 1..Len(handled') : handled'[j].ev = handled'[k].ev => j = k
          /\ \A k \in 1..Len(handled') : /\ handled'[k].ev \in 1..Len(kafka')
                                         /\ \A s \in handled'[k].live : call'[s] = "done"
      <3>1. ASSUME NEW k \in 1..Len(handled')
            PROVE  \/ k \in 1..Len(handled) /\ handled'[k] = handled[k] /\ handled[k].ev # i
                   \/ k = Len(handled) + 1 /\ handled'[k] = [ev |-> i, live |-> Registered]
        BY <2>2
      <3>2. \A j, k \in 1..Len(handled') : handled'[j].ev = handled'[k].ev => j = k
        BY <3>1 DEF Traced
      <3>3. ASSUME NEW k \in 1..Len(handled')
            PROVE  /\ handled'[k].ev \in 1..Len(kafka')
                   /\ \A s \in handled'[k].live : call'[s] = "done"
        BY <3>1, <1>1, <2>1, <2>3 DEF Traced
      <3> QED
        BY <3>2, <3>3
    <2>6. \A t \in asked' : /\ t \in asked \/ (t.ev = i /\ t.sub \in Registered)
      BY <2>1, <2>2
    <2>7. \A t \in asked \cup answered : t.sub \in Sub /\ Reached(t.sub, t.ev)
      BY <1>0 DEF Traced, TypeOK, Run
    <2>8. \A t \in asked' \cup answered' : Now(t.sub, t.ev)
      BY <1>2, <2>1, <2>4, <2>6, <2>7
    <2>9. \A t \in asked', u \in answered' : ~(t.sub = u.sub /\ t.ev = u.ev)
      BY <2>1, <2>2, <2>6, <2>7 DEF Traced
    <2>10. \A t, u \in answered' : t.sub = u.sub /\ t.ev = u.ev => t = u
      BY <2>1 DEF Traced
    <2> QED
      BY <1>3, <2>5, <2>8, <2>9, <2>10 DEF Traced, Reached, Now
  <1>6. ASSUME NEW t \in asked, RowRead(t) \/ RowFailed(t)
        PROVE  Traced'
    <2> DEFINE u == [sub |-> t.sub, ev |-> t.ev, row |-> gw[kafka[t.ev].cp]]
    <2>1. /\ handled' = handled /\ asked' = asked \ {t}
          /\ answered' = answered \/ answered' = answered \cup {u}
      BY <1>6 DEF RowRead, RowFailed
    <2>2. u.sub = t.sub /\ u.ev = t.ev
      OBVIOUS
    <2> HIDE DEF u
    <2>3. \A a \in asked \cup answered : a.sub \in Sub
      BY <1>0 DEF TypeOK, Run
    <2>4. \A a \in asked : a.sub = t.sub /\ a.ev = t.ev => a = t
      <3>1. \A a \in asked : a = [sub |-> a.sub, ev |-> a.ev]
        BY <1>0 DEF TypeOK, Run
      <3> QED
        BY <3>1
    <2>5. \A a \in asked' \cup answered' : Now(a.sub, a.ev)
      BY <1>2, <2>1, <2>2, <2>3 DEF Traced
    <2>6. /\ \A a, b \in answered' : a.sub = b.sub /\ a.ev = b.ev => a = b
          /\ \A a \in asked', b \in answered' : ~(a.sub = b.sub /\ a.ev = b.ev)
      BY <2>1, <2>2, <2>4 DEF Traced
    <2>7. /\ \A j, k \in 1..Len(handled') : handled'[j].ev = handled'[k].ev => j = k
          /\ \A k \in 1..Len(handled') : /\ handled'[k].ev \in 1..Len(kafka')
                                         /\ \A s \in handled'[k].live : call'[s] = "done"
      BY <1>8, <2>1 DEF Traced
    <2> QED
      BY <1>3, <2>5, <2>6, <2>7 DEF Traced, Reached, Now
  <1>7. ASSUME NEW t \in answered, RowDelivered(t)
        PROVE  Traced'
    <2>1. handled' = handled /\ asked' = asked /\ answered' \subseteq answered
      BY <1>7 DEF RowDelivered
    <2>2. \A a \in asked \cup answered : a.sub \in Sub
      BY <1>0 DEF TypeOK, Run
    <2>3. \A a \in asked' \cup answered' : Now(a.sub, a.ev)
      BY <1>2, <2>1, <2>2 DEF Traced
    <2>4. /\ \A a, b \in answered' : a.sub = b.sub /\ a.ev = b.ev => a = b
          /\ \A a \in asked', b \in answered' : ~(a.sub = b.sub /\ a.ev = b.ev)
      BY <2>1 DEF Traced
    <2>5. /\ \A j, k \in 1..Len(handled') : handled'[j].ev = handled'[k].ev => j = k
          /\ \A k \in 1..Len(handled') : /\ handled'[k].ev \in 1..Len(kafka')
                                         /\ \A s \in handled'[k].live : call'[s] = "done"
      BY <1>8, <2>1 DEF Traced
    <2> QED
      BY <1>3, <2>3, <2>4, <2>5 DEF Traced, Reached, Now
  <1> QED
    BY <1>4, <1>5, <1>6, <1>7, StepKinds DEF Quiet

\* Nothing was handled, sent or asked for at first.
LEMMA TracedInit == Init => Traced
  BY DEF Init, Traced

\* What was handed out stays recorded, in its order.
LEMMA HandledGrows ==
    ASSUME IInv, [Next]_vars
    PROVE  /\ Len(handled) \in Nat /\ Len(handled') \in Nat
           /\ Len(handled) <= Len(handled')
           /\ \A k \in 1..Len(handled) : handled'[k] = handled[k]
  <1>1. handled \in Seq([ev : Nat, live : SUBSET Sub])
    BY DEF IInv, TypeOK
  <1>2. ASSUME NEW i \in 1..Len(kafka), OnKafkaEvent(i)
        PROVE  /\ Len(handled) \in Nat /\ Len(handled') \in Nat
               /\ Len(handled) <= Len(handled')
               /\ \A k \in 1..Len(handled) : handled'[k] = handled[k]
    <2>1. /\ Len(handled) \in Nat /\ Len(handled') = Len(handled) + 1
          /\ \A k \in 1..Len(handled) : handled'[k] = handled[k]
      BY <1>2, Recorded
    <2> QED
      BY <2>1
  <1>3. CASE handled' = handled
    <2>1. Len(handled) \in Nat
      BY <1>1
    <2> QED
      BY <1>3, <2>1
  <1>4. handled' = handled \/ \E i \in 1..Len(kafka) : OnKafkaEvent(i)
    BY StepKinds DEF Quiet, RowRead, RowFailed, RowDelivered
  <1> QED
    BY <1>2, <1>3, <1>4

\* A streaming query gets its events in the order in which they were handled: an
\* append is written in the step that records its event, behind all the others.
LEMMA OrderStep == IInv /\ Traced /\ StreamsInOrder /\ [Next]_vars => StreamsInOrder'
  <1> SUFFICES ASSUME IInv, Traced, StreamsInOrder, [Next]_vars,
                      NEW s \in Sub, NEW a \in 1..Len(out'[s]), NEW b \in 1..Len(out'[s]),
                      a < b, out'[s][a].type = "append", out'[s][b].type = "append"
               PROVE  \E j, k \in 1..Len(handled') :
                         /\ j <= k
                         /\ handled'[j].ev = out'[s][a].ev
                         /\ handled'[k].ev = out'[s][b].ev
    BY DEF StreamsInOrder
  <1>1. /\ Len(handled) \in Nat /\ Len(handled') \in Nat /\ Len(handled) <= Len(handled')
        /\ \A k \in 1..Len(handled) : handled'[k] = handled[k]
    BY HandledGrows
  <1>2. /\ Len(out[s]) \in Nat
        /\ \A k \in 1..Len(out[s]) : k \in 1..Len(out'[s]) /\ out'[s][k] = out[s][k]
        /\ \A k \in 1..Len(out'[s]) : k > Len(out[s]) => Fresh(s, out'[s][k])
    BY OldOrFresh
  <1>3. \A m : m.type = "append" /\ Fresh(s, m) => /\ Len(handled') = Len(handled) + 1
                                                   /\ handled'[Len(handled')].ev = m.ev
    BY DEF Fresh, DeltaType
  <1>4. CASE b <= Len(out[s])
    <2>1. /\ a \in 1..Len(out[s]) /\ b \in 1..Len(out[s])
          /\ out'[s][a] = out[s][a] /\ out'[s][b] = out[s][b]
      BY <1>2, <1>4
    <2>2. PICK j, k \in 1..Len(handled) :
             j <= k /\ handled[j].ev = out[s][a].ev /\ handled[k].ev = out[s][b].ev
      BY <2>1, SMTT(30) DEF StreamsInOrder
    <2>3. /\ j \in 1..Len(handled') /\ k \in 1..Len(handled')
          /\ handled'[j] = handled[j] /\ handled'[k] = handled[k]
      BY <1>1
    <2> QED
      BY <2>1, <2>2, <2>3
  <1>5. CASE b > Len(out[s]) /\ a <= Len(out[s])
    <2>1. /\ Len(handled') = Len(handled) + 1
          /\ handled'[Len(handled')].ev = out'[s][b].ev
      BY <1>2, <1>3, <1>5
    <2>2. a \in 1..Len(out[s]) /\ out'[s][a] = out[s][a]
      BY <1>2, <1>5
    <2>3. Reached(s, out[s][a].ev)
      BY <2>2 DEF Traced, DeltaType
    <2>4. PICK j \in 1..Len(handled) : handled[j].ev = out[s][a].ev
      BY <2>3 DEF Reached
    <2> QED
      BY <1>1, <2>1, <2>2, <2>4
  <1>6. CASE a > Len(out[s])
    <2>1. /\ Len(handled') = Len(handled) + 1
          /\ handled'[Len(handled')].ev = out'[s][a].ev
          /\ handled'[Len(handled')].ev = out'[s][b].ev
      <3>1. a > Len(out[s]) /\ b > Len(out[s])
        BY <1>2, <1>6
      <3>2. Fresh(s, out'[s][a]) /\ Fresh(s, out'[s][b])
        BY <1>2, <3>1
      <3> QED
        BY <1>3, <3>2
    <2> QED
      BY <1>1, <2>1
  <1> QED
    BY <1>2, <1>4, <1>5, <1>6

\* The list shows the status of the event: merging leaves no older stamp.
LEMMA MergeStamps ==
    ASSUME NEW row \in Row, NEW i \in Nat,
           kafka[i].topic = "cp.status", kafka[i].n > 0
    PROVE  Merge(row, i).at >= i
  BY DEF Merge, Row

\* A row that is sent shows the status of its event, and keeps showing it.
LEMMA StatusStep == IInv /\ WireInv /\ ListShowsStatus /\ [Next]_vars => ListShowsStatus'
  <1> SUFFICES ASSUME IInv, WireInv, ListShowsStatus, [Next]_vars,
                      NEW s \in Sub, NEW k \in 1..Len(out'[s]),
                      query'[s].name = "charge-points", out'[s][k].type = "upsert",
                      kafka'[out'[s][k].ev].topic = "cp.status",
                      kafka'[out'[s][k].ev].n > 0
               PROVE  out'[s][k].row.at >= out'[s][k].ev
    BY DEF ListShowsStatus
  <1>1. /\ query' = query
        /\ \A i \in 1..Len(kafka) : kafka'[i] = kafka[i]
    BY Lasting
  <1>2. /\ Len(out[s]) \in Nat
        /\ \A n \in 1..Len(out[s]) : n \in 1..Len(out'[s]) /\ out'[s][n] = out[s][n]
        /\ \A n \in 1..Len(out'[s]) : n > Len(out[s]) => Fresh(s, out'[s][n])
    BY OldOrFresh
  <1>3. CASE k <= Len(out[s])
    <2>1. k \in 1..Len(out[s]) /\ out'[s][k] = out[s][k]
      BY <1>2, <1>3
    <2>2. out[s][k].ev \in 1..Len(kafka)
      BY <2>1 DEF IInv, RowsBelong, Belongs, DeltaType
    <2> QED
      BY <1>1, <2>1, <2>2 DEF ListShowsStatus
  <1>4. CASE k > Len(out[s])
    <2>1. Fresh(s, out'[s][k])
      BY <1>2, <1>4
    <2>2. PICK t \in answered : t.sub = s /\ out'[s][k] = FromRow(query[s], t.ev, t.row)
      BY <2>1 DEF Fresh, DeltaType
    <2>3. t.row \in Row /\ t.ev \in 1..Len(kafka)
      BY DEF IInv, TypeOK, RunOK
    <2>4. /\ out'[s][k].ev = t.ev
          /\ out'[s][k].row = Merge(t.row, t.ev)
      BY <1>1, <2>2 DEF FromRow
    <2> QED
      BY <1>1, <2>3, <2>4, MergeStamps
  <1> QED
    BY <1>2, <1>3, <1>4

-----------------------------------------------------------------------------
(* Every event is delivered once.                                          *)

\* Where the deltas of event i stand among the messages a.
Places(a, i) == {k \in 1..Len(a) : a[k].type \in DeltaType /\ a[k].ev = i}

\* Writing more messages adds the places of those.
LEMMA PlacesAppend ==
    ASSUME NEW a \in Seq(Message), NEW b \in Seq(Message), NEW i
    PROVE  Places(a \o b, i) = Places(a, i) \cup {Len(a) + k : k \in Places(b, i)}
  <1>1. /\ Len(a) \in Nat /\ Len(b) \in Nat /\ Len(a \o b) = Len(a) + Len(b)
        /\ \A k \in 1..Len(a) : (a \o b)[k] = a[k]
        /\ \A k \in 1..Len(b) : (a \o b)[Len(a) + k] = b[k]
    OBVIOUS
  <1>2. ASSUME NEW k \in Places(a \o b, i)
        PROVE  k \in Places(a, i) \/ \E n \in Places(b, i) : k = Len(a) + n
    <2>1. k \in 1..Len(a \o b) /\ (a \o b)[k].type \in DeltaType /\ (a \o b)[k].ev = i
      BY <1>2 DEF Places
    <2>2. CASE k <= Len(a)
      BY <1>1, <2>1, <2>2 DEF Places
    <2>3. CASE k > Len(a)
      <3>1. k - Len(a) \in 1..Len(b) /\ k = Len(a) + (k - Len(a))
        BY <1>1, <2>1, <2>3
      <3>2. k - Len(a) \in Places(b, i)
        BY <1>1, <2>1, <3>1 DEF Places
      <3> QED
        BY <3>1, <3>2
    <2> QED
      BY <1>1, <2>1, <2>2, <2>3
  <1>3. Places(a, i) \subseteq Places(a \o b, i)
    BY <1>1 DEF Places
  <1>4. \A n \in Places(b, i) : Len(a) + n \in Places(a \o b, i)
    BY <1>1 DEF Places
  <1> QED
    BY <1>2, <1>3, <1>4

\* The places are finitely many.
LEMMA PlacesFinite ==
    ASSUME NEW a \in Seq(Message), NEW i
    PROVE  IsFiniteSet(Places(a, i)) /\ Cardinality(Places(a, i)) \in Nat
  <1>1. IsFiniteSet(1..Len(a))
    BY FS_Interval
  <1>2. Places(a, i) \in SUBSET (1..Len(a))
    BY DEF Places
  <1> QED
    BY <1>1, <1>2, FS_Subset, FS_CardinalityType

\* Messages that are no deltas of i add no place.
LEMMA PlacesKept ==
    ASSUME NEW a \in Seq(Message), NEW i, NEW b \in Seq(Message),
           \A k \in 1..Len(b) : b[k].type \in DeltaType => b[k].ev # i
    PROVE  Places(a \o b, i) = Places(a, i)
  <1>1. Places(b, i) = {}
    BY DEF Places
  <1>2. Places(a \o b, i) = Places(a, i) \cup {Len(a) + k : k \in Places(b, i)}
    BY PlacesAppend
  <1> QED
    BY <1>1, <1>2

\* The first deltas of i are as many as were written.
LEMMA PlacesOpened ==
    ASSUME NEW a \in Seq(Message), NEW i, NEW b \in Seq(Message),
           Places(a, i) = {},
           \A k \in 1..Len(b) : b[k].type \in DeltaType /\ b[k].ev = i
    PROVE  Cardinality(Places(a \o b, i)) = Len(b)
  <1>1. Places(b, i) = 1..Len(b) /\ Len(b) \in Nat /\ Len(a) \in Nat
    BY DEF Places
  <1>2. Places(a \o b, i) = Places(a, i) \cup {Len(a) + k : k \in Places(b, i)}
    BY PlacesAppend
  <1> DEFINE new == {Len(a) + k : k \in 1..Len(b)}
  <1>3. Places(a \o b, i) = new
    BY <1>1, <1>2
  <1>4. new = (Len(a) + 1)..(Len(a) + Len(b))
    <2>1. ASSUME NEW n \in (Len(a) + 1)..(Len(a) + Len(b))
          PROVE  n \in new
      <3>1. n - Len(a) \in 1..Len(b) /\ n = Len(a) + (n - Len(a))
        BY <1>1
      <3> QED
        BY <3>1
    <2>2. ASSUME NEW n \in new
          PROVE  n \in (Len(a) + 1)..(Len(a) + Len(b))
      BY <1>1
    <2> QED
      BY <2>1, <2>2
  <1>5. Cardinality((Len(a) + 1)..(Len(a) + Len(b))) = Len(b)
    <2> DEFINE lo == Len(a) + 1
               hi == Len(a) + Len(b)
    <2>1. lo \in Int /\ hi \in Int /\ hi - lo + 1 = Len(b) /\ (lo > hi => Len(b) = 0)
      BY <1>1
    <2> HIDE DEF lo, hi
    <2>2. Cardinality(lo..hi) = IF lo > hi THEN 0 ELSE hi - lo + 1
      BY <2>1, FS_Interval
    <2>3. Cardinality(lo..hi) = Len(b)
      BY <2>1, <2>2
    <2> QED
      BY <2>3 DEF lo, hi
  <1> QED
    BY <1>3, <1>4, <1>5

\* One more delta of i is one more place.
LEMMA PlacesOneMore ==
    ASSUME NEW a \in Seq(Message), NEW i, NEW m \in Message,
           m.type \in DeltaType, m.ev = i
    PROVE  Cardinality(Places(a \o <<m>>, i)) = Cardinality(Places(a, i)) + 1
  <1>1. <<m>> \in Seq(Message) /\ Len(a) \in Nat
    OBVIOUS
  <1>2. Places(<<m>>, i) = {1}
    BY DEF Places
  <1>3. Places(a \o <<m>>, i) = Places(a, i) \cup {Len(a) + k : k \in Places(<<m>>, i)}
    BY <1>1, PlacesAppend
  <1>4. Places(a \o <<m>>, i) = Places(a, i) \cup {Len(a) + 1}
    BY <1>2, <1>3
  <1>5. Len(a) + 1 \notin Places(a, i)
    BY <1>1 DEF Places
  <1> QED
    BY <1>4, <1>5, PlacesFinite, FS_AddElement

\* The runs of s for event i that are under way.
AskedRuns(s, i)    == {t \in asked : t.sub = s /\ t.ev = i}
AnsweredRuns(s, i) == {t \in answered : t.sub = s /\ t.ev = i}

\* What event i still owes or has given s.
Count(s, i) ==
    Cardinality(Places(out[s], i))
      + (Cardinality(AskedRuns(s, i)) + Cardinality(AnsweredRuns(s, i)))

\* Event i reached s, which is still connected and had no failing run, and was
\* delivered to it as often as its query asks.
OnceFor(s, i) ==
    Reached(s, i) /\ sock[owner[s]] = "open" /\ s \notin lost
        => Count(s, i) = Owed(query[s], i)

Once == \A s \in Sub, i \in Nat : OnceFor(s, i)

\* An event that did not reach s left no trace.
LEMMA Unreached ==
    ASSUME TypeOK, Traced, NEW s \in Sub, NEW i, ~Reached(s, i)
    PROVE  /\ Places(out[s], i) = {}
           /\ AskedRuns(s, i) = {}
           /\ AnsweredRuns(s, i) = {}
  BY DEF Traced, Places, AskedRuns, AnsweredRuns

\* The counts of nothing and of one run.
LEMMA SmallCounts ==
    Cardinality({}) = 0 /\ \A x : Cardinality({x}) = 1
  BY FS_EmptySet, FS_Singleton

\* EveryEventOnce in the words of this module.
LEMMA OnceSays == TypeOK /\ Traced /\ Once => EveryEventOnce
  <1> SUFFICES ASSUME TypeOK, Traced, Once, NEW s \in Sub, NEW k \in 1..Len(handled)
               PROVE  LET i == handled[k].ev
                      IN  /\ s \notin handled[k].live => Count(s, i) = 0
                          /\ (/\ s \in handled[k].live
                              /\ sock[owner[s]] = "open"
                              /\ s \notin lost) => Count(s, i) = Owed(query[s], i)
    BY DEF EveryEventOnce, Delivered, Waiting, Count, Places, AskedRuns, AnsweredRuns
  <1> DEFINE i == handled[k].ev
  <1>1. CASE s \notin handled[k].live
    <2>1. ~Reached(s, i)
      BY <1>1 DEF Traced, Reached
    <2>2. /\ Places(out[s], i) = {} /\ AskedRuns(s, i) = {} /\ AnsweredRuns(s, i) = {}
      BY <2>1, Unreached
    <2>3. Count(s, i) = 0
      BY <2>2, SmallCounts DEF Count
    <2> QED
      BY <1>1, <2>3
  <1>2. CASE s \in handled[k].live
    <2>1. Reached(s, i)
      BY <1>2 DEF Reached
    <2>2. i \in Nat
      BY DEF Traced
    <2> HIDE DEF i
    <2>3. sock[owner[s]] = "open" /\ s \notin lost => Count(s, i) = Owed(query[s], i)
      BY <2>1, <2>2 DEF Once, OnceFor
    <2> QED
      BY <1>2, <2>3 DEF i
  <1> QED
    BY <1>1, <1>2

\* A delivered or answered run turns into the next thing that counts as one.
LEMMA OnceStep == IInv /\ WireInv /\ Traced /\ Once /\ [Next]_vars => Once'
  <1> SUFFICES ASSUME IInv, WireInv, Traced, Once, [Next]_vars,
                      NEW s \in Sub, NEW i \in Nat,
                      Reached(s, i)', sock'[owner'[s]] = "open", s \notin lost'
               PROVE  Count(s, i)' = Owed(query[s], i)'
    BY DEF Once, OnceFor
  <1>0. /\ TypeOK /\ out[s] \in Seq(Message) /\ query[s] \in QueryType
        /\ \A t \in asked \cup answered : t.sub \in Sub /\ RunOK(t)
    BY BrokerAssumption DEF IInv, TypeOK, Run
  <1>1. /\ query' = query
        /\ Len(kafka) \in Nat /\ Len(kafka') \in Nat /\ Len(kafka') >= Len(kafka)
        /\ \A j \in 1..Len(kafka) : kafka'[j] = kafka[j]
        /\ s \notin lost
        /\ call[s] = "done" => /\ owner'[s] = owner[s]
                               /\ sock'[owner[s]] = "open" => sock[owner[s]] = "open"
    BY Lasting
  <1>2. ASSUME Reached(s, i)
        PROVE  /\ i \in 1..Len(kafka)
               /\ sock[owner[s]] = "open" /\ call[s] = "done"
               /\ Count(s, i) = Owed(query[s], i)
               /\ Owed(query[s], i)' = Owed(query[s], i)
    <2>1. i \in 1..Len(kafka) /\ call[s] = "done"
      BY <1>2 DEF Traced, Reached
    <2>2. kafka'[i] = kafka[i] /\ sock[owner[s]] = "open"
      BY <1>1, <2>1
    <2>3. Owed(query[s], i)' = Owed(query[s], i)
      BY <1>1, <2>2 DEF Owed, Relevant
    <2>4. Count(s, i) = Owed(query[s], i)
      BY <1>1, <1>2, <2>2 DEF Once, OnceFor
    <2> QED
      BY <2>1, <2>2, <2>3, <2>4
  <1>3. CASE Quiet
    <2>1. Reached(s, i)
      BY <1>3 DEF Quiet, Reached
    <2>2. PICK msgs \in Seq(Message) :
             /\ out'[s] = out[s] \o msgs
             /\ \A k \in 1..Len(msgs) : msgs[k].type \notin DeltaType
      BY <1>3 DEF Quiet
    <2>3. Places(out[s] \o msgs, i) = Places(out[s], i)
      BY <1>0, <2>2, PlacesKept
    <2>4. AskedRuns(s, i)' = AskedRuns(s, i) /\ AnsweredRuns(s, i)' = AnsweredRuns(s, i)
      BY <1>3 DEF Quiet, AskedRuns, AnsweredRuns
    <2>5. Count(s, i)' = Count(s, i)
      BY <2>2, <2>3, <2>4 DEF Count, Places
    <2> QED
      BY <1>2, <2>1, <2>5
  <1>4. ASSUME NEW j \in 1..Len(kafka), OnKafkaEvent(j)
        PROVE  Count(s, i)' = Owed(query[s], i)'
    <2>1. /\ kafka' = kafka /\ answered' = answered
          /\ asked' = asked \cup {[sub |-> x, ev |-> j] :
                                     x \in {y \in Interested(j) : Refetches(query[y])}}
          /\ out'[s] = IF s \in Interested(j) /\ ~Refetches(query[s])
                       THEN out[s] \o Streamed(query[s], j)
                       ELSE out[s]
      BY <1>4 DEF OnKafkaEvent, world
    <2>2. /\ Len(handled) \in Nat /\ Len(handled') = Len(handled) + 1
          /\ \A k \in 1..Len(handled) : handled'[k] = handled[k] /\ handled[k].ev # j
          /\ handled'[Len(handled) + 1] = [ev |-> j, live |-> Registered]
          /\ ~Reached(s, j)
          /\ Interested(j) \subseteq Registered
      BY <1>4, Recorded
    <2>3. AnsweredRuns(s, i)' = AnsweredRuns(s, i)
      BY <2>1 DEF AnsweredRuns
    <2>4. s \in Interested(j) => /\ Streamed(query[s], j) \in Seq(Message)
                                 /\ Relevant(query[s], kafka[j])
      BY <1>0, StreamedBelongs DEF Interested
    <2>5. /\ \A k \in 1..Len(Streamed(query[s], j)) :
                 Streamed(query[s], j)[k] = [type |-> "append", ev |-> j]
          /\ Len(Streamed(query[s], j)) = IF query[s].name = "meter-history" THEN kafka[j].n ELSE 1
      BY <1>0, DeltaKinds
    <2>6. CASE i # j
      <3>1. Reached(s, i)
        <4>1. PICK k \in 1..Len(handled') : handled'[k].ev = i /\ s \in handled'[k].live
          BY DEF Reached
        <4>2. k \in 1..Len(handled)
          BY <2>2, <2>6, <4>1
        <4> QED
          BY <2>2, <4>1, <4>2 DEF Reached
      <3>2. AskedRuns(s, i)' = AskedRuns(s, i)
        BY <2>1, <2>6 DEF AskedRuns
      <3>3. Places(out'[s], i) = Places(out[s], i)
        <4>1. CASE s \in Interested(j) /\ ~Refetches(query[s])
          <5>1. Places(out[s] \o Streamed(query[s], j), i) = Places(out[s], i)
            <6>1. \A k \in 1..Len(Streamed(query[s], j)) : Streamed(query[s], j)[k].ev # i
              BY <2>5, <2>6
            <6> QED
              BY <1>0, <2>4, <4>1, <6>1, PlacesKept
          <5> QED
            BY <2>1, <4>1, <5>1
        <4> QED
          BY <2>1, <4>1
      <3>4. Count(s, i)' = Count(s, i)
        BY <2>3, <3>2, <3>3 DEF Count, Places
      <3> QED
        BY <1>2, <3>1, <3>4
    <2>7. CASE i = j
      <3>1. s \in Registered
        <4>1. PICK k \in 1..Len(handled') : handled'[k].ev = i /\ s \in handled'[k].live
          BY DEF Reached
        <4>2. k = Len(handled) + 1
          BY <2>2, <2>7, <4>1
        <4> QED
          BY <2>2, <4>1, <4>2
      <3>2. Places(out[s], i) = {} /\ AskedRuns(s, i) = {} /\ AnsweredRuns(s, i) = {}
        BY <1>0, <2>2, <2>7, Unreached
      <3>3. Owed(query[s], i)' = Owed(query[s], i)
        BY <1>1, <2>1 DEF Owed, Relevant
      <3>4. CASE s \in Interested(j) /\ Refetches(query[s])
        <4>1. AskedRuns(s, i)' = {[sub |-> s, ev |-> i]}
          <5>1. \A t \in asked : ~(t.sub = s /\ t.ev = i)
            BY <3>2 DEF AskedRuns
          <5> QED
            BY <2>1, <2>7, <3>4, <5>1 DEF AskedRuns
        <4>2. Places(out'[s], i) = {}
          BY <2>1, <3>2, <3>4
        <4>3. Count(s, i)' = 1
          <5>1. Count(s, i)' = Cardinality(Places(out'[s], i))
                   + (Cardinality(AskedRuns(s, i)') + Cardinality(AnsweredRuns(s, i)'))
            BY DEF Count, Places
          <5>2. /\ Cardinality(AskedRuns(s, i)') = 1
                /\ Cardinality(AnsweredRuns(s, i)') = 0
                /\ Cardinality(Places(out'[s], i)) = 0
            BY <2>3, <3>2, <4>1, <4>2, SmallCounts, Zenon
          <5> QED
            BY <5>1, <5>2
        <4>4. Owed(query[s], i) = 1
          BY <2>4, <2>7, <3>4 DEF Owed, Refetches
        <4> QED
          BY <3>3, <4>3, <4>4
      <3>5. CASE s \in Interested(j) /\ ~Refetches(query[s])
        <4>1. AskedRuns(s, i)' = {}
          BY <2>1, <3>2, <3>5 DEF AskedRuns
        <4>2. Cardinality(Places(out'[s], i)) = Len(Streamed(query[s], j))
          <5>1. \A k \in 1..Len(Streamed(query[s], j)) :
                   /\ Streamed(query[s], j)[k].type \in DeltaType
                   /\ Streamed(query[s], j)[k].ev = i
            BY <2>5, <2>7 DEF DeltaType
          <5>2. Cardinality(Places(out[s] \o Streamed(query[s], j), i))
                   = Len(Streamed(query[s], j))
            BY <1>0, <2>4, <3>2, <3>5, <5>1, PlacesOpened
          <5> QED
            BY <2>1, <3>5, <5>2
        <4>3. Len(Streamed(query[s], j)) = Owed(query[s], i)
          BY <2>4, <2>5, <2>7, <3>5 DEF Owed
        <4>4. Len(Streamed(query[s], j)) \in Nat
          BY <2>4, <3>5
        <4>5. Count(s, i)' = Len(Streamed(query[s], j))
          <5>1. Count(s, i)' = Cardinality(Places(out'[s], i))
                   + (Cardinality(AskedRuns(s, i)') + Cardinality(AnsweredRuns(s, i)'))
            BY DEF Count, Places
          <5>2. /\ Cardinality(AskedRuns(s, i)') = 0
                /\ Cardinality(AnsweredRuns(s, i)') = 0
            BY <2>3, <3>2, <4>1, SmallCounts, Zenon
          <5> QED
            BY <4>2, <4>4, <5>1, <5>2
        <4> QED
          BY <3>3, <4>3, <4>5
      <3>6. CASE s \notin Interested(j)
        <4>1. AskedRuns(s, i)' = {}
          BY <2>1, <3>2, <3>6 DEF AskedRuns
        <4>2. Places(out'[s], i) = {}
          BY <2>1, <3>2, <3>6
        <4>3. Count(s, i)' = 0
          <5>1. Count(s, i)' = Cardinality(Places(out'[s], i))
                   + (Cardinality(AskedRuns(s, i)') + Cardinality(AnsweredRuns(s, i)'))
            BY DEF Count, Places
          <5>2. /\ Cardinality(AskedRuns(s, i)') = 0
                /\ Cardinality(AnsweredRuns(s, i)') = 0
                /\ Cardinality(Places(out'[s], i)) = 0
            BY <2>3, <3>2, <4>1, <4>2, SmallCounts, Zenon
          <5> QED
            BY <5>1, <5>2
        <4>4. Owed(query[s], i) = 0
          BY <2>7, <3>1, <3>6 DEF Owed, Interested
        <4> QED
          BY <3>3, <4>3, <4>4
      <3> QED
        BY <3>4, <3>5, <3>6
    <2> QED
      BY <2>6, <2>7
  <1>5. ASSUME NEW t \in asked, RowRead(t)
        PROVE  Count(s, i)' = Owed(query[s], i)'
    <2> DEFINE u == [sub |-> t.sub, ev |-> t.ev, row |-> gw[kafka[t.ev].cp]]
    <2>1. /\ handled' = handled /\ out' = out
          /\ asked' = asked \ {t} /\ answered' = answered \cup {u}
      BY <1>5 DEF RowRead
    <2>2. u.sub = t.sub /\ u.ev = t.ev
      OBVIOUS
    <2> HIDE DEF u
    <2>3. Reached(s, i)
      BY <2>1 DEF Reached
    <2>4. CASE t.sub = s /\ t.ev = i
      <3>1. AskedRuns(s, i) = {t} /\ AskedRuns(s, i)' = {}
        <4>1. \A a \in asked : a = [sub |-> a.sub, ev |-> a.ev]
          BY <1>0 DEF TypeOK, Run
        <4>2. \A a \in asked : a.sub = s /\ a.ev = i => a = t
          BY <2>4, <4>1
        <4> QED
          BY <2>1, <2>4, <4>2 DEF AskedRuns
      <3>2. AnsweredRuns(s, i) = {} /\ AnsweredRuns(s, i)' = {u}
        BY <2>1, <2>2, <2>4 DEF AnsweredRuns, Traced
      <3>3. Count(s, i)' = Count(s, i)
        <4>1. /\ Cardinality(AskedRuns(s, i)) = 1 /\ Cardinality(AskedRuns(s, i)') = 0
              /\ Cardinality(AnsweredRuns(s, i)) = 0 /\ Cardinality(AnsweredRuns(s, i)') = 1
          BY <3>1, <3>2, SmallCounts, Zenon
        <4>2. Cardinality(Places(out[s], i)) = Cardinality(Places(out'[s], i))
          BY <2>1
        <4>3. Count(s, i)' = Cardinality(Places(out'[s], i))
                 + (Cardinality(AskedRuns(s, i)') + Cardinality(AnsweredRuns(s, i)'))
          BY DEF Count, Places
        <4> QED
          BY <4>1, <4>2, <4>3 DEF Count
      <3> QED
        BY <1>2, <2>3, <3>3
    <2>5. CASE ~(t.sub = s /\ t.ev = i)
      <3>1. AskedRuns(s, i)' = AskedRuns(s, i) /\ AnsweredRuns(s, i)' = AnsweredRuns(s, i)
        BY <2>1, <2>2, <2>5 DEF AskedRuns, AnsweredRuns
      <3>2. Count(s, i)' = Count(s, i)
        BY <2>1, <3>1 DEF Count, Places
      <3> QED
        BY <1>2, <2>3, <3>2
    <2> QED
      BY <2>4, <2>5
  <1>6. ASSUME NEW t \in asked, RowFailed(t)
        PROVE  Count(s, i)' = Owed(query[s], i)'
    <2>1. /\ handled' = handled /\ out' = out /\ answered' = answered
          /\ asked' = asked \ {t} /\ lost' = lost \cup {t.sub}
      BY <1>6 DEF RowFailed
    <2>2. Reached(s, i)
      BY <2>1 DEF Reached
    <2>3. AskedRuns(s, i)' = AskedRuns(s, i) /\ AnsweredRuns(s, i)' = AnsweredRuns(s, i)
      BY <2>1 DEF AskedRuns, AnsweredRuns
    <2>4. Count(s, i)' = Count(s, i)
      BY <2>1, <2>3 DEF Count, Places
    <2> QED
      BY <1>2, <2>2, <2>4
  <1>7. ASSUME NEW t \in answered, RowDelivered(t)
        PROVE  Count(s, i)' = Owed(query[s], i)'
    <2> DEFINE m == FromRow(query[t.sub], t.ev, t.row)
    <2>1. /\ handled' = handled /\ asked' = asked /\ answered' = answered \ {t}
          /\ Send(t.sub, <<m>>)
      BY <1>7 DEF RowDelivered
    <2>2. Reached(s, i)
      BY <2>1 DEF Reached
    <2>3. AskedRuns(s, i)' = AskedRuns(s, i)
      BY <2>1 DEF AskedRuns
    <2>4. m \in Message /\ m.type \in DeltaType /\ m.ev = t.ev
      <3>1. /\ query[t.sub] \in QueryType /\ t.row \in Row /\ t.ev \in 1..Len(kafka)
            /\ Relevant(query[t.sub], kafka[t.ev]) /\ t.row.cp = kafka[t.ev].cp
        BY <1>0, BrokerAssumption DEF TypeOK, RunOK, IInv, RowsOK
      <3>2. m \in Message
        BY <1>0, <3>1, FromRowBelongs
      <3>3. m.type \in {"upsert", "remove"} /\ m.ev = t.ev
        BY FromRowKind
      <3> QED
        BY <3>2, <3>3 DEF DeltaType
    <2> HIDE DEF m
    <2>5. CASE t.sub = s
      <3>1. out'[s] = out[s] \o <<m>>
        BY <1>0, <1>2, <2>1, <2>2, <2>5 DEF Send, TypeOK
      <3>2. CASE t.ev = i
        <4>1. AnsweredRuns(s, i) = {t} /\ AnsweredRuns(s, i)' = {}
          BY <2>1, <2>5, <3>2 DEF AnsweredRuns, Traced
        <4>2. Cardinality(Places(out'[s], i)) = Cardinality(Places(out[s], i)) + 1
          BY <1>0, <2>4, <3>1, <3>2, PlacesOneMore
        <4>3. Cardinality(Places(out[s], i)) \in Nat
          BY <1>0, PlacesFinite
        <4>4. AskedRuns(s, i) = {}
          BY <2>5, <3>2 DEF AskedRuns, Traced
        <4>5. Count(s, i)' = Cardinality(Places(out'[s], i))
                 + (Cardinality(AskedRuns(s, i)') + Cardinality(AnsweredRuns(s, i)'))
          BY DEF Count, Places
        <4>6. Count(s, i)' = Count(s, i)
          <5>1. /\ Cardinality(AskedRuns(s, i)) = 0 /\ Cardinality(AskedRuns(s, i)') = 0
                /\ Cardinality(AnsweredRuns(s, i)) = 1 /\ Cardinality(AnsweredRuns(s, i)') = 0
            BY <2>3, <4>1, <4>4, SmallCounts, Zenon
          <5> QED
            BY <4>2, <4>3, <4>5, <5>1 DEF Count
        <4> QED
          BY <1>2, <2>2, <4>6
      <3>3. CASE t.ev # i
        <4>1. <<m>> \in Seq(Message) /\ \A k \in 1..Len(<<m>>) : <<m>>[k].ev # i
          BY <2>4, <3>3
        <4>2. Places(out'[s], i) = Places(out[s], i)
          BY <1>0, <3>1, <4>1, PlacesKept
        <4>3. AnsweredRuns(s, i)' = AnsweredRuns(s, i)
          BY <2>1, <3>3 DEF AnsweredRuns
        <4>4. Count(s, i)' = Count(s, i)
          BY <2>3, <4>2, <4>3 DEF Count, Places
        <4> QED
          BY <1>2, <2>2, <4>4
      <3> QED
        BY <3>2, <3>3
    <2>6. CASE t.sub # s
      <3>1. out'[s] = out[s]
        BY <1>0, <2>1, <2>6 DEF Send, TypeOK
      <3>2. AnsweredRuns(s, i)' = AnsweredRuns(s, i)
        BY <2>1, <2>6 DEF AnsweredRuns
      <3>3. Count(s, i)' = Count(s, i)
        BY <2>3, <3>1, <3>2 DEF Count, Places
      <3> QED
        BY <1>2, <2>2, <3>3
    <2> QED
      BY <2>5, <2>6
  <1> QED
    BY <1>3, <1>4, <1>5, <1>6, <1>7, StepKinds

\* Nothing was handled at first.
LEMMA OnceInit == Init => Once /\ StreamsInOrder /\ ListShowsStatus
  BY DEF Init, Once, OnceFor, Reached, StreamsInOrder, ListShowsStatus

\* All of it holds in every reachable state.
LEMMA DeliveryHolds == Spec => [](Traced /\ Once /\ StreamsInOrder /\ ListShowsStatus)
  BY InvHolds, WireInit, WireStep, TracedInit, TracedStep, OnceInit, OnceStep,
     OrderStep, StatusStep, PTL DEF Spec

\* onKafkaEvent loses and duplicates nothing.
THEOREM EventsDeliveredOnce == Spec => []EveryEventOnce
  <1>1. IInv => TypeOK
    BY DEF IInv
  <1> QED
    BY <1>1, InvHolds, DeliveryHolds, OnceSays, PTL

\* Appended values arrive in the order of their events.
THEOREM StreamsDeliverInOrder == Spec => []StreamsInOrder
  BY DeliveryHolds, PTL

\* The fleet list shows a connector status with the event that reports it.
THEOREM StatusShownWithItsEvent == Spec => []ListShowsStatus
  BY DeliveryHolds, PTL
=============================================================================
