---------------------------- MODULE ClientProofs ----------------------------
(***************************************************************************)
(* Proofs about one client of the browser's socket and its hooks, for any  *)
(* number of hooks, lost sockets, changes of params and deltas.            *)
(***************************************************************************)
EXTENDS ConsoleClient, SequenceTheorems, TLAPS

-----------------------------------------------------------------------------
(* ConsoleClient: types.                                                   *)

\* Re-running effects keeps the types.
LEMMA RerunType ==
    ASSUME TypeOK, NEW H \in SUBSET Hook, NEW R \in SUBSET Hook, Rerun(H, R)
    PROVE  /\ runs' \in [Hook -> Nat] /\ live' \in [Hook -> BOOLEAN]
           /\ handle' \in [Hook -> Nat]
           /\ abandoned' \in SUBSET [hook : Hook, run : Nat]
           /\ active' \in SUBSET [sid : Nat, hook : Hook, run : Nat]
           /\ pending' \in SUBSET Request
           /\ toServer' \in SUBSET ToServer
  <1> DEFINE gone == {a \in active : \E h \in H : live[h] /\ handle[h] = a.sid}
             asks == {[hook |-> h, run |-> runs[h] + 1, of |-> 0, conn |-> 0] : h \in R}
             unsubscribes == {[type |-> "unsubscribe", sid |-> a.sid] : a \in gone}
  <1>1. runs \in [Hook -> Nat] /\ handle \in [Hook -> Nat]
    BY DEF TypeOK
  <1>2. asks \in SUBSET Request
    BY <1>1 DEF Request
  <1>3. active' = active \ gone /\ pending' = pending \cup asks
    BY DEF Rerun
  <1>4. abandoned' \in SUBSET [hook : Hook, run : Nat]
    BY <1>1 DEF Rerun, Unanswered, TypeOK
  <1>5. unsubscribes \in SUBSET ToServer /\ Subscribe(asks) \in SUBSET ToServer
    BY <1>2 DEF TypeOK, ToServer, Subscribe
  <1>6. toServer' \in SUBSET ToServer
    <2>1. toServer' = toServer \/ toServer' = toServer \cup unsubscribes \cup Subscribe(asks)
      BY DEF Rerun
    <2> QED
      BY <1>5, <2>1 DEF TypeOK
  <1>7. runs' \in [Hook -> Nat] /\ live' \in [Hook -> BOOLEAN] /\ handle' \in [Hook -> Nat]
    BY <1>1 DEF Rerun
  <1>8. pending' \in SUBSET Request
    BY <1>2, <1>3 DEF TypeOK
  <1>9. active' \in SUBSET [sid : Nat, hook : Hook, run : Nat]
    BY <1>3 DEF TypeOK
  <1> QED
    BY <1>4, <1>6, <1>7, <1>8, <1>9

\* The messages the server sends are messages.
LEMMA ToClientType ==
    /\ \A q \in Request, n \in Nat : [type |-> "accepted", req |-> q, sid |-> n] \in ToClient
    /\ \A n \in Nat : /\ [type |-> "snapshot", sid |-> n] \in ToClient
                      /\ [type |-> "delta", sid |-> n] \in ToClient
    /\ \A r \in Rpc : [type |-> "result", rpc |-> r] \in ToClient
    /\ \A re \in Request \cup Rpc : [type |-> "error", re |-> re] \in ToClient
  BY DEF ToClient

\* The head of what arrives, and what is left.
LEMMA ArrivesType ==
    ASSUME TypeOK, NEW type, Arrives(type)
    PROVE  /\ Head(toClient) \in ToClient /\ Head(toClient) = toClient[1]
           /\ Head(toClient).type = type
           /\ toClient' = Tail(toClient) /\ toClient' \in Seq(ToClient)
           /\ Len(toClient) \in Nat /\ Len(toClient) > 0
           /\ Len(toClient') = Len(toClient) - 1
           /\ \A k \in 1..Len(toClient') : toClient'[k] = toClient[k + 1]
           /\ status = "open" /\ ~explicitlyClosed
  <1>1. toClient \in Seq(ToClient)
    BY DEF TypeOK
  <1>2. /\ toClient # <<>> /\ toClient' = Tail(toClient) /\ Head(toClient).type = type
        /\ status = "open" /\ ~explicitlyClosed
    BY DEF Arrives, CanSend
  <1> QED
    BY <1>1, <1>2

\* Init gives the variables their types.
LEMMA ClientTypeInit == Init => TypeOK
  <1> SUFFICES ASSUME Init PROVE TypeOK
    OBVIOUS
  <1>1. toClient \in Seq(ToClient) /\ toServer \in SUBSET ToServer
    BY DEF Init
  <1>2. /\ shown \in [Hook -> [snapshot : Nat, delta : Nat, error : Nat]]
        /\ runs \in [Hook -> Nat] /\ live \in [Hook -> BOOLEAN] /\ handle \in [Hook -> Nat]
    BY DEF Init, Nothing
  <1>3. /\ rpcs \in [Rpc -> {"idle", "pending", "resolved", "rejected"}]
        /\ sentOn \in [Rpc -> Nat] /\ executed \in [Rpc -> Nat]
    BY DEF Init
  <1>4. changes \in 0..MaxChanges /\ drops \in 0..MaxDrops /\ deltas \in 0..MaxDeltas
    BY ConsoleClientAssumption DEF Init
  <1>5. /\ pending \in SUBSET Request
        /\ active \in SUBSET [sid : Nat, hook : Hook, run : Nat]
        /\ refused \in SUBSET [hook : Hook, run : Nat]
        /\ abandoned \in SUBSET [hook : Hook, run : Nat]
        /\ mounted \in SUBSET Hook /\ regs \in SUBSET Nat
    BY DEF Init
  <1>6. /\ status \in {"closed", "connecting", "open"} /\ conn \in Nat
        /\ timer \in BOOLEAN /\ explicitlyClosed \in BOOLEAN
        /\ rendered \in {"closed", "connecting", "open"}
        /\ authed \in BOOLEAN /\ nextSid \in Nat
    BY DEF Init
  <1> QED
    BY <1>1, <1>2, <1>3, <1>4, <1>5, <1>6 DEF TypeOK

\* Every step keeps the types.
LEMMA ClientTypeStep == TypeOK /\ [Next]_vars => TypeOK'
  <1> SUFFICES ASSUME TypeOK, [Next]_vars
               PROVE  TypeOK'
    OBVIOUS
  <1>0. /\ \A x \in Seq(ToClient), m \in ToClient : Append(x, m) \in Seq(ToClient)
        /\ <<>> \in Seq(ToClient)
    OBVIOUS
  <1>1. CASE Connect \/ ReconnectTimer \/ Close
    <2>1. /\ UNCHANGED <<react, shown, pending, active, calls, server, wire, past, bounds>>
      BY <1>1 DEF Connect, ReconnectTimer, Close
    <2>2. timer' \in BOOLEAN /\ explicitlyClosed' \in BOOLEAN
      BY <1>1 DEF TypeOK, Connect, ReconnectTimer, Close
    <2>3. status' \in {"closed", "connecting", "open"} /\ conn' \in Nat
      BY <1>1 DEF TypeOK, Connect, ReconnectTimer, Close, OpenSocket
    <2> QED
      BY <2>1, <2>2, <2>3 DEF TypeOK, react, calls, server, wire, past, bounds
  <1>2. CASE Open
    <2>1. Reissued \in SUBSET Request
      BY DEF TypeOK, Reissued, Request
    <2>2. pending' \in SUBSET Request /\ toServer' \in SUBSET ToServer
      BY <1>2, <2>1 DEF TypeOK, Open, Subscribe, ToServer
    <2>3. authed' \in BOOLEAN /\ status' = "open"
      BY <1>2 DEF Open
    <2> QED
      BY <1>2, <2>2, <2>3 DEF TypeOK, Open, react, calls, past, bounds
  <1>3. CASE SocketClosed
    <2>1. /\ explicitlyClosed' \in BOOLEAN /\ timer' \in BOOLEAN
          /\ drops' \in 0..MaxDrops
      <3>1. explicitlyClosed' = explicitlyClosed \/ explicitlyClosed' = TRUE
        BY <1>3 DEF SocketClosed
      <3>2. explicitlyClosed' \in BOOLEAN
        BY <3>1 DEF TypeOK
      <3>3. timer' = ~explicitlyClosed'
        BY <1>3 DEF SocketClosed
      <3>4. timer' \in BOOLEAN
        BY <3>3
      <3>5. drops' = drops \/ (drops < MaxDrops /\ drops' = drops + 1)
        BY <1>3 DEF SocketClosed
      <3>6. drops' \in 0..MaxDrops
        BY <3>5, ConsoleClientAssumption DEF TypeOK
      <3> QED
        BY <3>2, <3>4, <3>6
    <2>2. rpcs' \in [Rpc -> {"idle", "pending", "resolved", "rejected"}]
      BY <1>3 DEF TypeOK, SocketClosed, FailPendingRpcs
    <2>3. /\ status' = "closed" /\ authed' = FALSE /\ regs' = {} /\ toServer' = {}
          /\ toClient' = <<>>
          /\ UNCHANGED <<conn, react, shown, pending, active, sentOn, executed, nextSid,
                         past, changes, deltas>>
      BY <1>3 DEF SocketClosed
    <2> QED
      BY <1>0, <2>1, <2>2, <2>3 DEF TypeOK, react, past
  <1>4. CASE Commit
    <2>1. /\ runs' \in [Hook -> Nat] /\ live' \in [Hook -> BOOLEAN]
          /\ handle' \in [Hook -> Nat]
          /\ abandoned' \in SUBSET [hook : Hook, run : Nat]
          /\ active' \in SUBSET [sid : Nat, hook : Hook, run : Nat]
          /\ pending' \in SUBSET Request
          /\ toServer' \in SUBSET ToServer
      <3>1. mounted \in SUBSET Hook /\ IfOpen(mounted, status) \in SUBSET Hook
        BY DEF TypeOK, IfOpen
      <3> QED
        BY <1>4, <3>1, RerunType DEF Commit
    <2> QED
      BY <1>4, <2>1 DEF TypeOK, Commit, socket, calls, server, bounds
  <1>5. ASSUME NEW h \in Hook, Mount(h) \/ Unmount(h) \/ ParamsChange(h)
        PROVE  TypeOK'
    <2>1. /\ runs' \in [Hook -> Nat] /\ live' \in [Hook -> BOOLEAN]
          /\ handle' \in [Hook -> Nat]
          /\ abandoned' \in SUBSET [hook : Hook, run : Nat]
          /\ active' \in SUBSET [sid : Nat, hook : Hook, run : Nat]
          /\ pending' \in SUBSET Request
          /\ toServer' \in SUBSET ToServer
      <3>1. {h} \in SUBSET Hook /\ IfOpen({h}, rendered) \in SUBSET Hook /\ {} \in SUBSET Hook
        BY DEF IfOpen
      <3> QED
        BY <1>5, <3>1, RerunType DEF Mount, Unmount, ParamsChange
    <2>2. /\ changes' \in 0..MaxChanges /\ mounted' \in SUBSET Hook
          /\ UNCHANGED <<socket, rendered, calls, server, toClient, refused, drops, deltas>>
      BY <1>5, ConsoleClientAssumption DEF TypeOK, Mount, Unmount, ParamsChange
    <2>3. shown' \in [Hook -> [snapshot : Nat, delta : Nat, error : Nat]]
      <3>1. shown' = shown \/ shown' = [shown EXCEPT ![h] = Nothing]
        BY <1>5 DEF Mount, Unmount, ParamsChange
      <3>2. Nothing \in [snapshot : Nat, delta : Nat, error : Nat]
        BY DEF Nothing
      <3> HIDE DEF Nothing
      <3> QED
        BY <3>1, <3>2 DEF TypeOK
    <2> QED
      BY <2>1, <2>2, <2>3 DEF TypeOK, socket, calls, server
  <1>6. ASSUME NEW r \in Rpc, CallRpc(r)
        PROVE  TypeOK'
    <2>1. /\ rpcs' \in [Rpc -> {"idle", "pending", "resolved", "rejected"}]
          /\ sentOn' \in [Rpc -> Nat]
      BY <1>6 DEF TypeOK, CallRpc
    <2>2. toServer' \in SUBSET ToServer
      BY <1>6 DEF TypeOK, CallRpc, ToServer
    <2> QED
      BY <1>6, <2>1, <2>2 DEF TypeOK, CallRpc, socket, react, server, past, bounds
  <1>7. ASSUME NEW m \in toServer, Answer(m)
        PROVE  TypeOK'
    <2>1. m \in ToServer /\ toServer' \in SUBSET ToServer
      BY <1>7 DEF TypeOK, Answer, Accept, Refuse, Unregister, Execute, Receive
    <2>2. CASE Accept(m)
      <3>1. m.req \in Request
        BY <2>1, <2>2 DEF Accept, ToServer
      <3>2. toClient' \in Seq(ToClient)
        <4> DEFINE one == [type |-> "accepted", req |-> m.req, sid |-> nextSid]
                   two == [type |-> "snapshot", sid |-> nextSid]
        <4>1. one \in ToClient /\ two \in ToClient
          BY <3>1, ToClientType DEF TypeOK
        <4>2. toClient' = toClient \o <<one, two>>
          BY <2>2 DEF Accept
        <4> HIDE DEF one, two
        <4> QED
          BY <4>1, <4>2 DEF TypeOK
      <3>3. /\ regs' = regs \cup {nextSid} /\ nextSid' = nextSid + 1
            /\ UNCHANGED <<socket, react, shown, pending, active, calls, authed, past, bounds>>
        BY <2>2 DEF Accept
      <3>4. regs' \in SUBSET Nat /\ nextSid' \in Nat
        BY <3>3 DEF TypeOK
      <3> QED
        BY <2>1, <3>2, <3>3, <3>4 DEF TypeOK, socket, react, calls, past, bounds
    <2>3. CASE Refuse(m)
      <3>1. m.req \in Request
        BY <2>1, <2>3 DEF Refuse, ToServer
      <3>2. toClient' \in Seq(ToClient)
        <4>1. [type |-> "error", re |-> m.req] \in ToClient
          BY <3>1, ToClientType
        <4> QED
          BY <1>0, <2>3, <4>1 DEF Refuse, TypeOK
      <3> QED
        BY <2>1, <2>3, <3>2 DEF TypeOK, Refuse, socket, react, calls, server, past, bounds
    <2>4. CASE Unregister(m)
      BY <2>1, <2>4 DEF TypeOK, Unregister, socket, react, calls, past, bounds
    <2>5. CASE Execute(m)
      <3>1. m.rpc \in Rpc
        BY <2>1, <2>5 DEF Execute, ToServer
      <3>2. toClient' \in Seq(ToClient)
        <4>1. /\ [type |-> "error", re |-> m.rpc] \in ToClient
              /\ [type |-> "result", rpc |-> m.rpc] \in ToClient
          BY <3>1, ToClientType
        <4> QED
          BY <1>0, <2>5, <4>1 DEF Execute, TypeOK
      <3>3. executed' \in [Rpc -> Nat]
        BY <2>5, <3>1 DEF Execute, TypeOK
      <3> QED
        BY <2>1, <2>5, <3>2, <3>3 DEF TypeOK, Execute, socket, react, server, past, bounds
    <2> QED
      BY <1>7, <2>2, <2>3, <2>4, <2>5 DEF Answer
  <1>8. ASSUME NEW sid \in regs, Push(sid)
        PROVE  TypeOK'
    <2>1. toClient' \in Seq(ToClient)
      <3>1. [type |-> "delta", sid |-> sid] \in ToClient
        BY ToClientType DEF TypeOK
      <3> QED
        BY <1>0, <1>8, <3>1 DEF Push, TypeOK
    <2>2. deltas' \in 0..MaxDeltas
      BY <1>8, ConsoleClientAssumption DEF Push, TypeOK
    <2> QED
      BY <1>8, <2>1, <2>2 DEF TypeOK, Push, socket, react, calls, server, past
  <1>9. CASE OnAccepted
    <2>1. /\ Head(toClient) \in ToClient /\ Head(toClient).type = "accepted"
          /\ toClient' \in Seq(ToClient)
      BY <1>9, ArrivesType DEF OnAccepted
    <2>2. Head(toClient).sid \in Nat /\ Head(toClient).req \in Request
      BY <2>1 DEF ToClient
    <2>3. /\ Head(toClient).req.hook \in Hook /\ Head(toClient).req.run \in Nat
      BY <2>2 DEF Request
    <2>4. /\ active' \in SUBSET [sid : Nat, hook : Hook, run : Nat]
          /\ pending' \in SUBSET Request
          /\ handle' \in [Hook -> Nat]
      <3> DEFINE m == Head(toClient)
                 q == m.req
                 a == [sid |-> m.sid, hook |-> q.hook, run |-> q.run]
      <3>1. /\ active' \in {active, active \cup {a}}
            /\ pending' \in {pending, pending \ {q}}
            /\ handle' \in {handle, [handle EXCEPT ![q.hook] = m.sid]}
        BY <1>9 DEF OnAccepted
      <3>2. a \in [sid : Nat, hook : Hook, run : Nat] /\ m.sid \in Nat
        BY <2>2, <2>3
      <3> HIDE DEF m, q, a
      <3> QED
        BY <3>1, <3>2 DEF TypeOK
    <2> QED
      BY <1>9, <2>1, <2>4 DEF TypeOK, OnAccepted, socket, calls, server, past, bounds
  <1>10. CASE OnSnapshot \/ OnDelta
    <2>1. toClient' \in Seq(ToClient)
      BY <1>10, ArrivesType DEF OnSnapshot, OnDelta
    <2>2. \A sid : \A h \in Listening(sid) : RunOf(sid) \in Nat
      <3> SUFFICES ASSUME NEW sid, NEW h \in Listening(sid)
                   PROVE  RunOf(sid) \in Nat
        OBVIOUS
      <3>1. (CHOOSE a \in active : a.sid = sid) \in active
        BY DEF Listening
      <3> QED
        BY <3>1 DEF RunOf, TypeOK
    <2>3. shown' \in [Hook -> [snapshot : Nat, delta : Nat, error : Nat]]
      <3>1. CASE OnSnapshot
        BY <2>2, <3>1 DEF OnSnapshot, TypeOK
      <3>2. CASE OnDelta
        BY <2>2, <3>2 DEF OnDelta, TypeOK
      <3> QED
        BY <1>10, <3>1, <3>2
    <2> QED
      BY <1>10, <2>1, <2>3 DEF TypeOK, OnSnapshot, OnDelta, socket, react, calls, server,
                                past, bounds
  <1>11. CASE OnResult
    <2>1. toClient' \in Seq(ToClient)
      BY <1>11, ArrivesType DEF OnResult
    <2>2. rpcs' \in [Rpc -> {"idle", "pending", "resolved", "rejected"}]
      BY <1>11 DEF TypeOK, OnResult
    <2> QED
      BY <1>11, <2>1, <2>2 DEF TypeOK, OnResult, socket, react, server, past, bounds
  <1>12. CASE OnError
    <2> DEFINE re == Head(toClient).re
    <2>1. /\ Head(toClient) \in ToClient /\ Head(toClient).type = "error"
          /\ toClient' \in Seq(ToClient)
      BY <1>12, ArrivesType DEF OnError
    <2>2. re \in Request \cup Rpc
      BY <2>1 DEF ToClient
    <2>3. UNCHANGED <<socket, react, active, sentOn, executed, server, toServer,
                      abandoned, bounds>>
      BY <1>12 DEF OnError
    <2>4. CASE re \in Rpc
      <3>1. /\ rpcs' = [rpcs EXCEPT ![re] = IF @ = "pending" THEN "rejected" ELSE @]
            /\ UNCHANGED <<pending, shown, refused>>
        BY <1>12, <2>4 DEF OnError
      <3>2. rpcs' \in [Rpc -> {"idle", "pending", "resolved", "rejected"}]
        BY <3>1 DEF TypeOK
      <3> QED
        BY <2>1, <2>3, <3>1, <3>2 DEF TypeOK, socket, react, server, bounds
    <2>5. CASE re \notin Rpc
      <3>1. re \in Request /\ re.hook \in Hook /\ re.run \in Nat
        BY <2>2, <2>5 DEF Request
      <3>2. /\ pending' = pending \ {re} /\ rpcs' = rpcs
            /\ refused' = refused \cup {[hook |-> re.hook, run |-> re.run]}
            /\ shown' \in {shown, [shown EXCEPT ![re.hook].error = re.run]}
        BY <1>12, <2>5 DEF OnError
      <3> HIDE DEF re
      <3>3. shown' \in [Hook -> [snapshot : Nat, delta : Nat, error : Nat]]
        <4> DEFINE new == [shown[re.hook] EXCEPT !.error = re.run]
        <4>1. new \in [snapshot : Nat, delta : Nat, error : Nat]
          <5>1. shown[re.hook] \in [snapshot : Nat, delta : Nat, error : Nat]
            BY <3>1 DEF TypeOK
          <5> QED
            BY <3>1, <5>1
        <4>2. shown' \in {shown, [shown EXCEPT ![re.hook] = new]}
          BY <3>2
        <4> HIDE DEF new
        <4> QED
          BY <3>1, <4>1, <4>2 DEF TypeOK
      <3>4. refused' \in SUBSET [hook : Hook, run : Nat]
        <4>1. [hook |-> re.hook, run |-> re.run] \in [hook : Hook, run : Nat]
          BY <3>1
        <4>2. refused \in SUBSET [hook : Hook, run : Nat]
          BY DEF TypeOK
        <4> QED
          BY <3>2, <4>1, <4>2
      <3> QED
        BY SMTT(30), <2>1, <2>3, <3>2, <3>3, <3>4 DEF TypeOK, socket, react, server, bounds
    <2> QED
      BY <2>4, <2>5
  <1>13. CASE UNCHANGED vars
    BY <1>13 DEF TypeOK, vars, socket, react, calls, server, wire, past, bounds
  <1> QED
    BY <1>1, <1>2, <1>3, <1>4, <1>5, <1>6, <1>7, <1>8, <1>9, <1>10, <1>11, <1>12, <1>13
       DEF Next, Deliver

\* Every variable of the client keeps its type, for any hooks and RPC calls.
THEOREM ClientTypeCorrect == Spec => []TypeOK
  BY ClientTypeInit, ClientTypeStep, PTL DEF Spec

-----------------------------------------------------------------------------
(* ConsoleClient: subscription ids, and the runs of the effects.           *)

\* The timer is armed only while there is no socket; nothing was rendered before
\* the first one; and an effect run that was not cleaned up belongs to a mounted
\* hook and to a commit that saw the socket open.
SocketOK ==
    /\ timer => status = "closed"
    /\ conn = 0 => status = "closed" /\ rendered = "closed" /\ ~timer
    /\ \A h \in Hook : live[h] => h \in mounted /\ rendered = "open"

\* A subscription id is minted once: it is on its way to the client, or it names
\* one active subscription, or the client gave it up, which it does for good.
SidsOK ==
    /\ nextSid > 0
    /\ \A a \in active : a.sid > 0 /\ a.sid < nextSid /\ a.run <= runs[a.hook]
    /\ \A a, b \in active : a.sid = b.sid => a = b
    /\ \A k \in 1..Len(toClient) : toClient[k].type = "accepted" =>
          /\ toClient[k].sid > 0 /\ toClient[k].sid < nextSid
          /\ \A a \in active : a.sid # toClient[k].sid
    /\ \A j, k \in 1..Len(toClient) :
          (/\ toClient[j].type = "accepted" /\ toClient[k].type = "accepted"
           /\ toClient[j].sid = toClient[k].sid) => j = k
    /\ \A m \in toServer : m.type = "unsubscribe" =>
          /\ m.sid < nextSid
          /\ \A a \in active : a.sid # m.sid
          /\ \A k \in 1..Len(toClient) :
                toClient[k].type = "accepted" => toClient[k].sid # m.sid
    /\ \A q \in pending : q.run <= runs[q.hook]

\* What the closure unsub of a hook knows is an active subscription of the hook's
\* latest run, which was not cleaned up.
HandleOK ==
    \A h \in Hook : handle[h] # 0 =>
        /\ live[h]
        /\ [sid |-> handle[h], hook |-> h, run |-> runs[h]] \in active

\* No hook shows data of a run that did not start yet.
ShownOK ==
    \A h \in Hook : /\ shown[h].snapshot <= runs[h]
                    /\ shown[h].delta <= runs[h]
                    /\ shown[h].error <= runs[h]

ClientInv == TypeOK /\ SocketOK /\ SidsOK /\ HandleOK /\ ShownOK

\* Ids stay in order when the client's subscriptions stay and the messages on
\* their way only become fewer, but for those that carry no new id.
LEMMA SidsKept ==
    ASSUME TypeOK, SidsOK, UNCHANGED <<active, nextSid, runs>>,
           NEW d \in Nat,
           \A k \in 1..Len(toClient') : toClient'[k].type = "accepted" =>
              k + d \in 1..Len(toClient) /\ toClient'[k] = toClient[k + d],
           \A m \in toServer' : m.type = "unsubscribe" => m \in toServer,
           \A q \in pending' : q.run <= runs[q.hook]
    PROVE  SidsOK'
  <1>1. Len(toClient) \in Nat
    BY DEF TypeOK
  <1>2. \A k \in 1..Len(toClient') : toClient'[k].type = "accepted" =>
          /\ toClient'[k].sid > 0 /\ toClient'[k].sid < nextSid
          /\ \A a \in active : a.sid # toClient'[k].sid
    BY DEF SidsOK
  <1>3. ASSUME NEW j \in 1..Len(toClient'), NEW k \in 1..Len(toClient'),
               toClient'[j].type = "accepted", toClient'[k].type = "accepted",
               toClient'[j].sid = toClient'[k].sid
        PROVE  j = k
    <2>1. /\ j + d \in 1..Len(toClient) /\ toClient'[j] = toClient[j + d]
          /\ k + d \in 1..Len(toClient) /\ toClient'[k] = toClient[k + d]
      BY <1>3
    <2>2. j + d = k + d
      BY <1>3, <2>1 DEF SidsOK
    <2> QED
      BY <2>2
  <1>4. \A m \in toServer' : m.type = "unsubscribe" =>
          /\ m.sid < nextSid
          /\ \A a \in active : a.sid # m.sid
          /\ \A k \in 1..Len(toClient') :
                toClient'[k].type = "accepted" => toClient'[k].sid # m.sid
    BY DEF SidsOK
  <1>5. /\ nextSid > 0
        /\ \A a \in active : a.sid > 0 /\ a.sid < nextSid /\ a.run <= runs[a.hook]
        /\ \A a, b \in active : a.sid = b.sid => a = b
    BY DEF SidsOK
  <1> QED
    BY <1>2, <1>3, <1>4, <1>5 DEF SidsOK

\* What a commit, a mount or an unmount does to effects that ran or did not run.
\* R are the hooks whose effect runs again; it is empty unless the committed
\* status is open.
LEMMA RerunInv ==
    ASSUME ClientInv, NEW H \in SUBSET Hook, NEW R \in SUBSET H, Rerun(H, R),
           UNCHANGED <<toClient, nextSid>>
    PROVE  SidsOK' /\ HandleOK' /\ (\A h \in Hook : live'[h] <=> h \in R \/ (live[h] /\ h \notin H))
           /\ (\A h \in Hook : runs'[h] >= runs[h])
  <1> DEFINE gone == {a \in active : \E h \in H : live[h] /\ handle[h] = a.sid}
             asks == {[hook |-> h, run |-> runs[h] + 1, of |-> 0, conn |-> 0] : h \in R}
             unsubscribes == {[type |-> "unsubscribe", sid |-> a.sid] : a \in gone}
  <1>0. TypeOK /\ SidsOK /\ HandleOK /\ nextSid \in Nat /\ runs \in [Hook -> Nat]
        /\ handle \in [Hook -> Nat] /\ live \in [Hook -> BOOLEAN]
        /\ active \in SUBSET [sid : Nat, hook : Hook, run : Nat]
        /\ pending \in SUBSET Request
    BY DEF ClientInv, TypeOK
  <1>1. /\ runs' = [h \in Hook |-> IF h \in R THEN runs[h] + 1 ELSE runs[h]]
        /\ live' = [h \in Hook |-> h \in R \/ (live[h] /\ h \notin H)]
        /\ handle' = [h \in Hook |-> IF h \in H THEN 0 ELSE handle[h]]
        /\ active' = active \ gone
        /\ pending' = pending \cup asks
        /\ \/ toServer' = toServer
           \/ toServer' = toServer \cup unsubscribes \cup Subscribe(asks)
    BY DEF Rerun
  <1>2. \A h \in Hook : runs'[h] >= runs[h] /\ runs'[h] \in Nat
    BY <1>0, <1>1
  <1>3. \A h \in Hook : live'[h] <=> h \in R \/ (live[h] /\ h \notin H)
    BY <1>1, Zenon
  <1>4. \A a \in active' : a \in active /\ a \notin gone
    BY <1>1
  <1>5. \A m \in toServer' : m.type = "unsubscribe" =>
           m \in toServer \/ \E a \in gone : m.sid = a.sid
    BY <1>1 DEF Subscribe
  <1>6. SidsOK'
    <2> HIDE DEF gone, asks, unsubscribes
    <2>0. gone \subseteq active
      BY DEF gone
    <2>1. \A a \in active' : a.sid > 0 /\ a.sid < nextSid /\ a.run <= runs'[a.hook]
      BY <1>0, <1>2, <1>4 DEF SidsOK
    <2>2. \A a, b \in active' : a.sid = b.sid => a = b
      BY <1>0, <1>4 DEF SidsOK
    <2>3. \A k \in 1..Len(toClient) : toClient[k].type = "accepted" =>
            /\ toClient[k].sid > 0 /\ toClient[k].sid < nextSid
            /\ \A a \in active' : a.sid # toClient[k].sid
      BY <1>0, <1>4 DEF SidsOK
    <2>4. \A m \in toServer' : m.type = "unsubscribe" =>
            /\ m.sid < nextSid
            /\ \A a \in active' : a.sid # m.sid
            /\ \A k \in 1..Len(toClient) :
                  toClient[k].type = "accepted" => toClient[k].sid # m.sid
      BY <1>0, <1>4, <1>5, <2>0 DEF SidsOK
    <2>5. \A q \in pending' : q.run <= runs'[q.hook]
      <3>1. ASSUME NEW q \in asks
            PROVE  q.run <= runs'[q.hook]
        <4>1. PICK h \in R : q = [hook |-> h, run |-> runs[h] + 1, of |-> 0, conn |-> 0]
          BY DEF asks
        <4>2. runs'[h] = runs[h] + 1 /\ runs'[h] \in Nat
          BY <1>0, <1>1, <4>1
        <4> QED
          BY <4>1, <4>2
      <3>2. ASSUME NEW q \in pending
            PROVE  q.run <= runs'[q.hook]
        <4>1. q.run \in Nat /\ q.hook \in Hook /\ q.run <= runs[q.hook]
          BY <1>0 DEF SidsOK, Request
        <4> QED
          BY <1>0, <1>2, <4>1
      <3> QED
        BY <1>1, <3>1, <3>2
    <2>6. nextSid > 0 /\ \A j, k \in 1..Len(toClient) :
          (/\ toClient[j].type = "accepted" /\ toClient[k].type = "accepted"
           /\ toClient[j].sid = toClient[k].sid) => j = k
      BY <1>0 DEF SidsOK
    <2> QED
      BY <2>1, <2>2, <2>3, <2>4, <2>5, <2>6 DEF SidsOK
  <1>7. HandleOK'
    <2> SUFFICES ASSUME NEW h \in Hook, handle'[h] # 0
                 PROVE  live'[h] /\ [sid |-> handle'[h], hook |-> h, run |-> runs'[h]] \in active'
      BY DEF HandleOK
    <2> DEFINE a == [sid |-> handle[h], hook |-> h, run |-> runs[h]]
    <2>1. h \notin H /\ handle'[h] = handle[h] /\ handle[h] # 0
      BY <1>1
    <2>2. live[h] /\ a \in active /\ runs'[h] = runs[h]
      BY <1>0, <1>1, <2>1 DEF HandleOK
    <2>3. a \notin gone
      <3>1. ASSUME NEW g \in H, live[g], handle[g] = handle[h]
            PROVE  FALSE
        <4>1. [sid |-> handle[g], hook |-> g, run |-> runs[g]] \in active
          BY <1>0, <2>1, <3>1 DEF HandleOK
        <4>2. [sid |-> handle[g], hook |-> g, run |-> runs[g]] = a
          BY <1>0, <2>2, <3>1, <4>1 DEF SidsOK
        <4> QED
          BY <2>1, <4>2
      <3> QED
        BY <3>1
    <2>4. live'[h]
      BY <1>3, <2>1, <2>2
    <2> QED
      BY <1>1, <2>1, <2>2, <2>3, <2>4
  <1> QED
    BY <1>2, <1>3, <1>6, <1>7

\* A message that carries no new id is added behind the others.
LEMMA AppendKeeps ==
    ASSUME TypeOK, NEW m \in ToClient, m.type # "accepted", toClient' = Append(toClient, m)
    PROVE  \A k \in 1..Len(toClient') : toClient'[k].type = "accepted" =>
              k + 0 \in 1..Len(toClient) /\ toClient'[k] = toClient[k + 0]
  <1>1. toClient \in Seq(ToClient)
    BY DEF TypeOK
  <1>2. Len(toClient') = Len(toClient) + 1 /\ toClient'[Len(toClient) + 1] = m
        /\ \A k \in 1..Len(toClient) : toClient'[k] = toClient[k]
    BY <1>1
  <1> QED
    BY <1>1, <1>2

\* The subscription that a run that was not cancelled listens to.
LEMMA ListeningRun ==
    ASSUME TypeOK, SidsOK, NEW sid, NEW h \in Listening(sid)
    PROVE  h \in Hook /\ RunOf(sid) = runs[h]
  <1>1. PICK a \in active : a.sid = sid /\ a.hook = h /\ ~Cancelled(h, a.run)
    BY DEF Listening
  <1>2. (CHOOSE b \in active : b.sid = sid) = a
    BY <1>1 DEF SidsOK
  <1>3. a.run = runs[h]
    BY <1>1 DEF Cancelled
  <1> QED
    BY <1>2, <1>3 DEF RunOf, Listening

\* No step breaks the invariant.
LEMMA ClientInvStep == ClientInv /\ [Next]_vars => ClientInv'
  <1> SUFFICES ASSUME ClientInv, [Next]_vars
               PROVE  ClientInv'
    OBVIOUS
  <1>0. /\ TypeOK /\ SocketOK /\ SidsOK /\ HandleOK /\ ShownOK /\ TypeOK'
        /\ runs \in [Hook -> Nat] /\ pending \in SUBSET Request
        /\ shown \in [Hook -> [snapshot : Nat, delta : Nat, error : Nat]]
        /\ \A q \in pending : q.run <= runs[q.hook]
    BY ClientTypeStep DEF ClientInv, TypeOK, SidsOK
  <1>1. CASE Connect \/ ReconnectTimer \/ Close
    <2>1. UNCHANGED <<rendered, mounted, runs, live, handle, shown, pending, active,
                      nextSid, toServer, toClient>>
      BY <1>1 DEF Connect, ReconnectTimer, Close, react, server, wire
    <2>2. SocketOK'
      BY <1>0, <1>1, <2>1 DEF Connect, ReconnectTimer, Close, OpenSocket, SocketOK, TypeOK
    <2> QED
      BY <1>0, <2>1, <2>2 DEF ClientInv, SidsOK, HandleOK, ShownOK
  <1>2. CASE Open
    <2>1. /\ UNCHANGED <<conn, timer, rendered, mounted, runs, live, handle, shown, active,
                         nextSid, toClient>>
          /\ status = "connecting" /\ status' = "open"
          /\ pending' = pending \cup Reissued
          /\ toServer' = Subscribe(pending \cup Reissued)
      BY <1>2 DEF Open, react
    <2>2. SocketOK'
      BY <1>0, <2>1 DEF SocketOK
    <2>3. \A q \in pending' : q.run <= runs[q.hook]
      BY <1>0, <2>1 DEF Reissued, SidsOK
    <2>4. \A m \in toServer' : m.type # "unsubscribe"
      BY <2>1 DEF Subscribe
    <2>5. \A k \in 1..Len(toClient') : toClient'[k].type = "accepted" =>
             k + 0 \in 1..Len(toClient) /\ toClient'[k] = toClient[k + 0]
      BY <2>1
    <2>6. SidsOK'
      BY <1>0, <2>1, <2>3, <2>4, <2>5, SidsKept
    <2> QED
      BY <1>0, <2>1, <2>2, <2>6 DEF ClientInv, HandleOK, ShownOK
  <1>3. CASE SocketClosed
    <2>1. /\ UNCHANGED <<conn, rendered, mounted, runs, live, handle, shown, pending, active,
                         nextSid>>
          /\ status # "closed" /\ status' = "closed"
          /\ toServer' = {} /\ toClient' = <<>>
      BY <1>3 DEF SocketClosed, react
    <2>2. SocketOK'
      BY <1>0, <2>1 DEF SocketOK
    <2>3. SidsOK'
      BY <1>0, <2>1 DEF SidsOK
    <2> QED
      BY <1>0, <2>1, <2>2, <2>3 DEF ClientInv, HandleOK, ShownOK
  <1>4. CASE Commit
    <2> DEFINE R == IfOpen(mounted, status)
    <2>1. /\ UNCHANGED <<status, conn, timer, mounted, shown, nextSid, toClient>>
          /\ rendered # status /\ rendered' = status
          /\ Rerun(mounted, R)
          /\ mounted \in SUBSET Hook /\ R \in SUBSET mounted
          /\ (status # "open" => R = {})
      BY <1>0, <1>4 DEF Commit, socket, server, IfOpen, TypeOK
    <2> HIDE DEF R
    <2>2. /\ SidsOK' /\ HandleOK'
          /\ \A h \in Hook : live'[h] <=> h \in R \/ (live[h] /\ h \notin mounted)
          /\ \A h \in Hook : runs'[h] >= runs[h]
      BY <2>1, RerunInv
    <2>3. SocketOK'
      BY <1>0, <2>1, <2>2 DEF SocketOK
    <2>4. ShownOK'
      BY <1>0, <2>1, <2>2 DEF ShownOK, TypeOK
    <2> QED
      BY <1>0, <2>2, <2>3, <2>4 DEF ClientInv
  <1>5. ASSUME NEW h \in Hook, Mount(h) \/ Unmount(h) \/ ParamsChange(h)
        PROVE  ClientInv'
    <2> DEFINE R == IF Unmount(h) THEN {} ELSE IfOpen({h}, rendered)
    <2>1. \E S \in SUBSET {h} :
             /\ Rerun({h}, S)
             /\ h \in S => rendered = "open" /\ h \in mounted'
      BY <1>5 DEF Mount, Unmount, ParamsChange, IfOpen
    <2>2. PICK S \in SUBSET {h} : /\ Rerun({h}, S)
                                  /\ h \in S => rendered = "open" /\ h \in mounted'
      BY <2>1
    <2>3. /\ UNCHANGED <<status, conn, timer, rendered, nextSid, toClient>>
          /\ \A g \in Hook : g # h => (g \in mounted' <=> g \in mounted)
      BY <1>5 DEF Mount, Unmount, ParamsChange, socket, server
    <2>4. /\ SidsOK' /\ HandleOK'
          /\ \A g \in Hook : live'[g] <=> g \in S \/ (live[g] /\ g \notin {h})
          /\ \A g \in Hook : runs'[g] >= runs[g]
      BY <2>2, <2>3, RerunInv
    <2>5. SocketOK'
      BY <1>0, <2>2, <2>3, <2>4 DEF SocketOK
    <2>6. ShownOK'
      <3>1. shown' = shown \/ shown' = [shown EXCEPT ![h] = Nothing]
        BY <1>5 DEF Mount, Unmount, ParamsChange
      <3>2. \A g \in Hook : runs'[g] \in Nat
        BY <1>0 DEF TypeOK
      <3> QED
        BY <1>0, <2>4, <3>1, <3>2 DEF ShownOK, Nothing
    <2> QED
      BY <1>0, <2>4, <2>5, <2>6 DEF ClientInv
  <1>6. ASSUME NEW r \in Rpc, CallRpc(r)
        PROVE  ClientInv'
    <2>1. /\ UNCHANGED <<status, conn, timer, rendered, mounted, runs, live, handle, shown,
                         pending, active, nextSid, toClient>>
          /\ \A m \in toServer' : m.type = "unsubscribe" => m \in toServer
      BY <1>6 DEF CallRpc, socket, react, server
    <2>2. \A k \in 1..Len(toClient') : toClient'[k].type = "accepted" =>
             k + 0 \in 1..Len(toClient) /\ toClient'[k] = toClient[k + 0]
      BY <2>1
    <2>3. SidsOK'
      BY <1>0, <2>1, <2>2, SidsKept
    <2> QED
      BY <1>0, <2>1, <2>3 DEF ClientInv, SocketOK, HandleOK, ShownOK
  <1>7. ASSUME NEW m \in toServer, Refuse(m) \/ Unregister(m) \/ Execute(m)
        PROVE  ClientInv'
    <2>1. /\ UNCHANGED <<status, conn, timer, rendered, mounted, runs, live, handle, shown,
                         pending, active, nextSid>>
          /\ toServer' \subseteq toServer
      BY <1>7 DEF Refuse, Unregister, Execute, Receive, socket, react, server
    <2>2. \/ toClient' = toClient
          \/ \E a \in ToClient : a.type # "accepted" /\ toClient' = Append(toClient, a)
      <3>1. m \in ToServer
        BY <1>0 DEF TypeOK
      <3>2. CASE Refuse(m)
        <4>1. m.req \in Request
          BY <3>1, <3>2 DEF Refuse, ToServer
        <4>2. [type |-> "error", re |-> m.req] \in ToClient
          BY <4>1, ToClientType
        <4> QED
          BY <3>2, <4>2 DEF Refuse
      <3>3. CASE Unregister(m)
        BY <3>3 DEF Unregister
      <3>4. CASE Execute(m)
        <4>1. m.rpc \in Rpc
          BY <3>1, <3>4 DEF Execute, ToServer
        <4>2. /\ [type |-> "error", re |-> m.rpc] \in ToClient
              /\ [type |-> "result", rpc |-> m.rpc] \in ToClient
          BY <4>1, ToClientType
        <4> QED
          BY <3>4, <4>2 DEF Execute
      <3> QED
        BY <1>7, <3>2, <3>3, <3>4
    <2>3. \A k \in 1..Len(toClient') : toClient'[k].type = "accepted" =>
             k + 0 \in 1..Len(toClient) /\ toClient'[k] = toClient[k + 0]
      BY <1>0, <2>2, AppendKeeps
    <2>4. SidsOK'
      BY <1>0, <2>1, <2>3, SidsKept
    <2> QED
      BY <1>0, <2>1, <2>4 DEF ClientInv, SocketOK, HandleOK, ShownOK
  <1>8. ASSUME NEW m \in toServer, Accept(m)
        PROVE  ClientInv'
    <2> DEFINE one == [type |-> "accepted", req |-> m.req, sid |-> nextSid]
               two == [type |-> "snapshot", sid |-> nextSid]
    <2>1. /\ UNCHANGED <<status, conn, timer, rendered, mounted, runs, live, handle, shown,
                         pending, active>>
          /\ toServer' \subseteq toServer
          /\ nextSid' = nextSid + 1 /\ nextSid \in Nat
          /\ toClient' = toClient \o <<one, two>>
      BY <1>0, <1>8 DEF Accept, Receive, socket, react, TypeOK
    <2>2. toClient \in Seq(ToClient) /\ one.type = "accepted" /\ one.sid = nextSid
          /\ two.type # "accepted"
      BY <1>0 DEF TypeOK
    <2> HIDE DEF one, two
    <2>3. /\ Len(toClient) \in Nat
          /\ \A k \in 1..Len(toClient') : toClient'[k].type = "accepted" =>
                \/ k \in 1..Len(toClient) /\ toClient'[k] = toClient[k]
                \/ k = Len(toClient) + 1 /\ toClient'[k] = one
      BY <2>1, <2>2
    <2>4. SidsOK'
      <3>0. /\ nextSid > 0
            /\ \A m2 \in toServer : m2.type = "unsubscribe" => m2.sid < nextSid
        BY <1>0 DEF SidsOK
      <3>1. \A k \in 1..Len(toClient') : toClient'[k].type = "accepted" =>
              /\ toClient'[k].sid > 0 /\ toClient'[k].sid < nextSid'
              /\ \A a \in active : a.sid # toClient'[k].sid
              /\ (\A m2 \in toServer' : m2.type = "unsubscribe" => m2.sid # toClient'[k].sid)
        <4> SUFFICES ASSUME NEW k \in 1..Len(toClient'), toClient'[k].type = "accepted"
                     PROVE  /\ toClient'[k].sid > 0 /\ toClient'[k].sid < nextSid'
                            /\ \A a \in active : a.sid # toClient'[k].sid
                            /\ (\A m2 \in toServer' : m2.type = "unsubscribe"
                                                         => m2.sid # toClient'[k].sid)
          OBVIOUS
        <4>1. CASE k \in 1..Len(toClient) /\ toClient'[k] = toClient[k]
          <5>1. toClient[k] \in ToClient /\ toClient[k].type = "accepted"
            BY <2>2, <4>1, ElementOfSeq
          <5>2. toClient[k].sid \in Nat
            BY <5>1 DEF ToClient
          <5> QED
            BY <1>0, <2>1, <4>1, <5>1, <5>2 DEF SidsOK
        <4>2. CASE k = Len(toClient) + 1 /\ toClient'[k] = one
          BY <1>0, <2>1, <2>2, <3>0, <4>2 DEF SidsOK
        <4> QED
          BY <2>3, <4>1, <4>2
      <3>2. ASSUME NEW j \in 1..Len(toClient'), NEW k \in 1..Len(toClient'),
                   toClient'[j].type = "accepted", toClient'[k].type = "accepted",
                   toClient'[j].sid = toClient'[k].sid
            PROVE  j = k
        <4>1. \A i \in 1..Len(toClient) : toClient[i].type = "accepted" => toClient[i].sid # nextSid
          <5> SUFFICES ASSUME NEW i \in 1..Len(toClient), toClient[i].type = "accepted"
                       PROVE  toClient[i].sid # nextSid
            OBVIOUS
          <5>1. toClient[i] \in ToClient
            BY <2>2, ElementOfSeq
          <5>2. toClient[i].sid \in Nat
            BY <5>1 DEF ToClient
          <5>3. toClient[i].sid < nextSid
            BY <1>0 DEF SidsOK
          <5> QED
            BY <2>1, <5>2, <5>3
        <4>2. /\ \/ j \in 1..Len(toClient) /\ toClient'[j] = toClient[j]
                 \/ j = Len(toClient) + 1 /\ toClient'[j] = one
              /\ \/ k \in 1..Len(toClient) /\ toClient'[k] = toClient[k]
                 \/ k = Len(toClient) + 1 /\ toClient'[k] = one
          BY <2>3, <3>2
        <4> QED
          BY <1>0, <2>2, <3>2, <4>1, <4>2 DEF SidsOK
      <3>3. \A a \in active : a.sid > 0 /\ a.sid < nextSid' /\ a.run <= runs[a.hook]
        <4>1. \A a \in active : a.sid \in Nat
          BY <1>0 DEF TypeOK
        <4> QED
          BY <1>0, <2>1, <4>1 DEF SidsOK
      <3>4. \A m2 \in toServer' : m2.type = "unsubscribe" =>
              m2.sid < nextSid' /\ \A a \in active : a.sid # m2.sid
        <4>1. \A m2 \in toServer : m2.type = "unsubscribe" => m2.sid \in Nat
          BY <1>0 DEF TypeOK, ToServer
        <4> QED
          BY <1>0, <2>1, <4>1 DEF SidsOK
      <3>5. nextSid' > 0 /\ \A a, b \in active : a.sid = b.sid => a = b
        BY <1>0, <2>1 DEF SidsOK
      <3>6. \A m2 \in toServer' : m2.type = "unsubscribe" =>
              \A k \in 1..Len(toClient') :
                 toClient'[k].type = "accepted" => toClient'[k].sid # m2.sid
        BY <3>1
      <3> QED
        BY <1>0, <2>1, <3>1, <3>2, <3>3, <3>4, <3>5, <3>6 DEF SidsOK
    <2> QED
      BY <1>0, <2>1, <2>4 DEF ClientInv, SocketOK, HandleOK, ShownOK
  <1>9. ASSUME NEW sid \in regs, Push(sid)
        PROVE  ClientInv'
    <2>1. /\ UNCHANGED <<status, conn, timer, rendered, mounted, runs, live, handle, shown,
                         pending, active, nextSid, toServer>>
          /\ toClient' = Append(toClient, [type |-> "delta", sid |-> sid])
          /\ [type |-> "delta", sid |-> sid] \in ToClient
      BY <1>0, <1>9, ToClientType DEF Push, socket, react, server, TypeOK
    <2>2. \A k \in 1..Len(toClient') : toClient'[k].type = "accepted" =>
             k + 0 \in 1..Len(toClient) /\ toClient'[k] = toClient[k + 0]
      BY <1>0, <2>1, AppendKeeps
    <2>3. SidsOK'
      BY <1>0, <2>1, <2>2, SidsKept
    <2> QED
      BY <1>0, <2>1, <2>3 DEF ClientInv, SocketOK, HandleOK, ShownOK
  <1>10. CASE OnSnapshot \/ OnDelta \/ OnResult \/ OnError
    <2>1. /\ UNCHANGED <<status, conn, timer, rendered, mounted, runs, live, handle,
                         active, nextSid, toServer>>
          /\ pending' \subseteq pending
      BY <1>10 DEF OnSnapshot, OnDelta, OnResult, OnError, socket, react, server
    <2>2. /\ Len(toClient) \in Nat /\ Len(toClient') = Len(toClient) - 1
          /\ \A k \in 1..Len(toClient') : toClient'[k] = toClient[k + 1]
      BY <1>0, <1>10, ArrivesType DEF OnSnapshot, OnDelta, OnResult, OnError
    <2>3. \A k \in 1..Len(toClient') : toClient'[k].type = "accepted" =>
             k + 1 \in 1..Len(toClient) /\ toClient'[k] = toClient[k + 1]
      BY <2>2
    <2>4. SidsOK'
      BY <1>0, <2>1, <2>3, SidsKept
    <2>5. ShownOK'
      <3>1. ASSUME NEW h \in Hook
            PROVE  /\ shown'[h].snapshot \in {shown[h].snapshot, runs[h]}
                   /\ shown'[h].delta \in {shown[h].delta, runs[h]}
                   /\ shown'[h].error \in {shown[h].error, runs[h]}
        <4>1. CASE OnSnapshot
          BY <1>0, <4>1, ListeningRun DEF OnSnapshot
        <4>2. CASE OnDelta
          BY <1>0, <4>2, ListeningRun DEF OnDelta
        <4>3. CASE OnResult
          BY <4>3 DEF OnResult
        <4>4. CASE OnError
          <5>1. CASE shown' = shown
            BY <5>1
          <5>2. CASE shown' # shown
            <6> DEFINE re == Head(toClient).re
            <6>1. /\ shown' = [shown EXCEPT ![re.hook].error = re.run]
                  /\ ~Cancelled(re.hook, re.run)
              BY <4>4, <5>2 DEF OnError
            <6>2. re.run = runs[re.hook]
              BY <6>1 DEF Cancelled
            <6> HIDE DEF re
            <6> QED
              BY <1>0, <6>1, <6>2
          <5> QED
            BY <5>1, <5>2
        <4> QED
          BY <1>10, <4>1, <4>2, <4>3, <4>4
      <3> QED
        BY <1>0, <2>1, <3>1 DEF ShownOK
    <2> QED
      BY <1>0, <2>1, <2>4, <2>5 DEF ClientInv, SocketOK, HandleOK
  <1>11. CASE OnAccepted
    <2> DEFINE m == Head(toClient)
               q == m.req
               a == [sid |-> m.sid, hook |-> q.hook, run |-> q.run]
    <2>1. /\ UNCHANGED <<status, conn, timer, rendered, mounted, runs, live, shown,
                         nextSid, toServer>>
          /\ \/ /\ q \in pending
                /\ active' = active \cup {a}
                /\ pending' = pending \ {q}
                /\ \/ handle' = handle
                   \/ /\ handle' = [handle EXCEPT ![q.hook] = m.sid]
                      /\ ~Cancelled(q.hook, q.run)
             \/ UNCHANGED <<active, pending, handle>>
      BY <1>11 DEF OnAccepted, socket, server
    <2>2. /\ Len(toClient) \in Nat /\ Len(toClient) > 0 /\ Len(toClient') = Len(toClient) - 1
          /\ \A k \in 1..Len(toClient') : toClient'[k] = toClient[k + 1]
          /\ m = toClient[1] /\ m.type = "accepted" /\ m \in ToClient
      BY <1>0, <1>11, ArrivesType DEF OnAccepted
    <2>3. m.sid \in Nat
      BY <2>2 DEF ToClient
    <2>4. a.sid = m.sid /\ a.hook = q.hook /\ a.run = q.run
      OBVIOUS
    <2>5. 1 \in 1..Len(toClient)
      BY <2>2
    <2> HIDE DEF m, q, a
    <2>6. /\ m.sid > 0 /\ m.sid < nextSid
          /\ \A b \in active : b.sid # m.sid
          /\ \A n \in toServer : n.type = "unsubscribe" => n.sid # m.sid
          /\ \A k \in 1..Len(toClient') : toClient'[k].type = "accepted"
                => toClient'[k].sid # m.sid
      <3>1. /\ m.sid > 0 /\ m.sid < nextSid
            /\ \A b \in active : b.sid # m.sid
            /\ \A n \in toServer : n.type = "unsubscribe" => n.sid # m.sid
        BY <1>0, <2>2, <2>5 DEF SidsOK
      <3>2. ASSUME NEW k \in 1..Len(toClient'), toClient'[k].type = "accepted"
            PROVE  toClient'[k].sid # m.sid
        <4>1. k + 1 \in 1..Len(toClient) /\ toClient'[k] = toClient[k + 1] /\ k + 1 # 1
          BY <2>2, <3>2
        <4> QED
          BY <1>0, <2>2, <2>5, <3>2, <4>1 DEF SidsOK
      <3> QED
        BY <3>1, <3>2
    <2>7. \A k \in 1..Len(toClient') : toClient'[k].type = "accepted" =>
             k + 1 \in 1..Len(toClient) /\ toClient'[k] = toClient[k + 1]
      BY <2>2
    <2>8. CASE UNCHANGED <<active, pending, handle>>
      <3>1. SidsOK'
        BY <1>0, <2>1, <2>7, <2>8, SidsKept
      <3> QED
        BY <1>0, <2>1, <2>8, <3>1 DEF ClientInv, SocketOK, HandleOK, ShownOK
    <2>9. CASE q \in pending /\ active' = active \cup {a} /\ pending' = pending \ {q}
      <3>1. \A b \in active' : b \in active \/ b = a
        BY <2>9
      <3>2. q.run <= runs[q.hook]
        BY <1>0, <2>9
      <3>3. \A b \in active' : b.sid > 0 /\ b.sid < nextSid /\ b.run <= runs[b.hook]
        BY <1>0, <2>4, <2>6, <3>1, <3>2 DEF SidsOK
      <3>4. \A b, c \in active' : b.sid = c.sid => b = c
        BY <1>0, <2>4, <2>6, <3>1 DEF SidsOK
      <3>5. \A k \in 1..Len(toClient') : toClient'[k].type = "accepted" =>
              /\ toClient'[k].sid > 0 /\ toClient'[k].sid < nextSid
              /\ \A b \in active' : b.sid # toClient'[k].sid
        <4> SUFFICES ASSUME NEW k \in 1..Len(toClient'), toClient'[k].type = "accepted"
                     PROVE  /\ toClient'[k].sid > 0 /\ toClient'[k].sid < nextSid
                            /\ \A b \in active' : b.sid # toClient'[k].sid
          OBVIOUS
        <4>1. k + 1 \in 1..Len(toClient) /\ toClient'[k] = toClient[k + 1]
          BY <2>7
        <4>2. /\ toClient'[k].sid > 0 /\ toClient'[k].sid < nextSid
              /\ \A b \in active : b.sid # toClient'[k].sid
          BY <1>0, <4>1 DEF SidsOK
        <4>3. toClient'[k].sid # m.sid
          BY <2>6
        <4> QED
          BY <2>4, <3>1, <4>2, <4>3
      <3>6. ASSUME NEW j \in 1..Len(toClient'), NEW k \in 1..Len(toClient'),
                   toClient'[j].type = "accepted", toClient'[k].type = "accepted",
                   toClient'[j].sid = toClient'[k].sid
            PROVE  j = k
        <4>1. /\ j + 1 \in 1..Len(toClient) /\ toClient'[j] = toClient[j + 1]
              /\ k + 1 \in 1..Len(toClient) /\ toClient'[k] = toClient[k + 1]
          BY <2>7, <3>6
        <4>2. j + 1 = k + 1
          BY <1>0, <3>6, <4>1 DEF SidsOK
        <4> QED
          BY <4>2
      <3>7. \A n \in toServer' : n.type = "unsubscribe" =>
              /\ n.sid < nextSid
              /\ \A b \in active' : b.sid # n.sid
              /\ \A k \in 1..Len(toClient') :
                    toClient'[k].type = "accepted" => toClient'[k].sid # n.sid
        BY <1>0, <2>1, <2>4, <2>6, <2>7, <3>1, SMTT(30) DEF SidsOK
      <3>8. SidsOK'
        BY SMTT(30), <1>0, <2>1, <2>9, <3>3, <3>4, <3>5, <3>6, <3>7 DEF SidsOK
      <3>9. HandleOK'
        <4> SUFFICES ASSUME NEW h \in Hook, handle'[h] # 0
                     PROVE  /\ live[h]
                            /\ [sid |-> handle'[h], hook |-> h, run |-> runs[h]] \in active'
          BY <2>1 DEF HandleOK
        <4>1. CASE handle'[h] = handle[h]
          BY <1>0, <2>9, <4>1 DEF HandleOK
        <4>2. CASE handle'[h] # handle[h]
          <5>1. handle' = [handle EXCEPT ![q.hook] = m.sid] /\ ~Cancelled(q.hook, q.run)
            BY <2>1, <4>2
          <5>2. h = q.hook /\ handle'[h] = m.sid
            BY <1>0, <4>2, <5>1 DEF TypeOK
          <5>3. live[h] /\ q.run = runs[h]
            BY <5>1, <5>2 DEF Cancelled
          <5>4. a = [sid |-> handle'[h], hook |-> h, run |-> runs[h]]
            BY <5>2, <5>3 DEF a
          <5> QED
            BY <2>9, <5>3, <5>4
        <4> QED
          BY <4>1, <4>2
      <3> QED
        BY <1>0, <2>1, <3>8, <3>9 DEF ClientInv, SocketOK, ShownOK
    <2> QED
      BY <2>1, <2>8, <2>9
  <1>12. CASE UNCHANGED vars
    <2>1. UNCHANGED <<status, conn, timer, rendered, mounted, runs, live, handle, shown,
                      pending, active, nextSid, toServer, toClient>>
      BY <1>12 DEF vars, socket, react, server, wire
    <2> QED
      BY <1>0, <2>1 DEF ClientInv, SocketOK, SidsOK, HandleOK, ShownOK
  <1> QED
    BY <1>1, <1>2, <1>3, <1>4, <1>5, <1>6, <1>7, <1>8, <1>9, <1>10, <1>11, <1>12
       DEF Next, Deliver, Answer

\* Nothing is subscribed at first.
LEMMA ClientInvInit == Init => ClientInv
  <1> SUFFICES ASSUME Init PROVE ClientInv
    OBVIOUS
  <1>1. SocketOK /\ SidsOK /\ HandleOK /\ ShownOK
    BY DEF Init, SocketOK, SidsOK, HandleOK, ShownOK, Nothing
  <1> QED
    BY <1>1, ClientTypeInit DEF ClientInv

\* The invariant holds in every reachable state.
LEMMA ClientInvHolds == Spec => []ClientInv
  BY ClientInvInit, ClientInvStep, PTL DEF Spec

\* What the steps that deliver data or errors do to what a hook shows: they leave
\* a field alone, or put the number of the hook's latest run into it.
LEMMA ShownStep ==
    ASSUME ClientInv, [Next]_vars, NEW h \in Hook, h \in mounted
    PROVE  /\ shown'[h].snapshot \in {shown[h].snapshot, runs[h]}
           /\ shown'[h].delta \in {shown[h].delta, runs[h]}
           /\ shown'[h].error \in {shown[h].error, runs[h]}
  <1>0. TypeOK /\ SidsOK /\ shown \in [Hook -> [snapshot : Nat, delta : Nat, error : Nat]]
    BY DEF ClientInv, TypeOK
  <1>1. CASE OnSnapshot
    BY <1>0, <1>1, ListeningRun DEF OnSnapshot
  <1>2. CASE OnDelta
    BY <1>0, <1>2, ListeningRun DEF OnDelta
  <1>3. CASE OnError
    <2>1. CASE shown' # shown
      <3> DEFINE re == Head(toClient).re
      <3>1. /\ shown' = [shown EXCEPT ![re.hook].error = re.run]
            /\ ~Cancelled(re.hook, re.run)
        BY <1>3, <2>1 DEF OnError
      <3>2. re.run = runs[re.hook]
        BY <3>1 DEF Cancelled
      <3> HIDE DEF re
      <3> QED
        BY <1>0, <3>1, <3>2
    <2> QED
      BY <2>1
  <1>4. ASSUME NEW g \in Hook, Mount(g)
        PROVE  shown'[h] = shown[h]
    BY <1>0, <1>4 DEF Mount
  <1>5. CASE ~(OnSnapshot \/ OnDelta \/ OnError \/ \E g \in Hook : Mount(g))
    <2>1. shown' = shown
      BY <1>5 DEF Next, Deliver, Answer, vars, Connect, ReconnectTimer, Open, SocketClosed, Close,
                  Commit, Unmount, ParamsChange, CallRpc, Accept, Refuse, Unregister,
                  Execute, Push, OnAccepted, OnResult
    <2> QED
      BY <2>1
  <1> QED
    BY <1>1, <1>2, <1>3, <1>4, <1>5

\* However late the answers of earlier params come, a mounted hook never goes back
\* to the data of an earlier effect run (the cancelled flag of use-subscription).
THEOREM HooksNeverGoBack == Spec => NeverOlderData
  <1>1. ASSUME ClientInv, [Next]_vars
        PROVE  [\A h \in Hook :
                  (h \in mounted /\ h \in mounted')
                     => /\ shown'[h].snapshot >= shown[h].snapshot
                        /\ shown'[h].delta >= shown[h].delta
                        /\ shown'[h].error >= shown[h].error]_vars
    <2>1. ASSUME NEW h \in Hook, h \in mounted
          PROVE  /\ shown'[h].snapshot >= shown[h].snapshot
                 /\ shown'[h].delta >= shown[h].delta
                 /\ shown'[h].error >= shown[h].error
      <3>1. /\ shown[h].snapshot \in Nat /\ shown[h].delta \in Nat /\ shown[h].error \in Nat
            /\ runs[h] \in Nat
            /\ shown[h].snapshot <= runs[h] /\ shown[h].delta <= runs[h]
            /\ shown[h].error <= runs[h]
        BY <1>1 DEF ClientInv, TypeOK, ShownOK
      <3> QED
        BY <1>1, <2>1, <3>1, ShownStep
    <2> QED
      BY <2>1
  <1>2. Spec => []ClientInv
    BY ClientInvHolds
  <1> QED
    BY <1>1, <1>2, PTL DEF Spec, NeverOlderData

-----------------------------------------------------------------------------
(* Every mounted hook is served.                                           *)

\* The answer to request q is still to come: the request is on its way to the
\* server, or the answer is on its way to the client.
UnderWay(q) ==
    \/ [type |-> "subscribe", req |-> q] \in toServer
    \/ \E k \in 1..Len(toClient) : \/ toClient[k].type = "accepted" /\ toClient[k].req = q
                                   \/ toClient[k].type = "error" /\ toClient[k].re = q

Refused(h) == [hook |-> h, run |-> runs[h]] \in refused

\* While the socket is open, a subscription must be registered for it and a
\* request must be under way on it; the next socket will send both again.
Subscribed(h) ==
    \E a \in active : a.hook = h /\ a.run = runs[h] /\ (status = "open" => a.sid \in regs)

Asked(h) ==
    \E q \in pending : q.hook = h /\ q.run = runs[h] /\ (status = "open" => UnderWay(q))

\* After React committed an open status the latest run of every mounted hook was
\* refused, is subscribed or has asked.
AllServed ==
    (rendered = "open" /\ ~explicitlyClosed) =>
        \A h \in mounted : Refused(h) \/ Subscribed(h) \/ Asked(h)

\* An id on its way to the client is registered: the client can only give up ids
\* it has been told.
TransitRegistered ==
    \A k \in 1..Len(toClient) : toClient[k].type = "accepted" => toClient[k].sid \in regs

FedInv == ClientInv /\ TransitRegistered /\ AllServed

\* A hook stays served when its run goes on, subscriptions, requests and refusals
\* stay, and what was under way on an open socket stays under way.
LEMMA ServedKept ==
    ASSUME NEW h, Refused(h) \/ Subscribed(h) \/ Asked(h),
           runs'[h] = runs[h], refused \subseteq refused',
           \A a \in active : a.hook = h => a \in active',
           \A q \in pending : q \in pending' \/ [hook |-> q.hook, run |-> q.run] \in refused',
           status' = "open" => /\ status = "open"
                               /\ \A a \in active : a.sid \in regs => a.sid \in regs'
                               /\ \A q \in pending : q \in pending' /\ UnderWay(q) => UnderWay(q)'
    PROVE  Refused(h)' \/ Subscribed(h)' \/ Asked(h)'
  <1>1. CASE Refused(h)
    BY <1>1 DEF Refused
  <1>2. CASE Subscribed(h)
    BY <1>2 DEF Subscribed
  <1>3. CASE Asked(h)
    <2>1. PICK q \in pending : q.hook = h /\ q.run = runs[h] /\ (status = "open" => UnderWay(q))
      BY <1>3 DEF Asked
    <2>2. CASE q \in pending'
      <3>1. status' = "open" => UnderWay(q)'
        BY <2>1, <2>2
      <3> QED
        BY <2>1, <2>2, <3>1 DEF Asked
    <2>3. CASE [hook |-> q.hook, run |-> q.run] \in refused'
      BY <2>1, <2>3 DEF Refused
    <2> QED
      BY <2>2, <2>3
  <1> QED
    BY <1>1, <1>2, <1>3

\* What is on its way to the client stays there when messages are added behind.
LEMMA TransitKept ==
    ASSUME NEW S, toClient \in Seq(S), NEW t \in Seq(S), toClient' = toClient \o t, NEW q,
           [type |-> "subscribe", req |-> q] \in toServer
              => [type |-> "subscribe", req |-> q] \in toServer',
           UnderWay(q)
    PROVE  UnderWay(q)'
  <1>1. /\ Len(toClient) \in Nat /\ Len(toClient') \in Nat /\ Len(toClient') >= Len(toClient)
        /\ \A k \in 1..Len(toClient) : k \in 1..Len(toClient') /\ toClient'[k] = toClient[k]
    OBVIOUS
  <1> QED
    BY <1>1 DEF UnderWay

\* What effects that run again do to the hooks whose effects they are not.
LEMMA RerunOthers ==
    ASSUME ClientInv, NEW H \in SUBSET Hook, NEW R \in SUBSET H, Rerun(H, R),
           NEW h \in Hook, h \notin H
    PROVE  /\ runs'[h] = runs[h]
           /\ \A a \in active : a.hook = h => a \in active'
           /\ pending \subseteq pending'
           /\ toServer \subseteq toServer'
  <1> DEFINE gone == {a \in active : \E g \in H : live[g] /\ handle[g] = a.sid}
  <1>1. /\ runs'[h] = runs[h] /\ pending \subseteq pending' /\ active' = active \ gone
        /\ toServer \subseteq toServer'
    BY DEF Rerun
  <1>2. ASSUME NEW a \in gone
        PROVE  a.hook # h
    <2>1. PICK g \in H : live[g] /\ handle[g] = a.sid
      OBVIOUS
    <2>2. a \in active /\ a.sid > 0 /\ a.sid \in Nat
      BY DEF ClientInv, SidsOK, TypeOK
    <2>3. [sid |-> handle[g], hook |-> g, run |-> runs[g]] \in active
      BY <2>1, <2>2 DEF ClientInv, HandleOK
    <2>4. a = [sid |-> handle[g], hook |-> g, run |-> runs[g]]
      BY <2>1, <2>2, <2>3 DEF ClientInv, SidsOK
    <2> QED
      BY <2>4
  <1> QED
    BY <1>1, <1>2

\* An effect that runs again asks.
LEMMA RerunAsks ==
    ASSUME ClientInv, NEW H \in SUBSET Hook, NEW R \in SUBSET H, Rerun(H, R),
           NEW h \in R, status' = status, ~explicitlyClosed
    PROVE  Asked(h)'
  <1> DEFINE asks == {[hook |-> g, run |-> runs[g] + 1, of |-> 0, conn |-> 0] : g \in R}
  <1>1. PICK q \in asks : q.hook = h /\ q.run = runs[h] + 1
    <2>1. [hook |-> h, run |-> runs[h] + 1, of |-> 0, conn |-> 0] \in asks
      OBVIOUS
    <2> HIDE DEF asks
    <2> QED
      BY <2>1
  <1>2. runs'[h] = runs[h] + 1
    BY DEF Rerun
  <1>3. q \in pending'
    BY DEF Rerun
  <1>4. status = "open" => Subscribe(asks) \subseteq toServer'
    BY DEF Rerun, CanSend
  <1>5. [type |-> "subscribe", req |-> q] \in Subscribe(asks)
    BY DEF Subscribe
  <1>6. status' = "open" => UnderWay(q)'
    BY <1>4, <1>5 DEF UnderWay
  <1> QED
    BY <1>1, <1>2, <1>3, <1>6 DEF Asked

\* The ids on their way to the client stay registered.
LEMMA TransitStep ==
    ASSUME ClientInv, TransitRegistered, [Next]_vars
    PROVE  TransitRegistered'
  <1>0. TypeOK /\ SidsOK /\ toClient \in Seq(ToClient)
    BY DEF ClientInv, TypeOK
  <1>1. CASE SocketClosed
    BY <1>1 DEF SocketClosed, TransitRegistered
  <1>2. ASSUME NEW m \in toServer, Accept(m)
        PROVE  TransitRegistered'
    <2> DEFINE one == [type |-> "accepted", req |-> m.req, sid |-> nextSid]
               two == [type |-> "snapshot", sid |-> nextSid]
    <2>1. /\ regs' = regs \cup {nextSid} /\ toClient' = toClient \o <<one, two>>
          /\ one.sid = nextSid /\ two.type # "accepted"
      BY <1>2 DEF Accept
    <2> HIDE DEF one, two
    <2>2. \A k \in 1..Len(toClient') : \/ k \in 1..Len(toClient) /\ toClient'[k] = toClient[k]
                                       \/ toClient'[k] = one
                                       \/ toClient'[k] = two
      BY <1>0, <2>1
    <2> QED
      BY <2>1, <2>2 DEF TransitRegistered
  <1>3. ASSUME NEW m \in toServer, Unregister(m)
        PROVE  TransitRegistered'
    <2>1. m.type = "unsubscribe" /\ regs' = regs \ {m.sid} /\ toClient' = toClient
      BY <1>3 DEF Unregister
    <2> QED
      BY <1>0, <2>1 DEF SidsOK, TransitRegistered
  <1>4. ASSUME NEW m \in ToClient, m.type # "accepted", toClient' = Append(toClient, m),
               regs' = regs
        PROVE  TransitRegistered'
    <2>1. \A k \in 1..Len(toClient') : toClient'[k].type = "accepted" =>
             k + 0 \in 1..Len(toClient) /\ toClient'[k] = toClient[k + 0]
      BY <1>0, <1>4, AppendKeeps
    <2> QED
      BY <1>4, <2>1 DEF TransitRegistered
  <1>5. ASSUME NEW m \in toServer, Refuse(m) \/ Execute(m)
        PROVE  TransitRegistered'
    <2>1. m \in ToServer
      BY <1>0 DEF TypeOK
    <2>2. regs' = regs
      BY <1>5 DEF Refuse, Execute, server
    <2>3. \E a \in ToClient : a.type # "accepted" /\ toClient' = Append(toClient, a)
      <3>1. CASE Refuse(m)
        <4>1. m.req \in Request
          BY <2>1, <3>1 DEF Refuse, ToServer
        <4>2. [type |-> "error", re |-> m.req] \in ToClient
          BY <4>1, ToClientType
        <4> QED
          BY <3>1, <4>2 DEF Refuse
      <3>2. CASE Execute(m)
        <4>1. m.rpc \in Rpc
          BY <2>1, <3>2 DEF Execute, ToServer
        <4>2. /\ [type |-> "error", re |-> m.rpc] \in ToClient
              /\ [type |-> "result", rpc |-> m.rpc] \in ToClient
          BY <4>1, ToClientType
        <4> QED
          BY <3>2, <4>2 DEF Execute
      <3> QED
        BY <1>5, <3>1, <3>2
    <2> QED
      BY <1>4, <2>2, <2>3
  <1>6. ASSUME NEW sid \in regs, Push(sid)
        PROVE  TransitRegistered'
    <2>1. [type |-> "delta", sid |-> sid] \in ToClient
      BY <1>0, ToClientType DEF TypeOK
    <2> QED
      BY <1>4, <1>6, <2>1 DEF Push, server
  <1>7. CASE Deliver
    <2>1. regs' = regs
      BY <1>7 DEF Deliver, OnAccepted, OnSnapshot, OnDelta, OnResult, OnError, server
    <2>2. /\ Len(toClient) > 0 /\ Len(toClient') = Len(toClient) - 1
          /\ \A k \in 1..Len(toClient') : toClient'[k] = toClient[k + 1]
      BY <1>0, <1>7, ArrivesType DEF Deliver, OnAccepted, OnSnapshot, OnDelta, OnResult, OnError
    <2>3. \A k \in 1..Len(toClient') : k + 1 \in 1..Len(toClient)
      <3>1. Len(toClient) \in Nat
        BY <1>0
      <3> QED
        BY <2>2, <3>1
    <2> QED
      BY <2>1, <2>2, <2>3 DEF TransitRegistered
  <1>8. ASSUME UNCHANGED <<regs, toClient>>
        PROVE  TransitRegistered'
    BY <1>8 DEF TransitRegistered
  <1>9. CASE Connect \/ ReconnectTimer \/ Open \/ Close \/ Commit \/ UNCHANGED vars
    BY <1>8, <1>9 DEF Connect, ReconnectTimer, Open, Close, Commit, vars, server, wire
  <1>10. ASSUME NEW h \in Hook, Mount(h) \/ Unmount(h) \/ ParamsChange(h)
         PROVE  TransitRegistered'
    BY <1>8, <1>10 DEF Mount, Unmount, ParamsChange, server
  <1>11. ASSUME NEW r \in Rpc, CallRpc(r)
         PROVE  TransitRegistered'
    BY <1>8, <1>11 DEF CallRpc, server
  <1> QED
    BY <1>1, <1>2, <1>3, <1>5, <1>6, <1>7, <1>9, <1>10, <1>11 DEF Next, Answer

\* What a step of the server leaves under way.
LEMMA AnswerKeeps ==
    ASSUME TypeOK, NEW m \in toServer, Answer(m), NEW q \in Request, UnderWay(q)
    PROVE  UnderWay(q)'
  <1> DEFINE s == [type |-> "subscribe", req |-> q]
  <1>0. toClient \in Seq(ToClient) /\ m \in ToServer
    BY DEF TypeOK
  <1>1. CASE Unregister(m)
    <2>1. toClient' = toClient /\ (s \in toServer => s \in toServer')
      BY <1>1 DEF Unregister, Receive
    <2> QED
      BY <2>1 DEF UnderWay
  <1>2. CASE Execute(m)
    <2>1. s \in toServer => s \in toServer'
      BY <1>2 DEF Execute, Receive
    <2>2. m.rpc \in Rpc
      BY <1>0, <1>2 DEF Execute, ToServer
    <2>3. \E a \in ToClient : toClient' = toClient \o <<a>>
      <3>1. /\ [type |-> "error", re |-> m.rpc] \in ToClient
            /\ [type |-> "result", rpc |-> m.rpc] \in ToClient
        BY <2>2, ToClientType
      <3>2. PICK a \in ToClient : toClient' = Append(toClient, a)
        BY <1>2, <3>1 DEF Execute
      <3>3. toClient' = toClient \o <<a>>
        BY <1>0, <3>2
      <3> QED
        BY <3>3
    <2>4. PICK t \in Seq(ToClient) : toClient' = toClient \o t
      <3>1. \A a \in ToClient : <<a>> \in Seq(ToClient)
        OBVIOUS
      <3> QED
        BY <2>3, <3>1, Zenon
    <2> QED
      BY <1>0, <2>1, <2>4, TransitKept
  <1>3. CASE Refuse(m)
    <2>1. /\ m.type = "subscribe" /\ toServer' = toServer \ {m}
          /\ toClient' = Append(toClient, [type |-> "error", re |-> m.req])
      BY <1>3 DEF Refuse, Receive
    <2>2. m.req \in Request
      BY <1>0, <2>1 DEF ToServer
    <2>3. [type |-> "error", re |-> m.req] \in ToClient
      BY <2>2, ToClientType
    <2>4. CASE s \in toServer => s \in toServer'
      <3>1. /\ toClient' = toClient \o <<[type |-> "error", re |-> m.req]>>
            /\ <<[type |-> "error", re |-> m.req]>> \in Seq(ToClient)
        BY <1>0, <2>1, <2>3
      <3> QED
        BY <1>0, <2>4, <3>1, TransitKept
    <2>5. CASE ~(s \in toServer => s \in toServer')
      <3>1. m = s
        BY <2>1, <2>5
      <3>2. m.req = q
        BY <3>1
      <3>3. /\ Len(toClient) + 1 \in 1..Len(toClient')
            /\ toClient'[Len(toClient) + 1] = [type |-> "error", re |-> m.req]
        BY <1>0, <2>1, <2>3
      <3> QED
        BY <3>2, <3>3 DEF UnderWay
    <2> QED
      BY <2>4, <2>5
  <1>4. CASE Accept(m)
    <2> DEFINE one == [type |-> "accepted", req |-> m.req, sid |-> nextSid]
               two == [type |-> "snapshot", sid |-> nextSid]
    <2>1. /\ m.type = "subscribe" /\ toServer' = toServer \ {m}
          /\ toClient' = toClient \o <<one, two>>
      BY <1>4 DEF Accept, Receive
    <2>2. m.req \in Request
      BY <1>0, <2>1 DEF ToServer
    <2>3. one \in ToClient /\ two \in ToClient /\ one.type = "accepted" /\ one.req = m.req
      BY <2>2, ToClientType DEF TypeOK
    <2> HIDE DEF one, two
    <2>4. CASE s \in toServer => s \in toServer'
      <3>1. <<one, two>> \in Seq(ToClient)
        BY <2>3
      <3> QED
        BY <1>0, <2>1, <2>4, <3>1, TransitKept
    <2>5. CASE ~(s \in toServer => s \in toServer')
      <3>1. m = s
        BY <2>1, <2>5
      <3>2. m.req = q
        BY <3>1
      <3>3. /\ Len(toClient) + 1 \in 1..Len(toClient')
            /\ toClient'[Len(toClient) + 1] = one
        BY <1>0, <2>1, <2>3
      <3> QED
        BY <2>3, <3>2, <3>3 DEF UnderWay
    <2> QED
      BY <2>4, <2>5
  <1> QED
    BY <1>1, <1>2, <1>3, <1>4 DEF Answer

\* A delivery leaves under way what it does not answer.
LEMMA DeliveryKeeps ==
    ASSUME TypeOK, NEW type, Arrives(type), toServer' = toServer, NEW q \in Request, UnderWay(q)
    PROVE  \/ UnderWay(q)'
           \/ type = "accepted" /\ Head(toClient).req = q
           \/ type = "error" /\ Head(toClient).re = q
  <1>1. /\ Head(toClient) = toClient[1] /\ Head(toClient).type = type
        /\ Len(toClient) \in Nat /\ Len(toClient) > 0 /\ Len(toClient') = Len(toClient) - 1
        /\ \A k \in 1..Len(toClient') : toClient'[k] = toClient[k + 1]
    BY ArrivesType
  <1>2. CASE [type |-> "subscribe", req |-> q] \in toServer
    BY <1>2 DEF UnderWay
  <1>3. ASSUME NEW k \in 1..Len(toClient),
               \/ toClient[k].type = "accepted" /\ toClient[k].req = q
               \/ toClient[k].type = "error" /\ toClient[k].re = q
        PROVE  \/ UnderWay(q)'
               \/ type = "accepted" /\ Head(toClient).req = q
               \/ type = "error" /\ Head(toClient).re = q
    <2>1. CASE k = 1
      BY <1>1, <1>3, <2>1
    <2>2. CASE k # 1
      <3>1. k - 1 \in 1..Len(toClient') /\ (k - 1) + 1 = k
        BY <1>1, <2>2
      <3>2. toClient'[k - 1] = toClient[k]
        BY <1>1, <3>1
      <3> QED
        BY <1>3, <3>1, <3>2 DEF UnderWay
    <2> QED
      BY <2>1, <2>2
  <1> QED
    BY <1>2, <1>3 DEF UnderWay

\* No step leaves a mounted hook unserved.
LEMMA FedStep == FedInv /\ [Next]_vars => FedInv'
  <1> SUFFICES ASSUME FedInv, [Next]_vars
               PROVE  FedInv'
    OBVIOUS
  <1>0. /\ ClientInv /\ ClientInv' /\ TransitRegistered /\ TransitRegistered' /\ TypeOK
        /\ SidsOK /\ pending \in SUBSET Request /\ mounted \in SUBSET Hook
    BY ClientInvStep, TransitStep DEF FedInv, ClientInv, TypeOK
  <1> SUFFICES ASSUME rendered' = "open", ~explicitlyClosed', NEW h \in mounted'
               PROVE  Refused(h)' \/ Subscribed(h)' \/ Asked(h)'
    BY <1>0 DEF FedInv, AllServed
  <1>1. rendered = "open" /\ ~explicitlyClosed /\ h \in mounted
          => Refused(h) \/ Subscribed(h) \/ Asked(h)
    BY DEF FedInv, AllServed
  <1>2. CASE Connect \/ ReconnectTimer
    <2>1. /\ UNCHANGED <<rendered, explicitlyClosed, mounted, runs, refused, active, pending>>
          /\ status' = "connecting"
      <3>1. UNCHANGED <<explicitlyClosed, react, pending, active, past>> /\ status' = "connecting"
        BY <1>2 DEF Connect, ReconnectTimer, OpenSocket
      <3> QED
        BY <3>1 DEF react, past
    <2> QED
      BY <1>1, <2>1, ServedKept
  <1>3. CASE Open
    <2>1. /\ UNCHANGED <<rendered, explicitlyClosed, mounted, runs, refused, active>>
          /\ pending' = pending \cup Reissued
          /\ toServer' = Subscribe(pending \cup Reissued)
      BY <1>3 DEF Open, react, past
    <2>2. \A q \in pending' : UnderWay(q)'
      BY <2>1 DEF Subscribe, UnderWay
    <2>3. CASE Refused(h)
      BY <2>1, <2>3 DEF Refused
    <2>4. CASE Asked(h)
      <3>1. PICK q \in pending : q.hook = h /\ q.run = runs[h]
        BY <2>4 DEF Asked
      <3>2. q \in pending'
        BY <2>1
      <3> QED
        BY <2>1, <2>2, <3>1, <3>2 DEF Asked
    <2>5. CASE Subscribed(h)
      <3>1. PICK a \in active : a.hook = h /\ a.run = runs[h]
        BY <2>5 DEF Subscribed
      <3>2. PICK q \in Reissued : q.hook = h /\ q.run = runs[h]
        <4>1. [hook |-> a.hook, run |-> a.run, of |-> a.sid, conn |-> conn] \in Reissued
          BY DEF Reissued
        <4> QED
          BY <3>1, <4>1
      <3>3. q \in pending'
        BY <2>1
      <3> QED
        BY <2>1, <2>2, <3>2, <3>3 DEF Asked
    <2> QED
      BY <1>1, <2>1, <2>3, <2>4, <2>5
  <1>4. CASE SocketClosed
    <2>1. /\ UNCHANGED <<rendered, mounted, runs, refused, active, pending>>
          /\ status' = "closed" /\ (explicitlyClosed => explicitlyClosed')
      BY <1>4 DEF SocketClosed, react, past
    <2> QED
      BY <1>1, <2>1, ServedKept
  <1>5. CASE Close
    BY <1>5 DEF Close
  <1>6. CASE Commit
    <2>1. /\ status' = status /\ explicitlyClosed' = explicitlyClosed /\ mounted' = mounted
          /\ rendered' = status /\ Rerun(mounted, IfOpen(mounted, status))
      BY <1>6 DEF Commit, socket
    <2>2. IfOpen(mounted, status) = mounted
      BY <2>1 DEF IfOpen
    <2> QED
      BY <1>0, <2>1, <2>2, RerunAsks
  <1>7. ASSUME NEW g \in Hook, Mount(g) \/ Unmount(g) \/ ParamsChange(g)
        PROVE  Refused(h)' \/ Subscribed(h)' \/ Asked(h)'
    <2>1. /\ UNCHANGED <<status, explicitlyClosed, rendered, refused, regs, toClient>>
          /\ \A x \in Hook : x # g => (x \in mounted' <=> x \in mounted)
      BY <1>7 DEF Mount, Unmount, ParamsChange, socket, server
    <2>2. CASE h = g
      <3>1. ~Unmount(g)
        BY <2>2 DEF Unmount
      <3>2. Rerun({g}, {g})
        BY <1>7, <2>1, <3>1 DEF Mount, ParamsChange, IfOpen
      <3> QED
        BY <1>0, <2>1, <2>2, <3>2, RerunAsks
    <2>3. CASE h # g
      <3>0. h \in Hook
        BY <1>0 DEF ClientInv, TypeOK
      <3>1. PICK R \in SUBSET {g} : Rerun({g}, R)
        BY <1>7 DEF Mount, Unmount, ParamsChange, IfOpen
      <3>2. /\ runs'[h] = runs[h]
            /\ \A a \in active : a.hook = h => a \in active'
            /\ pending \subseteq pending'
            /\ toServer \subseteq toServer'
        BY <1>0, <2>3, <3>0, <3>1, RerunOthers
      <3>3. \A q \in pending : UnderWay(q) => UnderWay(q)'
        BY <2>1, <3>2 DEF UnderWay
      <3> QED
        BY <1>1, <2>1, <2>3, <3>0, <3>2, <3>3, ServedKept
    <2> QED
      BY <2>2, <2>3
  <1>8. ASSUME NEW r \in Rpc, CallRpc(r)
        PROVE  Refused(h)' \/ Subscribed(h)' \/ Asked(h)'
    <2>1. /\ UNCHANGED <<status, explicitlyClosed, rendered, mounted, runs, refused, active,
                         pending, regs, toClient>>
          /\ toServer \subseteq toServer'
      BY <1>8 DEF CallRpc, socket, react, past, server
    <2>2. \A q \in pending : UnderWay(q) => UnderWay(q)'
      BY <2>1 DEF UnderWay
    <2> QED
      BY <1>1, <2>1, <2>2, ServedKept
  <1>9. ASSUME NEW m \in toServer, Answer(m)
        PROVE  Refused(h)' \/ Subscribed(h)' \/ Asked(h)'
    <2>1. UNCHANGED <<status, explicitlyClosed, rendered, mounted, runs, refused, active, pending>>
      BY <1>9 DEF Answer, Accept, Refuse, Unregister, Execute, socket, react, past
    <2>2. \A a \in active : a.sid \in regs => a.sid \in regs'
      <3>1. CASE Unregister(m)
        BY <1>0, <3>1 DEF Unregister, SidsOK
      <3>2. CASE ~Unregister(m)
        BY <1>9, <3>2 DEF Answer, Accept, Refuse, Execute, server
      <3> QED
        BY <3>1, <3>2
    <2>3. \A q \in pending : UnderWay(q) => UnderWay(q)'
      BY <1>0, <1>9, AnswerKeeps
    <2> QED
      BY <1>1, <2>1, <2>2, <2>3, ServedKept
  <1>10. ASSUME NEW sid \in regs, Push(sid)
         PROVE  Refused(h)' \/ Subscribed(h)' \/ Asked(h)'
    <2>1. /\ UNCHANGED <<status, explicitlyClosed, rendered, mounted, runs, refused, active,
                         pending, regs, toServer>>
          /\ toClient' = Append(toClient, [type |-> "delta", sid |-> sid])
          /\ toClient \in Seq(ToClient) /\ [type |-> "delta", sid |-> sid] \in ToClient
      BY <1>0, <1>10, ToClientType DEF Push, socket, react, past, server, TypeOK
    <2>2. /\ toClient' = toClient \o <<[type |-> "delta", sid |-> sid]>>
          /\ <<[type |-> "delta", sid |-> sid]>> \in Seq(ToClient)
      BY <2>1
    <2>3. \A q \in pending : UnderWay(q) => UnderWay(q)'
      BY <2>1, <2>2, TransitKept
    <2> QED
      BY <1>1, <2>1, <2>3, ServedKept
  <1>11. CASE OnSnapshot \/ OnDelta \/ OnResult
    <2>1. /\ UNCHANGED <<status, explicitlyClosed, rendered, mounted, runs, refused, active,
                         pending, regs, toServer>>
          /\ \E type \in {"snapshot", "delta", "result"} : Arrives(type)
      BY <1>11 DEF OnSnapshot, OnDelta, OnResult, socket, react, past, server
    <2>2. \A q \in pending : UnderWay(q) => UnderWay(q)'
      BY <1>0, <2>1, DeliveryKeeps
    <2> QED
      BY <1>1, <2>1, <2>2, ServedKept
  <1>12. CASE OnError
    <2> DEFINE re == Head(toClient).re
    <2>1. /\ UNCHANGED <<status, explicitlyClosed, rendered, mounted, runs, active, regs, toServer>>
          /\ Arrives("error")
          /\ \/ re \in Rpc /\ UNCHANGED <<pending, refused>>
             \/ /\ pending' = pending \ {re}
                /\ refused' = refused \cup {[hook |-> re.hook, run |-> re.run]}
      BY <1>12 DEF OnError, socket, react, server
    <2>2. \A q \in pending : UnderWay(q) => UnderWay(q)' \/ re = q
      BY <1>0, <2>1, DeliveryKeeps
    <2>3. \A q \in pending : q \in pending' /\ UnderWay(q) => UnderWay(q)'
      BY <1>0, <2>1, <2>2, IdsDiffer
    <2>4. /\ \A q \in pending : q \in pending' \/ [hook |-> q.hook, run |-> q.run] \in refused'
          /\ refused \subseteq refused'
      BY <2>1
    <2> HIDE DEF re
    <2> QED
      BY <1>1, <2>1, <2>3, <2>4, ServedKept
  <1>13. CASE OnAccepted
    <2> DEFINE m == Head(toClient)
               q == m.req
               a == [sid |-> m.sid, hook |-> q.hook, run |-> q.run]
    <2>1. /\ UNCHANGED <<status, explicitlyClosed, rendered, mounted, runs, refused, regs, toServer>>
          /\ Arrives("accepted")
          /\ \/ q \in pending /\ active' = active \cup {a} /\ pending' = pending \ {q}
             \/ q \notin pending /\ UNCHANGED <<active, pending>>
      BY <1>13 DEF OnAccepted, socket, past, server
    <2>2. \A p \in pending : UnderWay(p) => UnderWay(p)' \/ q = p
      BY <1>0, <2>1, DeliveryKeeps
    <2>3. m.sid \in regs
      <3>1. /\ m = toClient[1] /\ m.type = "accepted"
            /\ Len(toClient) \in Nat /\ Len(toClient) > 0
        BY <1>0, <2>1, ArrivesType
      <3>2. 1 \in 1..Len(toClient)
        BY <3>1
      <3> QED
        BY <1>0, <3>1, <3>2 DEF TransitRegistered
    <2>4. CASE q \in pending /\ q.hook = h /\ q.run = runs[h]
      <3>1. a \in active' /\ a.hook = h /\ a.run = runs'[h] /\ a.sid \in regs'
        BY <2>1, <2>3, <2>4
      <3> HIDE DEF a
      <3> QED
        BY <3>1 DEF Subscribed
    <2>5. CASE ~(q \in pending /\ q.hook = h /\ q.run = runs[h])
      <3>1. CASE Refused(h)
        BY <2>1, <3>1 DEF Refused
      <3>2. CASE Subscribed(h)
        BY <2>1, <3>2 DEF Subscribed
      <3>3. CASE Asked(h)
        <4>1. PICK p \in pending : p.hook = h /\ p.run = runs[h]
                                   /\ (status = "open" => UnderWay(p))
          BY <3>3 DEF Asked
        <4>2. p # q
          BY <2>5, <4>1
        <4>3. p \in pending' /\ (status' = "open" => UnderWay(p)')
          BY <2>1, <2>2, <4>1, <4>2
        <4> QED
          BY <2>1, <4>1, <4>3 DEF Asked
      <3> QED
        BY <1>1, <2>1, <3>1, <3>2, <3>3
    <2> QED
      BY <2>4, <2>5
  <1>14. CASE UNCHANGED vars
    <2>1. UNCHANGED <<status, explicitlyClosed, rendered, mounted, runs, refused, active,
                      pending, regs, toServer, toClient>>
      BY <1>14 DEF vars, socket, react, past, server, wire
    <2> QED
      BY <1>1, <2>1 DEF Refused, Subscribed, Asked, UnderWay
  <1> QED
    BY <1>2, <1>3, <1>4, <1>5, <1>6, <1>7, <1>8, <1>9, <1>10, <1>11, <1>12, <1>13, <1>14
       DEF Next, Deliver

\* Whatever the interleaving of socket events, React commits and user actions,
\* once nothing is under way every mounted hook is served: its latest effect run
\* is subscribed on this very socket, or was refused.
THEOREM MountedHooksAreFed == Spec => []HookFed
  <1>1. Init => FedInv
    <2> SUFFICES ASSUME Init PROVE FedInv
      OBVIOUS
    <2>1. ClientInv
      BY ClientInvInit
    <2>2. TransitRegistered /\ AllServed
      BY DEF Init, TransitRegistered, AllServed
    <2> QED
      BY <2>1, <2>2 DEF FedInv
  <1>2. FedInv => HookFed
    <2> SUFFICES ASSUME FedInv, Quiet, NEW h \in mounted
                 PROVE  \/ \E a \in active : a.hook = h /\ a.run = runs[h] /\ a.sid \in regs
                        \/ [hook |-> h, run |-> runs[h]] \in refused
      BY DEF HookFed
    <2>1. Refused(h) \/ Subscribed(h) \/ Asked(h)
      BY DEF FedInv, AllServed, Quiet
    <2>2. \A q : ~UnderWay(q)
      BY DEF Quiet, UnderWay
    <2> QED
      BY <2>1, <2>2 DEF Quiet, Refused, Subscribed, Asked
  <1> QED
    BY <1>1, <1>2, FedStep, PTL DEF Spec

-----------------------------------------------------------------------------
(* Which subscriptions outlive the run that asked for them.                *)

\* While a socket connects React shows no open status: it committed the closing
\* of the last one before the reconnect timer fired.
PromptOK == status = "connecting" => rendered # "open"

\* A request of a run that goes on is the only one of that run, which was told no
\* subscription id yet; those of other runs, and those of an earlier socket, belong
\* to runs that were abandoned.
RequestsOK ==
    \A q \in pending :
        /\ q.of = 0 => q.conn = 0
        /\ q.of = 0 /\ ~Cancelled(q.hook, q.run) => handle[q.hook] = 0
        /\ (q.of # 0 \/ Cancelled(q.hook, q.run)) => [hook |-> q.hook, run |-> q.run] \in abandoned

OutliveInv == ClientInv /\ PromptOK /\ RequestsOK /\ OnlyAbandonedOutlive

\* What effects that run again do to requests and subscriptions.
LEMMA RerunOutlive ==
    ASSUME OutliveInv, NEW H \in SUBSET Hook, NEW R \in SUBSET H, Rerun(H, R)
    PROVE  RequestsOK' /\ OnlyAbandonedOutlive'
  <1> DEFINE gone == {a \in active : \E h \in H : live[h] /\ handle[h] = a.sid}
             asks == {[hook |-> h, run |-> runs[h] + 1, of |-> 0, conn |-> 0] : h \in R}
  <1>0. /\ ClientInv /\ TypeOK /\ SidsOK /\ RequestsOK /\ OnlyAbandonedOutlive
        /\ runs \in [Hook -> Nat] /\ handle \in [Hook -> Nat] /\ live \in [Hook -> BOOLEAN]
        /\ active \in SUBSET [sid : Nat, hook : Hook, run : Nat]
        /\ pending \in SUBSET Request
    BY DEF OutliveInv, ClientInv, TypeOK
  <1>1. /\ runs' = [h \in Hook |-> IF h \in R THEN runs[h] + 1 ELSE runs[h]]
        /\ handle' = [h \in Hook |-> IF h \in H THEN 0 ELSE handle[h]]
        /\ active' = active \ gone
        /\ pending' = pending \cup asks
        /\ abandoned' = abandoned \cup Unanswered(H)
    BY DEF Rerun
  <1>2. \A h \in Hook : live'[h] <=> h \in R \/ (live[h] /\ h \notin H)
    BY Zenon DEF Rerun
  <1>3. ASSUME NEW h \in Hook, NEW n \in Nat, h \notin H
        PROVE  Cancelled(h, n)' <=> Cancelled(h, n)
    <2>1. runs'[h] = runs[h] /\ (live'[h] <=> live[h])
      BY <1>1, <1>2, <1>3
    <2> QED
      BY <2>1 DEF Cancelled
  <1>4. ASSUME NEW h \in H, NEW n \in Nat, n <= runs[h]
        PROVE  Cancelled(h, n)'
    <2>1. CASE h \in R
      <3>1. runs'[h] = runs[h] + 1 /\ runs[h] \in Nat
        BY <1>0, <1>1, <2>1
      <3> QED
        BY <1>4, <3>1 DEF Cancelled
    <2>2. CASE h \notin R
      BY <1>2, <2>2 DEF Cancelled
    <2> QED
      BY <2>1, <2>2
  <1>5. RequestsOK'
    <2>1. ASSUME NEW q \in asks
          PROVE  /\ q.of = 0 => q.conn = 0
                 /\ q.of = 0 /\ ~Cancelled(q.hook, q.run)' => handle'[q.hook] = 0
                 /\ (q.of # 0 \/ Cancelled(q.hook, q.run)')
                       => [hook |-> q.hook, run |-> q.run] \in abandoned'
      <3>1. PICK h \in R : q = [hook |-> h, run |-> runs[h] + 1, of |-> 0, conn |-> 0]
        OBVIOUS
      <3>2. q.hook = h /\ q.run = runs'[h] /\ q.of = 0 /\ q.conn = 0
        BY <1>1, <3>1
      <3>3. live'[h] /\ handle'[h] = 0
        BY <1>1, <1>2
      <3>4. ~Cancelled(q.hook, q.run)'
        BY <3>2, <3>3 DEF Cancelled
      <3> QED
        BY <3>2, <3>3, <3>4
    <2>2. ASSUME NEW q \in pending
          PROVE  /\ q.of = 0 => q.conn = 0
                 /\ q.of = 0 /\ ~Cancelled(q.hook, q.run)' => handle'[q.hook] = 0
                 /\ (q.of # 0 \/ Cancelled(q.hook, q.run)')
                       => [hook |-> q.hook, run |-> q.run] \in abandoned'
      <3>1. /\ q.hook \in Hook /\ q.run \in Nat /\ q.run <= runs[q.hook]
            /\ q.of = 0 => q.conn = 0
            /\ q.of = 0 /\ ~Cancelled(q.hook, q.run) => handle[q.hook] = 0
            /\ (q.of # 0 \/ Cancelled(q.hook, q.run))
                  => [hook |-> q.hook, run |-> q.run] \in abandoned
        BY <1>0 DEF RequestsOK, SidsOK, Request
      <3>2. CASE q.hook \notin H
        BY <1>1, <1>3, <3>1, <3>2
      <3>3. CASE q.hook \in H
        <4>1. Cancelled(q.hook, q.run)'
          BY <1>4, <3>1, <3>3
        <4>2. [hook |-> q.hook, run |-> q.run] \in abandoned'
          <5>1. CASE q.of = 0 /\ ~Cancelled(q.hook, q.run)
            <6>1. live[q.hook] /\ q.run = runs[q.hook] /\ handle[q.hook] = 0
              BY <3>1, <5>1 DEF Cancelled
            <6>2. [hook |-> q.hook, run |-> q.run] \in Unanswered(H)
              BY <3>3, <6>1 DEF Unanswered
            <6> QED
              BY <1>1, <6>2
          <5>2. CASE q.of # 0 \/ Cancelled(q.hook, q.run)
            BY <1>1, <3>1, <5>2
          <5> QED
            BY <5>1, <5>2
        <4> QED
          BY <3>1, <4>1, <4>2
      <3> QED
        BY <3>2, <3>3
    <2> QED
      BY <1>1, <2>1, <2>2 DEF RequestsOK
  <1>6. OnlyAbandonedOutlive'
    <2> SUFFICES ASSUME NEW a \in active'
                 PROVE  \/ ~Cancelled(a.hook, a.run)' /\ handle'[a.hook] = a.sid
                        \/ [hook |-> a.hook, run |-> a.run] \in abandoned'
      BY DEF OnlyAbandonedOutlive
    <2>1. a \in active /\ a \notin gone /\ a.hook \in Hook /\ a.run \in Nat
      BY <1>0, <1>1
    <2>2. CASE ~Cancelled(a.hook, a.run) /\ handle[a.hook] = a.sid
      <3>1. a.hook \notin H
        BY <2>1, <2>2 DEF Cancelled
      <3> QED
        BY <1>1, <1>3, <2>1, <2>2, <3>1
    <2>3. CASE [hook |-> a.hook, run |-> a.run] \in abandoned
      BY <1>1, <2>3
    <2> QED
      BY <1>0, <2>1, <2>2, <2>3 DEF OnlyAbandonedOutlive
  <1> QED
    BY <1>5, <1>6

\* No step makes a subscription outlive its run, but for the abandoned ones.
LEMMA OutliveStep ==
    ASSUME PromptCommits
    PROVE  OutliveInv /\ [Next]_vars => OutliveInv'
  <1> SUFFICES ASSUME OutliveInv, [Next]_vars
               PROVE  OutliveInv'
    OBVIOUS
  <1>0. /\ ClientInv /\ ClientInv' /\ TypeOK /\ SocketOK /\ SidsOK /\ HandleOK
        /\ PromptOK /\ RequestsOK /\ OnlyAbandonedOutlive
        /\ mounted \in SUBSET Hook
    BY ClientInvStep DEF OutliveInv, ClientInv, TypeOK
  <1>1. ASSUME UNCHANGED <<status, rendered, runs, live, handle, active, abandoned>>,
               pending' \subseteq pending
        PROVE  OutliveInv'
    BY <1>0, <1>1 DEF OutliveInv, PromptOK, RequestsOK, OnlyAbandonedOutlive, Cancelled
  <1>2. CASE Connect \/ ReconnectTimer \/ SocketClosed
    <2>1. UNCHANGED <<rendered, runs, live, handle, active, abandoned, pending>>
      BY <1>2 DEF Connect, ReconnectTimer, SocketClosed, react, past
    <2>2. PromptOK'
      <3>1. CASE Connect \/ ReconnectTimer
        BY <1>0, <2>1, <3>1 DEF Connect, ReconnectTimer, SocketOK, PromptOK
      <3>2. CASE SocketClosed
        BY <3>2 DEF SocketClosed, PromptOK
      <3> QED
        BY <1>2, <3>1, <3>2
    <2> QED
      BY <1>0, <2>1, <2>2 DEF OutliveInv, RequestsOK, OnlyAbandonedOutlive, Cancelled
  <1>3. CASE Open
    <2>1. /\ UNCHANGED <<rendered, runs, live, handle, active, abandoned>>
          /\ status = "connecting" /\ status' = "open"
          /\ pending' = pending \cup Reissued
      BY <1>3 DEF Open, react, past
    <2>2. \A h \in Hook : ~live[h]
      BY <1>0, <2>1 DEF SocketOK, PromptOK
    <2>3. \A a \in active : a.hook \in Hook /\ [hook |-> a.hook, run |-> a.run] \in abandoned
      <3>1. \A a \in active : a.hook \in Hook
        BY <1>0 DEF TypeOK
      <3> QED
        BY <1>0, <2>2, <3>1 DEF OnlyAbandonedOutlive, Cancelled
    <2>4. ASSUME NEW q \in Reissued
          PROVE  q.of # 0 /\ [hook |-> q.hook, run |-> q.run] \in abandoned
      <3>1. PICK a \in active :
               q = [hook |-> a.hook, run |-> a.run, of |-> a.sid, conn |-> conn]
        BY DEF Reissued
      <3>2. a.sid # 0 /\ q.of = a.sid /\ q.hook = a.hook /\ q.run = a.run
        BY <1>0, <3>1 DEF SidsOK
      <3> QED
        BY <2>3, <3>2
    <2>5. RequestsOK'
      BY <1>0, <2>1, <2>4 DEF RequestsOK, Cancelled
    <2> QED
      BY <1>0, <2>1, <2>5 DEF OutliveInv, PromptOK, OnlyAbandonedOutlive, Cancelled
  <1>4. CASE Commit
    <2>1. /\ status' = status /\ rendered' = status /\ Rerun(mounted, IfOpen(mounted, status))
          /\ IfOpen(mounted, status) \in SUBSET mounted
      BY <1>4 DEF Commit, socket, IfOpen
    <2>2. PromptOK'
      BY <2>1 DEF PromptOK
    <2>3. RequestsOK' /\ OnlyAbandonedOutlive'
      BY <1>0, <2>1, RerunOutlive
    <2> QED
      BY <1>0, <2>2, <2>3 DEF OutliveInv
  <1>5. ASSUME NEW h \in Hook, Mount(h) \/ Unmount(h) \/ ParamsChange(h)
        PROVE  OutliveInv'
    <2>1. PICK R \in SUBSET {h} : Rerun({h}, R)
      BY <1>5 DEF Mount, Unmount, ParamsChange, IfOpen
    <2>2. RequestsOK' /\ OnlyAbandonedOutlive'
      BY <2>1, RerunOutlive
    <2>3. PromptOK'
      BY <1>0, <1>5 DEF Mount, Unmount, ParamsChange, socket, PromptOK
    <2> QED
      BY <1>0, <2>2, <2>3 DEF OutliveInv
  <1>6. CASE Close \/ (\E r \in Rpc : CallRpc(r)) \/ (\E m \in toServer : Answer(m))
             \/ (\E sid \in regs : Push(sid)) \/ OnSnapshot \/ OnDelta \/ OnResult \/ OnError
             \/ UNCHANGED vars
    <2>1. /\ UNCHANGED <<status, rendered, runs, live, handle, active, abandoned>>
          /\ pending' \subseteq pending
      <3>1. CASE OnError
        BY <3>1 DEF OnError, socket, react
      <3>2. CASE ~OnError
        BY <1>6, <3>2 DEF Close, CallRpc, Answer, Accept, Refuse, Unregister, Execute, Push,
                          OnSnapshot, OnDelta, OnResult, vars, socket, react, past
      <3> QED
        BY <3>1, <3>2
    <2> QED
      BY <1>1, <2>1
  <1>7. CASE OnAccepted
    <2> DEFINE m == Head(toClient)
               q == m.req
               a == [sid |-> m.sid, hook |-> q.hook, run |-> q.run]
    <2>1. /\ UNCHANGED <<status, rendered, runs, live, abandoned>>
          /\ \/ /\ q \in pending
                /\ active' = active \cup {a}
                /\ pending' = pending \ {q}
                /\ handle' = IF q.of = 0 /\ ~Cancelled(q.hook, q.run)
                             THEN [handle EXCEPT ![q.hook] = m.sid]
                             ELSE handle
             \/ UNCHANGED <<active, pending, handle>>
      BY <1>7 DEF OnAccepted, socket, past
    <2>2. a.sid = m.sid /\ a.hook = q.hook /\ a.run = q.run
      OBVIOUS
    <2> HIDE DEF m, q, a
    <2>3. CASE UNCHANGED <<active, pending, handle>>
      BY <1>1, <2>1, <2>3
    <2>4. CASE /\ q \in pending /\ active' = active \cup {a} /\ pending' = pending \ {q}
               /\ handle' = handle /\ (q.of # 0 \/ Cancelled(q.hook, q.run))
      <3>1. [hook |-> a.hook, run |-> a.run] \in abandoned
        BY <1>0, <2>2, <2>4 DEF RequestsOK
      <3> QED
        BY <1>0, <2>1, <2>4, <3>1 DEF OutliveInv, PromptOK, RequestsOK, OnlyAbandonedOutlive,
                                      Cancelled
    <2>5. CASE /\ q \in pending /\ active' = active \cup {a} /\ pending' = pending \ {q}
               /\ handle' = [handle EXCEPT ![q.hook] = m.sid]
               /\ q.of = 0 /\ ~Cancelled(q.hook, q.run)
      <3>0. /\ handle \in [Hook -> Nat] /\ q \in Request /\ pending \in SUBSET Request
            /\ active \in SUBSET [sid : Nat, hook : Hook, run : Nat]
        BY <1>0, <2>5 DEF TypeOK
      <3>1. /\ handle'[q.hook] = m.sid /\ handle[q.hook] = 0
            /\ \A h \in Hook : h # q.hook => handle'[h] = handle[h]
            /\ q.hook \in Hook
        BY <1>0, <2>5, <3>0 DEF RequestsOK, Request
      <3>2. ASSUME NEW p \in pending', p.of = 0, ~Cancelled(p.hook, p.run)
            PROVE  handle'[p.hook] = 0
        <4>1. p \in pending /\ p # q /\ p.conn = 0 /\ p \in Request
          BY <1>0, <2>5, <3>0, <3>2 DEF RequestsOK
        <4>2. p.hook # q.hook
          <5>1. SUFFICES ASSUME p.hook = q.hook PROVE FALSE
            OBVIOUS
          <5>2. p.run = q.run
            BY <2>5, <3>2, <5>1 DEF Cancelled
          <5>3. q.conn = 0
            BY <1>0, <2>5 DEF RequestsOK
          <5>4. p = q
            BY <2>5, <3>0, <3>2, <4>1, <5>1, <5>2, <5>3 DEF Request
          <5> QED
            BY <4>1, <5>4
        <4> QED
          BY <1>0, <3>1, <3>2, <4>1, <4>2 DEF RequestsOK, Request
      <3>3. RequestsOK'
        BY <1>0, <2>1, <2>5, <3>2 DEF RequestsOK, Cancelled
      <3>4. ASSUME NEW b \in active, ~Cancelled(b.hook, b.run), handle[b.hook] = b.sid
            PROVE  handle'[b.hook] = b.sid
        <4>1. b.sid # 0 /\ b.hook \in Hook
          BY <1>0, <3>0 DEF SidsOK
        <4> QED
          BY <3>1, <3>4, <4>1
      <3>5. ~Cancelled(a.hook, a.run) /\ handle'[a.hook] = a.sid
        BY <2>2, <2>5, <3>1
      <3>6. OnlyAbandonedOutlive'
        BY <1>0, <2>1, <2>5, <3>4, <3>5 DEF OnlyAbandonedOutlive, Cancelled
      <3> QED
        BY <1>0, <2>1, <3>3, <3>6 DEF OutliveInv, PromptOK
    <2> QED
      BY <2>1, <2>3, <2>4, <2>5
  <1> QED
    BY <1>2, <1>3, <1>4, <1>5, <1>6, <1>7 DEF Next, Deliver

\* If React commits a status before the reconnect timer fires (the shortest delay is
\* 500 ms), the only subscriptions that outlive the effect run that asked for them
\* are those that were not accepted yet when it was cleaned up.
THEOREM OnlyAbandonedSubscriptionsOutlive ==
    ASSUME PromptCommits
    PROVE  Spec => []OnlyAbandonedOutlive
  <1>1. Init => OutliveInv
    <2> SUFFICES ASSUME Init PROVE OutliveInv
      OBVIOUS
    <2>1. PromptOK /\ RequestsOK /\ OnlyAbandonedOutlive
      BY DEF Init, PromptOK, RequestsOK, OnlyAbandonedOutlive
    <2> QED
      BY <2>1, ClientInvInit DEF OutliveInv
  <1>2. OutliveInv => OnlyAbandonedOutlive
    BY DEF OutliveInv
  <1>3. OutliveInv /\ [Next]_vars => OutliveInv'
    BY OutliveStep
  <1> QED
    BY <1>1, <1>2, <1>3, PTL DEF Spec
=============================================================================
