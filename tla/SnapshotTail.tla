---------------------------- MODULE SnapshotTail ----------------------------
(***************************************************************************)
(* What the Console promises a client about one subscription ("snapshot +  *)
(* tail" in docs/02-architecture.md): a subscribe call is answered by      *)
(* subscription.accepted and one snapshot, or by one error; deltas follow  *)
(* the snapshot and nothing else ever does.  wire[s] is the sequence of    *)
(* message kinds the client is sent for the call s.                        *)
(***************************************************************************)
EXTENDS Naturals, Sequences

CONSTANT Sub

VARIABLE wire

Kind == {"accepted", "snapshot", "delta", "error"}

Opening == <<"accepted", "snapshot">>

Init == wire = [s \in Sub |-> <<>>]

Opened(s) == Len(wire[s]) >= 2 /\ \A k \in 1..2 : wire[s][k] = Opening[k]

\* The server answers the subscribe call s.
Answer(s) ==
    /\ wire[s] = <<>>
    /\ \E answer \in {Opening, <<"error">>} : wire' = [wire EXCEPT ![s] = answer]

\* One Kafka event or gateway response reaches any number of subscriptions.
Extends(s) ==
    /\ Len(wire'[s]) >= Len(wire[s])
    /\ \A k \in 1..Len(wire[s]) : wire'[s][k] = wire[s][k]
    /\ \A k \in (Len(wire[s]) + 1)..Len(wire'[s]) : wire'[s][k] = "delta"

Deltas(S) ==
    /\ \A s \in S : Opened(s) /\ Extends(s)
    /\ \A s \in Sub \ S : wire'[s] = wire[s]
    /\ wire' \in [Sub -> Seq(Kind)]

Next == (\E s \in Sub : Answer(s)) \/ (\E S \in SUBSET Sub : Deltas(S))

Spec == Init /\ [][Next]_wire
=============================================================================
