----------------------------- MODULE AtomicStore ------------------------------
(***************************************************************************)
(* What a store of the Console promises to its requests ("the store        *)
(* commits atomically", rules-store.ts:14): a request takes effect in one  *)
(* step, on the value that is stored at that moment and at most once, or   *)
(* not at all; it is acknowledged only after it took effect; nothing else, *)
(* no crash, restart or failed write, changes the value. The promise ends  *)
(* when two requests overlap.                                              *)
(***************************************************************************)
CONSTANTS
    Request,
    Op,          \* what a request may ask for
    NoOp,        \* nothing yet
    Value,       \* what may be stored
    Outcome      \* Outcome[o][v]: what o may make of v; nothing when it is refused

VARIABLES
    value,       \* what is stored
    phase,       \* how far each request is
    asked,       \* what it asks for
    overlapped   \* two requests were at work at once

storeVars == <<value, phase, asked, overlapped>>

Init ==
    /\ value \in Value
    /\ phase = [r \in Request |-> "new"]
    /\ asked = [r \in Request |-> NoOp]
    /\ overlapped = FALSE

\* The request r comes with something it asks for.
Arrives(r) ==
    /\ phase[r] = "new"
    /\ asked'[r] \in Op
    /\ asked' = [asked EXCEPT ![r] = asked'[r]]
    /\ UNCHANGED <<value, overlapped>>

\* The stored value allows it, and its work starts;
Begin(r) ==
    /\ Arrives(r)
    /\ Outcome[asked'[r]][value] # {}
    /\ \A q \in Request : phase[q] # "begun"
    /\ phase' = [phase EXCEPT ![r] = "begun"]

\* or it is refused, or nothing can be read.
TurnAway(r) ==
    /\ Arrives(r)
    /\ phase' = [phase EXCEPT ![r] = "over"]

TakeEffect(r) ==
    /\ phase[r] = "begun"
    /\ value' \in Outcome[asked[r]][value]
    /\ phase' = [phase EXCEPT ![r] = "effective"]
    /\ UNCHANGED <<asked, overlapped>>

Acknowledge(r) ==
    /\ phase[r] = "effective"
    /\ phase' = [phase EXCEPT ![r] = "acknowledged"]
    /\ UNCHANGED <<value, asked, overlapped>>

\* Requests fail, or die with the process, before or after their effect.
GiveUp(S) ==
    /\ \A r \in S : phase[r] \in {"begun", "effective"}
    /\ phase' = [r \in Request |-> IF r \in S THEN "over" ELSE phase[r]]
    /\ UNCHANGED <<value, asked, overlapped>>

\* Nothing is promised from a step on that has two requests at work.
Overlap ==
    /\ overlapped'
    /\ \/ overlapped
       \/ \E p, q \in Request : p # q /\ phase'[p] = "begun" /\ phase'[q] = "begun"

Next ==
    \/ Overlap
    \/ \E S \in SUBSET Request : GiveUp(S)
    \/ \E r \in Request : Begin(r) \/ TurnAway(r) \/ TakeEffect(r) \/ Acknowledge(r)

Spec == Init /\ [][Next]_storeVars
=============================================================================
