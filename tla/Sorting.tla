------------------------------- MODULE Sorting -------------------------------
(***************************************************************************)
(* Lists of numbers in order, as ORDER BY and Array.sort make them.  The   *)
(* place of an entry is the number of entries that do not come after it.   *)
(***************************************************************************)
EXTENDS Integers, Sequences, FiniteSets

\* The members of S, largest first.
Descending(S) ==
    [n \in 1..Cardinality(S) |->
        CHOOSE e \in S : Cardinality({d \in S : d >= e}) = n]

\* The entries of s, largest first; equal ones stay in their order.
NewestFirst(s) ==
    [n \in DOMAIN s |->
        s[CHOOSE k \in DOMAIN s :
            Cardinality({j \in DOMAIN s : s[j] > s[k] \/ (s[j] = s[k] /\ j <= k)}) = n]]
=============================================================================
