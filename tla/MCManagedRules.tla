--------------------------- MODULE MCManagedRules ---------------------------
EXTENDS ManagedRules, TLC

CONSTANTS a, b, g

\* One installed rule and a group of the deployment's own.
OneRule == {[managed |-> {[name |-> a, valid |-> TRUE]}, preserved |-> {g}]}

Symmetry == Permutations(Request) \cup Permutations(Inode)
=============================================================================
