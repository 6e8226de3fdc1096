------------------------------ MODULE PageData ------------------------------
(***************************************************************************)
(* What the hooks of a page have in common.                                *)
(***************************************************************************)
CONSTANT NoData   \* what a hook holds before anything has arrived

\* The function f, but for y at x, which need not be in its domain.
With(f, x, y) == [z \in DOMAIN f \cup {x} |-> IF z = x THEN y ELSE f[z]]
=============================================================================
