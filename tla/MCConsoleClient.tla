--------------------------- MODULE MCConsoleClient ---------------------------
(***************************************************************************)
(* Instances of ConsoleClient for TLC: its cfgs choose the hooks, the RPC  *)
(* calls and the bounds.                                                   *)
(***************************************************************************)
EXTENDS ConsoleClient, TLC

HookSymmetry == Permutations(Hook)
=============================================================================
