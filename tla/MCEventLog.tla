------------------------------ MODULE MCEventLog ------------------------------
(***************************************************************************)
(* The instance of EventLog that TLC checks: two events of one charger in  *)
(* the current month, one with a stamp of a month that retention deletes.  *)
(***************************************************************************)
EXTENDS EventLog, TLC

CONSTANTS e1, e2, e3, current, old

FileOfEvent == (e1 :> current) @@ (e2 :> current) @@ (e3 :> old)
=============================================================================
