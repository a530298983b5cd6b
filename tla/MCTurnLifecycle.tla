-------------------------- MODULE MCTurnLifecycle --------------------------
(***************************************************************************)
(* Instances of TurnLifecycle for TLC.  Two pages and two operations let   *)
(* one operation hold the application while the other is refused or waits. *)
(***************************************************************************)
EXTENDS TurnLifecycle

CONSTANTS p1, p2, o1, o2

TwoPages == {p1, p2}
TwoOperations == {o1, o2}

EveryFault == AllFaults
============================================================================
