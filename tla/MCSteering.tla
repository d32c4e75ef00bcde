----------------------------- MODULE MCSteering -----------------------------
(***************************************************************************)
(* Steering on a small instance: one position of ground, the safety spiral *)
(* with a different position on each side, and timers of a few ticks.      *)
(***************************************************************************)
EXTENDS Steering

MCTargets == {[s \in Side |-> IF s = "left" THEN 1 ELSE 2]}
MCSpiral == [s \in Side |-> IF s = "left" THEN -3 ELSE 4]
=============================================================================
