------------------------- MODULE MCRecoveryServos ---------------------------
(* Model checking of RecoveryServos.                                       *)
EXTENDS RecoveryServos

MCMaxTriggers == [separation |-> 1, deployment |-> 2]
=============================================================================
