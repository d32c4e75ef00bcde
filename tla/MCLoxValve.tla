----------------------------- MODULE MCLoxValve -----------------------------
(* Model checking of LoxValve.                                             *)
EXTENDS LoxValve

MCRest == {0, 2}
=============================================================================
