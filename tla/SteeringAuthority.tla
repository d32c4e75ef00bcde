-------------------------- MODULE SteeringAuthority --------------------------
(***************************************************************************)
(* What the watchdog of the recovery board promises about the parachute:   *)
(* there is one holder of the steering.  Ground holds it first and may     *)
(* command either motor to a position it asked for; the safety spiral      *)
(* takes it over once, and from then on commands nothing but the spiral.   *)
(* Only a reset of the board, which starts a new behaviour, gives the      *)
(* steering back.                                                          *)
(***************************************************************************)
EXTENDS Integers

CONSTANTS Side, Asked, Spiral
VARIABLES holder, commanded

authorityVars == <<holder, commanded>>

Init == holder = "ground" /\ commanded = [s \in Side |-> 0]

Command(s, p) == commanded' = [commanded EXCEPT ![s] = p[s]]

GroundSteers ==
  /\ holder = "ground"
  /\ \E s \in Side, p \in Asked : Command(s, p)
  /\ UNCHANGED holder

TakeOver == holder = "ground" /\ holder' = "spiral" /\ UNCHANGED commanded

SpiralSteers ==
  /\ holder = "spiral"
  /\ \E s \in Side : Command(s, Spiral)
  /\ UNCHANGED holder

Next == GroundSteers \/ TakeOver \/ SpiralSteers

Spec == Init /\ [][Next]_authorityVars
=============================================================================
