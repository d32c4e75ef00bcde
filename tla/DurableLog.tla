----------------------------- MODULE DurableLog -----------------------------
(***************************************************************************)
(* What a log file promises to the session that writes it: bytes are       *)
(* accepted in order, and what was accepted before the last completed      *)
(* flush is what can be read back after a loss of power, no byte more,     *)
(* less or other, until the next flush completes.  A byte is named by its  *)
(* place in the stream of accepted bytes.                                  *)
(***************************************************************************)
EXTENDS Integers

CONSTANTS MaxBytes, MaxRow

VARIABLES accepted, readable
vars == <<accepted, readable>>

Init == accepted \in 1..MaxBytes /\ readable = [i \in {} |-> 0]

Accept ==
  /\ accepted' \in (accepted + 1)..(accepted + MaxRow)
  /\ UNCHANGED readable

FlushCompletes ==
  /\ readable' = [i \in 1..accepted |-> i]
  /\ UNCHANGED accepted

Next == Accept \/ FlushCompletes
Spec == Init /\ [][Next]_vars
=============================================================================
