-------------------------- MODULE MCBroadcastLoop ---------------------------
(***************************************************************************)
(* Two fields: one with two values, one whose filter drops one of its two. *)
(***************************************************************************)
EXTENDS BroadcastLoop, TLC

CONSTANTS f1, f2, v1, v2, none

MCLoop == {f1, f2}
MCValue == (f1 :> {v1, v2}) @@ (f2 :> {v1, none})
MCFiltered == {none}
=============================================================================
