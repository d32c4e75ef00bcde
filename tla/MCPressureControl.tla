------------------------- MODULE MCPressureControl -------------------------
(* A pressure control board, for TLC: its regulator, and the loops that    *)
(* broadcast its fields.  Two specifications that share nothing, of which  *)
(* a behaviour runs one.                                                   *)
EXTENDS PressureControl, MCBroadcastLoop

VARIABLE part    \* the specification that runs

BoardInit ==
    /\ part \in {"regulator", "fields"} /\ Init /\ LoopInit
    /\ part = "fields" => tank = 0

RegulatorStep(A) == part = "regulator" /\ A /\ UNCHANGED <<part, broadcastVars>>
FieldsStep(A)    == part = "fields" /\ A /\ UNCHANGED <<part, vars>>

BoardNext == RegulatorStep(Next) \/ FieldsStep(LoopNext)

\* The fairness of each module, while it is the one that runs.
BoardFairness ==
    /\ WF_vars(part = "regulator" /\ TankChanges)
    /\ WF_vars(part = "regulator" /\ Calibrate) /\ WF_vars(part = "regulator" /\ Acquire)
    /\ WF_vars(part = "regulator" /\ Lap)
    /\ WF_vars(part = "regulator" /\ BoardStatus) /\ WF_vars(part = "regulator" /\ Sound)
    /\ WF_broadcastVars(part = "fields" /\ Tick)
    /\ \A f \in Loop :
          /\ WF_broadcastVars(part = "fields" /\ LoopLap(f))
          /\ SF_broadcastVars(part = "fields" /\ Sent(f))

BoardSpec == BoardInit /\ [][BoardNext]_<<part, vars, broadcastVars>> /\ BoardFairness
=============================================================================
