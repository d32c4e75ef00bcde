------------------------------ MODULE MCFlight ------------------------------
(* What the boards do in flight, for TLC: the parachute steered by a ground *)
(* that may fall silent; heater, main valves and arming switch of the      *)
(* engine board; the camera; the backplane's rails.  The specifications    *)
(* share nothing, a behaviour runs one.                                    *)
EXTENDS MCSteering, EngineBoard, CameraBoard, Backplane

VARIABLE part    \* the specification that runs

\* Every pair of a cold, a mild and a hot place but two cold or two hot ones.
MCLevels == [primary |-> {"mild", "hot"}, secondary |-> {"cold", "mild"}]

MCCameras == {{}, {"button"}, {"start"}, {"start", "button"}, {"start", "stop"}}

FlightInit ==
  /\ part \in {"steering", "heat", "valves", "arming", "camera", "backplane"}
  /\ Init /\ HeatInit /\ EngineInit /\ CameraInit /\ BackplaneInit
  /\ part # "heat" => place = [c \in Channel |-> "mild"]
  /\ part # "arming" => switch
  /\ part # "camera" => features = {} /\ autoRecord

boardVars == <<heatVars, engineVars, cameraVars, backplaneVars>>
flightVars == <<part, vars, boardVars>>

SteeringStep(A) == part = "steering" /\ A /\ UNCHANGED <<part, boardVars>>
HeatStep(A)   == part = "heat" /\ A /\ UNCHANGED <<part, vars, engineVars, cameraVars, backplaneVars>>
ValvesStep(A) == part = "valves" /\ A /\ UNCHANGED <<part, vars, heatVars, cameraVars, backplaneVars>>
ArmStep(A)    == part = "arming" /\ A /\ UNCHANGED <<part, vars, heatVars, cameraVars, backplaneVars>>
CameraStep(A) == part = "camera" /\ A /\ UNCHANGED <<part, vars, heatVars, engineVars, backplaneVars>>
PowerStep(A)  == part = "backplane" /\ A /\ UNCHANGED <<part, vars, heatVars, engineVars, cameraVars>>

FlightNext ==
  \/ SteeringStep(Next)
  \/ HeatStep(HeatNext) \/ ValvesStep(ValvesNext) \/ ArmStep(ArmNext)
  \/ CameraStep(CameraNext) \/ PowerStep(BackplaneNext)

\* The tasks of every part; what is outside of a part stays as it is anyway.
FlightFairness ==
  /\ WF_vars(part = "steering" /\ PowerTask) /\ WF_vars(part = "steering" /\ SteeringLoop)
  /\ WF_vars(part = "steering" /\ Tick)
  /\ WF_heatVars(part = "heat" /\ Round) /\ WF_heatVars(part = "heat" /\ (Measures \/ Converts))
  /\ WF_heatVars(part = "heat" /\ HeatControl)
  /\ WF_engineVars(part \in {"valves", "arming"} /\ EngineBoots)
  /\ WF_engineVars(part = "valves" /\ AdcConverts) /\ WF_engineVars(part = "valves" /\ Attempt)
  /\ \A v \in Valve : WF_engineVars(part = "valves" /\ DriveValve(v))
  /\ WF_engineVars(part = "arming" /\ CheckArming) /\ WF_engineVars(part = "arming" /\ Beep)
  /\ WF_engineVars(part = "arming" /\ ReportArming)
  /\ WF_cameraVars(part = "camera" /\ (CameraBoots \/ FileCloses)) /\ WF_cameraVars(part = "camera" /\ CameraTask)
  /\ WF_backplaneVars(part = "backplane" /\ BackplaneBoots) /\ WF_backplaneVars(part = "backplane" /\ ReadRail("24V"))
  /\ WF_backplaneVars(part = "backplane" /\ BuzzerLap) /\ WF_backplaneVars(part = "backplane" /\ ReadSources)

FlightSpec == FlightInit /\ [][FlightNext]_flightVars /\ FlightFairness

\* Once nothing changes any more around a board, what it drives and shows settles: heater, main
\* valves and their currents, arming switch, camera, buzzer.
BoardsSettle ==
  <>[][UNCHANGED <<heatInputs, engineInputs, cameraInputs, backplaneInputs>>]_flightVars =>
    <>[](CASE part = "heat" -> HeaterSettled
           [] part = "valves" -> CommandsFollowed
           [] part = "arming" -> ArmingKnown
           [] part = "camera" -> CameraSettled
           [] part = "backplane" -> PowerSettled
           [] OTHER -> TRUE)
=============================================================================
