--------------------------- MODULE PressureControl ---------------------------
(***************************************************************************)
(* The pressure regulation of the fuel and the oxidizer control board: the *)
(* acquisition reduces two redundant tank sensors to one control pressure, *)
(* the DPR loop opens and closes the valve that lets pressurant into the   *)
(* tank, the status task reports and sounds the alarm.  The tasks share    *)
(* Watches only, and each lap below awaits nothing before its last line.   *)
(*                                                                         *)
(* Pressures are steps of a scale.  The tank rises while the valve is open *)
(* and falls otherwise, by at most one step in the time that acquisition   *)
(* (600 Hz) and loop (1.6 ms) need for one lap each.                       *)
(***************************************************************************)
EXTENDS Integers, FiniteSets, EmbassyWatch

CONSTANTS
  MaxTank,       \* the highest tank pressure
  Top,           \* the highest pressure a sensor can tell
  SafetyLimit,   \* SAFETY_LIMIT_BARG
  Setpoints,     \* the setpoints of Enabled commands
  Disabled,      \* the command Disabled
  Under, Nan, Over, Inf,  \* readings that are not finite, and the control pressure of none
  Stuck,         \* a sensor that shows no pressure though there is some
  Faults,        \* how a sensor may fail
  MaxFaults      \* how many sensors may be out of order at once

ASSUME PressureAssumption ==
  /\ MaxTank \in Nat /\ Top \in 1..MaxTank /\ SafetyLimit \in 1..(Top - 1)
  /\ Setpoints \subseteq 0..Top
  /\ Faults \subseteq {Under, Nan, Over, Stuck} /\ MaxFaults \in 0..3

TankSensor == {"tank1", "tank2"}
Sensor  == TankSensor \cup {"line"}
Finite  == 0..Top
Command == Setpoints \cup {Disabled}

\* What is no pressure differs from every pressure, and an overflow from the
\* other readings that are not finite.
ASSUME ReadingAssumption ==
  /\ {NoVal, Disabled, Under, Nan, Over, Inf} \cap Finite = {}
  /\ NoVal \notin {Disabled, Inf} /\ Over \notin {Under, Nan, Stuck}
  /\ "ok" \notin Faults \cup {Stuck}

VARIABLES
  tank,          \* the pressure in the tank
  sensor,        \* each sensor: "ok" or how it failed
  due,           \* what has to run before the tank moves on
  calibrated,    \* fuel_pressure_acquisition has measured its reference
  sample, bus,   \* STATE.dpr_pressure, STATE.pressure_bus_status
  control,       \* STATE.dpr_control_loop
  loop, setpoint, pressure,  \* DPR: loop_state, pid.setpoint, pressure
  valve,         \* DPR: valve_pin is high, the valve open
  info,          \* STATE.dpr_info
  report,        \* the status task: dpr_status and pressure_status
  buzzer, alarm  \* STATE.buzzer and what it sounds

plant  == <<tank, sensor, due, calibrated>>
dpr    == <<loop, setpoint, pressure, valve>>
status == <<report, buzzer, alarm>>
vars == <<plant, sample, bus, control, dpr, info, status>>

NoReport == [loop |-> "passive", bus |-> "online"]

Init ==
  /\ tank \in Finite /\ sensor = [s \in Sensor |-> "ok"] /\ due = "acquire"
  /\ calibrated = FALSE
  /\ sample = EmptyWatch /\ bus = EmptyWatch /\ control = EmptyWatch
  /\ loop = "passive" /\ setpoint = 0 /\ pressure = 0 /\ valve = FALSE
  /\ info = EmptyWatch
  /\ report = NoReport
  /\ buzzer = EmptyWatch /\ alarm = FALSE

-----------------------------------------------------------------------------
(* The tank and its sensors.                                               *)

\* A new step begins: acquisition and loop have run since the last one.
TankChanges ==
  /\ due = "tick" /\ due' = "acquire"
  /\ tank' = IF valve THEN tank + 1 ELSE tank - 1
  /\ tank' \in 0..MaxTank
  /\ UNCHANGED <<sensor, calibrated, sample, bus, control, dpr, info, status>>

\* No flow, or as much in as out.
TankHolds ==
  /\ due = "tick" /\ due' = "acquire"
  /\ ~valve \/ tank = MaxTank
  /\ UNCHANGED <<tank, sensor, calibrated, sample, bus, control, dpr, info, status>>

SensorFails(s) ==
  /\ sensor[s] = "ok" /\ Cardinality({x \in Sensor : sensor[x] # "ok"}) < MaxFaults
  /\ \E f \in Faults : sensor' = [sensor EXCEPT ![s] = f]
  /\ UNCHANGED <<tank, due, calibrated, sample, bus, control, dpr, info, status>>

SensorRecovers(s) ==
  /\ sensor[s] # "ok"
  /\ sensor' = [sensor EXCEPT ![s] = "ok"]
  /\ UNCHANGED <<tank, due, calibrated, sample, bus, control, dpr, info, status>>

-----------------------------------------------------------------------------
(* Acquisition.                                                            *)

\* read_pressure: above its range the sensor saturates the ADC, whose full
\* scale of 2.9 V lies below the overflow threshold.
Reading(s) ==
  CASE sensor[s] = "ok" -> IF tank > Top THEN Nan ELSE tank
    [] sensor[s] = Stuck -> 0
    [] OTHER -> sensor[s]

\* Mutant: the lower of the two sensors is taken.
ReduceLow(p, q) ==
  LET finite == {x \in {p, q} : x \in Finite} IN
  IF Over \in {p, q} \/ finite = {} THEN Inf
  ELSE CHOOSE x \in finite : \A y \in finite : x <= y

\* get_filtered_tank_p, get_control_pressure: the higher sensor, or the one
\* that works; infinity when a sensor overflows or none works.
Reduce(p, q) ==
  LET finite == {x \in {p, q} : x \in Finite} IN
  IF Over \in {p, q} \/ finite = {} THEN Inf
  ELSE CHOOSE x \in finite : \A y \in finite : x >= y

\* has_error: any of the three is not finite.
BusStatus ==
  IF \A s \in Sensor : Reading(s) \in Finite THEN "online" ELSE "offline"

\* 50 conversions of the reference, a score of laps, before the first sample.
Calibrate ==
  /\ ~calibrated /\ calibrated' = TRUE
  /\ UNCHANGED <<tank, sensor, due, sample, bus, control, dpr, info, status>>

Acquire ==
  /\ calibrated
  /\ sample' = Send(Reduce(Reading("tank1"), Reading("tank2")))
  /\ bus' = Send(BusStatus)
  /\ due' = IF due = "acquire" \/ sample.val = NoVal THEN "lap" ELSE due
  /\ UNCHANGED <<tank, sensor, calibrated, control, dpr, info, status>>

-----------------------------------------------------------------------------
(* The DPR loop: pid_controller.                                           *)

\* update_state
CommandedState ==
  IF ~control.new THEN loop ELSE IF control.val = Disabled THEN "passive" ELSE "nominal"

CommandedSetpoint ==
  IF control.new /\ control.val # Disabled THEN control.val ELSE setpoint

\* update_pressure: a reading that is not finite is dropped.
KnownPressure == IF sample.new /\ sample.val \in Finite THEN sample.val ELSE pressure

\* Mutant: the limit is only looked at while the loop was nominal before.
LimitedLate(state, p) ==
  CASE loop = "nominal" /\ p > SafetyLimit -> "overpressure"
    [] state = "overpressure" /\ p < SafetyLimit -> "nominal"
    [] OTHER -> state

\* handle_overpressure: at the limit itself the state stays.
Limited(state, p) ==
  CASE state = "nominal" /\ p > SafetyLimit -> "overpressure"
    [] state = "overpressure" /\ p < SafetyLimit -> "nominal"
    [] OTHER -> state

\* Mutant: the valve stays shut one step below the setpoint.
BangEarly(state, p, s) == state = "nominal" /\ p < s - 1

\* step_bang
Bang(state, p, s) == state = "nominal" /\ p < s

\* status_sender: after every command and every change of the state.
Announced(state) == control.new \/ state # loop

Lap ==
  /\ pressure' = KnownPressure
  /\ setpoint' = CommandedSetpoint
  /\ loop' = Limited(CommandedState, pressure')
  /\ valve' = Bang(loop', pressure', setpoint')
  /\ info' = IF Announced(loop') THEN Send(loop') ELSE info
  /\ control' = Seen(control) /\ sample' = Seen(sample)
  /\ due' = IF due = "lap" \/ ~calibrated THEN "tick" ELSE due
  /\ UNCHANGED <<tank, sensor, calibrated, bus, status>>

-----------------------------------------------------------------------------
(* CAN and status.                                                         *)

\* can_rx_task: a command of the flight computer or of the ground segment.
Receive(c) ==
  /\ control' = Send(c)
  /\ UNCHANGED <<plant, sample, bus, dpr, info, status>>

\* ResetAll, ResetSpecific: the pins are low while the board restarts.
Reset ==
  /\ due' = "acquire" /\ calibrated' = FALSE /\ UNCHANGED <<tank, sensor>>
  /\ sample' = EmptyWatch /\ bus' = EmptyWatch /\ control' = EmptyWatch
  /\ loop' = "passive" /\ setpoint' = 0 /\ pressure' = 0 /\ valve' = FALSE
  /\ info' = EmptyWatch /\ report' = NoReport
  /\ buzzer' = EmptyWatch /\ alarm' = FALSE

\* Mutant: the alarm stays on once it was raised.
AlarmForLatched(state) == IF state = "overpressure" \/ buzzer.val = "error" THEN "error" ELSE "idle"

AlarmFor(state) == IF state = "overpressure" THEN "error" ELSE "idle"

\* board_status_update_task, once per second.
BoardStatus ==
  /\ report' = [loop |-> IF info.new THEN info.val ELSE report.loop,
                bus  |-> IF bus.new THEN bus.val ELSE report.bus]
  /\ buzzer' = IF info.new THEN Send(AlarmFor(info.val)) ELSE buzzer
  /\ info' = Seen(info) /\ bus' = Seen(bus)
  /\ UNCHANGED <<plant, sample, control, dpr, alarm>>

\* buzzer_task, every 500 ms.
Sound ==
  /\ buzzer.val # NoVal
  /\ alarm' = (buzzer.val = "error")
  /\ UNCHANGED <<plant, sample, bus, control, dpr, info, report, buzzer>>

-----------------------------------------------------------------------------
Next ==
  \/ TankChanges \/ TankHolds
  \/ \E s \in Sensor : SensorFails(s) \/ SensorRecovers(s)
  \/ Calibrate \/ Acquire \/ Lap
  \/ \E c \in Command : Receive(c)
  \/ Reset \/ BoardStatus \/ Sound

Fairness ==
  /\ WF_vars(TankChanges)
  /\ WF_vars(Calibrate) /\ WF_vars(Acquire) /\ WF_vars(Lap) /\ WF_vars(BoardStatus) /\ WF_vars(Sound)

Spec == Init /\ [][Next]_vars
FairSpec == Spec /\ Fairness

-----------------------------------------------------------------------------
(* Properties.                                                             *)

\* The tank rises only from below the setpoint and never from above the
\* safety limit, whatever is commanded and when, while at most one of the
\* redundant sensors drops out or shows too little: the decision to open (Bang) rests on the
\* pressure the tank really has, once there is a first sample.
RisesOnlyBelow ==
  [][tank' > tank /\ sample.val # NoVal => tank < setpoint /\ tank <= SafetyLimit]_vars

\* The valve is open for a command only: once the loop has seen that the
\* newest one disables it, or that there is none, the valve is shut; and a
\* command that enables the loop above the limit does not open it for a lap.
OpenOnlyAsCommanded ==
  valve => /\ control.val # NoVal
           /\ control.new \/ control.val = setpoint
           /\ pressure <= SafetyLimit

\* A setpoint below the limit is reached, again and again, for as long as it
\* stands.
Regulates ==
  \A s \in {x \in Setpoints : x <= SafetyLimit} :
    <>[](control.val = s) => []<>(tank >= s)

\* An overpressure that lasts is heard, and the alarm ends with it.
AlarmFollows ==
  /\ <>[](loop = "overpressure") => <>[]alarm
  /\ <>[](loop # "overpressure") => <>[]~alarm

\* A sensor that stays without a reading is reported by a board that stays up:
\* one of the two may fail without any other effect.
FaultReported ==
  <>[](calibrated /\ \E s \in Sensor : sensor[s] \notin {"ok", Stuck}) => <>[](report.bus = "offline")

\* What is wrong with the tank or with the sensors is made known: both of the above.
FaultsMadeKnown == AlarmFollows /\ FaultReported
=============================================================================
