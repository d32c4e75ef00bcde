----------------------- MODULE PressureControl_proofs -----------------------
(***************************************************************************)
(* Proofs about PressureControl: when the valve is open, for every scale,  *)
(* every limit and every set of setpoints; and, when at most one sensor is *)
(* out of order at a time and none overflows, that the tank rises only     *)
(* below setpoint and limit.                                               *)
(***************************************************************************)
EXTENDS PressureControl, FiniteSetTheorems, TLAPS

-----------------------------------------------------------------------------
(* The valve follows the command.                                          *)

\* The state and the setpoint of the loop are those of a command that was
\* sent, the newest one unless the loop has not looked at it yet; the valve is
\* the decision of the last lap.
CommandInv ==
  /\ control \in [val : Command \cup {NoVal}, new : BOOLEAN]
  /\ control.new => control.val # NoVal
  /\ loop # "passive" => control.val # NoVal /\ (control.new \/ control.val = setpoint)
  /\ pressure \in Nat /\ setpoint \in Nat
  /\ valve => loop = "nominal" /\ pressure < setpoint /\ pressure <= SafetyLimit

LEMMA Values ==
  /\ NoVal \notin Command /\ Setpoints \subseteq Nat /\ Finite \subseteq Nat
  /\ SafetyLimit \in Nat /\ Disabled \notin Setpoints
<1>1. Top \in Nat /\ SafetyLimit \in Nat
  BY PressureAssumption
<1>2. Finite \subseteq Nat /\ Setpoints \subseteq Finite
  BY <1>1, PressureAssumption DEF Finite
<1>3. NoVal \notin Finite /\ Disabled \notin Finite /\ NoVal # Disabled
  BY ReadingAssumption
<1> QED
  BY <1>1, <1>2, <1>3 DEF Command

LEMMA InitCommand == Init => CommandInv
BY DEF Init, CommandInv, EmptyWatch

\* A lap of the loop decides by what it takes from the Watches in that lap.
LEMMA LapCommand == CommandInv /\ Lap => CommandInv'
<1> SUFFICES ASSUME CommandInv, Lap
             PROVE  CommandInv'
  OBVIOUS
<1> USE DEF CommandInv
<1>1. control' = [val |-> control.val, new |-> FALSE]
  BY DEF Lap, Seen
<1>2. pressure' \in Nat
  BY Values DEF Lap, KnownPressure
<1>3. setpoint' \in Nat
  BY Values DEF Lap, CommandedSetpoint, Command
<1>4. ASSUME loop' # "passive"
      PROVE  control.val # NoVal /\ control.val = setpoint'
  <2>1. CommandedState # "passive"
    BY <1>4 DEF Lap, Limited
  <2> QED
    BY <2>1 DEF Lap, CommandedState, CommandedSetpoint
<1>5. ASSUME valve'
      PROVE  loop' = "nominal" /\ pressure' < setpoint' /\ pressure' <= SafetyLimit
  <2>1. loop' = "nominal" /\ pressure' < setpoint'
    BY <1>5 DEF Lap, Bang
  <2>2. ~(pressure' > SafetyLimit)
    BY <2>1, <1>2, Values DEF Lap, Limited
  <2> QED
    BY <2>1, <2>2, <1>2, Values
<1> QED
  BY <1>1, <1>2, <1>3, <1>4, <1>5

LEMMA CommandStep == CommandInv /\ [Next]_vars => CommandInv'
<1> SUFFICES ASSUME CommandInv, [Next]_vars
             PROVE  CommandInv'
  OBVIOUS
<1>1. CASE Lap
  BY <1>1, LapCommand
<1>2. ASSUME NEW c \in Command, Receive(c)
      PROVE  CommandInv'
  BY <1>2, Values DEF Receive, Send, dpr, CommandInv
<1>3. CASE Reset
  BY <1>3 DEF Reset, EmptyWatch, CommandInv
<1>4. CASE UNCHANGED <<control, dpr>>
  BY <1>4 DEF dpr, CommandInv
<1>5. ASSUME NEW s \in Sensor, SensorFails(s) \/ SensorRecovers(s)
      PROVE  CommandInv'
  BY <1>5, <1>4 DEF SensorFails, SensorRecovers
<1>6. CASE TankChanges \/ TankHolds \/ Calibrate \/ Acquire \/ BoardStatus \/ Sound
  BY <1>6, <1>4 DEF TankChanges, TankHolds, Calibrate, Acquire, BoardStatus, Sound
<1>7. CASE UNCHANGED vars
  BY <1>7, <1>4 DEF vars
<1> QED
  BY <1>1, <1>2, <1>3, <1>5, <1>6, <1>7 DEF Next

\* The valve is open for a command only, and never above the limit, whatever
\* the sensors show: the loop looks at its command, the pressure and the limit
\* before it decides (pid_controller, handle_overpressure, step_bang).
THEOREM OpensForCommand == Spec => []OpenOnlyAsCommanded
<1>1. CommandInv => OpenOnlyAsCommanded
  BY DEF CommandInv, OpenOnlyAsCommanded
<1> QED
  BY <1>1, InitCommand, CommandStep, PTL DEF Spec

-----------------------------------------------------------------------------
(* The valve follows the tank.                                             *)

\* Of the sensors at most one is out of order.
FaultInv ==
  /\ sensor \in [Sensor -> Faults \cup {"ok"}]
  /\ \A s, t \in Sensor : sensor[s] # "ok" /\ sensor[t] # "ok" => s = t

\* How far a pressure has got on its way from the tank to the decision.
SampleInv ==
  /\ tank \in Finite /\ due \in {"acquire", "lap", "tick"}
  /\ calibrated \in BOOLEAN
  /\ sample \in [val : Finite \cup {NoVal}, new : BOOLEAN]
  /\ ~calibrated => sample.val = NoVal
  /\ due = "lap" => sample.new /\ sample.val = tank
  /\ due = "tick" /\ sample.val # NoVal =>
       pressure = tank /\ (sample.new => sample.val = tank)

\* What is assumed of the sensors: one may stop reading or show too little, but
\* none overflows, and the scale of the sensors covers the tank.
OneSensorAtMost == MaxFaults <= 1 /\ Over \notin Faults /\ MaxTank = Top

LEMMA InitSample == Init => FaultInv /\ SampleInv
<1> SUFFICES ASSUME Init
             PROVE  FaultInv /\ SampleInv
  OBVIOUS
<1>1. FaultInv
  BY DEF Init, FaultInv
<1>2. SampleInv
  BY DEF Init, SampleInv, EmptyWatch
<1> QED
  BY <1>1, <1>2

LEMMA FaultStep ==
  OneSensorAtMost /\ FaultInv /\ [Next]_vars => FaultInv'
<1> SUFFICES ASSUME OneSensorAtMost, FaultInv, [Next]_vars
             PROVE  FaultInv'
  OBVIOUS
<1>1. ASSUME NEW s \in Sensor, SensorFails(s)
      PROVE  FaultInv'
  <2> DEFINE Failed == {x \in Sensor : sensor[x] # "ok"}
  <2>1. IsFiniteSet(Failed)
    <3>1. Sensor = {"tank1"} \cup {"tank2"} \cup {"line"}
      BY DEF Sensor, TankSensor
    <3>2. IsFiniteSet(Sensor)
      BY <3>1, FS_Singleton, FS_AddElement
    <3> QED
      BY <3>2, FS_Subset
  <2>2. Cardinality(Failed) = 0
    <3>1. Cardinality(Failed) < MaxFaults /\ MaxFaults \in 0..3 /\ MaxFaults <= 1
      BY <1>1, PressureAssumption DEF SensorFails, OneSensorAtMost
    <3>2. Cardinality(Failed) \in Nat
      BY <2>1, FS_CardinalityType
    <3> HIDE DEF Failed
    <3> QED
      BY <3>1, <3>2
  <2>3. Failed = {}
    BY <2>1, <2>2, FS_EmptySet
  <2>4. \A x \in Sensor : sensor[x] = "ok"
    BY <2>3
  <2>5. PICK f \in Faults : sensor' = [sensor EXCEPT ![s] = f]
    BY <1>1 DEF SensorFails
  <2> QED
    BY <2>4, <2>5 DEF FaultInv
<1>2. ASSUME NEW s \in Sensor, SensorRecovers(s)
      PROVE  FaultInv'
  BY <1>2 DEF SensorRecovers, FaultInv
<1>3. CASE UNCHANGED sensor
  BY <1>3 DEF FaultInv
<1>4. CASE TankChanges \/ TankHolds \/ Calibrate \/ Acquire \/ Lap \/ Reset \/ BoardStatus \/ Sound
  BY <1>3, <1>4 DEF TankChanges, TankHolds, Calibrate, Acquire, Lap, Reset, BoardStatus, Sound, plant
<1>5. ASSUME NEW c \in Command, Receive(c)
      PROVE  FaultInv'
  BY <1>3, <1>5 DEF Receive, plant
<1>6. CASE UNCHANGED vars
  BY <1>3, <1>6 DEF vars, plant
<1> QED
  BY <1>1, <1>2, <1>4, <1>5, <1>6 DEF Next

\* One sensor that works is enough: the reduction yields the tank's pressure,
\* for a sensor out of order is dropped or shows less.
LEMMA ReducedIsTank ==
  ASSUME OneSensorAtMost, FaultInv, tank \in Finite
  PROVE  Reduce(Reading("tank1"), Reading("tank2")) = tank
<1> DEFINE p == Reading("tank1")
           q == Reading("tank2")
           finite == {x \in {p, q} : x \in Finite}
<1>1. tank \in Nat /\ 0 \in Finite /\ Finite \subseteq Nat /\ ~(tank > Top)
  BY PressureAssumption DEF Finite
<1>2. \A s \in {"tank1", "tank2"} :
        /\ sensor[s] = "ok" => Reading(s) = tank
        /\ Reading(s) # Over /\ (Reading(s) \in Finite => Reading(s) \in {0, tank})
  <2> TAKE s \in {"tank1", "tank2"}
  <2>1. sensor[s] \in Faults \cup {"ok"}
    BY DEF FaultInv, Sensor, TankSensor
  <2>2. CASE sensor[s] = "ok"
    <3>1. Reading(s) = tank
      BY <2>2, <1>1, ReadingAssumption DEF Reading
    <3> QED
      BY <3>1, ReadingAssumption
  <2>3. CASE sensor[s] = Stuck
    <3>1. Reading(s) = 0
      BY <2>3, ReadingAssumption DEF Reading
    <3> QED
      BY <3>1, <2>3, <1>1, ReadingAssumption
  <2>4. CASE sensor[s] # "ok" /\ sensor[s] # Stuck
    <3>1. Reading(s) = sensor[s]
      BY <2>4 DEF Reading
    <3> QED
      BY <3>1, <2>1, <2>4, PressureAssumption, ReadingAssumption DEF OneSensorAtMost
  <2> QED
    BY <2>2, <2>3, <2>4
<1>3. sensor["tank1"] = "ok" \/ sensor["tank2"] = "ok"
  BY DEF FaultInv, Sensor, TankSensor
<1>4. tank \in finite /\ finite \subseteq {0, tank} /\ Over \notin {p, q}
  BY <1>2, <1>3
<1> HIDE DEF p, q
<1>5. Reduce(p, q) = CHOOSE x \in finite : \A y \in finite : x >= y
  BY <1>4 DEF Reduce
<1>6. \A x \in finite : (\A y \in finite : x >= y) => x = tank
  BY <1>1, <1>4
<1>7. \A y \in finite : tank >= y
  BY <1>1, <1>4
<1>8. Reduce(p, q) = tank
  BY <1>4, <1>5, <1>6, <1>7
<1> QED
  BY <1>8 DEF p, q

\* Between two movements of the tank its pressure is taken, and then decided upon.
LEMMA SampleStep ==
  OneSensorAtMost /\ FaultInv /\ SampleInv /\ CommandInv /\ [Next]_vars => SampleInv'
<1> SUFFICES ASSUME OneSensorAtMost, FaultInv, SampleInv, CommandInv, [Next]_vars
             PROVE  SampleInv'
  OBVIOUS
<1>1. NoVal \notin Finite
  BY ReadingAssumption
<1>2. CASE TankChanges \/ TankHolds
  <2>1. tank' \in Finite /\ due' = "acquire" /\ UNCHANGED <<calibrated, sample, pressure>>
    BY <1>2 DEF TankChanges, TankHolds, OneSensorAtMost, Finite, SampleInv, dpr
  <2> QED
    BY <2>1 DEF SampleInv
<1>3. CASE Acquire
  <2>1. sample' = [val |-> tank, new |-> TRUE]
    BY <1>3, ReducedIsTank DEF Acquire, Send, SampleInv
  <2>2. calibrated /\ UNCHANGED <<tank, calibrated, pressure>>
    BY <1>3 DEF Acquire, dpr
  <2>3. due' \in {"acquire", "lap", "tick"} /\ (due' = "tick" => due = "tick" /\ sample.val # NoVal)
    BY <1>3 DEF Acquire, SampleInv
  <2>4. tank \in Finite
    BY DEF SampleInv
  <2>5. due' = "tick" => pressure = tank
    BY <2>3 DEF SampleInv
  <2> QED
    BY <2>1, <2>2, <2>3, <2>4, <2>5 DEF SampleInv
<1>4. CASE Lap
  <2>1. sample' = [val |-> sample.val, new |-> FALSE]
    BY <1>4 DEF Lap, Seen, SampleInv
  <2>2. UNCHANGED <<tank, calibrated>> /\ due' \in {due, "tick"}
    BY <1>4 DEF Lap
  <2>3. ASSUME due' = "tick", sample.val # NoVal
        PROVE  pressure' = tank
    <3>1. due \in {"lap", "tick"} /\ (sample.new => sample.val = tank)
      BY <1>4, <2>3 DEF Lap, SampleInv
    <3>2. pressure' = IF sample.new THEN tank ELSE pressure
      BY <1>4, <3>1 DEF Lap, KnownPressure, SampleInv
    <3> QED
      BY <3>1, <3>2, <2>3 DEF SampleInv
  <2>4. due' # "lap"
    BY <1>4 DEF Lap, SampleInv
  <2> QED
    BY <2>1, <2>2, <2>3, <2>4 DEF SampleInv
<1>5. CASE Calibrate
  BY <1>5 DEF Calibrate, SampleInv, dpr
<1>6. CASE Reset
  BY <1>6 DEF Reset, EmptyWatch, SampleInv
<1>7. CASE UNCHANGED <<tank, due, calibrated, sample, pressure>>
  BY <1>7 DEF SampleInv
<1>8. CASE BoardStatus \/ Sound
  BY <1>7, <1>8 DEF BoardStatus, Sound, plant, dpr
<1>9. ASSUME NEW s \in Sensor, SensorFails(s) \/ SensorRecovers(s)
      PROVE  SampleInv'
  BY <1>7, <1>9 DEF SensorFails, SensorRecovers, dpr
<1>10. ASSUME NEW c \in Command, Receive(c)
       PROVE  SampleInv'
  BY <1>7, <1>10 DEF Receive, plant, dpr
<1>11. CASE UNCHANGED vars
  BY <1>7, <1>11 DEF vars, plant, dpr
<1> QED
  BY <1>2, <1>3, <1>4, <1>5, <1>6, <1>8, <1>9, <1>10, <1>11 DEF Next

\* The tank rises only through the valve, and the valve is open only when the
\* pressure the loop knows, which is the tank's, is below setpoint and limit.
LEMMA RisingStep ==
  SampleInv /\ CommandInv /\ [Next]_vars =>
    [tank' > tank /\ sample.val # NoVal => tank < setpoint /\ tank <= SafetyLimit]_vars
<1> SUFFICES ASSUME SampleInv, CommandInv, [Next]_vars, tank' > tank, sample.val # NoVal
             PROVE  tank < setpoint /\ tank <= SafetyLimit
  OBVIOUS
<1>1. tank \in Nat
  BY Values DEF SampleInv
<1>2. tank' # tank
  BY <1>1
<1>3. TankChanges
  <2>1. ~(TankHolds \/ Calibrate \/ Acquire \/ Lap \/ Reset \/ BoardStatus \/ Sound)
    BY <1>2 DEF TankHolds, Calibrate, Acquire, Lap, Reset, BoardStatus, Sound, plant
  <2>2. \A s \in Sensor : ~SensorFails(s) /\ ~SensorRecovers(s)
    BY <1>2 DEF SensorFails, SensorRecovers
  <2>3. \A c \in Command : ~Receive(c)
    BY <1>2 DEF Receive, plant
  <2>4. ~UNCHANGED vars
    BY <1>2 DEF vars, plant
  <2> QED
    BY <2>1, <2>2, <2>3, <2>4 DEF Next
<1>4. due = "tick" /\ valve
  BY <1>1, <1>3 DEF TankChanges
<1> QED
  BY <1>4 DEF SampleInv, CommandInv

\* With one sensor out of order at a time, whatever is commanded and when, and
\* through every reset, the tank does not rise above setpoint and limit once
\* there is a sample (get_control_pressure with step_bang).
THEOREM RisesBelowSetpoint ==
  ASSUME OneSensorAtMost
  PROVE  Spec => RisesOnlyBelow
<1> DEFINE Inv == FaultInv /\ SampleInv /\ CommandInv
<1>1. Init => Inv
  BY InitSample, InitCommand
<1>2. Inv /\ [Next]_vars => Inv'
  BY FaultStep, SampleStep, CommandStep
<1>3. Inv /\ [Next]_vars => [tank' > tank /\ sample.val # NoVal => tank < setpoint /\ tank <= SafetyLimit]_vars
  BY RisingStep
<1> HIDE DEF Inv
<1> QED
  BY <1>1, <1>2, <1>3, PTL DEF Spec, RisesOnlyBelow
=============================================================================
