------------------------------ MODULE Backplane ------------------------------
(***************************************************************************)
(* The backplane: the readout of its two rails, the buzzer that follows    *)
(* the 24 V rail, and the active power source.                             *)
(*                                                                         *)
(* Voltages of the 24 V rail are steps of a scale that the thresholds of   *)
(* the buzzer divide; the 5 V rail has one step.                           *)
(***************************************************************************)
EXTENDS Naturals, EmbassyWatch

Rail == {"5V", "24V"}

\* Below THRESHOLD_EXTREME, below THRESHOLD_WARNING, a battery's, between the two thresholds
\* of external power, and above both.
Extreme == 0
Low     == 1
Battery == 2
Between == 3
Supply  == 4

VARIABLES
  voltage,       \* the rails
  gauge,         \* the INA232 of a rail: "ok", "partial" (its voltage cannot be read), "dead"
  sources,       \* the power inputs that are high
  running,       \* main has spawned the tasks
  rail,          \* OUTPUTS.rail_5v, OUTPUTS.rail_24v: the voltages
  prev,          \* prev_voltage of buzzer_task, NoVal until its loop begins
  sound,         \* what its last lap played
  announced24V,  \* history: external power was announced last
  activeSource   \* OUTPUTS.active_power_source

supply == <<voltage, gauge, sources>>
tasks  == <<rail, prev, sound, announced24V, activeSource>>
backplaneVars == <<supply, running, tasks>>

Unread == [r \in Rail |-> NoVal]

BackplaneInit ==
  /\ voltage = [r \in Rail |-> Battery] /\ gauge = [r \in Rail |-> "ok"] /\ sources = {"battery"}
  /\ running = FALSE /\ rail = Unread /\ prev = NoVal /\ sound = "startup"
  /\ announced24V = FALSE /\ activeSource = NoVal

-----------------------------------------------------------------------------
(* The surroundings.                                                       *)

VoltageChanges ==
  /\ \E v \in Extreme .. Supply : v # voltage["24V"] /\ voltage' = [voltage EXCEPT !["24V"] = v]
  /\ UNCHANGED <<gauge, sources, running, tasks>>

GaugeChanges(r) ==
  /\ \E g \in {"ok", "partial", "dead"} : g # gauge[r] /\ gauge' = [gauge EXCEPT ![r] = g]
  /\ UNCHANGED <<voltage, sources, running, tasks>>

SourceChanges ==
  /\ \E s \in SUBSET {"battery", "external"} : s # sources /\ sources' = s
  /\ UNCHANGED <<voltage, gauge, running, tasks>>

-----------------------------------------------------------------------------
(* The board.                                                              *)

\* main: both gauges are initialised before any task is spawned; one that does not answer is a
\* panic, and without defmt (panic_reset, the clean release of ARCHITECTURE.md) the board starts again.
BackplaneBoots ==
  /\ ~running /\ \A r \in Rail : gauge[r] # "dead"
  /\ running' = TRUE /\ UNCHANGED <<supply, tasks>>

\* ResetAll, ResetSpecific
BackplaneResets ==
  /\ running /\ running' = FALSE
  /\ rail' = Unread /\ prev' = NoVal /\ sound' = "startup" /\ announced24V' = FALSE /\ activeSource' = NoVal
  /\ UNCHANGED supply

\* sensor_readout_5v_task, sensor_readout_24v_task: three registers; what could not be read is
\* 0, unless none could: then nothing is sent.
ReadRail(r) ==
  /\ running /\ gauge[r] # "dead"
  /\ rail' = [rail EXCEPT ![r] = IF gauge[r] = "partial" THEN Extreme ELSE voltage[r]]
  /\ UNCHANGED <<supply, running, prev, sound, announced24V, activeSource>>

\* Mutant: external power is announced only when the voltage crosses the threshold.
PlayCrossing(v, before) ==
  CASE v >= Supply /\ before # NoVal /\ before < Supply -> "connect"
    [] v < Between /\ before # NoVal /\ before >= Between -> "disconnect"
    [] v = Extreme -> "extreme"
    [] v = Low -> "warning"
    [] OTHER -> "quiet"

\* The sequence for a voltage after the one before, NoVal in the first lap.
Play(v, before) ==
  CASE v >= Supply /\ (before = NoVal \/ before < Supply) -> "connect"
    [] v < Between /\ before # NoVal /\ before >= Between -> "disconnect"
    [] v = Extreme -> "extreme"
    [] v = Low -> "warning"
    [] OTHER -> "quiet"

\* A lap of buzzer_task: the latest voltage; what the rail did while a sequence played is lost.
BuzzerLap ==
  /\ running /\ rail["24V"] # NoVal
  /\ prev' = rail["24V"] /\ sound' = Play(rail["24V"], prev)
  /\ announced24V' = CASE sound' = "connect" -> TRUE [] sound' = "disconnect" -> FALSE [] OTHER -> announced24V
  /\ UNCHANGED <<supply, running, rail, activeSource>>

\* active_power_source_task
ReadSources ==
  /\ running
  /\ activeSource' = CASE "external" \in sources -> "external"
                       [] "battery" \in sources -> "battery"
                       [] OTHER -> "none"
  /\ UNCHANGED <<supply, running, rail, prev, sound, announced24V>>

BackplaneNext ==
  \/ VoltageChanges \/ SourceChanges \/ \E r \in Rail : GaugeChanges(r) \/ ReadRail(r)
  \/ BackplaneBoots \/ BackplaneResets \/ BuzzerLap \/ ReadSources

-----------------------------------------------------------------------------
(* Properties.                                                             *)

\* Where the buzzer and the power source come to rest once nothing changes any more around a
\* board that is up: the battery's last volts are warned of for as long as they last, and whether
\* external power was announced last is as the rail is, whatever it did while the buzzer played.
PowerSettled ==
  running =>
    /\ gauge["24V"] # "dead" =>
         LET v == IF gauge["24V"] = "ok" THEN voltage["24V"] ELSE Extreme IN
           /\ rail["24V"] = v /\ sound = (CASE v = Extreme -> "extreme" [] v = Low -> "warning" [] OTHER -> "quiet")
           /\ (v >= Supply => announced24V) /\ (v < Between => ~announced24V)
    /\ activeSource = CASE "external" \in sources -> "external" [] sources = {} -> "none" [] OTHER -> "battery"

backplaneInputs == <<supply, running>>
=============================================================================
