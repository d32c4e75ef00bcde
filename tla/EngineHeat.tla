----------------------------- MODULE EngineHeat -----------------------------
(***************************************************************************)
(* The engine board: two thermocouples measured in turn by one ADC, a cold *)
(* junction thermometer behind a FIFO, and the heater that follows them.   *)
(* The ADC is set up before any task is spawned: a board whose ADC does    *)
(* not answer panics, which in a build without defmt (panic_reset, the     *)
(* clean release of ARCHITECTURE.md) restarts it.  With defmt, panic_probe *)
(* stops it for good: such a board is behind none of the behaviours here.  *)
(*                                                                         *)
(* Temperatures are cold (below LOWER_TEMP_THRESHOLD), mild, or hot (above *)
(* UPPER_TEMP_THRESHOLD).  A conversion carries the channel it was made of.*)
(***************************************************************************)
EXTENDS Naturals, Sequences, EmbassyWatch

Channel == {"primary", "secondary"}
Level   == {"cold", "mild", "hot"}

CONSTANTS
  Levels,        \* the temperatures either place may have
  MaxMishaps     \* transfers and conversions that fail while the devices work

ASSUME HeatAssumption == Levels \in [Channel -> SUBSET Level] /\ MaxMishaps \in Nat

VARIABLES
  place,         \* the temperature at either thermocouple
  dead,          \* the devices that stopped to answer: "adc", "junction"
  mishaps,
  booted,        \* main has spawned the tasks
  step,          \* where thermocouple_task is
  mux,           \* register 0 of the ADC: the channel it converts
  conversion,    \* its single-shot conversion: none, running, done
  fifo,          \* cold junction FIFO: in how many rounds each measurement was made
  triggered,     \* the cold junction thermometer measures
  primary, junction, secondary,  \* what the round has read: see Reading
  mistakes,        \* error_count # 0
  temperature,   \* STATE.fss_inj_t, STATE.oss_tnk_t
  thermoStatus,  \* STATE.thermocouple_status, which the board's status repeats
  heater         \* the heating pad is switched on

world   == <<place, dead, mishaps>>
devices == <<mux, conversion, fifo, triggered>>
round   == <<primary, junction, secondary, mistakes>>
heatShown   == <<temperature, thermoStatus, heater>>
heatVars == <<world, booted, step, devices, round, heatShown>>

NoReading    == [of |-> "none", level |-> "nan"]
Idle   == [of |-> "none", level |-> "nan", state |-> "idle"]

HeatInit ==
  /\ place \in {p \in [Channel -> Level] : \A c \in Channel : p[c] \in Levels[c]} /\ dead = {} /\ mishaps = 0
  /\ booted = FALSE /\ step = "boot"
  /\ mux = "short" /\ conversion = Idle /\ fifo = <<>> /\ triggered = FALSE
  /\ primary = NoReading /\ junction = NoReading /\ secondary = NoReading /\ mistakes = FALSE
  /\ temperature = [c \in Channel |-> NoVal] /\ thermoStatus = "online"
  /\ heater = FALSE

-----------------------------------------------------------------------------
(* The surroundings.                                                       *)

\* A place changes by one level at a time.
PlaceChanges(c) ==
  /\ \E l \in Levels[c] :
        /\ "mild" \in {l, place[c]} /\ l # place[c]
        /\ place' = [place EXCEPT ![c] = l]
  /\ UNCHANGED <<dead, mishaps, booted, step, devices, round, heatShown>>

DeviceDies(d) ==
  /\ d \notin dead /\ dead' = dead \cup {d}
  /\ UNCHANGED <<place, mishaps, booted, step, devices, round, heatShown>>

\* The ADC is done: DRDY falls.  A START has begun the conversion anew.
Converts ==
  /\ conversion.state = "running" /\ "adc" \notin dead
  /\ conversion' = [of |-> mux, level |-> place[mux], state |-> "done"]
  /\ UNCHANGED <<world, booted, step, mux, fifo, triggered, round, heatShown>>

\* The measurement that was triggered enters the FIFO.
Measures ==
  /\ triggered /\ "junction" \notin dead
  /\ triggered' = FALSE /\ fifo' = Append(fifo, 0)
  /\ UNCHANGED <<world, booted, step, mux, conversion, round, heatShown>>

-----------------------------------------------------------------------------
(* The set-up and the thermocouple task.                                   *)

\* A transfer to a device, or a wait for it, fails: it is dead, or a mishap.
Fails(d) ==
  IF d \in dead THEN mishaps' = mishaps
  ELSE mishaps < MaxMishaps /\ mishaps' = mishaps + 1

Answers(d) == d \notin dead /\ UNCHANGED mishaps

\* ADSThermocouples::new: reset, registers and offset.  What main does next it does for all
\* tasks at once; a failure is unwrapped: the board panics and, without defmt, starts again.
HeatBoots ==
  /\ step = "boot" /\ "adc" \notin dead
  /\ booted' = TRUE /\ step' = "primary" /\ mux' = "short" /\ conversion' = Idle
  /\ UNCHANGED <<world, fifo, triggered, round, heatShown>>

HeatPanics ==
  /\ step = "boot" /\ Fails("adc")
  /\ UNCHANGED <<place, dead, booted, step, devices, round, heatShown>>

\* set_primary_config, set_secondary_config: register 0 is written and read back; start_sync.
Select(c, next) ==
  /\ step = c /\ Answers("adc")
  /\ mux' = c /\ conversion' = [Idle EXCEPT !.state = "running"] /\ step' = next
  /\ UNCHANGED <<place, dead, booted, fifo, triggered, round, heatShown>>

\* Any of the transfers fails: the channel may be set already, and a conversion of it begun.
SelectFails(c, next) ==
  /\ step = c /\ Fails("adc")
  /\ mux' \in IF "adc" \in dead THEN {mux} ELSE {mux, c}
  /\ mistakes' = TRUE /\ step' = next
  /\ UNCHANGED <<place, dead, booted, conversion, fifo, triggered, primary, junction, secondary, heatShown>>

\* The edge of DRDY, then read_data: the edge is used up.
Take == conversion.state = "done" /\ Answers("adc") /\ conversion' = Idle /\ UNCHANGED mistakes
Taken == [of |-> conversion.of, level |-> conversion.level]

\* The edge does not come within READ_TIME_OUT, or the transfer fails.
NotTaken == Fails("adc") /\ mistakes' = TRUE /\ UNCHANGED conversion

ReadPrimary ==
  /\ step = "wait1" /\ step' = "trigger"
  /\ \/ Take /\ primary' = Taken
     \/ NotTaken /\ primary' = NoReading
  /\ UNCHANGED <<place, dead, booted, mux, fifo, triggered, junction, secondary, heatShown>>

\* One round more; ages beyond what the mishaps explain are all alike.
Older(age) == IF age < MaxMishaps + 2 THEN age + 1 ELSE age

\* combined_temperature_read: the control register, with the bit that starts a measurement.
Trigger ==
  /\ step = "trigger"
  /\ fifo' = [i \in DOMAIN fifo |-> Older(fifo[i])]
  /\ \/ Answers("junction") /\ triggered' = TRUE /\ step' = "fifo" /\ UNCHANGED <<junction, mistakes>>
     \/ Fails("junction") /\ step' = "secondary" /\ junction' = NoReading /\ mistakes' = TRUE /\ UNCHANGED triggered
  /\ UNCHANGED <<place, dead, booted, mux, conversion, primary, secondary, heatShown>>

\* The FIFO is read at once: the oldest measurement in it, made in an earlier round if this round's is not there yet; an empty
\* FIFO has none, whatever its bytes.
ReadFifo ==
  /\ step = "fifo" /\ step' = "secondary"
  /\ \/ /\ Answers("junction") /\ UNCHANGED mistakes
        /\ IF fifo = <<>> THEN junction' = NoReading /\ UNCHANGED fifo
           ELSE junction' = [of |-> "junction", level |-> Head(fifo)] /\ fifo' = Tail(fifo)
     \/ Fails("junction") /\ junction' = NoReading /\ mistakes' = TRUE /\ UNCHANGED fifo
  /\ UNCHANGED <<place, dead, booted, mux, conversion, triggered, primary, secondary, heatShown>>

ReadSecondary ==
  /\ step = "wait2" /\ step' = "publish"
  /\ \/ Take /\ secondary' = Taken
     \/ NotTaken /\ secondary' = NoReading
  /\ UNCHANGED <<place, dead, booted, mux, fifo, triggered, primary, junction, heatShown>>

\* voltage_to_temperature: not a number as soon as one of the voltages is none.
Converted(reading) == IF NoReading \in {reading, junction} THEN NoReading ELSE reading

\* TCDriver::update and the status; then the ticker, for longer than a measurement takes.
PublishHeat ==
  /\ step = "publish" /\ step' = "primary"
  /\ triggered => "junction" \in dead
  /\ temperature' = [c \in Channel |-> Converted(IF c = "primary" THEN primary ELSE secondary)]
  /\ thermoStatus' = IF mistakes THEN "offline" ELSE "online"
  /\ primary' = NoReading /\ junction' = NoReading /\ secondary' = NoReading /\ mistakes' = FALSE
  /\ UNCHANGED <<world, booted, devices, heater>>

Round ==
  \/ HeatBoots \/ HeatPanics
  \/ Select("primary", "wait1") \/ SelectFails("primary", "trigger") \/ ReadPrimary
  \/ Trigger \/ ReadFifo
  \/ Select("secondary", "wait2") \/ SelectFails("secondary", "publish") \/ ReadSecondary
  \/ PublishHeat

-----------------------------------------------------------------------------
(* The tasks that use the temperatures.                                    *)

Shows(l) == \E c \in Channel : temperature[c].level = l

\* A comparison with not-a-number is false: without readings the heater stays as it is.
Heat == IF Shows("cold") THEN TRUE ELSE IF Shows("hot") THEN FALSE ELSE heater

\* k23_temperature_control, once a second after the first two values.
HeatControl ==
  /\ \A c \in Channel : temperature[c] # NoVal
  /\ heater' = Heat
  /\ UNCHANGED <<world, booted, step, devices, round, temperature, thermoStatus>>

\* ResetAll, ResetSpecific: can_rx_task runs once main has spawned it.  The devices are not
\* reset: between trigger and read the FIFO keeps one measurement more, as if the read had failed.
ResetEngine ==
  /\ booted
  /\ IF step = "fifo" THEN mishaps < MaxMishaps /\ mishaps' = mishaps + 1 ELSE UNCHANGED mishaps
  /\ booted' = FALSE /\ step' = "boot" /\ primary' = NoReading /\ junction' = NoReading /\ secondary' = NoReading /\ mistakes' = FALSE
  /\ temperature' = [c \in Channel |-> NoVal] /\ thermoStatus' = "online"
  /\ heater' = FALSE
  /\ UNCHANGED <<place, dead, devices>>

HeatNext ==
  \/ \E c \in Channel : PlaceChanges(c)
  \/ \E d \in {"adc", "junction"} : DeviceDies(d)
  \/ Converts \/ Measures \/ Round \/ HeatControl \/ ResetEngine

-----------------------------------------------------------------------------
(* Properties.                                                             *)

\* A thermocouple's temperature comes from a conversion of its own channel, whatever failed or
\* came late before: a wait that timed out leaves no conversion behind for the other channel.
\* And the cold junction it is reckoned with is at most one round old, and one more for each
\* transfer that failed or restart in between: what is left in the FIFO is never made up for.
MeasuredRight ==
  /\ \A c \in Channel : temperature[c] # NoVal => temperature[c].of \in {c, "none"}
  /\ junction # NoReading => junction.level <= 1 + mishaps

\* Where the heater and the status come to rest once nothing changes any more around a board
\* that is up: a place that is cold is heated, with one hot and none cold the heater is off;
\* without readings the heater stays as it was, but what is dead is reported, and what works not.
HeaterSettled ==
  booted =>
    /\ thermoStatus = IF dead = {} THEN "online" ELSE "offline"
    /\ dead = {} /\ (\E c \in Channel : place[c] = "cold") => heater
    /\ dead = {} /\ (\E c \in Channel : place[c] = "hot") /\ (\A c \in Channel : place[c] # "cold") => ~heater

heatInputs == <<place, dead, booted>>
=============================================================================
