----------------------------- MODULE BusReadout -----------------------------
(***************************************************************************)
(* The readouts of the sensors on one shared I2C bus of sensor carrier v3  *)
(* (tasks/readout/{mod,baro,dht,mag}.rs, resources/buses.rs) and their     *)
(* initialisation at startup (startup.rs).  Every bus transaction locks    *)
(* the bus for itself, so it is one step, and the transactions of the      *)
(* three tasks interleave.  A transaction that times out leaves the        *)
(* controller wedged: every later one fails until `recover` resets it.     *)
(* Delays (back-off, sample interval, conversion time) only order the      *)
(* steps of one task; they are not measured here.                          *)
(***************************************************************************)
EXTENDS Naturals, Sequences

CONSTANTS
    MaxErrors,      \* MAX_CONSECUTIVE_ERRORS
    InitAttempts,   \* MAX_INIT_ATTEMPTS
    MaxFaults       \* bound on timed-out transactions and unpluggings

Sensors == {"mag", "baro", "dht"}

VARIABLES
    task,       \* what the task of each sensor is doing
    step,       \* transactions done of the current configuration or measurement
    handle,     \* the configured driver the task was spawned with (Option<Sensor>)
    errors,     \* consecutive read errors
    status,     \* BARO_STATUS, DHT_STATUS, MAG_STATUS
    starting,   \* the sensors startup has not initialised yet, in order
    attempt,    \* attempts made on the first of them
    wedged,     \* the I2C controller timed out and was not reset
    present,    \* the sensors that answer
    faults,     \* faults that happened
    reading     \* readings submitted, modulo 2: what tells one from the next

busVars == <<task, step, handle, errors, status, starting, attempt, wedged, present, faults,
             reading>>

-----------------------------------------------------------------------------
(* Transactions                                                            *)

MagConfigure == <<"init", "continuous", "mode", "offset", "filter", "accel">>
MagMeasure == <<"field">>
Ms5607Init == <<"reset", "prom">>
Ms5607Measure == <<"convert D1", "read ADC", "convert D2", "read ADC">>
DhtConfigure == <<"reset", "measure">>
DhtMeasure == <<"measure">>

ConfigureSteps == [mag |-> MagConfigure, baro |-> Ms5607Init, dht |-> DhtConfigure]
MeasureSteps == [mag |-> MagMeasure, baro |-> Ms5607Measure, dht |-> DhtMeasure]

Answered(s) ==
    /\ s \in present /\ ~wedged
    /\ UNCHANGED <<wedged, faults>>

Refused(s) ==
    /\ s \notin present \/ wedged
    /\ UNCHANGED <<wedged, faults>>

TimedOut(s) ==
    /\ faults < MaxFaults
    /\ wedged' = TRUE
    /\ faults' = faults + 1

Failed(s) == Refused(s) \/ TimedOut(s)

Go(s, t) == task' = [task EXCEPT ![s] = t]
At(s, n) == step' = [step EXCEPT ![s] = n]

-----------------------------------------------------------------------------
(* Startup: spawn_tasks initialises one sensor after the other, then spawns *)
(* the readouts.                                                           *)

NextSensor(s, ok) ==
    /\ handle' = [handle EXCEPT ![s] = ok]
    /\ starting' = Tail(starting)
    /\ attempt' = 0
    /\ task' = IF Len(starting) = 1 THEN [t \in Sensors |-> "inactive"] ELSE task

InitAtStartup(s) ==
    /\ starting # <<>> /\ s = Head(starting)
    /\ \/ /\ Answered(s)
          /\ IF step[s] + 1 < Len(ConfigureSteps[s])
                THEN /\ At(s, step[s] + 1)
                     /\ UNCHANGED <<task, handle, starting, attempt>>
                ELSE At(s, 0) /\ NextSensor(s, TRUE)
       \/ /\ Failed(s)
          /\ At(s, 0)
          /\ IF attempt + 1 < InitAttempts
                THEN attempt' = attempt + 1 /\ UNCHANGED <<task, handle, starting>>
                ELSE NextSensor(s, FALSE)
    /\ UNCHANGED <<errors, status, present, reading>>

-----------------------------------------------------------------------------
(* A readout: Inactive::run                                                *)

Activate(s) ==
    /\ Go(s, "active")
    /\ At(s, 0)
    /\ errors' = [errors EXCEPT ![s] = 0]
    /\ status' = [status EXCEPT ![s] = "Active"]

TakeSensor(s) ==
    /\ task[s] = "inactive"
    /\ IF handle[s] THEN Activate(s)
                    ELSE Go(s, "configure") /\ At(s, 0) /\ UNCHANGED <<errors, status>>
    /\ handle' = [handle EXCEPT ![s] = FALSE]
    /\ UNCHANGED <<starting, attempt, wedged, present, faults, reading>>

Configure(s) ==
    /\ task[s] = "configure"
    /\ \/ /\ Answered(s)
          /\ IF step[s] + 1 < Len(ConfigureSteps[s])
                THEN At(s, step[s] + 1) /\ UNCHANGED <<task, errors, status>>
                ELSE Activate(s)
       \/ /\ Failed(s)
          /\ Go(s, "recover")
          /\ At(s, 0)
          /\ UNCHANGED <<errors, status>>
    /\ UNCHANGED <<handle, starting, attempt, present, reading>>

Recover(s) ==
    /\ task[s] = "recover"
    /\ wedged' = FALSE
    /\ Go(s, "backoff")
    /\ UNCHANGED <<step, handle, errors, status, starting, attempt, present, faults,
                   reading>>

Backoff(s) ==
    /\ task[s] = "backoff"
    /\ Go(s, "inactive")
    /\ UNCHANGED <<step, handle, errors, status, starting, attempt, wedged, present,
                   faults, reading>>

(* Active::run *)
Publish(s) ==
    /\ task[s] = "active"
    /\ step[s] + 1 = Len(MeasureSteps[s])
    /\ Answered(s)
    /\ At(s, 0)
    /\ errors' = [errors EXCEPT ![s] = 0]
    /\ reading' = [reading EXCEPT ![s] = 1 - @]
    /\ UNCHANGED <<task, handle, status, starting, attempt, present>>

MeasureStep(s) ==
    /\ task[s] = "active"
    /\ step[s] + 1 < Len(MeasureSteps[s])
    /\ Answered(s)
    /\ At(s, step[s] + 1)
    /\ UNCHANGED <<task, handle, errors, status, starting, attempt, present, reading>>

ReadError(s) ==
    /\ task[s] = "active"
    /\ Failed(s)
    /\ At(s, 0)
    /\ errors' = [errors EXCEPT ![s] = @ + 1]
    /\ IF errors[s] + 1 < MaxErrors
          THEN UNCHANGED <<task, status>>
          ELSE Go(s, "inactive") /\ status' = [status EXCEPT ![s] = "Inactive"]
    /\ UNCHANGED <<handle, starting, attempt, present, reading>>

Readout(s) ==
    \/ TakeSensor(s) \/ Configure(s) \/ Recover(s) \/ Backoff(s)
    \/ Publish(s) \/ MeasureStep(s) \/ ReadError(s)

-----------------------------------------------------------------------------
(* The hardware: a sensor goes and comes back.                             *)

Unplug(s) ==
    /\ s \in present /\ faults < MaxFaults
    /\ present' = present \ {s}
    /\ faults' = faults + 1
    /\ UNCHANGED <<task, step, handle, errors, status, starting, attempt, wedged, reading>>

Plug(s) ==
    /\ s \notin present
    /\ present' = present \cup {s}
    /\ UNCHANGED <<task, step, handle, errors, status, starting, attempt, wedged, faults,
                   reading>>

BusInit ==
    /\ task = [s \in Sensors |-> "startup"]
    /\ step = [s \in Sensors |-> 0]
    /\ handle = [s \in Sensors |-> FALSE]
    /\ errors = [s \in Sensors |-> 0]
    /\ status = [s \in Sensors |-> "Inactive"]
    /\ starting = <<"mag", "baro", "dht">>
    /\ attempt = 0
    /\ wedged = FALSE
    /\ present \in {Sensors, Sensors \ {"mag"}, {}}
    /\ faults = 0
    /\ reading = [s \in Sensors |-> 0]

BusNext ==
    \E s \in Sensors : InitAtStartup(s) \/ Readout(s) \/ Unplug(s) \/ Plug(s)

BusTask(s) == InitAtStartup(s) \/ Readout(s)

(* The executor polls every woken task and a timer wakes each delay.       *)
BusFairness == \A s \in Sensors : WF_busVars(BusTask(s))

BusSpec == BusInit /\ [][BusNext]_busVars /\ BusFairness

-----------------------------------------------------------------------------
(* A sensor that stays on the bus is read again and again, whatever timed  *)
(* out before, on this sensor or on its neighbours: some readout that fails *)
(* to configure resets the shared controller (buses::recover).             *)
ReadAgain ==
    \A s \in Sensors : <>[](s \in present) => []<><<Publish(s)>>_busVars

(* A sensor that went and stays away is shown Inactive (run stores the     *)
(* status after MAX_CONSECUTIVE_ERRORS failed reads).                      *)
GoneIsShown ==
    \A s \in Sensors :
        []<>(s \in present \/ status[s] = "Inactive")
=============================================================================
