----------------------------- MODULE CarrierBus -----------------------------
(***************************************************************************)
(* What sensor carrier v3 makes of its readings: the state estimator       *)
(* (tasks/state_estimation), the selection of one sensor of each pair      *)
(* (tasks/selection.rs) and the CAN tasks (tasks/can) with their moving    *)
(* averages (filters.rs).  All run on one executor and hand each other     *)
(* values through channels and watches; a frame that finds the transmit    *)
(* buffer full is dropped.  Two external parts are modelled by what they   *)
(* answer: the Selector and the estimator's choice of an IMU.              *)
(***************************************************************************)
EXTENDS Naturals, Sequences, FiniteSets

CONSTANTS
    MeanSamples,   \* IMU_MEAN_SAMPLES, PRESSURE_MEAN_SAMPLES
    SelectorAge,   \* maximum_age of the selectors, in ticks
    ImuFresh,      \* IMU_FRESH, in ticks
    PublishPeriod, \* PUBLISH_PERIOD, in ticks
    Backlog,       \* what the IMU channel holds before it overwrites
    TxBuffer,      \* TX_BUFFER_LEN
    MaxChanges     \* bound on the sensors that stop or come back

ASSUME CarrierAssumption ==
    /\ {MeanSamples, Backlog} \subseteq Nat \ {0}
    /\ {SelectorAge, ImuFresh, PublishPeriod, TxBuffer, MaxChanges} \subseteq Nat

Nobody == 0
Unit == {1, 2}                          \* the two sensors of every pair
Family == {"imu", "baro"}               \* mag and DHT are selected like baro
Sensor == Family \X Unit

VARIABLES
    running,    \* the sensors that give readings
    age,        \* per sensor: ticks since its last reading
    toSef, toCan, \* IMU_CHANNEL as the estimator and the CAN IMU task have yet to read it
    sefAge,     \* per IMU: ticks since the estimator was given a sample
    lastPublish,\* ticks since last_publish
    selectedImu,\* SELECTED_IMU
    estimate,   \* STATE_ESTIMATE holds a state
    selector,   \* the barometer selector: [selected, age]
    selectedBaro,\* SELECTED_BARO: who gave the last reading, and whether it is still to be sent
    window,     \* the IMU filter's buffer: who gave each sample, newest last
    sinceMean,  \* readings since the last mean
    changed,    \* SELECTED_IMU changed since the last mean (history)
    mean,       \* the senders in the last mean sent (history)
    tx,         \* frames in the transmit buffer
    changes

sefVars == <<toSef, sefAge, lastPublish, selectedImu, estimate>>
canVars == <<toCan, window, sinceMean, mean, tx>>
selVars == <<selector, selectedBaro>>
carrierVars == <<running, age, sefVars, canVars, selVars, changed, changes>>

Older(n, cap) == IF n < cap THEN n + 1 ELSE cap
Never(cap) == cap + 1

-----------------------------------------------------------------------------
(* filters.rs and can/tx.rs: send                                          *)

MeanUpdate(w, x) == Append(IF Len(w) < MeanSamples THEN w ELSE Tail(w), x)
MeanOf(w) == {w[i] : i \in 1..Len(w)}

\* try_transmit: a frame goes into the buffer or is dropped.
Transmit(f) == tx' = IF Len(tx) < TxBuffer THEN Append(tx, f) ELSE tx

-----------------------------------------------------------------------------
(* Readings                                                                *)

Queued(q, x) == Append(IF Len(q) < Backlog THEN q ELSE Tail(q), x)

\* submit_imu
ImuReading(i) ==
    /\ <<"imu", i>> \in running /\ age[<<"imu", i>>] > 0
    /\ age' = [age EXCEPT ![<<"imu", i>>] = 0]
    /\ toSef' = Queued(toSef, i)
    /\ toCan' = Queued(toCan, i)
    /\ UNCHANGED <<running, sefAge, lastPublish, selectedImu, estimate, window, sinceMean, mean, tx,
                   selVars, changed, changes>>

\* Selector::report, external: who is selected when i reports.
Selected(i) ==
    IF selector.selected = Nobody \/ selector.age > SelectorAge THEN i ELSE selector.selected

\* Mutant: the selection waits for the selected sensor to report again.
ReportFirstOnly(i) == [selected |-> IF selector.selected = Nobody THEN i ELSE selector.selected,
                       age |-> 0]

Report(i) == [selected |-> Selected(i), age |-> IF Selected(i) = i THEN 0 ELSE selector.age]

\* submit_baro and the selection task's turn.
BaroReading(i) ==
    /\ <<"baro", i>> \in running /\ age[<<"baro", i>>] > 0
    /\ age' = [age EXCEPT ![<<"baro", i>>] = 0]
    /\ selector' = Report(i)
    /\ selectedBaro' = IF selector'.selected = i THEN [by |-> i, due |-> TRUE] ELSE selectedBaro
    /\ UNCHANGED <<running, sefVars, canVars, changed, changes>>

-----------------------------------------------------------------------------
(* The estimator: update_imu, then publish                                 *)

\* StateEstimator::selected_imu, external: an IMU it has recent samples of.
SefChoice == {i \in Unit : \A j \in Unit : sefAge'[i] <= sefAge'[j]}

SefPublish ==
    IF lastPublish < PublishPeriod
       THEN UNCHANGED <<lastPublish, selectedImu, estimate, changed>>
       ELSE /\ lastPublish' = 0
            /\ IF \A i \in Unit : sefAge'[i] > ImuFresh
                  THEN UNCHANGED <<selectedImu, estimate, changed>>
                  ELSE /\ estimate' = TRUE
                       /\ selectedImu' \in SefChoice
                       /\ changed' = (changed \/ selectedImu' # selectedImu)

SefUpdate ==
    /\ toSef # <<>>
    /\ sefAge' = [sefAge EXCEPT ![Head(toSef)] = age[<<"imu", Head(toSef)>>]]
    /\ toSef' = Tail(toSef)
    /\ SefPublish
    /\ UNCHANGED <<running, age, canVars, selVars, changes>>

-----------------------------------------------------------------------------
(* The CAN tasks                                                           *)

\* Mutant: samples of every IMU go into the mean.
FromSelectedAny(i) == selectedImu # Nobody

FromSelected(i) == selectedImu = i

\* tx::imu
CanImu ==
    /\ toCan # <<>>
    /\ toCan' = Tail(toCan)
    /\ LET i == Head(toCan)
       IN IF ~FromSelected(i)
             THEN UNCHANGED <<window, sinceMean, mean, tx, changed>>
             ELSE /\ window' = MeanUpdate(window, i)
                  /\ sinceMean' = (sinceMean + 1) % MeanSamples
                  /\ IF sinceMean' = 0 /\ estimate
                        THEN /\ Transmit("imu") /\ mean' = [by |-> MeanOf(window'), mixed |-> changed]
                             /\ changed' = FALSE
                        ELSE UNCHANGED <<mean, tx, changed>>
    /\ UNCHANGED <<running, age, sefVars, selVars, changes>>

\* tx::pressure (and magnetometer): a watch that changed is sent.
CanPressure ==
    /\ selectedBaro.due
    /\ selectedBaro' = [selectedBaro EXCEPT !.due = FALSE]
    /\ Transmit("pressure")
    /\ UNCHANGED <<running, age, sefVars, toCan, window, sinceMean, mean, selector, changed, changes>>

\* The controller sends a frame.
BusTakes ==
    /\ tx # <<>>
    /\ tx' = Tail(tx)
    /\ UNCHANGED <<running, age, sefVars, toCan, window, sinceMean, mean, selVars, changed, changes>>

-----------------------------------------------------------------------------
(* Time and the sensors                                                    *)

\* Within a tick every running sensor reads.
Tick ==
    /\ \A s \in running : age[s] = 0
    /\ toSef = <<>> /\ toCan = <<>>
    /\ age' = [s \in Sensor |-> IF s \in running THEN 1 ELSE Older(age[s], Never(ImuFresh))]
    /\ sefAge' = [i \in Unit |-> Older(sefAge[i], Never(ImuFresh))]
    /\ lastPublish' = Older(lastPublish, PublishPeriod)
    /\ selector' = [selector EXCEPT !.age = Older(@, Never(SelectorAge))]
    /\ UNCHANGED <<running, toSef, selectedImu, estimate, canVars, selectedBaro, changed, changes>>

Toggle(s) ==
    /\ changes < MaxChanges
    /\ running' = IF s \in running THEN running \ {s} ELSE running \cup {s}
    /\ changes' = changes + 1
    /\ UNCHANGED <<age, sefVars, canVars, selVars, changed>>

CarrierInit ==
    /\ running = Sensor /\ age = [s \in Sensor |-> 1] /\ toSef = <<>> /\ toCan = <<>>
    /\ sefAge = [i \in Unit |-> Never(ImuFresh)] /\ lastPublish = PublishPeriod
    /\ selectedImu = Nobody /\ estimate = FALSE
    /\ selector = [selected |-> Nobody, age |-> 0]
    /\ selectedBaro = [by |-> Nobody, due |-> FALSE]
    /\ window = <<>> /\ sinceMean = 0 /\ mean = [by |-> {}, mixed |-> FALSE] /\ changed = FALSE
    /\ tx = <<>> /\ changes = 0

CarrierTasks == SefUpdate \/ CanImu \/ CanPressure \/ BusTakes
Readings == \E i \in Unit : ImuReading(i) \/ BaroReading(i)

CarrierNext == CarrierTasks \/ Readings \/ Tick \/ \E s \in Sensor : Toggle(s)

(* The executor serves the tasks, the bus takes frames, sensors read.      *)
CarrierFairness ==
    /\ WF_carrierVars(SefUpdate) /\ WF_carrierVars(CanImu) /\ WF_carrierVars(CanPressure)
    /\ WF_carrierVars(BusTakes) /\ WF_carrierVars(Tick)
    /\ \A i \in Unit : WF_carrierVars(ImuReading(i)) /\ WF_carrierVars(BaroReading(i))

CarrierSpec == CarrierInit /\ [][CarrierNext]_carrierVars /\ CarrierFairness

-----------------------------------------------------------------------------
(* An IMU message averages the samples of one IMU, unless the estimator's  *)
(* choice changed since the message before it: then the moving average may *)
(* mix two.                                                                *)
MeanOfOneImu == Cardinality(mean.by) > 1 => mean.mixed

(* A pair of which one sensor keeps running is heard on the bus for ever:  *)
(* the selection and the estimator hand over to the one that is left, and  *)
(* the mean goes on.                                                       *)
HandsOver ==
    /\ \A i \in Unit :
          <>[](running \cap ({"baro"} \X Unit) = {<<"baro", i>>})
              => <>[](selectedBaro.by = i) /\ []<><<CanPressure>>_carrierVars
    /\ \A i \in Unit :
          <>[](running \cap ({"imu"} \X Unit) = {<<"imu", i>>})
              => <>[](selectedImu = i /\ MeanOf(window) = {i})
=============================================================================
