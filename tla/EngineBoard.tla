----------------------------- MODULE EngineBoard -----------------------------
(***************************************************************************)
(* The engine board: the two main valves, commanded by flight computer and *)
(* ground segment through one Watch each; the currents of their solenoids, *)
(* read from one ADC whose conversions are started by a first read and     *)
(* fetched by a later one; the arming switch and what buzzer and status    *)
(* tell of it.  Thermocouples and heater are in EngineHeat.                *)
(***************************************************************************)
EXTENDS EngineHeat

Valve == {"fuel", "oxidizer"}

CONSTANT MaxReadAttempts   \* MAX_READ_ATTEMPTS

ASSUME AttemptsAssumption == MaxReadAttempts \in Nat \ {0}

VARIABLES
  up,            \* the tasks run
  command,       \* STATE.fuel_main_control, STATE.oxidizer_main_control
  open,          \* the valve's pin is high
  adcDead,       \* the ADC of the currents does not answer
  adcConfig,     \* the channel the driver configured last
  adcStarted,    \* it has started a conversion of that channel
  adcBusy,       \* the conversion is running
  adcResult,     \* the result register: channel, and whether a current flowed
  reading,       \* read_current_channel: the channel and the attempts made
  fuelSample,    \* what was read for the fuel valve in this round
  current,       \* last_currents: per valve a sample, or none yet
  switch,        \* the arming switch is closed
  arming,        \* STATE.arming_state
  buzz,          \* STATE.buzzer
  heard,         \* what the buzzer last beeped: "nothing", "idle", "armed"
  boardArmed     \* the arming state the board last sent

valveVars == <<command, open>>
adcVars   == <<adcDead, adcConfig, adcStarted, adcBusy, adcResult>>
currentVars == <<reading, fuelSample, current>>
armVars   == <<arming, buzz, heard, boardArmed>>
engineVars == <<up, valveVars, adcVars, currentVars, switch, armVars>>

None == [of |-> "none", flows |-> FALSE]
FirstRead == [of |-> "fuel", attempts |-> 0]

EngineInit ==
  /\ up = FALSE /\ adcDead = FALSE /\ adcBusy = FALSE /\ adcResult = None /\ switch \in BOOLEAN
  /\ command = [v \in Valve |-> EmptyWatch] /\ open = [v \in Valve |-> FALSE]
  /\ reading = FirstRead /\ fuelSample = None /\ current = [v \in Valve |-> None]
  /\ adcStarted = FALSE /\ adcConfig = "none"
  /\ arming = EmptyWatch /\ buzz = EmptyWatch /\ heard = "nothing" /\ boardArmed = "safe"

-----------------------------------------------------------------------------
(* Restart and valves.                                                     *)

\* main: the pins are low, the tasks are spawned.
EngineBoots ==
  /\ ~up /\ up' = TRUE
  /\ UNCHANGED <<valveVars, adcVars, currentVars, switch, armVars>>

\* ResetAll, ResetSpecific; the ADC of the currents goes on converting.
EngineResets ==
  /\ up /\ up' = FALSE
  /\ command' = [v \in Valve |-> EmptyWatch] /\ open' = [v \in Valve |-> FALSE]
  /\ reading' = FirstRead /\ fuelSample' = None /\ current' = [v \in Valve |-> None]
  /\ adcStarted' = FALSE /\ adcConfig' = "none"
  /\ arming' = EmptyWatch /\ buzz' = EmptyWatch /\ heard' = "nothing" /\ boardArmed' = "safe"
  /\ UNCHANGED <<adcDead, adcBusy, adcResult, switch>>

\* can_rx_task, update_from: the frames of both masters write the same Watch.
ReceiveCommand(v, c) ==
  /\ up /\ command' = [command EXCEPT ![v] = Send(c)]
  /\ UNCHANGED <<up, open, adcVars, currentVars, switch, armVars>>

\* valve_task_impl, one of two joined in one task.
DriveValve(v) ==
  /\ up /\ command[v].new
  /\ open' = [open EXCEPT ![v] = command[v].val = "open"]
  /\ command' = [command EXCEPT ![v] = Seen(@)]
  /\ UNCHANGED <<up, adcVars, currentVars, switch, armVars>>

-----------------------------------------------------------------------------
(* Solenoid currents.                                                      *)

\* The bus to the ADC fails, for once or for good.
AdcFails ==
  /\ adcDead' = ~adcDead
  /\ UNCHANGED <<up, valveVars, adcConfig, adcStarted, adcBusy, adcResult, currentVars, switch, armVars>>

\* The conversion ends; a current flows through the solenoid of an open valve.
AdcConverts ==
  /\ adcBusy /\ adcBusy' = FALSE
  /\ adcResult' = [adcResult EXCEPT !.flows = open[adcResult.of]]
  /\ UNCHANGED <<up, valveVars, adcDead, adcConfig, adcStarted, currentVars, switch, armVars>>

\* Mutant: both valves are read on the channel of the fuel valve.
ChannelOfFuel(v) == "fuel"

\* The channel a valve's solenoid is wired to, by the name of the valve.
ChannelOf(v) == v

\* Ads1x1x::read in single-shot mode: a conversion of this channel that has ended is fetched,
\* otherwise one is started; a transfer that fails changes nothing.
Fetched(v) == ~adcDead /\ adcStarted /\ adcConfig = ChannelOf(v)

ReadOnce(v) ==
  \/ adcDead /\ UNCHANGED <<adcConfig, adcStarted, adcBusy, adcResult>>
  \/ Fetched(v) /\ adcStarted' = FALSE /\ UNCHANGED <<adcConfig, adcBusy, adcResult>>
  \/ /\ ~adcDead /\ ~Fetched(v)
     /\ adcConfig' = ChannelOf(v) /\ adcStarted' = TRUE /\ adcBusy' = TRUE
     /\ adcResult' = [of |-> ChannelOf(v), flows |-> FALSE]

\* A channel that gave no sample keeps the one it had.
Kept(v, sample) == IF sample = None THEN current[v] ELSE sample

\* The end of a round: nothing is sent before both channels have given a sample in one round;
\* from then on whatever is new.
RoundEnds(oxidizerSample) ==
  LET sample == [v \in Valve |-> IF v = "fuel" THEN fuelSample ELSE oxidizerSample] IN
  /\ current' = IF None \in {current[v] : v \in Valve} /\ None \in {sample[v] : v \in Valve}
                THEN current ELSE [v \in Valve |-> Kept(v, sample[v])]
  /\ reading' = FirstRead /\ fuelSample' = None

ChannelDone(sample) ==
  IF reading.of = "fuel"
  THEN fuelSample' = sample /\ reading' = [of |-> "oxidizer", attempts |-> 0] /\ UNCHANGED current
  ELSE RoundEnds(sample)

\* One attempt of read_current_channel; the last one gives up.  A conversion takes less than
\* the millisecond between two attempts, and is not over within one.
Attempt ==
  /\ up /\ ~adcBusy
  /\ ReadOnce(reading.of)
  /\ IF Fetched(reading.of) THEN ChannelDone(adcResult)
     ELSE IF reading.attempts + 1 = MaxReadAttempts THEN ChannelDone(None)
     ELSE reading' = [reading EXCEPT !.attempts = @ + 1] /\ UNCHANGED <<fuelSample, current>>
  /\ UNCHANGED <<up, valveVars, adcDead, switch, armVars>>

-----------------------------------------------------------------------------
(* Arming, buzzer and status.                                              *)

SwitchFlips ==
  /\ switch' = ~switch
  /\ UNCHANGED <<up, valveVars, adcVars, currentVars, armVars>>

\* check_main_arming, once a second; the buzzer gets it too.
CheckArming ==
  /\ up /\ arming' = Send(IF switch THEN "armed" ELSE "safe") /\ buzz' = Send(IF switch THEN "armed" ELSE "idle")
  /\ UNCHANGED <<up, valveVars, adcVars, currentVars, switch, heard, boardArmed>>

\* buzzer_task, when a beep is due: four for an armed board, two for an idle one.
Beep ==
  /\ up /\ buzz.val # NoVal /\ heard' = buzz.val
  /\ UNCHANGED <<up, valveVars, adcVars, currentVars, switch, arming, buzz, boardArmed>>

\* board_status_update_task
ReportArming ==
  /\ up /\ arming.new /\ boardArmed' = arming.val /\ arming' = Seen(arming)
  /\ UNCHANGED <<up, valveVars, adcVars, currentVars, switch, buzz, heard>>

\* Valves and currents, and the arming switch: they share no more than the board's restarts.
ValvesNext ==
  \/ EngineBoots \/ EngineResets
  \/ \E v \in Valve : DriveValve(v) \/ \E c \in {"open", "closed"} : ReceiveCommand(v, c)
  \/ Attempt \/ AdcFails \/ AdcConverts

ArmNext ==
  \/ EngineBoots \/ EngineResets
  \/ SwitchFlips \/ CheckArming \/ Beep \/ ReportArming

-----------------------------------------------------------------------------
(* Properties.                                                             *)

\* A main valve is open for a command only, the last one of either master unless the task has
\* yet to see it; and the current shown for a valve was measured at its own solenoid, though
\* one ADC converts for both and a round may give up while it is converting.
MainValvesRight ==
  /\ \A v \in Valve : open[v] /\ ~command[v].new => command[v].val = "open"
  /\ \A v \in Valve : current[v].of \in {v, "none"}

\* The engine board measures and drives what it is meant to: the heater's sensor
\* (thermocouple_task) and the main valves and their currents (valve_task_impl,
\* read_current_channel).
EngineRight == MeasuredRight /\ MainValvesRight

\* Where the valves, what is known of their currents and what is known of the arming switch
\* come to rest once nothing changes any more around a board that is up: as commanded, as it
\* is while the ADC answers, and reported and heard.
CommandsFollowed ==
  up => \A v \in Valve :
    /\ open[v] <=> command[v].val = "open"
    /\ ~adcDead => current[v] = [of |-> v, flows |-> open[v]]

ArmingKnown ==
  up => /\ boardArmed = IF switch THEN "armed" ELSE "safe"
        /\ heard = IF switch THEN "armed" ELSE "idle"

engineInputs == <<up, [v \in Valve |-> command[v].val], adcDead, switch>>
=============================================================================
