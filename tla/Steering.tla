------------------------------ MODULE Steering ------------------------------
(***************************************************************************)
(* steering_task of the recovery board: the power task and the steering    *)
(* loop that run joined on one executor, the watchdog that hands the       *)
(* parachute over to the safety spiral, and what the RSBL driver knows and *)
(* does not know about the two motors.  An action is what one task does    *)
(* from one await to the next, so every interleaving of the two tasks with *)
(* the CAN loop that feeds them is a behaviour.                            *)
(*                                                                         *)
(* Time is counted in ticks.  A timer that is due is served, and the       *)
(* steering loop passes its top at least once every IterTicks ticks,       *)
(* before the next tick (one tick stands for about half a second: an       *)
(* iteration is 10 ms of sleep and at most some 350 ms of bus timeouts).   *)
(*                                                                         *)
(* Positions are in the motors' own convention, in steps from the position *)
(* the motor had when the board started.                                   *)
(***************************************************************************)
EXTENDS Integers, EmbassyWatch

CONSTANTS
  Targets,      \* positions ground may ask for: a set of [Side -> Int]
  Spiral,       \* SAFETY_SPIRAL_POS_LEFT / _RIGHT, a [Side -> Int]
  PowerCmds,    \* the steering_enabled flags ground may send
  Duration,     \* AUTOMATIC_SAFETY_SPIRAL_TIMER, in ticks
  BootTicks,    \* the 1000 ms the motor MCUs get to start up
  IterTicks,    \* ticks one iteration of the loop may take
  MoveFaults,   \* what may go wrong with a move: subset of {"command", "reply"}
  MaxFaults     \* bound on the number of bus faults of a behaviour

Side == {"left", "right"}
Position == [Side -> Int]

ASSUME SteeringAssumption ==
  /\ Targets \subseteq Position
  /\ Spiral \in Position
  /\ PowerCmds \subseteq BOOLEAN
  /\ Duration \in Nat /\ BootTicks \in Nat /\ IterTicks \in Nat
  /\ IterTicks < BootTicks
  /\ MoveFaults \subseteq {"command", "reply"}
  /\ MaxFaults \in Nat

VARIABLES
  powerCmd,       \* INPUTS.steering_power
  target,         \* INPUTS.steering_target_positions
  ppc, bootLeft,  \* the power task: awaiting a command, or the boot timer
  pwr,            \* the steering power pin
  powerStatus,    \* STEERING_POWER_STATUS
  pc,             \* where the steering loop awaits
  goal, spiral,   \* the move under way, and whether it is the safety spiral
  active, watchdogActive, safetySpiralActive,  \* the loop's locals
  wd,             \* the Watchdog: active, expired and the age of last_seen
  watchdogState,  \* WATCHDOG_STATE, NoVal before the first send
  tracked,        \* RsblServo.left_pos / right_pos
  report,         \* OUTPUTS.steering_actual_positions
  detected,       \* STEERING_STATUS: the sides that answered
  actual,         \* external: where the motors really are
  faults,         \* bus faults so far
  sinceTop,       \* ticks since the loop was last at its top
  \* History, for the properties only:
  onTicks,        \* how long the motors have had power, up to BootTicks
  locked,         \* startup_sequence ran since they got it
  silence         \* ticks since a target came or power came back

powerVars == <<ppc, bootLeft, pwr, powerStatus>>
loopVars  == <<pc, goal, spiral, active, watchdogActive, safetySpiralActive>>
motorVars == <<tracked, actual, faults>>
readVars  == <<report, detected>>
history   == <<onTicks, locked, silence>>
vars == <<powerCmd, target, powerVars, loopVars, wd, watchdogState, motorVars,
          readVars, sinceTop, history>>

Flip(p) == [s \in Side |-> -p[s]]
\* The lag of a loop that first has to start the motors up: top, start-up, top.
MaxSilence == Duration + 3 * IterTicks + 1
Capped(n, max) == IF n < max THEN n + 1 ELSE max

Init ==
  /\ powerCmd = EmptyWatch /\ target = EmptyWatch
  /\ ppc = "wait" /\ bootLeft = 0 /\ pwr = FALSE /\ powerStatus = FALSE
  /\ pc = "sleep" /\ goal = Spiral /\ spiral = FALSE
  /\ active = FALSE /\ watchdogActive = FALSE /\ safetySpiralActive = FALSE
  /\ wd = [active |-> FALSE, expired |-> FALSE, age |-> 0]
  /\ watchdogState = NoVal
  /\ tracked = [s \in Side |-> 0] /\ actual = [s \in Side |-> 0] /\ faults = 0
  /\ report = NoVal /\ detected = {}
  /\ sinceTop = 0 /\ onTicks = 0 /\ locked = FALSE
  /\ silence = 0

-----------------------------------------------------------------------------
(* The CAN loop of main: what it hands to the steering task.               *)

\* RecoveryPowerConfig.
ReceivePower(on) ==
  /\ powerCmd' = Send(on)
  /\ UNCHANGED <<target, powerVars, loopVars, wd, watchdogState, motorVars,
                 readVars, sinceTop, history>>

\* SteeringTargetPositions, through Inputs::update_from.
ReceiveTarget(t) ==
  /\ target' = Send(t)
  /\ silence' = 0
  /\ UNCHANGED <<powerCmd, powerVars, loopVars, wd, watchdogState, motorVars,
                 readVars, sinceTop, onTicks, locked>>

-----------------------------------------------------------------------------
(* The power task.                                                         *)

\* Mutant: the status flag goes up without the wait.
PowerOnEager ==
  /\ ppc = "wait" /\ powerCmd.new /\ powerCmd.val = TRUE
  /\ powerCmd' = Seen(powerCmd)
  /\ pwr' = TRUE /\ powerStatus' = TRUE
  /\ onTicks' = IF pwr THEN onTicks ELSE 0
  /\ locked' = (pwr /\ locked)
  /\ UNCHANGED <<target, ppc, bootLeft, loopVars, wd, watchdogState, motorVars,
                 readVars, sinceTop, silence>>

\* true: power up, then wait for the motors' MCUs.
PowerOn ==
  /\ ppc = "wait" /\ powerCmd.new /\ powerCmd.val = TRUE
  /\ powerCmd' = Seen(powerCmd)
  /\ pwr' = TRUE
  /\ ppc' = "boot" /\ bootLeft' = BootTicks
  /\ onTicks' = IF pwr THEN onTicks ELSE 0
  /\ locked' = (pwr /\ locked)
  /\ UNCHANGED <<target, powerStatus, loopVars, wd, watchdogState, motorVars,
                 readVars, sinceTop, silence>>

\* The motors' MCUs have had their 1000 ms.
BootDone ==
  /\ ppc = "boot" /\ bootLeft = 0
  /\ powerStatus' = TRUE
  /\ ppc' = "wait"
  /\ silence' = IF powerStatus THEN silence ELSE 0
  /\ UNCHANGED <<powerCmd, target, bootLeft, pwr, loopVars, wd, watchdogState,
                 motorVars, readVars, sinceTop, onTicks, locked>>

\* false: the flag first, then the pin.
PowerOff ==
  /\ ppc = "wait" /\ powerCmd.new /\ powerCmd.val = FALSE
  /\ powerCmd' = Seen(powerCmd)
  /\ powerStatus' = FALSE
  /\ pwr' = FALSE
  /\ UNCHANGED <<target, ppc, bootLeft, loopVars, wd, watchdogState, motorVars,
                 readVars, sinceTop, history>>

-----------------------------------------------------------------------------
(* The watchdog.                                                           *)

WatchdogType == [active : BOOLEAN, expired : BOOLEAN, age : 0..Duration + 1]

\* Watchdog::check: an active watchdog expires once, for good.
WatchdogCheck(w) ==
  IF w.active /\ w.age > Duration THEN [w EXCEPT !.expired = TRUE] ELSE w

\* Watchdog::start: nothing if it is active already.
WatchdogStart(w) ==
  IF w.active THEN w
  ELSE [active |-> TRUE, expired |-> w.expired, age |-> 0]

\* Watchdog::update: pets an active watchdog.
WatchdogUpdate(w) == IF w.active THEN [w EXCEPT !.age = 0] ELSE w

-----------------------------------------------------------------------------
(* The steering loop.                                                      *)

\* Mutant: the loop does not notice that the motors lost power.
UnpoweredKeepsActive ==
  /\ pc = "sleep" /\ ~powerStatus
  /\ watchdogActive' = FALSE /\ safetySpiralActive' = FALSE
  /\ detected' = {}
  /\ sinceTop' = 0
  /\ UNCHANGED <<powerCmd, target, powerVars, pc, goal, spiral, active, wd,
                 watchdogState, motorVars, report, history>>

\* STEERING_POWER_STATUS is false: forget the session, report no motors.
Unpowered ==
  /\ pc = "sleep" /\ ~powerStatus
  /\ active' = FALSE /\ watchdogActive' = FALSE /\ safetySpiralActive' = FALSE
  /\ detected' = {}
  /\ sinceTop' = 0
  /\ UNCHANGED <<powerCmd, target, powerVars, pc, goal, spiral, wd,
                 watchdogState, motorVars, report, history>>

\* Powered and not active: startup_sequence starts to lock the motors.
BeginStartup ==
  /\ pc = "sleep" /\ powerStatus /\ ~active
  /\ pc' = "startup"
  /\ sinceTop' = 0
  /\ UNCHANGED <<powerCmd, target, powerVars, goal, spiral, active,
                 watchdogActive, safetySpiralActive, wd, watchdogState,
                 motorVars, readVars, history>>

\* Mutant: the loop steers without asking the watchdog.
TakeTargetUnchecked ==
  /\ target.new
  /\ wd' = WatchdogUpdate(IF watchdogActive THEN wd ELSE WatchdogStart(wd))
  /\ watchdogActive' = TRUE
  /\ watchdogState' = IF watchdogActive THEN watchdogState ELSE "Active"
  /\ target' = Seen(target)
  /\ goal' = Flip(target.val) /\ spiral' = FALSE
  /\ pc' = "left"

\* Mutant: only the first target pets the watchdog.
TakeTargetOnce ==
  /\ ~WatchdogCheck(wd).expired /\ target.new
  /\ wd' = IF watchdogActive THEN wd ELSE WatchdogStart(wd)
  /\ watchdogActive' = TRUE
  /\ watchdogState' = IF watchdogActive THEN watchdogState ELSE "Active"
  /\ target' = Seen(target)
  /\ goal' = Flip(target.val) /\ spiral' = FALSE
  /\ pc' = "left"

\* The watchdog holds and ground has sent new targets: (re)start and pet it,
\* then steer.
TakeTarget ==
  /\ ~WatchdogCheck(wd).expired /\ target.new
  /\ wd' = WatchdogUpdate(IF watchdogActive THEN wd ELSE WatchdogStart(wd))
  /\ watchdogActive' = TRUE
  /\ watchdogState' = IF watchdogActive THEN watchdogState ELSE "Active"
  /\ target' = Seen(target)
  /\ goal' = Flip(target.val) /\ spiral' = FALSE
  /\ pc' = "left"

\* Mutant: every lap pets the watchdog.
NoTargetPets ==
  /\ ~WatchdogCheck(wd).expired /\ ~target.new
  /\ pc' = "readLeft"
  /\ wd' = WatchdogUpdate(wd)
  /\ UNCHANGED <<watchdogActive, watchdogState, target, goal, spiral>>

\* The watchdog holds and there is nothing new.
NoTarget ==
  /\ ~WatchdogCheck(wd).expired /\ ~target.new
  /\ pc' = "readLeft"
  /\ UNCHANGED <<wd, watchdogActive, watchdogState, target, goal, spiral>>

\* The watchdog expired: command the safety spiral until it succeeded.
TakeSpiral ==
  /\ WatchdogCheck(wd).expired
  /\ wd' = WatchdogCheck(wd)
  /\ IF safetySpiralActive
     THEN pc' = "readLeft" /\ UNCHANGED <<watchdogState, goal, spiral>>
     ELSE pc' = "left" /\ watchdogState' = "Expired"
          /\ goal' = Spiral /\ spiral' = TRUE
  /\ UNCHANGED <<watchdogActive, target>>

ChooseGoal ==
  /\ TakeTarget \/ NoTarget \/ TakeSpiral
  /\ UNCHANGED <<powerCmd, powerVars, safetySpiralActive, motorVars, readVars,
                 onTicks, silence>>

\* startup_sequence returns; its errors are only logged.
FinishStartup ==
  /\ pc = "startup"
  /\ active' = TRUE
  /\ locked' = (locked \/ pwr)
  /\ sinceTop' = sinceTop
  /\ ChooseGoal

\* Powered and active already.
Iterate ==
  /\ pc = "sleep" /\ powerStatus /\ active
  /\ sinceTop' = 0
  /\ UNCHANGED <<active, locked>>
  /\ ChooseGoal

\* How a move_steps of the driver may end: the motor got the command or not,
\* and the driver got its answer or not.
Outcome == [delivered : BOOLEAN, answered : BOOLEAN]
CleanMove == [delivered |-> TRUE, answered |-> TRUE]
MoveOutcome(o) ==
  /\ o.answered => o.delivered
  /\ o.delivered => pwr
  /\ pwr /\ ~o.delivered => "command" \in MoveFaults /\ faults < MaxFaults
  /\ o.delivered /\ ~o.answered => "reply" \in MoveFaults /\ faults < MaxFaults
  /\ faults' = IF pwr /\ o # CleanMove THEN faults + 1 ELSE faults

\* Mutant: a move without an answer is not counted.
MoveAbsoluteIfAnswered(s, o) ==
  /\ MoveOutcome(o)
  /\ tracked' = IF o.answered THEN [tracked EXCEPT ![s] = goal[s]] ELSE tracked
  /\ actual' = IF o.delivered
               THEN [actual EXCEPT ![s] = @ + (goal[s] - tracked[s])]
               ELSE actual

\* move_absolute: sends the steps that are missing by its own count, and then
\* counts itself at the position whether or not the motor answered.
MoveAbsolute(s, o) ==
  /\ MoveOutcome(o)
  /\ tracked' = [tracked EXCEPT ![s] = goal[s]]
  /\ actual' = IF o.delivered
               THEN [actual EXCEPT ![s] = @ + (goal[s] - tracked[s])]
               ELSE actual

\* steer_parachutes, first half: an error of the left motor skips the right.
SteerLeft(o) ==
  /\ pc = "left"
  /\ MoveAbsolute("left", o)
  /\ pc' = IF o.answered THEN "right" ELSE "readLeft"
  /\ UNCHANGED <<powerCmd, target, powerVars, goal, spiral, active,
                 watchdogActive, safetySpiralActive, wd, watchdogState,
                 readVars, sinceTop, history>>

\* Mutant: the spiral is never noted as reached.
SteerRightForgets(o) ==
  /\ pc = "right"
  /\ MoveAbsolute("right", o)
  /\ pc' = "readLeft"
  /\ UNCHANGED <<powerCmd, target, powerVars, goal, spiral, active,
                 watchdogActive, safetySpiralActive, wd, watchdogState,
                 readVars, sinceTop, history>>

\* steer_parachutes, second half: only now does a spiral count as reached.
SteerRight(o) ==
  /\ pc = "right"
  /\ MoveAbsolute("right", o)
  /\ safetySpiralActive' = (safetySpiralActive \/ (spiral /\ o.answered))
  /\ pc' = "readLeft"
  /\ UNCHANGED <<powerCmd, target, powerVars, goal, spiral, active,
                 watchdogActive, wd, watchdogState, readVars, sinceTop,
                 history>>

\* Not 100 ms since the last readout.
SkipRead ==
  /\ pc = "readLeft"
  /\ pc' = "sleep"
  /\ UNCHANGED <<powerCmd, target, powerVars, goal, spiral, active,
                 watchdogActive, safetySpiralActive, wd, watchdogState,
                 motorVars, readVars, sinceTop, history>>

\* read_side on both motors: a side that does not answer within the timeout is
\* unresponsive.  The position reported is the driver's count, flipped back.
ReadLeft(ok) ==
  /\ pc = "readLeft"
  /\ ok => pwr
  /\ pc' = IF ok THEN "readRight" ELSE "readRightOnly"
  /\ UNCHANGED <<powerCmd, target, powerVars, goal, spiral, active,
                 watchdogActive, safetySpiralActive, wd, watchdogState,
                 motorVars, readVars, sinceTop, history>>

\* The second readout, and the publication of both.
ReadRight(ok) ==
  /\ pc \in {"readRight", "readRightOnly"}
  /\ ok => pwr
  /\ detected' = (IF pc = "readRight" THEN {"left"} ELSE {})
                  \cup (IF ok THEN {"right"} ELSE {})
  /\ report' = IF detected' = Side THEN Flip(tracked) ELSE NoVal
  /\ pc' = "sleep"
  /\ UNCHANGED <<powerCmd, target, powerVars, goal, spiral, active,
                 watchdogActive, safetySpiralActive, wd, watchdogState,
                 motorVars, sinceTop, history>>

-----------------------------------------------------------------------------
\* Time passes only when no timer is due and no task is runnable for longer
\* than the bounds above allow.
Tick ==
  /\ ~(ppc = "boot" /\ bootLeft = 0)
  /\ ~(ppc = "wait" /\ powerCmd.new)
  /\ sinceTop < IterTicks
  /\ sinceTop' = sinceTop + 1
  /\ bootLeft' = IF bootLeft > 0 THEN bootLeft - 1 ELSE 0
  /\ wd' = [wd EXCEPT !.age = Capped(@, Duration + 1)]
  /\ onTicks' = IF pwr THEN Capped(onTicks, BootTicks) ELSE onTicks
  /\ silence' = Capped(silence, MaxSilence)
  /\ UNCHANGED <<powerCmd, target, ppc, pwr, powerStatus, loopVars,
                 watchdogState, motorVars, readVars, locked>>

Receive == \/ \E on \in PowerCmds : ReceivePower(on)
           \/ \E t \in Targets : ReceiveTarget(t)
PowerTask == PowerOn \/ BootDone \/ PowerOff
Readout == SkipRead \/ \E ok \in BOOLEAN : ReadLeft(ok) \/ ReadRight(ok)
SteeringLoop ==
  \/ Unpowered \/ BeginStartup \/ FinishStartup \/ Iterate
  \/ \E o \in Outcome : SteerLeft(o) \/ SteerRight(o)
  \/ Readout

Next == Receive \/ PowerTask \/ SteeringLoop \/ Tick

\* The executor polls a task that is ready, and time goes on.
Fairness == WF_vars(PowerTask) /\ WF_vars(SteeringLoop) /\ WF_vars(Tick)

Spec == Init /\ [][Next]_vars
FairSpec == Spec /\ Fairness

-----------------------------------------------------------------------------
(* Properties.                                                             *)

TypeOK ==
  /\ powerCmd \in WatchOf(PowerCmds) /\ target \in WatchOf(Targets)
  /\ ppc \in {"wait", "boot"} /\ bootLeft \in 0..BootTicks
  /\ pwr \in BOOLEAN /\ powerStatus \in BOOLEAN
  /\ pc \in {"sleep", "startup", "left", "right", "readLeft", "readRight",
             "readRightOnly"}
  /\ goal \in Position /\ spiral \in BOOLEAN
  /\ active \in BOOLEAN /\ watchdogActive \in BOOLEAN
  /\ safetySpiralActive \in BOOLEAN
  /\ wd \in WatchdogType
  /\ watchdogState \in {NoVal, "Active", "Expired"}
  /\ tracked \in Position /\ actual \in Position /\ faults \in 0..MaxFaults
  /\ report \in Position \cup {NoVal} /\ detected \subseteq Side
  /\ sinceTop \in 0..IterTicks /\ onTicks \in 0..BootTicks
  /\ locked \in BOOLEAN /\ silence \in 0..MaxSilence
\* The flag that lets the loop talk to the motors is only up while the pin is
\* high and the motors' MCUs have had their start-up time, also when power
\* commands arrive during that time and are coalesced.
PoweredBeforeDriven == powerStatus => pwr /\ onTicks = BootTicks

\* A loop that believes the motors are started up has run the start-up
\* sequence since they last got power: no power cycle is short enough for the
\* loop to sleep through it.
LockedWhileActive == powerStatus /\ active => locked

\* Ground that falls silent loses the parachute: in a session in which the
\* watchdog runs, silence of the timer's duration plus the loop's lag ends in
\* an expired watchdog.
SpiralDeadline ==
  powerStatus /\ active /\ wd.active /\ silence = MaxSilence => wd.expired

\* The watchdog decides who steers: ground until it expires, and from then on
\* the safety spiral alone, whatever targets and power commands arrive.
Authority == INSTANCE SteeringAuthority WITH
  Asked <- {Flip(t) : t \in Targets},
  holder <- IF wd.expired THEN "spiral" ELSE "ground",
  commanded <- tracked
ImplementsAuthority == Authority!Spec

\* While the motors stay powered, the watchdog expires only after ground was
\* silent for the whole timer, up to a target that came in the loop's last lap.
ExpiryNeedsSilence ==
  [][~wd.expired /\ wd'.expired => silence > Duration \/ target.new]_vars

\* A safety spiral that counts as reached is where the motors are.  It holds
\* with power that is never cut and a bus that loses answers only, and not with
\* one that loses a command (RsblServo::move_absolute counts it as carried out).
SpiralReached == safetySpiralActive => actual = Spiral

\* The watchdog's expiry is acted on: while the motors stay powered the loop
\* gets to the point where the spiral was commanded without an error.
SpiralEventually ==
  wd.expired /\ powerStatus ~> safetySpiralActive \/ ~powerStatus

=============================================================================
