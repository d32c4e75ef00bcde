--------------------------- MODULE RecoveryServos ---------------------------
(***************************************************************************)
(* Separation and deployment on the recovery board: the CAN loop of main   *)
(* turns frames into target states, one Watch per actuator; the separation *)
(* and the deployment task carry the latest target out, the deployment     *)
(* task holding the servo pushed out for 30 s; two response tasks announce *)
(* on CAN that it happened, sharing the transmitter with the board's       *)
(* status and its broadcasts.                                              *)
(*                                                                         *)
(* The tasks run on one cooperative executor: what a task does between two *)
(* awaits is one action.  A reset of the board starts a new behaviour in   *)
(* place: pins and PWM channels fall back to off.                          *)
(***************************************************************************)
EXTENDS Integers, EmbassyWatch

CONSTANTS
  HoldTicks,    \* the 30 s the deployment servos push, in ticks
  MaxTriggers   \* bounds on the triggers of each actuator

Actuator == {"separation", "deployment"}

ASSUME ServosAssumption == HoldTicks \in Nat /\ MaxTriggers \in [Actuator -> Nat]

TargetState == {"PoweredOff", "PoweredOn", "Actuated"}
Angle == {"unset", "initial", "actuated"}

\* The tasks that take turns on the CAN transmitter.
Responder == Actuator
Sender == Responder \cup {"status", "broadcast"}

VARIABLES
  target,     \* SEPARATION_TARGET_STATE / DEPLOYMENT_TARGET_STATE
  pc, hold,   \* a task waits for a target, or holds the actuated angle
  powered,    \* RecoveryActuator.active: power pin high, channels enabled
  angle,      \* the angle both channels of an actuator are set to
  status,     \* *_SERVO_STATUS: powered or not, NoVal before the first
  occurred,   \* SEPARATION_OCCURRED / DEPLOYMENT_OCCURRED
  responding, \* a response task: idle, waiting for the transmitter, sending
  tx,         \* who holds the transmitter's mutex, NoVal if nobody
  triggers, pushed, announced   \* history: triggers, moves and announcements

servoVars == <<target, pc, hold, powered, angle, status>>
txVars    == <<responding, tx, announced>>
vars == <<servoVars, occurred, txVars, triggers, pushed>>

Init ==
  /\ target = [a \in Actuator |-> EmptyWatch]
  /\ pc = [a \in Actuator |-> "wait"] /\ hold = 0
  /\ powered = [a \in Actuator |-> FALSE]
  /\ angle = [a \in Actuator |-> "unset"]
  /\ status = [a \in Actuator |-> NoVal]
  /\ occurred = [a \in Actuator |-> EmptyWatch]
  /\ responding = [a \in Actuator |-> "idle"] /\ tx = NoVal
  /\ triggers = [a \in Actuator |-> 0]
  /\ pushed = [a \in Actuator |-> 0]
  /\ announced = [a \in Actuator |-> 0]

-----------------------------------------------------------------------------
(* The CAN loop of main.                                                   *)

\* ServoTargetState::powered.
RestingState(enabled) == IF enabled THEN "PoweredOn" ELSE "PoweredOff"

\* RecoveryPowerConfig: one frame sets the target of both actuators.
ReceivePowerConfig(enabled) ==
  /\ target' = [a \in Actuator |-> Send(RestingState(enabled[a]))]
  /\ UNCHANGED <<pc, hold, powered, angle, status, occurred, txVars, triggers, pushed>>

\* Mutant: a trigger frame fires both actuators.
ReceiveTriggerBoth(a) ==
  /\ triggers[a] < MaxTriggers[a]
  /\ target' = [b \in Actuator |-> Send("Actuated")]
  /\ triggers' = [triggers EXCEPT ![a] = @ + 1]
  /\ UNCHANGED <<pc, hold, powered, angle, status, occurred, txVars, pushed>>

\* SeparationTrigger / DeploymentTrigger.
ReceiveTrigger(a) ==
  /\ triggers[a] < MaxTriggers[a]
  /\ target' = [target EXCEPT ![a] = Send("Actuated")]
  /\ triggers' = [triggers EXCEPT ![a] = @ + 1]
  /\ UNCHANGED <<pc, hold, powered, angle, status, occurred, txVars, pushed>>

\* ResetAll, or ResetSpecific with this board's id: sys_reset.
ReceiveReset ==
  /\ target' = [a \in Actuator |-> EmptyWatch]
  /\ pc' = [a \in Actuator |-> "wait"] /\ hold' = 0
  /\ powered' = [a \in Actuator |-> FALSE]
  /\ angle' = [a \in Actuator |-> "unset"]
  /\ status' = [a \in Actuator |-> NoVal]
  /\ occurred' = [a \in Actuator |-> EmptyWatch]
  /\ responding' = [a \in Actuator |-> "idle"] /\ tx' = NoVal
  /\ triggers' = [a \in Actuator |-> 0]
  /\ pushed' = [a \in Actuator |-> 0]
  /\ announced' = [a \in Actuator |-> 0]

-----------------------------------------------------------------------------
(* The separation and the deployment task.                                 *)

\* RecoveryActuator::set_angle: a servo that is not enabled refuses, and the
\* tasks ignore the error.
SetAngle(a, x) == angle' = IF powered'[a] THEN [angle EXCEPT ![a] = x] ELSE angle

\* Takes the target and leaves the task waiting; publishes the status.
Take(a, s) ==
  /\ pc[a] = "wait" /\ target[a].new /\ target[a].val = s
  /\ target' = [target EXCEPT ![a] = Seen(@)]
PublishStatus(a) == status' = [status EXCEPT ![a] = powered'[a]]

SwitchOff(a) ==
  /\ Take(a, "PoweredOff")
  /\ powered' = [powered EXCEPT ![a] = FALSE]
  /\ PublishStatus(a)
  /\ UNCHANGED <<pc, hold, angle, occurred, txVars, triggers, pushed>>

\* Mutant: the angle is set without activating the servos.
SwitchOnInactive(a) ==
  /\ Take(a, "PoweredOn")
  /\ UNCHANGED powered
  /\ SetAngle(a, "initial")
  /\ PublishStatus(a)
  /\ UNCHANGED <<pc, hold, occurred, txVars, triggers, pushed>>

SwitchOn(a) ==
  /\ Take(a, "PoweredOn")
  /\ powered' = [powered EXCEPT ![a] = TRUE]
  /\ SetAngle(a, "initial")
  /\ PublishStatus(a)
  /\ UNCHANGED <<pc, hold, occurred, txVars, triggers, pushed>>

\* The separation task announces and goes straight on.
Separate ==
  /\ Take("separation", "Actuated")
  /\ powered' = [powered EXCEPT !["separation"] = TRUE]
  /\ SetAngle("separation", "actuated")
  /\ occurred' = [occurred EXCEPT !["separation"] = Send(TRUE)]
  /\ pushed' = [pushed EXCEPT !["separation"] = @ + 1]
  /\ PublishStatus("separation")
  /\ UNCHANGED <<pc, hold, txVars, triggers>>

\* Mutant: the deployment task does not wait with the servos pushed out.
DeployAtOnce ==
  /\ Take("deployment", "Actuated")
  /\ powered' = [powered EXCEPT !["deployment"] = TRUE]
  /\ SetAngle("deployment", "actuated")
  /\ occurred' = [occurred EXCEPT !["deployment"] = Send(TRUE)]
  /\ pushed' = [pushed EXCEPT !["deployment"] = @ + 1]
  /\ PublishStatus("deployment")
  /\ UNCHANGED <<pc, hold, txVars, triggers>>

\* The deployment task announces and then sleeps for 30 s.
Deploy ==
  /\ Take("deployment", "Actuated")
  /\ powered' = [powered EXCEPT !["deployment"] = TRUE]
  /\ SetAngle("deployment", "actuated")
  /\ occurred' = [occurred EXCEPT !["deployment"] = Send(TRUE)]
  /\ pushed' = [pushed EXCEPT !["deployment"] = @ + 1]
  /\ pc' = [pc EXCEPT !["deployment"] = "hold"] /\ hold' = HoldTicks
  /\ UNCHANGED <<status, txVars, triggers>>

\* The 30 s are over: retract, publish, and see what came in the meantime.
Retract ==
  /\ pc["deployment"] = "hold" /\ hold = 0
  /\ UNCHANGED powered
  /\ SetAngle("deployment", "initial")
  /\ pc' = [pc EXCEPT !["deployment"] = "wait"]
  /\ PublishStatus("deployment")
  /\ UNCHANGED <<target, hold, occurred, txVars, triggers, pushed>>

\* No target for a second: the status is published all the same.
IdleStatus(a) ==
  /\ pc[a] = "wait" /\ ~target[a].new
  /\ UNCHANGED powered
  /\ PublishStatus(a)
  /\ UNCHANGED <<target, pc, hold, angle, occurred, txVars, triggers, pushed>>

-----------------------------------------------------------------------------
(* The transmitter.                                                        *)

\* Mutant: the occurrence is read but stays unseen.
NoteOccurrenceAgain(a) ==
  /\ responding[a] = "idle" /\ occurred[a].new
  /\ responding' = [responding EXCEPT ![a] = "lock"]
  /\ UNCHANGED <<servoVars, occurred, tx, announced, triggers, pushed>>

\* A response task takes the occurrence out of its Watch.
NoteOccurrence(a) ==
  /\ responding[a] = "idle" /\ occurred[a].new
  /\ occurred' = [occurred EXCEPT ![a] = Seen(@)]
  /\ responding' = [responding EXCEPT ![a] = "lock"]
  /\ UNCHANGED <<servoVars, tx, announced, triggers, pushed>>

\* can_tx.lock().await of a response task.
LockResponse(a) ==
  /\ responding[a] = "lock" /\ tx = NoVal
  /\ tx' = a
  /\ responding' = [responding EXCEPT ![a] = "send"]
  /\ UNCHANGED <<servoVars, occurred, announced, triggers, pushed>>

\* transmit, an error of it, or its timeout: the mutex is released, and a
\* frame that was not sent is not sent again.
EndResponse(a, sent) ==
  /\ responding[a] = "send" /\ tx = a
  /\ tx' = NoVal
  /\ responding' = [responding EXCEPT ![a] = "idle"]
  /\ announced' = [announced EXCEPT ![a] = IF sent THEN @ + 1 ELSE @]
  /\ UNCHANGED <<servoVars, occurred, triggers, pushed>>

\* The status task and the broadcast loops, with their own timeouts.
LockOther(s) ==
  /\ s \in {"status", "broadcast"} /\ tx = NoVal
  /\ tx' = s
  /\ UNCHANGED <<servoVars, occurred, responding, announced, triggers, pushed>>

EndOther(s) ==
  /\ s \in {"status", "broadcast"} /\ tx = s
  /\ tx' = NoVal
  /\ UNCHANGED <<servoVars, occurred, responding, announced, triggers, pushed>>

-----------------------------------------------------------------------------
\* Time: only the 30 s matter; a due timer is served before time goes on.
Tick ==
  /\ pc["deployment"] = "hold" /\ hold > 0
  /\ hold' = hold - 1
  /\ UNCHANGED <<target, pc, powered, angle, status, occurred, txVars, triggers, pushed>>

Receive ==
  \/ \E enabled \in [Actuator -> BOOLEAN] : ReceivePowerConfig(enabled)
  \/ \E a \in Actuator : ReceiveTrigger(a)
  \/ ReceiveReset
Act(a) ==
  \/ SwitchOff(a) \/ SwitchOn(a)
  \/ a = "separation" /\ Separate
  \/ a = "deployment" /\ (Deploy \/ Retract)
Respond(a) == NoteOccurrence(a) \/ LockResponse(a) \/ \E sent \in BOOLEAN : EndResponse(a, sent)

Next ==
  \/ Receive
  \/ \E a \in Actuator : Act(a) \/ IdleStatus(a) \/ Respond(a)
  \/ \E s \in Sender : LockOther(s) \/ EndOther(s)
  \/ Tick

\* Tasks that are ready are polled.  The transmitter is handed over fairly:
\* its other users sleep between two messages and a release wakes who waits.
Fairness ==
  /\ \A a \in Actuator : WF_vars(Act(a)) /\ SF_vars(Respond(a))
  /\ \A s \in Sender : WF_vars(EndOther(s))
  /\ WF_vars(Tick)

Spec == Init /\ [][Next]_vars
FairSpec == Spec /\ Fairness

-----------------------------------------------------------------------------
(* Properties.                                                             *)

\* The state of every variable.
TypeOK ==
  /\ target \in [Actuator -> WatchOf(TargetState)]
  /\ pc \in [Actuator -> {"wait", "hold"}] /\ hold \in 0..HoldTicks
  /\ powered \in [Actuator -> BOOLEAN] /\ angle \in [Actuator -> Angle]
  /\ status \in [Actuator -> BOOLEAN \cup {NoVal}]
  /\ occurred \in [Actuator -> WatchOf({TRUE})]
  /\ responding \in [Actuator -> {"idle", "lock", "send"}]
  /\ tx \in Sender \cup {NoVal}
  /\ triggers \in [Actuator -> Nat]
  /\ pushed \in [Actuator -> Nat] /\ announced \in [Actuator -> Nat]

Pending(a, s) == target[a].new /\ target[a].val = s
Count(b) == IF b THEN 1 ELSE 0

\* No parachute leaves without a trigger of its own: every push of an actuator
\* is paid for by one trigger frame for that actuator, the one still waiting
\* in the Watch included (main.rs, separation_task, deployment_task).
PushedOnTrigger ==
  \A a \in Actuator : pushed[a] + Count(Pending(a, "Actuated")) <= triggers[a]

\* Ground is told of a separation or a deployment at most once per push: the
\* announcements made, under way and waiting never exceed the pushes, though
\* two pushes may share one (SEPARATION_OCCURRED, DEPLOYMENT_OCCURRED).
AnnouncedOnPush ==
  \A a \in Actuator :
    announced[a] + Count(responding[a] # "idle") + Count(occurred[a].new) <= pushed[a]

\* A push of the deployment servos lasts its full 30 s, with power and pushed
\* out all that time, or ends with a reset of the board, whatever is received
\* meanwhile (deployment_task).
Restarted == target' = [a \in Actuator |-> EmptyWatch]
FullPush ==
  [][/\ pushed'["deployment"] > pushed["deployment"] => hold' = HoldTicks
     /\ pc["deployment"] = "hold" /\ pc'["deployment"] # "hold" => hold = 0 \/ Restarted
     /\ pc["deployment"] = "hold" =>
          powered["deployment"] /\ angle["deployment"] = "actuated"]_vars

\* Every command that is not replaced by a later one is carried out, after
\* the push under way has ended: this is what a separation or deployment
\* trigger, and a power-off, promise (separation_task, deployment_task).
Carried(a, s) ==
  CASE s = "PoweredOff" -> ~powered[a]
    [] s = "PoweredOn"  -> powered[a] /\ angle[a] = "initial"
    [] s = "Actuated"   -> powered[a] /\ angle[a] = "actuated"
CommandHonoured ==
  \A a \in Actuator, s \in TargetState :
    Pending(a, s) ~> (~target[a].new /\ Carried(a, s)) \/ target[a].val # s

\* An occurrence gets its turn on the transmitter, whoever else sends, unless
\* the board restarts first (separation_response_task, deployment_response_task).
OccurrenceSent ==
  \A a \in Actuator : occurred[a].new ~> (tx = a \/ occurred[a] = EmptyWatch)

\* What comes in is carried out and what happened goes out: both of the above.
CommandsAnswered == CommandHonoured /\ OccurrenceSent
=============================================================================
