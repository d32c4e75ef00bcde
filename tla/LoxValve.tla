------------------------------ MODULE LoxValve ------------------------------
(***************************************************************************)
(* The LOX valve control board: main starts the motor controller, homes    *)
(* the valve against its endstop and only then spawns the task that moves  *)
(* the valve and the one that reads its position, which share the motor    *)
(* behind a mutex.  A Modbus master writes the target and reads position   *)
(* and status all the time, from before the motor is ready.                *)
(*                                                                         *)
(* An exchange with the motor controller (see EposLink) ends well or not;  *)
(* one that does not may or may not have had its effect.  The Modbus task  *)
(* awaits nothing while it holds the registers, so each request is one     *)
(* action.                                                                 *)
(***************************************************************************)
EXTENDS Integers, EmbassyWatch

CONSTANTS
  OpenPosition,   \* VALVE_OPEN_LIMIT in homing steps; closed is 0
  Rest,           \* where the valve may stand when the board starts
  MaxErrors,      \* bound on the exchanges that fail or time out
  MaxFaults       \* bound on the faults of the motor controller

ASSUME ValveAssumption ==
  /\ OpenPosition \in Nat /\ Rest \subseteq 0..OpenPosition
  /\ MaxErrors \in Nat /\ MaxFaults \in Nat

Position == 0..OpenPosition
Setup == {"profile", "mode", "enable"}
Boot == {"status", "reset", "pause"} \cup Setup \cup {"homing", "ready", "failed", "hung"}
Drive == {"booting", "fault", "off", "on"}

VARIABLES
  status,        \* DEVICE_STATUS
  boot,          \* where init_lox_valve_motor stands
  drive, goal, pos,   \* the motor controller: state, target, shaft position
  home,          \* HOME_POSITION_OFFSET, NoVal before homing
  target,        \* MOTOR_POSITION_WATCH
  controller, moving,   \* the controller task and the target it moves to
  updater, shown,       \* the updater task and the position register
  motor,         \* who holds LOX_VALVE_MOTOR
  errors, faults        \* counters

driveVars == <<drive, goal, pos>>
taskVars  == <<controller, moving, updater, shown, motor>>
vars == <<status, boot, driveVars, home, target, taskVars, errors, faults>>

Init ==
  /\ status = {"INITIALIZING"} /\ boot = "status"
  /\ drive \in {"booting", "fault", "off", "on"}
  /\ pos \in Rest /\ goal \in Position /\ (drive # "on" => goal = pos)
  /\ home = NoVal /\ target = EmptyWatch
  /\ controller = "none" /\ moving = NoVal
  /\ updater = "none" /\ shown = NoVal
  /\ motor = NoVal
  /\ errors = 0 /\ faults = 0

-----------------------------------------------------------------------------
(* The motor controller.                                                   *)

DriveBoots ==
  /\ drive = "booting"
  /\ drive' \in {"off", "fault"}
  /\ faults' = IF drive' = "fault" THEN faults + 1 ELSE faults
  /\ faults' <= MaxFaults
  /\ UNCHANGED <<status, boot, goal, pos, home, target, taskVars, errors>>

DriveFaults ==
  /\ drive = "on" /\ faults < MaxFaults
  /\ drive' = "fault" /\ faults' = faults + 1
  /\ UNCHANGED <<status, boot, goal, pos, home, target, taskVars, errors>>

\* The valve follows the target; the closed stop holds it.
DriveMoves ==
  /\ drive = "on" /\ goal # pos
  /\ pos' = IF goal > pos THEN pos + 1 ELSE pos - 1
  /\ pos' \in Position
  /\ UNCHANGED <<status, boot, drive, goal, home, target, taskVars, errors, faults>>

-----------------------------------------------------------------------------
(* The outcome of an exchange.                                             *)

\* epos_op_with_timeout, record_comm_ok: a success clears the error.
Succeeded(flags) == status' = flags \ {"MOTOR_COMM_ERROR"} /\ UNCHANGED errors

\* record_epos_error and the timeout.
Failed ==
  /\ errors < MaxErrors /\ errors' = errors + 1
  /\ status' = status \cup {"MOTOR_COMM_ERROR"}

\* The controller obeys a new target only while it is enabled.
Obeys(t) == goal' = IF drive = "on" THEN t ELSE goal

-----------------------------------------------------------------------------
(* init_lox_valve_motor.                                                   *)

bootUnchanged == UNCHANGED <<home, target, taskVars, faults>>

\* wait_for_motor_ready: "Get status".
MotorReady ==
  /\ boot = "status" /\ drive \in {"off", "on"}
  /\ boot' = "profile"
  /\ Succeeded(status \ {"MOTOR_DEVICE_FAULT"})
  /\ bootUnchanged /\ UNCHANGED driveVars

MotorInFault ==
  /\ boot = "status" /\ drive = "fault"
  /\ boot' = "reset"
  /\ Succeeded(status \cup {"MOTOR_DEVICE_FAULT"})
  /\ bootUnchanged /\ UNCHANGED driveVars

MotorNotYetReady ==
  /\ boot = "status" /\ drive = "booting"
  /\ boot' = "pause"
  /\ Succeeded(status)
  /\ bootUnchanged /\ UNCHANGED driveVars

StatusFails ==
  /\ boot = "status"
  /\ boot' = "reset"
  /\ Failed
  /\ bootUnchanged /\ UNCHANGED driveVars

\* "Reset node": its result is ignored, its effect on the status is not.
ResetNode ==
  /\ boot = "reset"
  /\ boot' = "pause"
  /\ \/ Succeeded(status) /\ drive' = "booting"
     \/ Failed /\ drive' \in {drive, "booting"}
  /\ bootUnchanged /\ UNCHANGED <<goal, pos>>

\* 200 ms, or 700 ms after an error.
AskAgain ==
  /\ boot = "pause"
  /\ boot' = "status"
  /\ bootUnchanged /\ UNCHANGED <<status, driveVars, errors>>

\* "Set PPM profile", "Set PPM mode", "Enable motor", one after the other.
\* Enabling goes through Shutdown, which stops a move that is under way.
After(step) ==
  CASE step = "profile" -> "mode" [] step = "mode" -> "enable" [] step = "enable" -> "homing"

SetUp ==
  /\ boot \in Setup
  /\ boot' = After(boot)
  /\ Succeeded(status)
  /\ IF boot = "enable" /\ drive \in {"off", "on"}
     THEN drive' = "on" /\ goal' = pos
     ELSE UNCHANGED <<drive, goal>>
  /\ bootUnchanged /\ UNCHANGED pos

\* An error is fatal: main clears INITIALIZING and goes no further.
SetUpFails ==
  /\ boot \in Setup
  /\ boot' = "failed"
  /\ errors < MaxErrors /\ errors' = errors + 1
  /\ status' = (status \cup {"MOTOR_COMM_ERROR"}) \ {"INITIALIZING"}
  /\ bootUnchanged /\ UNCHANGED driveVars

\* find_and_calibrate_home away from the endstop: position and a step back.
\* Its exchanges bypass the helper: no timeout, and no status.
HomingStep ==
  /\ boot = "homing" /\ pos # 0
  /\ Obeys(pos - 1)
  /\ bootUnchanged /\ UNCHANGED <<status, boot, drive, pos, errors>>

\* Mutant: the offset is stored without looking at the endstop.
HomingEndsAnywhere ==
  /\ boot = "homing"
  /\ Obeys(pos)
  /\ home' = pos
  /\ boot' = "ready" /\ status' = (status \ {"INITIALIZING"}) \cup {"READY"}
  /\ controller' = "wait" /\ updater' = "lock"
  /\ UNCHANGED <<drive, pos, target, moving, shown, motor, errors, faults>>

\* At the endstop: stop there, store the offset; main reports READY and
\* spawns the two tasks.
HomingEnds ==
  /\ boot = "homing" /\ pos = 0
  /\ Obeys(pos)
  /\ home' = pos
  /\ boot' = "ready" /\ status' = (status \ {"INITIALIZING"}) \cup {"READY"}
  /\ controller' = "wait" /\ updater' = "lock"
  /\ UNCHANGED <<drive, pos, target, moving, shown, motor, errors, faults>>

\* An error ends the initialization; an answer that never comes hangs it.
HomingFails ==
  /\ boot = "homing" /\ errors < MaxErrors /\ errors' = errors + 1
  /\ \/ boot' = "failed" /\ status' = status \ {"INITIALIZING"}
     \/ boot' = "hung" /\ UNCHANGED status
  /\ bootUnchanged /\ UNCHANGED driveVars

-----------------------------------------------------------------------------
(* The Modbus server.                                                      *)

\* A write that covers the target register, whatever the board is doing.
WriteTarget(p) ==
  /\ target' = Send(p)
  /\ UNCHANGED <<status, boot, driveVars, home, taskVars, errors, faults>>

-----------------------------------------------------------------------------
(* The controller and the updater task.                                    *)

\* receiver.changed()
TargetChanged ==
  /\ controller = "wait" /\ target.new
  /\ moving' = target.val /\ target' = Seen(target)
  /\ controller' = "lock"
  /\ UNCHANGED <<status, boot, driveVars, home, updater, shown, motor, errors, faults>>

\* The lock, and a target that came while the task waited for it.
StartMove ==
  /\ controller = "lock" /\ motor = NoVal
  /\ motor' = "controller"
  /\ controller' = "move"
  /\ moving' = IF target.new THEN target.val ELSE moving
  /\ target' = Seen(target)
  /\ UNCHANGED <<status, boot, driveVars, home, updater, shown, errors, faults>>

\* move_to_position_percent: a failed move is logged and forgotten.

\* Mutant: the motor is not released after a move.
MoveEndsLocked == controller' = "wait" /\ moving' = NoVal /\ UNCHANGED motor

MoveEnds == controller' = "wait" /\ moving' = NoVal /\ motor' = NoVal
Move ==
  /\ controller = "move"
  /\ \/ Succeeded(status) /\ Obeys(home + moving)
     \/ Failed /\ (Obeys(home + moving) \/ UNCHANGED goal)
  /\ MoveEnds
  /\ UNCHANGED <<boot, drive, pos, home, target, updater, shown, faults>>

StartRead ==
  /\ updater = "lock" /\ motor = NoVal
  /\ motor' = "updater" /\ updater' = "read"
  /\ UNCHANGED <<status, boot, driveVars, home, target, controller, moving, shown, errors, faults>>

\* get_position_percent, and the register on success.
Clamp(x) == IF x < 0 THEN 0 ELSE IF x > OpenPosition THEN OpenPosition ELSE x

ReadPosition ==
  /\ updater = "read"
  /\ \/ Succeeded(status) /\ shown' = Clamp(pos - home)
     \/ Failed /\ UNCHANGED shown
  /\ motor' = NoVal /\ updater' = "sleep"
  /\ UNCHANGED <<boot, driveVars, home, target, controller, moving, faults>>

\* The ticker of 50 ms.
NextRead ==
  /\ updater = "sleep" /\ updater' = "lock"
  /\ UNCHANGED <<status, boot, driveVars, home, target, controller, moving, shown, motor, errors, faults>>

-----------------------------------------------------------------------------
Initialize ==
  \/ MotorReady \/ MotorInFault \/ MotorNotYetReady \/ StatusFails \/ ResetNode \/ AskAgain
  \/ SetUp \/ SetUpFails \/ HomingStep \/ HomingEnds \/ HomingFails
Control == TargetChanged \/ StartMove \/ Move
Update  == StartRead \/ ReadPosition \/ NextRead

Next ==
  \/ DriveBoots \/ DriveFaults \/ DriveMoves
  \/ Initialize
  \/ \E p \in Position : WriteTarget(p)
  \/ Control \/ Update

\* The drive and the tasks go on; the master writes more slowly than the
\* valve is moved and read, so that neither task keeps the motor for itself.
\* A homing step comes before the valve reaches it, and again after.
Proceed ==
  \/ MotorReady \/ MotorInFault \/ MotorNotYetReady \/ ResetNode \/ AskAgain
  \/ SetUp \/ HomingEnds
Fairness ==
  /\ WF_vars(DriveBoots) /\ WF_vars(DriveMoves)
  /\ WF_vars(Proceed) /\ WF_vars(HomingStep)
  /\ SF_vars(StartMove) /\ SF_vars(StartRead)
  /\ WF_vars(Control) /\ WF_vars(Update)

Spec == Init /\ [][Next]_vars
FairSpec == Spec /\ Fairness

-----------------------------------------------------------------------------
(* Properties.                                                             *)

\* The valve is moved for the master only by a board that reports READY, and
\* that has found the endstop: targets count from where the valve is closed
\* (main, find_and_calibrate_home).
MovedOnlyWhenHomed ==
  controller # "none" =>
    /\ status \cap {"INITIALIZING", "READY"} = {"READY"}
    /\ home = 0

\* A target the master writes is where the valve is sent, and where it comes
\* to rest, unless it is replaced, an exchange fails, the motor controller is
\* in fault or the board never gets ready.
TargetReached ==
  \A p \in Position, n \in 0..MaxErrors :
    (target.val = p /\ target.new /\ errors = n) ~>
      (pos = p \/ target.val # p \/ errors > n \/ drive = "fault" \/ boot \in {"failed", "hung"})

\* The position register ends up with the position the valve rests at.
PositionShown ==
  \A p \in Position :
    <>[](boot = "ready" /\ pos = p) => <>[](shown = p)

\* The valve and what the board shows of it settle: both of the above.
ValveSettles == TargetReached /\ PositionShown

\* MOTOR_INIT_FAILED: "a fatal, unrecoverable error occurred during motor
\* initialization".
InitFailureReported == boot = "failed" => "MOTOR_INIT_FAILED" \in status
=============================================================================
