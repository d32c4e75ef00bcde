--------------------------- MODULE Steering_proofs ---------------------------
(***************************************************************************)
(* Theorems about Steering, for every set of targets, every length of the  *)
(* timers (with the loop's lap shorter than the motors' start-up time) and *)
(* every pattern of bus faults.                                            *)
(***************************************************************************)
EXTENDS Steering, Common_proofs

\* How the power task gets from a command to the status flag.
PowerInv ==
  /\ PoweredBeforeDriven
  /\ ppc = "boot" => pwr /\ onTicks + bootLeft >= BootTicks
  /\ pwr /\ ppc = "wait" => powerStatus

\* A loop that still believes in motors that were switched off and on again
\* has not been at its top since, and the start-up time is not over.
LockInv ==
  active /\ pwr /\ ~locked =>
    ppc = "boot" /\ ~powerStatus /\ BootTicks - bootLeft <= sinceTop

\* What a move under way may command, and who ordered it.
GoalInv ==
  pc \in {"left", "right"} =>
    /\ spiral <=> wd.expired
    /\ spiral => goal = Spiral
    /\ ~spiral => \E t \in Targets : goal = Flip(t)

IInv == TypeOK /\ PowerInv /\ LockInv /\ GoalInv

-----------------------------------------------------------------------------
LEMMA FlipType == \A p \in Position : Flip(p) \in Position
  BY DEF Flip, Position

LEMMA WatchdogTypes ==
  ASSUME NEW w \in WatchdogType
  PROVE  /\ WatchdogCheck(w) \in WatchdogType
         /\ WatchdogStart(w) \in WatchdogType /\ WatchdogStart(w).expired = w.expired
         /\ WatchdogUpdate(w) \in WatchdogType /\ WatchdogUpdate(w).expired = w.expired
         /\ w.expired => WatchdogCheck(w).expired
<1> USE SteeringAssumption DEF WatchdogType
<1>1. WatchdogCheck(w) \in WatchdogType /\ (w.expired => WatchdogCheck(w).expired)
  BY DEF WatchdogCheck
<1>2. WatchdogStart(w) \in WatchdogType /\ WatchdogStart(w).expired = w.expired
  BY DEF WatchdogStart
<1>3. WatchdogUpdate(w) \in WatchdogType /\ WatchdogUpdate(w).expired = w.expired
  BY DEF WatchdogUpdate
<1> QED
  BY <1>1, <1>2, <1>3

LEMMA CappedType ==
  \A max \in Nat : \A n \in 0..max : Capped(n, max) \in 0..max /\ Capped(n, max) >= n
  BY DEF Capped

-----------------------------------------------------------------------------
LEMMA InitIInv == Init => IInv
<1> SUFFICES ASSUME Init PROVE IInv
  OBVIOUS
<1> USE SteeringAssumption DEF Init
<1>1. TypeOK
  <2>1. powerCmd \in WatchOf(PowerCmds) /\ target \in WatchOf(Targets)
    BY DEF WatchOf
  <2>2. wd \in WatchdogType
    BY DEF WatchdogType
  <2>3. tracked \in Position /\ actual \in Position
    BY DEF Position
  <2>4. silence \in 0..MaxSilence
    BY DEF MaxSilence
  <2>5. /\ ppc \in {"wait", "boot"}
        /\ pc \in {"sleep", "startup", "left", "right", "readLeft",
                   "readRight", "readRightOnly"}
        /\ watchdogState \in {NoVal, "Active", "Expired"}
    OBVIOUS
  <2>6. goal \in Position /\ report \in Position \cup {NoVal} /\ detected \subseteq Side
    OBVIOUS
  <2>7. bootLeft \in 0..BootTicks /\ faults \in 0..MaxFaults
        /\ sinceTop \in 0..IterTicks /\ onTicks \in 0..BootTicks
    OBVIOUS
  <2>8. /\ pwr \in BOOLEAN /\ powerStatus \in BOOLEAN /\ spiral \in BOOLEAN
        /\ active \in BOOLEAN /\ watchdogActive \in BOOLEAN
        /\ safetySpiralActive \in BOOLEAN /\ locked \in BOOLEAN
    OBVIOUS
  <2> QED
    BY <2>1, <2>2, <2>3, <2>4, <2>5, <2>6, <2>7, <2>8 DEF TypeOK
<1>2. PowerInv /\ LockInv /\ GoalInv
  BY DEF PowerInv, PoweredBeforeDriven, LockInv, GoalInv
<1> QED
  BY <1>1, <1>2 DEF IInv

\* The parts of a step that choose the next goal.
LEMMA ChooseGoalStep ==
  ASSUME TypeOK, ChooseGoal
  PROVE  /\ target' \in WatchOf(Targets)
         /\ goal' \in Position /\ spiral' \in BOOLEAN
         /\ watchdogActive' \in BOOLEAN
         /\ wd' \in WatchdogType
         /\ watchdogState' \in {NoVal, "Active", "Expired"}
         /\ pc' \in {"left", "readLeft"}
         /\ pc' = "left" =>
              /\ spiral' <=> wd'.expired
              /\ spiral' => goal' = Spiral
              /\ ~spiral' => \E t \in Targets : goal' = Flip(t)
         /\ wd.expired => wd'.expired
<1> USE SteeringAssumption DEF TypeOK
<1>1. CASE TakeTarget
  <2>1. target.val \in Targets /\ Seen(target) \in WatchOf(Targets)
    BY <1>1, WatchTypes DEF TakeTarget
  <2>2. Flip(target.val) \in Position
    BY <2>1, FlipType
  <2>3. ~wd.expired
    BY <1>1, WatchdogTypes DEF TakeTarget
  <2>4. /\ wd' \in WatchdogType
        /\ ~wd'.expired
    BY <1>1, <2>3, WatchdogTypes DEF TakeTarget
  <2> QED
    BY <1>1, <2>1, <2>2, <2>3, <2>4 DEF TakeTarget
<1>2. CASE NoTarget
  BY <1>2 DEF NoTarget
<1>3. CASE TakeSpiral
  <2>1. wd' \in WatchdogType
    BY <1>3, WatchdogTypes DEF TakeSpiral
  <2> QED
    BY <1>3, <2>1 DEF TakeSpiral
<1> QED
  BY <1>1, <1>2, <1>3 DEF ChooseGoal

-----------------------------------------------------------------------------
LEMMA MoveStep ==
  ASSUME TypeOK, NEW s \in Side, NEW o \in Outcome, MoveAbsolute(s, o)
  PROVE  /\ tracked' \in Position /\ actual' \in Position
         /\ faults' \in 0..MaxFaults
         /\ tracked' = [tracked EXCEPT ![s] = goal[s]]
<1> USE SteeringAssumption DEF TypeOK, Position
<1>1. faults' \in 0..MaxFaults
  BY DEF MoveAbsolute, MoveOutcome, CleanMove, Outcome
<1>2. goal[s] \in Int /\ tracked[s] \in Int /\ actual[s] \in Int
  OBVIOUS
<1>3. tracked' \in Position
  BY <1>2 DEF MoveAbsolute
<1>4. actual' \in Position
  BY <1>2 DEF MoveAbsolute
<1> QED
  BY <1>1, <1>3, <1>4 DEF MoveAbsolute

LEMMA TypeStep == TypeOK /\ [Next]_vars => TypeOK'
<1> SUFFICES ASSUME TypeOK, [Next]_vars PROVE TypeOK'
  OBVIOUS
<1> USE SteeringAssumption DEF TypeOK, powerVars, loopVars, motorVars, readVars, history
<1>1. ASSUME NEW on \in PowerCmds, ReceivePower(on) PROVE TypeOK'
  BY <1>1, WatchTypes DEF ReceivePower
<1>2. ASSUME NEW t \in Targets, ReceiveTarget(t) PROVE TypeOK'
  BY <1>2, WatchTypes DEF ReceiveTarget, MaxSilence
<1>3. CASE PowerOn
  BY <1>3, WatchTypes DEF PowerOn
<1>4. CASE BootDone
  BY <1>4 DEF BootDone, MaxSilence
<1>5. CASE PowerOff
  BY <1>5, WatchTypes DEF PowerOff
<1>6. CASE Unpowered
  <2>1. detected' \subseteq Side
    BY <1>6 DEF Unpowered
  <2>2. active' \in BOOLEAN /\ watchdogActive' \in BOOLEAN /\ safetySpiralActive' \in BOOLEAN
    BY <1>6 DEF Unpowered
  <2>3. sinceTop' \in 0..IterTicks
    BY <1>6 DEF Unpowered
  <2> QED
    BY <1>6, <2>1, <2>2, <2>3 DEF Unpowered
<1>7. CASE BeginStartup
  BY <1>7 DEF BeginStartup
<1>8. CASE FinishStartup
  BY <1>8, ChooseGoalStep DEF FinishStartup, ChooseGoal
<1>9. CASE Iterate
  BY <1>9, ChooseGoalStep DEF Iterate, ChooseGoal
<1>10. ASSUME NEW o \in Outcome, SteerLeft(o) PROVE TypeOK'
  BY <1>10, MoveStep DEF SteerLeft, Side
<1>11. ASSUME NEW o \in Outcome, SteerRight(o) PROVE TypeOK'
  BY <1>11, MoveStep DEF SteerRight, Side
<1>12. CASE SkipRead
  BY <1>12 DEF SkipRead
<1>13. ASSUME NEW ok \in BOOLEAN, ReadLeft(ok) PROVE TypeOK'
  BY <1>13 DEF ReadLeft
<1>14. ASSUME NEW ok \in BOOLEAN, ReadRight(ok) PROVE TypeOK'
  BY <1>14, FlipType DEF ReadRight, Side
<1>15. CASE Tick
  BY <1>15, CappedType DEF Tick, MaxSilence, WatchdogType
<1>16. CASE UNCHANGED vars
  BY <1>16 DEF vars
<1> HIDE DEF TypeOK, powerVars, loopVars, motorVars, readVars, history
<1> QED
  BY <1>1, <1>2, <1>3, <1>4, <1>5, <1>6, <1>7, <1>8, <1>9, <1>10, <1>11,
     <1>12, <1>13, <1>14, <1>15, <1>16
     DEF Next, Receive, PowerTask, SteeringLoop, Readout

-----------------------------------------------------------------------------
\* Which variables of the power task an action of the loop leaves alone.
LEMMA LoopLeavesPower ==
  ASSUME SteeringLoop
  PROVE  UNCHANGED <<ppc, bootLeft, pwr, powerStatus, onTicks>>
BY DEF SteeringLoop, Readout, Unpowered, BeginStartup, FinishStartup, Iterate,
       ChooseGoal, SteerLeft, SteerRight, SkipRead, ReadLeft, ReadRight,
       powerVars, history

LEMMA PowerStep == TypeOK /\ PowerInv /\ [Next]_vars => PowerInv'
<1> SUFFICES ASSUME TypeOK, PowerInv, [Next]_vars PROVE PowerInv'
  OBVIOUS
<1> USE SteeringAssumption DEF PowerInv, PoweredBeforeDriven
<1>1. CASE Receive
  BY <1>1 DEF Receive, ReceivePower, ReceiveTarget, powerVars, history
<1>2. CASE PowerOn
  BY <1>2 DEF PowerOn, TypeOK
<1>3. CASE BootDone
  BY <1>3 DEF BootDone, TypeOK
<1>4. CASE PowerOff
  BY <1>4 DEF PowerOff, history
<1>5. CASE SteeringLoop
  BY <1>5, LoopLeavesPower
<1>6. CASE Tick
  BY <1>6 DEF Tick, Capped, TypeOK
<1>7. CASE UNCHANGED vars
  BY <1>7 DEF vars, powerVars, history
<1> QED
  BY <1>1, <1>2, <1>3, <1>4, <1>5, <1>6, <1>7 DEF Next, PowerTask

\* The lock can only be missing in a session the loop has not looked at yet,
\* and the loop looks before the start-up time is over.
LEMMA LockStep == TypeOK /\ PowerInv /\ LockInv /\ [Next]_vars => LockInv'
<1> SUFFICES ASSUME TypeOK, PowerInv, LockInv, [Next]_vars PROVE LockInv'
  OBVIOUS
<1> USE SteeringAssumption DEF LockInv
<1>1. CASE Receive
  BY <1>1 DEF Receive, ReceivePower, ReceiveTarget, powerVars, loopVars, history
<1>2. CASE PowerOn
  BY <1>2 DEF PowerOn, TypeOK, PowerInv, PoweredBeforeDriven, loopVars
<1>3. CASE BootDone
  BY <1>3 DEF BootDone, TypeOK, loopVars
<1>4. CASE PowerOff
  BY <1>4 DEF PowerOff, loopVars, history
<1>5. CASE Unpowered
  BY <1>5 DEF Unpowered
<1>6. CASE BeginStartup
  BY <1>6 DEF BeginStartup
<1>7. CASE FinishStartup
  BY <1>7 DEF FinishStartup, ChooseGoal, powerVars
<1>8. CASE Iterate
  <2>1. powerStatus
    BY <1>8 DEF Iterate
  <2>2. ~(active /\ pwr /\ ~locked)
    BY <2>1
  <2>3. UNCHANGED <<active, locked, pwr>>
    BY <1>8 DEF Iterate, ChooseGoal, powerVars
  <2> QED
    BY <2>2, <2>3
<1>9. CASE \E o \in Outcome : SteerLeft(o) \/ SteerRight(o)
  <2>1. UNCHANGED <<ppc, bootLeft, pwr, powerStatus, active, locked, sinceTop>>
    BY <1>9 DEF SteerLeft, SteerRight, powerVars, history
  <2> QED
    BY <2>1
<1>10. CASE Readout
  BY <1>10 DEF Readout, SkipRead, ReadLeft, ReadRight, powerVars, history
<1>11. CASE Tick
  BY <1>11 DEF Tick, TypeOK, loopVars
<1>12. CASE UNCHANGED vars
  BY <1>12 DEF vars, powerVars, loopVars, history
<1> QED
  BY <1>1, <1>2, <1>3, <1>4, <1>5, <1>6, <1>7, <1>8, <1>9, <1>10, <1>11, <1>12
     DEF Next, PowerTask, SteeringLoop

LEMMA GoalStep == TypeOK /\ GoalInv /\ [Next]_vars => GoalInv'
<1> SUFFICES ASSUME TypeOK, GoalInv, [Next]_vars PROVE GoalInv'
  OBVIOUS
<1>1. CASE Receive \/ PowerTask
  <2>1. UNCHANGED <<pc, goal, spiral, wd>>
    <3>1. CASE Receive
      BY <3>1 DEF Receive, ReceivePower, ReceiveTarget, loopVars
    <3>2. CASE PowerTask
      BY <3>2 DEF PowerTask, PowerOn, BootDone, PowerOff, loopVars
    <3> QED
      BY <1>1, <3>1, <3>2
  <2> QED
    BY <2>1 DEF GoalInv
<1>2. CASE FinishStartup \/ Iterate
  BY <1>2, ChooseGoalStep DEF FinishStartup, Iterate, GoalInv
<1>3. CASE Unpowered \/ BeginStartup
  BY <1>3 DEF Unpowered, BeginStartup, GoalInv
<1>4. CASE \E o \in Outcome : SteerLeft(o) \/ SteerRight(o)
  <2>1. UNCHANGED <<goal, spiral, wd>>
    BY <1>4 DEF SteerLeft, SteerRight
  <2>2. pc \in {"left", "right"}
    BY <1>4 DEF SteerLeft, SteerRight
  <2> QED
    BY <2>1, <2>2 DEF GoalInv
<1>5. CASE Readout
  BY <1>5 DEF Readout, SkipRead, ReadLeft, ReadRight, GoalInv
<1>6. CASE Tick
  <2>1. wd'.expired = wd.expired
    BY <1>6 DEF Tick, TypeOK, WatchdogType
  <2> QED
    BY <1>6, <2>1 DEF Tick, loopVars, GoalInv
<1>7. CASE UNCHANGED vars
  BY <1>7 DEF vars, loopVars, GoalInv
<1> QED
  BY <1>1, <1>2, <1>3, <1>4, <1>5, <1>6, <1>7 DEF Next, SteeringLoop

LEMMA StepIInv == IInv /\ [Next]_vars => IInv'
  BY TypeStep, PowerStep, LockStep, GoalStep DEF IInv

LEMMA Inductive == Spec => []IInv
  BY InitIInv, StepIInv, PTL DEF Spec

-----------------------------------------------------------------------------
\* steering_task keeps every variable in its range.
THEOREM TypeCorrect == Spec => []TypeOK
  BY Inductive, PTL DEF IInv

\* The power task never raises the status flag before the motors' MCUs had
\* their start-up time, however power commands come and are coalesced.
THEOREM MotorsBootFirst == Spec => []PoweredBeforeDriven
  BY Inductive, PTL DEF IInv, PowerInv

\* With a lap shorter than the start-up time, no power cycle escapes the
\* loop: motors it drives were started up since they got power.
THEOREM MotorsLockedFirst == Spec => []LockedWhileActive
<1>1. IInv => LockedWhileActive
  BY DEF IInv, PowerInv, PoweredBeforeDriven, LockInv, LockedWhileActive
<1> QED
  BY <1>1, Inductive, PTL

-----------------------------------------------------------------------------
(* The deadline of the safety spiral.                                      *)

\* What the loop may lag behind the silence of ground: a target waits for the
\* loop's next top, or for start-up and top; the watchdog's age counts
\* from the moment its target was taken; and at the last top an age beyond the
\* timer would have been an expiry.  The loop's flag never runs ahead of the
\* watchdog's.
LagInv ==
  /\ watchdogActive => wd.active
  /\ ~active => pc \in {"sleep", "startup"}
  /\ pc = "startup" => ~active
  /\ powerStatus /\ ~active => silence <= sinceTop + (IF pc = "startup" THEN IterTicks ELSE 0)
  /\ powerStatus /\ active /\ ~wd.expired /\ target.new => silence <= sinceTop
  /\ powerStatus /\ wd.active => silence <= wd.age + 2 * IterTicks \/ wd.age = Duration + 1
  /\ powerStatus /\ active /\ wd.active /\ ~wd.expired => silence <= Duration + 2 * IterTicks + sinceTop

LEMMA InitLag == Init => LagInv
BY DEF Init, LagInv

\* What taking a decision does to the watchdog and to the target.
LEMMA ChooseGoalWatchdog ==
  ASSUME TypeOK, watchdogActive => wd.active, ChooseGoal
  PROVE  /\ watchdogActive' => wd'.active
         /\ \/ /\ target.new /\ ~target'.new /\ wd'.active /\ wd'.age = 0 /\ ~wd'.expired /\ ~wd.expired
            \/ /\ ~target.new /\ target' = target /\ wd' = wd /\ (wd.active => wd.age <= Duration) /\ ~wd.expired
            \/ /\ wd'.expired /\ wd'.active = wd.active /\ wd'.age = wd.age /\ target' = target
               /\ wd.expired \/ (wd.active /\ wd.age > Duration)
<1> USE SteeringAssumption DEF TypeOK, WatchdogType
<1>1. CASE TakeTarget
  <2>1. ~wd.expired /\ target.new
    BY <1>1 DEF TakeTarget, WatchdogCheck
  <2>2. target' = [target EXCEPT !.new = FALSE]
    BY <1>1 DEF TakeTarget, Seen
  <2>3. ~target'.new
    <3>1. target \in [val : Targets, new : BOOLEAN]
      BY <2>1 DEF WatchOf, EmptyWatch
    <3> QED
      BY <2>2, <3>1
  <2>4. wd'.active /\ wd'.age = 0 /\ ~wd'.expired
    <3> DEFINE w == IF watchdogActive THEN wd ELSE WatchdogStart(wd)
    <3>1. w \in WatchdogType /\ w.active /\ ~w.expired
      BY <2>1 DEF WatchdogStart
    <3>2. wd' = WatchdogUpdate(w)
      BY <1>1 DEF TakeTarget
    <3> HIDE DEF w
    <3> QED
      BY <3>1, <3>2 DEF WatchdogUpdate
  <2> QED
    BY <2>1, <2>3, <2>4
<1>2. CASE NoTarget
  BY <1>2 DEF NoTarget, WatchdogCheck
<1>3. CASE TakeSpiral
  BY <1>3 DEF TakeSpiral, WatchdogCheck
<1> QED
  BY <1>1, <1>2, <1>3 DEF ChooseGoal

LEMMA LagStep == TypeOK /\ LagInv /\ [Next]_vars => LagInv'
<1> SUFFICES ASSUME TypeOK, LagInv, [Next]_vars PROVE LagInv'
  OBVIOUS
<1>0. /\ IterTicks \in Nat /\ Duration \in Nat /\ sinceTop \in 0..IterTicks /\ silence \in Nat
      /\ wd.age \in 0..(Duration + 1) /\ wd \in WatchdogType
  BY SteeringAssumption DEF TypeOK, WatchdogType, MaxSilence
<1>1. ASSUME NEW on \in PowerCmds, ReceivePower(on) PROVE LagInv'
  BY <1>1 DEF ReceivePower, powerVars, loopVars, history, LagInv
<1>2. ASSUME NEW t \in Targets, ReceiveTarget(t) PROVE LagInv'
  BY <1>0, <1>2 DEF ReceiveTarget, powerVars, loopVars, LagInv
<1>3. CASE PowerOn
  BY <1>3 DEF PowerOn, loopVars, LagInv
<1>4. CASE BootDone
  BY <1>0, <1>4 DEF BootDone, loopVars, LagInv
<1>5. CASE PowerOff
  BY <1>5 DEF PowerOff, loopVars, LagInv
<1>6. CASE Unpowered
  BY <1>6 DEF Unpowered, powerVars, LagInv
<1>7. CASE BeginStartup
  BY <1>0, <1>7 DEF BeginStartup, powerVars, history, LagInv
<1>8. CASE FinishStartup
  <2>1. /\ ChooseGoal /\ pc' \in {"left", "readLeft"} /\ active' /\ UNCHANGED <<powerStatus, silence, sinceTop>>
    BY <1>8, ChooseGoalStep DEF FinishStartup, ChooseGoal, powerVars
  <2>2. powerStatus => silence <= sinceTop + IterTicks
    BY <1>8 DEF FinishStartup, LagInv
  <2> QED
    BY <1>0, <2>1, <2>2, ChooseGoalWatchdog DEF LagInv
<1>9. CASE Iterate
  <2>1. /\ ChooseGoal /\ pc' \in {"left", "readLeft"} /\ active /\ active' /\ powerStatus
        /\ UNCHANGED <<powerStatus, silence>> /\ sinceTop' = 0
    BY <1>9, ChooseGoalStep DEF Iterate, ChooseGoal, powerVars
  <2>2. ~wd.expired /\ target.new => silence <= IterTicks
    BY <1>0, <2>1 DEF LagInv
  <2>3. wd.active /\ wd.age <= Duration => silence <= Duration + 2 * IterTicks
    BY <1>0, <2>1 DEF LagInv
  <2> QED
    BY <1>0, <2>1, <2>2, <2>3, ChooseGoalWatchdog DEF LagInv
<1>10. CASE \E o \in Outcome : SteerLeft(o) \/ SteerRight(o)
  <2>1. UNCHANGED <<target, powerStatus, active, watchdogActive, wd, sinceTop, silence>>
    BY <1>10 DEF SteerLeft, SteerRight, powerVars, history
  <2>2. pc \in {"left", "right"} /\ pc' \in {"right", "readLeft"}
    BY <1>10 DEF SteerLeft, SteerRight
  <2> QED
    BY <2>1, <2>2 DEF LagInv
<1>11. CASE Readout
  <2>1. UNCHANGED <<target, powerStatus, active, watchdogActive, wd, sinceTop, silence>>
    BY <1>11 DEF Readout, SkipRead, ReadLeft, ReadRight, powerVars, history
  <2>2. pc \in {"readLeft", "readRight", "readRightOnly"} /\ pc' \in {"sleep", "readRight", "readRightOnly"}
    BY <1>11 DEF Readout, SkipRead, ReadLeft, ReadRight
  <2> QED
    BY <2>1, <2>2 DEF LagInv
<1>12. CASE Tick
  <2>1. /\ UNCHANGED <<target, powerStatus, pc, active, watchdogActive>> /\ sinceTop' = sinceTop + 1
        /\ silence' <= silence + 1 /\ silence' \in Nat
    BY <1>0, <1>12, SteeringAssumption DEF Tick, loopVars, Capped, MaxSilence
  <2>2. /\ wd'.active = wd.active /\ wd'.expired = wd.expired
        /\ wd'.age = IF wd.age = Duration + 1 THEN wd.age ELSE wd.age + 1
    BY <1>0, <1>12 DEF Tick, Capped, WatchdogType
  <2>3. powerStatus /\ wd.active => silence' <= wd'.age + 2 * IterTicks \/ wd'.age = Duration + 1
    BY <1>0, <2>1, <2>2 DEF LagInv
  <2>4. powerStatus /\ ~active => silence' <= sinceTop' + (IF pc = "startup" THEN IterTicks ELSE 0)
    BY <1>0, <2>1 DEF LagInv
  <2>5. powerStatus /\ active /\ ~wd.expired /\ target.new => silence' <= sinceTop'
    BY <1>0, <2>1 DEF LagInv
  <2>6. powerStatus /\ active /\ wd.active /\ ~wd.expired => silence' <= Duration + 2 * IterTicks + sinceTop'
    BY <1>0, <2>1 DEF LagInv
  <2> QED
    BY <2>1, <2>2, <2>3, <2>4, <2>5, <2>6 DEF LagInv
<1>13. CASE UNCHANGED vars
  BY <1>13 DEF vars, powerVars, loopVars, history, LagInv
<1> QED
  BY <1>1, <1>2, <1>3, <1>4, <1>5, <1>6, <1>7, <1>8, <1>9, <1>10, <1>11, <1>12, <1>13
     DEF Next, Receive, PowerTask, SteeringLoop

LEMMA Lags == Spec => []LagInv
<1>1. IInv /\ LagInv /\ [Next]_vars => LagInv'
  BY LagStep DEF IInv
<1> QED
  BY <1>1, InitLag, Inductive, PTL DEF Spec

\* Whatever power commands, lost answers and start-ups come in between, a
\* session whose watchdog runs does not outlast the timer and three laps of
\* silence without the expiry (Watchdog::check at the top of the loop).
THEOREM SilenceExpires == Spec => []SpiralDeadline
<1>1. TypeOK /\ LagInv => SpiralDeadline
  BY SteeringAssumption DEF TypeOK, LagInv, SpiralDeadline, MaxSilence
<1>2. IInv => TypeOK
  BY DEF IInv
<1> QED
  BY <1>1, <1>2, Lags, Inductive, PTL

-----------------------------------------------------------------------------
(* The safety spiral and nothing sooner.                                   *)

\* With power that is never cut, the watchdog is as old as the silence unless a
\* target waits that the loop has not come to.
PettedInv ==
  /\ active \/ pc = "startup" \/ wd.active => powerStatus
  /\ wd.active /\ ~target.new => wd.age <= silence

LEMMA PettedStep ==
  ASSUME FALSE \notin PowerCmds
  PROVE  TypeOK /\ LagInv /\ PettedInv /\ [Next]_vars => PettedInv'
<1> SUFFICES ASSUME TypeOK, LagInv, PettedInv, [Next]_vars PROVE PettedInv'
  OBVIOUS
<1>0. /\ Duration \in Nat /\ IterTicks \in Nat /\ silence \in 0..MaxSilence /\ MaxSilence \in Nat
      /\ Duration + 1 <= MaxSilence
      /\ wd.age \in 0..(Duration + 1) /\ wd \in WatchdogType
  BY SteeringAssumption DEF TypeOK, WatchdogType, MaxSilence
<1>1. ASSUME NEW on \in PowerCmds, ReceivePower(on) PROVE PettedInv'
  BY <1>1 DEF ReceivePower, powerVars, loopVars, history, PettedInv
<1>2. ASSUME NEW t \in Targets, ReceiveTarget(t) PROVE PettedInv'
  BY <1>2 DEF ReceiveTarget, Send, powerVars, loopVars, PettedInv
<1>3. CASE PowerOn
  BY <1>3 DEF PowerOn, loopVars, PettedInv
<1>4. CASE BootDone
  BY <1>4 DEF BootDone, loopVars, PettedInv
<1>5. ~PowerOff
  <2>1. powerCmd.new => powerCmd.val \in PowerCmds
    BY WatchTypes DEF TypeOK
  <2> QED
    BY <2>1 DEF PowerOff
<1>6. CASE Unpowered \/ BeginStartup
  BY <1>6 DEF Unpowered, BeginStartup, powerVars, history, PettedInv
<1>7. CASE FinishStartup \/ Iterate
  <2>1. ChooseGoal /\ powerStatus' /\ UNCHANGED silence
    BY <1>7 DEF FinishStartup, Iterate, ChooseGoal, powerVars, PettedInv
  <2> QED
    BY <1>0, <2>1, ChooseGoalWatchdog DEF PettedInv, LagInv
<1>8. CASE (\E o \in Outcome : SteerLeft(o) \/ SteerRight(o)) \/ Readout
  BY <1>8 DEF SteerLeft, SteerRight, Readout, SkipRead, ReadLeft, ReadRight, powerVars, history, PettedInv
<1>9. CASE Tick
  <2>1. UNCHANGED <<target, powerStatus, pc, active>> /\ silence' = Capped(silence, MaxSilence)
    BY <1>9 DEF Tick, loopVars
  <2>2. wd'.active = wd.active /\ wd'.age = Capped(wd.age, Duration + 1)
    BY <1>0, <1>9 DEF Tick, WatchdogType
  <2> QED
    BY <1>0, <2>1, <2>2 DEF Capped, PettedInv
<1>10. CASE UNCHANGED vars
  BY <1>10 DEF vars, powerVars, loopVars, history, PettedInv
<1> QED
  BY <1>1, <1>2, <1>3, <1>4, <1>5, <1>6, <1>7, <1>8, <1>9, <1>10
     DEF Next, Receive, PowerTask, SteeringLoop

LEMMA ExpiryStep ==
  TypeOK /\ LagInv /\ PettedInv /\ [Next]_vars =>
    [~wd.expired /\ wd'.expired => silence > Duration \/ target.new]_vars
<1> SUFFICES ASSUME TypeOK, LagInv, PettedInv, [Next]_vars, ~wd.expired, wd'.expired
             PROVE  silence > Duration \/ target.new
  OBVIOUS
<1>1. wd' # wd
  OBVIOUS
<1>2. FinishStartup \/ Iterate
  <2>1. ~Receive /\ ~PowerTask
    BY <1>1 DEF Receive, ReceivePower, ReceiveTarget, PowerTask, PowerOn, BootDone, PowerOff
  <2>2. ~Tick
    BY DEF Tick, TypeOK, WatchdogType
  <2>3. ~(Unpowered \/ BeginStartup \/ Readout \/ \E o \in Outcome : SteerLeft(o) \/ SteerRight(o))
    BY <1>1 DEF Unpowered, BeginStartup, Readout, SkipRead, ReadLeft, ReadRight, SteerLeft, SteerRight
  <2>4. ~UNCHANGED vars
    BY <1>1 DEF vars
  <2> QED
    BY <2>1, <2>2, <2>3, <2>4 DEF Next, SteeringLoop
<1>3. wd.active /\ wd.age > Duration
  BY <1>2, ChooseGoalWatchdog DEF FinishStartup, Iterate, LagInv
<1> QED
  BY <1>3, SteeringAssumption DEF PettedInv, TypeOK, WatchdogType, MaxSilence

\* While the motors stay powered, ground keeps the parachute for as long as it
\* sends a target within every timer (Watchdog::update, Watchdog::check).
THEOREM NoEarlyExpiry ==
  ASSUME FALSE \notin PowerCmds
  PROVE  Spec => ExpiryNeedsSilence
<1>1. Init => PettedInv
  BY DEF Init, PettedInv
<1>2. IInv /\ LagInv /\ PettedInv /\ [Next]_vars => PettedInv'
  BY PettedStep DEF IInv
<1>3. IInv /\ LagInv /\ PettedInv /\ [Next]_vars =>
        [~wd.expired /\ wd'.expired => silence > Duration \/ target.new]_vars
  BY ExpiryStep DEF IInv
<1> QED
  BY <1>1, <1>2, <1>3, Inductive, Lags, PTL DEF Spec, ExpiryNeedsSilence

-----------------------------------------------------------------------------
LEMMA InitAuthority == Init => Authority!Init
  BY DEF Init, Authority!Init

\* A step that moves no motor and expires no watchdog is a stutter, the
\* watchdog's expiry is the take-over, and a move is one of the holder.
LEMMA StepAuthority ==
  IInv /\ [Next]_vars => [Authority!Next]_(Authority!authorityVars)
<1> SUFFICES ASSUME IInv, [Next]_vars
             PROVE  [Authority!Next]_(Authority!authorityVars)
  OBVIOUS
<1> DEFINE Stutter == wd'.expired = wd.expired /\ tracked' = tracked
<1>1. Stutter => UNCHANGED Authority!authorityVars
  BY DEF Authority!authorityVars
<1>2. CASE Receive \/ PowerTask
  <2>1. CASE Receive
    BY <1>1, <2>1 DEF Receive, ReceivePower, ReceiveTarget, motorVars
  <2>2. CASE PowerTask
    BY <1>1, <2>2 DEF PowerTask, PowerOn, BootDone, PowerOff, motorVars
  <2> QED
    BY <1>2, <2>1, <2>2
<1>3. CASE FinishStartup \/ Iterate
  <2>1. tracked' = tracked /\ ChooseGoal
    BY <1>3 DEF FinishStartup, Iterate, ChooseGoal, motorVars
  <2>2. wd.expired => wd'.expired
    BY <2>1, ChooseGoalStep DEF IInv
  <2>3. wd.expired \in BOOLEAN /\ wd'.expired \in BOOLEAN
    BY <2>1, ChooseGoalStep DEF IInv, TypeOK, WatchdogType
  <2>4. CASE wd'.expired = wd.expired
    BY <1>1, <2>1, <2>4
  <2>5. CASE ~wd.expired /\ wd'.expired
    BY <2>1, <2>5 DEF Authority!Next, Authority!TakeOver
  <2> QED
    BY <2>2, <2>3, <2>4, <2>5
<1>4. ASSUME NEW o \in Outcome, SteerLeft(o) \/ SteerRight(o)
      PROVE  Authority!Next
  <2>1. PICK s \in Side : MoveAbsolute(s, o) /\ pc \in {"left", "right"}
    BY <1>4 DEF SteerLeft, SteerRight, Side
  <2>2. wd' = wd
    BY <1>4 DEF SteerLeft, SteerRight
  <2>3. tracked' = [tracked EXCEPT ![s] = goal[s]]
    BY <2>1 DEF MoveAbsolute
  <2>4. CASE wd.expired
    <3>1. goal = Spiral
      BY <2>1, <2>4 DEF IInv, GoalInv
    <3> QED
      BY <2>2, <2>3, <2>4, <3>1
         DEF Authority!Next, Authority!SpiralSteers, Authority!Command
  <2>5. CASE ~wd.expired
    <3>1. PICK t \in Targets : goal = Flip(t)
      BY <2>1, <2>5 DEF IInv, GoalInv
    <3>2. goal \in {Flip(u) : u \in Targets}
      BY <3>1
    <3> QED
      BY <2>2, <2>3, <2>5, <3>2
         DEF Authority!Next, Authority!GroundSteers, Authority!Command
  <2> QED
    BY <2>4, <2>5
<1>5. CASE Unpowered \/ BeginStartup \/ Readout
  BY <1>1, <1>5 DEF Unpowered, BeginStartup, Readout, SkipRead, ReadLeft, ReadRight,
                    motorVars
<1>6. CASE Tick
  <2>1. wd'.expired = wd.expired
    BY <1>6 DEF Tick, IInv, TypeOK, WatchdogType
  <2> QED
    BY <1>1, <1>6, <2>1 DEF Tick, motorVars
<1>7. CASE UNCHANGED vars
  BY <1>1, <1>7 DEF vars, motorVars
<1> QED
  BY <1>2, <1>3, <1>4, <1>5, <1>6, <1>7 DEF Next, SteeringLoop

\* The steering changes hands at most once, from ground to the safety spiral,
\* and each holder commands only its own positions.
THEOREM OneHolder == Spec => ImplementsAuthority
  BY InitAuthority, StepAuthority, Inductive, PTL
     DEF Spec, ImplementsAuthority, Authority!Spec

-----------------------------------------------------------------------------
(* The safety spiral with power that is never cut and a bus that loses     *)
(* answers only.                                                           *)

NeverCut == FALSE \notin PowerCmds
AnswersOnly == "command" \notin MoveFaults

\* The motors are where they are counted, and the spiral is noted after its second half only.
ReachInv ==
  /\ pc # "sleep" => pwr
  /\ actual = tracked
  /\ pc = "right" => tracked["left"] = goal["left"]
  /\ safetySpiralActive => tracked = Spiral /\ pc \notin {"left", "right"} /\ wd.expired

\* A motor with power gets the command, so it moves by what its count moves.
LEMMA MovesAsCounted ==
  ASSUME AnswersOnly, TypeOK, pwr, actual = tracked,
         NEW s \in Side, NEW o \in Outcome, MoveAbsolute(s, o)
  PROVE  actual' = tracked' /\ tracked' = [tracked EXCEPT ![s] = goal[s]]
<1>1. o.delivered \in BOOLEAN /\ (~o.delivered => "command" \in MoveFaults)
  BY DEF MoveAbsolute, MoveOutcome, Outcome
<1>2. o.delivered
  BY <1>1 DEF AnswersOnly
<1>3. actual' = [actual EXCEPT ![s] = actual[s] + (goal[s] - tracked[s])]
      /\ tracked' = [tracked EXCEPT ![s] = goal[s]]
  BY <1>2 DEF MoveAbsolute
<1>4. goal[s] \in Int /\ tracked[s] \in Int
  BY DEF TypeOK, Position
<1>5. tracked[s] + (goal[s] - tracked[s]) = goal[s]
  BY <1>4
<1> QED
  BY <1>3, <1>5

LEMMA ReachStep ==
  ASSUME NeverCut, AnswersOnly, IInv, ReachInv, [Next]_vars
  PROVE  ReachInv'
<1> USE DEF IInv, ReachInv
<1>1. CASE Receive
  BY <1>1 DEF Receive, ReceivePower, ReceiveTarget, powerVars, loopVars, motorVars
<1>2. CASE PowerTask
  <2>1. CASE PowerOn \/ BootDone
    BY <2>1 DEF PowerOn, BootDone, loopVars, motorVars
  <2>2. ~PowerOff
    <3>1. ASSUME PowerOff PROVE FALSE
      <4>1. powerCmd.val \in PowerCmds /\ powerCmd.val = FALSE
        BY <3>1, WatchTypes DEF PowerOff, TypeOK
      <4> QED
        BY <4>1 DEF NeverCut
    <3> QED
      BY <3>1
  <2> QED
    BY <1>2, <2>1, <2>2 DEF PowerTask
<1>3. CASE Unpowered \/ BeginStartup
  BY <1>3 DEF Unpowered, BeginStartup, PowerInv, PoweredBeforeDriven, powerVars, motorVars
<1>4. CASE FinishStartup \/ Iterate
  <2>1. ChooseGoal /\ pwr /\ pc \in {"sleep", "startup"}
    BY <1>4 DEF FinishStartup, Iterate, PowerInv, PoweredBeforeDriven
  <2>2. UNCHANGED <<pwr, tracked, actual, safetySpiralActive>>
    BY <2>1 DEF ChooseGoal, powerVars, motorVars
  <2>3. pc' \in {"left", "readLeft"} /\ (wd.expired => wd'.expired)
    BY <2>1, ChooseGoalStep
  <2>4. ASSUME safetySpiralActive PROVE pc' # "left"
    <3>1. WatchdogCheck(wd).expired
      BY <2>4, WatchdogTypes DEF TypeOK
    <3>2. TakeSpiral
      BY <2>1, <3>1 DEF ChooseGoal, TakeTarget, NoTarget
    <3> QED
      BY <2>4, <3>2 DEF TakeSpiral
  <2> QED
    BY <2>1, <2>2, <2>3, <2>4
<1>5. ASSUME NEW o \in Outcome, SteerLeft(o) PROVE ReachInv'
  <2>1. /\ pc = "left" /\ MoveAbsolute("left", o) /\ pc' \in {"right", "readLeft"}
        /\ UNCHANGED <<pwr, goal, safetySpiralActive, wd>>
    BY <1>5 DEF SteerLeft, powerVars
  <2>2. pwr /\ ~safetySpiralActive /\ "left" \in Side
    BY <2>1 DEF Side
  <2>3. actual' = tracked' /\ tracked' = [tracked EXCEPT !["left"] = goal["left"]]
    BY <2>1, <2>2, MovesAsCounted
  <2>4. tracked'["left"] = goal["left"]
    BY <2>2, <2>3 DEF TypeOK, Position
  <2> QED
    BY <2>1, <2>2, <2>3, <2>4
<1>6. ASSUME NEW o \in Outcome, SteerRight(o) PROVE ReachInv'
  <2>1. /\ pc = "right" /\ MoveAbsolute("right", o) /\ pc' = "readLeft"
        /\ UNCHANGED <<pwr, goal, wd>>
        /\ safetySpiralActive' => safetySpiralActive \/ spiral
    BY <1>6 DEF SteerRight, powerVars
  <2>2. pwr /\ ~safetySpiralActive /\ "right" \in Side
    BY <2>1 DEF Side
  <2>3. actual' = tracked' /\ tracked' = [tracked EXCEPT !["right"] = goal["right"]]
    BY <2>1, <2>2, MovesAsCounted
  <2>4. spiral => goal = Spiral /\ wd.expired
    BY <2>1 DEF GoalInv
  <2>5. tracked' = goal
    <3>1. tracked["left"] = goal["left"] /\ tracked \in [Side -> Int] /\ goal \in [Side -> Int]
      BY <2>1 DEF TypeOK, Position
    <3>2. \A s \in Side : tracked'[s] = goal[s]
      BY <2>3, <3>1 DEF Side
    <3>3. tracked' \in [Side -> Int]
      BY <2>2, <2>3, <3>1
    <3> QED
      BY <3>1, <3>2, <3>3
  <2> QED
    BY <2>1, <2>2, <2>3, <2>4, <2>5
<1>7. CASE Readout
  BY <1>7 DEF Readout, SkipRead, ReadLeft, ReadRight, powerVars, motorVars
<1>8. CASE Tick
  <2>1. wd'.expired = wd.expired
    BY <1>8 DEF Tick, TypeOK, WatchdogType
  <2> QED
    BY <1>8, <2>1 DEF Tick, loopVars, motorVars
<1>9. CASE UNCHANGED vars
  BY <1>9 DEF vars, powerVars, loopVars, motorVars
<1> QED
  BY <1>1, <1>2, <1>3, <1>4, <1>5, <1>6, <1>7, <1>8, <1>9 DEF Next, SteeringLoop

\* A safety spiral that counts as reached is where the motors are, for every set
\* of targets, every timer and every interleaving, as long as the power is not
\* cut and the bus loses answers but no commands: what move_absolute assumes.
THEOREM SpiralIsReached ==
  ASSUME NeverCut, AnswersOnly
  PROVE  Spec => []SpiralReached
<1>1. Init => ReachInv
  BY DEF Init, ReachInv
<1>2. IInv /\ ReachInv /\ [Next]_vars => ReachInv'
  BY ReachStep
<1>3. ReachInv => SpiralReached
  BY DEF ReachInv, SpiralReached
<1> QED
  BY <1>1, <1>2, <1>3, Inductive, PTL DEF Spec
=============================================================================
