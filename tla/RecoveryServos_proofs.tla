----------------------- MODULE RecoveryServos_proofs ------------------------
(***************************************************************************)
(* Theorems about RecoveryServos, for every length of the push and every   *)
(* bound on the triggers.                                                  *)
(***************************************************************************)
EXTENDS RecoveryServos, Common_proofs

\* While the deployment task sleeps, its servos are powered and pushed out:
\* only the task itself touches them.
HoldInv == pc["deployment"] = "hold" => powered["deployment"] /\ angle["deployment"] = "actuated"

IInv == TypeOK /\ PushedOnTrigger /\ AnnouncedOnPush /\ HoldInv

-----------------------------------------------------------------------------
LEMMA CountType == \A b \in BOOLEAN : Count(b) \in 0..1 /\ (b <=> Count(b) = 1)
  BY DEF Count

\* The targets that reach the two Watches.
LEMMA TargetTypes ==
  ASSUME NEW s \in TargetState
  PROVE  Send(s) \in WatchOf(TargetState)
  BY WatchTypes

LEMMA TargetSeen ==
  ASSUME target \in [Actuator -> WatchOf(TargetState)], NEW a \in Actuator, target[a].new
  PROVE  Seen(target[a]) \in WatchOf(TargetState)
  BY WatchTypes

LEMMA InitTypeOK == Init => TypeOK
  BY ServosAssumption
  DEF Init, TypeOK, WatchOf, Angle, TargetState, Sender, Responder

LEMMA StepTypeOK == TypeOK /\ [Next]_vars => TypeOK'
<1> SUFFICES ASSUME TypeOK, [Next]_vars PROVE TypeOK'
  OBVIOUS
<1> USE ServosAssumption DEF TypeOK
<1>1. ASSUME NEW enabled \in [Actuator -> BOOLEAN], ReceivePowerConfig(enabled)
      PROVE  TypeOK'
  <2>1. \A a \in Actuator : RestingState(enabled[a]) \in TargetState
    BY DEF RestingState, TargetState
  <2>2. target' \in [Actuator -> WatchOf(TargetState)]
    BY <1>1, <2>1, TargetTypes DEF ReceivePowerConfig
  <2> QED
    BY <1>1, <2>2 DEF ReceivePowerConfig, txVars
<1>2. ASSUME NEW a \in Actuator, ReceiveTrigger(a)
      PROVE  TypeOK'
  <2>1. target' \in [Actuator -> WatchOf(TargetState)]
    BY <1>2, TargetTypes DEF ReceiveTrigger, TargetState
  <2> QED
    BY <1>2, <2>1 DEF ReceiveTrigger, txVars
<1>3. CASE ReceiveReset
  BY <1>3 DEF ReceiveReset, WatchOf, Angle
<1>4. ASSUME NEW a \in Actuator, SwitchOff(a)
      PROVE  TypeOK'
  BY <1>4, TargetSeen DEF SwitchOff, Take, PublishStatus, txVars
<1>5. ASSUME NEW a \in Actuator, SwitchOn(a)
      PROVE  TypeOK'
  BY <1>5, TargetSeen DEF SwitchOn, Take, PublishStatus, SetAngle, Angle, txVars
<1>6. \A a \in Actuator : [occurred EXCEPT ![a] = Send(TRUE)] \in [Actuator -> WatchOf({TRUE})]
  <2> DEFINE sent == Send(TRUE)
  <2>1. sent \in WatchOf({TRUE})
    BY WatchTypes
  <2> HIDE DEF sent
  <2>2. \A a \in Actuator : [occurred EXCEPT ![a] = sent] \in [Actuator -> WatchOf({TRUE})]
    BY <2>1
  <2> QED
    BY <2>2, Zenon DEF sent
<1>7. CASE Separate
  <2>1. target' \in [Actuator -> WatchOf(TargetState)]
    BY <1>7, TargetSeen DEF Separate, Take, Actuator
  <2>2. powered' \in [Actuator -> BOOLEAN]
    BY <1>7 DEF Separate
  <2>3. angle' \in [Actuator -> Angle] /\ status' \in [Actuator -> BOOLEAN \cup {NoVal}]
    BY <1>7, <2>2 DEF Separate, SetAngle, PublishStatus, Angle, Actuator
  <2>4. pushed' \in [Actuator -> Nat]
    BY <1>7 DEF Separate, Actuator
  <2>5. "separation" \in Actuator
    BY DEF Actuator
  <2>6. occurred' \in [Actuator -> WatchOf({TRUE})]
    BY <1>6, <1>7, <2>5, Zenon DEF Separate
  <2> QED
    BY <1>7, <2>1, <2>2, <2>3, <2>4, <2>6 DEF Separate, txVars
<1>8. CASE Deploy
  <2>1. target' \in [Actuator -> WatchOf(TargetState)]
    BY <1>8, TargetSeen DEF Deploy, Take, Actuator
  <2>2. powered' \in [Actuator -> BOOLEAN] /\ angle' \in [Actuator -> Angle]
    BY <1>8 DEF Deploy, SetAngle, Angle, Actuator
  <2>3. pushed' \in [Actuator -> Nat]
    BY <1>8 DEF Deploy, Actuator
  <2>4. "deployment" \in Actuator
    BY DEF Actuator
  <2>5. occurred' \in [Actuator -> WatchOf({TRUE})]
    BY <1>6, <1>8, <2>4, Zenon DEF Deploy
  <2>6. pc' \in [Actuator -> {"wait", "hold"}] /\ hold' \in 0..HoldTicks
    BY <1>8 DEF Deploy, Actuator
  <2> QED
    BY <1>8, <2>1, <2>2, <2>3, <2>5, <2>6 DEF Deploy, txVars
<1>9. CASE Retract
  BY <1>9 DEF Retract, PublishStatus, SetAngle, Angle, Actuator, txVars
<1>10. ASSUME NEW a \in Actuator, IdleStatus(a)
       PROVE  TypeOK'
  BY <1>10 DEF IdleStatus, PublishStatus, txVars
<1>11. ASSUME NEW a \in Actuator, NoteOccurrence(a)
       PROVE  TypeOK'
  BY <1>11, WatchTypes DEF NoteOccurrence, servoVars
<1>12. ASSUME NEW a \in Actuator, LockResponse(a)
       PROVE  TypeOK'
  BY <1>12 DEF LockResponse, Sender, Responder, servoVars
<1>13. ASSUME NEW a \in Actuator, NEW sent \in BOOLEAN, EndResponse(a, sent)
       PROVE  TypeOK'
  BY <1>13 DEF EndResponse, servoVars
<1>14. ASSUME NEW s \in Sender, LockOther(s) \/ EndOther(s)
       PROVE  TypeOK'
  BY <1>14 DEF LockOther, EndOther, servoVars
<1>15. CASE Tick
  BY <1>15 DEF Tick, txVars
<1>16. CASE UNCHANGED vars
  BY <1>16 DEF vars, servoVars, txVars
<1> QED
  BY <1>1, <1>2, <1>3, <1>4, <1>5, <1>7, <1>8, <1>9, <1>10, <1>11, <1>12, <1>13,
     <1>14, <1>15, <1>16
  DEF Next, Receive, Act, Respond

\* Every reachable state has the types the code gives it (actuator_control.rs).
THEOREM TypeCorrect == Spec => []TypeOK
  BY InitTypeOK, StepTypeOK, PTL DEF Spec

-----------------------------------------------------------------------------
(* PushedOnTrigger: the pending push of an actuator is counted until it is *)
(* made, and a newer target only ever takes one away.                      *)

LEMMA StepPushed == TypeOK /\ PushedOnTrigger /\ [Next]_vars => PushedOnTrigger'
<1> SUFFICES ASSUME TypeOK, PushedOnTrigger, [Next]_vars, NEW b \in Actuator
             PROVE  pushed'[b] + Count(Pending(b, "Actuated")') <= triggers'[b]
  BY DEF PushedOnTrigger
<1> USE DEF TypeOK
<1>1. /\ pushed[b] \in Nat /\ triggers[b] \in Nat
      /\ pushed[b] + Count(Pending(b, "Actuated")) <= triggers[b]
  BY DEF PushedOnTrigger
<1>2. CASE UNCHANGED <<pushed, triggers, target>>
  BY <1>1, <1>2 DEF Pending
<1>3. ASSUME NEW enabled \in [Actuator -> BOOLEAN], ReceivePowerConfig(enabled)
      PROVE  pushed'[b] + Count(Pending(b, "Actuated")') <= triggers'[b]
  BY <1>1, <1>3 DEF ReceivePowerConfig, RestingState, Send, Pending, Count
<1>4. ASSUME NEW a \in Actuator, ReceiveTrigger(a)
      PROVE  pushed'[b] + Count(Pending(b, "Actuated")') <= triggers'[b]
  BY <1>1, <1>4 DEF ReceiveTrigger, Send, Pending, Count
<1>5. CASE ReceiveReset
  BY <1>5 DEF ReceiveReset, EmptyWatch, Pending, Count
<1>6. ASSUME NEW a \in Actuator, SwitchOff(a) \/ SwitchOn(a)
      PROVE  pushed'[b] + Count(Pending(b, "Actuated")') <= triggers'[b]
  <2>1. /\ target[a].val # "Actuated" /\ Seen(target[a]).val = target[a].val
        /\ target' = [target EXCEPT ![a] = Seen(@)]
        /\ UNCHANGED <<pushed, triggers>>
    BY <1>6 DEF SwitchOff, SwitchOn, Take, Seen
  <2>2. Pending(b, "Actuated")' => Pending(b, "Actuated")
    BY <2>1 DEF Pending
  <2> QED
    BY <1>1, <2>1, <2>2 DEF Count
<1>7. CASE Separate
  BY <1>1, <1>7 DEF Separate, Take, Seen, Pending, Count
<1>8. CASE Deploy
  BY <1>1, <1>8 DEF Deploy, Take, Seen, Pending, Count
<1> QED
  BY <1>2, <1>3, <1>4, <1>5, <1>6, <1>7, <1>8
  DEF Next, Receive, Act, Respond, Retract, IdleStatus, NoteOccurrence, LockResponse,
      EndResponse, LockOther, EndOther, Tick, vars, servoVars

(* AnnouncedOnPush: an occurrence moves from the Watch to the response     *)
(* task and on to the bus, counted in one place at a time.                 *)

LEMMA StepAnnounced == TypeOK /\ AnnouncedOnPush /\ [Next]_vars => AnnouncedOnPush'
<1> DEFINE Paid(b) ==
      announced[b] + Count(responding[b] # "idle") + Count(occurred[b].new) <= pushed[b]
<1> SUFFICES ASSUME TypeOK, AnnouncedOnPush, [Next]_vars, NEW b \in Actuator
             PROVE  Paid(b)'
  BY DEF AnnouncedOnPush
<1> USE DEF TypeOK
<1>1. announced[b] \in Nat /\ pushed[b] \in Nat /\ Paid(b)
  BY DEF AnnouncedOnPush
<1>2. CASE UNCHANGED <<announced, responding, occurred, pushed>>
  BY <1>1, <1>2
<1>3. CASE ReceiveReset
  BY <1>3 DEF ReceiveReset, EmptyWatch, Count
<1>4. CASE Separate
  BY <1>1, <1>4 DEF Separate, txVars, Send, Count
<1>5. CASE Deploy
  BY <1>1, <1>5 DEF Deploy, txVars, Send, Count
<1>6. ASSUME NEW a \in Actuator, NoteOccurrence(a)
      PROVE  Paid(b)'
  BY <1>1, <1>6 DEF NoteOccurrence, Seen, Count
<1>7. ASSUME NEW a \in Actuator, LockResponse(a)
      PROVE  Paid(b)'
  BY <1>1, <1>7 DEF LockResponse, Count
<1>8. ASSUME NEW a \in Actuator, NEW sent \in BOOLEAN, EndResponse(a, sent)
      PROVE  Paid(b)'
  BY <1>1, <1>8 DEF EndResponse, Count
<1> QED
  BY <1>2, <1>3, <1>4, <1>5, <1>6, <1>7, <1>8
  DEF Next, Receive, Act, Respond, ReceivePowerConfig, ReceiveTrigger, SwitchOff, SwitchOn,
      Retract, IdleStatus, LockOther, EndOther, Tick, vars, txVars

(* HoldInv: the sleeping deployment task is the only one to write its      *)
(* servos, and the separation task writes only its own.                    *)

LEMMA StepHold == TypeOK /\ HoldInv /\ [Next]_vars => HoldInv'
<1> SUFFICES ASSUME TypeOK, HoldInv, [Next]_vars PROVE HoldInv'
  OBVIOUS
<1> USE DEF TypeOK, HoldInv, Actuator
<1>1. CASE UNCHANGED <<pc, powered, angle>>
  BY <1>1
<1>2. CASE ReceiveReset
  BY <1>2 DEF ReceiveReset
<1>3. ASSUME NEW a \in Actuator, SwitchOff(a) \/ SwitchOn(a)
      PROVE  HoldInv'
  BY <1>3 DEF SwitchOff, SwitchOn, Take, SetAngle
<1>4. CASE Separate
  BY <1>4 DEF Separate, SetAngle
<1>5. CASE Deploy
  BY <1>5 DEF Deploy, SetAngle
<1>6. CASE Retract
  BY <1>6 DEF Retract
<1> QED
  BY <1>1, <1>2, <1>3, <1>4, <1>5, <1>6
  DEF Next, Receive, Act, Respond, ReceivePowerConfig, ReceiveTrigger, IdleStatus,
      NoteOccurrence, LockResponse, EndResponse, LockOther, EndOther, Tick, vars, servoVars

-----------------------------------------------------------------------------
LEMMA Invariant == Spec => []IInv
<1>1. Init => IInv
  BY InitTypeOK
  DEF Init, IInv, PushedOnTrigger, AnnouncedOnPush, HoldInv, EmptyWatch, Pending, Count, Actuator
<1>2. IInv /\ [Next]_vars => IInv'
  BY StepTypeOK, StepPushed, StepAnnounced, StepHold DEF IInv
<1> QED
  BY <1>1, <1>2, PTL DEF Spec

\* No parachute leaves without a trigger of its own, however frames, tasks and
\* resets interleave (main.rs, separation_task, deployment_task).
THEOREM NoPushWithoutTrigger == Spec => []PushedOnTrigger
  BY Invariant, PTL DEF IInv

\* Ground is told of a separation or a deployment at most once per push
\* (separation_response_task, deployment_response_task).
THEOREM NoFalseAnnouncement == Spec => []AnnouncedOnPush
  BY Invariant, PTL DEF IInv

\* A push of the deployment servos lasts its full 30 s with power, or ends with
\* a reset of the board (deployment_task).
THEOREM PushesAreFull == Spec => FullPush
<1>1. ASSUME TypeOK, HoldInv, [Next]_vars
      PROVE  [/\ pushed'["deployment"] > pushed["deployment"] => hold' = HoldTicks
              /\ pc["deployment"] = "hold" /\ pc'["deployment"] # "hold" => hold = 0 \/ Restarted
              /\ pc["deployment"] = "hold" =>
                   powered["deployment"] /\ angle["deployment"] = "actuated"]_vars
  <2> USE <1>1 DEF TypeOK, HoldInv, Actuator
  <2>1. CASE UNCHANGED <<pushed, pc>>
    BY <2>1
  <2>2. CASE ReceiveReset
    BY <2>2 DEF ReceiveReset, Restarted
  <2>3. CASE Separate
    BY <2>3 DEF Separate
  <2>4. CASE Deploy
    BY <2>4 DEF Deploy, Take
  <2>5. CASE Retract
    BY <2>5 DEF Retract
  <2> QED
    BY <2>1, <2>2, <2>3, <2>4, <2>5
    DEF Next, Receive, Act, Respond, ReceivePowerConfig, ReceiveTrigger, SwitchOff, SwitchOn,
        IdleStatus, NoteOccurrence, LockResponse, EndResponse, LockOther, EndOther, Tick, vars,
        servoVars
<1> QED
  BY <1>1, Invariant, PTL DEF IInv, Spec, FullPush
=============================================================================
