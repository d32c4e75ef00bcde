--------------------------- MODULE BroadcastLoop ----------------------------
(***************************************************************************)
(* ResponsiveLoop of can-utils, the task that every board runs once per    *)
(* broadcast field: it waits for a new value of the field's Watch or for   *)
(* the resend period, throttles, takes the board's only transmitter and    *)
(* sends with a timeout.  Several loops share the transmitter.             *)
(*                                                                         *)
(* Time is counted in ticks, and passes only while no task can run: what   *)
(* is ready on the cooperative executor runs before a timer is due.        *)
(***************************************************************************)
EXTENDS Naturals, FiniteSets, EmbassyWatch

CONSTANTS
  Loop,         \* the fields broadcast by a board
  Value,        \* what each field may hold
  Filtered,     \* the values that a field's filter_map turns into None
  Throttle,     \* 1000 / max_freq_hz, in ticks
  Resend,       \* 1000 / min_freq_hz, in ticks; 0: min_freq_hz is 0, no resend
  TxTimeout,    \* TX_TIMEOUT
  Outcomes,     \* what may come of a transmission: "sent", "error", "timeout"
  MaxBurst,     \* bound on the values sent to a field within one tick
  Horizon       \* bound on the history counters age and gap

ASSUME LoopAssumption ==
  /\ Filtered \subseteq UNION {Value[f] : f \in Loop} /\ MaxBurst \in Nat
  /\ Throttle \in Nat /\ Resend \in Nat /\ TxTimeout \in Nat /\ Horizon \in Nat
  /\ Outcomes \subseteq {"sent", "error", "timeout"}

VARIABLES
  watch, burst,   \* the Watch of a field, and its values of this tick
  pc,      \* waiting for a change, for the first value, for the lock, sending
  timer,   \* how long the loop has been waiting
  msg,     \* the message it is about to send
  since,   \* ticks since last_sent, up to Throttle
  taken,   \* ticks since `now` was read for msg, up to Throttle
  tx, txTime,   \* holder of the transmitter's mutex, and for how long
  sent,    \* history: the value last sent
  \* History, for the properties only; any transmission that fails restarts both.
  age,     \* ticks since the field's value became unlike sent
  gap      \* ticks since the last transmission, while there is one to make

loopVars == <<pc, timer, msg, since, taken, tx, txTime>>
history  == <<sent, age, gap>>
broadcastVars == <<watch, burst, loopVars, history>>

LoopInit ==
  /\ watch = [f \in Loop |-> EmptyWatch] /\ burst = [f \in Loop |-> 0]
  /\ pc = [f \in Loop |-> "wait"] /\ timer = [f \in Loop |-> 0]
  /\ msg = [f \in Loop |-> NoVal]
  /\ since = [f \in Loop |-> 0] /\ taken = [f \in Loop |-> 0]
  /\ tx = NoVal /\ txTime = 0
  /\ sent = [f \in Loop |-> NoVal]
  /\ age = [f \in Loop |-> 0] /\ gap = [f \in Loop |-> 0]

\* Counts up to a bound.
Count(n, bound) == IF n < bound THEN n + 1 ELSE n

\* The firmware sends a value to the field.
Publish(f, v) ==
  /\ burst[f] < MaxBurst
  /\ burst' = [burst EXCEPT ![f] = @ + 1]
  /\ watch' = [watch EXCEPT ![f] = Send(v)]
  /\ age' = [age EXCEPT ![f] = IF v = watch[f].val THEN @ ELSE 0]
  /\ UNCHANGED <<loopVars, sent, gap>>

-----------------------------------------------------------------------------
(* One lap of the loop.                                                    *)

Again(f) ==
  /\ pc' = [pc EXCEPT ![f] = "wait"]
  /\ timer' = [timer EXCEPT ![f] = 0]

\* filter_map and the throttle: the value becomes a message, or is dropped.
Accept(f, v) ==
  /\ watch' = [watch EXCEPT ![f] = Seen(@)]
  /\ IF v \notin Filtered /\ since[f] >= Throttle
     THEN /\ pc' = [pc EXCEPT ![f] = "lock"]
          /\ msg' = [msg EXCEPT ![f] = v]
          /\ taken' = [taken EXCEPT ![f] = 0]
          /\ UNCHANGED timer
     ELSE Again(f) /\ UNCHANGED <<msg, taken>>
  /\ UNCHANGED <<burst, since, tx, txTime, history>>

\* watch.changed(): with_timeout polls it before the timer.
Changed(f) ==
  /\ pc[f] = "wait" /\ watch[f].new
  /\ Accept(f, watch[f].val)

\* The resend period is over: watch.get(), which waits only for a first value.
Due(f) == pc[f] = "wait" /\ ~watch[f].new /\ Resend > 0 /\ timer[f] = Resend

\* Mutant: the resend period only starts another one.
ResendValueNever(f) ==
  /\ Due(f) /\ watch[f] # EmptyWatch
  /\ Again(f)
  /\ UNCHANGED <<watch, burst, msg, since, taken, tx, txTime, history>>

ResendValue(f) ==
  /\ Due(f) /\ watch[f] # EmptyWatch
  /\ Accept(f, watch[f].val)
AwaitFirst(f) ==
  /\ Due(f) /\ watch[f] = EmptyWatch
  /\ pc' = [pc EXCEPT ![f] = "get"]
  /\ UNCHANGED <<watch, burst, timer, msg, since, taken, tx, txTime, history>>
GetFirst(f) ==
  /\ pc[f] = "get" /\ watch[f] # EmptyWatch
  /\ Accept(f, watch[f].val)

\* transmit.lock().await
Lock(f) ==
  /\ pc[f] = "lock" /\ tx = NoVal
  /\ tx' = f /\ txTime' = 0
  /\ pc' = [pc EXCEPT ![f] = "send"]
  /\ UNCHANGED <<watch, burst, timer, msg, since, taken, history>>

\* The transmission ends; only a success moves last_sent, to the `now` that
\* was read before the lock.
Sent(f) ==
  /\ pc[f] = "send" /\ "sent" \in Outcomes
  /\ since' = [since EXCEPT ![f] = taken[f]]
  /\ sent' = [sent EXCEPT ![f] = msg[f]]
  /\ gap' = [gap EXCEPT ![f] = 0]
  /\ age' = [age EXCEPT ![f] = IF watch[f].val = msg[f] THEN 0 ELSE @]
  /\ tx' = NoVal /\ Again(f)
  /\ UNCHANGED <<watch, burst, msg, taken, txTime>>

\* Mutant: a transmission that was not sent leaves the transmitter locked.
NotSentLeaks(f) ==
  /\ pc[f] = "send"
  /\ \/ "error" \in Outcomes
     \/ "timeout" \in Outcomes /\ txTime = TxTimeout
  /\ Again(f)
  /\ age' = [g \in Loop |-> 0] /\ gap' = [g \in Loop |-> 0]
  /\ UNCHANGED <<watch, burst, msg, since, taken, tx, txTime, sent>>

NotSent(f) ==
  /\ pc[f] = "send"
  /\ \/ "error" \in Outcomes
     \/ "timeout" \in Outcomes /\ txTime = TxTimeout
  /\ tx' = NoVal /\ Again(f)
  /\ age' = [g \in Loop |-> 0] /\ gap' = [g \in Loop |-> 0]
  /\ UNCHANGED <<watch, burst, msg, since, taken, txTime, sent>>

-----------------------------------------------------------------------------

\* What the executor runs before it lets time pass.
Ready(f) ==
  \/ pc[f] = "wait" /\ (watch[f].new \/ Due(f))
  \/ pc[f] = "get" /\ watch[f] # EmptyWatch
  \/ pc[f] = "lock" /\ tx = NoVal
  \/ pc[f] = "send" /\ txTime = TxTimeout

\* The value of the field still has to reach the bus.
Unsent(f) == watch[f].val \in Value[f] \ Filtered /\ watch[f].val # sent[f]

Tick ==
  /\ \A f \in Loop : ~Ready(f)
  /\ burst' = [f \in Loop |-> 0]
  /\ timer' = [f \in Loop |-> IF pc[f] = "wait" THEN Count(timer[f], Resend) ELSE timer[f]]
  /\ since' = [f \in Loop |-> Count(since[f], Throttle)]
  /\ taken' = [f \in Loop |-> Count(taken[f], Throttle)]
  /\ txTime' = IF \E f \in Loop : pc[f] = "send" THEN txTime + 1 ELSE txTime
  /\ age' = [f \in Loop |-> IF Unsent(f) THEN Count(age[f], Horizon) ELSE 0]
  /\ gap' = [f \in Loop |-> IF sent[f] = NoVal \/ watch[f].val \in Filtered
                              THEN 0 ELSE Count(gap[f], Horizon)]
  /\ UNCHANGED <<watch, pc, msg, tx, sent>>

LoopLap(f) ==
  \/ Changed(f) \/ ResendValue(f) \/ AwaitFirst(f) \/ GetFirst(f)
  \/ Lock(f) \/ Sent(f) \/ NotSent(f)

LoopNext ==
  \/ \E f \in Loop : \E v \in Value[f] : Publish(f, v)
  \/ \E f \in Loop : LoopLap(f)
  \/ Tick

\* Ready tasks run and time passes; a bus that is tried for ever delivers.
LoopFairness ==
  /\ WF_broadcastVars(Tick)
  /\ \A f \in Loop : WF_broadcastVars(LoopLap(f)) /\ SF_broadcastVars(Sent(f))

LoopSpec == LoopInit /\ [][LoopNext]_broadcastVars

-----------------------------------------------------------------------------
(* Properties.                                                             *)

\* The longest wait for the transmitter and the transmission after it.
SendTime == Cardinality(Loop) * TxTimeout

\* On a bus that delivers, a value that stays in its Watch is on the bus
\* within a bounded time, though the throttle discards values: the resend
\* period picks up what was discarded.  And a field that holds something to
\* send is on the bus again and again: two transmissions are no further apart
\* than the throttle, one resend period and one wait for the transmitter.
FreshWithin ==
  \A f \in Loop :
    /\ Unsent(f) => age[f] <= Resend + 2 * SendTime
    /\ gap[f] <= Throttle + Resend + SendTime

\* The doc of ResponsiveLoop: the minimum frequency is respected, so a field
\* is sent once per resend period and one wait for the transmitter.
MinFrequency == \A f \in Loop : gap[f] <= Resend + SendTime

\* Even on a bus that loses frames, the value a field settles on is the one
\* the other boards end up with.
SettledValueArrives ==
  \A f \in Loop : \A v \in Value[f] \ Filtered :
    <>[](watch[f].val = v) => <>[](sent[f] = v)
=============================================================================
