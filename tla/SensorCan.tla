----------------------------- MODULE SensorCan ------------------------------
(***************************************************************************)
(* The CAN tasks of sensor carrier v2 (can_impl.rs): one task per driver   *)
(* output, which sends a new value if its least period is over and drops   *)
(* it otherwise; one for the board's status and one for its build          *)
(* information, which send with a ticker; and the receiver, which resets   *)
(* the board.  They share one transmitter behind a mutex.  Writing a frame *)
(* waits for a free mailbox of the controller, or takes that of a frame of *)
(* lower priority, which is then never sent.                               *)
(*                                                                         *)
(* Time passes when no task can run and the bus has nothing to carry.      *)
(***************************************************************************)
EXTENDS EmbassyWatch, Integers, Sequences

CONSTANTS
  Field,        \* the outputs of the drivers that are sent
  Rank,         \* priority of each task's frames: the order of their identifiers
  MinPeriod,    \* task_config::*_MIN_PERIOD, in ticks
  SendTimeout,  \* task_config::TX_TIMEOUT, in ticks
  TickerPeriod,       \* STATUS_PERIOD and BUILD_INFO_PERIOD, in ticks
  Mailboxes,    \* how many frames the controller holds
  MaxLate,      \* bound on the periods a ticker has missed
  MaxBusFaults  \* bound on stalls of the bus and on resets

Ticking == {"status", "info"}
Task == Field \cup Ticking

ASSUME CanAssumption ==
  /\ Rank \in [Task -> Nat]
  /\ {MinPeriod, SendTimeout, MaxLate, MaxBusFaults} \subseteq Nat
  /\ {TickerPeriod, Mailboxes} \subseteq Nat \ {0}

VARIABLES
  output, fresh,  \* the Watch of a driver's output; whether it changed in this tick
  at,             \* "wait", "lock" (for the mutex) or "write"
  frame,          \* what the task is about to send
  since, now,     \* ticks since last_sent, and since now was read
  late, timer,    \* the tickers: periods over and not yet served; ticks of this period
  holder, heldFor,\* who holds the transmitter, and for how long
  boxes,          \* the frames in the controller
  bus,            \* "up" or "stalled"
  told,           \* the status that the bus carried last
  online,         \* the status of the sensors (update_status)
  busFaults

taskVars == <<at, frame, since, now, late, holder, heldFor>>
worldVars == <<bus, told, online, busFaults>>
canVars == <<output, fresh, taskVars, timer, boxes, worldVars>>

Upto(n, bound) == IF n < bound THEN n ELSE bound

Zeros == [f \in Field |-> 0]
Nothing == [f \in Field |-> EmptyWatch]
AllWaiting == [t \in Task |-> "wait"]
NoFrames == [t \in Task |-> NoVal]
FirstDue == [t \in Ticking |-> 1]
Quietly == [f \in Field |-> FALSE]

CanInit ==
  /\ output = Nothing /\ fresh = Quietly
  /\ at = AllWaiting /\ frame = NoFrames
  /\ since = Zeros /\ now = Zeros /\ late = FirstDue /\ timer = 0
  /\ holder = NoVal /\ heldFor = 0 /\ boxes = <<>>
  /\ bus \in {"up", "stalled"} /\ told = NoVal /\ online = FALSE /\ busFaults = 0

-----------------------------------------------------------------------------
(* One task                                                                *)

\* A new value is taken, and dropped if the last one was sent less than MinPeriod ago.
Take(f) ==
  /\ at[f] = "wait" /\ output[f].new
  /\ output' = [output EXCEPT ![f] = Seen(@)]
  /\ IF since[f] >= MinPeriod
     THEN /\ at' = [at EXCEPT ![f] = "lock"]
          /\ frame' = [frame EXCEPT ![f] = output[f].val]
          /\ now' = [now EXCEPT ![f] = 0]
     ELSE UNCHANGED <<at, frame, now>>
  /\ UNCHANGED <<fresh, since, late, timer, holder, heldFor, boxes, worldVars>>

\* The status is read before the transmitter is there to send it.
Sample(t) ==
  /\ at[t] = "wait" /\ late[t] > 0
  /\ late' = [late EXCEPT ![t] = @ - 1]
  /\ at' = [at EXCEPT ![t] = "lock"]
  /\ frame' = [frame EXCEPT ![t] = IF t = "status" THEN online ELSE TRUE]
  /\ UNCHANGED <<output, fresh, since, now, timer, holder, heldFor, boxes, worldVars>>

LockTx(t) ==
  /\ at[t] = "lock" /\ holder = NoVal
  /\ holder' = t /\ heldFor' = 0
  /\ at' = [at EXCEPT ![t] = "write"]
  /\ UNCHANGED <<output, fresh, frame, since, now, late, timer, boxes, worldVars>>

Lower(t) == {i \in DOMAIN boxes : Rank[boxes[i].task] < Rank[t]}
Writable(t) == Len(boxes) < Mailboxes \/ Lower(t) # {}

Release(t) ==
  /\ holder' = NoVal
  /\ heldFor' = 0
  /\ at' = [at EXCEPT ![t] = "wait"]
  /\ frame' = [frame EXCEPT ![t] = NoVal]
  /\ now' = IF t \in Field THEN [now EXCEPT ![t] = 0] ELSE now
  /\ UNCHANGED <<output, fresh, late, timer, worldVars>>

\* write_fd; the frame it pushes out is only logged.
Write(t) ==
  /\ at[t] = "write" /\ Writable(t)
  /\ LET box == [task |-> t, val |-> frame[t]]
     IN boxes' = IF Len(boxes) < Mailboxes
                 THEN Append(boxes, box)
                 ELSE [boxes EXCEPT ![CHOOSE i \in Lower(t) : \A j \in Lower(t) : i <= j] = box]
  /\ since' = IF t \in Field THEN [since EXCEPT ![t] = now[t]] ELSE since
  /\ Release(t)

TimesOut(t) ==
  at[t] = "write" /\ ~Writable(t) /\ t # "status" /\ heldFor >= SendTimeout

\* Mutant: a transmission that times out keeps the transmitter.
GiveUpHolding(t) ==
  /\ TimesOut(t)
  /\ at' = [at EXCEPT ![t] = "wait"]
  /\ UNCHANGED <<output, fresh, frame, since, now, late, timer, holder, heldFor, boxes,
                 worldVars>>

\* Only the status task has no timeout.
GiveUp(t) ==
  /\ TimesOut(t)
  /\ Release(t)
  /\ UNCHANGED <<boxes, since>>

CanTask(t) ==
  \/ t \in Field /\ Take(t)
  \/ t \in Ticking /\ Sample(t)
  \/ LockTx(t) \/ Write(t) \/ GiveUp(t)

-----------------------------------------------------------------------------
(* The bus, the drivers, the sensors and time                              *)

\* The controller sends the frame of the highest priority, of one task's the oldest.
Carry ==
  /\ bus = "up" /\ boxes # <<>>
  /\ LET first == CHOOSE i \in DOMAIN boxes :
           \A j \in DOMAIN boxes :
             Rank[boxes[j].task] < Rank[boxes[i].task]
             \/ (boxes[j].task = boxes[i].task /\ i <= j)
     IN /\ told' = IF boxes[first].task = "status" THEN boxes[first].val ELSE told
        /\ boxes' = SubSeq(boxes, 1, first - 1) \o SubSeq(boxes, first + 1, Len(boxes))
  /\ UNCHANGED <<output, fresh, taskVars, timer, bus, online, busFaults>>

\* A driver publishes once in a tick at most; what matters of a value is that it came.
PublishOutput(f) ==
  /\ ~fresh[f]
  /\ fresh' = [fresh EXCEPT ![f] = TRUE]
  /\ output' = [output EXCEPT ![f] = Send(TRUE)]
  /\ UNCHANGED <<taskVars, timer, boxes, worldVars>>

Flip ==
  /\ busFaults < MaxBusFaults /\ busFaults' = busFaults + 1
  /\ \/ online' = ~online /\ UNCHANGED bus
     \/ bus = "up" /\ bus' = "stalled" /\ UNCHANGED online
  /\ UNCHANGED <<output, fresh, taskVars, timer, boxes, told>>

BusBack ==
  /\ bus = "stalled" /\ bus' = "up"
  /\ UNCHANGED <<output, fresh, taskVars, timer, boxes, told, online, busFaults>>

\* can_rx_task: ResetAll, or ResetSpecific with this board's id; all else is ignored.
ResetReceived ==
  /\ busFaults < MaxBusFaults /\ busFaults' = busFaults + 1
  /\ bus = "up"
  /\ output' = Nothing /\ fresh' = Quietly
  /\ at' = AllWaiting /\ frame' = NoFrames
  /\ since' = Zeros /\ now' = Zeros /\ late' = FirstDue /\ timer' = 0
  /\ holder' = NoVal /\ heldFor' = 0 /\ boxes' = <<>>
  /\ online' = FALSE    \* the sensors are Inactive until they are initialised again
  /\ UNCHANGED <<bus, told>>

Runnable(t) ==
  \/ t \in Field /\ at[t] = "wait" /\ output[t].new
  \/ t \in Ticking /\ at[t] = "wait" /\ late[t] > 0
  \/ at[t] = "lock" /\ holder = NoVal
  \/ at[t] = "write" /\ (Writable(t) \/ TimesOut(t))

TickCan ==
  /\ \A t \in Task : ~Runnable(t)
  /\ ~(bus = "up" /\ boxes # <<>>)
  /\ fresh' = Quietly
  /\ since' = [f \in Field |-> Upto(since[f] + 1, MinPeriod)]
  /\ now' = [f \in Field |-> IF at[f] = "wait" THEN 0 ELSE Upto(now[f] + 1, MinPeriod)]
  /\ heldFor' = IF holder = NoVal THEN 0 ELSE Upto(heldFor + 1, SendTimeout)
  /\ timer' = (timer + 1) % TickerPeriod
  /\ late' = IF timer' = 0 THEN [t \in Ticking |-> Upto(late[t] + 1, MaxLate)] ELSE late
  /\ UNCHANGED <<output, at, frame, holder, boxes, worldVars>>

CanNext ==
  \/ \E t \in Task : CanTask(t)
  \/ \E f \in Field : PublishOutput(f)
  \/ Carry \/ Flip \/ BusBack \/ ResetReceived \/ TickCan

CanFairness ==
  /\ WF_canVars(\E t \in Task : CanTask(t)) /\ WF_canVars(Carry) /\ WF_canVars(TickCan)

CanSpec == CanInit /\ [][CanNext]_canVars /\ CanFairness

-----------------------------------------------------------------------------
\* The bus is up and carries the frames before a task finds the controller full.
KeepsUp == bus = "up" /\ (holder # NoVal => Len(boxes) < Mailboxes)

(* Once the bus keeps up again, whatever stalled it and whoever held the   *)
(* transmitter, the status it last carried becomes that of the sensors     *)
(* (status_task), the build information keeps coming, and an output that   *)
(* keeps changing keeps being sent (can_impl.rs pressure_task and others). *)
CanSettles ==
  <>[]KeepsUp =>
    /\ <>[](told = online)
    /\ []<>(at["info"] = "write")
    /\ \A f \in Field : []<>fresh[f] => []<>(at[f] = "write")
=============================================================================
