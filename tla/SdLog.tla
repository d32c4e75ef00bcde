------------------------------- MODULE SdLog -------------------------------
(***************************************************************************)
(* The SD logging task of the sensor carrier: sessions that mount the      *)
(* card, subscribe to the sample channels, take one reading at a time,     *)
(* append it to the file of its kind (see CsvLog) and once per period      *)
(* write down what was dropped and flush.  Any card operation may fail;    *)
(* that ends the session, and a new one starts after five seconds.         *)
(*                                                                         *)
(* The publishers run at a higher priority and never wait: a channel that  *)
(* is full loses its oldest reading, and the subscriber learns how many    *)
(* with its next read.  Only the counts matter here, not the readings.     *)
(***************************************************************************)
EXTENDS Integers, Functions, EmbassyWatch

CONSTANTS
  Kinds,         \* number of record kinds; kind 1 is polled first
  Capacity,      \* the capacity of each channel
  Oversized,     \* the kinds of which a row may exceed its buffer
  MaxPublished,  \* bound on the readings of a kind per session
  MaxSessions,   \* bound on the sessions
  MaxFailures    \* bound on the failures of the card

ASSUME SdAssumption ==
  /\ Kinds \in Nat \ {0} /\ Capacity \in [1..Kinds -> Nat \ {0}]
  /\ Oversized \subseteq 1..Kinds /\ NoVal \notin 1..Kinds
  /\ {MaxPublished, MaxSessions, MaxFailures} \subseteq Nat

Kind == 1..Kinds
Count == [Kind -> 0..MaxPublished]

VARIABLES
  at,            \* where the task stands
  current,       \* the kind of the reading in hand
  pending, lost, \* per channel: readings to take, readings overwritten since
  dropped,       \* dropped: losses since the last flush
  sessionDropped,
  due,           \* FLUSH_PERIOD has passed since last_flush
  logging, session,      \* SD_LOGGING, SD_SESSION
  failures, number,      \* counters; number is also the directory's
  published, written, flushed, reported, oversized  \* history, per session

signals == <<logging, session>>
history == <<published, written, flushed, reported, oversized>>
sdVars == <<at, current, pending, lost, dropped, sessionDropped, due, signals, failures, number, history>>

Zero == [k \in Kind |-> 0]
Sum(f) == SumFunctionOnSet(f, Kind)
Bump(f, k, n) == [f EXCEPT ![k] = @ + n]
InSession == at \in {"wait", "append", "drops", "flush"}

SdInit ==
  /\ at = "mount" /\ current = NoVal
  /\ pending = Zero /\ lost = Zero /\ dropped = Zero /\ sessionDropped = 0
  /\ due = FALSE
  /\ logging = FALSE /\ session = NoVal
  /\ failures = 0 /\ number = 0
  /\ published = Zero /\ written = Zero /\ flushed = Zero /\ reported = Zero
  /\ oversized = Zero

-----------------------------------------------------------------------------
(* The channels and the clock.                                             *)

\* publish_immediate: nothing is kept for a task that has not subscribed.
Publish(k) ==
  /\ InSession /\ published[k] < MaxPublished
  /\ published' = Bump(published, k, 1)
  /\ IF pending[k] < Capacity[k]
     THEN pending' = Bump(pending, k, 1) /\ UNCHANGED lost
     ELSE lost' = Bump(lost, k, 1) /\ UNCHANGED pending
  /\ UNCHANGED <<at, current, dropped, sessionDropped, due, signals, failures, number,
                 written, flushed, reported, oversized>>

PeriodPasses ==
  /\ InSession /\ ~due /\ due' = TRUE
  /\ UNCHANGED <<at, current, pending, lost, dropped, sessionDropped, signals, failures, number, history>>

-----------------------------------------------------------------------------
(* Sessions.                                                               *)

\* mount, next_log_dir, create_logs, and the subscriptions.
StartSession ==
  /\ at = "mount" /\ number < MaxSessions
  /\ at' = "wait" /\ number' = number + 1
  /\ pending' = Zero /\ lost' = Zero /\ dropped' = Zero /\ sessionDropped' = 0
  /\ due' = FALSE
  /\ published' = Zero /\ written' = Zero /\ flushed' = Zero /\ reported' = Zero
  /\ oversized' = Zero
  /\ logging' = logging
  /\ UNCHANGED <<current, session, failures>>

LoggingAfter == FALSE

\* Any card operation fails: of the mount, of an append or of a flush.
CardFails ==
  /\ at \in {"mount", "append", "drops", "flush"}
  /\ failures < MaxFailures /\ failures' = failures + 1
  /\ at' = "off" /\ current' = NoVal
  /\ logging' = LoggingAfter
  /\ UNCHANGED <<pending, lost, dropped, sessionDropped, due, session, number, history>>

\* Five seconds later.
Retry ==
  /\ at = "off" /\ at' = "mount"
  /\ UNCHANGED <<current, pending, lost, dropped, sessionDropped, due, signals, failures, number, history>>

-----------------------------------------------------------------------------
(* One lap of a session.                                                   *)

Ready(k) == pending[k] + lost[k] > 0

\* select6 and the marks: the first kind that is ready.
Polled(k) == Ready(k) /\ \A j \in 1..(k - 1) : ~Ready(j)

\* The check at the end of a lap: on to the flush, or wait again.
AfterRecord(d) ==
  IF ~due THEN "wait" ELSE IF Sum(d) > 0 THEN "drops" ELSE "flush"

\* Mutant: the losses of a kind are set to the last number that was told.
CountedLast(k) == [dropped EXCEPT ![k] = lost[k]]

Counted(k) == Bump(dropped, k, lost[k])

\* Lagged: the number of readings that were overwritten comes first.
TakeLagged(k) ==
  /\ at = "wait" /\ Polled(k) /\ lost[k] > 0
  /\ dropped' = Counted(k) /\ lost' = [lost EXCEPT ![k] = 0]
  /\ at' = AfterRecord(dropped')
  /\ UNCHANGED <<current, pending, sessionDropped, due, signals, failures, number, history>>

Take(k) ==
  /\ at = "wait" /\ Polled(k) /\ lost[k] = 0
  /\ pending' = Bump(pending, k, -1)
  /\ current' = k /\ at' = "append"
  /\ UNCHANGED <<lost, dropped, sessionDropped, due, signals, failures, number, history>>

\* A row that does not fit its buffer is skipped, and the check with it.
TakeOversized(k) ==
  /\ at = "wait" /\ Polled(k) /\ lost[k] = 0 /\ k \in Oversized
  /\ pending' = Bump(pending, k, -1)
  /\ oversized' = Bump(oversized, k, 1)
  /\ UNCHANGED <<at, current, lost, dropped, sessionDropped, due, signals, failures, number,
                 published, written, flushed, reported>>

AppendReading ==
  /\ at = "append"
  /\ written' = Bump(written, current, 1)
  /\ current' = NoVal
  /\ at' = AfterRecord(dropped)
  /\ UNCHANGED <<pending, lost, dropped, sessionDropped, due, signals, failures, number,
                 published, flushed, reported, oversized>>

\* The timer ends the wait when no reading does.
FlushTimer ==
  /\ at = "wait" /\ due /\ \A k \in Kind : ~Ready(k)
  /\ at' = AfterRecord(dropped)
  /\ UNCHANGED <<current, pending, lost, dropped, sessionDropped, due, signals, failures, number, history>>

\* DROPS.CSV
AppendDrops ==
  /\ at = "drops" /\ at' = "flush"
  /\ reported' = [k \in Kind |-> reported[k] + dropped[k]]
  /\ UNCHANGED <<current, pending, lost, dropped, sessionDropped, due, signals, failures, number,
                 published, written, flushed, oversized>>

Kept == Zero

\* Every log is flushed; the session's state is signalled.
FlushLogs ==
  /\ at = "flush" /\ at' = "wait"
  /\ flushed' = written
  /\ sessionDropped' = sessionDropped + Sum(dropped)
  /\ session' = [log |-> number, dropped |-> sessionDropped']
  /\ logging' = TRUE
  /\ dropped' = Kept
  /\ due' = FALSE
  /\ UNCHANGED <<current, pending, lost, failures, number, published, written, reported, oversized>>

-----------------------------------------------------------------------------
Session ==
  \/ \E k \in Kind : TakeLagged(k) \/ Take(k) \/ TakeOversized(k)
  \/ AppendReading \/ FlushTimer \/ AppendDrops \/ FlushLogs

SdNext ==
  \/ \E k \in Kind : Publish(k)
  \/ PeriodPasses
  \/ StartSession \/ CardFails \/ Retry
  \/ Session

\* The card is slow but answers, time passes.
SdFairness ==
  /\ WF_sdVars(PeriodPasses) /\ WF_sdVars(StartSession) /\ WF_sdVars(Retry) /\ WF_sdVars(Session)

SdSpec == SdInit /\ [][SdNext]_sdVars
SdFairSpec == SdSpec /\ SdFairness

-----------------------------------------------------------------------------
(* Properties.                                                             *)

\* Every reading published in a session is in its file, in hand, still in the
\* channel, skipped with a warning, or counted as dropped exactly once: in
\* DROPS.CSV or, until the next flush, in dropped.  SD_LOGGING is only true for
\* a session that runs and has been flushed; SD_SESSION then names it and
\* agrees with DROPS.CSV on what it dropped.
AccountedFor ==
  /\ InSession =>
       \A k \in Kind :
         LET counted == IF at = "flush" THEN reported[k] ELSE reported[k] + dropped[k] IN
         published[k] = written[k] + counted + pending[k] + lost[k] + oversized[k]
                        + (IF current = k THEN 1 ELSE 0)
  /\ logging =>
       /\ InSession
       /\ session.log = number
       /\ at # "flush" => session.dropped = Sum(reported)

\* When the sensors fall silent and the card works, every reading ends up in
\* a flushed file or among the reported losses.
AllOnCard ==
  <>[]InSession =>
    <>[](\A k \in Kind : published[k] = flushed[k] + reported[k] + oversized[k])
=============================================================================
