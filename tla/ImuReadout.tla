----------------------------- MODULE ImuReadout -----------------------------
(***************************************************************************)
(* The readout of one LSM6DSO32 inertial sensor of sensor carrier v3       *)
(* (tasks/readout/imu.rs over crates/devices/lsm6dso32).  The sensor pairs *)
(* an accelerometer word with a gyroscope word per sample period and puts  *)
(* both into a FIFO, which stops when it is full; the task reads it when   *)
(* the watermark interrupt rises or after LOOP_TIMEOUT, and dates the      *)
(* pairs by spreading them over the time since its last look.  Time is     *)
(* counted in sample periods; a word carries its age.                      *)
(***************************************************************************)
EXTENDS Integers, Sequences

CONSTANTS
    Capacity,        \* words the FIFO holds, and FIFO_BUFFER_SIZE (512)
    LowByte,         \* what the first of the two status registers counts (256)
    Watermark,       \* FIFO_WATERMARK, in words
    LoopTimeout,     \* LOOP_TIMEOUT
    Fraction,        \* microseconds of a sample period, or coarser: what a date is counted in
    MaxImuErrors,    \* MAX_CONSECUTIVE_ERRORS
    MaxDelay,        \* periods by which the executor may serve the task late
    MaxImuFaults     \* bound on failed transactions, resets and stalls

ASSUME ImuAssumption ==
    /\ {Capacity, LowByte} \subseteq Nat \ {0}
    /\ {Watermark, LoopTimeout, Fraction, MaxImuErrors, MaxDelay, MaxImuFaults} \subseteq Nat

Horizon == Capacity + MaxDelay + LoopTimeout   \* times are counted up to here

VARIABLES
    imuTask,   \* where the task is
    imuErrors, \* consecutive read errors
    imuStatus, \* IMU_STATUS
    mode,      \* FIFO mode of the sensor: "bypass", "fifo", or "stopped" when it got full
    fifo,      \* words in the FIFO: [tag, age]
    half,      \* the gyroscope word of the last sample is still to come
    sinceRead, \* periods since last_read
    waited,    \* periods since the task began to wait
    edge,      \* INT1 rose while the task waited
    level,     \* FIFO level as read so far
    span,      \* periods from batch_start to read_ts of the batch being read
    gap,       \* periods since read_ts
    stalled,   \* the executor does not serve the task for a long time
    intact,    \* since the configuration no data read failed and no level was too high
    moved,     \* since the last batch last_read was set with words left behind, or the FIFO got full
    out,       \* the pairs published by the last batch
    imuFaults

task_ == <<imuTask, imuErrors, imuStatus>>
chip == <<mode, fifo, half>>
batch == <<level, span, gap>>
imuVars == <<task_, chip, sinceRead, waited, edge, batch, stalled, intact, moved, out, imuFaults>>

ConfigureSequence == <<"reset", "who am I", "control", "bypass", "rates", "watermark", "fifo", "interrupts">>
Configuring == {"reset", "who am I", "control", "bypass", "rates", "watermark", "fifo", "interrupts"}
Reading == {"level low", "level high", "data"}

Word(t, a) == [tag |-> t, age |-> a]
Horizoned(n) == IF n > Horizon THEN Horizon ELSE n
Zero == Word("none", 0)     \* what an empty FIFO answers

-----------------------------------------------------------------------------
(* The sensor and time                                                     *)

\* A word goes into the FIFO: the watermark's edge counts while the task waits for
\* it, and a FIFO that got full takes no more.
Push(words, w) ==
    LET n == Len(words) + 1
    IN /\ fifo' = Append(words, w)
       /\ edge' = (edge \/ (imuTask = "wait" /\ n = Watermark))
       /\ moved' = (moved \/ n = Capacity)
       /\ mode' = IF n = Capacity THEN "stopped" ELSE mode

\* A period passes, and the sensor samples: the accelerometer's word comes first.
Due == imuTask = "wait" /\ (edge \/ waited >= LoopTimeout)
Late ==
    CASE imuTask = "wait" -> waited >= LoopTimeout + MaxDelay \/ (edge /\ Len(fifo) >= Watermark + 2 * MaxDelay)
      [] imuTask \in Reading -> gap >= 1
      [] imuTask = "interrupts" -> mode = "fifo" /\ fifo # <<>>
      [] OTHER -> FALSE

FifoAged == [i \in 1..Len(fifo) |-> [fifo[i] EXCEPT !.age = Horizoned(@ + 1)]]

Period ==
    /\ ~half /\ (stalled \/ ~Late)
    /\ sinceRead' = IF imuTask \in Reading \cup {"wait"} THEN Horizoned(sinceRead + 1) ELSE 0
    /\ waited' = IF imuTask = "wait" THEN Horizoned(waited + 1) ELSE 0
    /\ gap' = IF imuTask \in Reading THEN Horizoned(gap + 1) ELSE 0
    /\ IF mode = "fifo"
          THEN Push(FifoAged, Word("A", 0)) /\ half' = (mode' = "fifo")
          ELSE fifo' = FifoAged /\ UNCHANGED <<half, edge, mode, moved>>
    /\ UNCHANGED <<task_, level, span, stalled, intact, out, imuFaults>>

GyroWord ==
    /\ half
    /\ half' = FALSE
    /\ Push(fifo, Word("G", 0))
    /\ UNCHANGED <<task_, sinceRead, waited, batch, stalled, intact, out, imuFaults>>

(* A fault: the sensor loses its configuration, or the executor stalls.    *)
LoseConfiguration ==
    /\ imuFaults < MaxImuFaults
    /\ mode # "bypass"
    /\ mode' = "bypass" /\ fifo' = <<>> /\ half' = FALSE
    /\ imuFaults' = imuFaults + 1
    /\ UNCHANGED <<task_, sinceRead, waited, edge, batch, stalled, intact, moved, out>>

Stall ==
    /\ imuFaults < MaxImuFaults /\ ~stalled
    /\ stalled' = TRUE
    /\ imuFaults' = imuFaults + 1
    /\ UNCHANGED <<task_, chip, sinceRead, waited, edge, batch, intact, moved, out>>

ImuFault == imuFaults < MaxImuFaults /\ imuFaults' = imuFaults + 1
NoFault == UNCHANGED imuFaults

-----------------------------------------------------------------------------
(* Inactive::run: reset and configure until it works                       *)

NextStep(t) == ConfigureSequence[1 + CHOOSE i \in 1..8 : ConfigureSequence[i] = t]

ImuConfigure ==
    /\ imuTask \in Configuring
    /\ \/ /\ NoFault
          /\ mode' = CASE imuTask \in {"reset", "bypass"} -> "bypass"
                       [] imuTask = "fifo" -> "fifo"
                       [] OTHER -> mode
          /\ IF imuTask \in {"reset", "bypass"}
                THEN fifo' = <<>> /\ half' = FALSE
                ELSE UNCHANGED <<fifo, half>>
          /\ IF imuTask = "interrupts"
                THEN /\ imuTask' = "wait" /\ imuStatus' = "Active" /\ imuErrors' = 0
                     /\ sinceRead' = 0 /\ waited' = 0 /\ edge' = FALSE
                     /\ intact' = TRUE /\ moved' = (fifo # <<>>)
                     /\ out' = {}
                ELSE /\ imuTask' = NextStep(imuTask)
                     /\ UNCHANGED <<imuErrors, imuStatus, sinceRead, waited, edge, intact, moved, out>>
       \/ /\ ImuFault
          /\ imuTask' = "backoff"
          /\ UNCHANGED <<chip, imuErrors, imuStatus, sinceRead, waited, edge, intact, moved, out>>
    /\ stalled' = FALSE
    /\ UNCHANGED batch

ImuBackoff ==
    /\ imuTask = "backoff"
    /\ imuTask' = "reset"
    /\ stalled' = FALSE
    /\ UNCHANGED <<imuErrors, imuStatus, chip, sinceRead, waited, edge, batch, intact, moved, out, imuFaults>>

-----------------------------------------------------------------------------
(* Active::run and read_batch                                              *)

WaitAgain == waited' = 0 /\ edge' = FALSE
BatchDone == level' = 0 /\ span' = 0 /\ gap' = 0

\* The wait ends with the interrupt's edge or with LOOP_TIMEOUT.
WaitEnds ==
    /\ Due
    /\ imuTask' = "level low"
    /\ WaitAgain
    /\ stalled' = FALSE
    /\ UNCHANGED <<imuErrors, imuStatus, chip, sinceRead, batch, intact, moved, out, imuFaults>>

Erred ==
    /\ imuErrors' = imuErrors + 1
    /\ BatchDone
    /\ IF imuErrors + 1 < MaxImuErrors
          THEN imuTask' = "wait" /\ UNCHANGED imuStatus
          ELSE imuTask' = "reset" /\ imuStatus' = "Inactive"

EmptyFifo == Erred

\* read_fifo_level reads two registers, one after the other.
ReadLevelLow ==
    /\ imuTask = "level low"
    /\ \/ /\ NoFault
          /\ level' = Len(fifo) % LowByte
          /\ imuTask' = "level high"
          /\ UNCHANGED <<imuErrors, imuStatus, span, gap>>
       \/ ImuFault /\ Erred
    /\ stalled' = FALSE
    /\ UNCHANGED <<chip, sinceRead, waited, edge, intact, moved, out>>

\* Mutant: an odd level is not rounded down.
EntriesOdd(n) == IF n > Capacity THEN Capacity ELSE n

Entries(n) == 2 * ((IF n > Capacity THEN Capacity ELSE n) \div 2)

\* More than two samples from before last_read stay in the FIFO when n words leave it.
LeftBehind(n, since) == (Len(fifo) - n + 1) \div 2 > since + 2

ReadLevelHigh ==
    /\ imuTask = "level high"
    /\ LET n == Entries(LowByte * (Len(fifo) \div LowByte) + level)
       IN \/ /\ NoFault
             /\ sinceRead' = 0
             /\ IF n = 0
                   THEN EmptyFifo /\ moved' = TRUE /\ UNCHANGED intact
                   ELSE /\ imuTask' = "data"
                        /\ level' = n /\ span' = sinceRead /\ gap' = 0
                        /\ intact' = (intact /\ n <= Len(fifo))
                        /\ moved' = (moved \/ n > Len(fifo) \/ LeftBehind(n, 0))
                        /\ UNCHANGED <<imuErrors, imuStatus>>
          \/ ImuFault /\ Erred /\ UNCHANGED <<sinceRead, intact, moved>>
    /\ stalled' = FALSE
    /\ UNCHANGED <<chip, waited, edge, out>>

Rest(n) == SubSeq(fifo, n + 1, Len(fifo))
Read(n) == [i \in 1..n |-> IF i <= Len(fifo) THEN fifo[i] ELSE Zero]

Paired(a, b) == {a.tag, b.tag} = {"A", "G"}

PairDt(pairs) == (span * Fraction) \div pairs

\* What is published of pair i of a batch: how far apart its words were sampled,
\* and how much later than the accelerometer's sample it is dated.
Published(a, b, i, pairs) ==
    LET acc == IF a.tag = "A" THEN a ELSE b
        gyr == IF a.tag = "A" THEN b ELSE a
        date == gap * Fraction + span * Fraction - PairDt(pairs) * i    \* periods ago
    IN [nth |-> i, skew |-> acc.age - gyr.age, late |-> acc.age * Fraction - date,
        tags |-> <<acc.tag, gyr.tag>>,
        whole |-> intact, trusted |-> intact /\ ~moved]

ReadData ==
    /\ imuTask = "data"
    /\ \/ /\ NoFault
          /\ LET w == Read(level)
                 n == level \div 2
             IN out' = {Published(w[2 * i - 1], w[2 * i], i - 1, n) :
                           i \in {j \in 1..n : Paired(w[2 * j - 1], w[2 * j])}}
          /\ fifo' = Rest(level)
          /\ imuErrors' = 0 /\ imuTask' = "wait" /\ BatchDone
          /\ moved' = (mode # "fifo" \/ LeftBehind(level, sinceRead))
          /\ UNCHANGED <<imuStatus, intact>>
       \/ /\ ImuFault
          /\ Erred
          /\ \E n \in 0..level : fifo' = Rest(n)     \* the transfer broke off somewhere
          /\ intact' = FALSE /\ moved' = TRUE
          /\ UNCHANGED out
    /\ stalled' = FALSE
    /\ UNCHANGED <<mode, half, sinceRead, waited, edge>>

ImuTask == ImuConfigure \/ ImuBackoff \/ WaitEnds \/ ReadLevelLow \/ ReadLevelHigh \/ ReadData

-----------------------------------------------------------------------------
ImuInit ==
    /\ imuTask = "reset" /\ imuErrors = 0 /\ imuStatus = "Inactive"
    /\ mode \in {"bypass", "fifo"}          \* the MCU may have restarted alone
    /\ fifo = <<>> /\ half = FALSE
    /\ sinceRead = 0 /\ waited = 0 /\ edge = FALSE
    /\ level = 0 /\ span = 0 /\ gap = 0
    /\ stalled = FALSE /\ intact = TRUE /\ moved = FALSE
    /\ out = {} /\ imuFaults = 0

ImuNext == ImuTask \/ Period \/ GyroWord \/ LoseConfiguration \/ Stall

(* The executor serves the task, time passes and the sensor samples.       *)
ImuFairness == WF_imuVars(ImuTask) /\ WF_imuVars(Period) /\ WF_imuVars(GyroWord)

ImuSpec == ImuInit /\ [][ImuNext]_imuVars /\ ImuFairness

-----------------------------------------------------------------------------
(* A published pair holds the accelerometer and the gyroscope word of one  *)
(* sample, as long as no data read broke off and no level was read too     *)
(* high since the configuration; and whatever happened, it holds one word  *)
(* of each, at most one sample apart (read_batch pairs neighbours).  It is *)
(* dated within one period of its sample, but for what pair_dt_us rounds   *)
(* off once per pair, unless the FIFO got full, the batch before it failed *)
(* after last_read had moved, or the executor kept the task waiting        *)
(* between the two registers of the level, so that more than two samples   *)
(* from before last_read were left behind.                                 *)
PairsRight ==
    \A p \in out :
        /\ p.tags = <<"A", "G">>
        /\ p.skew \in -1..1
        /\ p.whole => p.skew = 0
        /\ p.trusted => p.late \in -(Fraction + p.nth)..Fraction

(* What a FIFO that stopped, or a sensor that lost its configuration, gets *)
(* back to: empty reads are errors, and errors lead to a configuration.    *)
FifoRuns == mode = "fifo" /\ imuStatus = "Active"
=============================================================================
