------------------------------ MODULE RsblLink ------------------------------
(***************************************************************************)
(* The RS-485 link of the recovery board to its two steering motors: one   *)
(* request at a time, written byte by byte and answered by one frame, read *)
(* out of a DMA ring buffer with a timeout per byte.  The frame carries    *)
(* the motor's id but the driver never compares it with the motor it       *)
(* asked.  The motors and the ring buffer are external: an answer may be   *)
(* lost, cut, corrupted, or arrive after the driver has given up.          *)
(***************************************************************************)
EXTENDS Integers, Sequences

CONSTANTS
    HeaderLen, DataLen,   \* bytes before the data of an answer, and of the sensor data
    JunkLen,              \* bound on the bytes a motor sends when it gets power
    MaxRequests,          \* bounds: requests, mishaps on the line
    MaxMishaps

ASSUME RsblAssumption ==
    /\ HeaderLen \in Nat \ {0} /\ {DataLen, JunkLen, MaxRequests, MaxMishaps} \subseteq Nat

Side == {"left", "right"}
Request == {"read", "write"}    \* read_data of the sensors; write_data, and ping

VARIABLES
    phase,     \* off, start, idle, read, clear
    asked,     \* the request under way: [n, side, kind]
    rx,        \* the ring buffer
    awaited,   \* bytes the motors will still send
    listening, \* the DMA runs; an error of the UART stops it until the next read
    got,       \* bytes of the answer read so far
    outcome,   \* of the last request: [ok, from]
    late,      \* bytes may arrive that no request of now asked for (history)
    stale,     \* late, when the request under way was written (history)
    excused,   \* stale, or a mishap since (history)
    mishaps

linkVars == <<phase, asked, rx, awaited, listening, got, outcome, late, stale, excused, mishaps>>

Byte(n, kind, i, good) == [n |-> n, kind |-> kind, i |-> i, good |-> good]
Junk == Byte(0, "junk", 0, FALSE)
FrameLen(kind) == HeaderLen + (IF kind = "read" THEN DataLen ELSE 0) + 1
Frame(n, kind) == [i \in 1..FrameLen(kind) |-> Byte(n, kind, i, TRUE)]

Mishap == mishaps < MaxMishaps /\ mishaps' = mishaps + 1 /\ excused' = TRUE

-----------------------------------------------------------------------------
(* The line (external)                                                     *)

Arrive ==
    /\ awaited # <<>>
    /\ rx' = IF listening THEN Append(rx, Head(awaited)) ELSE rx
    /\ awaited' = Tail(awaited)
    /\ UNCHANGED <<phase, asked, listening, got, outcome, late, stale, excused, mishaps>>

\* A byte is lost or corrupted.
LineFails ==
    /\ awaited # <<>> /\ Mishap
    /\ \/ awaited' = Tail(awaited)
       \/ awaited' = [awaited EXCEPT ![1].good = FALSE]
    /\ UNCHANGED <<phase, asked, rx, listening, got, outcome, late, stale>>

-----------------------------------------------------------------------------
(* Requests                                                                *)

Idle == phase = "idle"

\* write_to_servo, and the motor's answer to it: none if it did not understand or has no power,
\* one with an error in its status byte if it is in fault.
WriteToServo(side, kind) ==
    /\ Idle /\ asked.n < MaxRequests
    /\ asked' = [n |-> asked.n + 1, side |-> side, kind |-> kind]
    /\ phase' = "read" /\ got' = <<>> /\ listening' = TRUE /\ stale' = late
    /\ \/ /\ awaited' = awaited \o Frame(asked.n + 1, kind)
          /\ excused' = late /\ UNCHANGED mishaps
       \/ /\ awaited' = awaited \o [Frame(asked.n + 1, kind) EXCEPT ![HeaderLen].good = FALSE]
          /\ Mishap
       \/ UNCHANGED awaited /\ Mishap
    /\ UNCHANGED <<rx, outcome, late>>

\* A byte of the request cannot be written: FailedWrite, and nothing is read.
WriteFails ==
    /\ Idle /\ asked.n < MaxRequests
    /\ Mishap
    /\ \E side \in Side, kind \in Request :
          asked' = [n |-> asked.n + 1, side |-> side, kind |-> kind]
    /\ outcome' = [ok |-> FALSE, from |-> 0]
    /\ UNCHANGED <<phase, rx, awaited, listening, got, late, stale>>

ReadData(side) == WriteToServo(side, "read")     \* read_sensor_data, read_steering_data
WriteData(side) == WriteToServo(side, "write")   \* move_steps, ping

-----------------------------------------------------------------------------
(* read_from_servo                                                         *)

Needed == FrameLen(asked.kind) - Len(got)

TakeByte ==
    /\ phase = "read" /\ rx # <<>> /\ Needed > 0
    /\ got' = Append(got, Head(rx)) /\ rx' = Tail(rx)
    /\ UNCHANGED <<phase, asked, awaited, listening, outcome, late, stale, excused, mishaps>>

\* No byte for RSBL_TIMEOUT: what was read is dropped, what comes later stays in the buffer.
Timeout ==
    /\ phase = "read" /\ rx = <<>> /\ Needed > 0
    /\ phase' = "idle" /\ outcome' = [ok |-> FALSE, from |-> 0]
    /\ late' = (awaited # <<>>)
    /\ excused' = (excused \/ awaited # <<>>)
    /\ UNCHANGED <<asked, rx, awaited, listening, got, stale, mishaps>>

\* FailedRead: the UART reports an error, and its DMA stops.
ReadFails ==
    /\ phase = "read" /\ Mishap
    /\ phase' = "idle" /\ outcome' = [ok |-> FALSE, from |-> 0]
    /\ rx' = <<>> /\ listening' = FALSE
    /\ late' = (awaited # <<>>)
    /\ UNCHANGED <<asked, awaited, got, stale>>

Complete ==
    /\ phase = "read" /\ Needed = 0
    /\ phase' = "clear"
    /\ UNCHANGED <<asked, rx, awaited, listening, got, outcome, late, stale, excused, mishaps>>

\* clear_ringbuffer: whatever comes until the line is silent for RSBL_TIMEOUT.
ClearByte ==
    /\ phase \in {"start", "clear"} /\ rx # <<>>
    /\ rx' = Tail(rx)
    /\ UNCHANGED <<phase, asked, awaited, listening, got, outcome, late, stale, excused, mishaps>>

\* The length in the header and the checksum hold for a whole frame of the kind asked for, the
\* status byte is 0.
Accepted ==
    \A i \in 1..Len(got) :
        got[i] = Byte(got[1].n, asked.kind, i, TRUE)

Checked == outcome' = [ok |-> Accepted, from |-> got[1].n]

\* Mutant: the frame is checked without clearing the buffer.
QuietAtOnce ==
    /\ phase = "clear"
    /\ phase' = "idle" /\ Checked
    /\ late' = (awaited # <<>>)
    /\ UNCHANGED <<asked, rx, awaited, listening, got, stale, excused, mishaps>>

Quiet ==
    /\ phase = "clear" /\ rx = <<>>
    /\ phase' = "idle" /\ Checked
    /\ late' = (awaited # <<>>)
    /\ UNCHANGED <<asked, rx, awaited, listening, got, stale, excused, mishaps>>

-----------------------------------------------------------------------------
(* Power                                                                   *)

\* steering_task switches the motors on: they send junk.
MotorsOn ==
    /\ phase = "off"
    /\ phase' = "start" /\ listening' = TRUE
    /\ \E n \in 0..JunkLen : awaited' = [i \in 1..n |-> Junk]
    /\ UNCHANGED <<asked, rx, got, outcome, late, stale, excused, mishaps>>

\* The buffer is clear before the first request of startup_sequence; an error of the UART is
\* logged and the sequence goes on.
StartupClear ==
    /\ phase = "start"
    /\ \/ rx = <<>> /\ UNCHANGED <<rx, listening, mishaps, excused>>
       \/ Mishap /\ rx' = <<>> /\ listening' = FALSE
    /\ phase' = "idle" /\ late' = (awaited # <<>>)
    /\ UNCHANGED <<asked, awaited, got, outcome, stale>>

MotorsOff ==
    /\ Idle /\ Mishap
    /\ phase' = "off" /\ awaited' = <<>>
    /\ UNCHANGED <<asked, rx, listening, got, outcome, late, stale>>

-----------------------------------------------------------------------------
LinkInit ==
    /\ phase = "off" /\ asked = [n |-> 0, side |-> "left", kind |-> "write"]
    /\ rx = <<>> /\ awaited = <<>> /\ listening = FALSE /\ got = <<>>
    /\ outcome = [ok |-> FALSE, from |-> 0]
    /\ late = FALSE /\ stale = FALSE /\ excused = TRUE /\ mishaps = 0

LinkNext ==
    \/ Arrive \/ LineFails
    \/ \E side \in Side : ReadData(side) \/ WriteData(side)
    \/ WriteFails \/ TakeByte \/ Timeout \/ ReadFails \/ Complete \/ ClearByte \/ Quiet
    \/ MotorsOn \/ StartupClear \/ MotorsOff

LinkSpec == LinkInit /\ [][LinkNext]_linkVars

-----------------------------------------------------------------------------
(* The answer a request takes for its own is the motor's answer to it, and *)
(* an answer that comes whole and in time is taken: after a timeout one    *)
(* late answer may be taken for another motor's, but clearing the buffer   *)
(* after each whole frame keeps the link from staying one answer behind    *)
(* (read_from_servo, clear_ringbuffer).                                    *)
OwnAnswer == outcome.ok => outcome.from = asked.n \/ stale
AnswerTaken == asked.n > 0 /\ ~outcome.ok => excused
MotorAnswersItself == Idle => OwnAnswer /\ AnswerTaken
=============================================================================
