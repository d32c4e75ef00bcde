------------------------------ MODULE EposLink ------------------------------
(***************************************************************************)
(* The serial link between the LOX valve board and its motor controller:   *)
(* Epos4's write_object and read_object over a UART with a DMA ring        *)
(* buffer, each bounded by the board's 500 ms timeout.                     *)
(*                                                                         *)
(* A frame is a sequence of fields: sync, header, error code, the data of  *)
(* a read, CRC.  The driver keeps nothing between two requests: it neither *)
(* flushes the buffer nor compares an answer with its question, so what a  *)
(* timeout leaves behind is read by the requests that follow.              *)
(***************************************************************************)
EXTENDS Naturals, Sequences

CONSTANTS
  NoVal,           \* no request
  Capacity,        \* fields that fit the ring buffer
  MaxEposRequests, \* bound on the requests of a behaviour
  MaxTimeouts,     \* bound on the timeouts
  MaxLost          \* bound on the requests or answers that are lost

\* The buffer holds more than the longest answer, sync and header and three fields.
ASSUME LinkAssumption ==
  /\ Capacity \in Nat /\ Capacity >= 5 /\ MaxEposRequests \in Nat
  /\ MaxTimeouts \in Nat /\ MaxLost \in Nat

Kind == {"read", "write"}
Field == [name : {"sync", "head", "body"}, of : 1..MaxEposRequests]

VARIABLES
  kinds,     \* the kind of every request sent so far
  asking,    \* whether a request is under way: the last one of kinds
  wire,      \* what the controller has sent and is on its way
  eposRx,    \* the ring buffer
  overrun,   \* the ring buffer was full when a field came in
  stage,     \* what the reader expects: sync, head or body
  left,      \* the fields of the answer it still has to read
  reading,   \* the request the answer being read belongs to
  accepted,  \* the request and the answer of the last exchange that succeeded
  timeouts, lost   \* counters

readerVars == <<stage, left, reading>>
counters   == <<timeouts, lost>>
eposVars == <<kinds, asking, wire, eposRx, overrun, readerVars, accepted, counters>>

EposInit ==
  /\ kinds = <<>> /\ asking = FALSE
  /\ wire = <<>> /\ eposRx = <<>> /\ overrun = FALSE
  /\ stage = "sync" /\ left = 0 /\ reading = NoVal
  /\ accepted = NoVal
  /\ timeouts = 0 /\ lost = 0

\* The fields after the header: error code and CRC, and the data of a read.
BodyFields(kind) == IF kind = "read" THEN 3 ELSE 2

EposFrame(id, kind) ==
  <<[name |-> "sync", of |-> id], [name |-> "head", of |-> id]>>
    \o [i \in 1..BodyFields(kind) |-> [name |-> "body", of |-> id]]

\* send_request_frame.  The controller answers in order, or the request or
\* its answer is lost.
EposRequest(kind) ==
  /\ ~asking /\ Len(kinds) < MaxEposRequests
  /\ asking' = TRUE
  /\ kinds' = Append(kinds, kind)
  /\ \/ wire' = wire \o EposFrame(Len(kinds) + 1, kind) /\ UNCHANGED lost
     \/ lost < MaxLost /\ lost' = lost + 1 /\ UNCHANGED wire
  /\ UNCHANGED <<eposRx, overrun, readerVars, accepted, timeouts>>

\* A field comes in; the ring buffer overruns when it is full.
AnswerArrives ==
  /\ wire # <<>>
  /\ wire' = Tail(wire)
  /\ IF Len(eposRx) < Capacity
     THEN eposRx' = Append(eposRx, Head(wire)) /\ UNCHANGED overrun
     ELSE overrun' = TRUE /\ UNCHANGED eposRx
  /\ UNCHANGED <<kinds, asking, readerVars, accepted, counters>>

-----------------------------------------------------------------------------
(* read_response_frame.                                                    *)

\* The request ends, and with it everything the reader knew.
Leave == asking' = FALSE /\ stage' = "sync" /\ left' = 0 /\ reading' = NoVal

\* read_byte and read_word of the next field.
ReadField(name) ==
  /\ asking /\ ~overrun /\ stage = name
  /\ eposRx # <<>> /\ eposRx' = Tail(eposRx)
  /\ UNCHANGED <<kinds, wire, overrun, counters>>

\* read_sync_sequence: anything else is a framing error, and only it is read.
ReadSync ==
  /\ ReadField("sync")
  /\ IF Head(eposRx).name = "sync"
     THEN stage' = "head" /\ UNCHANGED <<asking, left, reading>>
     ELSE Leave
  /\ UNCHANGED accepted

\* The header: opcode and length.  An answer of the wrong length is a framing
\* error that leaves the rest of that answer in the buffer.
ExpectedLength == BodyFields(kinds[Len(kinds)])

\* Mutant: the length of the answer is not compared.
ReadHeaderUnchecked ==
  /\ ReadField("head")
  /\ stage' = "body" /\ left' = BodyFields(kinds[Head(eposRx).of])
  /\ reading' = Head(eposRx).of
  /\ UNCHANGED <<asking, accepted>>

ReadHeader ==
  /\ ReadField("head")
  /\ IF BodyFields(kinds[Head(eposRx).of]) = ExpectedLength
     THEN /\ stage' = "body" /\ left' = ExpectedLength
          /\ reading' = Head(eposRx).of /\ UNCHANGED asking
     ELSE Leave
  /\ UNCHANGED accepted

\* Error code, data, CRC.  After the CRC the exchange is over: well, or with
\* a wrong CRC or the error that the controller reports.
ReadBody ==
  /\ ReadField("body")
  /\ IF left > 1
     THEN left' = left - 1 /\ UNCHANGED <<asking, stage, reading, accepted>>
     ELSE /\ Leave
          /\ \/ accepted' = [request |-> Len(kinds), answer |-> reading]
             \/ UNCHANGED accepted

\* An overrun is reported by the next read, and restarts the buffer.
ReadOverrun ==
  /\ asking /\ overrun
  /\ overrun' = FALSE /\ eposRx' = <<>>
  /\ Leave
  /\ UNCHANGED <<kinds, wire, accepted, counters>>

\* Mutant: a timeout rewinds the buffer to the answer read last.
TimeoutRewinds ==
  /\ asking /\ eposRx = <<>> /\ ~overrun
  /\ timeouts < MaxTimeouts /\ timeouts' = timeouts + 1
  /\ eposRx' = IF accepted = NoVal THEN eposRx ELSE EposFrame(accepted.answer, kinds[accepted.answer])
  /\ Leave
  /\ UNCHANGED <<kinds, wire, overrun, accepted, lost>>

\* with_timeout: the request is dropped where it is.
EposTimeout ==
  /\ asking /\ eposRx = <<>> /\ ~overrun
  /\ timeouts < MaxTimeouts /\ timeouts' = timeouts + 1
  /\ Leave
  /\ UNCHANGED <<kinds, wire, eposRx, overrun, accepted, lost>>

EposNext ==
  \/ \E kind \in Kind : EposRequest(kind)
  \/ AnswerArrives
  \/ ReadSync \/ ReadHeader \/ ReadBody \/ ReadOverrun \/ EposTimeout

EposSpec == EposInit /\ [][EposNext]_eposVars

-----------------------------------------------------------------------------
(* Properties.                                                             *)

\* Whatever is left in the buffer, an answer that is accepted has the shape
\* the request asked for: a read never takes the answer of a write for data
\* (the length check of read_response_frame).  As long as nothing has timed
\* out it is the answer of its request, and between two requests nothing is
\* left behind, errors of the controller included.
ShapeMatches ==
  /\ accepted # NoVal => kinds[accepted.answer] = kinds[accepted.request]
  /\ timeouts = 0 =>
       /\ accepted # NoVal => accepted.answer = accepted.request
       /\ ~asking => wire = <<>> /\ eposRx = <<>>

\* No answer counts twice and none overtakes another: the answers accepted
\* are those of later and later requests, whatever timed out or overran.
AnswersInOrder ==
  [][accepted # NoVal /\ accepted' # accepted => accepted'.answer > accepted.answer]_eposVars

=============================================================================
