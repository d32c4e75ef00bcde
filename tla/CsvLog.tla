------------------------------- MODULE CsvLog -------------------------------
(***************************************************************************)
(* CsvLog of the sensor carrier's SD logging: rows are collected in a      *)
(* buffer of whole blocks; when a row does not fit, the whole blocks are   *)
(* written, and a flush also writes the rest and seeks back, so that the   *)
(* next write covers the partial block again and stays aligned.            *)
(*                                                                         *)
(* A byte is its place in the stream of header and rows (1, 2, ...); 0 is  *)
(* a byte that was never written.  The card has its own time: a block that *)
(* was written reaches it at any time, at the latest in the file's flush,  *)
(* which also writes the directory entry with the size.  Power may be lost *)
(* between any two steps, and any write may fail, which ends the session.  *)
(***************************************************************************)
EXTENDS Integers

CONSTANTS
  BlockSize, BufferSize,
  MaxRow,        \* the longest row
  MaxHeader,     \* the longest header
  MaxBytes       \* bound on the length of a log

ASSUME LogAssumption ==
  /\ BlockSize \in Nat \ {0} /\ MaxRow \in Nat \ {0} /\ MaxBytes \in Nat
  /\ BufferSize \in Nat /\ BufferSize >= BlockSize - 1 + MaxRow
  /\ MaxHeader \in 1..BufferSize /\ MaxHeader <= MaxBytes

Offset == 1..MaxBytes
Byte   == 0..MaxBytes

VARIABLES
  step,            \* where append or flush stands
  row,           \* the length of the row that append has in hand
  stream,        \* bytes accepted so far
  buffer, used,  \* LogBuffer
  block,         \* whole blocks of the buffer written so far
  file, size,    \* the file as the file system shows it
  pos,           \* the cursor of the file
  card,          \* what has reached the card
  entry          \* the size in the directory entry

disk == <<file, size, pos, card, entry>>
csvVars == <<step, row, stream, buffer, used, block, disk>>

\* CsvLog::new: the header goes to the buffer.
CsvInit ==
  /\ step = "idle" /\ row = 0 /\ block = 0
  /\ used \in 1..MaxHeader /\ stream = used
  /\ buffer = [i \in 1..BufferSize |-> IF i <= used THEN i ELSE 0]
  /\ file = [i \in Offset |-> 0] /\ card = file
  /\ size = 0 /\ entry = 0 /\ pos = 0

-----------------------------------------------------------------------------
\* The bytes i + 1 .. i + n of the buffer.
Slice(i, n) == [j \in 1..n |-> buffer[i + j]]

\* write_all at the cursor.
Write(bytes, n) ==
  /\ file' = [i \in Offset |-> IF i - pos \in 1..n THEN bytes[i - pos] ELSE file[i]]
  /\ pos' = pos + n
  /\ size' = IF pos + n > size THEN pos + n ELSE size

\* copy_from_slice of the next n bytes of the stream behind the first `from`.
Copied(buf, from, n) ==
  [i \in 1..BufferSize |-> IF i - from \in 1..n THEN stream + (i - from) ELSE buf[i]]

Fits(n) == used + n <= BufferSize

\* append, when the row fits.
AppendRow(n) ==
  /\ step = "idle" /\ stream + n <= MaxBytes
  /\ Fits(n)
  /\ buffer' = Copied(buffer, used, n)
  /\ used' = used + n /\ stream' = stream + n
  /\ UNCHANGED <<step, row, block, disk>>

\* append, when it does not: write_blocks first.
Spill(n) ==
  /\ step = "idle" /\ stream + n <= MaxBytes
  /\ ~Fits(n)
  /\ step' = "spill" /\ row' = n /\ block' = 0
  /\ UNCHANGED <<stream, buffer, used, disk>>

\* write_blocks, one block at a time.
Whole == used \div BlockSize

WriteBlock ==
  /\ step \in {"spill", "flush"} /\ block < Whole
  /\ Write(Slice(block * BlockSize, BlockSize), BlockSize)
  /\ block' = block + 1
  /\ UNCHANGED <<step, row, stream, buffer, used, card, entry>>

\* Mutant: the rest stays where it is.
ShiftedNot(n) == buffer

\* copy_within: the rest moves to the front.
Shifted(n) == [i \in 1..BufferSize |-> IF i + n <= used THEN buffer[i + n] ELSE buffer[i]]

\* The end of write_blocks: the row that did not fit is copied now.
SpillEnds ==
  /\ step = "spill" /\ block = Whole
  /\ LET whole == Whole * BlockSize IN
       /\ buffer' = Copied(Shifted(whole), used - whole, row)
       /\ used' = used - whole + row
  /\ stream' = stream + row
  /\ step' = "idle" /\ row' = 0
  /\ UNCHANGED <<block, disk>>

\* flush
FlushLog ==
  /\ step = "idle"
  /\ step' = "flush" /\ block' = 0
  /\ UNCHANGED <<row, stream, buffer, used, disk>>

\* Mutant: only whole blocks are written before the file is flushed.
FlushRestSkips ==
  /\ step = "flush" /\ block = Whole
  /\ LET whole == Whole * BlockSize IN
       buffer' = Shifted(whole) /\ used' = used - whole
  /\ step' = "sync"
  /\ UNCHANGED <<row, stream, block, disk>>

FlushRest ==
  /\ step = "flush" /\ block = Whole
  /\ LET whole == Whole * BlockSize IN
       buffer' = Shifted(whole) /\ used' = used - whole
  /\ step' = IF used' > 0 THEN "rest" ELSE "sync"
  /\ UNCHANGED <<row, stream, block, disk>>

WriteRest ==
  /\ step = "rest"
  /\ Write(Slice(0, used), used)
  /\ step' = "seek"
  /\ UNCHANGED <<row, stream, buffer, used, block, card, entry>>

\* SeekFrom::Current(-used)
Rewind(p) == p - used

SeekBack ==
  /\ step = "seek"
  /\ pos' = Rewind(pos)
  /\ step' = "sync"
  /\ UNCHANGED <<row, stream, buffer, used, block, file, size, card, entry>>

\* file.flush; the seek before it has not shortened the file.
Sync ==
  /\ step = "sync"
  /\ card' = file /\ entry' = size
  /\ step' = "idle"
  /\ UNCHANGED <<row, stream, buffer, used, block, file, size, pos>>

\* The session drops the log when a write, a seek or the flush fails.
Fails ==
  /\ step \notin {"idle", "ended"}
  /\ step' = "ended"
  /\ UNCHANGED <<row, stream, buffer, used, block, disk>>

\* A block that was written reaches the card on its own.
BlockReachesCard ==
  \E b \in 0..((MaxBytes - 1) \div BlockSize) :
    /\ \E i \in Offset : (i - 1) \div BlockSize = b /\ card[i] # file[i]
    /\ card' = [i \in Offset |-> IF (i - 1) \div BlockSize = b THEN file[i] ELSE card[i]]
    /\ UNCHANGED <<step, row, stream, buffer, used, block, file, size, pos, entry>>

-----------------------------------------------------------------------------
CsvNext ==
  \/ \E n \in 1..MaxRow : AppendRow(n) \/ Spill(n)
  \/ WriteBlock \/ SpillEnds
  \/ FlushLog \/ FlushRest \/ WriteRest \/ SeekBack \/ Sync
  \/ Fails \/ BlockReachesCard

CsvSpec == CsvInit /\ [][CsvNext]_csvVars

-----------------------------------------------------------------------------
(* Properties.                                                             *)

\* What the file holds are the accepted bytes in their order: no row is lost,
\* written twice or torn by a spill or a flush, at any step of either; every
\* write starts at a block boundary ("Flush rewinds the partial block so later
\* writes stay block-aligned"), and the buffer continues the file there.
InOrder ==
  /\ \A i \in 1..size : file[i] = i
  /\ step \in {"idle", "spill", "flush"} => pos % BlockSize = 0
  /\ step = "idle" => pos + used = stream

\* After a loss of power the file reads as the log was at the last flush.
Log == INSTANCE DurableLog WITH
         accepted <- stream,
         readable <- [i \in 1..entry |-> card[i]]
ImplementsDurableLog == Log!Spec
=============================================================================
