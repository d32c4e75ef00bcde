-------------------------- MODULE CarrierData_proofs --------------------------
(***************************************************************************)
(* Proofs about what sensor carrier v3 does with its readings and          *)
(* settings: the files of the SD card, for every size of block, buffer,    *)
(* header and row; the accounts of a logging session, for every number of  *)
(* kinds, channels and failures; the means of an IMU, for every size of    *)
(* the window; the calibrations in the flash, for every number and size of *)
(* sectors, pages and records.                                             *)
(***************************************************************************)
EXTENDS CsvLog, SdLog, CarrierBus, CalStore, SequenceTheorems, Common_proofs

-----------------------------------------------------------------------------
(* A log file.                                                             *)

\* Where in the stream the buffer begins: at the cursor, but for the blocks
\* of it that are written already and for a rest that is not rewound yet.
Base ==
  CASE step \in {"spill", "flush"} -> pos - block * BlockSize
    [] step = "seek" -> pos - used
    [] OTHER -> pos

Steps == {"idle", "spill", "flush", "rest", "seek", "sync", "ended"}
Multiple(n) == \E k \in Nat : n = k * BlockSize

TypeInv ==
  /\ step \in Steps /\ row \in 0..MaxRow /\ stream \in 1..MaxBytes
  /\ buffer \in [1..BufferSize -> Nat] /\ used \in 0..BufferSize /\ block \in Nat
  /\ file \in [Offset -> Nat] /\ card \in [Offset -> Nat]
  /\ size \in 0..MaxBytes /\ pos \in 0..MaxBytes /\ entry \in 0..MaxBytes

\* The buffer continues the file, from a block boundary on.
BufferInv ==
  step # "ended" =>
    /\ Base \in Nat /\ Multiple(Base)
    /\ Base + used = stream
    /\ \A i \in 1..used : buffer[i] = Base + i

\* Where append and flush stand.
StepInv ==
  /\ step \in {"spill", "flush"} => block * BlockSize <= used
  /\ step = "spill" => row \in 1..MaxRow /\ stream + row <= MaxBytes
  /\ step \in {"seek", "sync"} => size = stream

\* The file is the stream in its order, and the card the file up to the size
\* in the directory entry.
FileInv ==
  /\ step # "ended" => pos <= size
  /\ size <= stream /\ \A i \in 1..size : file[i] = i
  /\ entry <= size /\ \A i \in 1..entry : card[i] = i

CsvInv == TypeInv /\ BufferInv /\ StepInv /\ FileInv

-----------------------------------------------------------------------------
(* Blocks.                                                                 *)

\* The next multiple is a multiple.
LEMMA NextMultiple ==
  ASSUME NEW n \in Nat, NEW b \in Nat, Multiple(n)
  PROVE  Multiple(n + b * BlockSize)
<1>1. PICK k \in Nat : n = k * BlockSize
  BY DEF Multiple
<1>2. BlockSize \in Nat
  BY LogAssumption
<1>3. n + b * BlockSize = (k + b) * BlockSize
  BY <1>1, <1>2
<1> QED
  BY <1>3 DEF Multiple

\* What Multiple says is what % says.
LEMMA MultipleMod ==
  ASSUME NEW n \in Nat, Multiple(n)
  PROVE  n % BlockSize = 0
<1>1. PICK k \in Nat : n = k * BlockSize
  BY DEF Multiple
<1>2. BlockSize \in Int /\ BlockSize > 0
  BY LogAssumption
<1> QED
  BY <1>1, <1>2

\* The whole blocks of the buffer leave less than a block of it.
LEMMA WholeBlocks ==
  ASSUME used \in Nat
  PROVE  /\ Whole \in Nat /\ Whole * BlockSize \in Nat
         /\ Whole * BlockSize <= used /\ used - Whole * BlockSize < BlockSize
<1>1. BlockSize \in Nat /\ BlockSize > 0
  BY LogAssumption
<1> DEFINE q == used \div BlockSize
<1>2. q \in Nat
  BY <1>1
<1>3. q * BlockSize <= used /\ used < q * BlockSize + BlockSize
  BY <1>1, <1>2
<1>4. q * BlockSize \in Nat
  BY <1>1, <1>2
<1> QED
  BY <1>1, <1>2, <1>3, <1>4 DEF Whole

\* One block more than those written fits.
LEMMA OneBlockMore ==
  ASSUME used \in Nat, block \in Nat, block < Whole
  PROVE  /\ (block + 1) * BlockSize = block * BlockSize + BlockSize
         /\ block * BlockSize + BlockSize <= used
         /\ block * BlockSize \in Nat
<1>1. BlockSize \in Nat /\ BlockSize > 0
  BY LogAssumption
<1>2. Whole \in Nat /\ Whole * BlockSize <= used
  BY WholeBlocks
<1>3. PICK d \in Nat : Whole = (block + 1) + d
  <2>1. Whole - (block + 1) \in Nat
    BY <1>2
  <2> QED
    BY <2>1, <1>2
<1>4. Whole * BlockSize = (block + 1) * BlockSize + d * BlockSize
  BY <1>1, <1>3
<1>5. d * BlockSize \in Nat /\ block * BlockSize \in Nat
  BY <1>1, <1>3
<1>6. (block + 1) * BlockSize = block * BlockSize + BlockSize
  BY <1>1
<1> QED
  BY <1>1, <1>2, <1>4, <1>5, <1>6

-----------------------------------------------------------------------------
(* Types.                                                                  *)

LEMMA TypeStep == CsvInv /\ [CsvNext]_csvVars => TypeInv'
<1> SUFFICES ASSUME CsvInv, [CsvNext]_csvVars
             PROVE  TypeInv'
  OBVIOUS
<1> USE LogAssumption DEF CsvInv, TypeInv, Steps, Offset, csvVars, disk
<1>1. ASSUME NEW n \in 1..MaxRow, AppendRow(n)
      PROVE  TypeInv'
  BY <1>1 DEF AppendRow, Fits, Copied
<1>2. ASSUME NEW n \in 1..MaxRow, Spill(n)
      PROVE  TypeInv'
  BY <1>2 DEF Spill
<1>3. CASE WriteBlock
  <2> DEFINE p == block * BlockSize
             s == Slice(p, BlockSize)
  <2>1. p \in Nat /\ p + BlockSize <= used
    BY <1>3, OneBlockMore DEF WriteBlock
  <2>2. Base = pos - p /\ Base + used = stream
    BY <1>3 DEF WriteBlock, BufferInv, Base
  <2>3. /\ file' = [i \in Offset |-> IF i - pos \in 1..BlockSize THEN s[i - pos] ELSE file[i]]
        /\ pos' = pos + BlockSize
        /\ size' = IF pos + BlockSize > size THEN pos + BlockSize ELSE size
        /\ block' = block + 1 /\ UNCHANGED <<step, row, stream, buffer, used, card, entry>>
    BY <1>3 DEF WriteBlock, Write
  <2> HIDE DEF p
  <2>4. pos + BlockSize <= stream
    BY <2>1, <2>2
  <2>5. s \in [1..BlockSize -> Nat]
    BY <2>1 DEF Slice
  <2> HIDE DEF s
  <2>6. file' \in [Offset -> Nat]
    BY <2>3, <2>5
  <2>7. pos' \in 0..MaxBytes /\ size' \in 0..MaxBytes /\ block' \in Nat
    BY <2>3, <2>4
  <2>8. step' \in Steps /\ buffer' \in [1..BufferSize -> Nat] /\ card' \in [Offset -> Nat]
    BY <2>3
  <2> QED
    BY <2>3, <2>6, <2>7, <2>8
<1>4. CASE SpillEnds
  <2> DEFINE w == Whole * BlockSize
  <2>1. w \in Nat /\ w <= used /\ used - w < BlockSize
    BY WholeBlocks
  <2> HIDE DEF w
  <2>2. Shifted(w) \in [1..BufferSize -> Nat]
    BY <2>1 DEF Shifted
  <2>3. Copied(Shifted(w), used - w, row) \in [1..BufferSize -> Nat]
    BY <2>1, <2>2 DEF Copied
  <2>4. row \in 1..MaxRow /\ stream + row <= MaxBytes
    BY <1>4 DEF SpillEnds, StepInv
  <2>5. used' = used - w + row /\ buffer' = Copied(Shifted(w), used - w, row)
    BY <1>4 DEF SpillEnds, w
  <2> QED
    BY <1>4, <2>1, <2>3, <2>4, <2>5 DEF SpillEnds
<1>5. CASE FlushLog
  BY <1>5 DEF FlushLog
<1>6. CASE FlushRest
  <2> DEFINE w == Whole * BlockSize
  <2>1. w \in Nat /\ w <= used
    BY WholeBlocks
  <2> HIDE DEF w
  <2>2. Shifted(w) \in [1..BufferSize -> Nat]
    BY <2>1 DEF Shifted
  <2>3. used' = used - w /\ buffer' = Shifted(w)
    BY <1>6 DEF FlushRest, w
  <2> QED
    BY <1>6, <2>1, <2>2, <2>3 DEF FlushRest
<1>7. CASE WriteRest
  <2> DEFINE s == Slice(0, used)
  <2>1. Base = pos /\ Base + used = stream
    BY <1>7 DEF WriteRest, BufferInv, Base
  <2>2. /\ file' = [i \in Offset |-> IF i - pos \in 1..used THEN s[i - pos] ELSE file[i]]
        /\ pos' = pos + used
        /\ size' = IF pos + used > size THEN pos + used ELSE size
        /\ step' = "seek" /\ UNCHANGED <<row, stream, buffer, used, block, card, entry>>
    BY <1>7 DEF WriteRest, Write
  <2>3. s \in [1..used -> Nat]
    BY DEF Slice
  <2> HIDE DEF s
  <2>4. file' \in [Offset -> Nat]
    BY <2>2, <2>3
  <2>5. pos' \in 0..MaxBytes /\ size' \in 0..MaxBytes
    BY <2>1, <2>2
  <2>6. step' \in Steps /\ buffer' \in [1..BufferSize -> Nat] /\ card' \in [Offset -> Nat]
    BY <2>2
  <2> QED
    BY <2>2, <2>4, <2>5, <2>6
<1>8. CASE SeekBack
  <2>1. Base = pos - used /\ Base \in Nat
    BY <1>8 DEF SeekBack, BufferInv, Base
  <2> QED
    BY <1>8, <2>1 DEF SeekBack, Rewind
<1>9. CASE Sync
  BY <1>9 DEF Sync
<1>10. CASE Fails
  BY <1>10 DEF Fails
<1>11. CASE BlockReachesCard
  <2>1. card' \in [Offset -> Nat]
    BY <1>11 DEF BlockReachesCard
  <2> QED
    BY <1>11, <2>1 DEF BlockReachesCard
<1>12. CASE UNCHANGED csvVars
  BY <1>12
<1> QED
  BY <1>1, <1>2, <1>3, <1>4, <1>5, <1>6, <1>7, <1>8, <1>9, <1>10, <1>11, <1>12 DEF CsvNext

-----------------------------------------------------------------------------
(* Content.  A write continues the file in order when its bytes do.        *)

LEMMA WriteInOrder ==
  ASSUME TypeInv, FileInv, step # "ended", NEW n \in Nat, NEW bytes,
         Write(bytes, n), pos + n <= stream, stream <= MaxBytes,
         \A j \in 1..n : bytes[j] = pos + j
  PROVE  /\ pos' \in Nat /\ pos' = pos + n /\ size' >= size /\ size' <= stream /\ pos' <= size'
         /\ \A i \in 1..size' : file'[i] = i
<1> USE LogAssumption DEF TypeInv, Offset
<1>1. /\ file' = [i \in Offset |-> IF i - pos \in 1..n THEN bytes[i - pos] ELSE file[i]]
      /\ pos' = pos + n
      /\ size' = IF pos + n > size THEN pos + n ELSE size
  BY DEF Write
<1>2. pos <= size /\ size <= stream /\ \A i \in 1..size : file[i] = i
  BY DEF FileInv
<1>3. size' \in Nat /\ size' >= size /\ size' <= stream /\ pos' <= size'
  BY <1>1, <1>2
<1>4. ASSUME NEW i \in 1..size'
      PROVE  file'[i] = i
  <2>1. i \in Offset
    BY <1>3
  <2>2. CASE i - pos \in 1..n
    <3>1. file'[i] = bytes[i - pos]
      BY <1>1, <2>1, <2>2
    <3> QED
      BY <3>1, <2>2
  <2>3. CASE i - pos \notin 1..n
    <3>1. file'[i] = file[i]
      BY <1>1, <2>1, <2>3
    <3>2. i <= size
      BY <1>1, <1>2, <1>3, <2>3
    <3> QED
      BY <3>1, <3>2, <1>2
  <2> QED
    BY <2>2, <2>3
<1>5. pos' \in Nat
  BY <1>1
<1> QED
  BY <1>1, <1>3, <1>4, <1>5

LEMMA ContentStep == CsvInv /\ TypeInv' /\ [CsvNext]_csvVars => BufferInv' /\ StepInv' /\ FileInv'
<1> SUFFICES ASSUME CsvInv, TypeInv', [CsvNext]_csvVars
             PROVE  BufferInv' /\ StepInv' /\ FileInv'
  OBVIOUS
<1> USE LogAssumption DEF CsvInv
<1>1. ASSUME NEW n \in 1..MaxRow, AppendRow(n)
      PROVE  BufferInv' /\ StepInv' /\ FileInv'
  <2>1. /\ step = "idle" /\ step' = "idle" /\ used + n <= BufferSize
        /\ buffer' = Copied(buffer, used, n) /\ used' = used + n /\ stream' = stream + n
        /\ UNCHANGED <<pos, block, file, size, card, entry>>
    BY <1>1 DEF AppendRow, Fits, disk
  <2>2. Base = pos /\ Base' = pos
    BY <2>1 DEF Base
  <2>3. pos \in Nat /\ Multiple(pos) /\ pos + used = stream /\ \A i \in 1..used : buffer[i] = pos + i
    BY <2>1, <2>2 DEF BufferInv
  <2>4. ASSUME NEW i \in 1..used'
        PROVE  buffer'[i] = pos + i
    <3>1. i \in 1..BufferSize
      BY <2>1 DEF TypeInv
    <3>2. CASE i - used \in 1..n
      <4>1. buffer'[i] = stream + (i - used)
        BY <2>1, <3>1, <3>2 DEF Copied
      <4> QED
        BY <4>1, <2>3, <3>1 DEF TypeInv
    <3>3. CASE i - used \notin 1..n
      <4>1. buffer'[i] = buffer[i] /\ i \in 1..used
        BY <2>1, <3>1, <3>3 DEF Copied, TypeInv
      <4> QED
        BY <4>1, <2>3
    <3> QED
      BY <3>2, <3>3
  <2>5. BufferInv'
    BY <2>1, <2>2, <2>3, <2>4 DEF BufferInv, TypeInv, Multiple
  <2>6. StepInv'
    BY <2>1 DEF StepInv
  <2>7. FileInv'
    BY <2>1 DEF FileInv, TypeInv
  <2> QED
    BY <2>5, <2>6, <2>7
<1>2. ASSUME NEW n \in 1..MaxRow, Spill(n)
      PROVE  BufferInv' /\ StepInv' /\ FileInv'
  <2>1. /\ step = "idle" /\ step' = "spill" /\ row' = n /\ block' = 0 /\ stream + n <= MaxBytes
        /\ UNCHANGED <<stream, buffer, used, pos, file, size, card, entry>>
    BY <1>2 DEF Spill, disk
  <2>2. 0 * BlockSize = 0
    OBVIOUS
  <2>3. Base = pos /\ Base' = pos
    BY <2>1, <2>2 DEF Base, TypeInv
  <2>4. BufferInv'
    BY <2>1, <2>3 DEF BufferInv, Multiple
  <2>5. StepInv'
    BY <2>1, <2>2 DEF StepInv, TypeInv
  <2>6. FileInv'
    BY <2>1 DEF FileInv
  <2> QED
    BY <2>4, <2>5, <2>6
<1>3. CASE WriteBlock
  <2> DEFINE p == block * BlockSize
             s == Slice(p, BlockSize)
  <2>1. p \in Nat /\ p + BlockSize <= used /\ (block + 1) * BlockSize = p + BlockSize
    BY <1>3, OneBlockMore DEF WriteBlock, TypeInv
  <2>2. /\ step \in {"spill", "flush"} /\ block' = block + 1
        /\ Write(s, BlockSize)
        /\ UNCHANGED <<step, row, stream, buffer, used, card, entry>>
    BY <1>3 DEF WriteBlock
  <2>3. Base = pos - p /\ Base' = pos' - (p + BlockSize)
    BY <2>1, <2>2 DEF Base
  <2>4. block' * BlockSize = p + BlockSize
    BY <2>1, <2>2
  <2> HIDE DEF p
  <2>5. Base \in Nat /\ Multiple(Base) /\ Base + used = stream
        /\ \A i \in 1..used : buffer[i] = Base + i
    BY <2>2 DEF BufferInv
  <2>6. pos + BlockSize <= stream
    BY <2>1, <2>3, <2>5 DEF TypeInv
  <2>7. ASSUME NEW j \in 1..BlockSize
        PROVE  s[j] = pos + j
    <3>1. s[j] = buffer[p + j]
      BY DEF Slice
    <3>2. p + j \in 1..used
      BY <2>1 DEF TypeInv
    <3>3. buffer[p + j] = Base + (p + j)
      BY <3>2, <2>5
    <3> QED
      BY <3>1, <3>3, <2>1, <2>3 DEF TypeInv
  <2>8. BlockSize \in Nat /\ stream <= MaxBytes /\ step # "ended"
    BY <2>2 DEF TypeInv
  <2> HIDE DEF s
  <2>9. /\ pos' = pos + BlockSize /\ size' >= size /\ size' <= stream /\ pos' <= size'
        /\ \A i \in 1..size' : file'[i] = i
    BY <2>2, <2>6, <2>7, <2>8, WriteInOrder
  <2>10. Base' = Base
    BY <2>1, <2>3, <2>9 DEF TypeInv
  <2>11. BufferInv'
    BY <2>2, <2>5, <2>10 DEF BufferInv, Multiple
  <2>12. StepInv'
    BY <2>1, <2>2, <2>4 DEF StepInv
  <2>13. FileInv'
    BY <2>2, <2>9 DEF FileInv, TypeInv
  <2> QED
    BY <2>11, <2>12, <2>13
<1>4. CASE SpillEnds
  <2> DEFINE w == Whole * BlockSize
             kept == used - w
  <2>1. Whole \in Nat /\ w \in Nat /\ w <= used /\ used - w < BlockSize
    BY WholeBlocks DEF TypeInv
  <2>2. /\ step = "spill" /\ block = Whole /\ step' = "idle"
        /\ buffer' = Copied(Shifted(w), kept, row) /\ used' = kept + row /\ stream' = stream + row
        /\ UNCHANGED <<pos, file, size, card, entry>>
    BY <1>4 DEF SpillEnds, disk
  <2>3. Base = pos - w /\ Base' = pos
    BY <2>2 DEF Base
  <2>4. Base \in Nat /\ Multiple(Base) /\ Base + used = stream
        /\ \A i \in 1..used : buffer[i] = Base + i
    BY <2>2 DEF BufferInv
  <2>5. Multiple(Base + w)
    BY <2>1, <2>4, NextMultiple
  <2> HIDE DEF w
  <2>6. pos \in Nat /\ pos = Base + w /\ row \in Nat /\ kept \in Nat
    BY <2>1, <2>3, <2>4 DEF TypeInv
  <2>7. ASSUME NEW i \in 1..used'
        PROVE  buffer'[i] = pos + i
    <3>1. i \in 1..BufferSize
      BY DEF TypeInv
    <3>2. CASE i - kept \in 1..row
      <4>1. buffer'[i] = stream + (i - kept)
        BY <2>2, <3>1, <3>2 DEF Copied
      <4> QED
        BY <4>1, <2>1, <2>4, <2>6, <3>1 DEF TypeInv
    <3>3. CASE i - kept \notin 1..row
      <4>1. buffer'[i] = Shifted(w)[i]
        BY <2>2, <3>1, <3>3 DEF Copied
      <4>2. i + w \in 1..used
        BY <2>1, <2>2, <2>6, <3>1, <3>3 DEF TypeInv
      <4>3. Shifted(w)[i] = buffer[i + w]
        BY <3>1, <4>2 DEF Shifted
      <4>4. buffer[i + w] = Base + (i + w)
        BY <4>2, <2>4
      <4> QED
        BY <4>1, <4>3, <4>4, <2>1, <2>4, <2>6, <3>1
    <3> QED
      BY <3>2, <3>3
  <2>8. pos + used' = stream'
    BY <2>1, <2>2, <2>4, <2>6 DEF TypeInv
  <2>9. BufferInv'
    BY <2>2, <2>3, <2>5, <2>6, <2>7, <2>8 DEF BufferInv, Multiple
  <2>10. StepInv'
    BY <2>2 DEF StepInv
  <2>11. FileInv'
    BY <2>2, <2>6 DEF FileInv, TypeInv
  <2> QED
    BY <2>9, <2>10, <2>11
<1>5. CASE FlushLog
  <2>1. /\ step = "idle" /\ step' = "flush" /\ block' = 0
        /\ UNCHANGED <<stream, buffer, used, pos, file, size, card, entry>>
    BY <1>5 DEF FlushLog, disk
  <2>2. 0 * BlockSize = 0
    OBVIOUS
  <2>3. Base = pos /\ Base' = pos
    BY <2>1, <2>2 DEF Base, TypeInv
  <2>4. BufferInv'
    BY <2>1, <2>3 DEF BufferInv, Multiple
  <2>5. StepInv'
    BY <2>1, <2>2 DEF StepInv, TypeInv
  <2>6. FileInv'
    BY <2>1 DEF FileInv
  <2> QED
    BY <2>4, <2>5, <2>6
<1>6. CASE FlushRest
  <2> DEFINE w == Whole * BlockSize
  <2>1. Whole \in Nat /\ w \in Nat /\ w <= used
    BY WholeBlocks DEF TypeInv
  <2>2. /\ step = "flush" /\ block = Whole
        /\ buffer' = Shifted(w) /\ used' = used - w
        /\ step' = IF used' > 0 THEN "rest" ELSE "sync"
        /\ UNCHANGED <<row, stream, pos, file, size, card, entry>>
    BY <1>6 DEF FlushRest, disk
  <2>3. Base = pos - w /\ Base' = pos
    BY <2>2 DEF Base
  <2>4. Base \in Nat /\ Multiple(Base) /\ Base + used = stream
        /\ \A i \in 1..used : buffer[i] = Base + i
    BY <2>2 DEF BufferInv
  <2>5. Multiple(Base + w)
    BY <2>1, <2>4, NextMultiple
  <2> HIDE DEF w
  <2>6. pos \in Nat /\ pos = Base + w
    BY <2>1, <2>3, <2>4 DEF TypeInv
  <2>7. ASSUME NEW i \in 1..used'
        PROVE  buffer'[i] = pos + i
    <3>1. i \in 1..BufferSize /\ i + w \in 1..used
      BY <2>1, <2>2 DEF TypeInv
    <3>2. buffer'[i] = buffer[i + w]
      BY <2>2, <3>1 DEF Shifted
    <3>3. buffer[i + w] = Base + (i + w)
      BY <2>4, <3>1
    <3> QED
      BY <3>2, <3>3, <2>1, <2>4, <2>6
  <2>8. pos + used' = stream'
    BY <2>1, <2>2, <2>4, <2>6 DEF TypeInv
  <2>9. BufferInv'
    BY <2>2, <2>3, <2>5, <2>6, <2>7, <2>8 DEF BufferInv, Multiple
  <2>10. step' = "sync" => size' = stream'
    BY <2>2, <2>6, <2>8 DEF FileInv, TypeInv
  <2>11. StepInv'
    BY <2>2, <2>10 DEF StepInv
  <2>12. FileInv'
    BY <2>2 DEF FileInv
  <2> QED
    BY <2>9, <2>11, <2>12
<1>7. CASE WriteRest
  <2> DEFINE s == Slice(0, used)
  <2>1. /\ step = "rest" /\ step' = "seek" /\ Write(s, used)
        /\ UNCHANGED <<row, stream, buffer, used, block, card, entry>>
    BY <1>7 DEF WriteRest
  <2>2. Base = pos /\ Base' = pos' - used
    BY <2>1 DEF Base
  <2>3. pos \in Nat /\ Multiple(pos) /\ pos + used = stream /\ \A i \in 1..used : buffer[i] = pos + i
    BY <2>1, <2>2 DEF BufferInv
  <2>4. ASSUME NEW j \in 1..used
        PROVE  s[j] = pos + j
    <3>1. s[j] = buffer[0 + j] /\ 0 + j = j
      BY DEF Slice
    <3> QED
      BY <3>1, <2>3
  <2>5. used \in Nat /\ stream <= MaxBytes /\ step # "ended" /\ pos + used <= stream
    BY <2>1, <2>3 DEF TypeInv
  <2> HIDE DEF s
  <2>6. /\ pos' = pos + used /\ size' >= size /\ size' <= stream /\ pos' <= size'
        /\ \A i \in 1..size' : file'[i] = i
    BY <2>1, <2>4, <2>5, WriteInOrder
  <2>7. Base' = pos /\ size' = stream'
    BY <2>1, <2>2, <2>3, <2>5, <2>6 DEF TypeInv
  <2>8. BufferInv'
    BY <2>1, <2>3, <2>7 DEF BufferInv, Multiple
  <2>9. StepInv'
    BY <2>1, <2>7 DEF StepInv
  <2>10. FileInv'
    BY <2>1, <2>6 DEF FileInv, TypeInv
  <2> QED
    BY <2>8, <2>9, <2>10
<1>8. CASE SeekBack
  <2>1. /\ step = "seek" /\ step' = "sync" /\ pos' = pos - used
        /\ UNCHANGED <<row, stream, buffer, used, block, file, size, card, entry>>
    BY <1>8 DEF SeekBack, Rewind
  <2>2. Base = pos - used /\ Base' = Base
    BY <2>1 DEF Base
  <2>3. BufferInv'
    BY <2>1, <2>2 DEF BufferInv, Multiple
  <2>4. StepInv'
    BY <2>1 DEF StepInv
  <2>5. FileInv'
    BY <2>1 DEF FileInv, TypeInv
  <2> QED
    BY <2>3, <2>4, <2>5
<1>9. CASE Sync
  <2>1. /\ step = "sync" /\ step' = "idle" /\ card' = file /\ entry' = size
        /\ UNCHANGED <<row, stream, buffer, used, block, file, size, pos>>
    BY <1>9 DEF Sync
  <2>2. Base' = Base
    BY <2>1 DEF Base
  <2>3. BufferInv'
    BY <2>1, <2>2 DEF BufferInv, Multiple
  <2>4. StepInv'
    BY <2>1 DEF StepInv
  <2>5. FileInv'
    BY <2>1 DEF FileInv, TypeInv
  <2> QED
    BY <2>3, <2>4, <2>5
<1>10. CASE Fails
  BY <1>10 DEF Fails, disk, BufferInv, StepInv, FileInv
<1>11. CASE BlockReachesCard
  <2>1. /\ UNCHANGED <<step, row, stream, buffer, used, block, file, size, pos, entry>>
        /\ \A i \in Offset : card'[i] \in {card[i], file[i]}
    BY <1>11 DEF BlockReachesCard, TypeInv
  <2>2. Base' = Base
    BY <2>1 DEF Base
  <2>3. BufferInv'
    BY <2>1, <2>2 DEF BufferInv, Multiple
  <2>4. StepInv'
    BY <2>1 DEF StepInv
  <2>5. ASSUME NEW i \in 1..entry'
        PROVE  card'[i] = i
    <3>1. i \in Offset /\ i \in 1..size /\ i \in 1..entry
      BY <2>1 DEF FileInv, TypeInv, Offset
    <3>2. file[i] = i /\ card[i] = i
      BY <3>1 DEF FileInv
    <3> QED
      BY <2>1, <3>1, <3>2
  <2>6. FileInv'
    BY <2>1, <2>5 DEF FileInv
  <2> QED
    BY <2>3, <2>4, <2>6
<1>12. CASE UNCHANGED csvVars
  <2>1. Base' = Base
    BY <1>12 DEF Base, csvVars, disk
  <2> QED
    BY <1>12, <2>1 DEF csvVars, disk, BufferInv, StepInv, FileInv, Multiple
<1> QED
  BY <1>1, <1>2, <1>3, <1>4, <1>5, <1>6, <1>7, <1>8, <1>9, <1>10, <1>11, <1>12 DEF CsvNext

-----------------------------------------------------------------------------
(* Theorems.                                                               *)

LEMMA InitInv == CsvInit => CsvInv
<1> SUFFICES ASSUME CsvInit
             PROVE  CsvInv
  OBVIOUS
<1> USE LogAssumption DEF CsvInit
<1>1. TypeInv
  BY DEF TypeInv, Steps, Offset
<1>2. Base = 0 /\ 0 = 0 * BlockSize
  BY DEF Base
<1>3. BufferInv
  BY <1>1, <1>2 DEF BufferInv, TypeInv, Multiple
<1>4. StepInv /\ FileInv
  BY <1>1 DEF StepInv, FileInv, TypeInv
<1> QED
  BY <1>1, <1>3, <1>4 DEF CsvInv

LEMMA StepKeepsInv == CsvInv /\ [CsvNext]_csvVars => CsvInv'
  BY TypeStep, ContentStep DEF CsvInv

LEMMA Invariance == CsvSpec => []CsvInv
<1> QED
  BY InitInv, StepKeepsInv, PTL DEF CsvSpec

\* What the file holds are the accepted bytes in their order, at any step of
\* a spill or a flush (append, write_blocks, flush).
THEOREM RowsInOrder == CsvSpec => []InOrder
<1>1. CsvInv => InOrder
  <2> SUFFICES ASSUME CsvInv
               PROVE  InOrder
    OBVIOUS
  <2>1. \A i \in 1..size : file[i] = i
    BY DEF CsvInv, FileInv
  <2>2. step = "idle" => pos + used = stream
    BY DEF CsvInv, BufferInv, Base
  <2>3. ASSUME step \in {"idle", "spill", "flush"}
        PROVE  pos % BlockSize = 0
    <3>1. Base \in Nat /\ Multiple(Base) /\ pos \in Nat /\ block \in Nat
      BY <2>3 DEF CsvInv, BufferInv, TypeInv, Steps
    <3>2. CASE step = "idle"
      <4>1. Base = pos
        BY <3>2 DEF Base
      <4> QED
        BY <3>1, <4>1, MultipleMod
    <3>3. CASE step \in {"spill", "flush"}
      <4>1. Base = pos - block * BlockSize /\ block * BlockSize \in Nat
        BY <3>1, <3>3, LogAssumption DEF Base
      <4>2. pos = Base + block * BlockSize
        BY <3>1, <4>1
      <4>3. Multiple(Base + block * BlockSize)
        BY <3>1, NextMultiple
      <4>4. Multiple(pos)
        BY <4>2, <4>3
      <4> QED
        BY <3>1, <4>4, MultipleMod
    <3> QED
      BY <2>3, <3>2, <3>3
  <2> QED
    BY <2>1, <2>2, <2>3 DEF InOrder
<1> QED
  BY <1>1, Invariance, PTL

\* A log keeps its promise: after a loss of power, at whatever step, the file
\* reads as the log was at the last completed flush (writer.rs, flush).
THEOREM FlushedIsDurable == CsvSpec => ImplementsDurableLog
<1>1. CsvInit => Log!Init
  BY LogAssumption DEF CsvInit, Log!Init
<1>2. CsvInv /\ CsvInv' /\ [CsvNext]_csvVars => [Log!Next]_Log!vars
  <2> SUFFICES ASSUME CsvInv, CsvInv', [CsvNext]_csvVars
               PROVE  [Log!Next]_Log!vars
    OBVIOUS
  <2> DEFINE readable == [i \in 1..entry |-> card[i]]
  <2>1. readable = [i \in 1..entry |-> i] /\ readable' = [i \in 1..entry' |-> i]
    BY DEF CsvInv, FileInv
  <2>2. ASSUME NEW n \in 1..MaxRow, AppendRow(n)
        PROVE  Log!Accept
    BY <2>1, <2>2, LogAssumption DEF AppendRow, disk, Log!Accept, CsvInv, TypeInv
  <2>3. CASE SpillEnds
    <3>1. stream' = stream + row /\ row \in 1..MaxRow /\ entry' = entry
      BY <2>3 DEF SpillEnds, disk, CsvInv, StepInv
    <3>2. stream' \in (stream + 1)..(stream + MaxRow)
      BY <3>1, LogAssumption DEF CsvInv, TypeInv
    <3>3. UNCHANGED readable
      BY <2>1, <3>1
    <3> QED
      BY <3>2, <3>3 DEF Log!Accept, Log!Next
  <2>4. CASE Sync
    <3>1. entry' = stream /\ stream' = stream
      BY <2>4 DEF Sync, CsvInv, StepInv
    <3>2. readable' = [i \in 1..stream |-> i]
      BY <2>1, <3>1
    <3> HIDE DEF readable
    <3> QED
      BY <3>1, <3>2 DEF Log!FlushCompletes, Log!Next, readable
  <2>5. ASSUME UNCHANGED <<stream, entry>>
        PROVE  UNCHANGED Log!vars
    BY <2>1, <2>5 DEF Log!vars
  <2>6. ASSUME NEW n \in 1..MaxRow, Spill(n)
        PROVE  UNCHANGED Log!vars
    BY <2>5, <2>6 DEF Spill, disk
  <2>7. CASE WriteBlock \/ FlushLog \/ FlushRest \/ WriteRest \/ SeekBack \/ Fails \/ BlockReachesCard
    BY <2>5, <2>7 DEF WriteBlock, FlushLog, FlushRest, WriteRest, SeekBack, Fails, BlockReachesCard, disk
  <2>8. CASE UNCHANGED csvVars
    BY <2>5, <2>8 DEF csvVars, disk
  <2> QED
    BY <2>2, <2>3, <2>4, <2>6, <2>7, <2>8 DEF CsvNext, Log!Next
<1> QED
  BY <1>1, <1>2, Invariance, PTL DEF CsvSpec, ImplementsDurableLog, Log!Spec

-----------------------------------------------------------------------------
(* A logging session.                                                      *)

\* Every reading is somewhere, and the losses of a session are in DROPS.CSV or to be added to it.
SdType ==
    /\ at \in {"mount", "off", "wait", "append", "drops", "flush"}
    /\ current \in Kind \cup {NoVal} /\ (current # NoVal <=> at = "append")
    /\ pending \in [Kind -> Int] /\ lost \in [Kind -> Nat] /\ dropped \in [Kind -> Nat]
    /\ published \in [Kind -> Int] /\ written \in [Kind -> Int] /\ reported \in [Kind -> Int]
    /\ oversized \in [Kind -> Int]
    /\ sessionDropped \in Int

\* Once DROPS.CSV is written, dropped only waits for its reset.
Unreported(k) == IF at = "flush" THEN 0 ELSE dropped[k]
InHand(k) == IF current = k THEN 1 ELSE 0

Balance ==
    InSession => \A k \in Kind :
        published[k] = written[k] + reported[k] + Unreported(k) + pending[k] + lost[k]
                       + oversized[k] + InHand(k)

\* What SD_SESSION says, before the flush adds the losses to it.
Totals ==
    /\ InSession => Sum(reported) = sessionDropped + (IF at = "flush" THEN Sum(dropped) ELSE 0)
    /\ logging => InSession /\ session.log = number /\ session.dropped = sessionDropped

SdInv == SdType /\ Balance /\ Totals

LEMMA KindSums ==
    /\ IsFiniteSet(Kind)
    /\ Sum(Zero) = 0
    /\ \A f \in [Kind -> Int] : Sum(f) \in Int
    /\ \A f \in [Kind -> Nat] : Sum(f) \in Nat /\ (Sum(f) = 0 <=> \A k \in Kind : f[k] = 0)
    /\ \A f, g \in [Kind -> Int] : Sum([k \in Kind |-> f[k] + g[k]]) = Sum(f) + Sum(g)
<1>1. IsFiniteSet(Kind)
    BY SdAssumption, FS_Interval DEF Kind
<1>2. ASSUME NEW f \in [Kind -> Nat]
      PROVE  Sum(f) \in Nat /\ (Sum(f) = 0 <=> \A k \in Kind : f[k] = 0)
    BY <1>1, SumOfNats DEF Sum
<1>3. ASSUME NEW f \in [Kind -> Int]
      PROVE  Sum(f) \in Int
    BY <1>1, SumOfRest DEF Sum
<1>4. ASSUME NEW f \in [Kind -> Int], NEW g \in [Kind -> Int]
      PROVE  Sum([k \in Kind |-> f[k] + g[k]]) = Sum(f) + Sum(g)
    BY <1>1, SumAdds DEF Sum
<1>5. Zero \in [Kind -> Nat] /\ \A k \in Kind : Zero[k] = 0
    BY DEF Zero
<1> QED
    BY <1>1, <1>2, <1>3, <1>4, <1>5

LEMMA Bumped ==
    ASSUME NEW f \in [Kind -> Int], NEW k \in Kind, NEW n \in Int
    PROVE  /\ Bump(f, k, n) \in [Kind -> Int]
           /\ \A j \in Kind : Bump(f, k, n)[j] = IF j = k THEN f[j] + n ELSE f[j]
BY DEF Bump

LEMMA BumpedNat ==
    ASSUME NEW f \in [Kind -> Nat], NEW k \in Kind, NEW n \in Nat
    PROVE  /\ Bump(f, k, n) \in [Kind -> Nat]
           /\ \A j \in Kind : Bump(f, k, n)[j] = IF j = k THEN f[j] + n ELSE f[j]
BY DEF Bump

LEMMA InitSd == SdInit => SdInv
<1> SUFFICES ASSUME SdInit
             PROVE  SdInv
    OBVIOUS
<1>1. Zero \in [Kind -> Nat] /\ Zero \in [Kind -> Int]
    BY DEF Zero
<1>2. SdType
    BY <1>1 DEF SdInit, SdType
<1> QED
    BY <1>2 DEF SdInit, SdInv, Balance, Totals, InSession

\* On to the flush, or not: without losses nothing is added.
LEMMA LapEnds ==
    ASSUME NEW d \in [Kind -> Nat]
    PROVE  /\ AfterRecord(d) \in {"wait", "drops", "flush"}
           /\ AfterRecord(d) = "flush" => Sum(d) = 0 /\ \A k \in Kind : d[k] = 0
<1>1. Sum(d) \in Nat /\ (Sum(d) = 0 <=> \A k \in Kind : d[k] = 0)
    BY KindSums
<1> QED
    BY <1>1 DEF AfterRecord

LEMMA SdTypeStep == SdType /\ [SdNext]_sdVars => SdType'
<1> SUFFICES ASSUME SdType, [SdNext]_sdVars
             PROVE  SdType'
    OBVIOUS
<1>0. Zero \in [Kind -> Nat] /\ Zero \in [Kind -> Int]
    BY DEF Zero
<1>a. pending \in [Kind -> Int]
    BY DEF SdType
<1>b. published \in [Kind -> Int]
    BY DEF SdType
<1>c. written \in [Kind -> Int]
    BY DEF SdType
<1>d. oversized \in [Kind -> Int]
    BY DEF SdType
<1>e. lost \in [Kind -> Nat]
    BY DEF SdType
<1>f. dropped \in [Kind -> Nat]
    BY DEF SdType
<1>1. ASSUME NEW k \in Kind, Publish(k)
      PROVE  SdType'
    <2>1. published' = Bump(published, k, 1)
        BY <1>1 DEF Publish
    <2>2. published' \in [Kind -> Int]
        BY <1>b, <2>1, Bumped
    <2>3. pending' = pending \/ pending' = Bump(pending, k, 1)
        BY <1>1 DEF Publish
    <2>4. pending' \in [Kind -> Int]
        BY <1>a, <2>3, Bumped
    <2>5. lost' = lost \/ lost' = Bump(lost, k, 1)
        BY <1>1 DEF Publish
    <2>6. lost' \in [Kind -> Nat]
        BY <1>e, <2>5, BumpedNat
    <2> QED
        BY <1>1, <2>2, <2>4, <2>6 DEF Publish, signals, SdType
<1>2. CASE PeriodPasses
    BY <1>2 DEF PeriodPasses, signals, history, SdType
<1>3. CASE StartSession
    BY <1>0, <1>3 DEF StartSession, SdType
<1>4. CASE CardFails
    BY <1>4 DEF CardFails, history, SdType
<1>5. CASE Retry
    BY <1>5 DEF Retry, signals, history, SdType
<1>6. ASSUME NEW k \in Kind, TakeLagged(k)
      PROVE  SdType'
    <2>1. dropped' = Bump(dropped, k, lost[k]) /\ lost' = [lost EXCEPT ![k] = 0]
        BY <1>6 DEF TakeLagged, Counted
    <2>2. lost[k] \in Nat /\ lost' \in [Kind -> Nat]
        BY <1>e, <2>1
    <2>3. dropped' \in [Kind -> Nat]
        BY <1>f, <2>1, <2>2, BumpedNat
    <2>4. at' \in {"wait", "drops", "flush"} /\ at = "wait"
        BY <1>6, <2>3, LapEnds DEF TakeLagged
    <2> QED
        BY <1>6, <2>2, <2>3, <2>4 DEF TakeLagged, signals, history, SdType
<1>7. ASSUME NEW k \in Kind, Take(k)
      PROVE  SdType'
    <2>1. pending' = Bump(pending, k, -1)
        BY <1>7 DEF Take
    <2>2. pending' \in [Kind -> Int]
        BY <1>a, <2>1, Bumped
    <2>3. k # NoVal
        BY SdAssumption DEF Kind
    <2> QED
        BY <1>7, <2>2, <2>3 DEF Take, signals, history, SdType
<1>8. ASSUME NEW k \in Kind, TakeOversized(k)
      PROVE  SdType'
    <2>1. pending' = Bump(pending, k, -1) /\ oversized' = Bump(oversized, k, 1)
        BY <1>8 DEF TakeOversized
    <2>2. pending' \in [Kind -> Int]
        BY <1>a, <2>1, Bumped
    <2>3. oversized' \in [Kind -> Int]
        BY <1>d, <2>1, Bumped
    <2> QED
        BY <1>8, <2>2, <2>3 DEF TakeOversized, signals, SdType
<1>9. CASE AppendReading
    <2>1. written' = Bump(written, current, 1) /\ current \in Kind
        BY <1>9 DEF AppendReading, SdType
    <2>2. written' \in [Kind -> Int]
        BY <1>c, <2>1, Bumped
    <2>3. at' \in {"wait", "drops", "flush"}
        BY <1>9, <1>f, LapEnds DEF AppendReading
    <2> QED
        BY <1>9, <2>2, <2>3 DEF AppendReading, signals, SdType
<1>10. CASE FlushTimer
    <2>1. at' \in {"wait", "drops", "flush"}
        BY <1>10, <1>f, LapEnds DEF FlushTimer
    <2> QED
        BY <1>10, <2>1 DEF FlushTimer, signals, history, SdType
<1>11. CASE AppendDrops
    BY <1>11 DEF AppendDrops, signals, SdType
<1>12. CASE FlushLogs
    <2>1. sessionDropped' \in Int
        BY <1>12, KindSums DEF FlushLogs, SdType
    <2> QED
        BY <1>0, <1>12, <2>1 DEF FlushLogs, Kept, SdType
<1>13. CASE UNCHANGED sdVars
    BY <1>13 DEF sdVars, signals, history, SdType
<1> QED
    BY <1>1, <1>2, <1>3, <1>4, <1>5, <1>6, <1>7, <1>8, <1>9, <1>10, <1>11, <1>12, <1>13 DEF SdNext, Session

LEMMA BalanceStep == SdType /\ Balance /\ [SdNext]_sdVars => Balance'
<1> SUFFICES ASSUME SdType, Balance, [SdNext]_sdVars
             PROVE  Balance'
    OBVIOUS
<1> DEFINE Owed(j) == published[j] = written[j] + reported[j] + Unreported(j) + pending[j] + lost[j]
                                     + oversized[j] + InHand(j)
<1>a. ASSUME NEW j \in Kind
      PROVE  /\ pending[j] \in Int /\ lost[j] \in Int /\ dropped[j] \in Int /\ published[j] \in Int
             /\ written[j] \in Int /\ reported[j] \in Int /\ oversized[j] \in Int
             /\ Unreported(j) \in Int /\ InHand(j) \in Int
             /\ at # "append" => InHand(j) = 0
    <2>1. NoVal # j
        BY SdAssumption DEF Kind
    <2> QED
        BY <2>1 DEF SdType, Unreported, InHand
<1>p. pending \in [Kind -> Int]
    BY DEF SdType
<1>q. published \in [Kind -> Int]
    BY DEF SdType
<1>w. written \in [Kind -> Int]
    BY DEF SdType
<1>o. oversized \in [Kind -> Int]
    BY DEF SdType
<1>l. lost \in [Kind -> Nat]
    BY DEF SdType
<1>d. dropped \in [Kind -> Nat]
    BY DEF SdType
<1>b. ASSUME NEW j \in Kind, InSession
      PROVE  Owed(j)
    BY <1>b DEF Balance
<1>c. ASSUME InSession' => \A j \in Kind : Owed(j)'
      PROVE  Balance'
    BY <1>c DEF Balance
<1> HIDE DEF Owed
<1>1. ASSUME NEW k \in Kind, Publish(k)
      PROVE  Balance'
    <2>1. ASSUME NEW j \in Kind
          PROVE  Owed(j)'
        <3>1. /\ UNCHANGED <<Unreported(j), InHand(j)>> /\ UNCHANGED <<written, reported, oversized>>
              /\ InSession
            BY <1>1 DEF Publish, Unreported, InHand
        <3>a. /\ published' = Bump(published, k, 1)
              /\ \/ pending' = Bump(pending, k, 1) /\ lost' = lost
                 \/ lost' = Bump(lost, k, 1) /\ pending' = pending
            BY <1>1 DEF Publish
        <3>2. published'[j] = IF j = k THEN published[j] + 1 ELSE published[j]
            BY <1>q, <3>a, Bumped
        <3>c. Bump(pending, k, 1)[j] = IF j = k THEN pending[j] + 1 ELSE pending[j]
            BY <1>p, Bumped
        <3>d. Bump(lost, k, 1)[j] = IF j = k THEN lost[j] + 1 ELSE lost[j]
            BY <1>l, BumpedNat
        <3>3. \/ pending'[j] = (IF j = k THEN pending[j] + 1 ELSE pending[j]) /\ lost' = lost
              \/ lost'[j] = (IF j = k THEN lost[j] + 1 ELSE lost[j]) /\ pending' = pending
            BY <3>a, <3>c, <3>d
        <3> QED
            BY <1>a, <1>b, <3>1, <3>2, <3>3 DEF Owed
    <2> QED
        BY <1>c, <2>1
<1>2. CASE PeriodPasses \/ UNCHANGED sdVars
    BY <1>2 DEF PeriodPasses, sdVars, signals, history, Balance, InSession, Unreported, InHand
<1>3. CASE StartSession
    <2>1. ASSUME NEW j \in Kind
          PROVE  Owed(j)'
        <3>1. /\ published'[j] = 0 /\ written'[j] = 0 /\ reported'[j] = 0 /\ pending'[j] = 0
              /\ lost'[j] = 0 /\ oversized'[j] = 0
            BY <1>3 DEF StartSession, Zero
        <3>2. Unreported(j)' = 0
            BY <1>3 DEF StartSession, Zero, Unreported
        <3>3. InHand(j)' = 0
            BY <1>a, <1>3 DEF StartSession, InHand
        <3> QED
            BY <3>1, <3>2, <3>3 DEF Owed
    <2> QED
        BY <1>c, <2>1
<1>4. CASE CardFails \/ Retry
    BY <1>c, <1>4 DEF CardFails, Retry, InSession
<1>5. ASSUME NEW k \in Kind, TakeLagged(k)
      PROVE  Balance'
    <2>1. /\ UNCHANGED <<current, pending, published, written, reported, oversized>>
          /\ at = "wait" /\ InSession /\ at' = AfterRecord(dropped')
          /\ dropped' = Bump(dropped, k, lost[k]) /\ lost' = [lost EXCEPT ![k] = 0]
        BY <1>5 DEF TakeLagged, Counted, history, InSession
    <2>a. lost[k] \in Nat
        BY <1>l
    <2>2. dropped' \in [Kind -> Nat]
        BY <1>d, <2>1, <2>a, BumpedNat
    <2>3. at' \in {"wait", "drops", "flush"} /\ (at' = "flush" => \A j \in Kind : dropped'[j] = 0)
        BY <2>1, <2>2, LapEnds
    <2>4. ASSUME NEW j \in Kind
          PROVE  Owed(j)'
        <3>1. Unreported(j)' = dropped'[j] /\ Unreported(j) = dropped[j] /\ InHand(j)' = InHand(j)
            BY <2>1, <2>3 DEF Unreported, InHand
        <3>2. dropped'[j] = IF j = k THEN dropped[j] + lost[j] ELSE dropped[j]
            BY <1>d, <2>1, <2>a, BumpedNat
        <3>3. lost'[j] = IF j = k THEN 0 ELSE lost[j]
            BY <1>l, <2>1
        <3> QED
            BY <1>a, <1>b, <2>1, <3>1, <3>2, <3>3 DEF Owed
    <2> QED
        BY <1>c, <2>4
<1>6. ASSUME NEW k \in Kind, Take(k)
      PROVE  Balance'
    <2>1. /\ UNCHANGED <<lost, dropped, published, written, reported, oversized>>
          /\ at = "wait" /\ InSession /\ at' = "append" /\ current' = k
          /\ pending' = Bump(pending, k, -1)
        BY <1>6 DEF Take, history, InSession
    <2>2. ASSUME NEW j \in Kind
          PROVE  Owed(j)'
        <3>1. Unreported(j)' = Unreported(j) /\ InHand(j) = 0 /\ InHand(j)' = IF j = k THEN 1 ELSE 0
            BY <1>a, <2>1 DEF Unreported, InHand
        <3>2. pending'[j] = IF j = k THEN pending[j] + -1 ELSE pending[j]
            BY <1>p, <2>1, Bumped
        <3> QED
            BY <1>a, <1>b, <2>1, <3>1, <3>2 DEF Owed
    <2> QED
        BY <1>c, <2>2
<1>7. ASSUME NEW k \in Kind, TakeOversized(k)
      PROVE  Balance'
    <2>1. /\ UNCHANGED <<at, current, lost, dropped, published, written, reported>> /\ InSession
          /\ pending' = Bump(pending, k, -1) /\ oversized' = Bump(oversized, k, 1)
        BY <1>7 DEF TakeOversized, InSession
    <2>2. ASSUME NEW j \in Kind
          PROVE  Owed(j)'
        <3>1. Unreported(j)' = Unreported(j) /\ InHand(j)' = InHand(j)
            BY <2>1 DEF Unreported, InHand
        <3>2. pending'[j] = IF j = k THEN pending[j] + -1 ELSE pending[j]
            BY <1>p, <2>1, Bumped
        <3>3. oversized'[j] = IF j = k THEN oversized[j] + 1 ELSE oversized[j]
            BY <1>o, <2>1, Bumped
        <3> QED
            BY <1>a, <1>b, <2>1, <3>1, <3>2, <3>3 DEF Owed
    <2> QED
        BY <1>c, <2>2
<1>8. CASE AppendReading
    <2>1. /\ UNCHANGED <<lost, dropped, published, pending, reported, oversized>>
          /\ at = "append" /\ InSession /\ current \in Kind /\ current' = NoVal
          /\ at' = AfterRecord(dropped) /\ written' = Bump(written, current, 1)
        BY <1>8 DEF AppendReading, InSession, SdType
    <2>2. at' \in {"wait", "drops", "flush"} /\ (at' = "flush" => \A j \in Kind : dropped[j] = 0)
        BY <2>1, LapEnds DEF SdType
    <2>3. ASSUME NEW j \in Kind
          PROVE  Owed(j)'
        <3>1. Unreported(j)' = Unreported(j)
            BY <2>1, <2>2 DEF Unreported
        <3>2. InHand(j) = (IF j = current THEN 1 ELSE 0) /\ InHand(j)' = 0
            BY <2>1, SdAssumption DEF InHand, Kind
        <3>3. written'[j] = IF j = current THEN written[j] + 1 ELSE written[j]
            BY <1>w, <2>1, Bumped
        <3>4. Owed(j) /\ UNCHANGED <<lost, dropped, published, pending, reported, oversized>>
            BY <1>b, <2>1
        <3>5. CASE j = current
            BY <1>a, <3>1, <3>2, <3>3, <3>4, <3>5 DEF Owed
        <3>6. CASE j # current
            BY <1>a, <3>1, <3>2, <3>3, <3>4, <3>6 DEF Owed
        <3> QED
            BY <3>5, <3>6
    <2> QED
        BY <1>c, <2>3
<1>9. CASE FlushTimer
    <2>1. /\ UNCHANGED <<current, lost, dropped, published, pending, written, reported, oversized>>
          /\ at = "wait" /\ InSession /\ at' = AfterRecord(dropped)
        BY <1>9 DEF FlushTimer, history, InSession
    <2>2. at' \in {"wait", "drops", "flush"} /\ (at' = "flush" => \A j \in Kind : dropped[j] = 0)
        BY <2>1, LapEnds DEF SdType
    <2>3. ASSUME NEW j \in Kind
          PROVE  Owed(j)'
        <3>1. Unreported(j)' = Unreported(j) /\ InHand(j)' = InHand(j)
            BY <2>1, <2>2 DEF Unreported, InHand
        <3> QED
            BY <1>b, <2>1, <3>1 DEF Owed
    <2> QED
        BY <1>c, <2>3
<1>10. CASE AppendDrops
    <2>1. /\ UNCHANGED <<current, lost, dropped, published, pending, written, oversized>>
          /\ at = "drops" /\ InSession /\ at' = "flush"
          /\ \A j \in Kind : reported'[j] = reported[j] + dropped[j]
        BY <1>10 DEF AppendDrops, InSession
    <2>2. ASSUME NEW j \in Kind
          PROVE  Owed(j)'
        <3>1. Unreported(j) = dropped[j] /\ Unreported(j)' = 0 /\ InHand(j)' = InHand(j)
            BY <2>1 DEF Unreported, InHand
        <3> QED
            BY <1>a, <1>b, <2>1, <3>1 DEF Owed
    <2> QED
        BY <1>c, <2>2
<1>11. CASE FlushLogs
    <2>1. /\ UNCHANGED <<current, lost, published, pending, written, reported, oversized>>
          /\ at = "flush" /\ InSession /\ at' = "wait" /\ \A j \in Kind : dropped'[j] = 0
        BY <1>11 DEF FlushLogs, InSession, Kept, Zero
    <2>2. ASSUME NEW j \in Kind
          PROVE  Owed(j)'
        <3>1. Unreported(j)' = Unreported(j) /\ InHand(j)' = InHand(j)
            BY <2>1 DEF Unreported, InHand
        <3> QED
            BY <1>b, <2>1, <3>1 DEF Owed
    <2> QED
        BY <1>c, <2>2
<1> QED
    BY <1>1, <1>2, <1>3, <1>4, <1>5, <1>6, <1>7, <1>8, <1>9, <1>10, <1>11 DEF SdNext, Session

LEMMA TotalsStep == SdType /\ Totals /\ [SdNext]_sdVars => Totals'
<1> SUFFICES ASSUME SdType, Totals, [SdNext]_sdVars
             PROVE  Totals'
    OBVIOUS
<1> USE DEF SdType, Totals, InSession
<1>0. sessionDropped \in Int /\ Sum(reported) \in Int /\ Sum(dropped) \in Int
    BY KindSums
<1>1. CASE /\ at \in {"wait", "append"} /\ (at' = at \/ (at = "wait" /\ at' = "append"))
           /\ UNCHANGED <<reported, sessionDropped, logging, session, number>>
    BY <1>1 DEF Sum
<1>2. CASE /\ at' = at /\ UNCHANGED <<reported, dropped, sessionDropped, logging, session, number>>
    BY <1>2 DEF Sum
<1>3. CASE /\ at \in {"wait", "append"} /\ at' = AfterRecord(dropped') /\ dropped' \in [Kind -> Nat]
           /\ UNCHANGED <<reported, sessionDropped, logging, session, number>>
    <2>1. at' \in {"wait", "drops", "flush"} /\ (at' = "flush" => Sum(dropped') = 0)
        BY <1>3, LapEnds
    <2>2. Sum(reported) = sessionDropped /\ Sum(reported)' = Sum(reported) /\ Sum(dropped)' = Sum(dropped')
        BY <1>3 DEF Sum
    <2> QED
        BY <1>0, <1>3, <2>1, <2>2
<1>4. ASSUME NEW k \in Kind, Publish(k)
      PROVE  Totals'
    BY <1>2, <1>4 DEF Publish, signals
<1>5. CASE PeriodPasses
    BY <1>2, <1>5 DEF PeriodPasses, signals, history
<1>6. CASE StartSession
    <2>1. Sum(reported') = 0
        BY <1>6, KindSums DEF StartSession
    <2> QED
        BY <1>6, <2>1 DEF StartSession, Sum
<1>7. CASE CardFails
    BY <1>7 DEF CardFails, LoggingAfter
<1>8. CASE Retry
    BY <1>8 DEF Retry, signals
<1>9. ASSUME NEW k \in Kind, TakeLagged(k)
      PROVE  Totals'
    <2>1. dropped' \in [Kind -> Nat]
        BY <1>9 DEF TakeLagged, Counted, Bump
    <2> QED
        BY <1>3, <1>9, <2>1 DEF TakeLagged, signals, history
<1>10. ASSUME NEW k \in Kind, Take(k) \/ TakeOversized(k)
       PROVE  Totals'
    BY <1>1, <1>10 DEF Take, TakeOversized, signals, history
<1>11. CASE AppendReading \/ FlushTimer
    BY <1>3, <1>11 DEF AppendReading, FlushTimer, signals, history
<1>12. CASE AppendDrops
    <2>1. Sum([k \in Kind |-> reported[k] + dropped[k]]) = Sum(reported) + Sum(dropped)
        BY KindSums
    <2>2. /\ reported' = [k \in Kind |-> reported[k] + dropped[k]] /\ at = "drops" /\ at' = "flush"
          /\ UNCHANGED <<dropped, sessionDropped, logging, session, number>>
        BY <1>12 DEF AppendDrops, signals
    <2>3. Sum(reported)' = Sum(reported) + Sum(dropped) /\ Sum(dropped)' = Sum(dropped)
        BY <2>1, <2>2 DEF Sum
    <2> QED
        BY <2>2, <2>3
<1>13. CASE FlushLogs
    BY <1>0, <1>13 DEF FlushLogs, Sum
<1>14. CASE UNCHANGED sdVars
    BY <1>2, <1>14 DEF sdVars, signals, history
<1> QED
    BY <1>4, <1>5, <1>6, <1>7, <1>8, <1>9, <1>10, <1>11, <1>12, <1>13, <1>14 DEF SdNext, Session

\* Every reading of a session is in its file, in hand, in the channel, skipped or counted as dropped
\* exactly once, and what SD_SESSION tells of the drops is what DROPS.CSV holds, whatever overflows
\* and wherever the card fails (sd_logging/mod.rs).
THEOREM NothingUnaccounted == SdSpec => []AccountedFor
<1>1. SdInv => AccountedFor
    <2> SUFFICES ASSUME SdInv
                 PROVE  AccountedFor
        OBVIOUS
    <2>1. ASSUME InSession, NEW k \in Kind
          PROVE  LET counted == IF at = "flush" THEN reported[k] ELSE reported[k] + dropped[k] IN
                 published[k] = written[k] + counted + pending[k] + lost[k] + oversized[k]
                                + (IF current = k THEN 1 ELSE 0)
        <3>1. published[k] = written[k] + reported[k] + Unreported(k) + pending[k] + lost[k]
                             + oversized[k] + InHand(k)
            BY <2>1 DEF SdInv, Balance
        <3>2. /\ written[k] \in Int /\ reported[k] \in Int /\ dropped[k] \in Int
              /\ pending[k] \in Int /\ lost[k] \in Int /\ oversized[k] \in Int
            BY DEF SdInv, SdType
        <3> QED
            BY <3>1, <3>2 DEF Unreported, InHand
    <2>2. ASSUME logging
          PROVE  InSession /\ session.log = number /\ (at # "flush" => session.dropped = Sum(reported))
        BY <2>2 DEF SdInv, SdType, Totals
    <2> QED
        BY <2>1, <2>2 DEF AccountedFor
<1>2. SdInv /\ [SdNext]_sdVars => SdInv'
    BY SdTypeStep, BalanceStep, TotalsStep DEF SdInv
<1> QED
    BY <1>1, <1>2, InitSd, PTL DEF SdSpec

-----------------------------------------------------------------------------
(* The means that go to the bus.                                           *)

\* As long as the estimator's choice stands, what came into the window since the last mean came
\* from the IMU it chose; a choice is there once there is an estimate.
MeanInv ==
    /\ toSef \in Seq(Unit) /\ toCan \in Seq(Unit) /\ window \in Seq(Unit)
    /\ Len(window) <= MeanSamples
    /\ sinceMean \in 0..(MeanSamples - 1) /\ sinceMean <= Len(window)
    /\ selectedImu \in {Nobody} \cup Unit
    /\ selectedImu # Nobody => estimate
    /\ ~changed =>
          \A i \in 1..Len(window) : i > Len(window) - sinceMean => window[i] = selectedImu
    /\ mean.by = {} \/ mean.mixed \/ \E i \in Unit : mean.by = {i}

\* A sample goes into the window at its end, and out at its beginning once it is full.
LEMMA WindowUpdate ==
    ASSUME NEW w \in Seq(Unit), Len(w) <= MeanSamples, NEW x \in Unit, NEW s \in Nat
    PROVE  /\ MeanUpdate(w, x) \in Seq(Unit)
           /\ Len(MeanUpdate(w, x)) = IF Len(w) < MeanSamples THEN Len(w) + 1 ELSE MeanSamples
           /\ MeanUpdate(w, x)[Len(MeanUpdate(w, x))] = x
           /\ (\A i \in 1..Len(w) : i > Len(w) - s => w[i] = x)
              => \A i \in 1..Len(MeanUpdate(w, x)) :
                    i > Len(MeanUpdate(w, x)) - (s + 1) => MeanUpdate(w, x)[i] = x
<1>1. Len(w) \in Nat /\ MeanSamples \in Nat /\ MeanSamples > 0
    BY LenProperties, CarrierAssumption
<1>2. CASE Len(w) < MeanSamples
    <2> DEFINE u == Append(w, x)
    <2>1. /\ u \in Seq(Unit) /\ Len(u) = Len(w) + 1 /\ u[Len(w) + 1] = x
          /\ \A i \in 1..Len(w) : u[i] = w[i]
        BY AppendProperties
    <2>2. MeanUpdate(w, x) = u
        BY <1>2 DEF MeanUpdate
    <2> HIDE DEF u
    <2>3. ASSUME \A i \in 1..Len(w) : i > Len(w) - s => w[i] = x,
                 NEW i \in 1..Len(u), i > Len(u) - (s + 1)
          PROVE  u[i] = x
        <3>1. i = Len(w) + 1 \/ (i \in 1..Len(w) /\ i > Len(w) - s)
            BY <1>1, <2>1, <2>3
        <3> QED
            BY <2>1, <2>3, <3>1
    <2> QED
        BY <1>1, <1>2, <2>1, <2>2, <2>3
<1>3. CASE Len(w) = MeanSamples
    <2> DEFINE t == Tail(w)
               u == Append(t, x)
    <2>1. /\ t \in Seq(Unit) /\ Len(t) = Len(w) - 1
          /\ \A i \in 1..Len(t) : t[i] = w[i + 1]
        BY <1>1, <1>3, HeadTailProperties, EmptySeq
    <2> HIDE DEF t
    <2>2. /\ u \in Seq(Unit) /\ Len(u) = Len(t) + 1 /\ u[Len(t) + 1] = x
          /\ \A i \in 1..Len(t) : u[i] = t[i]
        BY <2>1, AppendProperties
    <2>3. MeanUpdate(w, x) = u
        BY <1>1, <1>3 DEF MeanUpdate, t
    <2> HIDE DEF u
    <2>4. ASSUME \A i \in 1..Len(w) : i > Len(w) - s => w[i] = x,
                 NEW i \in 1..Len(u), i > Len(u) - (s + 1)
          PROVE  u[i] = x
        <3>1. CASE i = Len(t) + 1
            BY <2>2, <3>1
        <3>2. CASE i # Len(t) + 1
            <4>1. i \in 1..Len(t) /\ i + 1 \in 1..Len(w) /\ i + 1 > Len(w) - s
                BY <1>1, <2>1, <2>2, <2>4, <3>2
            <4> QED
                BY <2>1, <2>2, <2>4, <4>1
        <3> QED
            BY <3>1, <3>2
    <2> QED
        BY <1>1, <1>3, <2>1, <2>2, <2>3, <2>4
<1> QED
    BY <1>1, <1>2, <1>3

\* A counter that wraps.
LEMMA Wraps ==
    ASSUME NEW n \in Nat, n > 0, NEW k \in 0..(n - 1)
    PROVE  IF k + 1 = n THEN (k + 1) % n = 0 ELSE (k + 1) % n = k + 1
<1>1. CASE k + 1 = n
    <2>1. n % n = 0
        OBVIOUS
    <2> QED
        BY <1>1, <2>1
<1>2. CASE k + 1 < n
    OBVIOUS
<1> QED
    BY <1>1, <1>2

LEMMA InitMean == CarrierInit => MeanInv
BY CarrierAssumption, EmptySeq DEF CarrierInit, MeanInv, Nobody

\* Queues keep to the IMUs.
LEMMA QueueTypes ==
    ASSUME NEW q \in Seq(Unit), NEW i \in Unit
    PROVE  /\ Queued(q, i) \in Seq(Unit)
           /\ q # <<>> => Tail(q) \in Seq(Unit) /\ Head(q) \in Unit
<1>1. q # <<>> => Tail(q) \in Seq(Unit) /\ Head(q) \in Unit
    BY HeadTailProperties
<1>2. CASE Len(q) < Backlog
    BY <1>2, AppendProperties DEF Queued
<1>3. CASE ~(Len(q) < Backlog)
    <2>1. q # <<>>
        BY <1>3, CarrierAssumption, EmptySeq
    <2> QED
        BY <1>1, <1>3, <2>1, AppendProperties DEF Queued
<1> QED
    BY <1>1, <1>2, <1>3

\* tx::imu: the sample of the chosen IMU completes the mean, or does not.
LEMMA CanImuStep == MeanInv /\ CanImu => MeanInv'
<1> SUFFICES ASSUME MeanInv, CanImu
             PROVE  MeanInv'
    OBVIOUS
<1> USE DEF MeanInv
<1> DEFINE i == Head(toCan)
           k == sinceMean
           u == MeanUpdate(window, i)
<1>1. /\ toCan # <<>> /\ toCan' = Tail(toCan)
      /\ UNCHANGED <<toSef, selectedImu, estimate>>
    BY DEF CanImu, sefVars
<1>2. i \in Unit /\ toCan' \in Seq(Unit)
    BY <1>1, QueueTypes
<1>3. CASE ~FromSelected(i)
    BY <1>1, <1>2, <1>3 DEF CanImu
<1>4. CASE FromSelected(i)
    <2>1. /\ window' = u /\ sinceMean' = (k + 1) % MeanSamples
          /\ IF sinceMean' = 0 /\ estimate
                THEN mean' = [by |-> MeanOf(u), mixed |-> changed] /\ changed' = FALSE
                ELSE UNCHANGED <<mean, changed>>
        BY <1>4 DEF CanImu
    <2>2. selectedImu = i /\ estimate
        BY <1>2, <1>4 DEF FromSelected, Nobody, Unit
    <2>0. k \in Nat
        BY CarrierAssumption
    <2>9. window \in Seq(Unit) /\ Len(window) <= MeanSamples
        OBVIOUS
    <2>3. /\ u \in Seq(Unit)
          /\ Len(u) = IF Len(window) < MeanSamples THEN Len(window) + 1 ELSE MeanSamples
          /\ u[Len(u)] = i
          /\ (\A j \in 1..Len(window) : j > Len(window) - k => window[j] = i)
             => \A j \in 1..Len(u) : j > Len(u) - (k + 1) => u[j] = i
        <3> HIDE DEF MeanInv, i, k
        <3> QED
            BY <1>2, <2>0, <2>9, WindowUpdate
    <2>4. /\ MeanSamples \in Nat /\ MeanSamples > 0 /\ Len(window) \in Nat /\ Len(u) \in Nat
          /\ k \in Nat /\ k <= MeanSamples - 1
        BY <2>3, CarrierAssumption, LenProperties
    <2>5. IF k + 1 = MeanSamples THEN (k + 1) % MeanSamples = 0 ELSE (k + 1) % MeanSamples = k + 1
        BY <2>4, Wraps
    <2> HIDE DEF u
    <2>6. ~changed => \A j \in 1..Len(u) : j > Len(u) - (k + 1) => u[j] = i
        BY <2>2, <2>3
    <2>7. CASE k + 1 = MeanSamples
        <3>1. sinceMean' = 0 /\ changed' = FALSE /\ mean'.by = MeanOf(u) /\ mean'.mixed = changed
            BY <2>1, <2>2, <2>5, <2>7
        <3>2. Len(u) = MeanSamples
            BY <2>3, <2>4, <2>7
        <3>3. ~changed => MeanOf(u) = {i}
            <4> SUFFICES ASSUME ~changed
                         PROVE  MeanOf(u) = {i}
                OBVIOUS
            <4>1. \A j \in 1..Len(u) : u[j] = i
                BY <2>4, <2>6, <2>7, <3>2
            <4>2. Len(u) \in 1..Len(u)
                BY <2>4, <3>2
            <4> QED
                BY <4>1, <4>2 DEF MeanOf
        <3>4. \A j \in 1..Len(u) : ~(j > Len(u) - 0)
            BY <2>4
        <3>5. mean'.mixed \/ \E o \in Unit : mean'.by = {o}
            BY <1>2, <3>1, <3>3
        <3>6. \A j \in 1..Len(u) : j > Len(u) - sinceMean' => u[j] = selectedImu'
            BY <3>1, <3>4
        <3>7. mean'.by = {} \/ mean'.mixed \/ \E o \in Unit : mean'.by = {o}
            BY <3>5
        <3>8. sinceMean' \in 0..(MeanSamples - 1) /\ sinceMean' <= Len(u) /\ Len(u) <= MeanSamples
            BY <2>4, <3>1, <3>2
        <3> QED
            BY <1>1, <1>2, <2>1, <2>3, <3>6, <3>7, <3>8
    <2>8. CASE k + 1 # MeanSamples
        <3>1. sinceMean' = k + 1 /\ UNCHANGED <<mean, changed>>
            BY <2>1, <2>4, <2>5, <2>8
        <3>2. k + 1 <= Len(u) /\ Len(u) <= MeanSamples /\ k + 1 \in 0..(MeanSamples - 1)
            BY <2>3, <2>4, <2>8
        <3>3. ~changed' => \A j \in 1..Len(u) : j > Len(u) - (k + 1) => u[j] = selectedImu'
            BY <1>1, <2>2, <2>6, <3>1
        <3>4. mean'.by = {} \/ mean'.mixed \/ \E o \in Unit : mean'.by = {o}
            BY <3>1
        <3> QED
            BY <1>1, <1>2, <2>1, <2>3, <3>1, <3>2, <3>3, <3>4
    <2> QED
        BY <2>7, <2>8
<1> QED
    BY <1>3, <1>4

LEMMA MeanStep == MeanInv /\ [CarrierNext]_carrierVars => MeanInv'
<1> SUFFICES ASSUME MeanInv, [CarrierNext]_carrierVars
             PROVE  MeanInv'
    OBVIOUS
<1> USE DEF MeanInv
<1>1. ASSUME NEW i \in Unit, ImuReading(i)
      PROVE  MeanInv'
    BY <1>1, QueueTypes DEF ImuReading, selVars
<1>2. CASE SefUpdate
    <2>1. /\ toSef' \in Seq(Unit) /\ UNCHANGED <<toCan, window, sinceMean, mean>>
        BY <1>2, QueueTypes DEF SefUpdate, canVars
    <2>2. \/ UNCHANGED <<selectedImu, estimate, changed>>
          \/ /\ estimate' = TRUE /\ selectedImu' \in Unit
             /\ changed' = (changed \/ selectedImu' # selectedImu)
        BY <1>2 DEF SefUpdate, SefPublish, SefChoice
    <2>3. CASE UNCHANGED <<selectedImu, estimate, changed>>
        BY <2>1, <2>3
    <2>4. CASE /\ estimate' = TRUE /\ selectedImu' \in Unit
               /\ changed' = (changed \/ selectedImu' # selectedImu)
        <3>1. ~changed' => ~changed /\ selectedImu' = selectedImu
            BY <2>4
        <3> QED
            BY <2>1, <2>4, <3>1
    <2> QED
        BY <2>2, <2>3, <2>4
<1>3. CASE CanImu
    BY <1>3, CanImuStep
<1>4. CASE CanPressure \/ BusTakes
    BY <1>4 DEF CanPressure, BusTakes, sefVars, selVars
<1>5. ASSUME NEW i \in Unit, BaroReading(i)
      PROVE  MeanInv'
    BY <1>5 DEF BaroReading, sefVars, canVars
<1>6. CASE Tick
    BY <1>6 DEF Tick, canVars
<1>7. ASSUME NEW s \in Sensor, Toggle(s)
      PROVE  MeanInv'
    BY <1>7 DEF Toggle, sefVars, canVars, selVars
<1>8. CASE UNCHANGED carrierVars
    BY <1>8 DEF carrierVars, sefVars, canVars, selVars
<1> QED
    BY <1>1, <1>2, <1>3, <1>4, <1>5, <1>6, <1>7, <1>8 DEF CarrierNext, CarrierTasks, Readings

\* A mean that goes to the bus is of the samples of one IMU, unless the estimator's choice changed
\* since the mean before it (tx::imu, filters.rs, state_estimation), for any window and however the
\* two IMUs come and go.
THEOREM MeansAreOfOne == CarrierSpec => []MeanOfOneImu
<1>1. MeanInv => MeanOfOneImu
    <2> SUFFICES ASSUME MeanInv, ~mean.mixed
                 PROVE  ~(Cardinality(mean.by) > 1)
        BY DEF MeanOfOneImu
    <2>1. CASE mean.by = {}
        BY <2>1, FS_EmptySet
    <2>2. CASE \E i \in Unit : mean.by = {i}
        BY <2>2, FS_Singleton
    <2> QED
        BY <2>1, <2>2 DEF MeanInv
<1> QED
    BY <1>1, InitMean, MeanStep, PTL DEF CarrierSpec

-----------------------------------------------------------------------------
(* The calibrations.  The newest record of a key decides, so that a record *)
(* may be moved, killed or erased when it is not the newest, or when what  *)
(* comes to light behind it is promised too.  The chip still does that     *)
(* when the command it was part of is long cut short: what it is busy with *)
(* is in the invariant apart from where the command stands.                *)

\* What a boot makes of a value, and where a command goes on.
Applied(v) == IF v = Invalid THEN Default ELSE v
Stage == IF pc = "wait" THEN then ELSE pc
Stages == {"place", "program", "erase", "kill", "erase all", "answer"}

Written == [key : Keys, val : Values, state : {"whole", "torn", "dead"}]
Logs == [Sector -> Seq(Written)]

StoreType ==
  /\ data \in Logs /\ open \in Sector /\ rest \in Nat
  /\ pc \in {"boot", "idle", "wait"} \cup (Stages \ {"answer"})
  /\ pc = "wait" => then \in Stages \ {"erase"}
  /\ promised \in [Keys -> SUBSET (Values \cup {Default})]

\* At every moment a boot that can read applies what is promised.
Safe == \A k \in Keys : Stored(k) \in promised[k]

\* Any record of the key may come to light, and none.
AnyMayShow(k) ==
  /\ Default \in promised[k]
  /\ \A p \in WholeOf(k) : Applied(At(p).val) \in promised[k]

\* The open sector ends with the first part of this record.
TornIs(k, v) ==
  /\ LastTorn(open) /\ Len(data[open]) <= SectorLen
  /\ data[open][Len(data[open])].key = k /\ data[open][Len(data[open])].val = v

\* What the chip is busy with, for whichever command it was.
Programs ==
  /\ chip.op = "program"
  /\ chip.key \in Keys /\ chip.val \in Values /\ Applied(chip.val) \in promised[chip.key]
  /\ chip.first \in BOOLEAN /\ chip.last \in BOOLEAN
  /\ IF chip.first THEN Len(data[open]) < SectorLen ELSE TornIs(chip.key, chip.val)
Erases ==
  /\ chip.op = "erase" /\ chip.sector \in Sector
  /\ \A k \in Keys : AnyMayShow(k) \/ \A p \in Newest(k) : p[1] # chip.sector
Kills ==
  /\ chip.op = "kill"
  /\ \E k \in Keys : chip.at \in Oldest(k) /\ Default \in promised[k]
ChipOk == Busy => Programs \/ Erases \/ Kills

\* Where a command stands.
ItemInv ==
  /\ item.key \in Keys /\ item.val \in Values /\ item.state \in {"whole", "new"}
  /\ Applied(item.val) \in promised[item.key]
  /\ item.state = "new" => item.key = cmd.key /\ item.val = cmd.val
  /\ rest \in 1..ItemLen
  /\ IF rest = ItemLen THEN pc = "program" /\ Len(data[open]) < SectorLen
     ELSE IF Busy
     THEN chip.op = "program" /\ ~chip.last /\ chip.key = item.key /\ chip.val = item.val
     ELSE TornIs(item.key, item.val)

SetInv ==
  /\ cmd.op = "set"
  /\ cmd.key \in Keys /\ cmd.val \in Values \ {Invalid} /\ cmd.val \in promised[cmd.key]
  /\ Stage = "program" => ItemInv
  /\ Stage = "erase" => pc = "erase" /\ Live(After(open)) = {}
  /\ Stage = "answer" =>
       IF Busy THEN chip.op = "program" /\ chip.last /\ chip.key = cmd.key /\ chip.val = cmd.val
       ELSE \E p \in Newest(cmd.key) : At(p).val = cmd.val

ClearInv ==
  /\ cmd.op = "clear" /\ cmd.key \in Keys /\ cmd.val = Default /\ Default \in promised[cmd.key]
  /\ Stage = "answer" =>
       IF Busy THEN chip.op = "kill" /\ WholeOf(cmd.key) \subseteq {chip.at} ELSE WholeOf(cmd.key) = {}

EraseInv ==
  /\ cmd.op = "erase" /\ rest \in 0..Sectors /\ \A k \in Keys : AnyMayShow(k)
  /\ Busy => chip.op = "erase"
  /\ \A s \in Sector : s < rest => data[s] = <<>> \/ (Busy /\ chip.sector = s)
  /\ IF Stage = "answer" THEN rest = Sectors ELSE rest < Sectors

CommandInv ==
  /\ pc \in Stages => ~Busy
  /\ Stage \in {"place", "program", "erase"} => SetInv
  /\ Stage = "kill" => ClearInv
  /\ Stage = "erase all" => EraseInv
  /\ Stage = "answer" => SetInv \/ ClearInv \/ EraseInv

BootInv ==
  /\ pc = "boot" => atBoot = promised
  /\ pc # "boot" /\ ~blind => \A k \in Keys : applied[k] \in atBoot[k]

Sound == StoreType /\ Safe /\ ChipOk /\ CommandInv /\ BootInv
StoreInv == ~misread => Sound

-----------------------------------------------------------------------------
(* The newest record of a key.                                             *)

\* How old a sector is.
LEMMA Ages ==
  ASSUME NEW s \in Sector, open \in Sector
  PROVE  /\ Age(s) = IF s <= open THEN open - s ELSE open + Sectors - s
         /\ Age(s) \in Sector
<1>1. Sectors \in Nat /\ Sectors > 1 /\ s \in Nat /\ open \in Nat /\ s < Sectors /\ open < Sectors
  BY StoreAssumption DEF Sector
<1>2. open + Sectors - s \in 0..(2 * Sectors - 1)
  BY <1>1
<1>3. Age(s) = IF open + Sectors - s < Sectors THEN open + Sectors - s
               ELSE open + Sectors - s - Sectors
  BY <1>1, <1>2, WrapsOnce DEF Age
<1> QED
  BY <1>1, <1>3 DEF Sector

LEMMA NextSector ==
  open \in Sector =>
    After(open) \in Sector /\ After(open) = IF open + 1 = Sectors THEN 0 ELSE open + 1
<1> SUFFICES ASSUME open \in Sector
             PROVE  After(open) \in Sector /\ After(open) = IF open + 1 = Sectors THEN 0 ELSE open + 1
  OBVIOUS
<1>1. Sectors \in Nat /\ Sectors > 1 /\ open \in Nat /\ open < Sectors
  BY StoreAssumption DEF Sector
<1>2. open + 1 \in 0..(2 * Sectors - 1)
  BY <1>1
<1>3. After(open) = IF open + 1 < Sectors THEN open + 1 ELSE open + 1 - Sectors
  BY <1>1, <1>2, WrapsOnce DEF After
<1> QED
  BY <1>1, <1>3 DEF Sector

\* Of two records one is the newer.
LEMMA OneIsNewer ==
  ASSUME NEW p \in Slot, NEW q \in Slot, open \in Sector
  PROVE  /\ ~(Newer(p, q) /\ Newer(q, p))
         /\ p # q => Newer(p, q) \/ Newer(q, p)
<1>1. p[1] \in Sector /\ q[1] \in Sector /\ p[2] \in Nat /\ q[2] \in Nat
  BY StoreAssumption DEF Slot
<1>2. Age(p[1]) \in Nat /\ Age(q[1]) \in Nat
  BY <1>1, Ages DEF Sector
<1>3. Age(p[1]) = Age(q[1]) => p[1] = q[1]
  <2>1. Sectors \in Nat /\ p[1] \in Nat /\ q[1] \in Nat /\ open \in Nat
        /\ p[1] < Sectors /\ q[1] < Sectors /\ open < Sectors
    BY <1>1, StoreAssumption DEF Sector
  <2>2. Age(p[1]) = IF p[1] <= open THEN open - p[1] ELSE open + Sectors - p[1]
    BY <1>1, Ages
  <2>3. Age(q[1]) = IF q[1] <= open THEN open - q[1] ELSE open + Sectors - q[1]
    BY <1>1, Ages
  <2> QED
    BY <2>1, <2>2, <2>3
<1>4. p # q /\ p[1] = q[1] => p[2] # q[2]
  BY DEF Slot
<1> QED
  BY <1>1, <1>2, <1>3, <1>4 DEF Newer

LEMMA WholeSlots == \A k \in Keys : WholeOf(k) \subseteq Slot
BY DEF WholeOf

\* One record of a key is newer than the others, and its value is what is stored.
LEMMA NewestIs ==
  ASSUME NEW k \in Keys, NEW q \in WholeOf(k), open \in Sector,
         \A p \in WholeOf(k) \ {q} : Newer(q, p)
  PROVE  Newest(k) = {q} /\ Stored(k) = Applied(At(q).val)
<1>1. \A p \in WholeOf(k) \ {q} : ~Newer(p, q)
  BY WholeSlots, OneIsNewer
<1>2. Newest(k) = {q}
  BY <1>1 DEF Newest
<1>3. Fetch(k) = {At(q).val}
  BY <1>2 DEF Fetch
<1> QED
  BY <1>2, <1>3 DEF Stored, Applied

LEMMA NoneStored ==
  ASSUME NEW k \in Keys, WholeOf(k) = {}
  PROVE  Newest(k) = {} /\ Stored(k) = Default
BY DEF Stored, Fetch, Newest

LEMMA SomeNewest ==
  ASSUME NEW k \in Keys, WholeOf(k) # {}, open \in Sector
  PROVE  \E q \in WholeOf(k) : \A p \in WholeOf(k) \ {q} : Newer(q, p)
<1> DEFINE W == WholeOf(k)
           T == {Age(p[1]) : p \in W}
<1>1. \A p \in W : p \in Slot /\ p[1] \in Sector /\ p[2] \in 1..SectorLen /\ Age(p[1]) \in Nat
  <2>1. \A p \in W : p \in Slot /\ p[1] \in Sector /\ p[2] \in 1..SectorLen
    BY WholeSlots DEF Slot
  <2> QED
    BY <2>1, Ages DEF Sector
<1>2. T \subseteq Nat /\ T # {}
  BY <1>1
<1>3. PICK a \in T : \A b \in T : a <= b
  <2> HIDE DEF T
  <2> QED
    BY <1>2, LeastNat
<1> DEFINE U == {SectorLen - p[2] : p \in {r \in W : Age(r[1]) = a}}
<1>4. SectorLen \in Nat
  BY StoreAssumption
<1>5. U \subseteq Nat /\ U # {}
  <2>1. \A p \in W : SectorLen - p[2] \in Nat
    BY <1>1, <1>4
  <2>2. \E p \in W : Age(p[1]) = a
    OBVIOUS
  <2> QED
    BY <2>1, <2>2
<1>6. PICK b \in U : \A c \in U : b <= c
  <2> HIDE DEF U
  <2> QED
    BY <1>5, LeastNat
<1>7. PICK q \in W : Age(q[1]) = a /\ SectorLen - q[2] = b
  BY <1>6
<1>8. ASSUME NEW p \in W, p # q
      PROVE  Newer(q, p)
  <2>1. a <= Age(p[1])
    BY <1>3
  <2>2. ~Newer(p, q)
    <3>1. CASE Age(p[1]) = a
      <4>1. b <= SectorLen - p[2]
        BY <1>6, <3>1
      <4>2. ~(p[2] > q[2])
        BY <1>1, <1>4, <1>7, <4>1
      <4> QED
        BY <1>1, <1>7, <3>1, <4>2 DEF Newer
    <3>2. CASE Age(p[1]) # a
      <4>1. p[1] # q[1]
        BY <1>7, <3>2
      <4>2. ~(Age(p[1]) < Age(q[1]))
        BY <1>1, <1>7, <2>1
      <4> QED
        BY <4>1, <4>2 DEF Newer
    <3> QED
      BY <3>1, <3>2
  <2> QED
    BY <1>1, <1>8, <2>2, OneIsNewer
<1> QED
  BY <1>7, <1>8

\* These, as one fact to be had of the next state too.
MapFact ==
  open \in Sector =>
    \A k \in Keys :
      /\ WholeOf(k) = {} => Newest(k) = {} /\ Stored(k) = Default
      /\ WholeOf(k) # {} => \E q \in Slot : q \in WholeOf(k) /\ Newest(k) = {q}
      /\ \A q \in Slot : Newest(k) = {q} =>
           q \in WholeOf(k) /\ Stored(k) = Applied(At(q).val) /\ \A p \in WholeOf(k) \ {q} : Newer(q, p)
      /\ \A q \in Slot : q \in WholeOf(k) /\ (\A p \in WholeOf(k) \ {q} : Newer(q, p)) =>
           Newest(k) = {q} /\ Stored(k) = Applied(At(q).val)

LEMMA MapHolds == MapFact
<1> SUFFICES ASSUME open \in Sector, NEW k \in Keys
             PROVE  /\ WholeOf(k) = {} => Newest(k) = {} /\ Stored(k) = Default
                    /\ WholeOf(k) # {} => \E q \in Slot : q \in WholeOf(k) /\ Newest(k) = {q}
                    /\ \A q \in Slot : Newest(k) = {q} =>
                         /\ q \in WholeOf(k) /\ Stored(k) = Applied(At(q).val)
                         /\ \A p \in WholeOf(k) \ {q} : Newer(q, p)
                    /\ \A q \in Slot : q \in WholeOf(k) /\ (\A p \in WholeOf(k) \ {q} : Newer(q, p)) =>
                         Newest(k) = {q} /\ Stored(k) = Applied(At(q).val)
  BY DEF MapFact
<1>1. ASSUME NEW q \in Slot, q \in WholeOf(k), \A p \in WholeOf(k) \ {q} : Newer(q, p)
      PROVE  Newest(k) = {q} /\ Stored(k) = Applied(At(q).val)
  BY <1>1, NewestIs
<1>2. ASSUME WholeOf(k) = {}
      PROVE  Newest(k) = {} /\ Stored(k) = Default
  BY <1>2, NoneStored
<1>3. ASSUME WholeOf(k) # {}
      PROVE  \E q \in Slot : q \in WholeOf(k) /\ Newest(k) = {q}
  BY <1>1, <1>3, SomeNewest, WholeSlots
<1>4. ASSUME NEW q \in Slot, Newest(k) = {q}
      PROVE  q \in WholeOf(k) /\ Stored(k) = Applied(At(q).val) /\ \A p \in WholeOf(k) \ {q} : Newer(q, p)
  <2>1. q \in WholeOf(k) /\ \A p \in WholeOf(k) \ {q} : Newer(q, p)
    BY <1>4 DEF Newest
  <2> QED
    BY <1>1, <2>1
<1> QED
  BY <1>1, <1>2, <1>3, <1>4

LEMMA MapHoldsNext == MapFact'
BY MapHolds, PTL

\* The same records, none or some of the others.
LEMMA Shrunk ==
  ASSUME open \in Sector, open' = open, NEW k \in Keys, WholeOf(k)' \subseteq WholeOf(k),
         NEW q \in Slot, Newest(k) = {q}, q \in WholeOf(k)', At(q)'.val = At(q).val
  PROVE  Newest(k)' = {q} /\ Stored(k)' = Stored(k)
<1>1. q \in WholeOf(k) /\ Stored(k) = Applied(At(q).val) /\ \A p \in WholeOf(k) \ {q} : Newer(q, p)
  BY MapHolds DEF MapFact
<1>2. \A p \in Slot : Newer(q, p)' <=> Newer(q, p)
  BY DEF Newer, Age
<1>3. \A p \in WholeOf(k)' \ {q} : Newer(q, p)'
  BY <1>1, <1>2, WholeSlots
<1>4. open' \in Sector
  OBVIOUS
<1>5. Newest(k)' = {q} /\ Stored(k)' = Applied(At(q)'.val)
  BY <1>3, <1>4, MapHoldsNext DEF MapFact, Applied
<1> QED
  BY <1>1, <1>5

LEMMA Same ==
  ASSUME open \in Sector, open' = open, NEW k \in Keys, WholeOf(k)' = WholeOf(k),
         \A p \in WholeOf(k) : At(p)'.val = At(p).val
  PROVE  Newest(k)' = Newest(k) /\ Stored(k)' = Stored(k)
<1>1. CASE WholeOf(k) = {}
  BY <1>1, MapHolds, MapHoldsNext DEF MapFact
<1>2. CASE WholeOf(k) # {}
  <2>1. PICK q \in Slot : q \in WholeOf(k) /\ Newest(k) = {q}
    BY <1>2, MapHolds DEF MapFact
  <2> QED
    BY <2>1, Shrunk
<1> QED
  BY <1>1, <1>2

\* One more, after the others.
LEMMA Grown ==
  ASSUME open \in Sector, open' = open, NEW k \in Keys, NEW q \in Slot, q[1] = open,
         WholeOf(k)' = WholeOf(k) \cup {q}, \A p \in WholeOf(k) : p[1] = open => p[2] < q[2]
  PROVE  Newest(k)' = {q} /\ Stored(k)' = Applied(At(q)'.val)
<1>1. ASSUME NEW p \in WholeOf(k)
      PROVE  Newer(q, p)'
  <2>1. p \in Slot /\ p[1] \in Sector /\ p[2] \in Nat /\ q[2] \in Nat
    BY WholeSlots, StoreAssumption DEF Slot
  <2>2. CASE p[1] = open
    BY <2>1, <2>2 DEF Newer
  <2>3. CASE p[1] # open
    <3>1. Age(open) = 0 /\ Age(p[1]) > 0
      <4>1. Sectors \in Nat /\ Sectors > 1 /\ p[1] \in Nat /\ open \in Nat /\ p[1] < Sectors /\ open < Sectors
        BY <2>1, StoreAssumption DEF Sector
      <4>2. Age(open) = IF open <= open THEN open - open ELSE open + Sectors - open
        BY Ages
      <4>3. Age(p[1]) = IF p[1] <= open THEN open - p[1] ELSE open + Sectors - p[1]
        BY <2>1, Ages
      <4> QED
        BY <2>3, <4>1, <4>2, <4>3
    <3> QED
      BY <2>1, <3>1 DEF Newer, Age
  <2> QED
    BY <2>2, <2>3
<1>2. \A p \in WholeOf(k)' \ {q} : Newer(q, p)'
  BY <1>1
<1> QED
  BY <1>2, MapHoldsNext DEF MapFact, Applied

\* The open sector is another, and was empty.
LEMMA Turned ==
  ASSUME open \in Sector, data' = data, open' = After(open), Len(data[After(open)]) = 0, NEW k \in Keys
  PROVE  WholeOf(k)' = WholeOf(k) /\ Newest(k)' = Newest(k) /\ Stored(k)' = Stored(k)
<1>1. WholeOf(k)' = WholeOf(k)
  BY DEF WholeOf, At
<1>2. \A p \in WholeOf(k) : p \in Slot /\ p[1] \in Sector /\ p[2] \in Nat /\ p[2] > 0 /\ p[1] # After(open)
  BY StoreAssumption DEF WholeOf, Slot
<1>3. ASSUME NEW p \in WholeOf(k), NEW q \in WholeOf(k)
      PROVE  Newer(q, p)' <=> Newer(q, p)
  <2>1. ASSUME NEW r \in WholeOf(k)
        PROVE  Age(r[1])' = Age(r[1]) + 1 /\ Age(r[1]) \in Nat
    <3>1. r[1] \in Sector /\ r[1] # open' /\ open' \in Sector
      BY <1>2, NextSector
    <3>2. Age(r[1]) = (IF r[1] <= open THEN open - r[1] ELSE open + Sectors - r[1])
      BY <3>1, Ages
    <3>3. Age(r[1])' = (IF r[1] <= open' THEN open' - r[1] ELSE open' + Sectors - r[1])
      <4>1. PICK o \in Sector : o = open'
        BY <3>1
      <4>2. (o + Sectors - r[1]) % Sectors = IF r[1] <= o THEN o - r[1] ELSE o + Sectors - r[1]
        <5>1. Sectors \in Nat /\ Sectors > 1 /\ r[1] \in Nat /\ o \in Nat /\ r[1] < Sectors /\ o < Sectors
          BY <3>1, StoreAssumption DEF Sector
        <5>2. o + Sectors - r[1] \in 0..(2 * Sectors - 1)
          BY <5>1
        <5> DEFINE x == o + Sectors - r[1]
        <5>3. x \in 0..(2 * Sectors - 1) /\ Sectors > 0
          BY <5>1, <5>2
        <5> HIDE DEF x
        <5>4. x % Sectors = IF x < Sectors THEN x ELSE x - Sectors
          BY <5>1, <5>3, WrapsOnce
        <5> QED
          BY <5>1, <5>4 DEF x
      <4> QED
        BY <4>1, <4>2 DEF Age
    <3>4. open' = IF open + 1 = Sectors THEN 0 ELSE open + 1
      BY NextSector
    <3>5. Sectors \in Nat /\ Sectors > 1 /\ r[1] \in Nat /\ open \in Nat /\ r[1] < Sectors /\ open < Sectors
      BY <3>1, StoreAssumption DEF Sector
    <3> QED
      BY <3>1, <3>2, <3>3, <3>4, <3>5
  <2> QED
    BY <2>1 DEF Newer
<1>4. Newest(k)' = Newest(k)
  BY <1>1, <1>3 DEF Newest
<1>5. Stored(k)' = Stored(k)
  BY <1>4 DEF Stored, Fetch, At
<1> QED
  BY <1>1, <1>4, <1>5

\* The flash is as it was.
LEMMA Untouched ==
  ASSUME data' = data, open' = open
  PROVE  /\ \A k \in Keys : WholeOf(k)' = WholeOf(k) /\ Newest(k)' = Newest(k) /\ Oldest(k)' = Oldest(k)
                            /\ Stored(k)' = Stored(k)
         /\ \A p \in Slot : At(p)' = At(p)
         /\ \A s \in Sector : Live(s)' = Live(s)
         /\ After(open)' = After(open)
<1>1. \A k \in Keys : WholeOf(k)' = WholeOf(k)
  BY DEF WholeOf, At
<1>2. \A p, q \in Slot : Newer(p, q)' <=> Newer(p, q)
  BY DEF Newer, Age
<1>3. \A k \in Keys : Newest(k)' = Newest(k)
  BY <1>1, <1>2, WholeSlots DEF Newest
<1>4. \A k \in Keys : Oldest(k)' = Oldest(k)
  BY <1>1, <1>2, WholeSlots DEF Oldest
<1>5. \A k \in Keys : Stored(k)' = Stored(k)
  BY <1>3 DEF Stored, Fetch, At
<1>6. \A s \in Sector : Live(s)' = Live(s)
  BY <1>3 DEF Live
<1> QED
  BY <1>1, <1>3, <1>4, <1>5, <1>6 DEF At, After

-----------------------------------------------------------------------------
(* What the chip does to the records.                                      *)

\* A record more in a sector.
LEMMA Appended ==
  ASSUME data \in Logs, open \in Sector, NEW r \in Written,
         data' = Append1(open, r)
  PROVE  /\ data' \in Logs
         /\ data'[open] # <<>> /\ Len(data'[open]) = Len(data[open]) + 1
         /\ data'[open][Len(data[open]) + 1] = r
         /\ \A p \in Slot : p[2] <= Len(data[p[1]]) => At(p)' = At(p)
         /\ \A p \in Slot : p[2] <= Len(data'[p[1]]) =>
              p[2] <= Len(data[p[1]]) \/ p = <<open, Len(data[open]) + 1>>
         /\ \A p \in Slot : p[2] <= Len(data[p[1]]) => p[2] <= Len(data'[p[1]])
<1> DEFINE e == data[open]
           f == Append(e, r)
<1>1. e \in Seq(Written)
  BY DEF Logs
<1>2. data' = [data EXCEPT ![open] = f]
  BY DEF Append1
<1> HIDE DEF e
<1>3. f \in Seq(Written) /\ f # <<>> /\ Len(f) = Len(e) + 1 /\ f[Len(e) + 1] = r
      /\ Len(e) \in Nat /\ \A i \in 1..Len(e) : f[i] = e[i]
  BY <1>1, AppendProperties, LenProperties
<1> HIDE DEF f
<1>4. data'[open] = f /\ \A s \in Sector : s # open => data'[s] = data[s]
  BY <1>2 DEF Logs
<1>5. data' \in Logs
  BY <1>2, <1>3 DEF Logs
<1>6. ASSUME NEW p \in Slot
      PROVE  /\ p[2] <= Len(data[p[1]]) => p[2] <= Len(data'[p[1]]) /\ data'[p[1]][p[2]] = data[p[1]][p[2]]
             /\ p[2] <= Len(data'[p[1]]) => p[2] <= Len(data[p[1]]) \/ p = <<open, Len(data[open]) + 1>>
  <2>1. p[1] \in Sector /\ p[2] \in 1..SectorLen /\ p = <<p[1], p[2]>> /\ p[2] \in Nat /\ p[2] > 0
    BY StoreAssumption DEF Slot
  <2>2. CASE p[1] = open
    BY <1>3, <1>4, <2>1, <2>2 DEF e
  <2>3. CASE p[1] # open
    BY <1>4, <2>1, <2>3
  <2> QED
    BY <2>2, <2>3
<1>7. data'[open] # <<>> /\ Len(data'[open]) = Len(data[open]) + 1 /\ data'[open][Len(data[open]) + 1] = r
  BY <1>3, <1>4 DEF e
<1> QED
  BY <1>5, <1>6, <1>7 DEF At

LEMMA AppendedTorn ==
  ASSUME data \in Logs, open \in Sector, NEW r \in Written, r.state = "torn",
         data' = Append1(open, r), NEW k \in Keys
  PROVE  WholeOf(k)' = WholeOf(k) /\ \A p \in WholeOf(k) : At(p)' = At(p)
<1>1. \A p \in Slot : p[2] <= Len(data[p[1]]) => At(p)' = At(p) /\ p[2] <= Len(data'[p[1]])
  BY Appended
<1>2. ASSUME NEW p \in Slot, p \in WholeOf(k)'
      PROVE  p \in WholeOf(k)
  <2>1. p[2] <= Len(data'[p[1]]) /\ At(p)'.key = k /\ At(p)'.state = "whole"
    BY <1>2 DEF WholeOf
  <2>2. p # <<open, Len(data[open]) + 1>>
    <3>1. data'[open][Len(data[open]) + 1] = r
      BY Appended
    <3> QED
      BY <2>1, <3>1 DEF At
  <2>3. p[2] <= Len(data[p[1]])
    BY <2>1, <2>2, Appended
  <2> QED
    BY <1>1, <2>1, <2>3 DEF WholeOf
<1>3. ASSUME NEW p \in WholeOf(k)
      PROVE  p \in WholeOf(k)' /\ At(p)' = At(p)
  BY <1>1 DEF WholeOf
<1>4. WholeOf(k)' \subseteq Slot
  BY DEF WholeOf
<1> QED
  BY <1>2, <1>3, <1>4

LEMMA AppendedWhole ==
  ASSUME data \in Logs, open \in Sector, NEW r \in Written, r.state = "whole",
         Len(data[open]) < SectorLen, data' = Append1(open, r), NEW k \in Keys,
         NEW q, q = <<open, Len(data[open]) + 1>>
  PROVE  /\ q \in Slot /\ At(q)' = r
         /\ WholeOf(k)' = IF r.key = k THEN WholeOf(k) \cup {q} ELSE WholeOf(k)
         /\ \A p \in WholeOf(k) : At(p)' = At(p) /\ (p[1] = open => p[2] < q[2])
<1>1. \A p \in Slot : p[2] <= Len(data[p[1]]) => At(p)' = At(p) /\ p[2] <= Len(data'[p[1]])
  BY Appended
<1>2. Len(data[open]) \in Nat
  <2>1. data[open] \in Seq(Written)
    BY DEF Logs
  <2> QED
    BY <2>1, LenProperties
<1>3. q \in Slot /\ At(q)' = r /\ q[2] <= Len(data'[q[1]])
  <2>1. q \in Slot
    BY <1>2, StoreAssumption DEF Slot
  <2>2. data'[open][Len(data[open]) + 1] = r /\ Len(data'[open]) = Len(data[open]) + 1
    BY Appended
  <2> QED
    BY <1>2, <2>1, <2>2 DEF At
<1>4. ASSUME NEW p \in Slot, p \in WholeOf(k)', p # q
      PROVE  p \in WholeOf(k)
  <2>1. p[2] <= Len(data'[p[1]]) /\ At(p)'.key = k /\ At(p)'.state = "whole"
    BY <1>4 DEF WholeOf
  <2>2. p[2] <= Len(data[p[1]])
    BY <1>4, <2>1, Appended
  <2> QED
    BY <1>1, <2>1, <2>2 DEF WholeOf
<1>5. ASSUME NEW p \in WholeOf(k)
      PROVE  p \in WholeOf(k)' /\ At(p)' = At(p) /\ (p[1] = open => p[2] < q[2])
  <2>1. p \in Slot /\ p[2] <= Len(data[p[1]])
    BY DEF WholeOf
  <2>2. p[2] \in Nat
    BY <2>1, StoreAssumption DEF Slot
  <2> QED
    BY <1>1, <1>2, <2>1, <2>2 DEF WholeOf
<1>6. q \in WholeOf(k)' <=> r.key = k
  BY <1>3 DEF WholeOf
<1>7. WholeOf(k)' \subseteq Slot
  BY DEF WholeOf
<1>8. WholeOf(k)' \subseteq WholeOf(k) \cup {q} /\ WholeOf(k) \subseteq WholeOf(k)'
  BY <1>4, <1>5, <1>7
<1>9. ASSUME r.key = k
      PROVE  WholeOf(k)' = WholeOf(k) \cup {q}
  BY <1>6, <1>8, <1>9
<1>10. ASSUME r.key # k
       PROVE  WholeOf(k)' = WholeOf(k)
  BY <1>6, <1>8, <1>10
<1>11. WholeOf(k)' = IF r.key = k THEN WholeOf(k) \cup {q} ELSE WholeOf(k)
  BY <1>9, <1>10
<1> QED
  BY <1>3, <1>5, <1>11

\* A record in another state.
LEMMA Became ==
  ASSUME data \in Logs, NEW s \in Sector, NEW i \in 1..Len(data[s]),
         NEW st \in {"whole", "torn", "dead"}, data' = Become(<<s, i>>, st)
  PROVE  /\ data' \in Logs
         /\ \A t \in Sector : Len(data'[t]) = Len(data[t])
         /\ \A p \in Slot : p[2] <= Len(data[p[1]]) =>
              /\ At(p)'.key = At(p).key /\ At(p)'.val = At(p).val
              /\ p # <<s, i>> => At(p)'.state = At(p).state
              /\ p = <<s, i>> => At(p)'.state = st
<1> DEFINE e == data[s]
           r == [e[i] EXCEPT !.state = st]
           f == [e EXCEPT ![i] = r]
<1>1. e \in Seq(Written) /\ i \in 1..Len(e)
  BY DEF Logs
<1>2. data' = [data EXCEPT ![s] = f]
  BY DEF Become
<1> HIDE DEF e
<1>3. e[i] \in Written
  BY <1>1, ElementOfSeq
<1>4. r \in Written /\ r.key = e[i].key /\ r.val = e[i].val /\ r.state = st
  BY <1>3 DEF Written
<1> HIDE DEF r
<1>5. f \in Seq(Written) /\ Len(f) = Len(e) /\ \A j \in 1..Len(e) : f[j] = IF j = i THEN r ELSE e[j]
  BY <1>1, <1>4, ExceptSeq
<1> HIDE DEF f
<1>6. data'[s] = f /\ \A t \in Sector : t # s => data'[t] = data[t]
  BY <1>2 DEF Logs
<1>7. data' \in Logs
  BY <1>2, <1>5 DEF Logs
<1>8. \A t \in Sector : Len(data'[t]) = Len(data[t])
  BY <1>5, <1>6 DEF e
<1>9. Len(e) \in Nat
  BY <1>1, LenProperties
<1>10. ASSUME NEW p \in Slot, p[2] <= Len(data[p[1]])
       PROVE  /\ data'[p[1]][p[2]].key = data[p[1]][p[2]].key /\ data'[p[1]][p[2]].val = data[p[1]][p[2]].val
              /\ p # <<s, i>> => data'[p[1]][p[2]].state = data[p[1]][p[2]].state
              /\ p = <<s, i>> => data'[p[1]][p[2]].state = st
  <2>1. p[1] \in Sector /\ p[2] \in Nat /\ p[2] > 0 /\ p = <<p[1], p[2]>>
    BY StoreAssumption DEF Slot
  <2>2. CASE p[1] # s
    <3>1. data'[p[1]] = data[p[1]]
      BY <1>6, <2>1, <2>2
    <3>2. p # <<s, i>>
      BY <2>2
    <3> QED
      BY <3>1, <3>2
  <2>3. CASE p[1] = s /\ p[2] # i
    <3>1. p[2] \in 1..Len(e)
      BY <1>9, <1>10, <2>1, <2>3 DEF e
    <3>2. f[p[2]] = e[p[2]]
      BY <1>5, <2>3, <3>1
    <3>3. data'[p[1]][p[2]] = data[p[1]][p[2]] /\ p # <<s, i>>
      BY <1>6, <2>1, <2>3, <3>2 DEF e
    <3> QED
      BY <3>3
  <2>4. CASE p[1] = s /\ p[2] = i
    <3>1. f[i] = r
      BY <1>1, <1>5
    <3>2. p = <<s, i>>
      BY <2>1, <2>4
    <3> QED
      BY <1>4, <1>6, <2>4, <3>1, <3>2 DEF e
  <2> QED
    BY <2>2, <2>3, <2>4
<1> QED
  BY <1>7, <1>8, <1>10 DEF At

\* A sector without records.
LEMMA Erased ==
  ASSUME data \in Logs, NEW s \in Sector, data' = [data EXCEPT ![s] = <<>>]
  PROVE  /\ data' \in Logs
         /\ data'[s] = <<>> /\ \A t \in Sector : t # s => data'[t] = data[t]
         /\ \A k \in Keys : WholeOf(k)' = {p \in WholeOf(k) : p[1] # s} /\ \A p \in WholeOf(k)' : At(p)' = At(p)
<1>1. data'[s] = <<>> /\ \A t \in Sector : t # s => data'[t] = data[t]
  BY DEF Logs
<1>2. data' \in Logs
  <2>1. <<>> \in Seq(Written)
    BY EmptySeq
  <2> QED
    BY <2>1 DEF Logs
<1>3. ASSUME NEW p \in Slot, p[1] # s
      PROVE  At(p)' = At(p) /\ Len(data'[p[1]]) = Len(data[p[1]])
  BY <1>1, <1>3 DEF Slot, At
<1>4. ASSUME NEW p \in Slot, p[1] = s
      PROVE  ~(p[2] <= Len(data'[p[1]]))
  <2>1. p[2] \in Nat /\ p[2] > 0
    BY StoreAssumption DEF Slot
  <2>2. Len(data'[p[1]]) = 0
    BY <1>1, <1>4
  <2> QED
    BY <2>1, <2>2
<1>5. ASSUME NEW k \in Keys
      PROVE  WholeOf(k)' = {p \in WholeOf(k) : p[1] # s} /\ \A p \in WholeOf(k)' : At(p)' = At(p)
  <2>1. \A p \in WholeOf(k)' : p \in Slot /\ p[1] # s
    BY <1>4 DEF WholeOf
  <2>2. \A p \in WholeOf(k)' : p \in WholeOf(k) /\ At(p)' = At(p)
    BY <1>3, <2>1 DEF WholeOf
  <2>3. \A p \in WholeOf(k) : p[1] # s => p \in WholeOf(k)'
    BY <1>3 DEF WholeOf
  <2> QED
    BY <2>1, <2>2, <2>3
<1> QED
  BY <1>1, <1>2, <1>5

\* What the chip makes of a program command.
LEMMA ProgramEffect ==
  ASSUME data \in Logs, open \in Sector, open' = open, promised' = promised, Safe, Programs,
         data' = Effect(chip), NEW key, key = chip.key, NEW v, v = chip.val
  PROVE  /\ data' \in Logs /\ Safe'
         /\ chip.last => \E p \in Slot : Newest(key)' = {p} /\ At(p)'.val = v
         /\ ~chip.last => TornIs(key, v)'
<1>1. /\ key \in Keys /\ v \in Values /\ Applied(v) \in promised[key]
      /\ chip.first \in BOOLEAN /\ chip.last \in BOOLEAN
  BY DEF Programs
<1>2. data[open] \in Seq(Written) /\ Len(data[open]) \in Nat
  <2>1. data[open] \in Seq(Written)
    BY DEF Logs
  <2> QED
    BY <2>1, LenProperties
<1>3. \A k \in Keys : Stored(k) \in promised[k]
  BY DEF Safe
<1>4. ASSUME \A k \in Keys : Stored(k)' \in promised[k]
      PROVE  Safe'
  BY <1>4 DEF Safe
<1>5. CASE chip.first
  <2>1. Len(data[open]) < SectorLen
    BY <1>5 DEF Programs
  <2>2. CASE chip.last
    <3> DEFINE r == Record(key, v, "whole")
               q == <<open, Len(data[open]) + 1>>
    <3>1. data' = Append1(open, r)
      BY <1>5, <2>2 DEF Effect, Programs
    <3>2. r \in Written /\ r.state = "whole" /\ r.key = key /\ r.val = v
      BY <1>1 DEF Written, Record
    <3> HIDE DEF r
    <3>3. PICK p : p = q
      OBVIOUS
    <3>4. data' \in Logs
      BY <3>1, <3>2, Appended
    <3>5. ASSUME NEW k \in Keys
          PROVE  /\ p \in Slot /\ At(p)' = r
                 /\ WholeOf(k)' = IF key = k THEN WholeOf(k) \cup {p} ELSE WholeOf(k)
                 /\ \A x \in WholeOf(k) : At(x)' = At(x) /\ (x[1] = open => x[2] < p[2])
      BY <2>1, <3>1, <3>2, <3>3, AppendedWhole
    <3>6. p[1] = open
      BY <3>3
    <3>7. Newest(key)' = {p} /\ Stored(key)' = Applied(v)
      <4>1. Stored(key)' = Applied(At(p)'.val) /\ Newest(key)' = {p}
        BY <1>1, <3>5, <3>6, Grown
      <4> QED
        BY <1>1, <3>2, <3>5, <4>1
    <3>8. \A k \in Keys : k # key => Stored(k)' = Stored(k)
      BY <3>5, Same
    <3>9. Safe'
      BY <1>1, <1>3, <1>4, <3>7, <3>8
    <3>10. p \in Slot /\ At(p)'.val = v
      BY <1>1, <3>2, <3>5
    <3> QED
      BY <2>2, <3>4, <3>7, <3>9, <3>10
  <2>3. CASE ~chip.last
    <3> DEFINE r == Record(key, v, "torn")
    <3>1. data' = Append1(open, r)
      BY <1>5, <2>3 DEF Effect, Programs
    <3>2. r \in Written /\ r.state = "torn" /\ r.key = key /\ r.val = v
      BY <1>1 DEF Written, Record
    <3> HIDE DEF r
    <3>3. data' \in Logs /\ data'[open] # <<>> /\ Len(data'[open]) = Len(data[open]) + 1
          /\ data'[open][Len(data[open]) + 1] = r
      BY <3>1, <3>2, Appended
    <3>4. \A k \in Keys : Stored(k)' = Stored(k)
      BY <3>1, <3>2, AppendedTorn, Same
    <3>5. TornIs(key, v)'
      BY <1>2, <2>1, <3>2, <3>3, StoreAssumption DEF TornIs, LastTorn
    <3> QED
      BY <1>3, <1>4, <2>3, <3>3, <3>4, <3>5
  <2> QED
    BY <1>1, <2>2, <2>3
<1>6. CASE ~chip.first
  <2>1. TornIs(key, v)
    BY <1>6 DEF Programs
  <2>2. CASE chip.last
    <3> DEFINE i == Len(data[open])
    <3>1. data' = Become(<<open, i>>, "whole")
      BY <1>6, <2>1, <2>2 DEF Effect, Programs, TornIs
    <3>2. i \in 1..Len(data[open]) /\ i <= SectorLen
      <4>1. data[open] # <<>>
        BY <2>1 DEF TornIs, LastTorn
      <4>2. Len(data[open]) \in Nat \ {0}
        BY <1>2, <4>1, EmptySeq
      <4> QED
        BY <2>1, <4>2 DEF TornIs
    <3>3. PICK n \in 1..Len(data[open]) : n = i
      BY <3>2
    <3>4. PICK s \in Sector : s = open
      OBVIOUS
    <3>5. PICK p \in Slot : p = <<s, n>>
      <4>1. n \in 1..SectorLen
        BY <1>2, <3>2, <3>3, StoreAssumption
      <4>2. <<s, n>> \in Slot
        BY <4>1 DEF Slot
      <4> QED
        BY <4>2
    <3> HIDE DEF i
    <3>6. data' = Become(<<s, n>>, "whole") /\ n \in 1..Len(data[s])
      BY <3>1, <3>3, <3>4
    <3>7. /\ data' \in Logs
          /\ \A t \in Sector : Len(data'[t]) = Len(data[t])
          /\ \A x \in Slot : x[2] <= Len(data[x[1]]) =>
               /\ At(x)'.key = At(x).key /\ At(x)'.val = At(x).val
               /\ x # p => At(x)'.state = At(x).state
               /\ x = p => At(x)'.state = "whole"
      BY <3>5, <3>6, Became
    <3>8. p[1] = open /\ p[2] = Len(data[open]) /\ At(p).key = key /\ At(p).val = v /\ At(p).state = "torn"
      BY <2>1, <3>3, <3>4, <3>5 DEF i, TornIs, LastTorn, At
    <3>9. p[2] <= Len(data[p[1]])
      BY <1>2, <3>8
    <3>10. \A x \in Slot : x[1] \in Sector
      BY DEF Slot
    <3>11. ASSUME NEW k \in Keys
           PROVE  /\ WholeOf(k)' = IF key = k THEN WholeOf(k) \cup {p} ELSE WholeOf(k)
                  /\ \A x \in WholeOf(k) : At(x)'.val = At(x).val /\ (x[1] = open => x[2] < p[2])
      <4>1. \A x \in WholeOf(k) : x \in Slot /\ x[2] <= Len(data[x[1]]) /\ x # p /\ x \in WholeOf(k)'
                                  /\ At(x)'.val = At(x).val
        BY <3>7, <3>8, <3>10 DEF WholeOf
      <4>2. \A x \in WholeOf(k)' : x \in Slot /\ (x \in WholeOf(k) \/ x = p)
        BY <3>7, <3>10 DEF WholeOf
      <4>3. p \in WholeOf(k)' <=> key = k
        BY <3>7, <3>8, <3>9, <3>10 DEF WholeOf
      <4>4. ASSUME NEW x \in WholeOf(k), x[1] = open
            PROVE  x[2] < p[2]
        <5>1. x[2] \in Nat /\ x = <<x[1], x[2]>> /\ p = <<p[1], p[2]>> /\ p[2] \in Nat
          BY <4>1, StoreAssumption DEF Slot
        <5>2. x[2] # p[2]
          BY <3>8, <4>1, <4>4, <5>1
        <5> QED
          BY <1>2, <3>8, <4>1, <4>4, <5>1, <5>2
      <4>5. WholeOf(k)' \subseteq WholeOf(k) \cup {p} /\ WholeOf(k) \subseteq WholeOf(k)'
        BY <4>1, <4>2
      <4>6. ASSUME key = k
            PROVE  WholeOf(k)' = WholeOf(k) \cup {p}
        BY <4>3, <4>5, <4>6
      <4>7. ASSUME key # k
            PROVE  WholeOf(k)' = WholeOf(k)
        BY <4>3, <4>5, <4>7
      <4>8. WholeOf(k)' = IF key = k THEN WholeOf(k) \cup {p} ELSE WholeOf(k)
        BY <4>6, <4>7
      <4> QED
        BY <4>1, <4>4, <4>8
    <3>12. Newest(key)' = {p} /\ Stored(key)' = Applied(v)
      <4>1. Newest(key)' = {p} /\ Stored(key)' = Applied(At(p)'.val)
        BY <1>1, <3>8, <3>11, Grown
      <4> QED
        BY <3>7, <3>8, <3>9, <4>1
    <3>13. \A k \in Keys : k # key => Stored(k)' = Stored(k)
      BY <3>11, Same
    <3>14. Safe'
      BY <1>1, <1>3, <1>4, <3>12, <3>13
    <3>15. At(p)'.val = v
      BY <3>7, <3>8, <3>9
    <3> QED
      BY <2>2, <3>7, <3>12, <3>14, <3>15
  <2>3. CASE ~chip.last
    <3>1. data' = data
      BY <1>6, <2>3 DEF Effect, Programs
    <3>2. \A k \in Keys : Stored(k)' = Stored(k)
      BY <3>1, Untouched
    <3>3. TornIs(key, v)'
      BY <2>1, <3>1 DEF TornIs, LastTorn
    <3> QED
      BY <1>3, <1>4, <2>3, <3>1, <3>2, <3>3
  <2> QED
    BY <1>1, <2>2, <2>3
<1> QED
  BY <1>1, <1>5, <1>6

\* A key of which any record may come to light is safe.
LEMMA AnyIsSafe ==
  ASSUME open' \in Sector, NEW k \in Keys, AnyMayShow(k)'
  PROVE  Stored(k)' \in promised'[k]
<1>1. CASE WholeOf(k)' = {}
  <2>1. Stored(k)' = Default
    BY <1>1, MapHoldsNext DEF MapFact
  <2> QED
    BY <2>1 DEF AnyMayShow
<1>2. CASE WholeOf(k)' # {}
  <2>1. PICK q \in Slot : q \in WholeOf(k)' /\ Newest(k)' = {q}
    BY <1>2, MapHoldsNext DEF MapFact
  <2>2. Stored(k)' = Applied(At(q)'.val)
    BY <2>1, MapHoldsNext DEF MapFact, Applied
  <2>3. Applied(At(q)'.val) \in promised'[k]
    BY <2>1 DEF AnyMayShow, Applied
  <2> QED
    BY <2>2, <2>3
<1> QED
  BY <1>1, <1>2

LEMMA EraseEffect ==
  ASSUME data \in Logs, open \in Sector, open' = open, promised' = promised, Safe, Erases,
         data' = Effect(chip), NEW s, s = chip.sector
  PROVE  /\ data' \in Logs /\ Safe'
         /\ data'[s] = <<>> /\ \A t \in Sector : t # s => data'[t] = data[t]
         /\ \A k \in Keys : AnyMayShow(k) => AnyMayShow(k)'
<1>1. s \in Sector /\ data' = [data EXCEPT ![s] = <<>>]
  BY DEF Erases, Effect
<1>2. data' \in Logs /\ data'[s] = <<>> /\ \A t \in Sector : t # s => data'[t] = data[t]
  BY <1>1, Erased
<1>3. ASSUME NEW k \in Keys
      PROVE  WholeOf(k)' = {p \in WholeOf(k) : p[1] # s} /\ \A p \in WholeOf(k)' : At(p)' = At(p)
  BY <1>1, Erased
<1>4. ASSUME NEW k \in Keys, AnyMayShow(k)
      PROVE  AnyMayShow(k)'
  <2>1. \A p \in WholeOf(k)' : p \in WholeOf(k) /\ At(p)' = At(p)
    BY <1>3
  <2>2. \A p \in WholeOf(k)' : Applied(At(p)'.val) \in promised[k]
    BY <1>4, <2>1 DEF AnyMayShow
  <2> QED
    BY <1>4, <2>2 DEF AnyMayShow, Applied
<1>5. ASSUME NEW k \in Keys
      PROVE  Stored(k)' \in promised[k]
  <2>1. CASE AnyMayShow(k)
    BY <1>4, <2>1, AnyIsSafe
  <2>2. CASE ~AnyMayShow(k)
    <3>1. \A p \in Newest(k) : p[1] # s
      BY <2>2 DEF Erases
    <3>2. Stored(k) \in promised[k]
      BY DEF Safe
    <3>3. CASE WholeOf(k) = {}
      <4>1. WholeOf(k)' = {}
        BY <1>3, <3>3
      <4> QED
        BY <3>2, <3>3, <4>1, MapHolds, MapHoldsNext DEF MapFact
    <3>4. CASE WholeOf(k) # {}
      <4>1. PICK q \in Slot : q \in WholeOf(k) /\ Newest(k) = {q}
        BY <3>4, MapHolds DEF MapFact
      <4>2. q \in WholeOf(k)' /\ At(q)' = At(q) /\ WholeOf(k)' \subseteq WholeOf(k)
        BY <1>3, <3>1, <4>1
      <4>3. Stored(k)' = Stored(k)
        BY <4>1, <4>2, Shrunk
      <4> QED
        BY <3>2, <4>3
    <3> QED
      BY <3>3, <3>4
  <2> QED
    BY <2>1, <2>2
<1>6. Safe'
  BY <1>5 DEF Safe
<1> QED
  BY <1>2, <1>4, <1>6

LEMMA KillEffect ==
  ASSUME data \in Logs, open \in Sector, open' = open, promised' = promised, Safe, Kills,
         data' = Effect(chip), NEW p, p = chip.at
  PROVE  /\ data' \in Logs /\ Safe'
         /\ \A k \in Keys : WholeOf(k)' \subseteq WholeOf(k) \ {p}
<1>1. PICK key \in Keys : p \in Oldest(key) /\ Default \in promised[key]
  BY DEF Kills
<1>2. p \in WholeOf(key) /\ \A q \in WholeOf(key) \ {p} : Newer(q, p)
  BY <1>1 DEF Oldest
<1>3. p \in Slot /\ p[2] <= Len(data[p[1]]) /\ At(p).key = key /\ At(p).state = "whole"
  BY <1>2 DEF WholeOf
<1>4. p[1] \in Sector /\ p[2] \in 1..Len(data[p[1]]) /\ p = <<p[1], p[2]>>
  <2>1. p[1] \in Sector /\ p[2] \in Nat /\ p[2] > 0 /\ p = <<p[1], p[2]>>
    BY <1>3, StoreAssumption DEF Slot
  <2>2. data[p[1]] \in Seq(Written)
    BY <2>1 DEF Logs
  <2>3. Len(data[p[1]]) \in Nat
    BY <2>2, LenProperties
  <2> QED
    BY <1>3, <2>1, <2>3
<1>5. data' = Become(<<p[1], p[2]>>, "dead")
  BY <1>4 DEF Kills, Effect
<1>6. /\ data' \in Logs
      /\ \A t \in Sector : Len(data'[t]) = Len(data[t])
      /\ \A x \in Slot : x[2] <= Len(data[x[1]]) =>
           /\ At(x)'.key = At(x).key /\ At(x)'.val = At(x).val
           /\ x # p => At(x)'.state = At(x).state
           /\ x = p => At(x)'.state = "dead"
  BY <1>4, <1>5, Became
<1>7. \A x \in Slot : x[1] \in Sector
  BY DEF Slot
<1>8. ASSUME NEW k \in Keys
      PROVE  /\ WholeOf(k)' \subseteq WholeOf(k) \ {p}
             /\ \A x \in WholeOf(k) : x # p => x \in WholeOf(k)'
             /\ \A x \in WholeOf(k) : At(x)'.val = At(x).val
  BY <1>6, <1>7 DEF WholeOf
<1>9. ASSUME NEW k \in Keys
      PROVE  Stored(k)' \in promised[k]
  <2>1. Stored(k) \in promised[k]
    BY DEF Safe
  <2>2. CASE k # key
    <3>1. p \notin WholeOf(k)
      BY <1>3, <2>2 DEF WholeOf
    <3>2. WholeOf(k)' = WholeOf(k)
      BY <1>8, <3>1
    <3> QED
      BY <1>8, <2>1, <3>2, Same
  <2>3. CASE k = key /\ WholeOf(k) = {p}
    <3>1. WholeOf(k)' = {}
      BY <1>8, <2>3
    <3>2. Stored(k)' = Default
      BY <3>1, MapHoldsNext DEF MapFact
    <3> QED
      BY <1>1, <2>3, <3>2
  <2>4. CASE k = key /\ WholeOf(k) # {p}
    <3>1. PICK q \in Slot : q \in WholeOf(k) /\ Newest(k) = {q}
      BY <1>2, <2>4, MapHolds DEF MapFact
    <3>2. \A x \in WholeOf(k) \ {q} : Newer(q, x)
      BY <3>1, MapHolds DEF MapFact
    <3>3. q # p
      <4>1. PICK x \in WholeOf(k) : x # p
        BY <1>2, <2>4
      <4>2. Newer(x, p) /\ x \in Slot
        BY <1>2, <2>4, <4>1, WholeSlots
      <4> QED
        BY <1>3, <3>2, <4>1, <4>2, OneIsNewer
    <3>4. q \in WholeOf(k)' /\ WholeOf(k)' \subseteq WholeOf(k) /\ At(q)'.val = At(q).val
      BY <1>8, <3>1, <3>3
    <3>5. Stored(k)' = Stored(k)
      BY <3>1, <3>4, Shrunk
    <3> QED
      BY <2>1, <3>5
  <2> QED
    BY <2>2, <2>3, <2>4
<1>10. Safe'
  BY <1>9 DEF Safe
<1> QED
  BY <1>6, <1>8, <1>10

\* Whatever the chip completes, what is stored stays safe.
LEMMA EffectIsSafe ==
  ASSUME data \in Logs, open \in Sector, open' = open, promised' = promised, Safe, Busy, ChipOk,
         data' = Effect(chip)
  PROVE  data' \in Logs /\ Safe'
<1>1. CASE Programs
  <2>1. PICK key, v : key = chip.key /\ v = chip.val
    OBVIOUS
  <2> QED
    BY <1>1, <2>1, ProgramEffect
<1>2. CASE Erases
  <2>1. PICK s : s = chip.sector
    OBVIOUS
  <2> QED
    BY <1>2, <2>1, EraseEffect
<1>3. CASE Kills
  <2>1. PICK p : p = chip.at
    OBVIOUS
  <2> QED
    BY <1>3, <2>1, KillEffect
<1> QED
  BY <1>1, <1>2, <1>3 DEF ChipOk

-----------------------------------------------------------------------------
(* The steps.                                                              *)

\* The chip completes what it does.
LEMMA ChipDoneStep == Sound /\ ChipDone => Sound'
<1> SUFFICES ASSUME Sound, ChipDone
             PROVE  Sound'
  OBVIOUS
<1>1. /\ Busy /\ data' = Effect(chip) /\ chip' = Idle /\ open' = open /\ promised' = promised
      /\ pc' = pc /\ then' = then /\ cmd' = cmd /\ item' = item /\ rest' = rest
      /\ applied' = applied /\ atBoot' = atBoot /\ blind' = blind
  BY DEF ChipDone, console, boot
<1>2. StoreType /\ Safe /\ ChipOk /\ CommandInv /\ BootInv /\ data \in Logs /\ open \in Sector
  BY DEF Sound, StoreType
<1>3. data' \in Logs /\ Safe'
  BY <1>1, <1>2, EffectIsSafe
<1>4. StoreType'
  BY <1>1, <1>2, <1>3 DEF StoreType
<1>5. ~Busy' /\ ChipOk'
  BY <1>1 DEF ChipOk, Busy
<1>6. BootInv'
  BY <1>1, <1>2 DEF BootInv
<1>7. Stage' = Stage
  BY <1>1 DEF Stage
<1>8. pc \notin Stages
  BY <1>1, <1>2 DEF CommandInv
<1>9. Stage \in Stages => pc = "wait" /\ Stage # "erase"
  BY <1>2, <1>8 DEF Stage, Stages, StoreType
<1>10. chip.op = "program" => Programs
  BY <1>1, <1>2 DEF ChipOk, Erases, Kills
<1>11. chip.op = "erase" => Erases
  BY <1>1, <1>2 DEF ChipOk, Programs, Kills
<1>12. chip.op = "kill" => Kills
  BY <1>1, <1>2 DEF ChipOk, Erases, Programs
<1>13. ASSUME SetInv, Stage \in Stages
       PROVE  SetInv'
  <2>1. /\ cmd.op = "set" /\ cmd.key \in Keys /\ cmd.val \in Values \ {Invalid}
        /\ cmd.val \in promised[cmd.key]
    BY <1>13 DEF SetInv
  <2>2. ASSUME Stage = "program"
        PROVE  ItemInv'
    <3>1. /\ item.key \in Keys /\ item.val \in Values /\ item.state \in {"whole", "new"}
          /\ Applied(item.val) \in promised[item.key]
          /\ item.state = "new" => item.key = cmd.key /\ item.val = cmd.val
          /\ rest \in 1..ItemLen
      BY <1>13, <2>2 DEF SetInv, ItemInv
    <3>2. rest # ItemLen /\ chip.op = "program" /\ ~chip.last /\ chip.key = item.key /\ chip.val = item.val
      BY <1>1, <1>9, <1>13, <2>2 DEF SetInv, ItemInv
    <3>3. PICK key, v : key = item.key /\ v = item.val
      OBVIOUS
    <3>4. TornIs(key, v)'
      BY <1>1, <1>2, <1>10, <3>2, <3>3, ProgramEffect
    <3>5. TornIs(item.key, item.val)'
      BY <1>1, <3>3, <3>4 DEF TornIs
    <3> QED
      BY <1>1, <1>5, <3>1, <3>2, <3>5 DEF ItemInv, Applied
  <2>3. ASSUME Stage = "answer"
        PROVE  \E p \in Newest(cmd.key)' : At(p)'.val = cmd.val
    <3>1. chip.op = "program" /\ chip.last /\ chip.key = cmd.key /\ chip.val = cmd.val
      BY <1>1, <1>13, <2>3 DEF SetInv
    <3>2. PICK key, v : key = cmd.key /\ v = cmd.val
      OBVIOUS
    <3>3. \E p \in Slot : Newest(key)' = {p} /\ At(p)'.val = v
      BY <1>1, <1>2, <1>10, <3>1, <3>2, ProgramEffect
    <3>4. Newest(cmd.key)' = Newest(key)'
      BY <1>1, <3>2
    <3> QED
      BY <3>2, <3>3, <3>4
  <2> QED
    BY <1>1, <1>5, <1>7, <1>9, <1>13, <2>1, <2>2, <2>3 DEF SetInv
<1>14. ASSUME ClearInv, Stage = "answer"
       PROVE  ClearInv'
  <2>1. chip.op = "kill" /\ cmd.key \in Keys /\ WholeOf(cmd.key) \subseteq {chip.at}
    BY <1>1, <1>14 DEF ClearInv
  <2>2. PICK p, key : p = chip.at /\ key = cmd.key /\ key \in Keys
    BY <2>1
  <2>3. WholeOf(key)' \subseteq WholeOf(key) \ {p}
    BY <1>1, <1>2, <1>12, <2>1, <2>2, KillEffect
  <2>4. WholeOf(key)' = {} /\ cmd'.key = key
    BY <1>1, <2>1, <2>2, <2>3
  <2>5. WholeOf(cmd.key)' = {}
    BY <2>4
  <2> QED
    BY <1>1, <1>5, <1>14, <2>5 DEF ClearInv
<1>15. ClearInv /\ Stage = "kill" => ClearInv'
  BY <1>1, <1>7 DEF ClearInv
<1>16. ASSUME EraseInv
       PROVE  EraseInv'
  <2>1. chip.op = "erase" /\ cmd.op = "erase" /\ rest \in 0..Sectors /\ \A k \in Keys : AnyMayShow(k)
    BY <1>1, <1>16 DEF EraseInv
  <2>2. PICK s : s = chip.sector
    OBVIOUS
  <2>3. /\ data'[s] = <<>> /\ \A t \in Sector : t # s => data'[t] = data[t]
        /\ \A k \in Keys : AnyMayShow(k) => AnyMayShow(k)'
    BY <1>1, <1>2, <1>11, <2>1, <2>2, EraseEffect
  <2>4. \A t \in Sector : t < rest => data'[t] = <<>>
    BY <1>16, <2>2, <2>3 DEF EraseInv
  <2> QED
    BY <1>1, <1>5, <1>7, <1>16, <2>1, <2>3, <2>4 DEF EraseInv
<1>17. CommandInv'
  <2>1. Stage \in {"place", "program", "erase"} => SetInv'
    BY <1>2, <1>13 DEF CommandInv, Stages
  <2>2. Stage = "kill" => ClearInv'
    BY <1>2, <1>15 DEF CommandInv
  <2>3. Stage = "erase all" => EraseInv'
    BY <1>2, <1>16 DEF CommandInv
  <2>4. Stage = "answer" => SetInv' \/ ClearInv' \/ EraseInv'
    BY <1>2, <1>13, <1>14, <1>16 DEF CommandInv, Stages
  <2> QED
    BY <1>5, <1>7, <2>1, <2>2, <2>3, <2>4 DEF CommandInv
<1> QED
  BY <1>3, <1>4, <1>5, <1>6, <1>17 DEF Sound

\* The map as it is, and nothing taken from what is promised.
LEMMA MoreIsSafe ==
  ASSUME Safe, data' = data, open' = open, \A k \in Keys : promised[k] \subseteq promised'[k]
  PROVE  Safe'
<1>1. \A k \in Keys : Stored(k)' = Stored(k)
  BY Untouched
<1> QED
  BY <1>1 DEF Safe

LEMMA WholeTyped ==
  ASSUME data \in Logs, NEW k \in Keys, NEW p \in WholeOf(k)
  PROVE  At(p) \in Written /\ At(p).key = k /\ At(p).val \in Values
<1>1. p \in Slot /\ p[2] <= Len(data[p[1]]) /\ At(p).key = k
  BY DEF WholeOf
<1>2. p[1] \in Sector /\ p[2] \in Nat /\ p[2] > 0
  BY <1>1, StoreAssumption DEF Slot
<1>3. data[p[1]] \in Seq(Written)
  BY <1>2 DEF Logs
<1>4. p[2] \in 1..Len(data[p[1]])
  BY <1>1, <1>2, <1>3, LenProperties
<1>5. At(p) \in Written
  BY <1>3, <1>4, ElementOfSeq DEF At
<1> QED
  BY <1>1, <1>5 DEF Written

\* The console takes a command.
LEMMA StartStep ==
  ASSUME Sound, NEW op, NEW v, NEW k, NEW stage \in {"place", "kill", "erase all"}, Start(op, k, v, stage)
  PROVE  /\ pc = "idle" /\ ~Busy /\ cmd' = Command(op, k, v) /\ pc' = stage /\ rest' = 0
         /\ data' = data /\ open' = open /\ chip' = chip /\ Stage' = stage
         /\ ~Busy' /\ ChipOk' /\ BootInv'
         /\ promised' \in [Keys -> SUBSET (Values \cup {Default})] => StoreType'
<1>1. /\ pc = "idle" /\ ~Busy /\ cmd' = Command(op, k, v) /\ pc' = stage /\ rest' = 0
      /\ data' = data /\ open' = open /\ chip' = chip /\ applied' = applied /\ atBoot' = atBoot
      /\ blind' = blind
  BY DEF Start, flash, boot
<1>2. Stage' = stage
  BY <1>1 DEF Stage
<1>3. ~Busy' /\ ChipOk'
  BY <1>1 DEF Busy, ChipOk
<1>4. BootInv'
  BY <1>1 DEF Sound, BootInv
<1>5. promised' \in [Keys -> SUBSET (Values \cup {Default})] => StoreType'
  BY <1>1 DEF Sound, StoreType, Stages
<1> QED
  BY <1>1, <1>2, <1>3, <1>4, <1>5

LEMMA CalSetStep == Sound /\ CalSet => Sound'
<1> SUFFICES ASSUME Sound, CalSet
             PROVE  Sound'
  OBVIOUS
<1>1. PICK k \in Keys, v \in Values : /\ v # Invalid /\ Start("set", k, v, "place")
                                      /\ promised' = [promised EXCEPT ![k] = @ \cup {v}]
  BY DEF CalSet, Parses
<1>2. /\ cmd' = Command("set", k, v) /\ pc' = "place" /\ data' = data /\ open' = open /\ Stage' = "place"
      /\ ~Busy' /\ ChipOk' /\ BootInv'
      /\ promised' \in [Keys -> SUBSET (Values \cup {Default})] => StoreType'
  BY <1>1, StartStep
<1>3. promised \in [Keys -> SUBSET (Values \cup {Default})] /\ Safe
  BY DEF Sound, StoreType
<1>4. /\ promised' \in [Keys -> SUBSET (Values \cup {Default})] /\ v \in promised'[k]
      /\ \A x \in Keys : promised[x] \subseteq promised'[x]
  BY <1>1, <1>3
<1>5. Safe'
  BY <1>2, <1>3, <1>4, MoreIsSafe
<1>6. SetInv'
  BY <1>1, <1>2, <1>4 DEF SetInv, Command
<1>7. CommandInv'
  BY <1>2, <1>6 DEF CommandInv
<1> QED
  BY <1>2, <1>4, <1>5, <1>7 DEF Sound

LEMMA FlashClearStep == Sound /\ FlashClear => Sound'
<1> SUFFICES ASSUME Sound, FlashClear
             PROVE  Sound'
  OBVIOUS
<1>1. PICK k \in Keys : /\ Start("clear", k, Default, "kill")
                        /\ promised' = [promised EXCEPT ![k] = @ \cup {Default}]
  BY DEF FlashClear
<1>2. /\ cmd' = Command("clear", k, Default) /\ pc' = "kill" /\ data' = data /\ open' = open /\ Stage' = "kill"
      /\ ~Busy' /\ ChipOk' /\ BootInv'
      /\ promised' \in [Keys -> SUBSET (Values \cup {Default})] => StoreType'
  BY <1>1, StartStep
<1>3. promised \in [Keys -> SUBSET (Values \cup {Default})] /\ Safe
  BY DEF Sound, StoreType
<1>4. /\ promised' \in [Keys -> SUBSET (Values \cup {Default})] /\ Default \in promised'[k]
      /\ \A x \in Keys : promised[x] \subseteq promised'[x]
  BY <1>1, <1>3
<1>5. Safe'
  BY <1>2, <1>3, <1>4, MoreIsSafe
<1>6. ClearInv'
  BY <1>1, <1>2, <1>4 DEF ClearInv, Command
<1>7. CommandInv'
  BY <1>2, <1>6 DEF CommandInv
<1> QED
  BY <1>2, <1>4, <1>5, <1>7 DEF Sound

LEMMA FlashEraseStep == Sound /\ FlashErase => Sound'
<1> SUFFICES ASSUME Sound, FlashErase
             PROVE  Sound'
  OBVIOUS
<1>1. /\ Start("erase", "none", Default, "erase all")
      /\ promised' = [k \in Keys |-> promised[k] \cup {Default}
                                       \cup ({At(p).val : p \in WholeOf(k)} \ {Invalid})]
  BY DEF FlashErase
<1>2. /\ cmd' = Command("erase", "none", Default) /\ pc' = "erase all" /\ data' = data /\ open' = open
      /\ Stage' = "erase all" /\ rest' = 0 /\ ~Busy' /\ ChipOk' /\ BootInv'
      /\ promised' \in [Keys -> SUBSET (Values \cup {Default})] => StoreType'
  BY <1>1, StartStep
<1>3. promised \in [Keys -> SUBSET (Values \cup {Default})] /\ Safe /\ data \in Logs
  BY DEF Sound, StoreType
<1>4. ASSUME NEW k \in Keys
      PROVE  /\ promised'[k] \subseteq Values \cup {Default} /\ promised[k] \subseteq promised'[k]
             /\ Default \in promised'[k]
             /\ \A p \in WholeOf(k) : Applied(At(p).val) \in promised'[k]
  <2> DEFINE V == {At(p).val : p \in WholeOf(k)}
  <2>1. /\ promised'[k] = promised[k] \cup {Default} \cup (V \ {Invalid})
        /\ promised[k] \subseteq Values \cup {Default}
    BY <1>1, <1>3
  <2>2. V \subseteq Values
    BY <1>3, WholeTyped
  <2>3. \A p \in WholeOf(k) : At(p).val \in V
    OBVIOUS
  <2> HIDE DEF V
  <2>4. /\ promised'[k] \subseteq Values \cup {Default} /\ promised[k] \subseteq promised'[k]
        /\ Default \in promised'[k]
    BY <2>1, <2>2
  <2>5. \A p \in WholeOf(k) : Applied(At(p).val) \in promised'[k]
    BY <2>1, <2>3 DEF Applied
  <2> QED
    BY <2>4, <2>5
<1>5. promised' \in [Keys -> SUBSET (Values \cup {Default})]
  BY <1>1, <1>4
<1>6. Safe'
  BY <1>2, <1>3, <1>4, MoreIsSafe
<1>7. \A k \in Keys : AnyMayShow(k)'
  <2>1. \A k \in Keys : WholeOf(k)' = WholeOf(k)
    BY <1>2, Untouched
  <2>2. \A p \in Slot : At(p)' = At(p)
    BY <1>2, Untouched
  <2> QED
    BY <1>4, <2>1, <2>2, WholeSlots DEF AnyMayShow, Applied
<1>8. EraseInv'
  <2>1. Stage' = "erase all" /\ rest' = 0 /\ cmd'.op = "erase"
    BY <1>2 DEF Command
  <2>2. Sectors \in Nat /\ Sectors > 0
    BY StoreAssumption
  <2>3. rest' = 0
    BY <2>1
  <2>4. rest' \in 0..Sectors /\ rest' < Sectors /\ \A s \in Sector : s < rest' => FALSE
    BY <2>2, <2>3 DEF Sector
  <2>5. ~Busy' /\ ~(Stage' = "answer")
    BY <1>2, <2>1
  <2> QED
    BY <1>7, <2>1, <2>4, <2>5, ZenonT(60) DEF EraseInv
<1>9. CommandInv'
  BY <1>2, <1>8 DEF CommandInv
<1> QED
  BY <1>2, <1>5, <1>6, <1>9 DEF Sound

\* store_item finds where the record goes.
LEMMA PlaceStep == Sound /\ Place => Sound'
<1> SUFFICES ASSUME Sound, Place
             PROVE  Sound'
  OBVIOUS
<1> DEFINE next == After(open)
<1>1. /\ pc = "place" /\ data' = data /\ chip' = chip /\ then' = then /\ cmd' = cmd /\ promised' = promised
      /\ applied' = applied /\ atBoot' = atBoot /\ blind' = blind
  BY DEF Place, boot
<1>2. StoreType /\ Safe /\ ChipOk /\ CommandInv /\ BootInv /\ data \in Logs /\ open \in Sector
  BY DEF Sound, StoreType
<1>3. Stage = "place" /\ ~Busy /\ SetInv
  BY <1>1, <1>2 DEF CommandInv, Stage, Stages
<1>4. ~Busy' /\ ChipOk'
  BY <1>1, <1>3 DEF Busy, ChipOk
<1>5. /\ cmd'.op = "set" /\ cmd'.key \in Keys /\ cmd'.val \in Values \ {Invalid}
      /\ cmd'.val \in promised'[cmd'.key]
  BY <1>1, <1>3 DEF SetInv
<1>6. ASSUME open' = open, rest' \in Nat, pc' \in {"program", "erase", "idle"},
             pc' \in {"program", "erase"} => SetInv'
      PROVE  Sound'
  <2>1. StoreType'
    BY <1>1, <1>2, <1>6 DEF StoreType, Stages
  <2>2. Safe'
    BY <1>1, <1>2, <1>6, MoreIsSafe
  <2>3. BootInv'
    BY <1>1, <1>2, <1>6 DEF BootInv
  <2>4. CommandInv'
    BY <1>4, <1>6 DEF CommandInv, Stage
  <2> QED
    BY <1>4, <2>1, <2>2, <2>3, <2>4 DEF Sound
<1>7. ASSUME NEW k \in Keys, NEW v \in Values, NEW st \in {"whole", "new"}, Len(data[open]) < SectorLen,
             pc' = "program", item' = Record(k, v, st), rest' = ItemLen, open' = open,
             Applied(v) \in promised[k], st = "new" => k = cmd.key /\ v = cmd.val
      PROVE  Sound'
  <2>1. Stage' = "program"
    BY <1>7 DEF Stage
  <2>2. ItemLen \in 1..ItemLen /\ ItemLen \in Nat
    BY StoreAssumption
  <2>3. ItemInv'
    BY <1>1, <1>7, <2>2 DEF ItemInv, Record, Applied
  <2>4. SetInv'
    BY <1>5, <2>1, <2>3 DEF SetInv
  <2> QED
    BY <1>6, <1>7, <2>2, <2>4
<1>8. CASE /\ Len(data[open]) < SectorLen /\ open' = open
           /\ \E p \in Live(next) : pc' = "program" /\ item' = At(p) /\ rest' = ItemLen
  <2>1. PICK p \in Live(next) : pc' = "program" /\ item' = At(p) /\ rest' = ItemLen
    BY <1>8
  <2>2. PICK k \in Keys : p \in Newest(k)
    BY DEF Live
  <2>3. p \in WholeOf(k)
    BY <2>2 DEF Newest
  <2>4. At(p) \in Written /\ At(p).key = k /\ At(p).val \in Values /\ At(p).state = "whole"
    BY <1>2, <2>3, WholeTyped DEF WholeOf
  <2>5. PICK v \in Values : v = At(p).val
    BY <2>4
  <2>6. At(p) = Record(k, v, "whole")
    BY <2>4, <2>5 DEF Written, Record
  <2>7. Applied(v) \in promised[k]
    <3>1. PICK q \in Slot : q \in WholeOf(k) /\ Newest(k) = {q}
      BY <1>2, <2>3, MapHolds DEF MapFact
    <3>2. Newest(k) = {p} /\ p \in Slot
      BY <2>2, <3>1
    <3>3. Stored(k) = Applied(v)
      BY <1>2, <2>5, <3>2, MapHolds DEF MapFact
    <3> QED
      BY <1>2, <3>3 DEF Safe
  <2> QED
    BY <1>7, <1>8, <2>1, <2>6, <2>7
<1>9. CASE Live(next) = {} /\ pc' = "erase" /\ open' = open /\ rest' = rest
  <2>1. Live(After(open))' = {}
    <3>1. PICK s \in Sector : s = After(open)
      BY <1>2, NextSector
    <3>2. Live(s)' = {} /\ After(open)' = s
      BY <1>1, <1>9, <3>1, Untouched
    <3> QED
      BY <3>2 DEF Live
  <2>2. Stage' = "erase"
    BY <1>9 DEF Stage
  <2>3. SetInv'
    BY <1>5, <1>9, <2>1, <2>2 DEF SetInv
  <2>4. rest' \in Nat
    BY <1>2, <1>9 DEF StoreType
  <2> QED
    BY <1>6, <1>9, <2>3, <2>4
<1>10. CASE /\ Len(data[open]) < SectorLen /\ open' = open
            /\ pc' = "program" /\ item' = Record(cmd.key, cmd.val, "new") /\ rest' = ItemLen
  <2>1. PICK k \in Keys, v \in Values : k = cmd.key /\ v = cmd.val /\ v # Invalid /\ v \in promised[k]
    BY <1>3 DEF SetInv
  <2>2. Applied(v) \in promised[k]
    BY <2>1 DEF Applied
  <2> QED
    BY <1>7, <1>10, <2>1, <2>2
<1>11. CASE data[next] = <<>> /\ open' = next /\ pc' = pc /\ rest' = rest
  <2>1. open' \in Sector
    BY <1>2, <1>11, NextSector
  <2>2. Len(data[After(open)]) = 0
    BY <1>11
  <2>3. \A k \in Keys : Stored(k)' = Stored(k)
    BY <1>1, <1>2, <1>11, <2>2, Turned
  <2>4. Safe'
    BY <1>1, <1>2, <2>3 DEF Safe
  <2>5. StoreType' /\ BootInv'
    BY <1>1, <1>2, <1>11, <2>1 DEF StoreType, BootInv
  <2>6. Stage' = "place"
    BY <1>1, <1>11 DEF Stage
  <2>7. SetInv'
    BY <1>5, <2>6 DEF SetInv
  <2>8. CommandInv'
    BY <1>4, <2>6, <2>7 DEF CommandInv
  <2> QED
    BY <1>4, <2>4, <2>5, <2>8 DEF Sound
<1>12. CASE pc' = "idle" /\ open' = open /\ rest' = rest
  BY <1>2, <1>6, <1>12 DEF StoreType
<1> QED
  BY <1>8, <1>9, <1>10, <1>11, <1>12 DEF Place

\* write sends a page.
LEMMA ProgramStep == Sound /\ Program => Sound'
<1> SUFFICES ASSUME Sound, Program
             PROVE  Sound'
  OBVIOUS
<1> DEFINE first == rest = ItemLen
           slot == IF first THEN Len(data[open]) ELSE Len(data[open]) - 1
           offset == (slot + 1) * ItemLen - rest
           left == PageSize - (offset % PageSize)
           n == IF left < rest THEN left ELSE rest
<1>1. /\ pc = "program" /\ data' = data /\ open' = open /\ cmd' = cmd /\ item' = item /\ promised' = promised
      /\ applied' = applied /\ atBoot' = atBoot /\ blind' = blind
      /\ Issue([op |-> "program", key |-> item.key, val |-> item.val, first |-> first, last |-> n = rest])
      /\ rest' = rest - n /\ pc' = "wait"
      /\ then' = IF n < rest THEN "program" ELSE IF item.state = "new" THEN "answer" ELSE "place"
  BY DEF Program, boot, Wait
<1>2. StoreType /\ Safe /\ ChipOk /\ CommandInv /\ BootInv /\ data \in Logs /\ open \in Sector
  BY DEF Sound, StoreType
<1>3. Stage = "program" /\ ~Busy /\ SetInv
  BY <1>1, <1>2 DEF CommandInv, Stage, Stages
<1>4. ItemInv
  BY <1>3 DEF SetInv
<1>5. /\ cmd'.op = "set" /\ cmd'.key \in Keys /\ cmd'.val \in Values \ {Invalid}
      /\ cmd'.val \in promised'[cmd'.key]
  BY <1>1, <1>3 DEF SetInv
<1>6. rest \in 1..ItemLen /\ ItemLen \in Nat /\ PageSize \in Nat /\ PageSize > 0
  BY <1>4, StoreAssumption DEF ItemInv
<1>7. n \in 1..rest
  <2>1. Len(data[open]) \in Nat
    <3>1. data[open] \in Seq(Written)
      BY <1>2 DEF Logs
    <3> QED
      BY <3>1, LenProperties
  <2>2. slot \in Int
    BY <2>1
  <2> HIDE DEF slot
  <2>3. (slot + 1) * ItemLen \in Int
    BY <1>6, <2>2
  <2>4. offset \in Int
    BY <1>6, <2>3
  <2> HIDE DEF offset
  <2>5. offset % PageSize \in 0..(PageSize - 1)
    BY <1>6, <2>4
  <2>6. left \in Int /\ left >= 1
    BY <1>6, <2>5
  <2> HIDE DEF left
  <2> QED
    BY <1>6, <2>6
<1> HIDE DEF n
<1>8. chip' = [op |-> "program", key |-> item.key, val |-> item.val, first |-> first, last |-> n = rest]
  BY <1>1, <1>3 DEF Issue
<1>9. /\ chip'.op = "program" /\ chip'.key = item.key /\ chip'.val = item.val
      /\ chip'.first \in BOOLEAN /\ chip'.last \in BOOLEAN
      /\ chip'.first <=> rest = ItemLen
      /\ chip'.last <=> n = rest
  BY <1>8
<1>10. Busy'
  BY <1>9 DEF Busy, Idle
<1>11. /\ item.key \in Keys /\ item.val \in Values /\ item.state \in {"whole", "new"}
       /\ Applied(item.val) \in promised[item.key]
       /\ item.state = "new" => item.key = cmd.key /\ item.val = cmd.val
       /\ IF rest = ItemLen THEN Len(data[open]) < SectorLen ELSE TornIs(item.key, item.val)
  BY <1>3, <1>4 DEF ItemInv
<1>12. ChipOk'
  <2>1. Applied(chip'.val) \in promised'[chip'.key] /\ chip'.key \in Keys /\ chip'.val \in Values
    BY <1>1, <1>9, <1>11
  <2>2. CASE rest = ItemLen
    <3>1. chip'.first /\ Len(data'[open']) < SectorLen
      BY <1>1, <1>9, <1>11, <2>2
    <3>2. Programs'
      BY <1>9, <2>1, <3>1 DEF Programs, Applied
    <3> QED
      BY <3>2 DEF ChipOk
  <2>3. CASE rest # ItemLen
    <3>1. ~chip'.first /\ TornIs(item.key, item.val)
      BY <1>9, <1>11, <2>3
    <3>2. TornIs(chip.key, chip.val)'
      BY <1>1, <1>9, <3>1 DEF TornIs, LastTorn
    <3>3. Programs'
      BY <1>9, <2>1, <3>1, <3>2 DEF Programs, Applied
    <3> QED
      BY <3>3 DEF ChipOk
  <2> QED
    BY <2>2, <2>3
<1>13. then' \in {"program", "answer", "place"} /\ Stage' = then'
  BY <1>1 DEF Stage
<1>14. StoreType'
  <2>1. rest' \in Nat
    BY <1>1, <1>6, <1>7
  <2> QED
    BY <1>1, <1>2, <1>13, <2>1 DEF StoreType, Stages
<1>15. Safe' /\ BootInv'
  <2>1. Safe'
    BY <1>1, <1>2, MoreIsSafe
  <2>2. BootInv'
    BY <1>1, <1>2 DEF BootInv
  <2> QED
    BY <2>1, <2>2
<1>16. ASSUME then' = "program"
       PROVE  ItemInv'
  <2>1. n < rest
    BY <1>1, <1>16
  <2>2. rest' \in 1..ItemLen /\ rest' # ItemLen /\ n # rest
    BY <1>1, <1>6, <1>7, <2>1
  <2> QED
    BY <1>1, <1>9, <1>10, <1>11, <2>2 DEF ItemInv, Applied
<1>17. ASSUME then' = "answer"
       PROVE  chip'.op = "program" /\ chip'.last /\ chip'.key = cmd'.key /\ chip'.val = cmd'.val
  <2>1. ~(n < rest) /\ item.state = "new"
    BY <1>1, <1>17
  <2>2. n = rest
    BY <1>6, <1>7, <2>1
  <2> QED
    BY <1>1, <1>9, <1>11, <2>1, <2>2
<1>18. SetInv'
  BY <1>5, <1>10, <1>13, <1>16, <1>17 DEF SetInv
<1>19. CommandInv'
  BY <1>1, <1>13, <1>18 DEF CommandInv, Stages
<1> QED
  BY <1>12, <1>14, <1>15, <1>19 DEF Sound

\* A command of the chip is sent, and the console waits.
LEMMA SentStep ==
  ASSUME Sound, pc \in Stages, data' = data, open' = open, cmd' = cmd, rest' \in Nat, promised' = promised,
         UNCHANGED boot, pc' = "wait", then' \in Stages \ {"erase"}, ChipOk', CommandInv'
  PROVE  Sound'
<1>1. StoreType' /\ BootInv'
  BY DEF Sound, StoreType, BootInv, boot, Stages
<1>2. Safe'
  BY MoreIsSafe DEF Sound
<1> QED
  BY <1>1, <1>2 DEF Sound

LEMMA EraseSectorStep == Sound /\ EraseSector => Sound'
<1> SUFFICES ASSUME Sound, EraseSector
             PROVE  Sound'
  OBVIOUS
<1>1. /\ pc = "erase" /\ data' = data /\ open' = open /\ cmd' = cmd /\ rest' = rest /\ promised' = promised
      /\ UNCHANGED boot /\ pc' = "wait" /\ then' = "place" /\ Issue([op |-> "erase", sector |-> After(open)])
  BY DEF EraseSector, Wait
<1>2. StoreType /\ CommandInv /\ data \in Logs /\ open \in Sector /\ rest \in Nat
  BY DEF Sound, StoreType
<1>3. Stage = "erase" /\ ~Busy /\ SetInv
  BY <1>1, <1>2 DEF CommandInv, Stage, Stages
<1>4. PICK s \in Sector : s = After(open)
  BY <1>2, NextSector
<1>5. chip' = [op |-> "erase", sector |-> s]
  BY <1>1, <1>3, <1>4 DEF Issue
<1>6. \A k \in Keys : \A p \in Newest(k) : p[1] # s
  BY <1>3, <1>4 DEF SetInv, Live
<1>7. ChipOk'
  <2>1. \A k \in Keys : Newest(k)' = Newest(k)
    BY <1>1, Untouched
  <2>2. Erases'
    BY <1>5, <1>6, <2>1 DEF Erases
  <2> QED
    BY <2>2 DEF ChipOk
<1>8. Stage' = "place"
  BY <1>1 DEF Stage
<1>9. SetInv'
  BY <1>1, <1>3, <1>8 DEF SetInv
<1>10. CommandInv'
  BY <1>1, <1>8, <1>9 DEF CommandInv, Stages
<1> QED
  BY <1>1, <1>2, <1>7, <1>10, SentStep DEF Stages

LEMMA EraseAllStep == Sound /\ EraseAll => Sound'
<1> SUFFICES ASSUME Sound, EraseAll
             PROVE  Sound'
  OBVIOUS
<1>1. /\ pc = "erase all" /\ data' = data /\ open' = open /\ cmd' = cmd /\ rest' = rest + 1
      /\ promised' = promised /\ UNCHANGED boot /\ pc' = "wait"
      /\ then' = IF rest + 1 < Sectors THEN "erase all" ELSE "answer"
      /\ Issue([op |-> "erase", sector |-> rest])
  BY DEF EraseAll, Wait
<1>2. StoreType /\ CommandInv /\ data \in Logs /\ open \in Sector /\ rest \in Nat
  BY DEF Sound, StoreType
<1>3. Stage = "erase all" /\ ~Busy /\ EraseInv
  BY <1>1, <1>2 DEF CommandInv, Stage, Stages
<1>4. rest < Sectors /\ Sectors \in Nat /\ rest \in Nat /\ rest \in Sector
  <2>1. rest < Sectors
    BY <1>3 DEF EraseInv
  <2>2. Sectors \in Nat
    BY StoreAssumption
  <2>3. rest \in Nat
    BY <1>2
  <2> QED
    BY <2>1, <2>2, <2>3 DEF Sector
<1>5. rest' = rest + 1 /\ rest' \in Nat
  <2>1. rest' = rest + 1
    BY <1>1
  <2> QED
    BY <1>4, <2>1
<1>6. chip' = [op |-> "erase", sector |-> rest]
  BY <1>1, <1>3 DEF Issue
<1>7. chip'.op = "erase" /\ chip'.sector = rest /\ Busy'
  BY <1>6 DEF Busy, Idle
<1>8. \A k \in Keys : AnyMayShow(k)'
  <2>1. \A k \in Keys : AnyMayShow(k)
    BY <1>3 DEF EraseInv
  <2>2. \A k \in Keys : WholeOf(k)' = WholeOf(k)
    BY <1>1, Untouched
  <2>3. \A p \in Slot : At(p)' = At(p)
    BY <1>1, Untouched
  <2> QED
    BY <1>1, <2>1, <2>2, <2>3, WholeSlots DEF AnyMayShow, Applied
<1>9. ChipOk'
  <2>1. Erases'
    BY <1>4, <1>7, <1>8 DEF Erases
  <2> QED
    BY <2>1 DEF ChipOk
<1>10. then' \in {"erase all", "answer"} /\ Stage' = then'
  BY <1>1 DEF Stage
<1>11. EraseInv'
  <2>1. rest' \in 0..Sectors
    BY <1>4, <1>5
  <2>2. IF then' = "answer" THEN rest' = Sectors ELSE rest' < Sectors
    <3>1. CASE rest + 1 < Sectors
      <4>1. then' = "erase all" /\ rest' < Sectors
        BY <1>1, <1>5, <3>1
      <4> QED
        BY <4>1
    <3>2. CASE ~(rest + 1 < Sectors)
      <4>1. then' = "answer"
        BY <1>1, <3>2
      <4>2. rest' = Sectors
        BY <1>4, <1>5, <3>2
      <4> QED
        BY <4>1, <4>2
    <3> QED
      BY <3>1, <3>2
  <2>3. ASSUME NEW s \in Sector, s < rest'
        PROVE  data'[s] = <<>> \/ chip'.sector = s
    <3>1. s < rest \/ s = rest
      BY <1>4, <1>5, <2>3 DEF Sector
    <3>2. s < rest => data[s] = <<>>
      BY <1>3 DEF EraseInv
    <3> QED
      BY <1>1, <1>7, <3>1, <3>2
  <2>4. cmd'.op = "erase"
    BY <1>1, <1>3 DEF EraseInv
  <2> QED
    BY <1>7, <1>8, <1>10, <2>1, <2>2, <2>3, <2>4 DEF EraseInv
<1>12. CommandInv'
  BY <1>1, <1>10, <1>11 DEF CommandInv, Stages
<1> QED
  BY <1>1, <1>9, <1>10, <1>12, <1>5, SentStep DEF Stages

LEMMA KillStep == Sound /\ Kill => Sound'
<1> SUFFICES ASSUME Sound, Kill
             PROVE  Sound'
  OBVIOUS
<1>1. /\ pc = "kill" /\ data' = data /\ open' = open /\ cmd' = cmd /\ rest' = rest /\ promised' = promised
      /\ UNCHANGED boot
  BY DEF Kill
<1>2. PICK p \in Oldest(cmd.key) : /\ Issue([op |-> "kill", at |-> p]) /\ pc' = "wait"
                                   /\ then' = IF WholeOf(cmd.key) = {p} THEN "answer" ELSE "kill"
  BY DEF Kill, Wait
<1>3. StoreType /\ CommandInv /\ data \in Logs /\ open \in Sector /\ rest \in Nat
  BY DEF Sound, StoreType
<1>4. Stage = "kill" /\ ~Busy /\ ClearInv
  BY <1>1, <1>3 DEF CommandInv, Stage, Stages
<1>5. PICK k \in Keys : k = cmd.key
  BY <1>4 DEF ClearInv
<1>6. Default \in promised[k] /\ cmd.op = "clear" /\ cmd.val = Default
  BY <1>4, <1>5 DEF ClearInv
<1>7. chip' = [op |-> "kill", at |-> p]
  BY <1>2, <1>4 DEF Issue
<1>8. chip'.op = "kill" /\ chip'.at = p /\ Busy'
  BY <1>7 DEF Busy, Idle
<1>9. Oldest(k)' = Oldest(k) /\ WholeOf(k)' = WholeOf(k)
  BY <1>1, Untouched
<1>10. ChipOk'
  <2>1. chip'.at \in Oldest(k)' /\ Default \in promised'[k]
    BY <1>1, <1>2, <1>5, <1>6, <1>8, <1>9
  <2>2. Kills'
    BY <1>8, <2>1 DEF Kills
  <2> QED
    BY <2>2 DEF ChipOk
<1>11. then' \in {"kill", "answer"} /\ Stage' = then'
  BY <1>2 DEF Stage
<1>12. then' = "answer" => WholeOf(cmd.key)' \subseteq {chip'.at}
  <2>1. WholeOf(cmd.key)' = WholeOf(k)'
    BY <1>1, <1>5
  <2> QED
    BY <1>2, <1>5, <1>8, <1>9, <2>1
<1>13. ClearInv'
  BY <1>1, <1>5, <1>6, <1>8, <1>11, <1>12 DEF ClearInv
<1>14. CommandInv'
  BY <1>2, <1>11, <1>13 DEF CommandInv, Stages
<1> QED
  BY <1>1, <1>2, <1>3, <1>10, <1>11, <1>14, SentStep DEF Stages

\* The chip is done; of a command's last wait, the console answers.
LEMMA WaitIdleStep == Sound /\ WaitIdle => Sound'
<1> SUFFICES ASSUME Sound, WaitIdle
             PROVE  Sound'
  OBVIOUS
<1>1. /\ pc = "wait" /\ ~Busy /\ data' = data /\ chip' = chip /\ then' = then /\ cmd' = cmd /\ item' = item
      /\ rest' = rest /\ applied' = applied /\ atBoot' = atBoot /\ blind' = blind
      /\ pc' = IF then = "answer" THEN "idle" ELSE then
      /\ promised' = IF then = "answer" THEN Answered ELSE promised
      /\ open' = IF then = "answer" /\ cmd.op = "erase" THEN 0 ELSE open
  BY DEF WaitIdle, GoOn, boot
<1>2. StoreType /\ Safe /\ ChipOk /\ CommandInv /\ BootInv /\ data \in Logs /\ open \in Sector
  BY DEF Sound, StoreType
<1>3. then \in Stages \ {"erase"} /\ Stage = then
  BY <1>1, <1>2 DEF StoreType, Stage
<1>4. ~Busy' /\ ChipOk'
  BY <1>1 DEF Busy, ChipOk
<1>5. BootInv'
  BY <1>1, <1>2, <1>3 DEF BootInv, Stages
<1>6. CASE then # "answer"
  <2>1. pc' = then /\ promised' = promised /\ open' = open /\ Stage' = then
    BY <1>1, <1>3, <1>6 DEF Stage, Stages
  <2>2. StoreType'
    BY <1>1, <1>2, <1>3, <1>6, <2>1 DEF StoreType, Stages
  <2>3. Safe'
    BY <1>1, <1>2, <2>1, MoreIsSafe
  <2>4. ASSUME SetInv
        PROVE  SetInv'
    <3>1. ASSUME then = "program"
          PROVE  ItemInv'
      <4>1. ItemInv
        BY <1>3, <2>4, <3>1 DEF SetInv
      <4>2. rest # ItemLen /\ TornIs(item.key, item.val)
        BY <1>1, <4>1 DEF ItemInv
      <4>3. TornIs(item.key, item.val)'
        BY <1>1, <2>1, <4>2 DEF TornIs, LastTorn
      <4> QED
        BY <1>1, <1>4, <2>1, <4>1, <4>2, <4>3 DEF ItemInv, Applied
    <3> QED
      BY <1>1, <1>3, <1>6, <2>1, <2>4, <3>1 DEF SetInv
  <2>5. ASSUME ClearInv
        PROVE  ClearInv'
    BY <1>1, <1>6, <2>1, <2>5 DEF ClearInv
  <2>6. ASSUME EraseInv
        PROVE  EraseInv'
    <3>1. \A k \in Keys : AnyMayShow(k)'
      <4>1. \A k \in Keys : WholeOf(k)' = WholeOf(k)
        BY <1>1, <2>1, Untouched
      <4>2. \A p \in Slot : At(p)' = At(p)
        BY <1>1, <2>1, Untouched
      <4> QED
        BY <2>1, <2>6, <4>1, <4>2, WholeSlots DEF EraseInv, AnyMayShow, Applied
    <3> QED
      BY <1>1, <1>3, <1>4, <1>6, <2>1, <2>6, <3>1 DEF EraseInv
  <2>7. CommandInv'
    BY <1>2, <1>3, <1>4, <1>6, <2>1, <2>4, <2>5, <2>6 DEF CommandInv, Stages
  <2> QED
    BY <1>4, <1>5, <2>2, <2>3, <2>7 DEF Sound
<1>7. CASE then = "answer"
  <2>1. pc' = "idle" /\ promised' = Answered
    BY <1>1, <1>7
  <2>2. SetInv \/ ClearInv \/ EraseInv
    BY <1>2, <1>3, <1>7 DEF CommandInv
  <2>3. promised \in [Keys -> SUBSET (Values \cup {Default})]
    BY <1>2 DEF StoreType
  <2>4. ASSUME open' \in Sector, promised' \in [Keys -> SUBSET (Values \cup {Default})], Safe'
        PROVE  Sound'
    <3>1. rest' \in Nat
      BY <1>1, <1>2 DEF StoreType
    <3>2. StoreType'
      BY <1>1, <1>2, <2>1, <2>4, <3>1 DEF StoreType
    <3>3. CommandInv'
      BY <2>1 DEF CommandInv, Stages, Stage
    <3> QED
      BY <1>4, <1>5, <2>4, <3>2, <3>3 DEF Sound
  <2>5. ASSUME NEW k \in Keys, NEW v \in Values \cup {Default}, k = cmd.key, v = cmd.val,
               Stored(k) = v, cmd.op # "erase"
        PROVE  Sound'
    <3>1. open' = open /\ promised' = [promised EXCEPT ![k] = {v}]
      BY <1>1, <2>1, <2>5 DEF Answered
    <3>2. \A x \in Keys : Stored(x)' = Stored(x)
      BY <1>1, <3>1, Untouched
    <3>3. promised' \in [Keys -> SUBSET (Values \cup {Default})]
      BY <2>3, <3>1
    <3>4. \A x \in Keys : promised'[x] = IF x = k THEN {v} ELSE promised[x]
      BY <2>3, <3>1
    <3>5. Safe'
      BY <1>2, <2>5, <3>2, <3>4 DEF Safe
    <3> QED
      BY <1>2, <2>4, <3>1, <3>3, <3>5
  <2>6. CASE SetInv
    <3>1. cmd.op = "set" /\ cmd.key \in Keys /\ cmd.val \in Values /\ cmd.val # Invalid
      BY <2>6 DEF SetInv
    <3>2. \E p \in Newest(cmd.key) : At(p).val = cmd.val
      BY <1>1, <1>3, <1>7, <2>6 DEF SetInv
    <3>3. PICK k \in Keys : k = cmd.key
      BY <3>1
    <3>4. PICK p \in Newest(k) : At(p).val = cmd.val
      BY <3>2, <3>3
    <3>5. p \in WholeOf(k)
      BY DEF Newest
    <3>6. PICK q \in Slot : q \in WholeOf(k) /\ Newest(k) = {q}
      BY <1>2, <3>5, MapHolds DEF MapFact
    <3>7. Stored(k) = Applied(At(q).val) /\ p = q
      BY <1>2, <3>6, MapHolds DEF MapFact
    <3>8. Stored(k) = cmd.val
      BY <3>1, <3>4, <3>7 DEF Applied
    <3>9. PICK v \in Values : v = cmd.val
      BY <3>1
    <3> QED
      BY <2>5, <3>1, <3>3, <3>8, <3>9
  <2>7. CASE ClearInv
    <3>1. cmd.op = "clear" /\ cmd.key \in Keys /\ cmd.val = Default /\ WholeOf(cmd.key) = {}
      BY <1>1, <1>3, <1>7, <2>7 DEF ClearInv
    <3>2. PICK k \in Keys : k = cmd.key
      BY <3>1
    <3>3. Stored(k) = Default
      BY <3>1, <3>2, NoneStored
    <3> QED
      BY <2>5, <3>1, <3>2, <3>3
  <2>8. CASE EraseInv
    <3>1. cmd.op = "erase" /\ \A s \in Sector : s < rest => data[s] = <<>>
      BY <1>1, <2>8 DEF EraseInv
    <3>2. rest = Sectors
      BY <1>3, <1>7, <2>8 DEF EraseInv
    <3>3. open' \in Sector /\ promised' = [k \in Keys |-> {Default}]
      BY <1>1, <1>7, <2>1, <3>1, StoreAssumption DEF Answered, Sector
    <3>4. \A s \in Sector : Len(data[s]) = 0
      BY <3>1, <3>2, StoreAssumption DEF Sector
    <3>5. ASSUME NEW k \in Keys
          PROVE  WholeOf(k)' = {}
      <4>1. \A p \in Slot : p[1] \in Sector /\ p[2] \in Nat /\ p[2] > 0
        BY StoreAssumption DEF Slot
      <4>2. \A p \in Slot : ~(p[2] <= Len(data'[p[1]]))
        BY <1>1, <3>4, <4>1
      <4> QED
        BY <4>2 DEF WholeOf
    <3>6. \A k \in Keys : Stored(k)' = Default
      BY <3>3, <3>5, MapHoldsNext DEF MapFact
    <3>7. Safe'
      BY <3>3, <3>6 DEF Safe
    <3>8. promised' \in [Keys -> SUBSET (Values \cup {Default})]
      BY <3>3
    <3> QED
      BY <2>4, <3>3, <3>7, <3>8
  <2> QED
    BY <2>2, <2>6, <2>7, <2>8
<1> QED
  BY <1>6, <1>7

LEMMA TransferFailsStep == Sound /\ TransferFails => Sound'
<1> SUFFICES ASSUME Sound, TransferFails
             PROVE  Sound'
  OBVIOUS
<1>1. /\ pc \in {"program", "kill", "erase", "erase all"} /\ pc' = "idle" /\ data' = data /\ open' = open
      /\ chip' = chip /\ rest' = rest /\ promised' = promised /\ applied' = applied /\ atBoot' = atBoot
      /\ blind' = blind
  BY DEF TransferFails, flash, boot
<1>2. Safe'
  BY <1>1, MoreIsSafe DEF Sound
<1>3. StoreType' /\ BootInv'
  BY <1>1 DEF Sound, StoreType, BootInv
<1>4. ~Busy' /\ ChipOk'
  BY <1>1 DEF Sound, CommandInv, Stages, Busy, ChipOk
<1>5. CommandInv'
  BY <1>1 DEF CommandInv, Stage, Stages
<1> QED
  BY <1>2, <1>3, <1>4, <1>5 DEF Sound

\* The MCU starts again, the chip goes on or stops.
LEMMA RestartStep ==
  ASSUME Sound, Restarted, data' \in Logs, Safe', ChipOk'
  PROVE  Sound'
<1>1. pc' = "boot" /\ rest' = 0 /\ atBoot' = promised /\ open' = open /\ promised' = promised
  BY DEF Restarted
<1>2. StoreType' /\ BootInv'
  BY <1>1 DEF Sound, StoreType, BootInv
<1>3. CommandInv'
  BY <1>1 DEF CommandInv, Stage, Stages
<1> QED
  BY <1>2, <1>3 DEF Sound

LEMMA SameChip ==
  ASSUME ChipOk, data' = data, open' = open, chip' = chip, promised' = promised
  PROVE  ChipOk'
<1>1. \A k \in Keys : WholeOf(k)' = WholeOf(k) /\ Newest(k)' = Newest(k) /\ Oldest(k)' = Oldest(k)
  BY Untouched
<1>2. \A p \in Slot : At(p)' = At(p)
  BY Untouched
<1>3. Busy' => Busy
  BY DEF Busy
<1>4. Programs => Programs'
  BY DEF Programs, TornIs, LastTorn, Applied
<1>5. \A k \in Keys : AnyMayShow(k) => AnyMayShow(k)'
  BY <1>1, <1>2, WholeSlots DEF AnyMayShow, Applied
<1>6. Erases => Erases'
  BY <1>1, <1>5 DEF Erases
<1>7. Kills => Kills'
  BY <1>1 DEF Kills
<1> QED
  BY <1>3, <1>4, <1>6, <1>7 DEF ChipOk

LEMMA RestartsStep == Sound /\ (Reset \/ McuRestarts \/ PowerLoss) => Sound'
<1> SUFFICES ASSUME Sound, Reset \/ McuRestarts \/ PowerLoss
             PROVE  Sound'
  OBVIOUS
<1>1. Restarted /\ open' = open /\ promised' = promised
  BY DEF Reset, McuRestarts, PowerLoss, Restarted
<1>2. Safe /\ ChipOk /\ data \in Logs /\ open \in Sector
  BY DEF Sound, StoreType
<1>3. ASSUME data' = data
      PROVE  Safe' /\ data' \in Logs
  BY <1>1, <1>2, <1>3, MoreIsSafe
<1>4. CASE data' = data /\ chip' = chip
  BY <1>1, <1>2, <1>3, <1>4, SameChip, RestartStep
<1>5. CASE PowerLoss
  <2>1. chip' = Idle
    BY <1>5 DEF PowerLoss
  <2>2. ChipOk'
    BY <2>1 DEF ChipOk, Busy
  <2>3. CASE data' = data
    BY <1>1, <1>3, <2>2, <2>3, RestartStep
  <2>4. CASE Busy /\ data' = Effect(chip)
    BY <1>1, <1>2, <2>2, <2>4, EffectIsSafe, RestartStep
  <2>5. CASE Busy /\ chip.op = "program" /\ data' = Append1(open, Record(chip.key, chip.val, "torn"))
    <3>1. Programs
      BY <1>2, <2>5 DEF ChipOk, Erases, Kills
    <3> DEFINE r == Record(chip.key, chip.val, "torn")
    <3>2. r \in Written /\ r.state = "torn"
      BY <3>1 DEF Programs, Record, Written
    <3>3. PICK w \in Written : w = r
      BY <3>2
    <3> HIDE DEF r
    <3>4. data' = Append1(open, w) /\ w.state = "torn"
      BY <2>5, <3>2, <3>3 DEF r
    <3>5. data' \in Logs
      BY <1>2, <3>4, Appended
    <3>6. \A k \in Keys : WholeOf(k)' = WholeOf(k) /\ \A p \in WholeOf(k) : At(p)' = At(p)
      BY <1>2, <3>4, AppendedTorn
    <3>7. \A k \in Keys : Stored(k)' = Stored(k)
      BY <1>1, <1>2, <3>6, Same
    <3>8. Safe'
      BY <1>1, <1>2, <3>7 DEF Safe
    <3> QED
      BY <1>1, <2>2, <3>5, <3>8, RestartStep
  <2> QED
    BY <1>5, <2>3, <2>4, <2>5 DEF PowerLoss
<1> QED
  BY <1>4, <1>5 DEF Reset, McuRestarts

\* The boot applies what is stored.
LEMMA LoadStep == Sound /\ Load => Sound'
<1> SUFFICES ASSUME Sound, Load
             PROVE  Sound'
  OBVIOUS
<1>1. /\ pc = "boot" /\ pc' = "idle" /\ data' = data /\ open' = open /\ chip' = chip /\ rest' = rest
      /\ atBoot' = atBoot
  BY DEF Load, flash
<1>2. PICK unread \in SUBSET Keys :
        /\ blind' = (unread # {})
        /\ applied' = [k \in Keys |-> IF k \in unread THEN Default ELSE Stored(k)]
        /\ promised' = [k \in Keys |-> IF k \in unread \/ Busy THEN promised[k] ELSE {Stored(k)}]
  BY DEF Load
<1>3. /\ Safe /\ ChipOk /\ BootInv /\ data \in Logs /\ open \in Sector /\ rest \in Nat
      /\ promised \in [Keys -> SUBSET (Values \cup {Default})]
  BY DEF Sound, StoreType
<1>4. \A k \in Keys : Stored(k) \in promised[k] /\ Stored(k)' = Stored(k)
  BY <1>1, <1>3, Untouched DEF Safe
<1>5. promised' \in [Keys -> SUBSET (Values \cup {Default})]
  <2>1. \A k \in Keys : promised[k] \subseteq Values \cup {Default}
    BY <1>3
  <2>2. \A k \in Keys : (IF k \in unread \/ Busy THEN promised[k] ELSE {Stored(k)}) \in SUBSET (Values \cup {Default})
    BY <1>4, <2>1
  <2> QED
    BY <1>2, <2>2
<1>6. Safe'
  <2>1. \A k \in Keys : promised'[k] = IF k \in unread \/ Busy THEN promised[k] ELSE {Stored(k)}
    BY <1>2
  <2> QED
    BY <1>4, <2>1 DEF Safe
<1>7. ChipOk'
  <2>1. CASE Busy
    <3>1. promised' = [k \in Keys |-> promised[k]]
      BY <1>2, <2>1
    <3>2. promised' = promised
      BY <1>3, <3>1
    <3> QED
      BY <1>1, <1>3, <3>2, SameChip
  <2>2. CASE ~Busy
    BY <1>1, <2>2 DEF ChipOk, Busy
  <2> QED
    BY <2>1, <2>2
<1>8. BootInv'
  <2>1. atBoot' = promised
    BY <1>1, <1>3 DEF BootInv
  <2>2. ASSUME ~blind', NEW k \in Keys
        PROVE  applied'[k] \in atBoot'[k]
    <3>1. unread = {}
      BY <1>2, <2>2
    <3>2. applied'[k] = Stored(k)
      BY <1>2, <3>1
    <3> QED
      BY <1>4, <2>1, <3>2
  <2> QED
    BY <1>1, <2>2 DEF BootInv
<1>9. StoreType'
  BY <1>1, <1>3, <1>5 DEF StoreType
<1>10. CommandInv'
  BY <1>1 DEF CommandInv, Stage, Stages
<1> QED
  BY <1>6, <1>7, <1>8, <1>9, <1>10 DEF Sound

LEMMA StoreInitSound == StoreInit => Sound
<1> SUFFICES ASSUME StoreInit
             PROVE  Sound
  OBVIOUS
<1>1. PICK a \in Keys, b \in Keys, v \in {"old", Invalid} :
        data = [s \in Sector |->
                  CASE s = 0 -> <<Record(a, "old", "whole"), Record(b, v, "whole")>>
                    [] s = 1 -> <<Record(a, "new", "whole")>>
                    [] OTHER -> <<>>]
  BY DEF StoreInit
<1>2. /\ open = 1 /\ chip = Idle /\ pc = "boot" /\ rest = 0
      /\ promised = [k \in Keys |-> {Stored(k)}] /\ atBoot = promised
  BY DEF StoreInit
<1>3. data \in Logs
  <2>1. Record(a, "old", "whole") \in Written /\ Record(b, v, "whole") \in Written
        /\ Record(a, "new", "whole") \in Written
    BY DEF Record, Written, Values
  <2> DEFINE x == Record(a, "old", "whole")
             y == Record(b, v, "whole")
             z == Record(a, "new", "whole")
  <2>2. x \in Written /\ y \in Written /\ z \in Written
    BY <2>1
  <2>3. data = [s \in Sector |-> CASE s = 0 -> <<x, y>> [] s = 1 -> <<z>> [] OTHER -> <<>>]
    BY <1>1
  <2> HIDE DEF x, y, z
  <2>4. <<x, y>> \in Seq(Written) /\ <<z>> \in Seq(Written) /\ <<>> \in Seq(Written)
    BY <2>2
  <2>5. \A s \in Sector : (CASE s = 0 -> <<x, y>> [] s = 1 -> <<z>> [] OTHER -> <<>>) \in Seq(Written)
    BY <2>4
  <2> QED
    BY <2>3, <2>5 DEF Logs
<1>4. open \in Sector
  BY <1>2, StoreAssumption DEF Sector
<1>5. ASSUME NEW k \in Keys
      PROVE  Stored(k) \in Values \cup {Default}
  <2>1. CASE WholeOf(k) = {}
    BY <2>1, NoneStored
  <2>2. CASE WholeOf(k) # {}
    <3>1. PICK q \in Slot : q \in WholeOf(k) /\ Newest(k) = {q}
      BY <1>4, <2>2, MapHolds DEF MapFact
    <3>2. Stored(k) = Applied(At(q).val)
      BY <1>4, <3>1, MapHolds DEF MapFact
    <3>3. At(q).val \in Values
      BY <1>3, <3>1, WholeTyped
    <3> QED
      BY <3>2, <3>3 DEF Applied
  <2> QED
    BY <2>1, <2>2
<1>6. StoreType
  <2>1. promised \in [Keys -> SUBSET (Values \cup {Default})]
    BY <1>2, <1>5
  <2> QED
    BY <1>2, <1>3, <1>4, <2>1 DEF StoreType
<1>7. Safe
  BY <1>2 DEF Safe
<1>8. ChipOk /\ CommandInv /\ BootInv
  BY <1>2 DEF ChipOk, Busy, CommandInv, Stage, Stages, BootInv
<1> QED
  BY <1>6, <1>7, <1>8 DEF Sound

LEMMA StoreStep == StoreInv /\ [StoreNext]_storeVars => StoreInv'
<1> SUFFICES ASSUME StoreInv, [StoreNext]_storeVars, ~misread'
             PROVE  Sound'
  BY DEF StoreInv
<1>1. ~misread
  BY DEF StoreNext, storeVars, ChipDone, TransferFails, CalSet, FlashClear, FlashErase, Start, Place, Program,
         EraseSector, EraseAll, Kill, WaitIdle, StatusMisread, Reset, McuRestarts, PowerLoss, Restarted, Load
<1>2. Sound
  BY <1>1 DEF StoreInv
<1>3. ~StatusMisread
  BY DEF StatusMisread
<1>4. CASE UNCHANGED storeVars
  <2>1. /\ data' = data /\ open' = open /\ chip' = chip /\ pc' = pc /\ then' = then /\ cmd' = cmd
        /\ item' = item /\ rest' = rest /\ applied' = applied /\ atBoot' = atBoot /\ blind' = blind
        /\ promised' = promised
    BY <1>4 DEF storeVars, flash, console, boot
  <2>2. /\ \A k \in Keys : WholeOf(k)' = WholeOf(k) /\ Newest(k)' = Newest(k) /\ Oldest(k)' = Oldest(k)
        /\ \A p \in Slot : At(p)' = At(p)
        /\ Live(After(open))' = Live(After(open))
    BY <2>1, Untouched DEF Live, Newest, WholeOf, Newer, Age, At, After
  <2>3. Safe' /\ ChipOk'
    BY <1>2, <2>1, MoreIsSafe, SameChip DEF Sound
  <2>4. StoreType' /\ BootInv'
    BY <1>2, <2>1 DEF Sound, StoreType, BootInv
  <2>5. Stage' = Stage /\ Busy' = Busy
    BY <2>1 DEF Stage, Busy
  <2>6. ItemInv => ItemInv'
    BY <2>1 DEF ItemInv, Applied, Busy, TornIs, LastTorn
  <2>7. ASSUME SetInv
        PROVE  SetInv'
    BY <2>1, <2>2, <2>6, <2>7 DEF SetInv, Stage, Busy, Newest, WholeOf, At, Newer, Age
  <2>8. ASSUME ClearInv
        PROVE  ClearInv'
    BY <2>1, <2>8 DEF ClearInv, Stage, Busy, WholeOf, At
  <2>9. ASSUME EraseInv
        PROVE  EraseInv'
    <3>1. \A k \in Keys : AnyMayShow(k)'
      BY <2>1, <2>2, <2>9, WholeSlots DEF EraseInv, AnyMayShow, Applied
    <3> QED
      BY <2>1, <2>5, <2>9, <3>1 DEF EraseInv
  <2>10. CommandInv'
    BY <1>2, <2>1, <2>5, <2>7, <2>8, <2>9 DEF Sound, CommandInv
  <2> QED
    BY <2>3, <2>4, <2>10 DEF Sound
<1>5. CASE StoreNext
  BY <1>2, <1>3, <1>5, ChipDoneStep, TransferFailsStep, CalSetStep, FlashClearStep, FlashEraseStep, PlaceStep,
     ProgramStep, EraseSectorStep, EraseAllStep, KillStep, WaitIdleStep, RestartsStep, LoadStep DEF StoreNext
<1> QED
  BY <1>4, <1>5

\* StoreInv is an invariant.
LEMMA StoreInvHolds == StoreSpec => []StoreInv
<1>1. StoreInit => StoreInv
  BY StoreInitSound DEF StoreInv
<1> QED
  BY <1>1, StoreStep, PTL DEF StoreSpec

\* Whenever power fails, in the middle of a record that is written, moved or
\* killed or of a sector that is erased, the newest whole record of a sensor is
\* one that a boot may apply (storage.rs, flash.rs).
THEOREM PowerMayFail == StoreSpec => [](~misread => Safe)
<1>1. StoreInv => (~misread => Safe)
  BY DEF StoreInv, Sound
<1> QED
  BY <1>1, StoreInvHolds, PTL

\* A boot applies to every sensor what the console last said of it, or what a
\* command that was cut short would have made of it, for every number and size
\* of sectors, pages and records, restarts and losses of power included
\* (storage.rs, flash.rs, calibration::load).
THEOREM StoredIsApplied == StoreSpec => []AppliedIsStored
<1>1. StoreInv => AppliedIsStored
  BY DEF StoreInv, Sound, BootInv, AppliedIsStored
<1> QED
  BY <1>1, StoreInvHolds, PTL
=============================================================================
