-------------------------- MODULE BoardLinks_proofs --------------------------
(***************************************************************************)
(* The links of the boards, for all constants: the EPOS4 link matches      *)
(* every answer to its request, the motors of the servo bus answer only    *)
(* for themselves, a deployment of the CATS is reported, the fields of a   *)
(* collector follow the bus, the test board keeps the rows it has written  *)
(* whatever its host asks, and what the host tool reports of them is so.   *)
(* Each part has the invariant that makes its property inductive, a lemma  *)
(* per step, and the theorem.                                              *)
(***************************************************************************)
EXTENDS EposLink, RsblLink, CatsInputs, CanInputs, AsteriaTool, SequenceTheorems,
        FiniteSetTheorems, TLAPS

Common == INSTANCE Common_proofs

-----------------------------------------------------------------------------
(* The EPOS4 link                                                          *)

\* Types; every field in the wire and in the buffer is of a request that was sent.
EposType ==
  /\ kinds \in Seq(Kind) /\ Len(kinds) <= MaxEposRequests
  /\ asking \in BOOLEAN /\ overrun \in BOOLEAN
  /\ wire \in Seq(Field) /\ eposRx \in Seq(Field)
  /\ \A i \in 1..Len(wire) : wire[i].of \in 1..Len(kinds)
  /\ \A i \in 1..Len(eposRx) : eposRx[i].of \in 1..Len(kinds)
  /\ stage \in {"sync", "head", "body"} /\ (asking \/ stage = "sync")
  /\ left \in Nat
  /\ stage = "body" => reading \in 1..Len(kinds)
  /\ accepted = NoVal \/ accepted \in [request : 1..Len(kinds), answer : 1..Len(kinds)]
  /\ timeouts \in Nat

LEMMA FrameFields ==
  ASSUME NEW id \in Nat, NEW kind \in Kind
  PROVE  /\ EposFrame(id, kind) \in Seq([name : {"sync", "head", "body"}, of : {id}])
         /\ Len(EposFrame(id, kind)) = BodyFields(kind) + 2
         /\ BodyFields(kind) \in {2, 3}
         /\ \A i \in 1..(BodyFields(kind) + 2) :
              EposFrame(id, kind)[i] =
                [name |-> IF i = 1 THEN "sync" ELSE IF i = 2 THEN "head" ELSE "body", of |-> id]
<1> DEFINE first == <<[name |-> "sync", of |-> id], [name |-> "head", of |-> id]>>
           rest == [i \in 1..BodyFields(kind) |-> [name |-> "body", of |-> id]]
           F == [name : {"sync", "head", "body"}, of : {id}]
<1>1. BodyFields(kind) \in {2, 3}
  BY DEF BodyFields
<1>2. first \in Seq(F) /\ Len(first) = 2 /\ first[1] = [name |-> "sync", of |-> id]
      /\ first[2] = [name |-> "head", of |-> id]
  OBVIOUS
<1>3. rest \in Seq(F) /\ Len(rest) = BodyFields(kind)
      /\ \A i \in 1..BodyFields(kind) : rest[i] = [name |-> "body", of |-> id]
  <2>1. [name |-> "body", of |-> id] \in F
    OBVIOUS
  <2> HIDE DEF F
  <2>2. rest \in [1..BodyFields(kind) -> F]
    BY <2>1
  <2>3. rest \in Seq(F)
    BY <1>1, <2>2, SeqDef
  <2>4. DOMAIN rest = 1..BodyFields(kind) /\ DOMAIN rest = 1..Len(rest) /\ Len(rest) \in Nat
    BY <2>3, LenProperties
  <2> QED
    BY <1>1, <2>3, <2>4
<1> QED
  <2> HIDE DEF first, rest, F
  <2>1. /\ first \o rest \in Seq(F) /\ Len(first \o rest) = 2 + BodyFields(kind)
        /\ \A i \in 1..(2 + BodyFields(kind)) :
             (first \o rest)[i] = IF i <= 2 THEN first[i] ELSE rest[i - 2]
    <3>1. /\ first \o rest \in Seq(F) /\ Len(first \o rest) = Len(first) + Len(rest)
          /\ \A i \in 1..(Len(first) + Len(rest)) :
               (first \o rest)[i] = IF i <= Len(first) THEN first[i] ELSE rest[i - Len(first)]
      BY <1>2, <1>3, ConcatProperties
    <3> QED
      BY <1>2, <1>3, <3>1
  <2>3. EposFrame(id, kind) = first \o rest
    BY DEF EposFrame, first, rest
  <2>4. \A i \in 1..(BodyFields(kind) + 2) :
              (first \o rest)[i] =
                [name |-> IF i = 1 THEN "sync" ELSE IF i = 2 THEN "head" ELSE "body", of |-> id]
    BY <1>1, <1>2, <1>3, <2>1
  <2>5. Len(first \o rest) = BodyFields(kind) + 2
    BY <1>1, <2>1
  <2> QED
    BY <1>1, <2>1, <2>3, <2>4, <2>5 DEF F

LEMMA EposTypes == EposInit => EposType
<1> SUFFICES ASSUME EposInit
             PROVE  EposType
  OBVIOUS
<1>1. kinds \in Seq(Kind) /\ Len(kinds) = 0 /\ wire \in Seq(Field) /\ Len(wire) = 0
      /\ eposRx \in Seq(Field) /\ Len(eposRx) = 0
  BY EmptySeq DEF EposInit
<1>2. Len(kinds) <= MaxEposRequests /\ timeouts \in Nat
  BY <1>1, LinkAssumption DEF EposInit
<1>3. asking = FALSE /\ overrun = FALSE /\ stage = "sync" /\ left \in Nat /\ accepted = NoVal
  BY DEF EposInit
<1>4. (\A i \in 1..Len(wire) : wire[i].of \in 1..Len(kinds)) /\ (\A i \in 1..Len(eposRx) : eposRx[i].of \in 1..Len(kinds))
  BY <1>1
<1>5. asking \in BOOLEAN /\ overrun \in BOOLEAN
  BY <1>3
<1>6. stage # "body" /\ stage \in {"sync", "head", "body"} 
  BY <1>3
<1> QED
  BY <1>1, <1>2, <1>3, <1>4, <1>5, <1>6 DEF EposType

\* What a step does to the sequences of fields, each a fact about their elements.
LEMMA RequestFields ==
  ASSUME EposType, NEW kind \in Kind, EposRequest(kind)
  PROVE  /\ kinds' \in Seq(Kind) /\ Len(kinds') = Len(kinds) + 1 /\ Len(kinds') <= MaxEposRequests
         /\ \A i \in 1..Len(kinds) : kinds'[i] = kinds[i]
         /\ kinds'[Len(kinds) + 1] = kind
         /\ wire' \in Seq(Field)
         /\ \/ wire' = wire
            \/ /\ Len(wire') = Len(wire) + BodyFields(kind) + 2
               /\ \A i \in 1..Len(wire) : wire'[i] = wire[i]
               /\ \A i \in 1..(BodyFields(kind) + 2) :
                    wire'[Len(wire) + i] =
                      [name |-> IF i = 1 THEN "sync" ELSE IF i = 2 THEN "head" ELSE "body",
                       of |-> Len(kinds) + 1]
<1> DEFINE frame == EposFrame(Len(kinds) + 1, kind)
<1>1. /\ kinds' \in Seq(Kind) /\ Len(kinds') = Len(kinds) + 1 /\ Len(kinds') <= MaxEposRequests
      /\ \A i \in 1..Len(kinds) : kinds'[i] = kinds[i]
      /\ kinds'[Len(kinds) + 1] = kind
  BY LinkAssumption DEF EposType, EposRequest
<1>2. Len(kinds) + 1 \in 1..MaxEposRequests
  BY LinkAssumption DEF EposType, EposRequest
<1>3. /\ frame \in Seq(Field) /\ Len(frame) = BodyFields(kind) + 2 /\ BodyFields(kind) \in {2, 3}
      /\ \A i \in 1..(BodyFields(kind) + 2) :
           frame[i] = [name |-> IF i = 1 THEN "sync" ELSE IF i = 2 THEN "head" ELSE "body",
                       of |-> Len(kinds) + 1]
  <2>1. [name : {"sync", "head", "body"}, of : {Len(kinds) + 1}] \subseteq Field
    BY <1>2 DEF Field
  <2>2. /\ frame \in Seq([name : {"sync", "head", "body"}, of : {Len(kinds) + 1}])
        /\ Len(frame) = BodyFields(kind) + 2 /\ BodyFields(kind) \in {2, 3}
        /\ \A i \in 1..(BodyFields(kind) + 2) :
             frame[i] = [name |-> IF i = 1 THEN "sync" ELSE IF i = 2 THEN "head" ELSE "body",
                         of |-> Len(kinds) + 1]
    <3>1. Len(kinds) + 1 \in Nat
      BY <1>2
    <3> QED
      BY <3>1, FrameFields
  <2> HIDE DEF frame
  <2>3. frame \in Seq(Field)
    BY <2>1, <2>2, SeqMonotonic
  <2> QED
    BY <2>2, <2>3
<1>4. CASE wire' = wire \o frame
  <2> HIDE DEF frame
  <2> QED
    BY <1>1, <1>3, <1>4 DEF EposType
<1>5. CASE wire' = wire
  BY <1>1, <1>5 DEF EposType
<1> QED
  BY <1>4, <1>5 DEF EposRequest

LEMMA ArrivalFields ==
  ASSUME EposType, AnswerArrives
  PROVE  /\ Len(wire) > 0 /\ wire' \in Seq(Field) /\ Len(wire') = Len(wire) - 1
         /\ \A i \in 1..(Len(wire) - 1) : wire'[i] = wire[i + 1]
         /\ eposRx' \in Seq(Field)
         /\ \/ Len(eposRx) >= Capacity /\ eposRx' = eposRx /\ overrun' = TRUE
            \/ /\ Len(eposRx') = Len(eposRx) + 1 /\ overrun' = overrun
               /\ \A i \in 1..Len(eposRx) : eposRx'[i] = eposRx[i]
               /\ eposRx'[Len(eposRx) + 1] = wire[1]
<1>1. wire \in Seq(Field) /\ wire # <<>> /\ wire' = Tail(wire) /\ eposRx \in Seq(Field)
  BY DEF EposType, AnswerArrives
<1>2. /\ Len(wire) > 0 /\ wire' \in Seq(Field) /\ Len(wire') = Len(wire) - 1
      /\ \A i \in 1..(Len(wire) - 1) : wire'[i] = wire[i + 1]
      /\ Head(wire) = wire[1] /\ wire[1] \in Field
  BY <1>1, HeadTailProperties, EmptySeq
<1>3. Len(eposRx) \in Nat /\ Len(wire) \in Nat
  BY <1>1, LenProperties
<1>4. CASE Len(eposRx) < Capacity
  <2>1. eposRx' = Append(eposRx, wire[1]) /\ overrun' = overrun
    BY <1>2, <1>4 DEF AnswerArrives
  <2>2. /\ Append(eposRx, wire[1]) \in Seq(Field)
        /\ Len(Append(eposRx, wire[1])) = Len(eposRx) + 1
        /\ \A i \in 1..Len(eposRx) : Append(eposRx, wire[1])[i] = eposRx[i]
        /\ Append(eposRx, wire[1])[Len(eposRx) + 1] = wire[1]
    BY <1>1, <1>2, AppendProperties
  <2> QED
    BY <1>2, <2>1, <2>2
<1>5. CASE ~(Len(eposRx) < Capacity)
  <2>1. eposRx' = eposRx /\ overrun' = TRUE /\ Len(eposRx) >= Capacity
    BY <1>3, <1>5, LinkAssumption DEF AnswerArrives
  <2> QED
    BY <1>1, <1>2, <2>1
<1> QED
  BY <1>4, <1>5

LEMMA TakenFields ==
  ASSUME EposType, NEW name, ReadField(name)
  PROVE  /\ Len(eposRx) > 0 /\ eposRx' \in Seq(Field) /\ Len(eposRx') = Len(eposRx) - 1
         /\ \A i \in 1..(Len(eposRx) - 1) : eposRx'[i] = eposRx[i + 1]
         /\ Head(eposRx) = eposRx[1] /\ eposRx[1] \in Field
<1>1. eposRx \in Seq(Field) /\ eposRx # <<>> /\ eposRx' = Tail(eposRx)
  BY DEF EposType, ReadField
<1> QED
  BY <1>1, HeadTailProperties, EmptySeq

LEMMA EposTypeStep == EposType /\ [EposNext]_eposVars => EposType'
<1> SUFFICES ASSUME EposType, [EposNext]_eposVars
             PROVE  EposType'
  OBVIOUS
<1>0. Len(kinds) \in Nat /\ Len(wire) \in Nat /\ Len(eposRx) \in Nat
  BY LenProperties DEF EposType
<1>1. ASSUME NEW kind \in Kind, EposRequest(kind)
      PROVE  EposType'
  <2>1. BodyFields(kind) \in {2, 3}
    BY DEF BodyFields
  <2>2. \A i \in 1..Len(wire') : wire'[i].of \in 1..(Len(kinds) + 1)
    <3>1. CASE wire' = wire
      BY <1>0, <3>1 DEF EposType
    <3>2. ASSUME wire' # wire, NEW i \in 1..Len(wire')
          PROVE  wire'[i].of \in 1..(Len(kinds) + 1)
      <4>1. CASE i <= Len(wire)
        BY <1>0, <1>1, <2>1, <3>2, <4>1, RequestFields DEF EposType
      <4>2. CASE i > Len(wire)
        <5>1. PICK j \in 1..(BodyFields(kind) + 2) : i = Len(wire) + j
          <6>1. i - Len(wire) \in 1..(BodyFields(kind) + 2) /\ i = Len(wire) + (i - Len(wire))
            BY <1>0, <1>1, <2>1, <3>2, <4>2, RequestFields
          <6> QED
            BY <6>1
        <5>2. wire'[Len(wire) + j].of = Len(kinds) + 1
          <6>1. wire'[Len(wire) + j] =
                  [name |-> IF j = 1 THEN "sync" ELSE IF j = 2 THEN "head" ELSE "body",
                   of |-> Len(kinds) + 1]
            BY <1>1, <3>2, RequestFields
          <6> QED
            BY <6>1
        <5> QED
          BY <1>0, <5>1, <5>2
      <4> QED
        BY <1>0, <4>1, <4>2
    <3> QED
      BY <3>1, <3>2
  <2>3. \A i \in 1..Len(eposRx) : eposRx[i].of \in 1..(Len(kinds) + 1)
    BY <1>0 DEF EposType
  <2>4. accepted = NoVal \/ accepted \in [request : 1..(Len(kinds) + 1), answer : 1..(Len(kinds) + 1)]
    BY <1>0 DEF EposType
  <2>5. /\ kinds' \in Seq(Kind) /\ Len(kinds') = Len(kinds) + 1 /\ Len(kinds') <= MaxEposRequests
        /\ wire' \in Seq(Field)
    BY <1>1, RequestFields
  <2>6. stage = "sync" /\ left \in Nat /\ overrun \in BOOLEAN /\ timeouts \in Nat /\ eposRx \in Seq(Field)
    BY <1>1 DEF EposType, EposRequest
  <2>7. /\ asking' = TRUE /\ eposRx' = eposRx /\ overrun' = overrun /\ stage' = stage /\ left' = left
        /\ reading' = reading /\ accepted' = accepted /\ timeouts' = timeouts
    BY <1>1 DEF EposRequest, readerVars
  <2> QED
    BY <2>2, <2>3, <2>4, <2>5, <2>6, <2>7 DEF EposType
<1>2. CASE AnswerArrives
  <2>1. /\ Len(wire) > 0 /\ wire' \in Seq(Field) /\ Len(wire') = Len(wire) - 1
        /\ \A i \in 1..(Len(wire) - 1) : wire'[i] = wire[i + 1]
        /\ eposRx' \in Seq(Field)
    BY <1>2, ArrivalFields
  <2>2. \A i \in 1..Len(wire') : wire'[i].of \in 1..Len(kinds)
    <3>1. \A i \in 1..(Len(wire) - 1) : i + 1 \in 1..Len(wire)
      BY <1>0
    <3> QED
      BY <2>1, <3>1 DEF EposType
  <2>3. \A i \in 1..Len(eposRx') : eposRx'[i].of \in 1..Len(kinds)
    <3>1. CASE eposRx' = eposRx
      BY <3>1 DEF EposType
    <3>2. CASE /\ Len(eposRx') = Len(eposRx) + 1 /\ overrun' = overrun
               /\ \A i \in 1..Len(eposRx) : eposRx'[i] = eposRx[i]
               /\ eposRx'[Len(eposRx) + 1] = wire[1]
      <4>1. wire[1].of \in 1..Len(kinds)
        BY <1>0, <2>1 DEF EposType
      <4>2. ASSUME NEW i \in 1..(Len(eposRx) + 1)
            PROVE  i \in 1..Len(eposRx) \/ i = Len(eposRx) + 1
        BY <1>0
      <4> QED
        BY <3>2, <4>1, <4>2 DEF EposType
    <3> QED
      BY <1>2, <3>1, <3>2, ArrivalFields
  <2>4. overrun' = TRUE \/ overrun' = overrun
    BY <1>2 DEF AnswerArrives
  <2>5. /\ kinds' = kinds /\ asking' = asking /\ stage' = stage /\ left' = left
        /\ reading' = reading /\ accepted' = accepted /\ timeouts' = timeouts
    BY <1>2 DEF AnswerArrives, readerVars, counters
  <2> QED
    BY <2>1, <2>2, <2>3, <2>4, <2>5 DEF EposType
<1>3. ASSUME NEW name, ReadField(name)
      PROVE  /\ eposRx' \in Seq(Field) /\ \A i \in 1..Len(eposRx') : eposRx'[i].of \in 1..Len(kinds)
             /\ eposRx[1].of \in 1..Len(kinds) /\ Head(eposRx) = eposRx[1]
             /\ kinds' = kinds /\ wire' = wire /\ overrun' = overrun /\ timeouts' = timeouts
  <2>1. /\ Len(eposRx) > 0 /\ eposRx' \in Seq(Field) /\ Len(eposRx') = Len(eposRx) - 1
        /\ \A i \in 1..(Len(eposRx) - 1) : eposRx'[i] = eposRx[i + 1]
        /\ Head(eposRx) = eposRx[1]
    BY <1>3, TakenFields
  <2>2. \A i \in 1..(Len(eposRx) - 1) : i + 1 \in 1..Len(eposRx)
    BY <1>0
  <2>3. 1 \in 1..Len(eposRx)
    BY <1>0, <2>1
  <2>4. kinds' = kinds /\ wire' = wire /\ overrun' = overrun /\ timeouts' = timeouts
    BY <1>3 DEF ReadField, counters
  <2> QED
    BY <2>1, <2>2, <2>3, <2>4 DEF EposType
<1>4. ASSUME Leave, kinds' = kinds, wire' = wire, overrun' \in BOOLEAN,
             timeouts' \in Nat, eposRx' \in Seq(Field),
             \A i \in 1..Len(eposRx') : eposRx'[i].of \in 1..Len(kinds),
             \/ accepted' = accepted
             \/ /\ reading \in 1..Len(kinds)
                /\ accepted' = [request |-> Len(kinds), answer |-> reading]
      PROVE  EposType'
  <2>1. accepted' = NoVal \/ accepted' \in [request : 1..Len(kinds), answer : 1..Len(kinds)]
    BY <1>0, <1>4 DEF EposType
  <2>2. asking' = FALSE /\ stage' = "sync" /\ left' = 0
    BY <1>4 DEF Leave
  <2> QED
    BY <1>4, <2>1, <2>2 DEF EposType
<1>5. CASE ReadSync
  <2>1. ReadField("sync") /\ accepted' = accepted /\ asking = TRUE
    BY <1>5 DEF ReadSync, ReadField, EposType
  <2>2. CASE Head(eposRx).name = "sync"
    <3>1. asking' = TRUE /\ stage' = "head" /\ left' = left
      BY <1>5, <2>1, <2>2 DEF ReadSync
    <3> QED
      BY <1>3, <2>1, <3>1 DEF EposType
  <2>3. CASE Head(eposRx).name # "sync"
    <3>1. Leave
      BY <1>5, <2>3 DEF ReadSync
    <3> QED
      BY <1>3, <1>4, <2>1, <3>1 DEF EposType
  <2> QED
    BY <2>2, <2>3
<1>6. CASE ReadHeader
  <2>1. ReadField("head") /\ accepted' = accepted /\ asking = TRUE
    BY <1>6 DEF ReadHeader, ReadField, EposType
  <2>2. CASE BodyFields(kinds[Head(eposRx).of]) = ExpectedLength
    <3>1. asking' = TRUE /\ stage' = "body" /\ left' = ExpectedLength /\ reading' = Head(eposRx).of
      BY <1>6, <2>1, <2>2 DEF ReadHeader
    <3>2. ExpectedLength \in Nat
      BY DEF ExpectedLength, BodyFields
    <3> QED
      BY <1>3, <2>1, <3>1, <3>2 DEF EposType
  <2>3. CASE BodyFields(kinds[Head(eposRx).of]) # ExpectedLength
    <3>1. Leave
      BY <1>6, <2>3 DEF ReadHeader
    <3> QED
      BY <1>3, <1>4, <2>1, <3>1 DEF EposType
  <2> QED
    BY <2>2, <2>3
<1>7. CASE ReadBody
  <2>1. ReadField("body") /\ stage = "body"
    BY <1>7 DEF ReadBody, ReadField
  <2>2. CASE left > 1
    <3>1. left - 1 \in Nat
      BY <2>2 DEF EposType
    <3>2. /\ asking' = asking /\ stage' = stage /\ reading' = reading /\ accepted' = accepted
          /\ left' = left - 1
      BY <1>7, <2>2 DEF ReadBody
    <3> QED
      BY <1>3, <2>1, <3>1, <3>2 DEF EposType
  <2>3. CASE ~(left > 1)
    <3>1. Leave /\ (accepted' = [request |-> Len(kinds), answer |-> reading] \/ accepted' = accepted)
      BY <1>7, <2>3 DEF ReadBody
    <3>2. reading \in 1..Len(kinds)
      BY <2>1 DEF EposType
    <3> QED
      BY <1>3, <1>4, <2>1, <3>1, <3>2 DEF EposType
  <2> QED
    BY <2>2, <2>3
<1>8. CASE ReadOverrun \/ EposTimeout
  <2>1. <<>> \in Seq(Field) /\ Len(<<>>) = 0
    BY EmptySeq
  <2>2. /\ Leave /\ kinds' = kinds /\ wire' = wire /\ accepted' = accepted
        /\ overrun' = FALSE /\ (timeouts' = timeouts \/ timeouts' = timeouts + 1)
        /\ eposRx' = eposRx \/ eposRx' = <<>>
    BY <1>8 DEF ReadOverrun, EposTimeout, counters, EposType
  <2>3. timeouts' \in Nat /\ overrun' \in BOOLEAN
    <3>1. timeouts \in Nat /\ timeouts + 1 \in Nat
      BY DEF EposType
    <3>2. CASE timeouts' = timeouts
      BY <2>2, <3>1, <3>2, Zenon
    <3>3. CASE timeouts' = timeouts + 1
      BY <2>2, <3>1, <3>3, Zenon
    <3> QED
      BY <2>2, <3>2, <3>3
  <2>4. eposRx' \in Seq(Field) /\ \A i \in 1..Len(eposRx') : eposRx'[i].of \in 1..Len(kinds)
    <3>1. CASE eposRx' = eposRx
      BY <3>1 DEF EposType
    <3>2. CASE eposRx' = <<>>
      <4>1. Len(eposRx') = 0
        BY <2>1, <3>2
      <4> QED
        BY <2>1, <3>2, <4>1
    <3> QED
      BY <2>2, <3>1, <3>2
  <2> QED
    BY <1>4, <2>2, <2>3, <2>4
<1>9. CASE UNCHANGED eposVars
  BY <1>9 DEF EposType, eposVars, readerVars, counters
<1> QED
  BY <1>1, <1>2, <1>5, <1>6, <1>7, <1>8, <1>9 DEF EposNext

-----------------------------------------------------------------------------
\* A sync is followed by its header, in the buffer or as the first field of the wire.
WholeSyncs(s) == \A i \in 1..Len(s) : s[i].name = "sync" => i + 1 \in 1..Len(s) /\ s[i + 1].name = "head"
HeadNext(s, t) ==
  /\ Len(s) > 0 => s[1].name = "head"
  /\ Len(s) = 0 => Len(t) > 0 /\ t[1].name = "head"
SyncsFollowed(s, t) ==
  \A i \in 1..Len(s) : s[i].name = "sync" =>
    /\ i # Len(s) => s[i + 1].name = "head"
    /\ i = Len(s) => Len(t) > 0 /\ t[1].name = "head"

HeadFollows ==
  /\ WholeSyncs(wire)
  /\ ~overrun => /\ SyncsFollowed(eposRx, wire)
                 /\ stage = "head" => HeadNext(eposRx, wire)

LEMMA HeadFollowsStep == EposType /\ HeadFollows /\ [EposNext]_eposVars => HeadFollows'
<1> SUFFICES ASSUME EposType, HeadFollows, [EposNext]_eposVars
             PROVE  HeadFollows'
  OBVIOUS
<1>0. Len(kinds) \in Nat /\ Len(wire) \in Nat /\ Len(eposRx) \in Nat
  BY LenProperties DEF EposType
<1>1. ASSUME NEW kind \in Kind, EposRequest(kind)
      PROVE  HeadFollows'
  <2>1. eposRx' = eposRx /\ stage' = stage /\ overrun' = overrun /\ stage = "sync"
    BY <1>1 DEF EposRequest, readerVars, EposType
  <2>2. CASE wire' = wire
    BY <2>1, <2>2 DEF HeadFollows
  <2>3. CASE wire' # wire
    <3>1. /\ Len(wire') = Len(wire) + BodyFields(kind) + 2 /\ BodyFields(kind) \in Nat
          /\ \A i \in 1..Len(wire) : wire'[i] = wire[i]
          /\ \A i \in 1..(BodyFields(kind) + 2) :
               wire'[Len(wire) + i] =
                 [name |-> IF i = 1 THEN "sync" ELSE IF i = 2 THEN "head" ELSE "body",
                  of |-> Len(kinds) + 1]
      BY <1>1, <2>3, RequestFields DEF BodyFields
    <3>2. wire'[Len(wire) + 2].name = "head"
      <4>1. 2 \in 1..(BodyFields(kind) + 2)
        BY <3>1
      <4>2. wire'[Len(wire) + 2] = [name |-> "head", of |-> Len(kinds) + 1]
        BY <3>1, <4>1
      <4> QED
        BY <4>2
    <3>3. ASSUME NEW i \in 1..Len(wire'), wire'[i].name = "sync"
          PROVE  i + 1 \in 1..Len(wire') /\ wire'[i + 1].name = "head"
      <4>1. CASE i <= Len(wire)
        <5>1. i \in 1..Len(wire) /\ wire[i].name = "sync"
          BY <1>0, <3>1, <3>3, <4>1
        <5> QED
          BY <1>0, <3>1, <5>1 DEF HeadFollows, WholeSyncs
      <4>2. CASE i > Len(wire)
        <5>1. PICK j \in 1..(BodyFields(kind) + 2) : i = Len(wire) + j
          <6>1. i - Len(wire) \in 1..(BodyFields(kind) + 2) /\ i = Len(wire) + (i - Len(wire))
            BY <1>0, <3>1, <4>2
          <6> QED
            BY <6>1
        <5>2. wire'[Len(wire) + j] =
                 [name |-> IF j = 1 THEN "sync" ELSE IF j = 2 THEN "head" ELSE "body",
                  of |-> Len(kinds) + 1]
          BY <3>1
        <5>3. j = 1
          BY <3>3, <5>1, <5>2
        <5> QED
          BY <1>0, <3>1, <3>2, <5>1, <5>3
      <4> QED
        BY <1>0, <4>1, <4>2
    <3>4. Len(wire) > 0 => Len(wire') > 0 /\ wire'[1] = wire[1]
      BY <1>0, <3>1
    <3>5. WholeSyncs(wire')
      BY <3>3 DEF WholeSyncs
    <3>6. SyncsFollowed(eposRx, wire) => SyncsFollowed(eposRx, wire')
      BY <3>4 DEF SyncsFollowed
    <3> QED
      BY <2>1, <3>5, <3>6 DEF HeadFollows
  <2> QED
    BY <2>2, <2>3
<1>2. CASE AnswerArrives
  <2>1. /\ Len(wire) > 0 /\ Len(wire') = Len(wire) - 1
        /\ \A i \in 1..(Len(wire) - 1) : wire'[i] = wire[i + 1]
    BY <1>2, ArrivalFields
  <2>2. WholeSyncs(wire')
    BY <1>0, <2>1 DEF HeadFollows, WholeSyncs
  <2>3. stage' = stage /\ (overrun' = overrun \/ overrun' = TRUE)
    BY <1>2 DEF AnswerArrives, readerVars
  <2>4. CASE overrun'
    BY <2>2, <2>4 DEF HeadFollows
  <2>5. CASE ~overrun'
    <3>1. /\ Len(eposRx') = Len(eposRx) + 1 /\ overrun' = overrun
          /\ \A i \in 1..Len(eposRx) : eposRx'[i] = eposRx[i]
          /\ eposRx'[Len(eposRx) + 1] = wire[1]
      BY <1>2, <2>5, ArrivalFields
    <3>2. ~overrun
      BY <2>5, <3>1
    <3>3. SyncsFollowed(eposRx', wire')
      <4> SUFFICES ASSUME NEW i \in 1..Len(eposRx'), eposRx'[i].name = "sync"
                   PROVE  /\ i # Len(eposRx') => eposRx'[i + 1].name = "head"
                          /\ i = Len(eposRx') => Len(wire') > 0 /\ wire'[1].name = "head"
        BY DEF SyncsFollowed
      <4>1. CASE i = Len(eposRx) + 1
        <5>1. 1 \in 1..Len(wire) /\ wire[1].name = "sync"
          BY <1>0, <2>1, <3>1, <4>1
        <5>2. 2 \in 1..Len(wire) /\ wire[2].name = "head"
          BY <5>1 DEF HeadFollows, WholeSyncs
        <5> QED
          BY <1>0, <2>1, <3>1, <4>1, <5>2
      <4>2. CASE i \in 1..Len(eposRx)
        <5>1. eposRx[i].name = "sync"
          BY <3>1, <4>2
        <5>2. CASE i = Len(eposRx)
          BY <1>0, <3>1, <3>2, <4>2, <5>1, <5>2 DEF HeadFollows, SyncsFollowed
        <5>3. CASE i # Len(eposRx)
          <6>1. i + 1 \in 1..Len(eposRx) /\ eposRx[i + 1].name = "head"
            BY <1>0, <3>2, <4>2, <5>1, <5>3 DEF HeadFollows, SyncsFollowed
          <6> QED
            BY <1>0, <3>1, <4>2, <6>1
        <5> QED
          BY <5>2, <5>3
      <4> QED
        BY <1>0, <3>1, <4>1, <4>2
    <3>4. stage = "head" => HeadNext(eposRx', wire')
      <4>1. CASE Len(eposRx) = 0
        BY <1>0, <3>1, <3>2, <4>1 DEF HeadFollows, HeadNext
      <4>2. CASE Len(eposRx) # 0
        BY <1>0, <3>1, <3>2, <4>2 DEF HeadFollows, HeadNext
      <4> QED
        BY <4>1, <4>2
    <3> QED
      BY <2>2, <2>3, <3>3, <3>4 DEF HeadFollows
  <2> QED
    BY <2>4, <2>5
<1>3. ASSUME NEW name, ReadField(name)
      PROVE  /\ SyncsFollowed(eposRx', wire') /\ WholeSyncs(wire')
             /\ Head(eposRx).name = "sync" => HeadNext(eposRx', wire')
  <2>1. /\ Len(eposRx) > 0 /\ Len(eposRx') = Len(eposRx) - 1 /\ Head(eposRx) = eposRx[1]
        /\ \A i \in 1..(Len(eposRx) - 1) : eposRx'[i] = eposRx[i + 1]
    BY <1>3, TakenFields
  <2>2. wire' = wire /\ ~overrun
    BY <1>3 DEF ReadField
  <2>3. SyncsFollowed(eposRx, wire) /\ WholeSyncs(wire)
    BY <2>2 DEF HeadFollows
  <2>4. SyncsFollowed(eposRx', wire)
    <3> SUFFICES ASSUME NEW i \in 1..(Len(eposRx) - 1), eposRx[i + 1].name = "sync"
                 PROVE  /\ i # Len(eposRx) - 1 => eposRx'[i + 1].name = "head"
                        /\ i = Len(eposRx) - 1 => Len(wire) > 0 /\ wire[1].name = "head"
      BY <2>1 DEF SyncsFollowed
    <3>1. i + 1 \in 1..Len(eposRx) /\ (i = Len(eposRx) - 1 <=> i + 1 = Len(eposRx))
      BY <1>0
    <3>2. CASE i = Len(eposRx) - 1
      BY <2>3, <3>1, <3>2 DEF SyncsFollowed
    <3>3. CASE i # Len(eposRx) - 1
      <4>1. eposRx[i + 1 + 1].name = "head"
        BY <2>3, <3>1, <3>3 DEF SyncsFollowed
      <4>2. i + 1 \in 1..(Len(eposRx) - 1)
        BY <1>0, <3>3
      <4> QED
        BY <2>1, <4>1, <4>2, <3>3
    <3> QED
      BY <3>2, <3>3
  <2>5. eposRx[1].name = "sync" => HeadNext(eposRx', wire)
    <3> SUFFICES ASSUME eposRx[1].name = "sync"
                 PROVE  HeadNext(eposRx', wire)
      OBVIOUS
    <3>1. CASE Len(eposRx) = 1
      BY <1>0, <2>1, <2>3, <3>1 DEF SyncsFollowed, HeadNext
    <3>2. CASE Len(eposRx) # 1
      BY <1>0, <2>1, <2>3, <3>2 DEF SyncsFollowed, HeadNext
    <3> QED
      BY <3>1, <3>2
  <2> QED
    BY <2>1, <2>2, <2>3, <2>4, <2>5
<1>4. CASE ReadSync \/ ReadHeader \/ ReadBody
  <2>1. SyncsFollowed(eposRx', wire') /\ WholeSyncs(wire')
    BY <1>3, <1>4 DEF ReadSync, ReadHeader, ReadBody
  <2>2. stage' = "head" => ReadSync /\ Head(eposRx).name = "sync"
    BY <1>4 DEF ReadSync, ReadHeader, ReadBody, ReadField, Leave
  <2>3. ReadSync /\ Head(eposRx).name = "sync" => HeadNext(eposRx', wire')
    BY <1>3 DEF ReadSync
  <2> QED
    BY <2>1, <2>2, <2>3 DEF HeadFollows
<1>5. CASE ReadOverrun
  <2>1. Len(eposRx') = 0
    BY <1>5, EmptySeq DEF ReadOverrun
  <2>2. SyncsFollowed(eposRx', wire')
    BY <2>1 DEF SyncsFollowed
  <2> QED
    BY <1>5, <2>2 DEF ReadOverrun, Leave, HeadFollows
<1>6. CASE EposTimeout
  BY <1>6 DEF EposTimeout, Leave, HeadFollows
<1>7. CASE UNCHANGED eposVars
  BY <1>7 DEF eposVars, readerVars, HeadFollows
<1> QED
  BY <1>1, <1>2, <1>4, <1>5, <1>6, <1>7 DEF EposNext

-----------------------------------------------------------------------------
Heads(s) == {i \in 1..Len(s) : s[i].name = "head"}
HeadsRise(s) == \A i, j \in Heads(s) : i < j => s[i].of < s[j].of
HeadsBelow(s, t) == \A i \in Heads(s), j \in Heads(t) : s[i].of < t[j].of
HeadsAbove(s, n) == \A i \in Heads(s) : n < s[i].of

AnswerOrder ==
  /\ HeadsRise(eposRx) /\ HeadsRise(wire) /\ HeadsBelow(eposRx, wire)
  /\ accepted # NoVal => HeadsAbove(eposRx, accepted.answer) /\ HeadsAbove(wire, accepted.answer)
  /\ stage = "body" =>
       /\ HeadsAbove(eposRx, reading) /\ HeadsAbove(wire, reading)
       /\ accepted # NoVal => accepted.answer < reading

LEMMA NoHeads ==
  ASSUME NEW s, Len(s) = 0
  PROVE  HeadsRise(s) /\ (\A u : HeadsBelow(s, u)) /\ (\A n : HeadsAbove(s, n))
BY DEF Heads, HeadsRise, HeadsBelow, HeadsAbove

LEMMA TailHeads ==
  ASSUME NEW s, NEW t, Len(s) \in Nat, Len(s) > 0, Len(t) = Len(s) - 1,
         \A i \in 1..(Len(s) - 1) : t[i] = s[i + 1]
  PROVE  /\ HeadsRise(s) => HeadsRise(t)
         /\ \A u : HeadsBelow(s, u) => HeadsBelow(t, u)
         /\ \A u : HeadsBelow(u, s) => HeadsBelow(u, t)
         /\ \A n : HeadsAbove(s, n) => HeadsAbove(t, n)
         /\ HeadsRise(s) /\ s[1].name = "head" => HeadsAbove(t, s[1].of)
<1>1. ASSUME NEW i \in Heads(t)
      PROVE  i + 1 \in Heads(s) /\ t[i] = s[i + 1] /\ i \in Nat /\ 1 < i + 1
  BY <1>1 DEF Heads
<1>2. HeadsRise(s) => HeadsRise(t)
  <2> SUFFICES ASSUME HeadsRise(s), NEW i \in Heads(t), NEW j \in Heads(t), i < j
               PROVE  t[i].of < t[j].of
    BY DEF HeadsRise
  <2>1. i + 1 < j + 1
    BY <1>1
  <2> QED
    BY <1>1, <2>1 DEF HeadsRise
<1>3. (\A u : HeadsBelow(s, u) => HeadsBelow(t, u)) /\ (\A u : HeadsBelow(u, s) => HeadsBelow(u, t))
      /\ (\A n : HeadsAbove(s, n) => HeadsAbove(t, n))
  BY <1>1, Zenon DEF HeadsBelow, HeadsAbove
<1>4. ASSUME HeadsRise(s), s[1].name = "head"
      PROVE  HeadsAbove(t, s[1].of)
  <2>1. 1 \in Heads(s)
    BY <1>4 DEF Heads
  <2> QED
    BY <1>1, <1>4, <2>1 DEF HeadsRise, HeadsAbove
<1> QED
  BY <1>2, <1>3, <1>4

LEMMA ArrivalOrder ==
  ASSUME NEW s, NEW t, NEW w, NEW v, Len(s) \in Nat, Len(t) = Len(s) + 1,
         \A i \in 1..Len(s) : t[i] = s[i], t[Len(s) + 1] = w[1],
         Len(w) \in Nat, Len(w) > 0, Len(v) = Len(w) - 1,
         \A i \in 1..(Len(w) - 1) : v[i] = w[i + 1],
         HeadsRise(s), HeadsRise(w), HeadsBelow(s, w)
  PROVE  /\ HeadsRise(t) /\ HeadsRise(v) /\ HeadsBelow(t, v)
         /\ \A n : HeadsAbove(s, n) /\ HeadsAbove(w, n) => HeadsAbove(t, n) /\ HeadsAbove(v, n)
<1>1. /\ \A i \in Heads(t) : i \in Heads(s) \/ (i = Len(s) + 1 /\ 1 \in Heads(w))
      /\ \A i \in Heads(s) : t[i] = s[i] /\ i < Len(s) + 1 /\ ~(Len(s) + 1 < i)
      /\ t[Len(s) + 1] = w[1]
  BY DEF Heads
<1>2. ~(Len(s) + 1 < Len(s) + 1)
  OBVIOUS
<1>3. HeadsRise(v) /\ HeadsBelow(s, v) /\ (\A n : HeadsAbove(w, n) => HeadsAbove(v, n))
      /\ (1 \in Heads(w) => HeadsAbove(v, w[1].of))
  <2>1. 1 \in Heads(w) => w[1].name = "head"
    BY DEF Heads
  <2> QED
    BY <2>1, TailHeads
<1>4. HeadsRise(t)
  <2> SUFFICES ASSUME NEW i \in Heads(t), NEW j \in Heads(t), i < j
               PROVE  t[i].of < t[j].of
    BY DEF HeadsRise
  <2>1. CASE i \in Heads(s) /\ j \in Heads(s)
    BY <1>1, <2>1 DEF HeadsRise
  <2>2. CASE i \in Heads(s) /\ j = Len(s) + 1 /\ 1 \in Heads(w)
    BY <1>1, <2>2 DEF HeadsBelow
  <2>3. CASE i = Len(s) + 1
    BY <1>1, <1>2, <2>3
  <2> QED
    BY <1>1, <2>1, <2>2, <2>3
<1>5. HeadsBelow(t, v)
  BY <1>1, <1>3, Zenon DEF HeadsBelow, HeadsAbove
<1>6. ASSUME NEW n, HeadsAbove(s, n), HeadsAbove(w, n)
      PROVE  HeadsAbove(t, n)
  BY <1>1, <1>6, Zenon DEF HeadsAbove
<1> QED
  BY <1>3, <1>4, <1>5, <1>6

LEMMA RequestOrder ==
  ASSUME NEW s, NEW t, NEW n \in Nat, NEW b \in Nat,
         Len(s) \in Nat, Len(t) = Len(s) + b + 2,
         \A i \in 1..Len(s) : t[i] = s[i] /\ s[i].of \in 1..n,
         \A i \in 1..(b + 2) :
           t[Len(s) + i] =
             [name |-> IF i = 1 THEN "sync" ELSE IF i = 2 THEN "head" ELSE "body", of |-> n + 1],
         HeadsRise(s)
  PROVE  /\ HeadsRise(t)
         /\ \A m \in 1..n : HeadsAbove(s, m) => HeadsAbove(t, m)
         /\ \A u : HeadsBelow(u, s) /\ (\A i \in 1..Len(u) : u[i].of \in 1..n) => HeadsBelow(u, t)
<1>1. ASSUME NEW i \in Heads(t)
      PROVE  \/ i \in Heads(s) /\ t[i] = s[i] /\ s[i].of \in 1..n
             \/ i = Len(s) + 2 /\ t[i].of = n + 1
  <2>1. i \in 1..(Len(s) + b + 2) /\ t[i].name = "head"
    BY <1>1 DEF Heads
  <2>2. CASE i <= Len(s)
    BY <2>1, <2>2 DEF Heads
  <2>3. CASE i > Len(s)
    <3>1. PICK j \in 1..(b + 2) : i = Len(s) + j
      <4>1. i - Len(s) \in 1..(b + 2) /\ i = Len(s) + (i - Len(s))
        BY <2>1, <2>3
      <4> QED
        BY <4>1
    <3>2. t[Len(s) + j] =
             [name |-> IF j = 1 THEN "sync" ELSE IF j = 2 THEN "head" ELSE "body", of |-> n + 1]
      OBVIOUS
    <3>3. j = 2 /\ t[i].of = n + 1
      BY <2>1, <3>1, <3>2
    <3> QED
      BY <3>1, <3>3
  <2> QED
    BY <2>1, <2>2, <2>3
<1>2. \A i \in Heads(s) : i < Len(s) + 2 /\ ~(Len(s) + 2 < i)
  BY DEF Heads
<1>3. HeadsRise(t)
  <2> SUFFICES ASSUME NEW i \in Heads(t), NEW j \in Heads(t), i < j
               PROVE  t[i].of < t[j].of
    BY DEF HeadsRise
  <2>1. CASE i \in Heads(s) /\ t[i] = s[i] /\ s[i].of \in 1..n
    <3>1. CASE j \in Heads(s) /\ t[j] = s[j]
      BY <2>1, <3>1 DEF HeadsRise
    <3>2. CASE t[j].of = n + 1
      BY <2>1, <3>2
    <3> QED
      BY <1>1, <3>1, <3>2
  <2>2. CASE i = Len(s) + 2
    <3>1. j = Len(s) + 2 \/ j < Len(s) + 2
      BY <1>1, <1>2
    <3> QED
      BY <1>1, <1>2, <2>2, <3>1
  <2> QED
    BY <1>1, <2>1, <2>2
<1>4. ASSUME NEW m \in 1..n, HeadsAbove(s, m), NEW i \in Heads(t)
      PROVE  m < t[i].of
  BY <1>1, <1>4 DEF HeadsAbove
<1>5. ASSUME NEW u, HeadsBelow(u, s), \A i \in 1..Len(u) : u[i].of \in 1..n,
             NEW i \in Heads(u), NEW j \in Heads(t)
      PROVE  u[i].of < t[j].of
  <2>1. u[i].of \in 1..n
    BY <1>5 DEF Heads
  <2>2. CASE j \in Heads(s) /\ t[j] = s[j]
    BY <1>5, <2>2 DEF HeadsBelow
  <2>3. CASE t[j].of = n + 1
    BY <2>1, <2>3
  <2> QED
    BY <1>1, <2>2, <2>3
<1> QED
  BY <1>3, <1>4, <1>5 DEF HeadsAbove, HeadsBelow

\* Whatever is read, times out or overruns, what is left keeps the order.
LEMMA AnswerOrderStep == EposType /\ HeadFollows /\ AnswerOrder /\ [EposNext]_eposVars => AnswerOrder'
<1> SUFFICES ASSUME EposType, HeadFollows, AnswerOrder, [EposNext]_eposVars
             PROVE  AnswerOrder'
  OBVIOUS
<1>0. Len(kinds) \in Nat /\ Len(wire) \in Nat /\ Len(eposRx) \in Nat
  BY LenProperties DEF EposType
<1>1. ASSUME NEW kind \in Kind, EposRequest(kind)
      PROVE  AnswerOrder'
  <2>1. /\ eposRx' = eposRx /\ stage' = stage /\ accepted' = accepted /\ stage # "body"
    BY <1>1 DEF EposRequest, readerVars, EposType
  <2>2. /\ HeadsRise(wire') /\ HeadsBelow(eposRx, wire')
        /\ \A m \in 1..Len(kinds) : HeadsAbove(wire, m) => HeadsAbove(wire', m)
    <3>1. CASE wire' = wire
      BY <3>1 DEF AnswerOrder
    <3>2. CASE wire' # wire
      <4>1. BodyFields(kind) \in Nat
        BY DEF BodyFields
      <4>2. /\ Len(wire') = Len(wire) + BodyFields(kind) + 2
            /\ \A i \in 1..Len(wire) : wire'[i] = wire[i] /\ wire[i].of \in 1..Len(kinds)
            /\ \A i \in 1..(BodyFields(kind) + 2) :
                 wire'[Len(wire) + i] =
                   [name |-> IF i = 1 THEN "sync" ELSE IF i = 2 THEN "head" ELSE "body",
                    of |-> Len(kinds) + 1]
        BY <1>1, <3>2, RequestFields DEF EposType
      <4>3. HeadsRise(wire) /\ HeadsBelow(eposRx, wire) /\ \A i \in 1..Len(eposRx) : eposRx[i].of \in 1..Len(kinds)
        BY DEF AnswerOrder, EposType
      <4> QED
        BY <1>0, <4>1, <4>2, <4>3, RequestOrder
    <3> QED
      BY <3>1, <3>2
  <2>3. accepted # NoVal => accepted.answer \in 1..Len(kinds)
    BY DEF EposType
  <2> QED
    BY <2>1, <2>2, <2>3 DEF AnswerOrder
<1>2. CASE AnswerArrives
  <2>1. /\ Len(wire) > 0 /\ Len(wire') = Len(wire) - 1
        /\ \A i \in 1..(Len(wire) - 1) : wire'[i] = wire[i + 1]
    BY <1>2, ArrivalFields
  <2>2. stage' = stage /\ reading' = reading /\ accepted' = accepted
    BY <1>2 DEF AnswerArrives, readerVars
  <2>3. CASE eposRx' = eposRx
    BY <1>0, <2>1, <2>2, <2>3, TailHeads DEF AnswerOrder
  <2>4. CASE eposRx' # eposRx
    <3>1. /\ Len(eposRx') = Len(eposRx) + 1 /\ eposRx'[Len(eposRx) + 1] = wire[1]
          /\ \A i \in 1..Len(eposRx) : eposRx'[i] = eposRx[i]
      BY <1>2, <2>4, ArrivalFields
    <3>2. HeadsRise(eposRx) /\ HeadsRise(wire) /\ HeadsBelow(eposRx, wire)
      BY DEF AnswerOrder
    <3>3. /\ HeadsRise(eposRx') /\ HeadsRise(wire') /\ HeadsBelow(eposRx', wire')
          /\ \A n : HeadsAbove(eposRx, n) /\ HeadsAbove(wire, n) =>
                HeadsAbove(eposRx', n) /\ HeadsAbove(wire', n)
      BY <1>0, <2>1, <3>1, <3>2, ArrivalOrder
    <3> QED
      BY <2>2, <3>3 DEF AnswerOrder
  <2> QED
    BY <2>3, <2>4
<1>3. ASSUME NEW name, ReadField(name)
      PROVE  /\ HeadsRise(eposRx') /\ HeadsRise(wire') /\ HeadsBelow(eposRx', wire')
             /\ \A n : HeadsAbove(eposRx, n) => HeadsAbove(eposRx', n)
             /\ wire' = wire /\ stage = name
             /\ eposRx[1].name = "head" =>
                  /\ HeadsAbove(eposRx', Head(eposRx).of) /\ HeadsAbove(wire, Head(eposRx).of)
                  /\ accepted # NoVal => accepted.answer < Head(eposRx).of
  <2>1. /\ Len(eposRx) > 0 /\ Len(eposRx') = Len(eposRx) - 1 /\ Head(eposRx) = eposRx[1]
        /\ \A i \in 1..(Len(eposRx) - 1) : eposRx'[i] = eposRx[i + 1]
    BY <1>3, TakenFields
  <2>2. eposRx[1].name = "head" => 1 \in Heads(eposRx)
    BY <1>0, <2>1 DEF Heads
  <2>3. wire' = wire /\ stage = name
    BY <1>3 DEF ReadField
  <2> QED
    BY <1>0, <2>1, <2>2, <2>3, TailHeads DEF AnswerOrder, HeadsBelow, HeadsAbove
<1>4. CASE ReadSync
  BY <1>3, <1>4 DEF ReadSync, Leave, AnswerOrder
<1>5. CASE ReadHeader
  <2>1. ReadField("head") /\ accepted' = accepted
    BY <1>5 DEF ReadHeader
  <2>2. Len(eposRx) > 0 /\ Head(eposRx) = eposRx[1]
    BY <2>1, TakenFields
  <2>3. eposRx[1].name = "head"
    BY <1>0, <2>1, <2>2 DEF HeadFollows, ReadField, HeadNext
  <2>4. stage' = "body" => reading' = Head(eposRx).of
    BY <1>5 DEF ReadHeader, Leave
  <2> QED
    BY <1>3, <2>1, <2>3, <2>4 DEF AnswerOrder
<1>6. CASE ReadBody
  <2>1. ReadField("body") /\ stage = "body"
    BY <1>6 DEF ReadBody, ReadField
  <2>2. CASE left > 1
    BY <1>3, <1>6, <2>1, <2>2 DEF ReadBody, AnswerOrder
  <2>3. CASE ~(left > 1)
    <3>1. stage' = "sync"
      BY <1>6, <2>3 DEF ReadBody, Leave
    <3>2. CASE accepted' = accepted
      BY <1>3, <2>1, <3>1, <3>2 DEF AnswerOrder
    <3>3. CASE accepted' = [request |-> Len(kinds), answer |-> reading]
      <4>1. accepted'.answer = reading
        BY <3>3
      <4> QED
        BY <1>3, <2>1, <3>1, <4>1 DEF AnswerOrder
    <3> QED
      BY <1>6, <2>3, <3>2, <3>3 DEF ReadBody
  <2> QED
    BY <2>2, <2>3
<1>7. CASE ReadOverrun
  <2>1. Len(eposRx') = 0
    BY <1>7, EmptySeq DEF ReadOverrun
  <2> QED
    BY <1>7, <2>1, NoHeads DEF ReadOverrun, Leave, AnswerOrder
<1>8. CASE EposTimeout
  BY <1>8 DEF EposTimeout, Leave, AnswerOrder
<1>9. CASE UNCHANGED eposVars
  BY <1>9 DEF eposVars, readerVars, AnswerOrder
<1> QED
  BY <1>1, <1>2, <1>4, <1>5, <1>6, <1>7, <1>8, <1>9 DEF EposNext

LEMMA InitAnswers == EposInit => HeadFollows /\ AnswerOrder
<1> SUFFICES ASSUME EposInit
             PROVE  HeadFollows /\ AnswerOrder
  OBVIOUS
<1>1. Len(wire) = 0 /\ Len(eposRx) = 0 /\ stage = "sync" /\ accepted = NoVal
  BY EmptySeq DEF EposInit
<1> QED
  BY <1>1, NoHeads DEF HeadFollows, WholeSyncs, SyncsFollowed, AnswerOrder

\* Whatever timed out or overran, no answer counts twice and none overtakes another
\* (Epos4::read_uart_data_or_interrupt).
THEOREM OrderedAnswers == EposSpec => AnswersInOrder
<1>1. EposSpec => [](EposType /\ HeadFollows /\ AnswerOrder)
  BY EposTypes, EposTypeStep, InitAnswers, HeadFollowsStep, AnswerOrderStep, PTL DEF EposSpec
<1>2. AnswerOrder /\ EposNext =>
        (accepted # NoVal /\ accepted' # accepted => accepted'.answer > accepted.answer)
  <2> SUFFICES ASSUME AnswerOrder, EposNext, accepted # NoVal, accepted' # accepted
               PROVE  accepted'.answer > accepted.answer
    OBVIOUS
  <2>1. stage = "body" /\ accepted' = [request |-> Len(kinds), answer |-> reading]
    BY DEF EposNext, EposRequest, AnswerArrives, ReadSync, ReadHeader, ReadBody, ReadField, ReadOverrun,
           EposTimeout
  <2>2. accepted.answer < reading
    BY <2>1 DEF AnswerOrder
  <2> QED
    BY <2>1, <2>2
<1> QED
  BY <1>1, <1>2, PTL DEF EposSpec, AnswersInOrder

-----------------------------------------------------------------------------
Remaining == Len(eposRx) + Len(wire)

\* The field that d others follow in the answer to the last request.
FieldBefore(f, d) ==
  /\ f.of = Len(kinds)
  /\ d < ExpectedLength => f.name = "body"
  /\ d = ExpectedLength => f.name = "head"
  /\ d = ExpectedLength + 1 => f.name = "sync"

\* As long as nothing has timed out, what is left is the end of the answer that is being read.
Aligned ==
  /\ ~overrun
  /\ ~asking => Remaining = 0
  /\ Remaining <= ExpectedLength + 2
  /\ \A i \in 1..Len(eposRx) : FieldBefore(eposRx[i], Remaining - i)
  /\ \A i \in 1..Len(wire) : FieldBefore(wire[i], Len(wire) - i)
  /\ stage = "sync" => Remaining \in {0, ExpectedLength + 2}
  /\ stage = "head" => Remaining = ExpectedLength + 1
  /\ stage = "body" => Remaining = left /\ left > 0 /\ left <= ExpectedLength /\ reading = Len(kinds)
  /\ accepted # NoVal => accepted.answer = accepted.request

ShapeInv ==
  /\ stage = "body" => BodyFields(kinds[reading]) = ExpectedLength
  /\ accepted # NoVal => kinds[accepted.answer] = kinds[accepted.request]
  /\ timeouts = 0 => Aligned

LEMMA InitShape == EposInit => ShapeInv
<1> SUFFICES ASSUME EposInit
             PROVE  ShapeInv
  OBVIOUS
<1>1. Len(wire) = 0 /\ Len(eposRx) = 0 /\ stage = "sync" /\ accepted = NoVal /\ overrun = FALSE
  BY EmptySeq DEF EposInit
<1>2. ExpectedLength \in {2, 3}
  BY DEF ExpectedLength, BodyFields
<1> QED
  BY <1>1, <1>2 DEF ShapeInv, Aligned, Remaining

LEMMA ShapeStep == EposType /\ ShapeInv /\ [EposNext]_eposVars => ShapeInv'
<1> SUFFICES ASSUME EposType, ShapeInv, [EposNext]_eposVars
             PROVE  ShapeInv'
  OBVIOUS
<1>0. /\ Len(kinds) \in Nat /\ Len(wire) \in Nat /\ Len(eposRx) \in Nat
      /\ ExpectedLength \in {2, 3} /\ left \in Nat
  BY LenProperties DEF EposType, ExpectedLength, BodyFields
<1>1. ASSUME NEW kind \in Kind, EposRequest(kind)
      PROVE  ShapeInv'
  <2>1. /\ eposRx' = eposRx /\ stage' = "sync" /\ asking = FALSE /\ asking' = TRUE /\ accepted' = accepted
        /\ timeouts' = timeouts /\ overrun' = overrun
    BY <1>1 DEF EposRequest, readerVars, counters, EposType
  <2>2. accepted # NoVal => accepted.answer \in 1..Len(kinds) /\ accepted.request \in 1..Len(kinds)
    BY DEF EposType
  <2>3. Len(kinds') = Len(kinds) + 1 /\ (\A i \in 1..Len(kinds) : kinds'[i] = kinds[i])
        /\ kinds'[Len(kinds) + 1] = kind
    BY <1>1, RequestFields
  <2>4. ExpectedLength' = BodyFields(kind) /\ BodyFields(kind) \in {2, 3}
    BY <2>3 DEF ExpectedLength, BodyFields
  <2>5. ASSUME timeouts = 0
        PROVE  Aligned'
    <3>1. Len(wire) = 0 /\ Len(eposRx) = 0 /\ ~overrun /\ (accepted # NoVal => accepted.answer = accepted.request)
      BY <1>0, <2>1, <2>5 DEF ShapeInv, Aligned, Remaining
    <3>2. CASE wire' = wire
      BY <1>0, <2>1, <2>4, <3>1, <3>2 DEF Aligned, Remaining
    <3>3. CASE wire' # wire
      <4>1. /\ Len(wire') = BodyFields(kind) + 2
            /\ \A i \in 1..(BodyFields(kind) + 2) :
                 wire'[i] = [name |-> IF i = 1 THEN "sync" ELSE IF i = 2 THEN "head" ELSE "body",
                             of |-> Len(kinds) + 1]
        BY <1>1, <2>4, <3>1, <3>3, RequestFields
      <4>2. ASSUME NEW i \in 1..(BodyFields(kind) + 2)
            PROVE  FieldBefore(wire[i], Len(wire) - i)'
        <5>1. /\ wire'[i].of = Len(kinds) + 1
              /\ i = 1 => wire'[i].name = "sync"
              /\ i = 2 => wire'[i].name = "head"
              /\ i > 2 => wire'[i].name = "body"
          BY <4>1
        <5> QED
          BY <2>3, <2>4, <4>1, <5>1 DEF FieldBefore
      <4>3. Remaining' = ExpectedLength' + 2
        BY <2>1, <2>4, <3>1, <4>1 DEF Remaining
      <4> QED
        BY <2>1, <2>4, <3>1, <4>1, <4>2, <4>3 DEF Aligned
    <3> QED
      BY <3>2, <3>3
  <2> QED
    BY <2>1, <2>2, <2>3, <2>5 DEF ShapeInv
<1>2. CASE AnswerArrives
  <2>1. /\ Len(wire) > 0 /\ Len(wire') = Len(wire) - 1
        /\ \A i \in 1..(Len(wire) - 1) : wire'[i] = wire[i + 1]
    BY <1>2, ArrivalFields
  <2>2. /\ kinds' = kinds /\ asking' = asking /\ stage' = stage /\ left' = left /\ reading' = reading
        /\ accepted' = accepted /\ timeouts' = timeouts
    BY <1>2 DEF AnswerArrives, readerVars, counters
  <2>3. ASSUME timeouts = 0
        PROVE  Aligned'
    <3>1. Aligned
      BY <2>3 DEF ShapeInv
    <3>2. Len(eposRx) < Capacity
      BY <1>0, <2>1, <3>1, LinkAssumption DEF Aligned, Remaining
    <3>3. /\ Len(eposRx') = Len(eposRx) + 1 /\ overrun' = overrun
          /\ \A i \in 1..Len(eposRx) : eposRx'[i] = eposRx[i]
          /\ eposRx'[Len(eposRx) + 1] = wire[1]
      <4>1. ~(Len(eposRx) >= Capacity)
        BY <1>0, <3>2, LinkAssumption
      <4> QED
        BY <1>2, <4>1, ArrivalFields
    <3>4. Remaining' = Remaining /\ ExpectedLength' = ExpectedLength
      BY <1>0, <2>1, <2>2, <3>3 DEF Remaining, ExpectedLength
    <3>5. \A i \in 1..Len(eposRx') : FieldBefore(eposRx[i], Remaining - i)'
      <4> SUFFICES ASSUME NEW i \in 1..(Len(eposRx) + 1)
                   PROVE  FieldBefore(eposRx[i], Remaining - i)'
        BY <3>3
      <4>1. CASE i \in 1..Len(eposRx)
        BY <2>2, <3>1, <3>3, <3>4, <4>1 DEF Aligned, FieldBefore
      <4>2. CASE i = Len(eposRx) + 1
        <5>1. FieldBefore(wire[1], Len(wire) - 1)
          BY <1>0, <2>1, <3>1 DEF Aligned
        <5>2. Remaining - i = Len(wire) - 1
          BY <1>0, <4>2 DEF Remaining
        <5> QED
          BY <2>2, <3>3, <3>4, <4>2, <5>1, <5>2 DEF FieldBefore
      <4> QED
        BY <1>0, <4>1, <4>2
    <3>6. \A i \in 1..Len(wire') : FieldBefore(wire[i], Len(wire) - i)'
      <4> SUFFICES ASSUME NEW i \in 1..(Len(wire) - 1)
                   PROVE  FieldBefore(wire[i], Len(wire) - i)'
        BY <2>1
      <4>1. FieldBefore(wire[i + 1], Len(wire) - (i + 1)) /\ Len(wire) - (i + 1) = Len(wire') - i
        BY <1>0, <2>1, <3>1 DEF Aligned
      <4> QED
        BY <2>1, <2>2, <3>4, <4>1 DEF FieldBefore
    <3> QED
      BY <2>2, <3>1, <3>3, <3>4, <3>5, <3>6 DEF Aligned
  <2> QED
    BY <2>2, <2>3 DEF ShapeInv, ExpectedLength
<1>3. ASSUME NEW name, ReadField(name)
      PROVE  /\ stage = name /\ asking
             /\ kinds' = kinds /\ timeouts' = timeouts /\ overrun' = overrun
             /\ ExpectedLength' = ExpectedLength /\ Remaining' = Remaining - 1 /\ Remaining > 0
             /\ Remaining \in Nat
             /\ Aligned =>
                  /\ FieldBefore(Head(eposRx), Remaining - 1)
                  /\ \A i \in 1..Len(eposRx') : FieldBefore(eposRx[i], Remaining - i)'
                  /\ \A i \in 1..Len(wire') : FieldBefore(wire[i], Len(wire) - i)'
  <2>1. /\ Len(eposRx) > 0 /\ Len(eposRx') = Len(eposRx) - 1 /\ Head(eposRx) = eposRx[1]
        /\ \A i \in 1..(Len(eposRx) - 1) : eposRx'[i] = eposRx[i + 1]
    BY <1>3, TakenFields
  <2>2. /\ kinds' = kinds /\ timeouts' = timeouts /\ wire' = wire /\ stage = name /\ asking
        /\ overrun' = overrun
    BY <1>3 DEF ReadField, counters
  <2>3. ExpectedLength' = ExpectedLength /\ Remaining' = Remaining - 1 /\ Remaining > 0 /\ Remaining \in Nat
    BY <1>0, <2>1, <2>2 DEF ExpectedLength, Remaining
  <2>4. ASSUME Aligned
        PROVE  FieldBefore(Head(eposRx), Remaining - 1)
    <3>1. 1 \in 1..Len(eposRx)
      BY <1>0, <2>1
    <3> QED
      BY <2>1, <2>4, <3>1 DEF Aligned
  <2>5. ASSUME Aligned, NEW i \in 1..(Len(eposRx) - 1)
        PROVE  FieldBefore(eposRx[i], Remaining - i)'
    <3>1. FieldBefore(eposRx[i + 1], Remaining - (i + 1)) /\ Remaining - (i + 1) = Remaining' - i
      <4>1. i + 1 \in 1..Len(eposRx) /\ Remaining - (i + 1) = (Remaining - 1) - i
        BY <1>0, <2>3
      <4> QED
        BY <2>3, <2>5, <4>1 DEF Aligned
    <3> QED
      BY <2>1, <2>2, <2>3, <2>5, <3>1 DEF FieldBefore
  <2>6. ASSUME Aligned, NEW i \in 1..Len(wire)
        PROVE  FieldBefore(wire[i], Len(wire) - i)'
    BY <2>2, <2>3, <2>6 DEF Aligned, FieldBefore
  <2> QED
    BY <2>1, <2>2, <2>3, <2>4, <2>5, <2>6
<1>4. CASE ReadSync
  <2>1. ReadField("sync") /\ accepted' = accepted
    BY <1>4 DEF ReadSync
  <2>2. ASSUME Aligned
        PROVE  Aligned'
    <3>1. Remaining = ExpectedLength + 2
      BY <1>3, <2>1, <2>2 DEF Aligned
    <3>2. Head(eposRx).name = "sync"
      BY <1>0, <1>3, <2>1, <2>2, <3>1 DEF FieldBefore
    <3>3. stage' = "head" /\ asking' = asking
      BY <1>4, <3>2 DEF ReadSync
    <3> QED
      BY <1>0, <1>3, <2>1, <2>2, <3>1, <3>3 DEF Aligned
  <2>3. stage' # "body"
    BY <1>4 DEF ReadSync, Leave
  <2> QED
    BY <1>3, <2>1, <2>2, <2>3 DEF ShapeInv
<1>5. CASE ReadHeader
  <2>1. ReadField("head") /\ accepted' = accepted
    BY <1>5 DEF ReadHeader
  <2>2. stage' = "body" => BodyFields(kinds[reading']) = ExpectedLength
    BY <1>5 DEF ReadHeader, Leave
  <2>3. ASSUME Aligned
        PROVE  Aligned'
    <3>1. Remaining = ExpectedLength + 1 /\ Head(eposRx).of = Len(kinds)
      BY <1>3, <2>1, <2>3 DEF Aligned, FieldBefore
    <3>2. stage' = "body" /\ left' = ExpectedLength /\ reading' = Len(kinds) /\ asking' = asking
      BY <1>5, <3>1 DEF ReadHeader, ExpectedLength
    <3> QED
      BY <1>0, <1>3, <2>1, <2>3, <3>1, <3>2 DEF Aligned
  <2> QED
    BY <1>3, <2>1, <2>2, <2>3 DEF ShapeInv
<1>6. CASE ReadBody
  <2>1. ReadField("body") /\ stage = "body"
    BY <1>6 DEF ReadBody, ReadField
  <2>2. CASE left > 1
    <3>1. stage' = "body" /\ reading' = reading /\ accepted' = accepted /\ asking' = asking /\ left' = left - 1
      BY <1>6, <2>1, <2>2 DEF ReadBody
    <3>2. ASSUME Aligned
          PROVE  Aligned'
      <4>1. Remaining = left /\ left > 0 /\ left <= ExpectedLength /\ reading = Len(kinds)
        BY <2>1, <3>2 DEF Aligned
      <4>2. Remaining - 1 = left - 1 /\ left - 1 > 0 /\ left - 1 <= ExpectedLength
            /\ Remaining - 1 <= ExpectedLength + 2
        BY <1>0, <2>2, <4>1
      <4> QED
        BY <1>3, <2>1, <3>1, <3>2, <4>1, <4>2 DEF Aligned
    <3> QED
      BY <1>3, <2>1, <3>1, <3>2 DEF ShapeInv
  <2>3. CASE ~(left > 1)
    <3>1. stage' = "sync" /\ asking' = FALSE
      BY <1>6, <2>3 DEF ReadBody, Leave
    <3>2. kinds[reading] = kinds[Len(kinds)]
      <4>1. reading \in 1..Len(kinds) /\ Len(kinds) \in 1..Len(kinds)
        BY <1>0, <2>1 DEF EposType
      <4>2. kinds[reading] \in Kind /\ kinds[Len(kinds)] \in Kind
        BY <4>1, ElementOfSeq DEF EposType
      <4>3. BodyFields(kinds[reading]) = BodyFields(kinds[Len(kinds)])
        BY <2>1 DEF ShapeInv, ExpectedLength
      <4> QED
        BY <4>2, <4>3 DEF Kind, BodyFields
    <3>3. accepted' = accepted \/ (accepted'.request = Len(kinds) /\ accepted'.answer = reading)
      <4>1. accepted' = accepted \/ accepted' = [request |-> Len(kinds), answer |-> reading]
        BY <1>6, <2>3 DEF ReadBody
      <4> QED
        BY <4>1
    <3>4. ASSUME Aligned
          PROVE  Aligned'
      <4>1. Remaining = 1 /\ reading = Len(kinds)
        BY <1>0, <2>1, <2>3, <3>4 DEF Aligned
      <4> QED
        BY <1>0, <1>3, <2>1, <3>1, <3>3, <3>4, <4>1 DEF Aligned
    <3> QED
      BY <1>3, <2>1, <3>1, <3>2, <3>3, <3>4 DEF ShapeInv
  <2> QED
    BY <2>2, <2>3
<1>7. CASE ReadOverrun
  BY <1>7 DEF ReadOverrun, Leave, ShapeInv, Aligned, counters
<1>8. CASE EposTimeout
  <2>1. timeouts' # 0
    BY <1>8 DEF EposTimeout, EposType
  <2> QED
    BY <1>8, <2>1 DEF EposTimeout, Leave, ShapeInv
<1>9. CASE UNCHANGED eposVars
  BY <1>9 DEF eposVars, readerVars, counters, ShapeInv, Aligned, Remaining, FieldBefore, ExpectedLength
<1> QED
  BY <1>1, <1>2, <1>4, <1>5, <1>6, <1>7, <1>8, <1>9 DEF EposNext

\* A read never takes the answer of a write for data, and as long as nothing has timed out an answer
\* is its request's and nothing is left behind (read_response_frame).
THEOREM ShapesMatch == EposSpec => []ShapeMatches
<1>1. EposType /\ ShapeInv => ShapeMatches
  <2> SUFFICES ASSUME EposType, ShapeInv, timeouts = 0, ~asking
               PROVE  wire = <<>> /\ eposRx = <<>>
    BY DEF ShapeInv, Aligned, ShapeMatches
  <2>1. Len(wire) \in Nat /\ Len(eposRx) \in Nat
    BY LenProperties DEF EposType
  <2>2. Len(wire) = 0 /\ Len(eposRx) = 0
    BY <2>1 DEF ShapeInv, Aligned, Remaining
  <2> QED
    BY <2>2, EmptySeq DEF EposType
<1> QED
  BY <1>1, EposTypes, EposTypeStep, InitShape, ShapeStep, PTL DEF EposSpec

-----------------------------------------------------------------------------
(* The servo bus                                                           *)

Bytes == [n : Nat, kind : {"read", "write", "junk"}, i : Nat, good : BOOLEAN]

LinkType ==
    /\ asked \in [n : Nat, side : Side, kind : Request]
    /\ rx \in Seq(Bytes) /\ awaited \in Seq(Bytes) /\ got \in Seq(Bytes)

InRequest == phase \in {"read", "clear"}

\* A request that is written while nothing is late finds an empty line.
QuietLine == phase = "idle" /\ ~late => Len(rx) = 0 /\ Len(awaited) = 0

\* Then every byte it reads is of its own answer.
OfRequest(s) == \A i \in 1..Len(s) : s[i].n = asked.n
OwnBytes == InRequest /\ ~stale => OfRequest(got) /\ OfRequest(rx) /\ OfRequest(awaited)

\* As long as nothing goes wrong, what is read, what waits and what is on its way is the answer.
AnswerByte(i) == Byte(asked.n, asked.kind, i, TRUE)
WholeAnswer ==
    InRequest /\ ~excused =>
        /\ listening
        /\ Len(got) + Len(rx) + Len(awaited) = FrameLen(asked.kind)
        /\ \A i \in 1..Len(got) : got[i] = AnswerByte(i)
        /\ \A i \in 1..Len(rx) : rx[i] = AnswerByte(Len(got) + i)
        /\ \A i \in 1..Len(awaited) : awaited[i] = AnswerByte(Len(got) + Len(rx) + i)

LinkInv ==
    /\ LinkType /\ QuietLine /\ OwnBytes /\ WholeAnswer
    /\ phase = "clear" => Len(got) = FrameLen(asked.kind)
    /\ ~InRequest => OwnAnswer /\ AnswerTaken

LEMMA FrameBytes ==
    ASSUME NEW n \in Nat, NEW kind \in Request
    PROVE  /\ FrameLen(kind) \in Nat \ {0} /\ HeaderLen \in 1..FrameLen(kind)
           /\ Frame(n, kind) \in Seq(Bytes) /\ Len(Frame(n, kind)) = FrameLen(kind)
           /\ \A i \in 1..FrameLen(kind) : Frame(n, kind)[i] = Byte(n, kind, i, TRUE)
<1>1. FrameLen(kind) \in Nat \ {0} /\ HeaderLen \in 1..FrameLen(kind)
    <2>1. HeaderLen \in Nat \ {0} /\ DataLen \in Nat
        BY RsblAssumption
    <2>2. CASE kind = "read"
        BY <2>1, <2>2 DEF FrameLen
    <2>3. CASE kind # "read"
        BY <2>1, <2>3 DEF FrameLen
    <2> QED
        BY <2>2, <2>3
<1>2. \A i \in 1..FrameLen(kind) : Byte(n, kind, i, TRUE) \in Bytes
    BY <1>1 DEF Byte, Bytes, Request
<1>3. Frame(n, kind) \in [1..FrameLen(kind) -> Bytes]
    BY <1>2 DEF Frame
<1>4. Frame(n, kind) \in Seq(Bytes)
    BY <1>1, <1>3, SeqDef
<1>5. DOMAIN Frame(n, kind) = 1..FrameLen(kind) /\ DOMAIN Frame(n, kind) = 1..Len(Frame(n, kind))
      /\ Len(Frame(n, kind)) \in Nat
    BY <1>3, <1>4, LenProperties
<1>6. \A i \in 1..FrameLen(kind) : Frame(n, kind)[i] = Byte(n, kind, i, TRUE)
    BY DEF Frame
<1>7. Len(Frame(n, kind)) = FrameLen(kind)
    BY <1>1, <1>5
<1> QED
    BY <1>1, <1>4, <1>6, <1>7

LEMMA BadByte ==
    ASSUME NEW b \in Bytes
    PROVE  [b EXCEPT !.good = FALSE] \in Bytes /\ [b EXCEPT !.good = FALSE].n = b.n
BY DEF Bytes

\* What the motor puts on the line when it is asked: its answer, one it cannot be told from, none.
LEMMA AskedBytes ==
    ASSUME LinkType, NEW side \in Side, NEW kind \in Request, WriteToServo(side, kind)
    PROVE  /\ awaited' \in Seq(Bytes)
           /\ Len(awaited) = 0 => \A i \in 1..Len(awaited') : awaited'[i].n = asked.n + 1
           /\ late => excused'
           /\ ~excused' /\ Len(awaited) = 0 =>
                /\ Len(awaited') = FrameLen(kind)
                /\ \A i \in 1..FrameLen(kind) : awaited'[i] = Byte(asked.n + 1, kind, i, TRUE)
<1> DEFINE whole == Frame(asked.n + 1, kind)
           faulty == [whole EXCEPT ![HeaderLen].good = FALSE]
<1>1. asked.n + 1 \in Nat /\ awaited \in Seq(Bytes) /\ Len(awaited) \in Nat
    BY LenProperties DEF LinkType
<1>2. /\ FrameLen(kind) \in Nat \ {0} /\ HeaderLen \in 1..FrameLen(kind)
      /\ whole \in Seq(Bytes) /\ Len(whole) = FrameLen(kind)
      /\ \A i \in 1..FrameLen(kind) : whole[i] = Byte(asked.n + 1, kind, i, TRUE)
    BY <1>1, FrameBytes
<1>3. /\ faulty \in Seq(Bytes) /\ Len(faulty) = FrameLen(kind)
      /\ \A i \in 1..FrameLen(kind) : faulty[i].n = asked.n + 1
    <2> DEFINE byte == [whole[HeaderLen] EXCEPT !.good = FALSE]
    <2>1. byte \in Bytes /\ byte.n = asked.n + 1
        <3>1. whole[HeaderLen] = Byte(asked.n + 1, kind, HeaderLen, TRUE)
            BY <1>2
        <3>2. whole[HeaderLen] \in Bytes
            BY <1>2, ElementOfSeq
        <3>3. whole[HeaderLen].n = asked.n + 1
            BY <3>1 DEF Byte
        <3> QED
            BY <3>2, <3>3, BadByte
    <2>2. faulty = [whole EXCEPT ![HeaderLen] = byte]
        OBVIOUS
    <2> HIDE DEF whole, byte
    <2>3. /\ [whole EXCEPT ![HeaderLen] = byte] \in Seq(Bytes)
          /\ Len([whole EXCEPT ![HeaderLen] = byte]) = Len(whole)
          /\ \A j \in 1..Len(whole) :
                [whole EXCEPT ![HeaderLen] = byte][j] = IF j = HeaderLen THEN byte ELSE whole[j]
        BY <1>2, <2>1, ExceptSeq
    <2>4. \A i \in 1..FrameLen(kind) : whole[i].n = asked.n + 1
        BY <1>2 DEF Byte
    <2> HIDE DEF faulty
    <2> QED
        BY <1>2, <2>1, <2>2, <2>3, <2>4
<1>4. ASSUME NEW s \in Seq(Bytes), Len(s) = FrameLen(kind), awaited' = awaited \o s
      PROVE  /\ awaited' \in Seq(Bytes)
             /\ Len(awaited) = 0 => Len(awaited') = FrameLen(kind)
                                    /\ \A i \in 1..FrameLen(kind) : awaited'[i] = s[i]
    <2>1. /\ awaited \o s \in Seq(Bytes) /\ Len(awaited \o s) = Len(awaited) + Len(s)
          /\ \A i \in 1..(Len(awaited) + Len(s)) :
                (awaited \o s)[i] = IF i <= Len(awaited) THEN awaited[i] ELSE s[i - Len(awaited)]
        BY <1>1, <1>4, ConcatProperties
    <2>2. ASSUME Len(awaited) = 0, NEW i \in 1..FrameLen(kind)
          PROVE  (awaited \o s)[i] = s[i]
        <3>1. i \in 1..(Len(awaited) + Len(s)) /\ ~(i <= Len(awaited)) /\ i - Len(awaited) = i
            BY <1>2, <1>4, <2>2
        <3> QED
            BY <2>1, <3>1
    <2>3. Len(awaited) = 0 => Len(awaited) + Len(s) = FrameLen(kind)
        BY <1>2, <1>4
    <2> QED
        BY <1>4, <2>1, <2>2, <2>3
<1>5. CASE awaited' = awaited \o whole /\ excused' = late
    <2> HIDE DEF whole
    <2>1. \A i \in 1..FrameLen(kind) : whole[i].n = asked.n + 1
        BY <1>2 DEF Byte
    <2> QED
        BY <1>2, <1>4, <1>5, <2>1
<1>6. CASE awaited' = awaited \o faulty /\ excused' = TRUE
    <2> HIDE DEF faulty
    <2> QED
        BY <1>3, <1>4, <1>6
<1>7. CASE awaited' = awaited /\ excused' = TRUE
    BY <1>1, <1>7
<1> QED
    BY <1>5, <1>6, <1>7 DEF WriteToServo, Mishap

LEMMA TailBytes ==
    ASSUME NEW s \in Seq(Bytes), s # <<>>
    PROVE  /\ Tail(s) \in Seq(Bytes) /\ Len(s) \in Nat /\ Len(s) > 0 /\ Len(Tail(s)) = Len(s) - 1
           /\ \A i \in 1..(Len(s) - 1) : Tail(s)[i] = s[i + 1] /\ i + 1 \in 1..Len(s)
           /\ Head(s) = s[1] /\ s[1] \in Bytes /\ 1 \in 1..Len(s)
<1>1. Len(s) \in Nat /\ Len(s) > 0
    BY EmptySeq, LenProperties
<1> QED
    BY <1>1, HeadTailProperties

LEMMA InitLink == LinkInit => LinkInv
<1> SUFFICES ASSUME LinkInit
             PROVE  LinkInv
    OBVIOUS
<1>1. rx \in Seq(Bytes) /\ awaited \in Seq(Bytes) /\ got \in Seq(Bytes)
    BY EmptySeq DEF LinkInit
<1>2. asked \in [n : Nat, side : Side, kind : Request] /\ asked.n = 0 /\ phase = "off" /\ ~outcome.ok
    BY DEF LinkInit, Side, Request
<1> QED
    BY <1>1, <1>2 DEF LinkInv, LinkType, QuietLine, OwnBytes, WholeAnswer, InRequest, OwnAnswer, AnswerTaken

\* The request that is written.
LEMMA WriteStep ==
    ASSUME LinkInv, NEW side \in Side, NEW kind \in Request, WriteToServo(side, kind)
    PROVE  LinkInv'
<1>1. /\ phase = "idle" /\ asked' = [n |-> asked.n + 1, side |-> side, kind |-> kind]
      /\ phase' = "read" /\ got' = <<>> /\ listening' = TRUE /\ stale' = late /\ rx' = rx
    BY DEF WriteToServo, Idle
<1>2. /\ asked' \in [n : Nat, side : Side, kind : Request] /\ asked'.n = asked.n + 1 /\ asked'.kind = kind
    BY <1>1 DEF LinkInv, LinkType
<1>3. got' \in Seq(Bytes) /\ Len(got') = 0
    BY <1>1, EmptySeq
<1>4. /\ awaited' \in Seq(Bytes)
      /\ Len(awaited) = 0 => \A i \in 1..Len(awaited') : awaited'[i].n = asked.n + 1
      /\ late => excused'
      /\ ~excused' /\ Len(awaited) = 0 =>
           /\ Len(awaited') = FrameLen(kind)
           /\ \A i \in 1..FrameLen(kind) : awaited'[i] = Byte(asked.n + 1, kind, i, TRUE)
    BY AskedBytes DEF LinkInv
<1>5. ~late => Len(rx) = 0 /\ Len(awaited) = 0
    BY <1>1 DEF LinkInv, QuietLine
<1>6. OwnBytes'
    BY <1>1, <1>2, <1>3, <1>4, <1>5 DEF OwnBytes, OfRequest
<1>7. WholeAnswer'
    <2> SUFFICES ASSUME ~excused'
                 PROVE  /\ Len(got') + Len(rx') + Len(awaited') = FrameLen(kind)
                        /\ \A i \in 1..Len(got') : got'[i] = AnswerByte(i)'
                        /\ \A i \in 1..Len(rx') : rx'[i] = AnswerByte(Len(got) + i)'
                        /\ \A i \in 1..Len(awaited') : awaited'[i] = AnswerByte(Len(got) + Len(rx) + i)'
        BY <1>1, <1>2 DEF WholeAnswer
    <2>1. Len(rx') = 0 /\ Len(awaited') = FrameLen(kind)
          /\ \A i \in 1..FrameLen(kind) : awaited'[i] = Byte(asked.n + 1, kind, i, TRUE)
        BY <1>1, <1>4, <1>5
    <2>2. FrameLen(kind) \in Nat
        BY FrameBytes, <1>1 DEF LinkInv, LinkType
    <2>3. ASSUME NEW i \in 1..Len(awaited')
          PROVE  awaited'[i] = AnswerByte(Len(got) + Len(rx) + i)'
        <3>1. Len(got') + Len(rx') + i = i
            BY <1>3, <2>1, <2>2
        <3> QED
            BY <1>2, <2>1, <3>1 DEF AnswerByte
    <2> QED
        BY <1>3, <2>1, <2>2, <2>3
<1> QED
    BY <1>1, <1>2, <1>3, <1>4, <1>6, <1>7 DEF LinkInv, LinkType, QuietLine, InRequest

\* A byte comes in.
LEMMA ArriveStep == LinkInv /\ Arrive => LinkInv'
<1> SUFFICES ASSUME LinkInv, Arrive
             PROVE  LinkInv'
    OBVIOUS
<1>1. /\ awaited \in Seq(Bytes) /\ awaited # <<>> /\ awaited' = Tail(awaited) /\ rx \in Seq(Bytes)
      /\ Len(rx) \in Nat /\ got \in Seq(Bytes) /\ Len(got) \in Nat
    BY LenProperties DEF LinkInv, LinkType, Arrive
<1>2. /\ awaited' \in Seq(Bytes) /\ Len(awaited) \in Nat /\ Len(awaited) > 0
      /\ Len(awaited') = Len(awaited) - 1
      /\ \A i \in 1..(Len(awaited) - 1) : awaited'[i] = awaited[i + 1] /\ i + 1 \in 1..Len(awaited)
      /\ Head(awaited) = awaited[1] /\ awaited[1] \in Bytes /\ 1 \in 1..Len(awaited)
    BY <1>1, TailBytes
<1>3. \/ rx' = rx /\ ~listening
      \/ listening /\ rx' = Append(rx, awaited[1])
    BY <1>2 DEF Arrive
<1>4. UNCHANGED <<phase, asked, listening, got, outcome, late, stale, excused>>
    BY DEF Arrive
<1>5. rx' = Append(rx, awaited[1]) =>
        /\ rx' \in Seq(Bytes) /\ Len(rx') = Len(rx) + 1
        /\ \A i \in 1..Len(rx) : rx'[i] = rx[i]
        /\ rx'[Len(rx) + 1] = awaited[1]
    BY <1>1, <1>2, AppendProperties
<1>6. LinkType'
    BY <1>1, <1>2, <1>3, <1>4, <1>5 DEF LinkInv, LinkType
<1>7. QuietLine'
    BY <1>2, <1>4 DEF LinkInv, QuietLine
<1>8. OwnBytes'
    <2> SUFFICES ASSUME InRequest, ~stale
                 PROVE  OfRequest(got)' /\ OfRequest(rx)' /\ OfRequest(awaited)'
        BY <1>4 DEF OwnBytes, InRequest
    <2>1. OfRequest(got) /\ OfRequest(rx) /\ OfRequest(awaited)
        BY DEF LinkInv, OwnBytes
    <2>2. OfRequest(awaited)'
        BY <1>2, <1>4, <2>1 DEF OfRequest
    <2>3. OfRequest(rx)'
        <3>1. CASE rx' = rx
            BY <1>4, <2>1, <3>1 DEF OfRequest
        <3>2. CASE rx' = Append(rx, awaited[1])
            <4>1. \A i \in 1..Len(rx') : i \in 1..Len(rx) \/ i = Len(rx) + 1
                BY <1>1, <1>5, <3>2
            <4> QED
                BY <1>2, <1>4, <1>5, <2>1, <3>2, <4>1 DEF OfRequest
        <3> QED
            BY <1>3, <3>1, <3>2
    <2> QED
        BY <1>4, <2>1, <2>2, <2>3 DEF OfRequest
<1>9. WholeAnswer'
    <2> SUFFICES ASSUME InRequest, ~excused
                 PROVE  /\ Len(got) + Len(rx') + Len(awaited') = FrameLen(asked.kind)
                        /\ \A i \in 1..Len(rx') : rx'[i] = AnswerByte(Len(got) + i)
                        /\ \A i \in 1..Len(awaited') : awaited'[i] = AnswerByte(Len(got) + Len(rx') + i)
        BY <1>4 DEF LinkInv, WholeAnswer, InRequest, AnswerByte
    <2>1. /\ Len(got) + Len(rx) + Len(awaited) = FrameLen(asked.kind) /\ listening
          /\ \A i \in 1..Len(rx) : rx[i] = AnswerByte(Len(got) + i)
          /\ \A i \in 1..Len(awaited) : awaited[i] = AnswerByte(Len(got) + Len(rx) + i)
        BY DEF LinkInv, WholeAnswer
    <2>2. /\ Len(rx') = Len(rx) + 1 /\ rx'[Len(rx) + 1] = awaited[1]
          /\ \A i \in 1..Len(rx) : rx'[i] = rx[i]
        BY <1>3, <1>5, <2>1
    <2>3. Len(got) + Len(rx') + Len(awaited') = FrameLen(asked.kind)
        BY <1>1, <1>2, <2>1, <2>2
    <2>4. ASSUME NEW i \in 1..Len(rx')
          PROVE  rx'[i] = AnswerByte(Len(got) + i)
        <3>1. CASE i \in 1..Len(rx)
            BY <2>1, <2>2, <3>1
        <3>2. CASE i = Len(rx) + 1
            <4>1. awaited[1] = AnswerByte(Len(got) + Len(rx) + 1)
                BY <1>2, <2>1
            <4>2. Len(got) + Len(rx) + 1 = Len(got) + i
                BY <1>1, <3>2
            <4> QED
                BY <2>2, <3>2, <4>1, <4>2
        <3> QED
            BY <1>1, <2>2, <3>1, <3>2
    <2>5. ASSUME NEW i \in 1..Len(awaited')
          PROVE  awaited'[i] = AnswerByte(Len(got) + Len(rx') + i)
        <3>1. i \in 1..(Len(awaited) - 1)
            BY <1>2
        <3>2. awaited[i + 1] = AnswerByte(Len(got) + Len(rx) + (i + 1)) /\ awaited'[i] = awaited[i + 1]
            BY <1>2, <2>1, <3>1
        <3>3. Len(got) + Len(rx) + (i + 1) = Len(got) + Len(rx') + i
            BY <1>1, <2>2
        <3> QED
            BY <3>2, <3>3
    <2> QED
        BY <2>3, <2>4, <2>5
<1> QED
    BY <1>4, <1>6, <1>7, <1>8, <1>9 DEF LinkInv, InRequest, OwnAnswer, AnswerTaken

\* A byte is lost or damaged on the line.
LEMMA LineStep == LinkInv /\ LineFails => LinkInv'
<1> SUFFICES ASSUME LinkInv, LineFails
             PROVE  LinkInv'
    OBVIOUS
<1>1. /\ awaited \in Seq(Bytes) /\ awaited # <<>> /\ excused' = TRUE
      /\ UNCHANGED <<phase, asked, rx, listening, got, outcome, late, stale>>
    BY DEF LinkInv, LinkType, LineFails, Mishap
<1>2. /\ Tail(awaited) \in Seq(Bytes) /\ Len(awaited) \in Nat /\ Len(awaited) > 0
      /\ Len(Tail(awaited)) = Len(awaited) - 1
      /\ \A i \in 1..(Len(awaited) - 1) : Tail(awaited)[i] = awaited[i + 1] /\ i + 1 \in 1..Len(awaited)
      /\ awaited[1] \in Bytes /\ 1 \in 1..Len(awaited)
    BY <1>1, TailBytes
<1>3. awaited' \in Seq(Bytes) /\ (OfRequest(awaited) => OfRequest(awaited)')
    <2>1. CASE awaited' = Tail(awaited)
        BY <1>1, <1>2, <2>1 DEF OfRequest
    <2>2. CASE awaited' = [awaited EXCEPT ![1].good = FALSE]
        <3> DEFINE bad == [awaited[1] EXCEPT !.good = FALSE]
        <3>1. bad \in Bytes /\ bad.n = awaited[1].n
            BY <1>2, BadByte
        <3>2. awaited' = [awaited EXCEPT ![1] = bad]
            BY <2>2
        <3> HIDE DEF bad
        <3>3. /\ [awaited EXCEPT ![1] = bad] \in Seq(Bytes)
              /\ Len([awaited EXCEPT ![1] = bad]) = Len(awaited)
              /\ \A j \in 1..Len(awaited) :
                    [awaited EXCEPT ![1] = bad][j] = IF j = 1 THEN bad ELSE awaited[j]
            BY <1>1, <1>2, <3>1, ExceptSeq
        <3> QED
            BY <1>1, <1>2, <3>1, <3>2, <3>3 DEF OfRequest
    <2> QED
        BY <2>1, <2>2 DEF LineFails
<1>4. QuietLine'
    BY <1>1, <1>2 DEF LinkInv, QuietLine
<1>5. OwnBytes'
    BY <1>1, <1>3 DEF LinkInv, OwnBytes, InRequest, OfRequest
<1> QED
    BY <1>1, <1>3, <1>4, <1>5 DEF LinkInv, LinkType, WholeAnswer, InRequest, OwnAnswer, AnswerTaken

\* A byte is read, or dropped after the answer.
LEMMA TakeStep == LinkInv /\ TakeByte => LinkInv'
<1> SUFFICES ASSUME LinkInv, TakeByte
             PROVE  LinkInv'
    OBVIOUS
<1>1. /\ rx \in Seq(Bytes) /\ rx # <<>> /\ rx' = Tail(rx) /\ got' = Append(got, Head(rx))
      /\ got \in Seq(Bytes) /\ Len(got) \in Nat /\ Len(awaited) \in Nat /\ phase = "read"
      /\ UNCHANGED <<phase, asked, awaited, listening, outcome, late, stale, excused>>
    BY LenProperties DEF LinkInv, LinkType, TakeByte
<1>2. /\ rx' \in Seq(Bytes) /\ Len(rx) \in Nat /\ Len(rx) > 0 /\ Len(rx') = Len(rx) - 1
      /\ \A i \in 1..(Len(rx) - 1) : rx'[i] = rx[i + 1] /\ i + 1 \in 1..Len(rx)
      /\ Head(rx) = rx[1] /\ rx[1] \in Bytes /\ 1 \in 1..Len(rx)
    BY <1>1, TailBytes
<1>3. /\ got' \in Seq(Bytes) /\ Len(got') = Len(got) + 1
      /\ \A i \in 1..Len(got) : got'[i] = got[i]
      /\ got'[Len(got) + 1] = rx[1]
    BY <1>1, <1>2, AppendProperties
<1>4. OwnBytes'
    <2> SUFFICES ASSUME ~stale
                 PROVE  OfRequest(got)' /\ OfRequest(rx)' /\ OfRequest(awaited)'
        BY <1>1 DEF OwnBytes
    <2>1. OfRequest(got) /\ OfRequest(rx) /\ OfRequest(awaited)
        BY <1>1 DEF LinkInv, OwnBytes, InRequest
    <2>2. OfRequest(rx)'
        BY <1>1, <1>2, <2>1 DEF OfRequest
    <2>3. OfRequest(got)'
        <3>1. \A i \in 1..Len(got') : i \in 1..Len(got) \/ i = Len(got) + 1
            BY <1>1, <1>3
        <3> QED
            BY <1>1, <1>2, <1>3, <2>1, <3>1 DEF OfRequest
    <2> QED
        BY <1>1, <2>1, <2>2, <2>3 DEF OfRequest
<1>5. WholeAnswer'
    <2> SUFFICES ASSUME ~excused
                 PROVE  /\ Len(got') + Len(rx') + Len(awaited) = FrameLen(asked.kind)
                        /\ \A i \in 1..Len(got') : got'[i] = AnswerByte(i)
                        /\ \A i \in 1..Len(rx') : rx'[i] = AnswerByte(Len(got') + i)
                        /\ \A i \in 1..Len(awaited) : awaited[i] = AnswerByte(Len(got') + Len(rx') + i)
        BY <1>1 DEF LinkInv, WholeAnswer, InRequest, AnswerByte
    <2>1. /\ Len(got) + Len(rx) + Len(awaited) = FrameLen(asked.kind)
          /\ \A i \in 1..Len(got) : got[i] = AnswerByte(i)
          /\ \A i \in 1..Len(rx) : rx[i] = AnswerByte(Len(got) + i)
          /\ \A i \in 1..Len(awaited) : awaited[i] = AnswerByte(Len(got) + Len(rx) + i)
        BY <1>1 DEF LinkInv, WholeAnswer, InRequest
    <2>2. Len(got') + Len(rx') = Len(got) + Len(rx)
        BY <1>1, <1>2, <1>3
    <2>3. ASSUME NEW i \in 1..Len(got')
          PROVE  got'[i] = AnswerByte(i)
        <3>1. CASE i \in 1..Len(got)
            BY <1>3, <2>1, <3>1
        <3>2. CASE i = Len(got) + 1
            BY <1>2, <1>3, <2>1, <3>2
        <3> QED
            BY <1>1, <1>3, <3>1, <3>2
    <2>4. ASSUME NEW i \in 1..Len(rx')
          PROVE  rx'[i] = AnswerByte(Len(got') + i)
        <3>1. i \in 1..(Len(rx) - 1)
            BY <1>2
        <3>2. rx'[i] = rx[i + 1] /\ rx[i + 1] = AnswerByte(Len(got) + (i + 1))
            BY <1>2, <2>1, <3>1
        <3>3. Len(got) + (i + 1) = Len(got') + i
            BY <1>1, <1>3
        <3> QED
            BY <3>2, <3>3
    <2> QED
        BY <2>1, <2>2, <2>3, <2>4
<1> QED
    BY <1>1, <1>2, <1>3, <1>4, <1>5 DEF LinkInv, LinkType, QuietLine, InRequest

LEMMA ClearStep == LinkInv /\ ClearByte => LinkInv'
<1> SUFFICES ASSUME LinkInv, ClearByte
             PROVE  LinkInv'
    OBVIOUS
<1>1. /\ rx \in Seq(Bytes) /\ rx # <<>> /\ rx' = Tail(rx) /\ phase \in {"start", "clear"}
      /\ got \in Seq(Bytes) /\ Len(got) \in Nat /\ Len(awaited) \in Nat
      /\ UNCHANGED <<phase, asked, awaited, listening, got, outcome, late, stale, excused>>
    BY LenProperties DEF LinkInv, LinkType, ClearByte
<1>2. /\ rx' \in Seq(Bytes) /\ Len(rx) \in Nat /\ Len(rx) > 0 /\ Len(rx') = Len(rx) - 1
      /\ \A i \in 1..(Len(rx) - 1) : rx'[i] = rx[i + 1] /\ i + 1 \in 1..Len(rx)
    BY <1>1, TailBytes
<1>3. OwnBytes'
    BY <1>1, <1>2 DEF LinkInv, OwnBytes, InRequest, OfRequest
<1>4. ~(InRequest /\ ~excused)
    <2> SUFFICES ASSUME InRequest, ~excused
                 PROVE  FALSE
        OBVIOUS
    <2>1. Len(got) + Len(rx) + Len(awaited) = Len(got)
        BY <1>1 DEF LinkInv, WholeAnswer, InRequest
    <2> QED
        BY <1>1, <1>2, <2>1
<1> QED
    BY <1>1, <1>2, <1>3, <1>4 DEF LinkInv, LinkType, QuietLine, WholeAnswer, InRequest, OwnAnswer, AnswerTaken

\* The frame is complete, and the line is quiet.
LEMMA QuietStep == LinkInv /\ Quiet => LinkInv'
<1> SUFFICES ASSUME LinkInv, Quiet
             PROVE  LinkInv'
    OBVIOUS
<1>1. /\ phase = "clear" /\ rx = <<>> /\ phase' = "idle" /\ late' = (awaited # <<>>)
      /\ outcome' = [ok |-> Accepted, from |-> got[1].n]
      /\ UNCHANGED <<asked, rx, awaited, listening, got, stale, excused>>
    BY DEF Quiet, Checked
<1>2. /\ Len(rx) = 0 /\ Len(got) = FrameLen(asked.kind) /\ FrameLen(asked.kind) \in Nat \ {0}
      /\ Len(awaited) \in Nat
    BY <1>1, EmptySeq, FrameBytes, LenProperties DEF LinkInv, LinkType
<1>3. outcome'.ok = Accepted /\ outcome'.from = got[1].n
    BY <1>1
<1>4. ~stale => got[1].n = asked.n
    BY <1>1, <1>2 DEF LinkInv, OwnBytes, InRequest, OfRequest
<1>5. ~excused => Accepted
    <2> SUFFICES ASSUME ~excused
                 PROVE  Accepted
        OBVIOUS
    <2>1. \A i \in 1..Len(got) : got[i] = Byte(asked.n, asked.kind, i, TRUE)
        BY <1>1 DEF LinkInv, WholeAnswer, InRequest, AnswerByte
    <2>2. got[1].n = asked.n
        BY <1>2, <2>1 DEF Byte
    <2> QED
        BY <2>1, <2>2 DEF Accepted
<1>6. QuietLine'
    <2>1. awaited = <<>> => Len(awaited) = 0
        BY EmptySeq
    <2> QED
        BY <1>1, <1>2, <2>1 DEF QuietLine
<1>7. OwnAnswer' /\ AnswerTaken'
    BY <1>1, <1>3, <1>4, <1>5 DEF OwnAnswer, AnswerTaken
<1> QED
    BY <1>1, <1>6, <1>7 DEF LinkInv, LinkType, OwnBytes, WholeAnswer, InRequest

LEMMA TimeoutStep == LinkInv /\ Timeout => LinkInv'
<1> SUFFICES ASSUME LinkInv, Timeout
             PROVE  LinkInv'
    OBVIOUS
<1>1. /\ phase = "read" /\ rx = <<>> /\ Needed > 0 /\ phase' = "idle" /\ late' = (awaited # <<>>)
      /\ outcome' = [ok |-> FALSE, from |-> 0] /\ excused' = (excused \/ awaited # <<>>)
      /\ UNCHANGED <<asked, rx, awaited, listening, got, stale>>
    BY DEF Timeout
<1>2. /\ Len(rx) = 0 /\ Len(got) \in Nat /\ Len(awaited) \in Nat /\ (awaited = <<>> => Len(awaited) = 0)
      /\ FrameLen(asked.kind) \in Nat
    BY <1>1, EmptySeq, FrameBytes, LenProperties DEF LinkInv, LinkType
<1>3. excused'
    <2> SUFFICES ASSUME ~excused, awaited = <<>>
                 PROVE  FALSE
        BY <1>1
    <2>1. Len(got) + Len(rx) + Len(awaited) = FrameLen(asked.kind)
        BY <1>1 DEF LinkInv, WholeAnswer, InRequest
    <2> QED
        BY <1>1, <1>2, <2>1 DEF Needed
<1> QED
    BY <1>1, <1>2, <1>3 DEF LinkInv, LinkType, QuietLine, OwnBytes, WholeAnswer, InRequest, OwnAnswer, AnswerTaken

\* Failures, and the power of the motors.
LEMMA LinkStep == LinkInv /\ [LinkNext]_linkVars => LinkInv'
<1> SUFFICES ASSUME LinkInv, [LinkNext]_linkVars
             PROVE  LinkInv'
    OBVIOUS
<1> USE DEF LinkInv, LinkType, QuietLine, OwnBytes, WholeAnswer, InRequest, OwnAnswer, AnswerTaken
<1>0. <<>> \in Seq(Bytes) /\ Len(<<>>) = 0
    BY EmptySeq
<1>1. CASE WriteFails
    <2>1. asked'.n \in Nat /\ asked' \in [n : Nat, side : Side, kind : Request]
        BY <1>1 DEF WriteFails
    <2> QED
        BY <1>1, <2>1 DEF WriteFails, Idle, Mishap
<1>2. CASE ReadFails
    BY <1>0, <1>2 DEF ReadFails, Mishap
<1>3. CASE Complete
    <2>1. Len(got) = FrameLen(asked.kind)
        <3>1. Len(got) \in Nat /\ FrameLen(asked.kind) \in Nat
            BY FrameBytes, LenProperties
        <3> QED
            BY <1>3, <3>1 DEF Complete, Needed
    <2> QED
        BY <1>3, <2>1 DEF Complete, OfRequest, AnswerByte
<1>4. CASE MotorsOn
    <2>1. PICK n \in 0..JunkLen : awaited' = [i \in 1..n |-> Junk]
        BY <1>4 DEF MotorsOn
    <2>2. n \in Nat /\ Junk \in Bytes
        BY RsblAssumption DEF Junk, Byte, Bytes
    <2>3. [i \in 1..n |-> Junk] \in [1..n -> Bytes]
        BY <2>2
    <2>4. awaited' \in Seq(Bytes)
        BY <2>1, <2>2, <2>3, SeqDef
    <2> QED
        BY <1>4, <2>4 DEF MotorsOn
<1>5. CASE StartupClear
    BY <1>0, <1>5 DEF StartupClear, Mishap
<1>6. CASE MotorsOff
    BY <1>0, <1>6 DEF MotorsOff, Idle, Mishap
<1>7. CASE UNCHANGED linkVars
    BY <1>7 DEF linkVars, OfRequest, AnswerByte
<1>8. ASSUME NEW side \in Side, ReadData(side) \/ WriteData(side)
      PROVE  LinkInv'
    BY <1>8, WriteStep DEF ReadData, WriteData, Request
<1> QED
    BY <1>1, <1>2, <1>3, <1>4, <1>5, <1>6, <1>7, <1>8, ArriveStep, LineStep, TakeStep, ClearStep, QuietStep,
       TimeoutStep DEF LinkNext

\* An answer accepted is the request's own unless an older one was still on its way, and a request
\* fails only for a mishap since it was made (read_from_servo, clear_ringbuffer).
THEOREM MotorsAnswer == LinkSpec => []MotorAnswersItself
<1>1. LinkInv => MotorAnswersItself
    BY DEF LinkInv, MotorAnswersItself, Idle, InRequest
<1> QED
    BY <1>1, InitLink, LinkStep, PTL DEF LinkSpec

-----------------------------------------------------------------------------
(* The CATS inputs                                                         *)

PinType ==
    /\ level \in [Pins -> {"high", "low"}]
    /\ rose \in [Pins -> BOOLEAN] /\ fired \in [Pins -> BOOLEAN] /\ blinked \in [Pins -> BOOLEAN]
    /\ pulse \in [Pins -> {0, 1}]
    /\ detector \in [Pins -> {"unarmed", "armed", "settle", "deployed"}]
    /\ settle \in [Pins -> Int] /\ low \in [Pins -> Nat]
    /\ state \in [Pins -> {"Unarmed", "NotYetDeployed", "Deployed"}]

\* Where an armed CATS that has fired, once and in peace, has brought its detector.
Fires(p) ==
    \/ detector[p] = "armed" /\ level[p] = "high" /\ low[p] = 0
    \/ detector[p] = "settle" /\ level[p] = "high" /\ pulse[p] = 1 /\ settle[p] = SettleTicks /\ low[p] = 0
    \/ detector[p] = "settle" /\ level[p] = "low" /\ settle[p] >= 0 /\ settle[p] + low[p] = SettleTicks - 1
    \/ detector[p] = "deployed" /\ level[p] = "low" /\ ~rose[p] /\ state[p] = "Deployed"

\* A pin that is or was high has left an edge; what goes low behind a detector that waits for
\* high, or for its timer, has fired or blinked.
PinInv(p) ==
    /\ detector[p] \in {"armed", "deployed"} /\ level[p] = "high" => rose[p]
    /\ pulse[p] = 1 => fired[p] /\ level[p] = "high"
    /\ detector[p] = "settle" /\ level[p] = "low" => fired[p] \/ blinked[p]
    /\ detector[p] = "armed" /\ level[p] = "low" /\ rose[p] => fired[p] \/ blinked[p]
    /\ detector[p] = "deployed" => fired[p] \/ blinked[p] \/ High(p)
    /\ state[p] = "Deployed" => detector[p] = "deployed"
    /\ fired[p] /\ ~blinked[p] => Fires(p) /\ (level[p] = "high" => pulse[p] = 1)

CatsInv == PinType /\ \A p \in Pins : PinInv(p)

StatusInv ==
    /\ published \in [Sources -> [val : Int, new : BOOLEAN]]
    /\ \A s \in Sources : known[s] = published[s].val \/ published[s].new
    /\ sent => \A s \in Sources : shown[s] = known[s]

LEMMA InitCats == CatsInit => CatsInv /\ StatusInv
BY CatsAssumption DEF CatsInit, CatsInv, PinType, PinInv, StatusInv

\* A step of one pin leaves the others as they are; what is left is to follow that one.
LEMMA CatsPinStep ==
    ASSUME CatsInv, NEW p \in Pins, Arm(p) \/ Disarm(p) \/ Fire(p) \/ Detect(p)
    PROVE  CatsInv'
<1> USE CatsAssumption DEF CatsInv, PinType
<1>1. PinType'
    <2>1. CASE Arm(p)
        BY <2>1 DEF Arm, Lower
    <2>2. CASE Disarm(p)
        BY <2>2 DEF Disarm, Raise
    <2>3. CASE Fire(p)
        BY <2>3 DEF Fire, Raise
    <2>4. CASE DetectArmed(p)
        BY <2>4 DEF DetectArmed, Enter
    <2>5. CASE DetectRise(p)
        BY <2>5 DEF DetectRise, Enter
    <2>6. CASE DetectOutcome(p)
        BY <2>6 DEF DetectOutcome, Enter
    <2>7. CASE DetectDisarmed(p)
        BY <2>7 DEF DetectDisarmed, Enter
    <2> QED
        BY <2>1, <2>2, <2>3, <2>4, <2>5, <2>6, <2>7 DEF Detect
<1>2. ASSUME NEW q \in Pins, q # p
      PROVE  PinInv(q)'
    <2>1. /\ level'[q] = level[q] /\ rose'[q] = rose[q] /\ pulse'[q] = pulse[q] /\ low'[q] = low[q]
          /\ detector'[q] = detector[q] /\ settle'[q] = settle[q] /\ state'[q] = state[q]
          /\ fired'[q] = fired[q] /\ blinked'[q] = blinked[q]
        BY <1>2 DEF Arm, Disarm, Fire, Detect, DetectArmed, DetectRise, DetectOutcome, DetectDisarmed,
                    Lower, Raise, Enter
    <2> QED
        BY <2>1 DEF PinInv, Fires, High
<1>3. PinInv(p)'
    <2> USE DEF PinInv, Fires, High
    <2>1. CASE Arm(p)
        <3>1. blinked'[p] <=> detector[p] = "settle" \/ rose[p]
            BY <2>1 DEF Arm
        <3>2. /\ level'[p] = "low" /\ ~fired'[p] /\ rose'[p] = rose[p] /\ pulse'[p] = 0
              /\ detector'[p] = detector[p] /\ state'[p] = state[p] /\ level[p] = "high"
            BY <2>1 DEF Arm, Lower
        <3> QED
            BY <3>1, <3>2
    <2>2. CASE Disarm(p)
        BY <2>2 DEF Disarm, Raise
    <2>3. CASE Fire(p)
        BY <2>3 DEF Fire, Raise
    <2>4. CASE DetectArmed(p)
        BY <2>4 DEF DetectArmed, Enter
    <2>5. CASE DetectRise(p)
        BY <2>5 DEF DetectRise, Enter
    <2>6. CASE DetectOutcome(p)
        BY <2>6 DEF DetectOutcome, Enter
    <2>7. CASE DetectDisarmed(p)
        BY <2>7 DEF DetectDisarmed, Enter
    <2> QED
        BY <2>1, <2>2, <2>3, <2>4, <2>5, <2>6, <2>7 DEF Detect
<1> QED
    BY <1>1, <1>2, <1>3

LEMMA CatsStep == CatsInv /\ [CatsNext]_catsVars => CatsInv'
<1> SUFFICES ASSUME CatsInv, [CatsNext]_catsVars
             PROVE  CatsInv'
    OBVIOUS
<1>1. CASE CatsTick
    <2> USE CatsAssumption DEF CatsInv, PinType
    <2>1. PinType'
        BY <1>1 DEF CatsTick
    <2>2. ASSUME NEW p \in Pins
          PROVE  PinInv(p)'
        <3>1. CASE detector[p] = "settle"
            BY <1>1, <3>1 DEF CatsTick, PinInv, Fires, High
        <3>2. CASE detector[p] # "settle"
            BY <1>1, <3>2 DEF CatsTick, PinInv, Fires, High
        <3> QED
            BY <3>1, <3>2
    <2> QED
        BY <2>1, <2>2
<1>2. CASE UNCHANGED pinVars
    BY <1>2 DEF pinVars, CatsInv, PinType, PinInv, Fires, High
<1> QED
    BY <1>1, <1>2, CatsPinStep DEF CatsNext, Publish, SendStatus, catsVars

LEMMA StatusStep == StatusInv /\ [CatsNext]_catsVars => StatusInv'
<1> SUFFICES ASSUME StatusInv, [CatsNext]_catsVars
             PROVE  StatusInv'
    OBVIOUS
<1> USE DEF StatusInv
<1>1. ASSUME NEW s \in Sources, Publish(s)
      PROVE  StatusInv'
    BY <1>1 DEF Publish
<1>2. CASE SendStatus
    BY <1>2 DEF SendStatus, Collect
<1>3. CASE UNCHANGED <<published, known, shown, sent>>
    BY <1>3
<1> QED
    BY <1>1, <1>2, <1>3 DEF CatsNext, Arm, Disarm, Fire, Detect, DetectArmed, DetectRise, DetectOutcome,
                            DetectDisarmed, CatsTick, catsVars, statusVars

\* Deployed is reported when the CATS has deployed, and stays until it is disarmed; a status frame
\* on the bus shows the latest of every source (cats.rs, can_tx_task).
THEOREM DeploymentReported == CatsSpec => []CatsReported
<1>1. CatsInv /\ StatusInv => CatsReported
    BY CatsAssumption DEF CatsInv, PinType, PinInv, Fires, StatusInv, CatsReported
<1> QED
    BY <1>1, InitCats, CatsStep, StatusStep, PTL DEF CatsSpec

-----------------------------------------------------------------------------
(* The CAN inputs                                                          *)

Frames == [id : Ids, val : Values, form : {"good", "damaged"}]

CanType ==
    /\ fifo \in Seq(Frames)
    /\ input \in [Names -> Values \cup {"none"}] /\ latest \in [Ids -> Values \cup {"none"}]
    /\ loop \in {"boot", "recv", "sleep"}

\* Once the loop runs, the bank is the board's.
BankInv ==
    /\ loop # "boot" => filters = Bank
    /\ \A id \in Ids : latest[id] # "none" => \E i \in 1..Len(SupportedIds) : SupportedIds[i] = id

\* The frame at i of a queue is the last good one of an id.
Good(q, i, id) == q[i].id = id /\ q[i].form = "good"
LastGood(q, i, id) == Good(q, i, id) /\ \A j \in 1..Len(q) : j > i => ~Good(q, j, id)

\* What is known of an id is the last good frame on its way, or what its field holds.
Follows(q, held, last, id) ==
    /\ \A i \in 1..Len(q) : LastGood(q, i, id) => last = q[i].val
    /\ (\A i \in 1..Len(q) : ~Good(q, i, id)) => last = held

CanInv ==
    /\ CanType /\ BankInv
    /\ \A n \in Names, id \in Ids : Owner(n, id) => Follows(fifo, input[n], latest[id], id)

\* A queue that grows at its end, by a frame that is good for the id or is not.
LEMMA FollowsAppend ==
    ASSUME NEW q \in Seq(Frames), NEW f \in Frames, NEW held, NEW last, NEW id \in Ids,
           Follows(q, held, last, id)
    PROVE  /\ f.id = id /\ f.form = "good" => Follows(Append(q, f), held, f.val, id)
           /\ ~(f.id = id /\ f.form = "good") => Follows(Append(q, f), held, last, id)
<1> DEFINE t == Append(q, f)
<1>1. /\ Len(q) \in Nat /\ Len(t) = Len(q) + 1 /\ t[Len(q) + 1] = f
      /\ \A i \in 1..Len(q) : t[i] = q[i]
    BY AppendProperties, LenProperties
<1> HIDE DEF t
<1>2. ASSUME f.id = id, f.form = "good"
      PROVE  Follows(t, held, f.val, id)
    <2>1. Good(t, Len(t), id) /\ Len(t) \in 1..Len(t)
        BY <1>1, <1>2 DEF Good
    <2>2. ASSUME NEW i \in 1..Len(t), LastGood(t, i, id)
          PROVE  i = Len(t)
        BY <1>1, <2>1, <2>2 DEF LastGood
    <2> QED
        BY <1>1, <2>1, <2>2 DEF Follows
<1>3. ASSUME ~(f.id = id /\ f.form = "good")
      PROVE  Follows(t, held, last, id)
    <2>1. ~Good(t, Len(t), id)
        BY <1>1, <1>3 DEF Good
    <2>2. \A i \in 1..Len(q) : i \in 1..Len(t) /\ (Good(t, i, id) <=> Good(q, i, id))
        BY <1>1 DEF Good
    <2>3. \A i \in 1..Len(t) : Good(t, i, id) => i \in 1..Len(q)
        BY <1>1, <2>1
    <2>4. ASSUME NEW i \in 1..Len(t), LastGood(t, i, id)
          PROVE  i \in 1..Len(q) /\ LastGood(q, i, id)
        BY <1>1, <2>2, <2>3, <2>4 DEF LastGood
    <2> QED
        BY <1>1, <2>2, <2>3, <2>4 DEF Follows
<1> QED
    BY <1>2, <1>3 DEF t

\* A queue that loses its head: the field takes what was good for the id.
LEMMA FollowsTail ==
    ASSUME NEW q \in Seq(Frames), q # <<>>, NEW held, NEW last, NEW id \in Ids,
           Follows(q, held, last, id)
    PROVE  /\ Good(q, 1, id) => Follows(Tail(q), q[1].val, last, id)
           /\ ~Good(q, 1, id) => Follows(Tail(q), held, last, id)
<1> DEFINE t == Tail(q)
<1>1. /\ Len(q) \in Nat /\ Len(q) >= 1 /\ Len(t) = Len(q) - 1 /\ Len(t) \in Nat
      /\ \A i \in 1..Len(t) : t[i] = q[i + 1]
    BY HeadTailProperties, LenProperties, EmptySeq
<1> HIDE DEF t
<1>2. \A i \in 1..Len(t) : i + 1 \in 1..Len(q) /\ (Good(t, i, id) <=> Good(q, i + 1, id))
    BY <1>1 DEF Good
<1>3. ASSUME NEW i \in 1..Len(t), LastGood(t, i, id)
      PROVE  LastGood(q, i + 1, id)
    <2>1. ASSUME NEW j \in 1..Len(q), j > i + 1
          PROVE  ~Good(q, j, id)
        <3>1. j - 1 \in 1..Len(t) /\ j - 1 > i /\ (j - 1) + 1 = j
            BY <1>1, <2>1
        <3> QED
            BY <1>2, <1>3, <3>1 DEF LastGood
    <2> QED
        BY <1>2, <1>3, <2>1 DEF LastGood
<1>4. \A i \in 1..Len(t) : LastGood(t, i, id) => last = t[i].val
    BY <1>1, <1>2, <1>3 DEF Follows
<1>5. ASSUME \A i \in 1..Len(t) : ~Good(t, i, id)
      PROVE  \A j \in 1..Len(q) : j > 1 => ~Good(q, j, id)
    <2> SUFFICES ASSUME NEW j \in 1..Len(q), j > 1
                 PROVE  ~Good(q, j, id)
        OBVIOUS
    <2>1. j - 1 \in 1..Len(t) /\ (j - 1) + 1 = j
        BY <1>1
    <2> QED
        BY <1>2, <1>5, <2>1
<1>6. ASSUME \A i \in 1..Len(t) : ~Good(t, i, id), Good(q, 1, id)
      PROVE  last = q[1].val
    BY <1>1, <1>5, <1>6 DEF Follows, LastGood
<1>7. ASSUME \A i \in 1..Len(t) : ~Good(t, i, id), ~Good(q, 1, id)
      PROVE  last = held
    <2>1. \A j \in 1..Len(q) : ~Good(q, j, id)
        BY <1>1, <1>5, <1>7
    <2> QED
        BY <2>1 DEF Follows
<1> QED
    BY <1>4, <1>6, <1>7 DEF Follows, t

\* The collector hands a frame to the owner of its id, and to no field that owns another.
LEMMA Dispatch ==
    ASSUME NEW n \in Names, NEW id \in Ids, Owner(n, id), NEW other \in Ids
    PROVE  n \in UpdateFrom(other) <=> other = id
<1> USE CollectorAssumption
<1>1. /\ \A i \in 1..Len(Struct) : Struct[i] \in Fields
      /\ \A i \in 1..Len(Nested) : Nested[i] \in Fields
    BY ElementOfSeq
<1>2. CASE \E i \in 1..Len(Struct) :
               /\ \A k \in 1..Len(Struct) : id \in Struct[k].ids => k = i
               /\ Struct[i].name = n /\ Struct[i].ids = {id}
    <2>1. PICK i \in 1..Len(Struct) :
              /\ \A k \in 1..Len(Struct) : id \in Struct[k].ids => k = i
              /\ Struct[i].name = n /\ Struct[i].ids = {id}
        BY <1>2
    <2>2. ~Struct[i].flatten
        BY <1>1, <2>1
    <2>3. \A j \in 1..(i - 1) : j \in 1..Len(Struct) /\ j # i
        BY LenProperties
    <2>4. n \in Direct(Struct, id)
        BY <2>1, <2>2, <2>3 DEF Direct
    <2>5. n \in Direct(Struct, other) => other = id
        BY <2>1 DEF Direct
    <2>6. n \notin Direct(Nested, other)
        BY <2>1 DEF Direct
    <2> QED
        BY <2>4, <2>5, <2>6 DEF UpdateFrom
<1>3. CASE /\ \A k \in 1..Len(Struct) : id \notin Struct[k].ids
           /\ \E i \in 1..Len(Nested) :
                /\ \A k \in 1..Len(Nested) : id \in Nested[k].ids => k = i
                /\ Nested[i].name = n /\ Nested[i].ids = {id}
    <2>1. PICK i \in 1..Len(Nested) :
              /\ \A k \in 1..Len(Nested) : id \in Nested[k].ids => k = i
              /\ Nested[i].name = n /\ Nested[i].ids = {id}
        BY <1>3
    <2>2. \A j \in 1..(i - 1) : j \in 1..Len(Nested) /\ j # i
        BY LenProperties
    <2>3. n \in Direct(Nested, id)
        BY <2>1, <2>2 DEF Direct
    <2>4. n \in Direct(Nested, other) => other = id
        BY <2>1 DEF Direct
    <2>5. n \notin Direct(Struct, other)
        BY <2>1 DEF Direct
    <2>6. Direct(Struct, id) = {}
        BY <1>3 DEF Direct
    <2>7. \E j \in 1..Len(Struct) : Struct[j].flatten
        BY <2>1
    <2> QED
        BY <2>3, <2>4, <2>5, <2>6, <2>7 DEF UpdateFrom
<1> QED
    BY <1>2, <1>3 DEF Owner

\* Only what the board supports passes its bank.
LEMMA BankRejects ==
    ASSUME NEW id \in Ids, filters = Bank, Passes(id)
    PROVE  \E i \in 1..Len(SupportedIds) : SupportedIds[i] = id
<1>1. Len(SupportedIds) \in Nat /\ Len(SupportedIds) + 1 \in 1..FilterCount
    BY CanAssumption, LenProperties
<1>2. PICK i \in 1..FilterCount : Bank[i] = id
    BY DEF Passes
<1>3. id # "reject" /\ id # "off"
    BY CanAssumption
<1> QED
    BY <1>1, <1>2, <1>3 DEF Bank

LEMMA InitCan == CanInit => CanInv
<1> SUFFICES ASSUME CanInit
             PROVE  CanInv
    OBVIOUS
<1>1. CanType /\ BankInv
    BY DEF CanInit, CanType, BankInv
<1>2. ASSUME NEW n \in Names, NEW id \in Ids
      PROVE  Follows(fifo, input[n], latest[id], id)
    BY DEF CanInit, Follows
<1> QED
    BY <1>1, <1>2 DEF CanInv

LEMMA OwnedIsNoReset ==
    ASSUME NEW n, NEW id \in ResetIds
    PROVE  ~Owner(n, id)
<1>1. /\ \A i \in 1..Len(Struct) : Struct[i] \in Fields
      /\ \A i \in 1..Len(Nested) : Nested[i] \in Fields
    BY CollectorAssumption, ElementOfSeq
<1> QED
    BY <1>1 DEF Owner, Fields

\* One step, whatever the loop does.
LEMMA CanStep ==
    ASSUME CanInv, [CanNext]_canVars
    PROVE  CanInv'
<1> USE DEF CanInv, CanType
<1>1. CASE Boot
    BY <1>1 DEF Boot, BankInv, Bank
<1>2. CASE BusFrame
    <2>1. PICK id \in Ids, v \in Values, form \in {"good", "damaged"} :
              LET kept == Passes(id) /\ Len(fifo) < FifoLen
              IN /\ fifo' = IF kept THEN Append(fifo, [id |-> id, val |-> v, form |-> form]) ELSE fifo
                 /\ latest' = IF kept /\ form = "good" THEN [latest EXCEPT ![id] = v] ELSE latest
        BY <1>2 DEF BusFrame
    <2>2. filters' = filters /\ loop' = loop /\ input' = input /\ loop # "boot"
        BY <1>2 DEF BusFrame
    <2> DEFINE f == [id |-> id, val |-> v, form |-> form]
    <2>3. f \in Frames /\ f.id = id /\ f.val = v /\ f.form = form
        BY DEF Frames
    <2>4. CASE ~(Passes(id) /\ Len(fifo) < FifoLen)
        BY <2>1, <2>2, <2>4 DEF BankInv, Bank
    <2>5. CASE Passes(id) /\ Len(fifo) < FifoLen
        <3>1. fifo' = Append(fifo, f)
            BY <2>1, <2>5
        <3> HIDE DEF f
        <3>2. fifo' \in Seq(Frames)
            BY <2>3, <3>1, AppendProperties
        <3>3. latest' \in [Ids -> Values \cup {"none"}]
            BY <2>1
        <3>4. BankInv'
            BY <2>1, <2>2, BankRejects DEF BankInv, Bank
        <3>5. ASSUME NEW n \in Names, NEW o \in Ids, Owner(n, o)
              PROVE  Follows(fifo', input'[n], latest'[o], o)
            <4>1. Follows(fifo, input[n], latest[o], o)
                BY <3>5
            <4>2. CASE f.id = o /\ f.form = "good"
                <5>1. latest'[o] = f.val
                    BY <2>1, <2>3, <2>5, <4>2
                <5> QED
                    BY <2>2, <2>3, <3>1, <4>1, <4>2, <5>1, FollowsAppend
            <4>3. CASE ~(f.id = o /\ f.form = "good")
                <5>1. latest'[o] = latest[o]
                    BY <2>1, <2>3, <2>5, <4>3
                <5> QED
                    BY <2>2, <2>3, <3>1, <4>1, <4>3, <5>1, FollowsAppend
            <4> QED
                BY <4>2, <4>3
        <3> QED
            BY <2>2, <3>2, <3>3, <3>4, <3>5 DEF Owner
    <2> QED
        BY <2>4, <2>5
<1>3. ASSUME fifo # <<>>
      PROVE  /\ Head(fifo) = fifo[1] /\ fifo[1] \in Frames
             /\ Tail(fifo) \in Seq(Frames)
             /\ \A n \in Names, id \in Ids : Owner(n, id) =>
                   /\ Good(fifo, 1, id) => Follows(Tail(fifo), fifo[1].val, latest[id], id)
                   /\ ~Good(fifo, 1, id) => Follows(Tail(fifo), input[n], latest[id], id)
    BY <1>3, FollowsTail, HeadTailProperties, ElementOfSeq, EmptySeq, LenProperties
<1>4. CASE ReceiveOk
    <2>1. /\ fifo # <<>> /\ Head(fifo).form = "good" /\ loop = "recv" /\ filters' = filters
        BY <1>4 DEF ReceiveOk
    <2>2. CASE Restart
        <3>1. CanType' /\ BankInv'
            BY <2>2, <2>1 DEF Restart, BankInv, Bank
        <3>2. ASSUME NEW n \in Names, NEW id \in Ids
              PROVE  Follows(fifo', input'[n], latest'[id], id)
            BY <2>2 DEF Restart, Follows
        <3> QED
            BY <3>1, <3>2
    <2>3. CASE Head(fifo).id \in ResetIds /\ fifo' = Tail(fifo) /\ UNCHANGED <<loop, input, latest>>
        <3>1. ASSUME NEW n \in Names, NEW id \in Ids, Owner(n, id)
              PROVE  Follows(fifo', input'[n], latest'[id], id)
            <4>1. ~Good(fifo, 1, id)
                BY <1>3, <2>1, <2>3, <3>1, OwnedIsNoReset DEF Good
            <4> QED
                BY <1>3, <2>1, <2>3, <3>1, <4>1
        <3>2. CanType' /\ BankInv'
            BY <1>3, <2>1, <2>3 DEF BankInv, Bank
        <3> QED
            BY <3>1, <3>2 DEF Owner
    <2>4. CASE /\ Head(fifo).id \notin ResetIds /\ fifo' = Tail(fifo) /\ UNCHANGED <<loop, latest>>
               /\ input' = [n \in Names |-> IF n \in UpdateFrom(Head(fifo).id)
                                               THEN Head(fifo).val ELSE input[n]]
        <3>1. ASSUME NEW n \in Names, NEW id \in Ids, Owner(n, id)
              PROVE  Follows(fifo', input'[n], latest'[id], id)
            <4>1. n \in UpdateFrom(fifo[1].id) <=> fifo[1].id = id
                BY <1>3, <2>1, <3>1, Dispatch DEF Frames
            <4>2. CASE fifo[1].id = id
                BY <1>3, <2>1, <2>4, <3>1, <4>1, <4>2 DEF Good
            <4>3. CASE fifo[1].id # id
                BY <1>3, <2>1, <2>4, <3>1, <4>1, <4>3 DEF Good
            <4> QED
                BY <4>2, <4>3
        <3>2. CanType' /\ BankInv'
            BY <1>3, <2>1, <2>4 DEF BankInv, Bank, Frames
        <3> QED
            BY <3>1, <3>2 DEF Owner
    <2> QED
        BY <1>4, <2>2, <2>3, <2>4 DEF ReceiveOk
<1>5. CASE ReceiveErr
    <2>1. filters' = filters /\ loop' = "sleep" /\ loop = "recv" /\ UNCHANGED <<input, latest>>
        BY <1>5 DEF ReceiveErr
    <2>2. CASE fifo' = fifo
        BY <2>1, <2>2 DEF BankInv, Bank, Owner
    <2>3. CASE fifo # <<>> /\ Head(fifo).form = "damaged" /\ fifo' = Tail(fifo)
        <3>1. ASSUME NEW n \in Names, NEW id \in Ids, Owner(n, id)
              PROVE  Follows(fifo', input'[n], latest'[id], id)
            BY <1>3, <2>1, <2>3, <3>1 DEF Good
        <3>2. CanType' /\ BankInv'
            BY <1>3, <2>1, <2>3 DEF BankInv, Bank
        <3> QED
            BY <3>1, <3>2 DEF Owner
    <2> QED
        BY <1>5, <2>2, <2>3 DEF ReceiveErr
<1>6. CASE Wake
    BY <1>6 DEF Wake, BankInv, Bank, Owner
<1>7. CASE UNCHANGED canVars
    BY <1>7 DEF canVars, BankInv, Bank, Owner
<1> QED
    BY <1>1, <1>2, <1>4, <1>5, <1>6, <1>7 DEF CanNext

\* With the FIFO drained, a field holds the last good frame of the id it owns, and nothing the board
\* does not support gets through (setup_can, recv, update_from).
THEOREM FieldsFollow == CanSpec => []InputsFollowBus
<1>1. CanInv => InputsFollowBus
    BY EmptySeq DEF CanInv, BankInv, InputsFollowBus, Follows
<1>2. CanInv /\ [CanNext]_canVars => CanInv'
    BY CanStep
<1> QED
    BY InitCan, <1>1, <1>2, PTL DEF CanSpec

-----------------------------------------------------------------------------
(* The test board and its host: the files                                  *)

Row == [boot : Nat, n : Nat]

\* A file system: every file is in a directory, and the sessions have an index.
Filed(d) ==
    /\ d = [p \in DOMAIN d |-> d[p]]
    /\ \A p \in DOMAIN d :
          /\ p \in Seq(Nat) /\ Len(p) \in 1..2 /\ p[1] \in 0..MaxIndex
          /\ <<p[1]>> \in DOMAIN d
          /\ d[p] \in Seq(Row)

DiskInv ==
    /\ Filed(disk)
    /\ flash \in {"good", "blank"} /\ (flash = "blank" => disk = <<>>)
    /\ bootStage \in {"mount", "format", "session", "create", "up", "hung"}
    /\ session \in Int /\ boot \in Nat /\ logged \in Nat
    /\ bootStage # "up" => ~mounted
    /\ bootStage \in {"session", "create"} => flash = "good"
    /\ bootStage = "create" =>
         /\ session \in 0..MaxIndex
         /\ \A p \in DOMAIN disk : p[1] = session => p = <<session>>
         /\ <<session>> \in DOMAIN disk
    /\ mounted => flash = "good" /\ session \in 0..MaxIndex

\* An erase under way has taken the file system away from the tasks.
CallFields == {"op", "path", "at", "len", "heard", "begun"}
CallInv ==
    /\ call # None => CallFields \subseteq DOMAIN call
    /\ Erasing => bootStage = "up" /\ ~mounted

LEMMA Paths1 ==
    ASSUME NEW i \in Nat, NEW f \in Nat
    PROVE  /\ <<i>> \in Seq(Nat) /\ Len(<<i>>) = 1 /\ <<i>>[1] = i
           /\ <<i, f>> \in Seq(Nat) /\ Len(<<i, f>>) = 2 /\ <<i, f>>[1] = i
           /\ <<i, f>> # <<i>>
OBVIOUS

LEMMA OnlyIndex ==
    ASSUME NEW p \in Seq(Nat), Len(p) = 1
    PROVE  p = <<p[1]>>
<1>1. p[1] \in Nat
    <2>1. 1 \in 1..Len(p)
        OBVIOUS
    <2> QED
        BY <2>1, ElementOfSeq
<1>2. <<p[1]>> \in Seq(Nat) /\ Len(<<p[1]>>) = 1 /\ <<p[1]>>[1] = p[1]
    BY <1>1
<1> QED
    BY <1>2, SeqEqual

LEMMA InDirectory ==
    ASSUME NEW i \in Nat, NEW p \in Seq(Nat), Len(p) \in 1..2
    PROVE  Below(<<i>>, p) <=> p[1] = i
<1> DEFINE a == <<i>>
           s == SubSeq(a, 1, 1)
           t == SubSeq(p, 1, 1)
<1>1. a \in Seq(Nat) /\ Len(a) = 1 /\ a[1] = i
    OBVIOUS
<1>2. \A j \in 1..1 : a[j] \in Nat /\ p[j] \in Nat
    BY <1>1, ElementOfSeq
<1>3. s \in Seq(Nat) /\ Len(s) = 1 /\ s[1] = i
    BY <1>1, <1>2, SubSeqProperties
<1>4. t \in Seq(Nat) /\ Len(t) = 1 /\ t[1] = p[1]
    BY <1>2, SubSeqProperties
<1>5. s = t <=> i = p[1]
    <2> HIDE DEF s, t
    <2>1. s = <<s[1]>> /\ t = <<t[1]>>
        BY <1>3, <1>4, OnlyIndex
    <2> QED
        BY <1>3, <1>4, <2>1
<1> QED
    BY <1>1, <1>5 DEF Below, IsPrefix

-----------------------------------------------------------------------------
LEMMA FiledWith ==
    ASSUME NEW d, Filed(d), NEW p \in Seq(Nat), Len(p) \in 1..2, p[1] \in 0..MaxIndex,
           NEW rows \in Seq(Row), p = <<p[1]>> \/ <<p[1]>> \in DOMAIN d
    PROVE  /\ Filed(With(d, p, rows))
           /\ DOMAIN With(d, p, rows) = DOMAIN d \union {p}
           /\ With(d, p, rows)[p] = rows
           /\ \A q \in DOMAIN d \ {p} : With(d, p, rows)[q] = d[q]
<1> DEFINE e == With(d, p, rows)
<1>1. DOMAIN e = DOMAIN d \union {p} /\ e = [q \in DOMAIN e |-> e[q]]
    BY DEF With
<1>2. e[p] = rows /\ \A q \in DOMAIN d \ {p} : e[q] = d[q]
    BY DEF With
<1> HIDE DEF e
<1>3. ASSUME NEW q \in DOMAIN e
      PROVE  /\ q \in Seq(Nat) /\ Len(q) \in 1..2 /\ q[1] \in 0..MaxIndex
             /\ <<q[1]>> \in DOMAIN e /\ e[q] \in Seq(Row)
    <2>1. CASE q = p
        BY <1>1, <1>2, <2>1
    <2>2. CASE q \in DOMAIN d \ {p}
        BY <1>1, <1>2, <2>2 DEF Filed
    <2> QED
        BY <1>1, <2>1, <2>2
<1>4. Filed(e)
    BY <1>1, <1>3 DEF Filed
<1> QED
    BY <1>1, <1>2, <1>4 DEF e

LEMMA FiledWithout ==
    ASSUME NEW d, Filed(d), NEW S, \A p \in DOMAIN d \ S : <<p[1]>> \notin S
    PROVE  /\ Filed(Without(d, S)) /\ DOMAIN Without(d, S) = DOMAIN d \ S
           /\ \A p \in DOMAIN d \ S : Without(d, S)[p] = d[p]
<1> DEFINE e == Without(d, S)
<1>1. DOMAIN e = DOMAIN d \ S /\ e = [q \in DOMAIN e |-> e[q]] /\ \A p \in DOMAIN d \ S : e[p] = d[p]
    BY DEF Without
<1> HIDE DEF e
<1>2. Filed(e)
    BY <1>1 DEF Filed
<1> QED
    BY <1>1, <1>2 DEF e

LEMMA MoreRows ==
    ASSUME NEW d, NEW e, \A p \in DOMAIN d : p \in DOMAIN e /\ ToSet(d[p]) \subseteq ToSet(e[p])
    PROVE  Rows(d) \subseteq Rows(e)
BY DEF Rows

LEMMA AppendedRows ==
    ASSUME NEW s \in Seq(Row), NEW r \in Row
    PROVE  Append(s, r) \in Seq(Row) /\ ToSet(s) \subseteq ToSet(Append(s, r))
<1>1. Append(s, r) \in Seq(Row) /\ Len(Append(s, r)) = Len(s) + 1 /\ Len(s) \in Nat
      /\ \A i \in 1..Len(s) : Append(s, r)[i] = s[i]
    BY AppendProperties, LenProperties
<1>2. DOMAIN s = 1..Len(s) /\ DOMAIN Append(s, r) = 1..(Len(s) + 1)
    BY <1>1, LenProperties
<1>3. 1..Len(s) \subseteq 1..(Len(s) + 1)
    BY <1>1
<1> QED
    BY <1>1, <1>2, <1>3 DEF ToSet

\* The index of the next session is no session's yet, unless the indices are used up.
LEMMA NextIndex ==
    ASSUME NEW d, Filed(d)
    PROVE  /\ SelectNextIndex(d) \in 0..MaxIndex
           /\ <<MaxIndex>> \notin DOMAIN d => \A p \in DOMAIN d : p[1] # SelectNextIndex(d)
<1> DEFINE I == {p[1] : p \in DOMAIN d}
           U == {u \in Nat : \A x \in I : x <= u}
<1>0. MaxIndex \in Nat
    BY BoardAssumption
<1>1. I \subseteq 0..MaxIndex
    BY DEF Filed
<1>2. CASE DOMAIN d = {}
    <2>1. d = <<>>
        <3>1. d \in [1..0 -> Row]
            BY <1>2 DEF Filed
        <3>2. d \in Seq(Row) /\ Len(d) = 0
            BY <3>1, SeqDef, LenProperties
        <3> QED
            BY <3>2, EmptySeq
    <2> QED
        BY <1>0, <1>2, <2>1 DEF SelectNextIndex
<1>3. CASE DOMAIN d # {}
    <2>1. d # <<>> /\ I # {}
        BY <1>3
    <2>2. U \subseteq Nat /\ MaxIndex \in U
        BY <1>0, <1>1
    <2>3. PICK m \in U : \A u \in U : m <= u
        BY <2>2, Common!LeastNat
    <2> HIDE DEF I
    <2>4. m \in I
        <3>1. SUFFICES ASSUME m \notin I PROVE FALSE
            OBVIOUS
        <3>2. \A x \in I : x \in Nat /\ x < m
            BY <1>1, <2>3, <3>1
        <3>3. m > 0 /\ m - 1 \in Nat
            BY <2>1, <2>3, <3>2
        <3>4. m - 1 \in U
            BY <3>2, <3>3
        <3> QED
            BY <2>3, <3>3, <3>4
    <2>5. \A x \in I : x <= m /\ x \in Int
        BY <1>1, <2>3
    <2>6. Max(I) \in I /\ \A x \in I : x <= Max(I) /\ x \in Int
        <3>1. \E x \in I : \A y \in I : x >= y
            BY <2>4, <2>5
        <3>2. Max(I) \in I /\ \A y \in I : Max(I) >= y
            BY <3>1 DEF Max
        <3> QED
            BY <2>5, <3>2
    <2>7. Max(I) \in 0..MaxIndex
        BY <1>1, <2>6
    <2>8. SelectNextIndex(d) = Min({MaxIndex, 1 + Max(I)})
        BY <2>1 DEF SelectNextIndex, I
    <2>9. ASSUME NEW x \in Nat, NEW y \in Nat PROVE Min({x, y}) = IF x <= y THEN x ELSE y
        <3>1. \E a \in {x, y} : \A b \in {x, y} : a <= b
            OBVIOUS
        <3>2. Min({x, y}) \in {x, y} /\ \A b \in {x, y} : Min({x, y}) <= b
            BY <3>1 DEF Min
        <3> QED
            BY <3>2
    <2>10. SelectNextIndex(d) = IF MaxIndex <= 1 + Max(I) THEN MaxIndex ELSE 1 + Max(I)
        BY <1>0, <2>7, <2>8, <2>9
    <2>11. <<MaxIndex>> \notin DOMAIN d => Max(I) # MaxIndex
        <3>1. PICK p \in DOMAIN d : p[1] = Max(I)
            BY <2>6 DEF I
        <3> QED
            BY <3>1 DEF Filed
    <2>12. <<MaxIndex>> \notin DOMAIN d => SelectNextIndex(d) = 1 + Max(I)
        BY <1>0, <2>7, <2>10, <2>11
    <2>13. \A p \in DOMAIN d : p[1] \in I
        BY DEF I
    <2>14. \A x \in I : x # 1 + Max(I)
        BY <2>6, <2>7
    <2> QED
        BY <1>0, <2>7, <2>10, <2>12, <2>13, <2>14
<1> QED
    BY <1>2, <1>3

-----------------------------------------------------------------------------
\* What the tool may do to the request under way: nothing, drop it, or put a new one.
ToolCall ==
    \/ call' = call
    \/ call' = None
    \/ call # None /\ call' = [call EXCEPT !.heard = FALSE]
    \/ call' = RequestOf

LEMMA KeepOrDrop == ASSUME KeepConnection \/ DropConnection PROVE ToolCall
BY DEF KeepConnection, DropConnection, ToolCall

LEMMA ProceedCall == ASSUME NEW rest, Proceed(rest) PROVE ToolCall
BY KeepOrDrop DEF Proceed

LEMMA FailsCall == ASSUME StepFails PROVE ToolCall
BY KeepOrDrop, ProceedCall DEF StepFails

LEMMA HearCall == ASSUME HearAnswer PROVE ToolCall
<1>1. CASE StepFails
    BY <1>1, FailsCall
<1>2. CASE \E rest : Proceed(rest)
    BY <1>2, ProceedCall
<1>3. ASSUME NEW a, HearKind(a) PROVE ToolCall
    BY <1>3, <1>2 DEF HearKind
<1>4. ASSUME NEW a, HearPage(a) PROVE ToolCall
    BY <1>4, <1>2 DEF HearPage
<1>5. ASSUME NEW a, HearSize(a) PROVE ToolCall
    BY <1>5, <1>1, <1>2 DEF HearSize
<1>6. ASSUME NEW a, HearChunk(a) PROVE ToolCall
    BY <1>6, <1>1, <1>2 DEF HearChunk
<1>7. \/ StepFails \/ HearKind(answer) \/ HearPage(answer) \/ HearSize(answer) \/ HearChunk(answer)
      \/ Proceed(Tail(todo))
    BY DEF HearAnswer
<1> QED
    BY <1>1, <1>2, <1>3, <1>4, <1>5, <1>6, <1>7

LEMMA LostCall == ASSUME ConnectionFails PROVE ToolCall
<1>1. \/ DropConnection
      \/ call' = IF call = None THEN None ELSE [call EXCEPT !.heard = FALSE]
    BY DEF ConnectionFails
<1> QED
    BY <1>1, KeepOrDrop DEF ToolCall

ToolStep == ToolWorks \/ TimeOut \/ Interrupt \/ \E c \in Command : Ask(c)

LEMMA ToolLeaves ==
    ASSUME ToolStep
    PROVE  UNCHANGED <<disk, flash, bootStage, mounted, session, boot, logged>> /\ ToolCall
<1>1. CASE SendRequest
    BY <1>1 DEF SendRequest, ToolCall
<1>2. CASE HearAnswer
    BY <1>2, HearCall DEF HearAnswer
<1>3. CASE FindClosed \/ TimeOut
    <2>1. ConnectionFails
        BY <1>3 DEF FindClosed, TimeOut
    <2> QED
        BY <2>1, LostCall DEF ConnectionFails
<1>4. CASE Reconnect
    BY <1>4 DEF Reconnect, ToolCall
<1>5. CASE Interrupt
    BY <1>5, KeepOrDrop DEF Interrupt
<1>6. CASE \E c \in Command : Ask(c)
    BY <1>6 DEF Ask, boardVars, ToolCall
<1> QED
    BY <1>1, <1>2, <1>3, <1>4, <1>5, <1>6 DEF ToolStep, ToolWorks

LEMMA NotErasing ==
    ASSUME CallInv, call' = call \/ call' = None, bootStage # "up" \/ UNCHANGED <<bootStage, mounted>>
    PROVE  CallInv'
<1>1. None.op # "erase"
    BY DEF None
<1> QED
    BY <1>1 DEF CallInv, Erasing

LEMMA ToolKeeps == ASSUME DiskInv, CallInv, ToolStep PROVE DiskInv' /\ CallInv'
<1>1. UNCHANGED <<disk, flash, bootStage, mounted, session, boot, logged>> /\ ToolCall
    BY ToolLeaves
<1>2. DiskInv'
    BY <1>1 DEF DiskInv, Filed
<1>3. UNCHANGED <<bootStage, mounted>>
    BY <1>1
<1>4. ASSUME call' = call \/ call' = None PROVE CallInv'
    BY <1>3, <1>4, NotErasing
<1>5. ASSUME call # None, call' = [call EXCEPT !.heard = FALSE] PROVE CallInv'
    <2>1. CallFields \subseteq DOMAIN call'
        BY <1>5 DEF CallInv
    <2>2. call'.op = call.op /\ call'.begun = call.begun
        BY <1>5 DEF CallInv
    <2>3. Erasing' => Erasing
        BY <2>2 DEF Erasing
    <2> QED
        BY <1>3, <2>1, <2>3 DEF CallInv
<1>6. ASSUME call' = RequestOf PROVE CallInv'
    <2>1. CallFields \subseteq DOMAIN call' /\ call'.begun = FALSE
        BY <1>6 DEF RequestOf, CallFields
    <2>2. ~Erasing'
        BY <2>1 DEF Erasing
    <2> QED
        BY <2>1, <2>2 DEF CallInv
<1>7. CallInv'
    BY <1>1, <1>4, <1>5, <1>6 DEF ToolCall
<1> QED
    BY <1>2, <1>7

-----------------------------------------------------------------------------
Kept == \/ Rows(disk) \subseteq Rows(disk')
        \/ call.op \in {"remove", "erase"}
        \/ bootStage = "format"
        \/ <<MaxIndex>> \in DOMAIN disk /\ bootStage = "session"

\* The steps of the boot before the session leave the files, or format the flash.
LEMMA MountSteps ==
    ASSUME DiskInv, CallInv, MountFilesystem \/ FormatFilesystem
    PROVE  DiskInv' /\ CallInv' /\ Kept
<1>1. /\ bootStage \in {"mount", "format"} /\ bootStage' \in {"format", "session"}
      /\ UNCHANGED <<mounted, session, call, boot, logged>>
    BY DEF MountFilesystem, FormatFilesystem
<1>2. CallInv'
    BY <1>1, NotErasing
<1>3. CASE MountFilesystem
    <2>1. UNCHANGED <<disk, flash>> /\ (bootStage' = "session" => flash = "good")
        BY <1>3 DEF MountFilesystem
    <2> QED
        BY <1>1, <1>2, <2>1 DEF DiskInv, Filed, Kept
<1>4. CASE FormatFilesystem
    <2>1. /\ disk' = <<>> /\ flash' = "good" /\ bootStage = "format" /\ bootStage' = "session"
        BY <1>4 DEF FormatFilesystem
    <2>2. DOMAIN disk' = {} /\ disk' = [p \in DOMAIN disk' |-> disk'[p]]
        BY <2>1
    <2> QED
        BY <1>1, <1>2, <2>1, <2>2 DEF DiskInv, Filed, Kept
<1> QED
    BY <1>3, <1>4

\* What is reused is the directory of the next session, which is there only if indices are used up.
LEMMA ReusedIs ==
    ASSUME Filed(disk)
    PROVE  LET i == SelectNextIndex(disk)
           IN  /\ i \in 0..MaxIndex /\ i \in Nat
               /\ \A p \in DOMAIN disk : p \in Reused <=> p[1] = i
               /\ <<MaxIndex>> \notin DOMAIN disk => Reused = {}
               /\ \A p \in DOMAIN disk : <<p[1]>> \in DOMAIN disk /\ <<p[1]>>[1] = p[1]
<1> DEFINE i == SelectNextIndex(disk)
<1>1. i \in 0..MaxIndex /\ (<<MaxIndex>> \notin DOMAIN disk => \A p \in DOMAIN disk : p[1] # i)
    BY NextIndex
<1>2. MaxIndex \in Nat /\ i \in Nat
    BY <1>1, BoardAssumption
<1>3. Reused = {p \in DOMAIN disk : Below(<<i>>, p)}
    BY DEF Reused
<1> HIDE DEF i
<1>4. \A p \in DOMAIN disk : p \in Reused <=> p[1] = i
    BY <1>2, <1>3, InDirectory DEF Filed
<1>5. <<MaxIndex>> \notin DOMAIN disk => Reused = {}
    BY <1>1, <1>3, <1>4
<1>6. ASSUME NEW p \in DOMAIN disk PROVE <<p[1]>> \in DOMAIN disk /\ <<p[1]>>[1] = p[1]
    <2>1. <<p[1]>> \in DOMAIN disk /\ p[1] \in 0..MaxIndex
        BY DEF Filed
    <2>2. p[1] \in Nat
        BY <1>2, <2>1
    <2> QED
        BY <2>1, <2>2, Paths1
<1> QED
    BY <1>1, <1>2, <1>4, <1>5, <1>6 DEF i

\* What each step of the board that writes files does to them.
LEMMA PrepareEffect ==
    ASSUME DiskInv, PrepareSession
    PROVE  /\ Filed(disk') /\ disk'[<<session'>>] = <<>> /\ <<session'>>[1] = session'
           /\ Len(<<session'>>) = 1 /\ <<session'>> \in DOMAIN disk' /\ session' \in 0..MaxIndex
           /\ \A q \in DOMAIN disk' \ {<<session'>>} :
                 q \in DOMAIN disk /\ disk'[q] = disk[q] /\ q[1] # session'
           /\ <<MaxIndex>> \notin DOMAIN disk =>
                 \A q \in DOMAIN disk : q \in DOMAIN disk' /\ disk'[q] = disk[q]
<1> DEFINE i == SelectNextIndex(disk)
           e == Without(disk, Reused)
<1>1. disk' = With(e, <<i>>, <<>>) /\ session' = i
    BY DEF PrepareSession
<1>2. Filed(disk)
    BY DEF DiskInv
<1>3. /\ i \in 0..MaxIndex /\ i \in Nat /\ (<<MaxIndex>> \notin DOMAIN disk => Reused = {})
      /\ \A p \in DOMAIN disk : p \in Reused <=> p[1] = i
      /\ \A p \in DOMAIN disk : <<p[1]>> \in DOMAIN disk /\ <<p[1]>>[1] = p[1]
    BY <1>2, ReusedIs
<1> HIDE DEF i
<1>4. <<i>> \in Seq(Nat) /\ Len(<<i>>) = 1 /\ <<i>>[1] = i
    BY <1>3, Paths1
<1>5. ASSUME NEW p \in DOMAIN disk \ Reused, <<p[1]>> \in Reused PROVE FALSE
    <2>1. PICK q : q = <<p[1]>>
        OBVIOUS
    <2>2. q \in DOMAIN disk /\ q[1] = p[1] /\ q \in Reused
        BY <1>3, <1>5, <2>1
    <2> QED
        BY <1>3, <1>5, <2>2
<1>6. Filed(e) /\ DOMAIN e = DOMAIN disk \ Reused /\ \A p \in DOMAIN disk \ Reused : e[p] = disk[p]
    BY <1>2, <1>5, FiledWithout
<1> HIDE DEF e
<1> DEFINE w == <<i>>
<1>7. /\ w \in Seq(Nat) /\ Len(w) \in 1..2 /\ w[1] \in 0..MaxIndex /\ w = <<w[1]>>
      /\ <<>> \in Seq(Row)
    BY <1>3, <1>4, EmptySeq
<1>8. /\ Filed(disk') /\ DOMAIN disk' = DOMAIN e \union {w} /\ disk'[w] = <<>>
      /\ \A q \in DOMAIN e \ {w} : disk'[q] = e[q]
    <2>1. disk' = With(e, w, <<>>)
        BY <1>1
    <2> HIDE DEF w
    <2>2. /\ Filed(With(e, w, <<>>)) /\ DOMAIN With(e, w, <<>>) = DOMAIN e \union {w}
          /\ \A q \in DOMAIN e \ {w} : With(e, w, <<>>)[q] = e[q]
        BY <1>6, <1>7, FiledWith, Zenon
    <2>3. With(e, w, <<>>)[w] = <<>>
        BY DEF With
    <2> QED
        BY <2>1, <2>2, <2>3, Zenon
<1>9. w[1] = i /\ Len(w) = 1 /\ w = <<session'>>
    BY <1>1, <1>4
<1> HIDE DEF w
<1>10. \A q \in DOMAIN disk' \ {w} : q \in DOMAIN disk /\ disk'[q] = disk[q] /\ q[1] # i
    BY <1>3, <1>6, <1>8
<1>11. ASSUME <<MaxIndex>> \notin DOMAIN disk, NEW q \in DOMAIN disk
       PROVE  q \in DOMAIN disk' /\ disk'[q] = disk[q]
    <2>1. q \in DOMAIN e /\ e[q] = disk[q] /\ q # w
        BY <1>3, <1>6, <1>9, <1>11
    <2> QED
        BY <1>8, <2>1
<1> QED
    BY <1>1, <1>3, <1>8, <1>9, <1>10, <1>11

LEMMA PrepareStep ==
    ASSUME DiskInv, CallInv, PrepareSession
    PROVE  DiskInv' /\ CallInv' /\ Kept
<1>1. /\ bootStage = "session" /\ bootStage' = "create" /\ flash = "good"
      /\ UNCHANGED <<flash, mounted, call, boot, logged>>
    BY DEF PrepareSession, DiskInv
<1> DEFINE w == <<session'>>
<1>2. /\ Filed(disk') /\ w \in DOMAIN disk' /\ session' \in 0..MaxIndex
      /\ \A q \in DOMAIN disk' \ {w} : q[1] # session'
      /\ <<MaxIndex>> \notin DOMAIN disk =>
            \A q \in DOMAIN disk : q \in DOMAIN disk' /\ disk'[q] = disk[q]
    BY PrepareEffect
<1> HIDE DEF w
<1>3. \A p \in DOMAIN disk' : p[1] = session' => p = w
    BY <1>2
<1>4. DiskInv'
    BY <1>1, <1>2, <1>3, BoardAssumption DEF DiskInv, w
<1>5. Kept
    BY <1>1, <1>2, MoreRows DEF Kept
<1>6. CallInv'
    BY <1>1, NotErasing
<1> QED
    BY <1>4, <1>5, <1>6

\* The files of a session that is being set up: none, the first, or both, written or empty.
NewFiles(d) ==
    LET f == <<session, Defmt>>
        g == <<session, BuildInfo>>
    IN  /\ Filed(d) /\ DOMAIN disk \subseteq DOMAIN d /\ DOMAIN d \subseteq DOMAIN disk \union {f, g}
        /\ \A q \in DOMAIN disk : d[q] = disk[q]
        /\ f \in DOMAIN d => d[f] = <<>>
        /\ g \in DOMAIN d => d[g] \in {<<>>, Info}

LEMMA CreateEffect ==
    ASSUME DiskInv, bootStage = "create"
    PROVE  LET log == With(disk, <<session, Defmt>>, <<>>)
           IN  /\ NewFiles(disk) /\ NewFiles(log)
               /\ \A i \in {<<>>, Info} : NewFiles(With(log, <<session, BuildInfo>>, i))
<1> DEFINE f == <<session, Defmt>>
           g == <<session, BuildInfo>>
           e == With(disk, f, <<>>)
<1>1. /\ Filed(disk) /\ session \in 0..MaxIndex /\ session \in Nat
      /\ <<session>> \in DOMAIN disk /\ boot \in Nat
      /\ \A p \in DOMAIN disk : p[1] = session => p = <<session>>
    BY BoardAssumption DEF DiskInv
<1>2. /\ f \in Seq(Nat) /\ Len(f) = 2 /\ f[1] = session /\ f # <<session>>
      /\ g \in Seq(Nat) /\ Len(g) = 2 /\ g[1] = session /\ g # <<session>> /\ f # g
    BY <1>1 DEF Defmt, BuildInfo
<1>3. <<>> \in Seq(Row) /\ Info \in Seq(Row)
    BY <1>1 DEF Row, Info
<1>4. f \notin DOMAIN disk /\ g \notin DOMAIN disk
    BY <1>1, <1>2
<1>5. NewFiles(disk)
    BY <1>1, <1>4 DEF NewFiles
<1> HIDE DEF f, g
<1>6. /\ Filed(e) /\ DOMAIN e = DOMAIN disk \union {f} /\ e[f] = <<>>
      /\ \A q \in DOMAIN disk : e[q] = disk[q]
    <2>1. /\ Filed(disk) /\ <<>> \in Seq(Row) /\ f \in Seq(Nat)
          /\ Len(f) \in 1..2 /\ f[1] \in 0..MaxIndex /\ <<f[1]>> \in DOMAIN disk
        BY <1>1, <1>2, <1>3
    <2>2. /\ Filed(e) /\ DOMAIN e = DOMAIN disk \union {f}
          /\ \A q \in DOMAIN disk \ {f} : e[q] = disk[q]
        BY <2>1, FiledWith, Zenon
    <2>3. e[f] = <<>>
        BY DEF With
    <2> QED
        BY <1>4, <2>2, <2>3
<1> HIDE DEF e
<1>7. NewFiles(e)
    BY <1>2, <1>4, <1>6 DEF NewFiles, f, g
<1>8. ASSUME NEW i \in {<<>>, Info} PROVE NewFiles(With(e, g, i))
    <2> DEFINE h == With(e, g, i)
    <2>0. i \in Seq(Row)
        BY <1>3, <1>8
    <2>1. /\ Filed(e) /\ i \in Seq(Row) /\ g \in Seq(Nat)
          /\ Len(g) \in 1..2 /\ g[1] \in 0..MaxIndex /\ <<g[1]>> \in DOMAIN e
        BY <1>1, <1>2, <1>6, <2>0
    <2>2. Filed(h) /\ DOMAIN h = DOMAIN e \union {g} /\ \A q \in DOMAIN e \ {g} : h[q] = e[q]
        BY <2>1, FiledWith, Zenon
    <2>3. h[g] = i
        BY DEF With
    <2> HIDE DEF h
    <2>4. /\ DOMAIN h = DOMAIN disk \union {f, g} /\ h[f] = <<>> /\ h[g] \in {<<>>, Info}
          /\ \A q \in DOMAIN disk : h[q] = disk[q]
        BY <1>2, <1>4, <1>6, <2>2, <2>3
    <2>5. NewFiles(h)
        BY <2>2, <2>4 DEF NewFiles, f, g
    <2> QED
        BY <2>5 DEF h
<1> QED
    BY <1>5, <1>7, <1>8 DEF e, f, g

LEMMA CreateStep ==
    ASSUME DiskInv, CallInv, CreateSessionFiles
    PROVE  DiskInv' /\ CallInv' /\ Kept
<1>1. /\ bootStage = "create" /\ bootStage' = "up" /\ mounted' = TRUE
      /\ UNCHANGED <<flash, session, call, boot, logged>>
      /\ disk' = With(With(disk, <<session, Defmt>>, <<>>), <<session, BuildInfo>>, Info)
    BY DEF CreateSessionFiles
<1>2. NewFiles(disk')
    BY <1>1, CreateEffect
<1>3. Filed(disk') /\ \A p \in DOMAIN disk : p \in DOMAIN disk' /\ disk'[p] = disk[p]
    BY <1>2 DEF NewFiles
<1>4. DiskInv'
    BY <1>1, <1>3 DEF DiskInv
<1>5. Rows(disk) \subseteq Rows(disk')
    BY <1>3, MoreRows
<1>6. CallInv'
    BY <1>1, NotErasing
<1> QED
    BY <1>4, <1>5, <1>6 DEF Kept

LEMMA AppendEffect ==
    ASSUME DiskInv, AppendToFile
    PROVE  LET f   == <<session, Defmt>>
               old == IF f \in DOMAIN disk THEN disk[f] ELSE <<>>
           IN  /\ Filed(disk') /\ DOMAIN disk' = DOMAIN disk \union {f}
               /\ old \in Seq(Row) /\ disk'[f] = Append(old, [boot |-> boot, n |-> logged + 1])
               /\ \A q \in DOMAIN disk \ {f} : disk'[q] = disk[q]
<1> DEFINE f == <<session, Defmt>>
           old == IF IsFile(f) THEN disk[f] ELSE <<>>
           row == [boot |-> boot, n |-> logged + 1]
<1>1. /\ mounted /\ <<session>> \in DOMAIN disk
      /\ disk' = With(disk, f, Append(old, row))
    BY DEF AppendToFile
<1>2. /\ Filed(disk) /\ session \in 0..MaxIndex /\ session \in Nat /\ boot \in Nat /\ logged \in Nat
    BY <1>1, BoardAssumption DEF DiskInv
<1>3. f \in Seq(Nat) /\ Len(f) = 2 /\ f[1] = session
    BY <1>2 DEF Defmt
<1> HIDE DEF f
<1>4. old = IF f \in DOMAIN disk THEN disk[f] ELSE <<>>
    BY <1>3 DEF IsFile
<1>5. row \in Row
    BY <1>2 DEF Row
<1> HIDE DEF row, old
<1>6. old \in Seq(Row)
    BY <1>2, <1>4, EmptySeq DEF Filed
<1>7. Append(old, row) \in Seq(Row)
    BY <1>5, <1>6
<1>8. /\ Filed(disk') /\ DOMAIN disk' = DOMAIN disk \union {f} /\ disk'[f] = Append(old, row)
      /\ \A q \in DOMAIN disk \ {f} : disk'[q] = disk[q]
    <2>1. /\ Filed(disk) /\ f \in Seq(Nat)
          /\ Len(f) \in 1..2 /\ f[1] \in 0..MaxIndex /\ <<f[1]>> \in DOMAIN disk
        BY <1>1, <1>2, <1>3
    <2> DEFINE new == Append(old, row)
    <2>2. new \in Seq(Row) /\ disk' = With(disk, f, new)
        BY <1>1, <1>7
    <2> HIDE DEF new
    <2>3. /\ Filed(With(disk, f, new)) /\ DOMAIN With(disk, f, new) = DOMAIN disk \union {f}
          /\ \A q \in DOMAIN disk \ {f} : With(disk, f, new)[q] = disk[q]
        BY <2>1, <2>2, FiledWith, Zenon
    <2>4. With(disk, f, new)[f] = new
        BY DEF With
    <2> QED
        BY <2>2, <2>3, <2>4, Zenon DEF new
<1> QED
    BY <1>4, <1>6, <1>8 DEF f, row

LEMMA AppendStep ==
    ASSUME DiskInv, CallInv, AppendToFile
    PROVE  DiskInv' /\ CallInv' /\ Kept
<1> DEFINE f   == <<session, Defmt>>
           old == IF f \in DOMAIN disk THEN disk[f] ELSE <<>>
           row == [boot |-> boot, n |-> logged + 1]
<1>1. /\ mounted /\ logged' = logged + 1
      /\ UNCHANGED <<flash, bootStage, mounted, session, call, boot>>
    BY DEF AppendToFile
<1>2. /\ flash = "good" /\ session \in 0..MaxIndex /\ boot \in Nat /\ logged \in Nat
      /\ bootStage = "up"
    BY <1>1, BoardAssumption DEF DiskInv
<1>3. /\ Filed(disk') /\ DOMAIN disk' = DOMAIN disk \union {f} /\ disk'[f] = Append(old, row)
      /\ old \in Seq(Row) /\ \A q \in DOMAIN disk \ {f} : disk'[q] = disk[q]
    BY AppendEffect
<1>4. row \in Row
    BY <1>2 DEF Row
<1> HIDE DEF row, f
<1>5. DiskInv'
    BY <1>1, <1>2, <1>3 DEF DiskInv
<1>6. ToSet(old) \subseteq ToSet(Append(old, row))
    BY <1>3, <1>4, AppendedRows
<1>7. \A p \in DOMAIN disk : p \in DOMAIN disk' /\ ToSet(disk[p]) \subseteq ToSet(disk'[p])
    BY <1>3, <1>6
<1>8. Rows(disk) \subseteq Rows(disk')
    BY <1>7, MoreRows
<1>9. CallInv'
    BY <1>1, NotErasing
<1> QED
    BY <1>5, <1>8, <1>9 DEF Kept

\* A directory goes when it is empty, so that no file is left without one.
LEMMA RemoveStep ==
    ASSUME DiskInv, CallInv, ServeRemove
    PROVE  DiskInv' /\ CallInv' /\ Kept
<1> DEFINE path == call.path
<1>1. /\ bootStage = "up" /\ call.op = "remove" /\ call' = None
      /\ UNCHANGED <<flash, bootStage, mounted, session, boot, logged>>
      /\ \/ disk' = disk
         \/ mounted /\ HandleRemove(call).err = "Ok" /\ disk' = Without(disk, {path})
    BY DEF ServeRemove, Reply, Answer
<1>2. CallInv'
    BY <1>1, NotErasing
<1>3. CASE disk' = disk
    BY <1>1, <1>2, <1>3 DEF DiskInv, Filed, Kept
<1>4. CASE mounted /\ HandleRemove(call).err = "Ok" /\ disk' = Without(disk, {path})
    <2>1. ~(IsDir(path) /\ Children(path) # {}) /\ path \in DOMAIN disk
        BY <1>4 DEF HandleRemove, Answer
    <2>2. ASSUME NEW p \in DOMAIN disk \ {path}, <<p[1]>> = path PROVE FALSE
        <3>0. p \in Seq(Nat) /\ Len(p) \in 1..2 /\ p[1] \in 0..MaxIndex
            BY DEF DiskInv, Filed
        <3>1. p \in Seq(Nat) /\ Len(p) \in 1..2 /\ p[1] \in Nat
            BY <3>0, BoardAssumption
        <3>2. Len(path) = 1
            BY <2>2
        <3>3. IsDir(path)
            BY <2>1, <3>2 DEF IsDir
        <3>4. Below(path, p)
            BY <2>2, <3>1, InDirectory
        <3>5. Len(p) = 2
            BY <2>2, <3>1, OnlyIndex
        <3>6. p \in Children(path)
            BY <3>2, <3>4, <3>5 DEF Children
        <3> QED
            BY <2>1, <3>3, <3>6
    <2>3. Filed(disk')
        BY <1>4, <2>2, FiledWithout DEF DiskInv
    <2>4. DiskInv'
        BY <1>1, <1>4, <2>3 DEF DiskInv
    <2> QED
        BY <1>1, <1>2, <2>4 DEF Kept
<1> QED
    BY <1>1, <1>3, <1>4

LEMMA WipedDisk == ASSUME Wiped PROVE Filed(disk') /\ disk' = <<>> /\ flash' = "blank"
<1>1. disk' = <<>> /\ flash' = "blank"
    BY DEF Wiped
<1>2. DOMAIN disk' = {} /\ disk' = [p \in DOMAIN disk' |-> disk'[p]]
    BY <1>1
<1> QED
    BY <1>1, <1>2 DEF Filed

\* Whatever is left half done is a file system, and has lost nothing but what may be lost.
LEMMA HalfDoneEffect ==
    ASSUME DiskInv, HalfDone
    PROVE  /\ Filed(disk') /\ flash' \in {"good", "blank"} /\ (flash' = "blank" => disk' = <<>>)
           /\ Kept
<1>0. Filed(disk) /\ flash \in {"good", "blank"} /\ (flash = "blank" => disk = <<>>)
    BY DEF DiskInv
<1>1. ASSUME Unwiped
      PROVE  Filed(disk') /\ flash' \in {"good", "blank"} /\ (flash' = "blank" => disk' = <<>>) /\ Kept
    BY <1>0, <1>1 DEF Unwiped, Filed, Kept
<1>2. CASE bootStage = "format"
    <2>1. Wiped \/ Unwiped
        BY <1>2 DEF HalfDone
    <2> QED
        BY <1>1, <1>2, <2>1, WipedDisk DEF Kept
<1>3. CASE bootStage = "session"
    <2>1. /\ flash' = flash /\ flash = "good"
          /\ \E s \in SUBSET Reused :
                (<<SelectNextIndex(disk)>> \in s => s = Reused) /\ disk' = Without(disk, s)
        BY <1>3 DEF HalfDone, DiskInv
    <2> DEFINE i == SelectNextIndex(disk)
    <2>2. PICK s \in SUBSET Reused : (<<i>> \in s => s = Reused) /\ disk' = Without(disk, s)
        BY <2>1
    <2>3. /\ \A p \in DOMAIN disk : p \in Reused <=> p[1] = i
          /\ <<MaxIndex>> \notin DOMAIN disk => Reused = {}
          /\ \A p \in DOMAIN disk : <<p[1]>> \in DOMAIN disk /\ <<p[1]>>[1] = p[1]
        BY <1>0, ReusedIs
    <2> HIDE DEF i
    <2>4. ASSUME NEW p \in DOMAIN disk \ s, <<p[1]>> \in s PROVE FALSE
        <3>1. p[1] = i
            BY <2>3, <2>4
        <3> QED
            BY <2>2, <2>3, <2>4, <3>1
    <2>5. /\ Filed(disk') /\ DOMAIN disk' = DOMAIN disk \ s
          /\ \A p \in DOMAIN disk \ s : disk'[p] = disk[p]
        BY <1>0, <2>2, <2>4, FiledWithout
    <2>6. CASE <<MaxIndex>> \in DOMAIN disk
        BY <1>3, <2>1, <2>5, <2>6 DEF Kept
    <2>7. CASE <<MaxIndex>> \notin DOMAIN disk
        <3>1. \A p \in DOMAIN disk : p \in DOMAIN disk' /\ disk'[p] = disk[p]
            BY <2>3, <2>5, <2>7
        <3> QED
            BY <2>1, <2>5, <3>1, MoreRows DEF Kept
    <2> QED
        BY <2>6, <2>7
<1>4. CASE bootStage = "create"
    <2>1. flash' = flash /\ flash = "good"
        BY <1>4 DEF HalfDone, DiskInv
    <2>2. NewFiles(disk')
        BY <1>4, CreateEffect DEF HalfDone
    <2>3. Filed(disk') /\ \A p \in DOMAIN disk : p \in DOMAIN disk' /\ disk'[p] = disk[p]
        BY <2>2 DEF NewFiles
    <2> QED
        BY <2>1, <2>3, MoreRows DEF Kept
<1>5. CASE bootStage \notin {"format", "session", "create"}
    <2>1. (Erasing /\ Wiped) \/ Unwiped
        BY <1>5 DEF HalfDone
    <2>2. CASE Erasing /\ Wiped
        BY <2>2, WipedDisk DEF Kept, Erasing
    <2> QED
        BY <1>1, <2>1, <2>2
<1> QED
    BY <1>2, <1>3, <1>4, <1>5

\* The end of a boot: the board starts again, or hangs.
LEMMA EndOfBoot ==
    ASSUME RestartBoard \/ PanicBoard \/ PowerFails
    PROVE  Stopped /\ (Restarted \/ Hung)
BY DEF RestartBoard, PanicBoard, PowerFails, Restarted, Hung

LEMMA StopStep ==
    ASSUME DiskInv, CallInv, RestartBoard \/ PanicBoard \/ PowerFails
    PROVE  DiskInv' /\ CallInv' /\ Kept
<1>1. Stopped /\ (Restarted \/ Hung)
    BY EndOfBoot
<1>2. /\ HalfDone /\ mounted' = FALSE /\ call' = None /\ UNCHANGED logged
      /\ \/ bootStage' = "mount" /\ session' = -1 /\ boot' = boot + 1
         \/ bootStage' = "hung" /\ UNCHANGED <<session, boot>>
    BY <1>1 DEF Stopped, Restarted, Hung
<1>3. /\ Filed(disk') /\ flash' \in {"good", "blank"} /\ (flash' = "blank" => disk' = <<>>)
      /\ Kept
    BY <1>2, HalfDoneEffect
<1>4. DiskInv'
    BY <1>2, <1>3 DEF DiskInv
<1>5. CallInv'
    <2>1. None.op # "erase"
        BY DEF None
    <2> QED
        BY <1>2, <2>1 DEF CallInv, Erasing
<1> QED
    BY <1>3, <1>4, <1>5

LEMMA DegradedStep ==
    ASSUME DiskInv, CallInv, RunDegraded
    PROVE  DiskInv' /\ CallInv' /\ Kept
<1>1. /\ bootStage \in {"format", "session", "create"} /\ bootStage' = "up" /\ session' = -1
      /\ HalfDone /\ UNCHANGED <<mounted, call, boot, logged>>
    BY DEF RunDegraded
<1>2. /\ Filed(disk') /\ flash' \in {"good", "blank"} /\ (flash' = "blank" => disk' = <<>>)
      /\ Kept
    BY <1>1, HalfDoneEffect
<1>3. DiskInv'
    BY <1>1, <1>2 DEF DiskInv
<1>4. CallInv'
    BY <1>1, NotErasing
<1> QED
    BY <1>2, <1>3, <1>4

LEMMA OtherBoardSteps ==
    ASSUME DiskInv, CallInv, ServeRead \/ BeginErase \/ EndErase \/ ServeRestart
    PROVE  DiskInv' /\ CallInv' /\ Kept
<1>1. CASE ServeRead \/ ServeRestart
    <2>1. UNCHANGED <<disk, flash, bootStage, mounted, session, boot, logged>> /\ call' = None
        BY <1>1 DEF ServeRead, ServeRestart, Reply
    <2>2. CallInv'
        BY <2>1, NotErasing
    <2> QED
        BY <2>1, <2>2 DEF DiskInv, Filed, Kept
<1>2. CASE BeginErase
    <2>1. /\ UNCHANGED <<disk, flash, bootStage, session, boot, logged>> /\ bootStage = "up" /\ call.op = "erase"
          /\ \/ mounted' = FALSE /\ call' = [call EXCEPT !.begun = TRUE]
             \/ mounted' = mounted /\ call' = None
        BY <1>2 DEF BeginErase, Reply
    <2>2. DiskInv'
        BY <2>1 DEF DiskInv, Filed
    <2>3. CASE mounted' = FALSE /\ call' = [call EXCEPT !.begun = TRUE]
        <3>1. None.op # "erase"
            BY DEF None
        <3>2. CallFields \subseteq DOMAIN call
            BY <2>1, <3>1 DEF CallInv
        <3>3. CallFields \subseteq DOMAIN call'
            BY <2>3, <3>2
        <3> QED
            BY <2>1, <2>2, <2>3, <3>3 DEF CallInv, Kept
    <2>4. CASE mounted' = mounted /\ call' = None
        BY <2>1, <2>2, <2>4, NotErasing DEF Kept
    <2> QED
        BY <2>1, <2>3, <2>4
<1>3. CASE EndErase
    <2>1. /\ Erasing /\ call.op = "erase" /\ call' = None
          /\ UNCHANGED <<bootStage, mounted, session, boot, logged>> /\ (Wiped \/ Unwiped)
        BY <1>3 DEF EndErase, Erasing, Reply
    <2>2. ~mounted /\ bootStage = "up"
        BY <2>1 DEF CallInv
    <2>3. CallInv'
        BY <2>1, NotErasing
    <2>4. DiskInv'
        <3>1. CASE Wiped
            BY <2>1, <2>2, <3>1, WipedDisk DEF DiskInv
        <3>2. CASE Unwiped
            BY <2>1, <3>2 DEF DiskInv, Filed, Unwiped
        <3> QED
            BY <2>1, <3>1, <3>2
    <2> QED
        BY <2>1, <2>3, <2>4 DEF Kept
<1> QED
    BY <1>1, <1>2, <1>3

LEMMA BoardKeeps ==
    ASSUME DiskInv, CallInv, BoardNext
    PROVE  DiskInv' /\ CallInv' /\ Kept
BY MountSteps, PrepareStep, CreateStep, AppendStep, RemoveStep, OtherBoardSteps, DegradedStep, StopStep
   DEF BoardNext, BoardWorks

\* A row that has reached the flash is lost only to a removal, an erase or the format of
\* a flash that this boot could not mount (init_filesystem): not to a restart at any
\* moment, a session set up half, a boot that goes on without storage or a later
\* session, as long as indices are left: for every limit of pages, chunks and indices,
\* for both builds, and whatever the host asks for.
THEOREM NoRowIsLost == HostSpec => RowsAreKept
<1>1. HostInit => DiskInv /\ CallInv
    <2> SUFFICES ASSUME HostInit PROVE DiskInv /\ CallInv
        OBVIOUS
    <2>1. DOMAIN disk = {} /\ disk = [p \in DOMAIN disk |-> disk[p]]
        BY DEF HostInit, BoardInit
    <2>2. DiskInv
        BY <2>1 DEF HostInit, BoardInit, DiskInv, Filed
    <2>3. None.op # "erase"
        BY DEF None
    <2> QED
        BY <2>2, <2>3 DEF HostInit, BoardInit, CallInv, Erasing
<1>2. DiskInv /\ CallInv /\ [HostNext]_hostVars => DiskInv' /\ CallInv'
    <2> SUFFICES ASSUME DiskInv, CallInv, [HostNext]_hostVars PROVE DiskInv' /\ CallInv'
        OBVIOUS
    <2>1. CASE UNCHANGED hostVars
        BY <2>1 DEF hostVars, boardVars, DiskInv, Filed, CallInv, Erasing
    <2> QED
        BY <2>1, BoardKeeps, ToolKeeps DEF HostNext, ToolStep
<1>3. DiskInv /\ CallInv /\ [HostNext]_hostVars =>
        [\/ Rows(disk) \subseteq Rows(disk')
         \/ call.op \in {"remove", "erase"}
         \/ bootStage = "format"
         \/ <<MaxIndex>> \in DOMAIN disk /\ bootStage = "session"]_boardVars
    <2> SUFFICES ASSUME DiskInv, CallInv, [HostNext]_hostVars, ~UNCHANGED boardVars
                 PROVE  Kept
        BY DEF Kept
    <2>1. CASE UNCHANGED hostVars
        BY <2>1 DEF hostVars
    <2>2. CASE BoardNext
        BY <2>2, BoardKeeps
    <2>3. CASE ToolStep
        BY <2>3, ToolLeaves DEF Kept
    <2> QED
        BY <2>1, <2>2, <2>3 DEF HostNext, ToolStep
<1> QED
    BY <1>1, <1>2, <1>3, PTL DEF HostSpec, RowsAreKept

-----------------------------------------------------------------------------
(* The test board and its host: the reports                                *)

\* The rows on the flash: those of a file follow one another, those of a directory are of one
\* boot, and those of the session in use are of this boot, up to the last one logged.
OneBoot(d) == \A p, q \in DOMAIN d : p[1] = q[1] =>
                  \A k \in DOMAIN d[p], l \in DOMAIN d[q] : d[p][k].boot = d[q][l].boot
RowsOf(d) ==
    /\ OneBoot(d)
    /\ \A p \in DOMAIN d :
          /\ Consecutive(d[p])
          /\ Len(p) = 1 => d[p] = <<>>
          /\ Len(p) = 2 => p[2] \in {BuildInfo, Defmt}
RowsOfSession(d, i, b, n) ==
    \A p \in DOMAIN d : p[1] = i =>
       \A k \in DOMAIN d[p] :
          d[p][k].boot = b /\ (p = <<i, Defmt>> => d[p][k].n = n + k - Len(d[p]))
RowsInv == RowsOf(disk) /\ (mounted => RowsOfSession(disk, session, boot, logged))

-----------------------------------------------------------------------------
Steps == [do : {"root", "list", "size", "chunk", "visit", "remove", "rmdir"},
          path : Seq(Nat), at : Nat, found : Seq(Nat)]

\* Steps of a pull from directory i: those to come, and the one that reads a file.
PullSteps(i) ==
    {s \in Steps : \/ s.do \in {"root", "list"} /\ s.path = <<i>>
                   \/ s.do = "size" /\ Len(s.path) = 2 /\ s.path[1] = i}
ReadSteps(i) ==
    PullSteps(i) \union {s \in Steps : s.do = "chunk" /\ Len(s.path) = 2 /\ s.path[1] = i}
RmSteps == {s \in Steps : s.do \in {"visit", "list", "remove", "rmdir"}}

\* What is left of a command: a pull stays in its directory and reads one file at a time; a
\* removal ends with the path it was asked for.
PullTodo(i, t) == t \in Seq(ReadSteps(i)) /\ t # <<>> /\ Tail(t) \in Seq(PullSteps(i))
RmTodo(p, t) ==
    /\ t \in Seq(RmSteps) /\ t # <<>>
    /\ t[Len(t)].path = p /\ t[Len(t)].do \in {"visit", "remove", "rmdir"}
TodoFor(c, t) ==
    /\ c.op = "pull" => PullTodo(c.path[1], t)
    /\ c.op = "rm" => RmTodo(c.path, t)
    /\ c.op \in {"erase", "reset", "panic"} => t = <<Step(c.op, <<>>)>>

CommandInv ==
    /\ mode \in {"connect", "idle", "run", "lost", "reboot"}
    /\ mode \in {"run", "lost"} => cmd \in Command
    /\ mode = "run" => TodoFor(cmd, todo)
    /\ waiting => mode = "run"

-----------------------------------------------------------------------------
\* The board of a connection that has not been closed: it works, or hangs.
Present == bootStage \in {"up", "hung"}

\* The board is up at the other end of a connection, and works on what the step asks, or on
\* nothing that changes what a pull reads.
Asks(q) == /\ q.op = RequestOf.op /\ q.path = RequestOf.path
           /\ q.at = RequestOf.at /\ q.len = RequestOf.len

Removed(p) == \A q \in DOMAIN disk : Below(p, q) => q = p /\ q = <<session, Defmt>>

\* What is copied is the beginning of what is on the flash, as long as the connection lasts.
CopyOf(rows, p) == p \in DOMAIN disk /\ rows \in Seq(Row) /\ IsPrefix(rows, disk[p])

\* What an answer says of the flash, and goes on to say while the board is up.
TellsOf(do, path, a) ==
    /\ do = "root" /\ Len(path) = 1 => a.kind = "Dir"
    /\ do = "list" => a.data \in Seq(Nat) /\ a.next \in Nat
    /\ do = "size" /\ a.kind = "File" =>
          path \in DOMAIN disk /\ a.size \in Nat
    /\ do = "chunk" =>
          a.data \in Seq(Row) /\ CopyOf(local[path[2]] \o a.data, path)
    /\ do \in {"remove", "rmdir", "erase"} => Removed(path)
Tells(a) == a.err = "Ok" => TellsOf(Head(todo).do, Head(todo).path, a)

ConnectionInv ==
    /\ link = "live" => Present
    /\ call # None /\ call.heard => waiting /\ answer = None /\ link = "live" /\ Asks(call)
    /\ answer # None => waiting /\ call = None /\ link = "live" /\ Tells(answer)
    /\ link = "live" /\ call # None /\ (mode = "idle" \/ (mode = "run" /\ cmd.op = "pull"))
         => call.op \in {"list", "stat", "read"}

Copies(l, names, t) ==
    /\ \A f \in names : f \in DOMAIN l /\ CopyOf(l[f], <<cmd.path[1], f>>)
    /\ t # <<>> /\ Head(t).do = "chunk" =>
          Head(t).path[2] \in DOMAIN l /\ CopyOf(l[Head(t).path[2]], Head(t).path)
Named(l) == l = [f \in DOMAIN l |-> l[f]]
PullInv ==
    /\ Named(local)
    /\ mode = "run" /\ cmd.op = "pull" /\ link = "live" => Copies(local, pulled, todo)

GoneInv ==
    gone # None =>
      /\ gone.path \in Seq(Nat) /\ gone.boot \in Nat /\ gone.boot <= boot
      /\ gone.boot = boot => Present /\ Removed(gone.path)

ToolInv == CommandInv /\ ConnectionInv /\ PullInv /\ GoneInv /\ PulledFromOneSession

-----------------------------------------------------------------------------
(* Beginnings of sequences                                                 *)

LEMMA PrefixIs ==
    ASSUME NEW S, NEW s \in Seq(S), NEW t \in Seq(S)
    PROVE  IsPrefix(s, t) <=> Len(s) <= Len(t) /\ \A k \in 1..Len(s) : s[k] = t[k]
<1>1. Len(s) \in Nat /\ Len(t) \in Nat
    BY LenProperties
<1> SUFFICES ASSUME Len(s) <= Len(t)
             PROVE  SubSeq(s, 1, Len(s)) = SubSeq(t, 1, Len(s))
                      <=> \A k \in 1..Len(s) : s[k] = t[k]
    BY DEF IsPrefix
<1> DEFINE u == SubSeq(t, 1, Len(s))
<1>2. \A k \in 1..Len(s) : t[k] \in S
    BY <1>1, ElementOfSeq
<1>3. u \in Seq(S) /\ Len(u) = Len(s) /\ \A k \in 1..Len(s) : u[k] = t[k]
    BY <1>1, <1>2, SubSeqProperties
<1>4. SubSeq(s, 1, Len(s)) = s
    BY SubSeqFull
<1> HIDE DEF u
<1>5. (\A k \in 1..Len(s) : s[k] = u[k]) => s = u
    BY <1>3, SeqEqual
<1>6. s = u <=> \A k \in 1..Len(s) : s[k] = t[k]
    BY <1>3, <1>5
<1> QED
    BY <1>4, <1>6 DEF u

LEMMA PrefixHas ==
    ASSUME NEW S, NEW s \in Seq(S), NEW t \in Seq(S), IsPrefix(s, t)
    PROVE  Len(s) <= Len(t) /\ \A k \in 1..Len(s) : s[k] = t[k]
BY PrefixIs

LEMMA PrefixGrows ==
    ASSUME NEW S, NEW s \in Seq(S), NEW t \in Seq(S), NEW r \in S, IsPrefix(s, t)
    PROVE  IsPrefix(s, Append(t, r))
<1>1. Len(s) \in Nat /\ Len(t) \in Nat
    BY LenProperties
<1>2. Append(t, r) \in Seq(S) /\ Len(Append(t, r)) = Len(t) + 1
      /\ \A k \in 1..Len(t) : Append(t, r)[k] = t[k]
    BY AppendProperties
<1>3. Len(s) <= Len(t) /\ \A k \in 1..Len(s) : s[k] = t[k]
    BY PrefixIs
<1>4. \A k \in 1..Len(s) : k \in 1..Len(t)
    BY <1>1, <1>3
<1>5. Len(s) <= Len(Append(t, r)) /\ \A k \in 1..Len(s) : s[k] = Append(t, r)[k]
    BY <1>1, <1>2, <1>3, <1>4
<1> QED
    BY <1>2, <1>5, PrefixIs

LEMMA MinOfTwo ==
    ASSUME NEW x \in Int, NEW y \in Int
    PROVE  Min({x, y}) = IF x <= y THEN x ELSE y
<1>1. \E a \in {x, y} : \A b \in {x, y} : a <= b
    OBVIOUS
<1>2. Min({x, y}) \in {x, y} /\ \A b \in {x, y} : Min({x, y}) <= b
    BY <1>1 DEF Min
<1> QED
    BY <1>2

\* What is read behind a prefix makes a longer prefix of it.
LEMMA ReadExtends ==
    ASSUME NEW S, NEW s \in Seq(S), NEW t \in Seq(S), NEW n \in Int, IsPrefix(s, t)
    PROVE  LET data == SubSeq(t, Len(s) + 1, Min({Len(s) + n, Len(t)}))
           IN  data \in Seq(S) /\ s \o data \in Seq(S) /\ IsPrefix(s \o data, t)
<1> DEFINE m == Min({Len(s) + n, Len(t)})
           data == SubSeq(t, Len(s) + 1, m)
<1>1. Len(s) \in Nat /\ Len(t) \in Nat
    BY LenProperties
<1>2. Len(s) <= Len(t) /\ \A k \in 1..Len(s) : s[k] = t[k]
    BY PrefixIs
<1>3. m \in Int /\ m <= Len(t)
    <2>1. Len(s) + n \in Int /\ Len(t) \in Int
        BY <1>1
    <2> QED
        BY <2>1, MinOfTwo
<1> HIDE DEF m
<1>4. \A k \in Len(s) + 1 .. m : k \in 1..Len(t)
    BY <1>1, <1>3
<1>5. \A k \in Len(s) + 1 .. m : t[k] \in S
    BY <1>4, ElementOfSeq
<1>6. /\ data \in Seq(S)
      /\ Len(data) = IF Len(s) + 1 <= m THEN m - (Len(s) + 1) + 1 ELSE 0
      /\ \A k \in 1 .. m - (Len(s) + 1) + 1 : data[k] = t[Len(s) + 1 + k - 1]
    <2>1. Len(s) + 1 \in Int
        BY <1>1
    <2> QED
        BY <2>1, <1>3, <1>5, SubSeqProperties
<1> HIDE DEF data
<1> DEFINE u == s \o data
<1>7. /\ u \in Seq(S) /\ Len(u) = Len(s) + Len(data)
      /\ \A k \in 1 .. Len(s) + Len(data) : u[k] = IF k <= Len(s) THEN s[k] ELSE data[k - Len(s)]
    BY <1>6, ConcatProperties
<1> HIDE DEF u
<1>8. Len(u) <= Len(t)
    BY <1>1, <1>2, <1>3, <1>6, <1>7
<1>9. ASSUME NEW k \in 1..Len(u) PROVE u[k] = t[k]
    <2>1. CASE k <= Len(s)
        <3>1. k \in 1..Len(s) + Len(data) /\ k \in 1..Len(s)
            BY <1>7, <2>1
        <3>2. u[k] = s[k]
            BY <1>7, <2>1, <3>1
        <3> QED
            BY <1>2, <3>1, <3>2
    <2>2. CASE k > Len(s)
        <3>1. /\ k - Len(s) \in 1..(m - (Len(s) + 1) + 1) /\ k \in 1..Len(s) + Len(data)
              /\ Len(s) + 1 + (k - Len(s)) - 1 = k
            BY <1>1, <1>3, <1>6, <1>7, <2>2
        <3>2. data[k - Len(s)] = t[k]
            BY <1>6, <3>1
        <3>3. u[k] = data[k - Len(s)]
            BY <1>1, <1>7, <2>2, <3>1
        <3> QED
            BY <3>2, <3>3
    <2> QED
        BY <1>1, <1>6, <1>7, <2>1, <2>2
<1>10. IsPrefix(u, t)
    BY <1>7, <1>8, <1>9, PrefixIs
<1> QED
    BY <1>6, <1>7, <1>10 DEF m, data, u

LEMMA ConsecutiveIs ==
    ASSUME NEW t \in Seq(Row)
    PROVE  Consecutive(t) <=>
             \A k \in 1..Len(t) : t[k].boot = t[1].boot /\ t[k].n = t[1].n + k - 1
<1>1. DOMAIN t = 1..Len(t) /\ Len(t) \in Nat
    BY LenProperties
<1>2. ASSUME NEW k \in 1..Len(t)
      PROVE  t[k] = [t[1] EXCEPT !.n = @ + k - 1]
               <=> t[k].boot = t[1].boot /\ t[k].n = t[1].n + k - 1
    <2>1. 1 \in 1..Len(t)
        BY <1>1
    <2>2. t[1] \in Row /\ t[k] \in Row
        BY <2>1, ElementOfSeq
    <2> DEFINE r == t[1]
               q == t[k]
    <2>3. q = [boot |-> q.boot, n |-> q.n] /\ r = [boot |-> r.boot, n |-> r.n]
        BY <2>2 DEF Row
    <2> HIDE DEF r, q
    <2>4. [r EXCEPT !.n = r.n + k - 1] = [boot |-> r.boot, n |-> r.n + k - 1]
        BY <2>3
    <2>5. [r EXCEPT !.n = @ + k - 1] = [r EXCEPT !.n = r.n + k - 1]
        OBVIOUS
    <2>6. q = [r EXCEPT !.n = @ + k - 1] <=> q.boot = r.boot /\ q.n = r.n + k - 1
        BY <2>3, <2>4
    <2> QED
        BY <2>6 DEF r, q
<1> QED
    BY <1>1, <1>2 DEF Consecutive

LEMMA PrefixConsecutive ==
    ASSUME NEW s \in Seq(Row), NEW t \in Seq(Row), IsPrefix(s, t), Consecutive(t)
    PROVE  Consecutive(s)
<1>1. Len(s) \in Nat /\ Len(t) \in Nat
    BY LenProperties
<1>2. Len(s) <= Len(t) /\ \A k \in 1..Len(s) : s[k] = t[k]
    BY PrefixIs
<1>3. \A k \in 1..Len(s) : k \in 1..Len(t) /\ 1 \in 1..Len(s)
    BY <1>1, <1>2
<1>4. \A k \in 1..Len(t) : t[k].boot = t[1].boot /\ t[k].n = t[1].n + k - 1
    BY ConsecutiveIs
<1>5. \A k \in 1..Len(s) : s[k].boot = s[1].boot /\ s[k].n = s[1].n + k - 1
    BY <1>2, <1>3, <1>4
<1> QED
    BY <1>5, ConsecutiveIs

\* A row behind those of this boot up to the last one logged.
LEMMA AppendConsecutive ==
    ASSUME NEW t \in Seq(Row), NEW b \in Nat, NEW n \in Nat,
           \A k \in 1..Len(t) : t[k].boot = b /\ t[k].n = n + k - Len(t)
    PROVE  LET u == Append(t, [boot |-> b, n |-> n + 1])
           IN  /\ u \in Seq(Row) /\ Len(u) = Len(t) + 1 /\ Consecutive(u)
               /\ \A k \in 1..Len(u) : u[k].boot = b /\ u[k].n = n + 1 + k - Len(u)
<1> DEFINE r == [boot |-> b, n |-> n + 1]
           u == Append(t, r)
<1>1. Len(t) \in Nat
    BY LenProperties
<1>2. r \in Row /\ r.boot = b /\ r.n = n + 1
    BY DEF Row
<1> HIDE DEF r
<1>3. /\ u \in Seq(Row) /\ Len(u) = Len(t) + 1 /\ u[Len(t) + 1] = r
      /\ \A k \in 1..Len(t) : u[k] = t[k]
    BY <1>2, AppendProperties
<1> HIDE DEF u
<1>4. ASSUME NEW k \in 1..Len(u) PROVE u[k].boot = b /\ u[k].n = n + 1 + k - Len(u)
    <2>1. CASE k = Len(t) + 1
        BY <1>1, <1>2, <1>3, <2>1
    <2>2. CASE k \in 1..Len(t)
        <3>1. u[k].boot = b /\ u[k].n = n + k - Len(t)
            BY <1>3, <2>2
        <3> QED
            BY <1>1, <1>3, <3>1
    <2> QED
        BY <1>1, <1>3, <2>1, <2>2
<1>5. 1 \in 1..Len(u)
    BY <1>1, <1>3
<1>6. u[1].boot = b /\ u[1].n = n + 1 + 1 - Len(u)
    BY <1>4, <1>5
<1>7. ASSUME NEW k \in 1..Len(u) PROVE u[k].boot = u[1].boot /\ u[k].n = u[1].n + k - 1
    <2>1. u[k].boot = b /\ u[k].n = n + 1 + k - Len(u)
        BY <1>4
    <2> QED
        BY <1>1, <1>3, <1>6, <2>1
<1>8. Consecutive(u)
    BY <1>3, <1>7, ConsecutiveIs
<1> QED
    BY <1>3, <1>4, <1>8 DEF u, r

-----------------------------------------------------------------------------
(* Listings                                                                *)

Sorted(s) == \A i, j \in DOMAIN s : i < j => s[i] < s[j]

\* A bounded set of numbers can be put in order.
LEMMA SortedEnumeration ==
    \A n \in Nat : \A T \in SUBSET (0..(n - 1)) :
        Cardinality(T) \in Nat /\ \E s \in [1..Cardinality(T) -> T] : Sorted(s)
<1> DEFINE Enumerable(T) == /\ IsFiniteSet(T) /\ Cardinality(T) \in Nat
                      /\ \E s \in [1..Cardinality(T) -> T] : Sorted(s)
           S == {n \in Nat : \A T \in SUBSET (0..(n - 1)) : Enumerable(T)}
<1>1. 0 \in S
    <2>1. \A T \in SUBSET (0..(0 - 1)) : T = {}
        OBVIOUS
    <2>2. IsFiniteSet({}) /\ Cardinality({}) = 0
        BY FS_EmptySet
    <2>3. <<>> \in [1..Cardinality({}) -> {}] /\ Sorted(<<>>)
        BY <2>2 DEF Sorted
    <2>4. \E s \in [1..Cardinality({}) -> {}] : Sorted(s)
        BY <2>3, Zenon
    <2>5. Enumerable({})
        BY <2>2, <2>4
    <2> QED
        BY <2>1, <2>5
<1>2. ASSUME NEW n \in Nat, n \in S PROVE n + 1 \in S
    <2> SUFFICES ASSUME NEW T \in SUBSET (0..n) PROVE Enumerable(T)
        OBVIOUS
    <2>1. CASE n \notin T
        <3>1. T \in SUBSET (0..(n - 1))
            BY <2>1
        <3> QED
            BY <1>2, <3>1
    <2>2. CASE n \in T
        <3> DEFINE U == T \ {n}
                   c == Cardinality(U)
        <3>1. U \in SUBSET (0..(n - 1))
            OBVIOUS
        <3>2. Enumerable(U)
            BY <1>2, <3>1
        <3>3. IsFiniteSet(U) /\ c \in Nat /\ T = U \union {n} /\ n \notin U
            BY <2>2, <3>2
        <3>4. IsFiniteSet(T) /\ Cardinality(T) = c + 1
            BY <3>3, FS_AddElement
        <3>5. PICK s \in [1..c -> U] : Sorted(s)
            BY <3>2
        <3> DEFINE e == [i \in 1..(c + 1) |-> IF i \in 1..c THEN s[i] ELSE n]
        <3> HIDE DEF U, c
        <3>6. e \in [1..(c + 1) -> T]
            BY <3>3, <3>5
        <3>7. ASSUME NEW i \in DOMAIN e, NEW j \in DOMAIN e, i < j PROVE e[i] < e[j]
            <4>1. i \in 1..c /\ e[i] = s[i] /\ s[i] \in U
                BY <3>3, <3>5, <3>7
            <4>2. CASE j \in 1..c
                <5>1. e[j] = s[j]
                    BY <4>2
                <5> QED
                    BY <3>5, <3>7, <4>1, <4>2, <5>1 DEF Sorted
            <4>3. CASE j \notin 1..c
                <5>1. e[j] = n
                    BY <4>3
                <5>2. s[i] \in 0..(n - 1)
                    BY <3>1, <4>1
                <5> QED
                    BY <4>1, <5>1, <5>2
            <4> QED
                BY <4>2, <4>3
        <3>8. Sorted(e)
            BY <3>7 DEF Sorted
        <3> HIDE DEF e
        <3>9. e \in [1..Cardinality(T) -> T]
            BY <3>4, <3>6
        <3>10. \E s2 \in [1..Cardinality(T) -> T] : Sorted(s2)
            BY <3>8, <3>9, Zenon
        <3>11. IsFiniteSet(T) /\ Cardinality(T) \in Nat
            BY <3>3, <3>4
        <3> QED
            BY <3>10, <3>11, Zenon
    <2> QED
        BY <2>1, <2>2
<1> HIDE DEF S
<1>3. Nat \subseteq S
    BY <1>1, <1>2, Common!NatInduct
<1> QED
    BY <1>3 DEF S

LEMMA EntriesAreNames ==
    ASSUME Filed(disk), RowsOf(disk), NEW p
    PROVE  Entries(p) \in Seq(Nat)
<1> DEFINE names == {q[Len(q)] : q \in Children(p)}
           F == {s \in [1..Cardinality(names) -> names] : Sorted(s)}
<1>1. names \in SUBSET (0..((MaxIndex + 3) - 1)) /\ MaxIndex + 3 \in Nat
    <2>1. MaxIndex \in Nat
        BY BoardAssumption
    <2>2. ASSUME NEW q \in Children(p) PROVE q[Len(q)] \in 0..((MaxIndex + 3) - 1)
        <3>1. q \in DOMAIN disk
            BY DEF Children
        <3>2. Len(q) \in 1..2 /\ q[1] \in 0..MaxIndex /\ (Len(q) = 2 => q[2] \in {1, 2})
            BY <3>1 DEF Filed, RowsOf, BuildInfo, Defmt
        <3>3. Len(q) = 1 \/ Len(q) = 2
            BY <3>2
        <3> QED
            BY <2>1, <3>2, <3>3
    <2> QED
        BY <2>1, <2>2
<1>2. names \subseteq Nat
    BY <1>1
<1> HIDE DEF names
<1>3. Cardinality(names) \in Nat /\ \E s \in [1..Cardinality(names) -> names] : Sorted(s)
    BY <1>1, SortedEnumeration
<1>4. Entries(p) = CHOOSE s \in [1..Cardinality(names) -> names] : Sorted(s)
    BY DEF Entries, names, Sorted
<1>5. Entries(p) \in [1..Cardinality(names) -> names]
    BY <1>3, <1>4
<1>6. Entries(p) \in Seq(names)
    BY <1>3, <1>5, SeqDef
<1> QED
    BY <1>2, <1>6, SeqMonotonic

LEMMA DirIsNoFile == ASSUME NEW p, IsDir(p) PROVE ~IsFile(p)
<1>1. CASE p = <<>>
    BY <1>1, EmptySeq DEF IsFile
<1>2. CASE Len(p) = 1
    BY <1>2 DEF IsFile
<1> QED
    BY <1>1, <1>2 DEF IsDir

LEMMA PageOfNames ==
    ASSUME Filed(disk), RowsOf(disk), NEW q, q.at \in Nat, HandleListDir(q).err = "Ok"
    PROVE  HandleListDir(q).data \in Seq(Nat) /\ HandleListDir(q).next \in Nat
<1> DEFINE all == Entries(q.path)
           m == Min({q.at + PageCap, Len(all)})
           page == SubSeq(all, q.at + 1, m)
           next == IF Len(all) > q.at + Len(page) THEN q.at + Len(page) ELSE 0
<1>1. all \in Seq(Nat)
    BY EntriesAreNames
<1> HIDE DEF all
<1>2. Len(all) \in Nat /\ PageCap \in Nat
    BY <1>1, LenProperties, BoardAssumption
<1>3. m \in Int /\ m <= Len(all)
    <2>1. q.at + PageCap \in Int
        BY <1>2
    <2> QED
        BY <1>2, <2>1, MinOfTwo
<1> HIDE DEF m
<1>4. \A k \in q.at + 1 .. m : k \in 1..Len(all)
    BY <1>2, <1>3
<1>5. \A k \in q.at + 1 .. m : all[k] \in Nat
    BY <1>1, <1>4, ElementOfSeq
<1>6. page \in Seq(Nat)
    <2>1. q.at + 1 \in Int
        OBVIOUS
    <2> QED
        BY <1>3, <1>5, <2>1, SubSeqProperties
<1> HIDE DEF page
<1>7. Len(page) \in Nat
    BY <1>6, LenProperties
<1>8. next \in Nat
    BY <1>2, <1>7
<1> HIDE DEF next
<1>9. IsDir(q.path)
    <2>1. ~IsDir(q.path) => HandleListDir(q) \in {Answer("NotDir"), Answer("NotFound")}
        BY DEF HandleListDir
    <2> QED
        BY <2>1 DEF Answer
<1> DEFINE whole == [Ok EXCEPT !.data = page, !.next = next]
<1>10. HandleListDir(q) = whole
    <2>1. HandleListDir(q) = CASE IsDir(q.path) -> whole
                               [] IsFile(q.path) -> Answer("NotDir")
                               [] OTHER -> Answer("NotFound")
        BY DEF HandleListDir, all, m, page, next
    <2>2. ~IsFile(q.path)
        BY <1>9, DirIsNoFile
    <2> HIDE DEF whole
    <2> QED
        BY <1>9, <2>1, <2>2
<1>11. HandleListDir(q).data = page /\ HandleListDir(q).next = next
    BY <1>10 DEF Ok, Answer
<1> QED
    BY <1>6, <1>8, <1>11

-----------------------------------------------------------------------------
(* The rows on the flash                                                   *)

LEMMA FewerFiles ==
    ASSUME NEW d, NEW e, \A q \in DOMAIN e : q \in DOMAIN d /\ e[q] = d[q]
    PROVE  /\ RowsOf(d) => RowsOf(e)
           /\ \A i, b, n : RowsOfSession(d, i, b, n) => RowsOfSession(e, i, b, n)
<1>1. RowsOf(d) => RowsOf(e)
    BY DEF RowsOf, OneBoot
<1>2. ASSUME NEW i, NEW b, NEW n, RowsOfSession(d, i, b, n) PROVE RowsOfSession(e, i, b, n)
    BY <1>2 DEF RowsOfSession
<1> QED
    BY <1>1, <1>2

LEMMA NoRows == Consecutive(<<>>) /\ DOMAIN <<>> = {}
BY DEF Consecutive

LEMMA PrepareRows == ASSUME DiskInv, RowsInv, PrepareSession PROVE RowsInv'
<1> DEFINE i == session'
<1>1. /\ Filed(disk') /\ disk'[<<i>>] = <<>> /\ <<i>>[1] = i /\ Len(<<i>>) = 1
      /\ \A q \in DOMAIN disk' \ {<<i>>} : q \in DOMAIN disk /\ disk'[q] = disk[q] /\ q[1] # i
    BY PrepareEffect
<1>2. ~mounted'
    BY DEF PrepareSession, DiskInv
<1> HIDE DEF i
<1>3. ASSUME NEW p \in DOMAIN disk', NEW q \in DOMAIN disk', p[1] = q[1],
             NEW k \in DOMAIN disk'[p], NEW l \in DOMAIN disk'[q]
      PROVE  disk'[p][k].boot = disk'[q][l].boot
    <2>1. p # <<i>> /\ q # <<i>>
        BY <1>1, <1>3, NoRows
    <2> QED
        BY <1>1, <1>3, <2>1 DEF RowsInv, RowsOf, OneBoot
<1>4. ASSUME NEW p \in DOMAIN disk'
      PROVE  /\ Consecutive(disk'[p])
             /\ Len(p) = 1 => disk'[p] = <<>>
             /\ Len(p) = 2 => p[2] \in {BuildInfo, Defmt}
    <2>1. CASE p = <<i>>
        BY <1>1, <2>1, NoRows
    <2>2. CASE p # <<i>>
        BY <1>1, <2>2 DEF RowsInv, RowsOf
    <2> QED
        BY <2>1, <2>2
<1>5. RowsOf(disk')
    BY <1>3, <1>4 DEF RowsOf, OneBoot
<1> QED
    BY <1>2, <1>5 DEF RowsInv

\* The session being set up has no rows but those of its boot.
LEMMA NewFilesRows ==
    ASSUME DiskInv, RowsOf(disk), bootStage = "create", NEW d, NewFiles(d)
    PROVE  RowsOf(d) /\ RowsOfSession(d, session, boot, logged)
<1> DEFINE f == <<session, Defmt>>
           g == <<session, BuildInfo>>
<1>1. /\ DOMAIN disk \subseteq DOMAIN d /\ DOMAIN d \subseteq DOMAIN disk \union {f, g}
      /\ \A q \in DOMAIN disk : d[q] = disk[q]
      /\ f \in DOMAIN d => d[f] = <<>>
      /\ g \in DOMAIN d => d[g] \in {<<>>, Info}
    BY DEF NewFiles
<1>2. /\ session \in Nat /\ boot \in Nat
      /\ \A p \in DOMAIN disk : p[1] = session => p = <<session>>
    BY BoardAssumption DEF DiskInv
<1>3. /\ f[1] = session /\ g[1] = session /\ Len(f) = 2 /\ Len(g) = 2 /\ Len(<<session>>) = 1
      /\ f[2] = Defmt /\ g[2] = BuildInfo /\ Defmt # BuildInfo
    BY <1>2 DEF Defmt, BuildInfo
<1>4. DOMAIN Info = {1} /\ Info[1].boot = boot /\ Consecutive(Info)
    BY <1>2 DEF Consecutive, Info
<1> HIDE DEF f, g
<1>5. ASSUME NEW p \in DOMAIN d, p[1] = session
      PROVE  \A k \in DOMAIN d[p] : d[p][k].boot = boot /\ p # f
    <2>1. CASE p = f
        BY <1>1, <2>1, NoRows
    <2>2. CASE p = g
        BY <1>1, <1>3, <1>4, <2>2, NoRows
    <2>3. CASE p \in DOMAIN disk
        <3>1. p = <<session>>
            BY <1>2, <1>5, <2>3
        <3>2. d[p] = <<>>
            BY <1>1, <1>3, <2>3, <3>1 DEF RowsOf
        <3> QED
            BY <3>2, NoRows
    <2> QED
        BY <1>1, <2>1, <2>2, <2>3
<1>6. RowsOfSession(d, session, boot, logged)
    BY <1>5 DEF RowsOfSession, f
<1>7. ASSUME NEW p \in DOMAIN d, NEW q \in DOMAIN d, p[1] = q[1],
             NEW k \in DOMAIN d[p], NEW l \in DOMAIN d[q]
      PROVE  d[p][k].boot = d[q][l].boot
    <2>1. CASE p[1] = session
        BY <1>5, <1>7, <2>1
    <2>2. CASE p[1] # session
        <3>1. p \in DOMAIN disk /\ q \in DOMAIN disk
            BY <1>1, <1>3, <1>7, <2>2
        <3> QED
            BY <1>1, <1>7, <3>1 DEF RowsOf, OneBoot
    <2> QED
        BY <2>1, <2>2
<1>8. ASSUME NEW p \in DOMAIN d
      PROVE  /\ Consecutive(d[p])
             /\ Len(p) = 1 => d[p] = <<>>
             /\ Len(p) = 2 => p[2] \in {BuildInfo, Defmt}
    <2>1. CASE p = f
        BY <1>1, <1>3, <2>1, NoRows
    <2>2. CASE p = g
        BY <1>1, <1>3, <1>4, <2>2, NoRows
    <2>3. CASE p \in DOMAIN disk
        BY <1>1, <2>3 DEF RowsOf
    <2> QED
        BY <1>1, <2>1, <2>2, <2>3
<1>9. RowsOf(d)
    BY <1>7, <1>8 DEF RowsOf, OneBoot
<1> QED
    BY <1>6, <1>9

LEMMA CreateRows == ASSUME DiskInv, RowsInv, CreateSessionFiles PROVE RowsInv'
<1>1. /\ bootStage = "create" /\ UNCHANGED <<session, boot, logged>>
      /\ disk' = With(With(disk, <<session, Defmt>>, <<>>), <<session, BuildInfo>>, Info)
    BY DEF CreateSessionFiles
<1>2. NewFiles(disk')
    BY <1>1, CreateEffect
<1>3. RowsOf(disk') /\ RowsOfSession(disk', session, boot, logged)
    BY <1>1, <1>2, NewFilesRows DEF RowsInv
<1> QED
    BY <1>1, <1>3 DEF RowsInv

LEMMA AppendRows == ASSUME DiskInv, RowsInv, AppendToFile PROVE RowsInv'
<1> DEFINE f == <<session, Defmt>>
           old == IF f \in DOMAIN disk THEN disk[f] ELSE <<>>
           u == Append(old, [boot |-> boot, n |-> logged + 1])
<1>1. /\ Filed(disk') /\ DOMAIN disk' = DOMAIN disk \union {f}
      /\ old \in Seq(Row) /\ disk'[f] = u
      /\ \A q \in DOMAIN disk \ {f} : disk'[q] = disk[q]
    BY AppendEffect
<1>2. /\ mounted /\ session \in Nat /\ boot \in Nat /\ logged \in Nat
      /\ logged' = logged + 1 /\ UNCHANGED <<mounted, session, boot>>
    BY BoardAssumption DEF AppendToFile, DiskInv
<1>3. f[1] = session /\ Len(f) = 2 /\ f[2] = Defmt /\ Defmt # BuildInfo
    BY <1>2 DEF Defmt, BuildInfo
<1>4. RowsOfSession(disk, session, boot, logged)
    BY <1>2 DEF RowsInv
<1>5. ASSUME NEW k \in 1..Len(old) PROVE old[k].boot = boot /\ old[k].n = logged + k - Len(old)
    <2>1. DOMAIN old = 1..Len(old)
        BY <1>1, LenProperties
    <2>2. CASE f \in DOMAIN disk
        <3>1. old = disk[f] /\ k \in DOMAIN disk[f]
            BY <2>1, <2>2
        <3> HIDE DEF old
        <3> QED
            BY <1>3, <1>4, <2>2, <3>1 DEF RowsOfSession
    <2>3. CASE f \notin DOMAIN disk
        <3>1. old = <<>>
            BY <2>3
        <3> QED
            BY <2>1, <3>1, NoRows
    <2> QED
        BY <2>2, <2>3
<1> HIDE DEF old
<1>6. /\ u \in Seq(Row) /\ Len(u) = Len(old) + 1 /\ Consecutive(u)
      /\ \A k \in 1..Len(u) : u[k].boot = boot /\ u[k].n = logged + 1 + k - Len(u)
    BY <1>1, <1>2, <1>5, AppendConsecutive
<1>7. DOMAIN u = 1..Len(u)
    BY <1>6, LenProperties
<1> HIDE DEF u, f
<1>8. ASSUME NEW p \in DOMAIN disk', p[1] = session, NEW k \in DOMAIN disk'[p]
      PROVE  disk'[p][k].boot = boot /\ (p = f => disk'[p][k].n = logged' + k - Len(disk'[p]))
    <2>1. CASE p = f
        BY <1>1, <1>2, <1>6, <1>7, <1>8, <2>1
    <2>2. CASE p # f
        BY <1>1, <1>4, <1>8, <2>2 DEF RowsOfSession
    <2> QED
        BY <2>1, <2>2
<1>9. RowsOfSession(disk', session, boot, logged')
    BY <1>8 DEF RowsOfSession, f
<1>10. ASSUME NEW p \in DOMAIN disk', NEW q \in DOMAIN disk', p[1] = q[1],
              NEW k \in DOMAIN disk'[p], NEW l \in DOMAIN disk'[q]
       PROVE  disk'[p][k].boot = disk'[q][l].boot
    <2>1. CASE p[1] = session
        BY <1>8, <1>10, <2>1
    <2>2. CASE p[1] # session
        <3>1. p \in DOMAIN disk \ {f} /\ q \in DOMAIN disk \ {f}
            BY <1>1, <1>3, <1>10, <2>2
        <3> QED
            BY <1>1, <1>10, <3>1 DEF RowsInv, RowsOf, OneBoot
    <2> QED
        BY <2>1, <2>2
<1>11. ASSUME NEW p \in DOMAIN disk'
       PROVE  /\ Consecutive(disk'[p])
              /\ Len(p) = 1 => disk'[p] = <<>>
              /\ Len(p) = 2 => p[2] \in {BuildInfo, Defmt}
    <2>1. CASE p = f
        <3>1. Consecutive(disk'[p])
            BY <1>1, <1>6, <2>1
        <3> QED
            BY <1>3, <2>1, <3>1
    <2>2. CASE p # f
        BY <1>1, <2>2 DEF RowsInv, RowsOf
    <2> QED
        BY <2>1, <2>2
<1>12. RowsOf(disk')
    BY <1>10, <1>11 DEF RowsOf, OneBoot
<1> QED
    BY <1>2, <1>9, <1>12 DEF RowsInv

LEMMA RemoveRows == ASSUME DiskInv, RowsInv, ServeRemove PROVE RowsInv'
<1>1. UNCHANGED <<mounted, session, boot, logged>>
    BY DEF ServeRemove
<1>2. disk' = disk \/ disk' = Without(disk, {call.path})
    BY DEF ServeRemove
<1>3. \A q \in DOMAIN disk' : q \in DOMAIN disk /\ disk'[q] = disk[q]
    BY <1>2 DEF Without
<1> QED
    BY <1>1, <1>3, FewerFiles DEF RowsInv

LEMMA HalfDoneRows ==
    ASSUME DiskInv, RowsOf(disk), HalfDone
    PROVE  RowsOf(disk')
<1>1. ASSUME \A q \in DOMAIN disk' : q \in DOMAIN disk /\ disk'[q] = disk[q] PROVE RowsOf(disk')
    BY <1>1, FewerFiles
<1>2. CASE bootStage = "create"
    <2>1. NewFiles(disk')
        BY <1>2, CreateEffect DEF HalfDone
    <2> QED
        BY <1>2, <2>1, NewFilesRows
<1>3. CASE bootStage = "session"
    <2>1. \E s : disk' = Without(disk, s)
        BY <1>3 DEF HalfDone
    <2>2. \A q \in DOMAIN disk' : q \in DOMAIN disk /\ disk'[q] = disk[q]
        BY <2>1 DEF Without
    <2> QED
        BY <1>1, <2>2
<1>4. CASE bootStage \notin {"session", "create"}
    <2>1. disk' = disk \/ disk' = <<>>
        BY <1>4 DEF HalfDone, Wiped, Unwiped
    <2>2. \A q \in DOMAIN disk' : q \in DOMAIN disk /\ disk'[q] = disk[q]
        BY <2>1, NoRows
    <2> QED
        BY <1>1, <2>2
<1> QED
    BY <1>2, <1>3, <1>4

LEMMA OtherRows ==
    ASSUME DiskInv, CallInv, RowsInv,
           \/ MountFilesystem \/ FormatFilesystem \/ ServeRead \/ BeginErase \/ EndErase \/ ServeRestart
    PROVE  RowsInv'
<1>1. disk' = disk \/ disk' = <<>>
    BY DEF MountFilesystem, FormatFilesystem, ServeRead, BeginErase, EndErase, ServeRestart, Wiped, Unwiped
<1>2. \A q \in DOMAIN disk' : q \in DOMAIN disk /\ disk'[q] = disk[q]
    BY <1>1, NoRows
<1>3. ~mounted' \/ UNCHANGED <<mounted, session, boot, logged>>
    BY DEF MountFilesystem, FormatFilesystem, ServeRead, BeginErase, EndErase, ServeRestart
<1> QED
    BY <1>2, <1>3, FewerFiles DEF RowsInv

LEMMA CutRows ==
    ASSUME DiskInv, RowsInv, RunDegraded \/ RestartBoard \/ PanicBoard \/ PowerFails
    PROVE  RowsInv'
<1>1. HalfDone /\ ~mounted'
    <2>1. CASE RunDegraded
        BY <2>1 DEF RunDegraded, DiskInv
    <2>2. CASE RestartBoard \/ PanicBoard \/ PowerFails
        <3>1. Stopped
            BY <2>2, EndOfBoot
        <3> QED
            BY <3>1 DEF Stopped
    <2> QED
        BY <2>1, <2>2
<1>2. RowsOf(disk')
    BY <1>1, HalfDoneRows DEF RowsInv
<1> QED
    BY <1>1, <1>2 DEF RowsInv

LEMMA BoardRows == ASSUME DiskInv, CallInv, RowsInv, BoardNext PROVE RowsInv'
BY PrepareRows, CreateRows, AppendRows, RemoveRows, OtherRows, CutRows DEF BoardNext, BoardWorks

-----------------------------------------------------------------------------
(* Lists of steps                                                          *)

LEMMA NewStep ==
    ASSUME NEW do \in {"root", "list", "size", "chunk", "visit", "remove", "rmdir"}, NEW p \in Seq(Nat)
    PROVE  Step(do, p) \in Steps /\ Step(do, p).do = do /\ Step(do, p).path = p
<1>1. <<>> \in Seq(Nat)
    BY EmptySeq
<1> QED
    BY <1>1 DEF Step, Steps

LEMMA Single ==
    ASSUME NEW S, NEW x \in S
    PROVE  <<x>> \in Seq(S) /\ Len(<<x>>) = 1 /\ <<x>>[1] = x /\ <<x>> # <<>>
OBVIOUS

LEMMA TodoHead ==
    ASSUME NEW S, NEW t \in Seq(S), t # <<>>
    PROVE  Head(t) \in S /\ Head(t) = t[1] /\ Tail(t) \in Seq(S) /\ Len(t) \in Nat \ {0}
           /\ (Tail(t) = <<>> <=> Len(t) = 1)
<1>1. Head(t) \in S /\ Tail(t) \in Seq(S) /\ Len(Tail(t)) = Len(t) - 1
    BY HeadTailProperties
<1>2. Len(t) \in Nat \ {0}
    BY EmptySeq
<1>3. Tail(t) = <<>> <=> Len(Tail(t)) = 0
    BY <1>1, EmptySeq
<1> QED
    BY <1>1, <1>2, <1>3

\* The steps put before the rest of a list.
LEMMA Prepended ==
    ASSUME NEW S, NEW pre \in Seq(S), NEW t \in Seq(S), t # <<>>
    PROVE  LET r == pre \o Tail(t)
           IN  /\ r \in Seq(S)
               /\ r = <<>> <=> pre = <<>> /\ Len(t) = 1
               /\ Len(t) # 1 => r # <<>> /\ r[Len(r)] = t[Len(t)]
               /\ Len(t) = 1 /\ pre # <<>> => r # <<>> /\ r[Len(r)] = pre[Len(pre)]
               /\ pre # <<>> => Head(r) = Head(pre)
               /\ Len(pre) = 1 => Tail(r) = Tail(t)
<1> DEFINE u == Tail(t)
           r == pre \o u
<1>1. /\ u \in Seq(S) /\ Len(u) = Len(t) - 1 /\ Len(t) \in Nat \ {0} /\ Len(pre) \in Nat
      /\ \A i \in 1..Len(u) : u[i] = t[i + 1]
    BY HeadTailProperties, EmptySeq, LenProperties
<1> HIDE DEF u
<1>2. /\ r \in Seq(S) /\ Len(r) = Len(pre) + Len(u)
      /\ \A i \in 1 .. Len(pre) + Len(u) : r[i] = IF i <= Len(pre) THEN pre[i] ELSE u[i - Len(pre)]
    BY <1>1, ConcatProperties
<1> HIDE DEF r
<1>3. \A s \in Seq(S) : s = <<>> <=> Len(s) = 0
    BY EmptySeq
<1>4. r = <<>> <=> pre = <<>> /\ Len(t) = 1
    <2>1. r = <<>> <=> Len(r) = 0
        BY <1>2, <1>3
    <2>2. pre = <<>> <=> Len(pre) = 0
        BY <1>3
    <2>3. Len(r) = Len(pre) + Len(t) - 1 /\ Len(pre) \in Nat /\ Len(t) \in Nat \ {0}
        BY <1>1, <1>2
    <2>4. Len(r) = 0 => Len(pre) = 0 /\ Len(t) = 1
        BY <2>3
    <2>5. Len(pre) = 0 /\ Len(t) = 1 => Len(r) = 0
        BY <2>3
    <2> QED
        BY <2>1, <2>2, <2>4, <2>5, Zenon
<1>5. ASSUME Len(t) # 1 PROVE r # <<>> /\ r[Len(r)] = t[Len(t)]
    <2>1. Len(r) \in 1..Len(pre) + Len(u) /\ Len(r) > Len(pre) /\ Len(r) - Len(pre) \in 1..Len(u)
          /\ Len(r) - Len(pre) + 1 = Len(t)
        BY <1>1, <1>2, <1>5
    <2>2. r[Len(r)] = u[Len(r) - Len(pre)]
        BY <1>1, <1>2, <2>1
    <2>3. u[Len(r) - Len(pre)] = t[Len(t)]
        BY <1>1, <2>1
    <2> QED
        BY <1>4, <1>5, <2>2, <2>3
<1>6. ASSUME pre # <<>> PROVE Len(pre) \in 1..Len(pre) + Len(u) /\ 1 \in 1..Len(pre) + Len(u) /\ 1 <= Len(pre)
    BY <1>1, <1>3, <1>6
<1>7. ASSUME Len(t) = 1, pre # <<>> PROVE r # <<>> /\ r[Len(r)] = pre[Len(pre)]
    <2>1. Len(r) = Len(pre)
        BY <1>1, <1>2, <1>7
    <2>2. r[Len(pre)] = pre[Len(pre)]
        BY <1>1, <1>2, <1>6, <1>7
    <2> QED
        BY <1>4, <1>7, <2>1, <2>2
<1>8. ASSUME pre # <<>> PROVE Head(r) = Head(pre)
    <2>1. r[1] = pre[1]
        BY <1>2, <1>6, <1>8
    <2>2. r # <<>>
        BY <1>4, <1>8
    <2> QED
        BY <1>2, <1>8, <2>1, <2>2, TodoHead
<1>9. ASSUME Len(pre) = 1 PROVE Tail(r) = u
    <2>0. pre = <<>> => Len(pre) = 0
        BY <1>3, Zenon
    <2>1. pre # <<>>
        BY <1>9, <2>0
    <2>2. r # <<>>
        BY <1>4, <2>1
    <2>3. /\ Tail(r) \in Seq(S) /\ Len(Tail(r)) = Len(r) - 1
          /\ \A i \in 1..Len(Tail(r)) : Tail(r)[i] = r[i + 1]
        BY <1>2, <2>2, HeadTailProperties
    <2>4. Len(Tail(r)) = Len(u)
        BY <1>1, <1>2, <1>9, <2>3
    <2>5. ASSUME NEW i \in 1..Len(Tail(r)) PROVE Tail(r)[i] = u[i]
        <3>1. i + 1 \in 1..Len(pre) + Len(u) /\ ~(i + 1 <= Len(pre)) /\ i + 1 - Len(pre) = i
            BY <1>1, <1>9, <2>4
        <3>2. r[i + 1] = u[i]
            BY <1>2, <3>1
        <3> QED
            BY <2>3, <3>2
    <2> QED
        BY <1>1, <2>3, <2>4, <2>5, SeqEqual
<1> QED
    BY <1>2, <1>4, <1>5, <1>7, <1>8, <1>9 DEF u, r

LEMMA PullPrepended ==
    ASSUME NEW i, NEW t, PullTodo(i, t), NEW pre \in Seq(PullSteps(i))
    PROVE  LET r == pre \o Tail(t)
           IN  (r = <<>> \/ PullTodo(i, r)) /\ (pre # <<>> => r # <<>>)
               /\ (r # <<>> => Head(r) \in PullSteps(i))
<1> DEFINE r == pre \o Tail(t)
<1>1. PullSteps(i) \subseteq ReadSteps(i)
    BY DEF ReadSteps
<1>2. Tail(t) \in Seq(PullSteps(i)) /\ t \in Seq(ReadSteps(i)) /\ t # <<>>
    BY DEF PullTodo
<1>3. r \in Seq(PullSteps(i))
    BY <1>2, ConcatProperties
<1>4. r \in Seq(ReadSteps(i))
    BY <1>1, <1>3, SeqMonotonic
<1>5. pre \in Seq(ReadSteps(i))
    BY <1>1, SeqMonotonic
<1>6. pre # <<>> => r # <<>>
    BY <1>2, <1>5, Prepended
<1> HIDE DEF r
<1>7. r # <<>> => Tail(r) \in Seq(PullSteps(i)) /\ Head(r) \in PullSteps(i)
    BY <1>3, TodoHead
<1>8. r = <<>> \/ PullTodo(i, r)
    BY <1>4, <1>7 DEF PullTodo
<1> QED
    BY <1>6, <1>7, <1>8 DEF r

LEMMA PullRest ==
    ASSUME NEW i, NEW t, PullTodo(i, t)
    PROVE  (Tail(t) = <<>> \/ PullTodo(i, Tail(t))) /\ (Tail(t) # <<>> => Head(Tail(t)) \in PullSteps(i))
<1>1. PullSteps(i) \subseteq ReadSteps(i)
    BY DEF ReadSteps
<1>2. Tail(t) \in Seq(PullSteps(i))
    BY DEF PullTodo
<1>3. Tail(t) \in Seq(ReadSteps(i))
    BY <1>1, <1>2, SeqMonotonic
<1>4. Tail(t) # <<>> => Tail(Tail(t)) \in Seq(PullSteps(i)) /\ Head(Tail(t)) \in PullSteps(i)
    BY <1>2, TodoHead
<1> QED
    BY <1>3, <1>4 DEF PullTodo

LEMMA PullReplaced ==
    ASSUME NEW i, NEW t, PullTodo(i, t), NEW s \in ReadSteps(i)
    PROVE  LET r == <<s>> \o Tail(t)
           IN  PullTodo(i, r) /\ r # <<>> /\ Head(r) = s
<1> DEFINE r == <<s>> \o Tail(t)
<1>1. t \in Seq(ReadSteps(i)) /\ t # <<>> /\ Tail(t) \in Seq(PullSteps(i))
    BY DEF PullTodo
<1>2. <<s>> \in Seq(ReadSteps(i)) /\ Len(<<s>>) = 1 /\ <<s>> # <<>> /\ Head(<<s>>) = s
    BY Single
<1>3. r \in Seq(ReadSteps(i)) /\ r # <<>> /\ Head(r) = s /\ Tail(r) = Tail(t)
    BY <1>1, <1>2, Prepended
<1> HIDE DEF r
<1>4. PullTodo(i, r)
    BY <1>1, <1>3 DEF PullTodo
<1> QED
    BY <1>3, <1>4 DEF r

LEMMA RmPrepended ==
    ASSUME NEW p, NEW t, RmTodo(p, t), NEW pre \in Seq(RmSteps),
           Len(t) = 1 => /\ pre # <<>> /\ pre[Len(pre)].path = p
                         /\ pre[Len(pre)].do \in {"visit", "remove", "rmdir"}
    PROVE  RmTodo(p, pre \o Tail(t))
<1> DEFINE r == pre \o Tail(t)
           last == r[Len(r)]
<1>1. t \in Seq(RmSteps) /\ t # <<>> /\ t[Len(t)].path = p /\ t[Len(t)].do \in {"visit", "remove", "rmdir"}
    BY DEF RmTodo
<1>2. /\ r \in Seq(RmSteps)
      /\ Len(t) # 1 => r # <<>> /\ last = t[Len(t)]
      /\ Len(t) = 1 /\ pre # <<>> => r # <<>> /\ last = pre[Len(pre)]
    BY <1>1, Prepended
<1> HIDE DEF last, r
<1>3. r # <<>> /\ last.path = p /\ last.do \in {"visit", "remove", "rmdir"}
    <2>1. CASE Len(t) = 1
        BY <1>2, <2>1
    <2>2. CASE Len(t) # 1
        BY <1>1, <1>2, <2>2
    <2> QED
        BY <2>1, <2>2
<1>4. RmTodo(p, r)
    BY <1>2, <1>3 DEF RmTodo, last
<1> QED
    BY <1>4 DEF r

LEMMA RmRest ==
    ASSUME NEW p, NEW t, RmTodo(p, t)
    PROVE  /\ Tail(t) = <<>> => Head(t).path = p /\ Head(t).do \in {"visit", "remove", "rmdir"}
           /\ Tail(t) # <<>> => RmTodo(p, Tail(t))
           /\ Head(t) \in RmSteps
<1>1. t \in Seq(RmSteps) /\ t # <<>> /\ t[Len(t)].path = p /\ t[Len(t)].do \in {"visit", "remove", "rmdir"}
    BY DEF RmTodo
<1>2. /\ Head(t) \in RmSteps /\ Head(t) = t[1] /\ Tail(t) \in Seq(RmSteps)
      /\ (Tail(t) = <<>> <=> Len(t) = 1)
    BY <1>1, TodoHead
<1>3. ASSUME Tail(t) # <<>> PROVE RmTodo(p, Tail(t))
    <2>1. <<>> \in Seq(RmSteps) /\ Len(t) # 1
        BY <1>2, <1>3, EmptySeq
    <2>2. RmTodo(p, <<>> \o Tail(t))
        BY <2>1, RmPrepended
    <2>3. <<>> \o Tail(t) = Tail(t)
        BY <1>2, ConcatEmptySeq
    <2> QED
        BY <2>2, <2>3
<1> QED
    BY <1>1, <1>2, <1>3

-----------------------------------------------------------------------------
(* What a command begins with                                              *)

\* A list of steps made from a list of names.
LEMMA StepsOfNames ==
    ASSUME NEW S, NEW names \in Seq(Nat), NEW f, \A i \in DOMAIN names : f[i] \in S, DOMAIN f = DOMAIN names,
           f = [i \in DOMAIN names |-> f[i]]
    PROVE  f \in Seq(S)
<1>1. DOMAIN names = 1..Len(names) /\ Len(names) \in Nat
    BY LenProperties
<1>2. f \in [1..Len(names) -> S]
    BY <1>1
<1> QED
    BY <1>1, <1>2, SeqDef

LEMMA Commands ==
    ASSUME NEW c \in Command
    PROVE  /\ c.op \in {"pull", "rm", "erase", "reset", "panic"}
           /\ c.path \in Seq(Nat)
           /\ c.op \in {"pull", "rm"} =>
                 Len(c.path) \in 1..2 /\ c.path[1] \in Nat /\ (Len(c.path) = 1 => c.path = <<c.path[1]>>)
           /\ c.op \in {"erase", "reset", "panic"} => c.path = <<>>
<1>0. MaxIndex \in Nat
    BY BoardAssumption
<1>1. ASSUME NEW p \in Paths
      PROVE  p \in Seq(Nat) /\ Len(p) \in 1..2 /\ p[1] \in Nat /\ (Len(p) = 1 => p = <<p[1]>>)
    <2>1. CASE \E i \in 0..MaxIndex : p = <<i>>
        BY <1>0, <2>1
    <2>2. CASE \E i \in 0..MaxIndex : \E f \in {BuildInfo, Defmt} : p = <<i, f>>
        BY <1>0, <2>2 DEF BuildInfo, Defmt
    <2> QED
        BY <2>1, <2>2 DEF Paths
<1>2. CASE c \in [op : {"pull", "rm"}, path : Paths]
    <2>1. c.op \in {"pull", "rm"} /\ c.path \in Paths
        BY <1>2
    <2> QED
        BY <1>1, <2>1
<1>3. CASE c \in [op : {"erase", "reset", "panic"}, path : {<<>>}]
    <2>1. c.op \in {"erase", "reset", "panic"} /\ c.path = <<>>
        BY <1>3
    <2> QED
        BY <2>1, EmptySeq
<1> QED
    BY <1>2, <1>3 DEF Command

\* Every command begins with steps of it.
LEMMA StartTodo == ASSUME NEW c \in Command PROVE TodoFor(c, Start(c))
<1> DEFINE p == c.path
           i == p[1]
<1>1. /\ c.op \in {"pull", "rm", "erase", "reset", "panic"} /\ p \in Seq(Nat)
      /\ c.op \in {"pull", "rm"} => Len(p) \in 1..2 /\ i \in Nat /\ (Len(p) = 1 => p = <<i>>)
    BY Commands
<1> HIDE DEF p
<1>2. CASE c.op = "pull"
    <2> DEFINE s == IF Len(p) = 2 THEN Step("size", p) ELSE Step("root", p)
    <2>1. Start(c) = <<s>>
        BY <1>2 DEF Start, p
    <2>2. Step("size", p) \in Steps /\ Step("size", p).do = "size" /\ Step("size", p).path = p
          /\ Step("root", p) \in Steps /\ Step("root", p).do = "root" /\ Step("root", p).path = p
        BY <1>1, NewStep
    <2>3. s \in PullSteps(i)
        <3>1. CASE Len(p) = 2
            BY <2>2, <3>1 DEF PullSteps
        <3>2. CASE Len(p) # 2
            <4>1. p = <<i>>
                BY <1>1, <1>2, <3>2
            <4> QED
                BY <2>2, <3>2, <4>1 DEF PullSteps
        <3> QED
            BY <3>1, <3>2
    <2> HIDE DEF s
    <2>4. <<s>> \in Seq(PullSteps(i)) /\ <<s>> \in Seq(ReadSteps(i)) /\ <<s>> # <<>>
        BY <2>3 DEF ReadSteps
    <2>5. Tail(<<s>>) \in Seq(PullSteps(i))
        BY <2>4, TodoHead
    <2>6. PullTodo(i, <<s>>)
        BY <2>4, <2>5 DEF PullTodo
    <2> QED
        BY <1>2, <2>1, <2>6 DEF TodoFor, p
<1>3. CASE c.op = "rm"
    <2> DEFINE s == Step("visit", p)
    <2>1. Start(c) = <<s>>
        BY <1>3 DEF Start, p
    <2>2. s \in Steps /\ s.do = "visit" /\ s.path = p
        BY <1>1, NewStep
    <2> HIDE DEF s
    <2>3. s \in RmSteps
        BY <2>2 DEF RmSteps
    <2>4. <<s>> \in Seq(RmSteps) /\ Len(<<s>>) = 1 /\ <<s>>[1] = s /\ <<s>> # <<>>
        BY <2>3, Single
    <2>5. RmTodo(p, <<s>>)
        BY <2>2, <2>4 DEF RmTodo
    <2> QED
        BY <1>3, <2>1, <2>5 DEF TodoFor, p
<1>4. CASE c.op \in {"erase", "reset", "panic"}
    <2>1. Start(c) = <<Step(c.op, <<>>)>>
        BY <1>4 DEF Start
    <2> QED
        BY <1>4, <2>1 DEF TodoFor
<1> QED
    BY <1>1, <1>2, <1>3, <1>4

-----------------------------------------------------------------------------
(* What is left of a command after an answer                               *)

\* What an answer does to a command: it goes on with rest, or ends; or is given up.
Goes(rest) ==
    /\ Proceed(rest) /\ (rest = <<>> \/ TodoFor(cmd, rest))
    /\ rest = <<>> /\ cmd.op \in {"rm", "erase"} =>
          Head(todo).do \in {"remove", "rmdir", "erase"} /\ Head(todo).path = cmd.path
GivesUp == mode' = "idle" /\ todo' = <<>> /\ KeepConnection /\ UNCHANGED gone

Running == cmd \in Command /\ TodoFor(cmd, todo)

\* The next step of each command.
LEMMA NextStep ==
    ASSUME Running
    PROVE  /\ cmd.op \in {"pull", "rm", "erase", "reset", "panic"}
           /\ cmd.op = "pull" => PullTodo(cmd.path[1], todo) /\ Head(todo) \in ReadSteps(cmd.path[1])
                                 /\ cmd.path[1] \in Nat
           /\ cmd.op = "rm" => RmTodo(cmd.path, todo) /\ Head(todo) \in RmSteps
           /\ cmd.op \in {"erase", "reset", "panic"} =>
                 Head(todo).do = cmd.op /\ Head(todo).path = <<>> /\ Tail(todo) = <<>> /\ cmd.path = <<>>
<1>1. /\ cmd.op \in {"pull", "rm", "erase", "reset", "panic"}
      /\ cmd.op \in {"erase", "reset", "panic"} => cmd.path = <<>>
      /\ cmd.op = "pull" => cmd.path[1] \in Nat
    BY Commands DEF Running
<1>2. ASSUME cmd.op = "pull" PROVE PullTodo(cmd.path[1], todo) /\ Head(todo) \in ReadSteps(cmd.path[1])
    <2>1. PullTodo(cmd.path[1], todo)
        BY <1>2 DEF Running, TodoFor
    <2>2. todo \in Seq(ReadSteps(cmd.path[1])) /\ todo # <<>>
        BY <2>1 DEF PullTodo
    <2> QED
        BY <2>1, <2>2, TodoHead
<1>3. ASSUME cmd.op = "rm" PROVE RmTodo(cmd.path, todo) /\ Head(todo) \in RmSteps
    <2>1. RmTodo(cmd.path, todo)
        BY <1>3 DEF Running, TodoFor
    <2> QED
        BY <2>1, RmRest
<1>4. ASSUME cmd.op \in {"erase", "reset", "panic"}
      PROVE  Head(todo).do = cmd.op /\ Head(todo).path = <<>> /\ Tail(todo) = <<>>
    <2> DEFINE s == Step(cmd.op, <<>>)
    <2>1. todo = <<s>>
        BY <1>4 DEF Running, TodoFor
    <2>2. s.do = cmd.op /\ s.path = <<>>
        BY DEF Step
    <2> HIDE DEF s
    <2>3. Head(<<s>>) = s /\ Tail(<<s>>) = <<>>
        BY Single, TodoHead
    <2> QED
        BY <2>1, <2>2, <2>3
<1> QED
    BY <1>1, <1>2, <1>3, <1>4

LEMMA RestGoes ==
    ASSUME Running, Proceed(Tail(todo)), cmd.op = "pull" \/ Head(todo).do \notin {"visit", "list"}
    PROVE  Goes(Tail(todo)) /\ (cmd.op = "pull" /\ Tail(todo) # <<>> => Head(Tail(todo)).do # "chunk")
<1>1. CASE cmd.op = "pull"
    <2>1. PullTodo(cmd.path[1], todo)
        BY <1>1, NextStep
    <2>2. /\ Tail(todo) = <<>> \/ PullTodo(cmd.path[1], Tail(todo))
          /\ Tail(todo) # <<>> => Head(Tail(todo)) \in PullSteps(cmd.path[1])
        BY <2>1, PullRest
    <2> QED
        BY <1>1, <2>2 DEF Goes, TodoFor, PullSteps
<1>2. CASE cmd.op = "rm"
    <2>1. RmTodo(cmd.path, todo)
        BY <1>2, NextStep
    <2>2. /\ Tail(todo) = <<>> => Head(todo).path = cmd.path /\ Head(todo).do \in {"visit", "remove", "rmdir"}
          /\ Tail(todo) # <<>> => RmTodo(cmd.path, Tail(todo))
        BY <2>1, RmRest
    <2> QED
        BY <1>2, <2>2 DEF Goes, TodoFor
<1>3. CASE cmd.op \in {"erase", "reset", "panic"}
    BY <1>3, NextStep DEF Goes
<1> QED
    BY <1>1, <1>2, <1>3, NextStep

LEMMA FailOutcome ==
    ASSUME Running, StepFails
    PROVE  \/ GivesUp
           \/ cmd.op = "pull" /\ Goes(Tail(todo)) /\ (Tail(todo) # <<>> => Head(Tail(todo)).do # "chunk")
<1>1. CASE Tolerant
    <2>1. cmd.op = "pull" /\ Proceed(Tail(todo))
        BY <1>1 DEF Tolerant, StepFails
    <2> QED
        BY <2>1, RestGoes
<1>2. CASE ~Tolerant
    BY <1>2 DEF StepFails, GivesUp
<1> QED
    BY <1>1, <1>2

LEMMA KindOutcome ==
    ASSUME Running, NEW a, HearKind(a), Head(todo).do \in {"root", "visit"},
           Head(todo).do = "root" /\ Len(Head(todo).path) = 1 => a.kind = "Dir"
    PROVE  \E rest : Goes(rest) /\ rest # <<>> /\ (cmd.op = "pull" => Head(rest).do # "chunk")
<1> DEFINE s == Head(todo)
           next == CASE s.do = "root" -> <<Step(IF a.kind = "File" THEN "size" ELSE "list", s.path)>>
                     [] s.do = "visit" /\ a.kind = "File" -> <<Step("remove", s.path)>>
                     [] OTHER -> <<Step("list", s.path), Step("rmdir", s.path)>>
           rest == next \o Tail(todo)
<1>1. Proceed(rest)
    BY DEF HearKind
<1>2. CASE cmd.op = "pull"
    <2> DEFINE i == cmd.path[1]
    <2>1. PullTodo(i, todo) /\ s \in ReadSteps(i) /\ i \in Nat
        BY <1>2, NextStep
    <2>2. s.do = "root" /\ s.path = <<i>>
        BY <2>1 DEF ReadSteps, PullSteps, Steps
    <2>3. <<i>> \in Seq(Nat) /\ Len(<<i>>) = 1
        BY <2>1, Single
    <2>4. a.kind = "Dir"
        BY <2>2, <2>3
    <2> DEFINE l == Step("list", <<i>>)
    <2>5. next = <<l>>
        BY <2>2, <2>4
    <2>6. l \in PullSteps(i)
        <3>1. l \in Steps /\ l.do = "list" /\ l.path = <<i>>
            BY <2>3, NewStep
        <3> HIDE DEF l
        <3> QED
            BY <3>1 DEF PullSteps
    <2> HIDE DEF next, l
    <2>7. next \in Seq(PullSteps(i)) /\ next # <<>>
        BY <2>5, <2>6, Single
    <2>8. /\ rest = <<>> \/ PullTodo(i, rest)
          /\ rest # <<>>
          /\ Head(rest) \in PullSteps(i)
        BY <2>1, <2>7, PullPrepended
    <2> HIDE DEF rest
    <2>9. Head(rest).do # "chunk"
        BY <2>8 DEF PullSteps
    <2> QED
        BY <1>1, <1>2, <2>8, <2>9 DEF Goes, TodoFor
<1>3. CASE cmd.op = "rm"
    <2>1. RmTodo(cmd.path, todo) /\ s \in RmSteps
        BY <1>3, NextStep
    <2>2. s.do = "visit" /\ s.path \in Seq(Nat)
        BY <2>1 DEF RmSteps, Steps
    <2> DEFINE p == s.path
    <2>3. /\ Step("remove", p) \in RmSteps /\ Step("list", p) \in RmSteps /\ Step("rmdir", p) \in RmSteps
          /\ Step("remove", p).do = "remove" /\ Step("rmdir", p).do = "rmdir"
          /\ Step("remove", p).path = p /\ Step("rmdir", p).path = p
        BY <2>2, NewStep DEF RmSteps
    <2>4. /\ next \in Seq(RmSteps) /\ next # <<>> /\ next[Len(next)].path = p
          /\ next[Len(next)].do \in {"remove", "rmdir"}
        <3>1. CASE a.kind = "File"
            <4>1. next = <<Step("remove", p)>>
                BY <2>2, <3>1
            <4> HIDE DEF next
            <4> QED
                BY <2>3, <4>1, Single
        <3>2. CASE a.kind # "File"
            <4> DEFINE x == Step("list", p)
                       y == Step("rmdir", p)
            <4>1. next = <<x, y>>
                BY <2>2, <3>2
            <4>2. x \in RmSteps /\ y \in RmSteps /\ y.do = "rmdir" /\ y.path = p
                BY <2>3
            <4> HIDE DEF next, x, y
            <4>3. <<x, y>> \in Seq(RmSteps) /\ Len(<<x, y>>) = 2 /\ <<x, y>>[2] = y /\ <<x, y>> # <<>>
                BY <4>2
            <4> QED
                BY <4>1, <4>2, <4>3
        <3> QED
            BY <3>1, <3>2
    <2> HIDE DEF next
    <2>5. Tail(todo) = <<>> => p = cmd.path
        BY <2>1, RmRest
    <2>6. todo \in Seq(RmSteps) /\ todo # <<>>
        BY <2>1 DEF RmTodo
    <2>7. Len(todo) = 1 => Tail(todo) = <<>>
        BY <2>6, TodoHead
    <2>8. RmTodo(cmd.path, rest)
        BY <2>1, <2>4, <2>5, <2>7, RmPrepended
    <2> HIDE DEF rest
    <2>9. rest # <<>>
        BY <2>8 DEF RmTodo
    <2> QED
        BY <1>1, <1>3, <2>8, <2>9 DEF Goes, TodoFor
<1>4. CASE cmd.op \in {"erase", "reset", "panic"}
    BY <1>4, NextStep
<1> QED
    BY <1>2, <1>3, <1>4, NextStep

LEMMA AppendedTo ==
    ASSUME NEW S, NEW s \in Seq(S), NEW x \in S
    PROVE  /\ Append(s, x) \in Seq(S) /\ Len(Append(s, x)) = Len(s) + 1
           /\ \A k \in 1..Len(s) : Append(s, x)[k] = s[k]
BY AppendProperties

LEMMA ChildPath ==
    ASSUME NEW p \in Seq(Nat), NEW n \in Nat, Len(p) = 1
    PROVE  Child(p, n) \in Seq(Nat) /\ Len(Child(p, n)) = 2 /\ Child(p, n)[1] = p[1]
<1>1. /\ Append(p, n) \in Seq(Nat) /\ Len(Append(p, n)) = Len(p) + 1
      /\ \A k \in 1..Len(p) : Append(p, n)[k] = p[k]
    BY AppendedTo, Zenon
<1>2. 1 \in 1..Len(p)
    OBVIOUS
<1> QED
    BY <1>1, <1>2 DEF Child

LEMMA PageOutcome ==
    ASSUME Running, NEW a, HearPage(a), Head(todo).do = "list", a.data \in Seq(Nat), a.next \in Nat
    PROVE  \E rest : Goes(rest) /\ (cmd.op = "pull" /\ rest # <<>> => Head(rest).do # "chunk")
<1> DEFINE s == Head(todo)
           p == s.path
           found == s.found \o a.data
           more == [s EXCEPT !.at = a.next, !.found = found]
           f == [i \in DOMAIN found |-> IF cmd.op = "rm" THEN Step("visit", Child(p, found[i]))
                                        ELSE Step(IF Len(p) = 1 THEN "size" ELSE "list", Child(p, found[i]))]
           pre == IF a.next # 0 THEN <<more>> ELSE f
           rest == pre \o Tail(todo)
<1>1. Proceed(rest)
    BY DEF HearPage, Expand
<1>2. ASSUME s \in Steps
      PROVE  /\ found \in Seq(Nat) /\ more \in Steps /\ more.do = "list" /\ more.path = p
             /\ p \in Seq(Nat)
    <2>1. s.do = "list" /\ p \in Seq(Nat) /\ s.found \in Seq(Nat) /\ s.at \in Nat
        BY <1>2 DEF Steps
    <2>2. found \in Seq(Nat)
        BY <2>1, ConcatProperties
    <2> HIDE DEF found
    <2>3. s = [do |-> s.do, path |-> s.path, at |-> s.at, found |-> s.found]
        BY <1>2 DEF Steps
    <2>4. more \in Steps
        BY <1>2, <2>1, <2>2 DEF Steps
    <2>5. more.do = s.do /\ more.path = s.path
        BY <1>2 DEF Steps
    <2> QED
        BY <2>1, <2>2, <2>4, <2>5 DEF found
<1>3. CASE cmd.op = "pull"
    <2> DEFINE d == cmd.path[1]
    <2>1. PullTodo(d, todo) /\ s \in ReadSteps(d) /\ d \in Nat
        BY <1>3, NextStep
    <2>2. s \in Steps /\ p = <<d>>
        BY <2>1 DEF ReadSteps, PullSteps
    <2>3. found \in Seq(Nat) /\ more \in Steps /\ more.do = "list" /\ more.path = p
        BY <1>2, <2>2
    <2> HIDE DEF s, found, more
    <2>4. more \in PullSteps(d)
        BY <2>2, <2>3 DEF PullSteps, p
    <2>5. p \in Seq(Nat) /\ Len(p) = 1 /\ p[1] = d
        BY <2>1, <2>2, Single
    <2> HIDE DEF p
    <2>6. f \in Seq(PullSteps(d))
        <3>1. ASSUME NEW i \in DOMAIN found PROVE f[i] \in PullSteps(d)
            <4> DEFINE q == Child(p, found[i])
            <4>1. found[i] \in Nat
                BY <2>3, LenProperties, ElementOfSeq
            <4>2. q \in Seq(Nat) /\ Len(q) = 2 /\ q[1] = d
                BY <2>5, <4>1, ChildPath
            <4>3. f[i] = Step("size", q)
                BY <1>3, <2>5
            <4> HIDE DEF q
            <4> QED
                BY <4>2, <4>3, NewStep DEF PullSteps
        <3>2. DOMAIN f = DOMAIN found /\ f = [i \in DOMAIN found |-> f[i]]
            OBVIOUS
        <3> HIDE DEF f
        <3> QED
            BY <2>3, <3>1, <3>2, StepsOfNames
    <2>7. pre \in Seq(PullSteps(d))
        <3> HIDE DEF f
        <3> QED
            BY <2>4, <2>6, Single
    <2> HIDE DEF pre
    <2>8. /\ rest = <<>> \/ PullTodo(d, rest)
          /\ rest # <<>> => Head(rest) \in PullSteps(d)
        BY <2>1, <2>7, PullPrepended
    <2> HIDE DEF rest
    <2>9. rest # <<>> => Head(rest).do # "chunk"
        BY <2>8 DEF PullSteps
    <2>10. Goes(rest)
        BY <1>1, <1>3, <2>8 DEF Goes, TodoFor
    <2> QED
        BY <2>9, <2>10
<1>4. CASE cmd.op = "rm"
    <2>1. RmTodo(cmd.path, todo) /\ s \in RmSteps
        BY <1>4, NextStep
    <2>2. s \in Steps
        BY <2>1 DEF RmSteps
    <2>3. found \in Seq(Nat) /\ more \in Steps /\ more.do = "list" /\ p \in Seq(Nat)
        BY <1>2, <2>2
    <2>4. todo \in Seq(RmSteps) /\ todo # <<>>
        BY <2>1 DEF RmTodo
    <2>5. Len(todo) # 1
        <3>1. Tail(todo) # <<>>
            BY <2>1, RmRest
        <3> QED
            BY <2>4, <3>1, TodoHead
    <2> HIDE DEF s, found, more, p
    <2>6. more \in RmSteps
        BY <2>3 DEF RmSteps
    <2>7. f \in Seq(RmSteps)
        <3>1. ASSUME NEW i \in DOMAIN found PROVE f[i] \in RmSteps
            <4> DEFINE q == Child(p, found[i])
            <4>1. found[i] \in Nat
                BY <2>3, LenProperties, ElementOfSeq
            <4>2. q \in Seq(Nat)
                BY <2>3, <4>1, AppendProperties DEF Child
            <4>3. f[i] = Step("visit", q)
                BY <1>4
            <4> HIDE DEF q
            <4> QED
                BY <4>2, <4>3, NewStep DEF RmSteps
        <3>2. DOMAIN f = DOMAIN found /\ f = [i \in DOMAIN found |-> f[i]]
            OBVIOUS
        <3> HIDE DEF f
        <3> QED
            BY <2>3, <3>1, <3>2, StepsOfNames
    <2>8. pre \in Seq(RmSteps)
        <3> HIDE DEF f
        <3> QED
            BY <2>6, <2>7, Single
    <2> HIDE DEF pre
    <2>9. RmTodo(cmd.path, rest)
        BY <2>1, <2>5, <2>8, RmPrepended
    <2> HIDE DEF rest
    <2>10. rest # <<>>
        BY <2>9 DEF RmTodo
    <2> QED
        BY <1>1, <1>4, <2>9, <2>10 DEF Goes, TodoFor
<1>5. CASE cmd.op \in {"erase", "reset", "panic"}
    BY <1>5, NextStep
<1> QED
    BY <1>3, <1>4, <1>5, NextStep

-----------------------------------------------------------------------------
(* What a pull copies                                                      *)

LEMMA OnlyPair ==
    ASSUME NEW p \in Seq(Nat), Len(p) = 2
    PROVE  p = <<p[1], p[2]>> /\ p[1] \in Nat /\ p[2] \in Nat
<1>1. p[1] \in Nat /\ p[2] \in Nat
    <2>1. 1 \in 1..Len(p) /\ 2 \in 1..Len(p)
        OBVIOUS
    <2> QED
        BY <2>1, ElementOfSeq
<1>2. /\ <<p[1], p[2]>> \in Seq(Nat) /\ Len(<<p[1], p[2]>>) = 2
      /\ <<p[1], p[2]>>[1] = p[1] /\ <<p[1], p[2]>>[2] = p[2]
    BY <1>1
<1>3. \A k \in 1..Len(p) : p[k] = <<p[1], p[2]>>[k]
    <2>1. \A k \in 1..Len(p) : k = 1 \/ k = 2
        OBVIOUS
    <2> QED
        BY <1>2, <2>1
<1> QED
    BY <1>1, <1>2, <1>3, SeqEqual

LEMMA EmptyCopy ==
    ASSUME DiskInv, NEW p \in DOMAIN disk
    PROVE  CopyOf(<<>>, p)
<1>1. <<>> \in Seq(Row) /\ Len(<<>>) = 0 /\ disk[p] \in Seq(Row)
    BY EmptySeq DEF DiskInv, Filed
<1>2. Len(disk[p]) \in Nat
    BY <1>1, LenProperties
<1>3. \A k \in 1..Len(<<>>) : <<>>[k] = disk[p][k]
    BY <1>1
<1>4. Len(<<>>) <= Len(disk[p])
    BY <1>1, <1>2
<1>5. IsPrefix(<<>>, disk[p])
    <2> DEFINE s == <<>>
               t == disk[p]
    <2>1. s \in Seq(Row) /\ t \in Seq(Row) /\ Len(s) <= Len(t) /\ \A k \in 1..Len(s) : s[k] = t[k]
        BY <1>1, <1>3, <1>4
    <2> HIDE DEF s, t
    <2>2. IsPrefix(s, t)
        BY <2>1, PrefixIs
    <2> QED
        BY <2>2 DEF s, t
<1> QED
    BY <1>1, <1>5 DEF CopyOf

\* The step that reads a file, of a pull.
LEMMA ReadStep ==
    ASSUME Running, Head(todo).do \in {"size", "chunk"}
    PROVE  /\ cmd.op = "pull" /\ PullTodo(cmd.path[1], todo) /\ todo # <<>>
           /\ Head(todo) \in Steps /\ Head(todo).path \in Seq(Nat) /\ Len(Head(todo).path) = 2
           /\ Head(todo).path[1] = cmd.path[1]
           /\ Head(todo).path = <<cmd.path[1], File>> /\ File \in Nat /\ File = Head(todo).path[2]
<1>1. cmd.op = "pull" /\ PullTodo(cmd.path[1], todo) /\ Head(todo) \in ReadSteps(cmd.path[1])
    <2>1. cmd.op = "rm" => Head(todo) \notin RmSteps
        BY DEF RmSteps
    <2> QED
        BY <2>1, NextStep
<1>2. /\ Head(todo) \in Steps /\ Head(todo).path \in Seq(Nat) /\ Len(Head(todo).path) = 2
      /\ Head(todo).path[1] = cmd.path[1]
    BY <1>1 DEF ReadSteps, PullSteps, Steps
<1>3. todo \in Seq(ReadSteps(cmd.path[1])) /\ todo # <<>>
    BY <1>1 DEF PullTodo
<1>4. Head(todo) = todo[1]
    BY <1>3, TodoHead
<1> QED
    BY <1>1, <1>2, <1>3, <1>4, OnlyPair DEF File

LEMMA SizeOutcome ==
    ASSUME DiskInv, Running, Named(local), Copies(local, pulled, todo),
           NEW a, HearSize(a), Head(todo).do = "size",
           a.kind = "File" => Head(todo).path \in DOMAIN disk /\ a.size \in Nat
    PROVE  /\ GivesUp \/ \E rest : Goes(rest)
           /\ Named(local') /\ Copies(local', pulled', todo')
<1> DEFINE i == cmd.path[1]
           s == Head(todo)
           more == [s EXCEPT !.do = "chunk", !.at = a.size]
<1>1. /\ cmd.op = "pull" /\ PullTodo(i, todo) /\ s \in Steps /\ s.path \in Seq(Nat) /\ Len(s.path) = 2
      /\ s.path[1] = i /\ s.path = <<i, File>> /\ File \in Nat /\ File = s.path[2]
    BY ReadStep
<1>2. CASE a.kind # "File"
    <2>1. StepFails /\ UNCHANGED <<local, pulled>>
        BY <1>2 DEF HearSize
    <2>2. \/ GivesUp
          \/ Goes(Tail(todo)) /\ (Tail(todo) # <<>> => Head(Tail(todo)).do # "chunk")
        BY <2>1, FailOutcome
    <2>3. todo' = <<>> \/ Head(todo').do # "chunk"
        BY <2>2 DEF GivesUp, Goes, Proceed
    <2> QED
        BY <2>1, <2>2, <2>3 DEF Named, Copies
<1>3. CASE a.kind = "File"
    <2> DEFINE rest == IF a.size = 0 THEN Tail(todo) ELSE <<more>> \o Tail(todo)
    <2>1. /\ local' = With(local, File, <<>>)
          /\ pulled' = IF a.size = 0 THEN pulled \union {File} ELSE pulled \ {File}
          /\ Proceed(rest)
        BY <1>3 DEF HearSize
    <2>2. s.path \in DOMAIN disk /\ a.size \in Nat
        BY <1>1, <1>3
    <2>3. /\ DOMAIN local' = DOMAIN local \union {File} /\ local'[File] = <<>>
          /\ \A f \in DOMAIN local \ {File} : local'[f] = local[f]
          /\ local' = [f \in DOMAIN local' |-> local'[f]]
        BY <2>1 DEF With
    <2>4. CopyOf(<<>>, s.path)
        BY <2>2, EmptyCopy
    <2>5. Named(local')
        BY <2>3 DEF Named
    <2>6. \A f \in pulled' : f \in DOMAIN local' /\ CopyOf(local'[f], <<i, f>>)
        <3> SUFFICES ASSUME NEW f \in pulled' PROVE f \in DOMAIN local' /\ CopyOf(local'[f], <<i, f>>)
            OBVIOUS
        <3>1. CASE f = File
            BY <1>1, <2>3, <2>4, <3>1
        <3>2. CASE f # File
            <4>1. f \in pulled
                BY <2>1, <3>2
            <4> QED
                BY <2>3, <3>2, <4>1 DEF Copies
        <3> QED
            BY <3>1, <3>2
    <2>7. more \in ReadSteps(i) /\ more.path = s.path
        <3>1. more \in Steps
            BY <1>1, <2>2 DEF Steps
        <3>2. more.do = "chunk" /\ more.path = s.path
            BY <1>1 DEF Steps
        <3> HIDE DEF more
        <3> QED
            BY <1>1, <3>1, <3>2 DEF ReadSteps
    <2> HIDE DEF more
    <2>8. /\ Tail(todo) = <<>> \/ PullTodo(i, Tail(todo))
          /\ Tail(todo) # <<>> => Head(Tail(todo)).do # "chunk"
        <3>1. Tail(todo) # <<>> => Head(Tail(todo)) \in PullSteps(i)
            BY <1>1, PullRest
        <3>2. Tail(todo) # <<>> => Head(Tail(todo)).do # "chunk"
            BY <3>1 DEF PullSteps
        <3> QED
            BY <1>1, <3>2, PullRest
    <2>9. PullTodo(i, <<more>> \o Tail(todo)) /\ Head(<<more>> \o Tail(todo)) = more
        BY <1>1, <2>7, PullReplaced
    <2>10. /\ rest = <<>> \/ PullTodo(i, rest)
           /\ rest # <<>> /\ Head(rest).do = "chunk" => Head(rest).path = s.path
        BY <2>7, <2>8, <2>9
    <2> HIDE DEF rest
    <2>11. Goes(rest)
        BY <1>1, <2>1, <2>10 DEF Goes, TodoFor
    <2>12. todo' = rest
        BY <2>1 DEF Proceed
    <2>13. todo' # <<>> /\ Head(todo').do = "chunk" =>
               Head(todo').path[2] \in DOMAIN local' /\ CopyOf(local'[Head(todo').path[2]], Head(todo').path)
        BY <1>1, <2>3, <2>4, <2>10, <2>12
    <2>14. Copies(local', pulled', todo')
        BY <2>6, <2>13 DEF Copies
    <2> QED
        BY <2>5, <2>11, <2>14
<1> QED
    BY <1>2, <1>3

LEMMA ChunkOutcome ==
    ASSUME DiskInv, Running, Named(local), Copies(local, pulled, todo),
           NEW a, HearChunk(a), Head(todo).do = "chunk",
           a.data \in Seq(Row), CopyOf(local[File] \o a.data, Head(todo).path)
    PROVE  /\ GivesUp \/ \E rest : Goes(rest)
           /\ Named(local') /\ Copies(local', pulled', todo')
<1> DEFINE i == cmd.path[1]
           s == Head(todo)
           have == local[File] \o a.data
<1>1. /\ cmd.op = "pull" /\ PullTodo(i, todo) /\ s \in Steps /\ s.path \in Seq(Nat) /\ Len(s.path) = 2
      /\ s.path[1] = i /\ s.path = <<i, File>> /\ File \in Nat /\ File = s.path[2] /\ todo # <<>>
    BY ReadStep
<1>2. File \in DOMAIN local /\ CopyOf(local[File], s.path)
    BY <1>1 DEF Copies
<1>3. CASE a.data = <<>> \/ Len(have) > s.at
    <2>1. StepFails /\ UNCHANGED <<local, pulled>>
        BY <1>3 DEF HearChunk
    <2>2. \/ GivesUp
          \/ Goes(Tail(todo)) /\ (Tail(todo) # <<>> => Head(Tail(todo)).do # "chunk")
        BY <2>1, FailOutcome
    <2>3. todo' = <<>> \/ Head(todo').do # "chunk"
        BY <2>2 DEF GivesUp, Goes, Proceed
    <2> QED
        BY <2>1, <2>2, <2>3 DEF Named, Copies
<1>4. CASE ~(a.data = <<>> \/ Len(have) > s.at)
    <2>1. local' = [local EXCEPT ![File] = have]
        BY <1>4 DEF HearChunk
    <2>2. \/ pulled' = pulled \union {File} /\ Proceed(Tail(todo))
          \/ pulled' = pulled /\ Proceed(todo)
        BY <1>4 DEF HearChunk
    <2>3. CopyOf(have, s.path)
        OBVIOUS
    <2> HIDE DEF have
    <2>5. /\ DOMAIN local' = DOMAIN local /\ local'[File] = have
          /\ \A f \in DOMAIN local \ {File} : local'[f] = local[f]
          /\ local' = [f \in DOMAIN local' |-> local'[f]]
        BY <1>2, <2>1 DEF Named
    <2>6. \A f \in pulled' : f = File \/ (f # File /\ f \in pulled)
        BY <2>2
    <2>7. Named(local')
        BY <2>5 DEF Named
    <2>8. \A f \in pulled' : f \in DOMAIN local' /\ CopyOf(local'[f], <<i, f>>)
        <3> SUFFICES ASSUME NEW f \in pulled' PROVE f \in DOMAIN local' /\ CopyOf(local'[f], <<i, f>>)
            OBVIOUS
        <3>1. CASE f = File
            BY <1>1, <1>2, <2>3, <2>5, <3>1
        <3>2. CASE f # File
            BY <2>5, <2>6, <3>2 DEF Copies
        <3> QED
            BY <3>1, <3>2
    <2>9. ASSUME Proceed(todo) PROVE Goes(todo) /\ todo' = todo
        BY <1>1, <2>9 DEF Goes, TodoFor, Proceed
    <2>10. ASSUME Proceed(Tail(todo))
           PROVE  /\ Goes(Tail(todo)) /\ todo' = Tail(todo)
                  /\ todo' # <<>> => Head(todo').do # "chunk"
        <3>1. todo' = Tail(todo)
            BY <2>10 DEF Proceed
        <3> QED
            BY <1>1, <2>10, <3>1, RestGoes
    <2>11. todo' # <<>> /\ Head(todo').do = "chunk" =>
               Head(todo').path[2] \in DOMAIN local' /\ CopyOf(local'[Head(todo').path[2]], Head(todo').path)
        <3>1. CASE Proceed(todo)
            BY <1>1, <1>2, <2>3, <2>5, <2>9, <3>1
        <3>2. CASE Proceed(Tail(todo))
            BY <2>10, <3>2
        <3> QED
            BY <2>2, <3>1, <3>2
    <2>12. Copies(local', pulled', todo')
        BY <2>8, <2>11 DEF Copies
    <2> QED
        BY <2>2, <2>7, <2>9, <2>10, <2>12
<1> QED
    BY <1>3, <1>4

-----------------------------------------------------------------------------
(* An answer, heard                                                        *)

LEMMA HearOutcome ==
    ASSUME DiskInv, CommandInv, ConnectionInv, PullInv, HearAnswer
    PROVE  /\ Running
           /\ \/ GivesUp
              \/ \E rest : Goes(rest) /\ (rest = <<>> /\ cmd.op \in {"rm", "erase"} => Removed(cmd.path))
           /\ cmd.op = "pull" => Named(local') /\ Copies(local', pulled', todo')
           /\ cmd.op # "pull" => UNCHANGED <<local, pulled>>
<1> DEFINE s == Head(todo)
           Fine(rest) == Goes(rest) /\ (rest = <<>> /\ cmd.op \in {"rm", "erase"} => Removed(cmd.path))
<1>1. mode = "run" /\ waiting /\ answer # None /\ link = "live"
    BY DEF HearAnswer
<1>2. Running /\ Tells(answer)
    BY <1>1 DEF CommandInv, ConnectionInv, Running
<1>3. cmd.op = "pull" => Named(local) /\ Copies(local, pulled, todo)
    BY <1>1 DEF PullInv
<1>4. ASSUME NEW rest, Goes(rest), cmd.op = "pull" \/ answer.err = "Ok" PROVE Fine(rest)
    BY <1>2, <1>4 DEF Goes, Tells, TellsOf
<1>5. ASSUME UNCHANGED <<local, pulled>>, cmd.op = "pull",
             todo' # <<>> => Head(todo').do # "chunk"
      PROVE  Named(local') /\ Copies(local', pulled', todo')
    BY <1>3, <1>5 DEF Named, Copies
<1>6. ASSUME answer.err # "Ok" PROVE StepFails /\ UNCHANGED <<local, pulled>>
    BY <1>6 DEF HearAnswer
<1>7. CASE answer.err # "Ok"
    <2>1. \/ GivesUp
          \/ cmd.op = "pull" /\ Goes(Tail(todo)) /\ (Tail(todo) # <<>> => Head(Tail(todo)).do # "chunk")
        BY <1>2, <1>6, <1>7, FailOutcome
    <2>2. todo' # <<>> => Head(todo').do # "chunk"
        BY <2>1 DEF GivesUp, Goes, Proceed
    <2>3. GivesUp \/ \E rest : Fine(rest)
        BY <1>4, <2>1
    <2> HIDE DEF Fine
    <2>4. UNCHANGED <<local, pulled>>
        BY <1>6, <1>7
    <2> QED
        BY <1>2, <1>5, <2>2, <2>3, <2>4 DEF Fine
<1>8. CASE answer.err = "Ok"
    <2>1. TellsOf(s.do, s.path, answer)
        BY <1>2, <1>8 DEF Tells
    <2>2. ASSUME s.do \in {"root", "visit"} PROVE HearKind(answer)
        BY <1>8, <2>2 DEF HearAnswer
    <2>3. ASSUME s.do = "list" PROVE HearPage(answer)
        BY <1>8, <2>3 DEF HearAnswer
    <2>4. ASSUME s.do = "size" PROVE HearSize(answer)
        BY <1>8, <2>4 DEF HearAnswer
    <2>5. ASSUME s.do = "chunk" PROVE HearChunk(answer)
        BY <1>8, <2>5 DEF HearAnswer
    <2>6. ASSUME s.do \notin {"root", "visit", "list", "size", "chunk"}
          PROVE  Proceed(Tail(todo)) /\ UNCHANGED <<local, pulled>>
        BY <1>8, <2>6 DEF HearAnswer
    <2>7. CASE s.do \in {"root", "visit"}
        <3>1. HearKind(answer) /\ UNCHANGED <<local, pulled>>
            BY <2>2, <2>7 DEF HearKind
        <3>2. PICK rest : Goes(rest) /\ rest # <<>> /\ (cmd.op = "pull" => Head(rest).do # "chunk")
            BY <1>2, <2>1, <2>7, <3>1, KindOutcome DEF TellsOf
        <3>3. todo' = rest
            BY <3>2 DEF Goes, Proceed
        <3>4. Fine(rest)
            BY <1>4, <1>8, <3>2
        <3> HIDE DEF Fine
        <3> QED
            BY <1>2, <1>5, <3>1, <3>2, <3>3, <3>4 DEF Fine
    <2>8. CASE s.do = "list"
        <3>1. HearPage(answer) /\ UNCHANGED <<local, pulled>>
            BY <2>3, <2>8 DEF HearPage
        <3>2. PICK rest : Goes(rest) /\ (cmd.op = "pull" /\ rest # <<>> => Head(rest).do # "chunk")
            BY <1>2, <2>1, <2>8, <3>1, PageOutcome DEF TellsOf
        <3>3. todo' = rest
            BY <3>2 DEF Goes, Proceed
        <3>4. Fine(rest)
            BY <1>4, <1>8, <3>2
        <3> HIDE DEF Fine
        <3> QED
            BY <1>2, <1>5, <3>1, <3>2, <3>3, <3>4 DEF Fine
    <2>9. CASE s.do = "size"
        <3>1. HearSize(answer)
            BY <2>4, <2>9
        <3>2. cmd.op = "pull"
            BY <1>2, <2>9, ReadStep
        <3>3. answer.kind = "File" => s.path \in DOMAIN disk /\ answer.size \in Nat
            BY <2>1, <2>9 DEF TellsOf
        <3>4. /\ GivesUp \/ \E rest : Goes(rest)
              /\ Named(local') /\ Copies(local', pulled', todo')
            BY <1>2, <1>3, <2>9, <3>1, <3>2, <3>3, SizeOutcome
        <3>5. GivesUp \/ \E rest : Fine(rest)
            BY <1>4, <3>2, <3>4
        <3> QED
            BY <1>2, <3>2, <3>4, <3>5
    <2>10. CASE s.do = "chunk"
        <3>1. HearChunk(answer)
            BY <2>5, <2>10
        <3>2. cmd.op = "pull" /\ File = s.path[2] /\ todo # <<>>
            BY <1>2, <2>10, ReadStep
        <3>4. answer.data \in Seq(Row) /\ CopyOf(local[File] \o answer.data, s.path)
            BY <2>1, <2>10, <3>2 DEF TellsOf
        <3>5. /\ GivesUp \/ \E rest : Goes(rest)
              /\ Named(local') /\ Copies(local', pulled', todo')
            BY <1>2, <1>3, <2>10, <3>1, <3>2, <3>4, ChunkOutcome
        <3>6. GivesUp \/ \E rest : Fine(rest)
            BY <1>4, <3>2, <3>5
        <3> QED
            BY <1>2, <3>2, <3>5, <3>6
    <2>11. CASE s.do \notin {"root", "visit", "list", "size", "chunk"}
        <3>1. Proceed(Tail(todo)) /\ UNCHANGED <<local, pulled>>
            BY <2>6, <2>11
        <3>2. Goes(Tail(todo)) /\ (cmd.op = "pull" /\ Tail(todo) # <<>> => Head(Tail(todo)).do # "chunk")
            BY <1>2, <2>11, <3>1, RestGoes
        <3>3. todo' = Tail(todo)
            BY <3>1 DEF Proceed
        <3>4. Fine(Tail(todo))
            BY <1>4, <1>8, <3>2
        <3> HIDE DEF Fine
        <3> QED
            BY <1>2, <1>5, <3>1, <3>2, <3>3, <3>4 DEF Fine
    <2> QED
        BY <2>7, <2>8, <2>9, <2>10, <2>11
<1> QED
    BY <1>7, <1>8

-----------------------------------------------------------------------------
(* The other steps of the tool                                             *)

\* Copies of a session say the truth: their rows are the first of its files.
LEMMA CopiesAreTrue ==
    ASSUME Filed(disk), RowsOf(disk), NEW l, NEW names, NEW t, Named(l), Copies(l, names, t),
           cmd.path[1] \in Nat
    PROVE  /\ \A f \in names : Consecutive(l[f])
           /\ {BuildInfo, Defmt} \subseteq names
                => \A i \in DOMAIN l[BuildInfo], k \in DOMAIN l[Defmt] :
                       l[Defmt][k].boot = l[BuildInfo][i].boot
<1> DEFINE p(f) == <<cmd.path[1], f>>
<1>1. ASSUME NEW f \in names
      PROVE  /\ p(f) \in DOMAIN disk /\ l[f] \in Seq(Row) /\ disk[p(f)] \in Seq(Row)
             /\ IsPrefix(l[f], disk[p(f)]) /\ Consecutive(disk[p(f)])
             /\ \A k \in DOMAIN l[f] : k \in DOMAIN disk[p(f)] /\ l[f][k] = disk[p(f)][k]
    <2>1. /\ p(f) \in DOMAIN disk /\ l[f] \in Seq(Row) /\ IsPrefix(l[f], disk[p(f)])
        BY DEF Copies, CopyOf
    <2>2. disk[p(f)] \in Seq(Row) /\ Consecutive(disk[p(f)])
        BY <2>1 DEF Filed, RowsOf
    <2>3. Len(l[f]) <= Len(disk[p(f)]) /\ \A k \in 1..Len(l[f]) : l[f][k] = disk[p(f)][k]
        <3> DEFINE u == l[f]
                   v == disk[p(f)]
        <3>1. u \in Seq(Row) /\ v \in Seq(Row) /\ IsPrefix(u, v)
            BY <2>1, <2>2
        <3> HIDE DEF u, v
        <3>2. Len(u) <= Len(v) /\ \A k \in 1..Len(u) : u[k] = v[k]
            BY <3>1, PrefixIs
        <3> QED
            BY <3>2 DEF u, v
    <2>4. /\ DOMAIN l[f] = 1..Len(l[f]) /\ DOMAIN disk[p(f)] = 1..Len(disk[p(f)])
          /\ Len(l[f]) \in Nat /\ Len(disk[p(f)]) \in Nat
        BY <2>1, <2>2, LenProperties
    <2>5. \A k \in 1..Len(l[f]) : k \in 1..Len(disk[p(f)])
        BY <2>3, <2>4
    <2> QED
        BY <2>1, <2>2, <2>3, <2>4, <2>5
<1>2. \A f \in names : Consecutive(l[f])
    BY <1>1, PrefixConsecutive
<1>3. ASSUME BuildInfo \in names, Defmt \in names,
             NEW i \in DOMAIN l[BuildInfo], NEW k \in DOMAIN l[Defmt]
      PROVE  l[Defmt][k].boot = l[BuildInfo][i].boot
    <2>1. /\ p(Defmt) \in DOMAIN disk /\ k \in DOMAIN disk[p(Defmt)] /\ l[Defmt][k] = disk[p(Defmt)][k]
          /\ p(BuildInfo) \in DOMAIN disk /\ i \in DOMAIN disk[p(BuildInfo)]
          /\ l[BuildInfo][i] = disk[p(BuildInfo)][i]
        BY <1>1, <1>3
    <2>2. p(Defmt)[1] = p(BuildInfo)[1]
        BY DEF Defmt, BuildInfo
    <2> HIDE DEF p
    <2> QED
        BY <2>1, <2>2 DEF RowsOf, OneBoot
<1> QED
    BY <1>2, <1>3

LEMMA NothingAsked ==
    ASSUME KeepConnection \/ DropConnection, call = None
    PROVE  call' = None /\ answer' = None /\ link' \in {link, "none"}
BY DEF KeepConnection, DropConnection

LEMMA SameGone ==
    ASSUME GoneInv, UNCHANGED <<gone, disk, session, boot, bootStage>>
    PROVE  GoneInv'
BY DEF GoneInv, Present, Removed

LEMMA HearKeeps ==
    ASSUME DiskInv, RowsInv, CommandInv, ConnectionInv, PullInv, GoneInv, PulledFromOneSession, HearAnswer
    PROVE  CommandInv' /\ ConnectionInv' /\ PullInv' /\ GoneInv' /\ PulledFromOneSession'
<1>1. /\ Running
      /\ \/ GivesUp
         \/ \E rest : Goes(rest) /\ (rest = <<>> /\ cmd.op \in {"rm", "erase"} => Removed(cmd.path))
      /\ cmd.op = "pull" => Named(local') /\ Copies(local', pulled', todo')
      /\ cmd.op # "pull" => UNCHANGED <<local, pulled>>
    BY HearOutcome
<1>2. /\ link = "live" /\ answer # None /\ waiting' = FALSE
      /\ UNCHANGED <<disk, bootStage, session, boot, cmd>>
    BY DEF HearAnswer
<1>3. call = None /\ Present /\ cmd \in Command
    BY <1>1, <1>2 DEF ConnectionInv, Running
<1>4. /\ mode' \in {"run", "idle", "reboot"} /\ (mode' = "run" => TodoFor(cmd, todo'))
      /\ call' = None /\ answer' = None /\ GoneInv'
    <2>1. CASE GivesUp
        <3>1. mode' = "idle" /\ UNCHANGED gone /\ KeepConnection
            BY <2>1 DEF GivesUp
        <3> QED
            BY <1>2, <1>3, <3>1, NothingAsked, SameGone
    <2>2. ASSUME NEW rest, Goes(rest), rest = <<>> /\ cmd.op \in {"rm", "erase"} => Removed(cmd.path)
          PROVE  /\ mode' \in {"run", "idle", "reboot"} /\ (mode' = "run" => TodoFor(cmd, todo'))
                 /\ call' = None /\ answer' = None /\ GoneInv'
        <3>1. Proceed(rest) /\ todo' = rest
            BY <2>2 DEF Goes, Proceed
        <3>2. CASE rest # <<>>
            <4>1. mode' = "run" /\ KeepConnection /\ UNCHANGED gone
                BY <3>1, <3>2 DEF Proceed
            <4> QED
                BY <1>2, <1>3, <2>2, <3>1, <3>2, <4>1, NothingAsked, SameGone DEF Goes
        <3>3. CASE rest = <<>>
            <4>1. /\ mode' \in {"idle", "reboot"} /\ (KeepConnection \/ DropConnection)
                  /\ gone' = IF cmd.op \in {"rm", "erase"} THEN [path |-> cmd.path, boot |-> boot] ELSE gone
                BY <3>1, <3>3 DEF Proceed
            <4>2. GoneInv'
                <5>1. CASE cmd.op \in {"rm", "erase"}
                    <6>1. gone' = [path |-> cmd.path, boot |-> boot] /\ Removed(cmd.path)
                        BY <2>2, <3>3, <4>1, <5>1
                    <6>2. gone'.path = cmd.path /\ cmd.path \in Seq(Nat) /\ gone'.boot = boot /\ boot \in Nat
                        BY <1>3, <6>1, Commands DEF DiskInv
                    <6>3. Removed(cmd.path)'
                        BY <1>2, <6>1 DEF Removed
                    <6> QED
                        BY <1>2, <1>3, <6>2, <6>3 DEF GoneInv, Present, Removed
                <5>2. CASE cmd.op \notin {"rm", "erase"}
                    BY <1>2, <4>1, <5>2, SameGone
                <5> QED
                    BY <5>1, <5>2
            <4> QED
                BY <1>3, <4>1, <4>2, NothingAsked
        <3> QED
            BY <3>2, <3>3
    <2> QED
        BY <1>1, <2>1, <2>2
<1>5. CommandInv'
    BY <1>2, <1>3, <1>4 DEF CommandInv
<1>6. ConnectionInv'
    BY <1>2, <1>3, <1>4 DEF ConnectionInv, Present
<1>7. PullInv'
    BY <1>1, <1>2 DEF PullInv, Named, Copies, CopyOf
<1>8. PulledFromOneSession'
    <2>1. CASE cmd.op = "pull"
        <3>1. Filed(disk') /\ RowsOf(disk')
            BY <1>2 DEF DiskInv, RowsInv
        <3>2. /\ cmd'.path[1] \in Nat
              /\ Named(local')
            BY <1>1, <1>2, <2>1, NextStep
        <3>3. Filed(disk) /\ RowsOf(disk) /\ cmd.path[1] \in Nat
            BY <1>2, <3>2 DEF DiskInv, RowsInv
        <3>4. /\ \A f \in pulled' : Consecutive(local'[f])
              /\ {BuildInfo, Defmt} \subseteq pulled'
                   => \A i \in DOMAIN local'[BuildInfo], k \in DOMAIN local'[Defmt] :
                          local'[Defmt][k].boot = local'[BuildInfo][i].boot
            BY <1>1, <2>1, <3>2, <3>3, CopiesAreTrue
        <3> QED
            BY <3>4 DEF PulledFromOneSession
    <2>2. CASE cmd.op # "pull"
        BY <1>1, <2>2 DEF PulledFromOneSession
    <2> QED
        BY <2>1, <2>2
<1> QED
    BY <1>4, <1>5, <1>6, <1>7, <1>8

LEMMA StartReadsNothing ==
    ASSUME NEW c \in Command
    PROVE  Head(Start(c)).do # "chunk"
<1>1. c.op \in {"pull", "rm", "erase", "reset", "panic"}
    BY Commands
<1> DEFINE do == IF c.op = "pull" THEN IF Len(c.path) = 2 THEN "size" ELSE "root"
                 ELSE IF c.op = "rm" THEN "visit" ELSE c.op
           s == Step(do, IF c.op \in {"pull", "rm"} THEN c.path ELSE <<>>)
<1>2. Start(c) = <<s>>
    BY <1>1 DEF Start
<1>3. s.do = do
    BY DEF Step
<1>4. do # "chunk"
    BY <1>1
<1> HIDE DEF s, do
<1>5. Head(<<s>>) = s
    BY Single, TodoHead
<1> QED
    BY <1>2, <1>3, <1>4, <1>5

LEMMA SamePulled == ASSUME PulledFromOneSession, local' = local, pulled' \in {pulled, {}} PROVE PulledFromOneSession'
BY DEF PulledFromOneSession

LEMMA AskKeeps ==
    ASSUME DiskInv, CommandInv, ConnectionInv, PullInv, GoneInv, PulledFromOneSession, NEW c \in Command, Ask(c)
    PROVE  CommandInv' /\ ConnectionInv' /\ PullInv' /\ GoneInv' /\ PulledFromOneSession'
<1>1. /\ mode = "idle" /\ mode' = "run" /\ cmd' = c /\ todo' = Start(c) /\ pulled' = {}
      /\ UNCHANGED <<disk, bootStage, session, boot, call, answer, link, waiting, local, gone>>
    BY DEF Ask, boardVars
<1>2. ~waiting /\ answer = None /\ (call # None => ~call.heard)
    BY <1>1 DEF CommandInv, ConnectionInv
<1>3. TodoFor(c, Start(c)) /\ Head(Start(c)).do # "chunk"
    BY StartTodo, StartReadsNothing
<1>4. CommandInv'
    BY <1>1, <1>2, <1>3 DEF CommandInv
<1>5. ConnectionInv'
    BY <1>1, <1>2 DEF ConnectionInv, Present
<1>6. PullInv'
    BY <1>1, <1>3 DEF PullInv, Named, Copies
<1> QED
    BY <1>1, <1>4, <1>5, <1>6, SameGone, SamePulled

LEMMA SendKeeps ==
    ASSUME DiskInv, CommandInv, ConnectionInv, PullInv, GoneInv, PulledFromOneSession, SendRequest
    PROVE  CommandInv' /\ ConnectionInv' /\ PullInv' /\ GoneInv' /\ PulledFromOneSession'
<1>1. /\ mode = "run" /\ ~waiting /\ link = "live" /\ call' = RequestOf /\ waiting' = TRUE
      /\ UNCHANGED <<disk, bootStage, session, boot, answer, link, mode, cmd, todo, local, pulled, gone>>
    BY DEF SendRequest
<1>2. answer = None
    BY <1>1 DEF ConnectionInv
<1>3. Running
    BY <1>1 DEF CommandInv, Running
<1>4. RequestOf' = RequestOf
    BY <1>1 DEF RequestOf, File
<1>5. Asks(call)'
    BY <1>1, <1>4 DEF Asks
<1>6. cmd.op = "pull" => RequestOf.op \in {"list", "stat", "read"}
    <2> SUFFICES ASSUME cmd.op = "pull" PROVE RequestOf.op \in {"list", "stat", "read"}
        OBVIOUS
    <2> DEFINE do == Head(todo).do
    <2>1. Head(todo) \in ReadSteps(cmd.path[1])
        BY <1>3, NextStep
    <2>2. do \in {"root", "list", "size", "chunk"}
        BY <2>1 DEF ReadSteps, PullSteps
    <2>3. RequestOf.op = CASE do \in {"root", "size", "visit"} -> "stat"
                           [] do = "list" -> "list"
                           [] do = "chunk" -> "read"
                           [] do \in {"remove", "rmdir"} -> "remove"
                           [] OTHER -> do
        BY DEF RequestOf
    <2> HIDE DEF do
    <2> QED
        BY <2>2, <2>3
<1>7. CommandInv'
    BY <1>1 DEF CommandInv
<1>8. ConnectionInv'
    BY <1>1, <1>2, <1>5, <1>6 DEF ConnectionInv, Present
<1>9. PullInv'
    BY <1>1 DEF PullInv, Named, Copies, CopyOf
<1> QED
    BY <1>1, <1>7, <1>8, <1>9, SameGone, SamePulled

\* The request is given up: nothing of it will be heard.
LEMMA LostKeeps ==
    ASSUME DiskInv, CallInv, CommandInv, ConnectionInv, PullInv, GoneInv, PulledFromOneSession,
           mode = "run", ConnectionFails, link \in {"live", "dead"}, link = "dead" \/ answer = None
    PROVE  CommandInv' /\ ConnectionInv' /\ PullInv' /\ GoneInv' /\ PulledFromOneSession'
<1>1. /\ waiting' = FALSE /\ answer' = None
      /\ UNCHANGED <<disk, bootStage, session, boot, cmd, local, pulled, gone>>
      /\ call' = IF call = None THEN None ELSE [call EXCEPT !.heard = FALSE]
    BY DEF ConnectionFails, DropConnection
<1>2. Running
    BY DEF CommandInv, Running
<1>3. call # None => {"op", "begun", "heard"} \subseteq DOMAIN call
    BY DEF CallInv, CallFields
<1>4. call # None => ~call'.heard /\ call'.op = call.op
    BY <1>1, <1>3
<1>5. call = None => call' = None
    BY <1>1
<1>6. CASE Tolerant
    <2>1. /\ todo' = Tail(todo) /\ link' = link /\ cmd.op = "pull"
          /\ mode' = IF todo' = <<>> THEN "idle" ELSE "run"
        BY <1>6 DEF ConnectionFails, Tolerant
    <2>2. PullTodo(cmd.path[1], todo)
        BY <1>2, <2>1, NextStep
    <2>3. /\ todo' = <<>> \/ PullTodo(cmd.path[1], todo')
          /\ todo' # <<>> => Head(todo') \in PullSteps(cmd.path[1])
        BY <2>1, <2>2, PullRest
    <2>4. todo' # <<>> => Head(todo').do # "chunk" /\ TodoFor(cmd, todo')
        BY <2>1, <2>3 DEF PullSteps, TodoFor
    <2>5. CommandInv'
        BY <1>1, <1>2, <2>1, <2>4 DEF CommandInv, Running
    <2>6. ConnectionInv'
        BY <1>1, <1>4, <1>5, <2>1 DEF ConnectionInv, Present
    <2>7. PullInv'
        BY <1>1, <2>1, <2>4 DEF PullInv, Named, Copies, CopyOf
    <2> QED
        BY <1>1, <2>5, <2>6, <2>7, SameGone, SamePulled
<1>7. CASE ~Tolerant
    <2>1. mode' = "lost" /\ todo' = <<>> /\ link' = "none"
        BY <1>7 DEF ConnectionFails, DropConnection
    <2>2. CommandInv'
        BY <1>1, <1>2, <2>1 DEF CommandInv, Running
    <2>3. ConnectionInv'
        BY <1>1, <1>4, <1>5, <2>1 DEF ConnectionInv
    <2>4. PullInv'
        BY <1>1, <2>1 DEF PullInv, Named
    <2> QED
        BY <1>1, <2>2, <2>3, <2>4, SameGone, SamePulled
<1> QED
    BY <1>6, <1>7

LEMMA InterruptKeeps ==
    ASSUME DiskInv, CallInv, CommandInv, ConnectionInv, PullInv, GoneInv, PulledFromOneSession, Interrupt
    PROVE  CommandInv' /\ ConnectionInv' /\ PullInv' /\ GoneInv' /\ PulledFromOneSession'
<1>1. /\ mode' = "connect" /\ waiting' = FALSE /\ answer' = None /\ link' = "none"
      /\ UNCHANGED <<disk, bootStage, session, boot, cmd, local, pulled, gone>>
      /\ call' = IF call = None THEN None ELSE [call EXCEPT !.heard = FALSE]
    BY DEF Interrupt, DropConnection
<1>2. call # None => {"op", "begun", "heard"} \subseteq DOMAIN call
    BY DEF CallInv, CallFields
<1>3. call' # None => ~call'.heard
    BY <1>1, <1>2
<1>4. CommandInv'
    BY <1>1 DEF CommandInv
<1>5. ConnectionInv'
    BY <1>1, <1>3 DEF ConnectionInv
<1>6. PullInv'
    BY <1>1 DEF PullInv, Named
<1> QED
    BY <1>1, <1>4, <1>5, <1>6, SameGone, SamePulled

LEMMA ReconnectKeeps ==
    ASSUME DiskInv, CommandInv, ConnectionInv, PullInv, GoneInv, PulledFromOneSession, Reconnect
    PROVE  CommandInv' /\ ConnectionInv' /\ PullInv' /\ GoneInv' /\ PulledFromOneSession'
<1>1. /\ mode \in {"connect", "lost", "reboot"} /\ link = "none" /\ bootStage = "up" /\ call = None
      /\ link' = "live"
      /\ UNCHANGED <<disk, bootStage, session, boot, call, answer, cmd, waiting, local, gone>>
    BY DEF Reconnect
<1>2. \/ mode = "lost" /\ mode' = "run" /\ todo' = Start(cmd) /\ pulled' = {}
      \/ mode' = "idle" /\ pulled' = pulled
    BY DEF Reconnect
<1>3. ~waiting /\ answer = None
    BY <1>1 DEF CommandInv, ConnectionInv
<1>4. mode = "lost" => cmd \in Command /\ TodoFor(cmd, Start(cmd)) /\ Head(Start(cmd)).do # "chunk"
    BY StartTodo, StartReadsNothing DEF CommandInv
<1>5. CommandInv'
    BY <1>1, <1>2, <1>3, <1>4 DEF CommandInv
<1>6. ConnectionInv'
    BY <1>1, <1>3 DEF ConnectionInv, Present
<1>7. PullInv'
    BY <1>1, <1>2, <1>4 DEF PullInv, Named, Copies
<1> QED
    BY <1>1, <1>2, <1>5, <1>6, <1>7, SameGone, SamePulled

LEMMA ToolTells ==
    ASSUME DiskInv, CallInv, RowsInv, ToolInv, ToolStep
    PROVE  ToolInv' /\ RowsInv'
<1> USE DEF ToolInv
<1>1. RowsInv'
    BY ToolLeaves DEF RowsInv
<1>2. CASE SendRequest
    BY <1>1, <1>2, SendKeeps
<1>3. CASE HearAnswer
    BY <1>1, <1>3, HearKeeps
<1>4. CASE FindClosed \/ TimeOut
    <2>1. mode = "run" /\ ConnectionFails /\ (link = "dead" \/ (link = "live" /\ answer = None))
        BY <1>4 DEF FindClosed, TimeOut
    <2> QED
        BY <1>1, <2>1, LostKeeps
<1>5. CASE Reconnect
    BY <1>1, <1>5, ReconnectKeeps
<1>6. CASE Interrupt
    BY <1>1, <1>6, InterruptKeeps
<1>7. ASSUME NEW c \in Command, Ask(c) PROVE ToolInv' /\ RowsInv'
    BY <1>1, <1>7, AskKeeps
<1> QED
    BY <1>2, <1>3, <1>4, <1>5, <1>6, <1>7 DEF ToolStep, ToolWorks

-----------------------------------------------------------------------------
(* What the board answers                                                  *)

\* A path of which the log of the session is in or under, shorter than the file's: it is the
\* directory's or above.
LEMMA Above ==
    ASSUME NEW p \in Seq(Nat), NEW i \in Nat, NEW f \in Nat, Below(p, <<i, f>>)
    PROVE  p = <<i, f>> \/ Below(p, <<i>>)
<1> DEFINE v == <<i, f>>
           w == <<i>>
<1>1. v \in Seq(Nat) /\ Len(v) = 2 /\ v[1] = i /\ w \in Seq(Nat) /\ Len(w) = 1 /\ w[1] = i
    OBVIOUS
<1> HIDE DEF v, w
<1>2. Len(p) <= 2 /\ Len(p) \in Nat /\ \A k \in 1..Len(p) : p[k] = v[k]
    <2>1. p \in Seq(Nat) /\ v \in Seq(Nat) /\ IsPrefix(p, v)
        BY <1>1 DEF Below, v
    <2>2. Len(p) <= Len(v) /\ \A k \in 1..Len(p) : p[k] = v[k]
        BY <2>1, PrefixHas, Zenon
    <2> QED
        BY <1>1, <2>2, LenProperties
<1>3. CASE Len(p) = 2
    BY <1>1, <1>2, <1>3, SeqEqual DEF v
<1>4. CASE Len(p) # 2
    <2>1. Len(p) <= 1
        BY <1>2, <1>4
    <2>2. \A k \in 1..Len(p) : k = 1
        BY <1>2, <2>1
    <2>3. \A k \in 1..Len(p) : p[k] = w[k]
        BY <1>1, <1>2, <2>2
    <2>4. p \in Seq(Nat) /\ w \in Seq(Nat) /\ Len(p) <= Len(w)
        BY <1>1, <2>1
    <2>5. IsPrefix(p, w)
        BY <2>3, <2>4, PrefixIs, Zenon
    <2> QED
        BY <2>5 DEF Below, w
<1> QED
    BY <1>3, <1>4

\* What has gone stays away while the board is up: only the log of the session comes back.
LEMMA StaysAway ==
    ASSUME DiskInv, NEW p \in Seq(Nat), Removed(p), session' = session,
           AppendToFile \/ DOMAIN disk' \subseteq DOMAIN disk
    PROVE  Removed(p)'
<1>1. CASE DOMAIN disk' \subseteq DOMAIN disk
    BY <1>1 DEF Removed
<1>2. CASE AppendToFile
    <2> DEFINE f == <<session, Defmt>>
    <2>1. DOMAIN disk' = DOMAIN disk \union {f}
        BY <1>2, AppendEffect
    <2>2. session \in Nat /\ <<session>> \in DOMAIN disk /\ <<session>> # f
        BY <1>2, BoardAssumption DEF AppendToFile, DiskInv
    <2>3. Below(p, f) => p = f
        <3>1. Defmt \in Nat
            BY DEF Defmt
        <3>2. ASSUME Below(p, <<session>>) PROVE FALSE
            BY <2>2, <3>2 DEF Removed
        <3> QED
            BY <2>2, <3>1, <3>2, Above
    <2> HIDE DEF f
    <2> QED
        BY <2>1, <2>3 DEF Removed, f
<1> QED
    BY <1>1, <1>2

LEMMA CopyStays ==
    ASSUME DiskInv, AppendToFile, NEW rows, NEW p, CopyOf(rows, p)
    PROVE  CopyOf(rows, p)'
<1> DEFINE f   == <<session, Defmt>>
           old == IF f \in DOMAIN disk THEN disk[f] ELSE <<>>
           r   == [boot |-> boot, n |-> logged + 1]
<1>1. /\ DOMAIN disk' = DOMAIN disk \union {f} /\ disk'[f] = Append(old, r)
      /\ \A q \in DOMAIN disk \ {f} : disk'[q] = disk[q]
    BY AppendEffect
<1>2. r \in Row
    BY DEF DiskInv, Row
<1>3. p \in DOMAIN disk /\ rows \in Seq(Row) /\ IsPrefix(rows, disk[p]) /\ disk[p] \in Seq(Row)
    BY DEF CopyOf, DiskInv, Filed
<1>4. CASE p = f
    <2>1. disk'[p] = Append(disk[p], r)
        BY <1>1, <1>3, <1>4
    <2> HIDE DEF r
    <2>2. IsPrefix(rows, disk'[p])
        BY <1>2, <1>3, <2>1, PrefixGrows
    <2> QED
        BY <1>1, <1>3, <2>2 DEF CopyOf
<1>5. CASE p # f
    BY <1>1, <1>3, <1>5 DEF CopyOf
<1> QED
    BY <1>4, <1>5

\* The step to which a request belongs.
LEMMA Requested ==
    ASSUME Running
    PROVE  LET do == Head(todo).do IN
           /\ Head(todo).path \in Seq(Nat) /\ Head(todo).at \in Nat
           /\ RequestOf.path = Head(todo).path
           /\ RequestOf.op = "stat" => do \in {"root", "size", "visit"}
           /\ RequestOf.op = "list" => do = "list"
           /\ RequestOf.op = "read" => do = "chunk"
           /\ RequestOf.op = "remove" => do \in {"remove", "rmdir"}
           /\ RequestOf.op \in {"erase", "reset", "panic"} => do = RequestOf.op
<1> DEFINE do == Head(todo).do
<1>1. cmd.op \in {"erase", "reset", "panic"} => Head(todo) = Step(cmd.op, <<>>) /\ do = cmd.op
    <2> SUFFICES ASSUME cmd.op \in {"erase", "reset", "panic"}
                 PROVE  Head(todo) = Step(cmd.op, <<>>)
        BY DEF Step
    <2> DEFINE s == Step(cmd.op, <<>>)
    <2>1. todo = <<s>>
        BY DEF Running, TodoFor
    <2> HIDE DEF s
    <2>2. Head(<<s>>) = s
        BY Single, TodoHead
    <2> QED
        BY <2>1, <2>2 DEF s
<1>2. /\ do \in {"root", "list", "size", "chunk", "visit", "remove", "rmdir", "erase", "reset", "panic"}
      /\ Head(todo).path \in Seq(Nat) /\ Head(todo).at \in Nat
    <2>1. CASE cmd.op \in {"pull", "rm"}
        <3>1. Head(todo) \in Steps
            BY <2>1, NextStep DEF ReadSteps, PullSteps, RmSteps
        <3> QED
            BY <3>1 DEF Steps
    <2>2. CASE cmd.op \in {"erase", "reset", "panic"}
        <3>1. Step(cmd.op, <<>>).path = <<>> /\ Step(cmd.op, <<>>).at = 0
            BY DEF Step
        <3>2. do \in {"erase", "reset", "panic"}
            BY <1>1, <2>2
        <3>3. Head(todo).path \in Seq(Nat) /\ Head(todo).at = 0
            BY <1>1, <2>2, <3>1, EmptySeq
        <3> QED
            BY <3>2, <3>3
    <2> QED
        BY <2>1, <2>2, NextStep
<1>3. /\ RequestOf.path = Head(todo).path
      /\ RequestOf.op = CASE do \in {"root", "size", "visit"} -> "stat"
                          [] do = "list" -> "list"
                          [] do = "chunk" -> "read"
                          [] do \in {"remove", "rmdir"} -> "remove"
                          [] OTHER -> do
    BY DEF RequestOf
<1> DEFINE op == RequestOf.op
<1> HIDE DEF do, op
<1>4. CASE do \in {"root", "size", "visit"}
    <2>1. op = "stat"
        BY <1>3, <1>4 DEF op
    <2> QED
        BY <1>2, <1>3, <1>4, <2>1 DEF do, op
<1>5. CASE do = "list"
    <2>1. op = "list"
        BY <1>3, <1>5 DEF op
    <2> QED
        BY <1>2, <1>3, <1>5, <2>1 DEF do, op
<1>6. CASE do = "chunk"
    <2>1. op = "read"
        BY <1>3, <1>6 DEF op
    <2> QED
        BY <1>2, <1>3, <1>6, <2>1 DEF do, op
<1>7. CASE do \in {"remove", "rmdir"}
    <2>1. op = "remove"
        BY <1>3, <1>7 DEF op
    <2> QED
        BY <1>2, <1>3, <1>7, <2>1 DEF do, op
<1>8. CASE do \in {"erase", "reset", "panic"}
    <2>1. op = do
        BY <1>3, <1>8 DEF op
    <2> QED
        BY <1>2, <1>3, <1>8, <2>1 DEF do, op
<1> QED
    BY <1>2, <1>4, <1>5, <1>6, <1>7, <1>8

-----------------------------------------------------------------------------
\* What the answers say.
LEMMA ListTells ==
    ASSUME Filed(disk), RowsOf(disk), Running, NEW q, Asks(q), q.op = "list",
           NEW a, a = HandleListDir(q), a.err = "Ok"
    PROVE  TellsOf(Head(todo).do, Head(todo).path, a)
<1>1. Head(todo).do = "list" /\ Head(todo).at \in Nat
    BY Requested DEF Asks
<1>2. q.at = Head(todo).at
    BY <1>1 DEF Asks, RequestOf
<1>3. a.data \in Seq(Nat) /\ a.next \in Nat
    BY <1>1, <1>2, PageOfNames
<1> QED
    BY <1>1, <1>3 DEF TellsOf

LEMMA StatTells ==
    ASSUME Filed(disk), RowsOf(disk), Running, NEW q, Asks(q), q.op = "stat",
           NEW a, a = HandleStat(q), a.err = "Ok"
    PROVE  TellsOf(Head(todo).do, Head(todo).path, a)
<1> DEFINE do == Head(todo).do
           p  == Head(todo).path
<1>1. do \in {"root", "size", "visit"} /\ p \in Seq(Nat) /\ q.path = p
    BY Requested DEF Asks
<1>2. ASSUME IsDir(p) PROVE a.kind = "Dir"
    <2> DEFINE x == [Ok EXCEPT !.kind = "Dir"]
               y == [Ok EXCEPT !.kind = "File", !.size = Len(disk[p])]
    <2>1. a = CASE IsDir(p) -> x [] IsFile(p) -> y [] OTHER -> Answer("NotFound")
        BY <1>1 DEF HandleStat
    <2>2. x.kind = "Dir"
        BY DEF Ok, Answer
    <2>3. ~IsFile(p)
        BY <1>2, DirIsNoFile
    <2> HIDE DEF x, y
    <2> QED
        BY <1>2, <2>1, <2>2, <2>3
<1>3. ASSUME ~IsDir(p) PROVE IsFile(p) /\ a.size = Len(disk[p])
    <2>1. a = IF IsFile(p) THEN [Ok EXCEPT !.kind = "File", !.size = Len(disk[p])] ELSE Answer("NotFound")
        BY <1>1, <1>3 DEF HandleStat
    <2>2. IsFile(p)
        BY <2>1 DEF Answer
    <2>3. [Ok EXCEPT !.kind = "File", !.size = Len(disk[p])].size = Len(disk[p])
        BY DEF Ok, Answer
    <2> QED
        BY <2>1, <2>2, <2>3
<1>4. Len(p) = 1 => a.kind = "Dir"
    BY <1>2, <1>3 DEF IsFile
<1>5. ASSUME a.kind = "File"
      PROVE  p \in DOMAIN disk /\ a.size \in Nat
    <2>1. IsFile(p) /\ a.size = Len(disk[p])
        BY <1>2, <1>3, <1>5
    <2>2. p \in DOMAIN disk /\ Len(p) = 2
        BY <2>1 DEF IsFile
    <2>3. disk[p] \in Seq(Row)
        BY <2>2 DEF Filed
    <2>4. Len(disk[p]) \in Nat
        BY <2>3, LenProperties
    <2> QED
        BY <2>1, <2>2, <2>3, <2>4
<1> QED
    BY <1>1, <1>4, <1>5 DEF TellsOf

LEMMA ReadTells ==
    ASSUME Filed(disk), RowsOf(disk), Running, NEW q, Asks(q), q.op = "read",
           Copies(local, pulled, todo), NEW a, a = HandleReadFile(q), a.err = "Ok"
    PROVE  TellsOf(Head(todo).do, Head(todo).path, a)
<1> DEFINE p == Head(todo).path
           rows == local[File]
           m == q.len
           data == SubSeq(disk[p], q.at + 1, Min({q.at + q.len, Len(disk[p])}))
<1>1. Head(todo).do = "chunk" /\ q.path = p /\ Head(todo).at \in Nat
    BY Requested DEF Asks
<1>2. File = p[2] /\ todo # <<>>
    BY <1>1, ReadStep
<1>3. p \in DOMAIN disk /\ rows \in Seq(Row) /\ IsPrefix(rows, disk[p]) /\ disk[p] \in Seq(Row)
    BY <1>1, <1>2 DEF Copies, CopyOf, Filed
<1>4. q.at = Len(rows) /\ q.len \in Int
    <2>1. q.at = Len(rows) /\ q.len = Min({Chunk, Head(todo).at - Len(rows)})
        BY <1>1 DEF Asks, RequestOf
    <2>2. Chunk \in Int /\ Head(todo).at - Len(rows) \in Int
        BY <1>1, <1>3, LenProperties, BoardAssumption
    <2> DEFINE x == Head(todo).at - Len(rows)
    <2> HIDE DEF x
    <2>3. Min({Chunk, x}) \in Int
        BY <2>2, MinOfTwo DEF x
    <2> QED
        BY <2>1, <2>3 DEF x
<1>5. a.data = data
    <2>1. ~IsDir(p)
        BY <1>1 DEF HandleReadFile, Answer
    <2>2. IsFile(p)
        BY <1>1, <2>1 DEF HandleReadFile, Answer
    <2>3. a = IF q.at > Len(disk[p]) THEN Answer("OffsetOutOfRange") ELSE [Ok EXCEPT !.data = data]
        BY <1>1, <2>1, <2>2 DEF HandleReadFile
    <2>4. ~(q.at > Len(disk[p]))
        BY <2>3 DEF Answer
    <2> HIDE DEF data
    <2> QED
        BY <2>3, <2>4 DEF Ok, Answer
<1>6. a.data \in Seq(Row) /\ rows \o a.data \in Seq(Row) /\ IsPrefix(rows \o a.data, disk[p])
    <2> DEFINE t == disk[p]
    <2>1. a.data = SubSeq(t, Len(rows) + 1, Min({Len(rows) + m, Len(t)}))
        BY <1>4, <1>5
    <2>2. rows \in Seq(Row) /\ t \in Seq(Row) /\ m \in Int /\ IsPrefix(rows, t)
        BY <1>3, <1>4
    <2> HIDE DEF rows, t, m
    <2>3. a.data \in Seq(Row) /\ rows \o a.data \in Seq(Row) /\ IsPrefix(rows \o a.data, t)
        BY <2>1, <2>2, ReadExtends
    <2> QED
        BY <2>3 DEF t
<1> QED
    BY <1>1, <1>2, <1>3, <1>6 DEF TellsOf, CopyOf

\* What holds of the tool while the board works: its own variables stay.
ToolStays ==
    UNCHANGED <<mode, cmd, todo, waiting, local, pulled, gone>>

LEMMA StaysKeeps ==
    ASSUME CommandInv, PulledFromOneSession, ToolStays
    PROVE  CommandInv' /\ PulledFromOneSession'
BY DEF ToolStays, CommandInv, PulledFromOneSession

LEMMA GoneStays ==
    ASSUME DiskInv, GoneInv, ToolStays,
           \/ boot' = boot + 1
           \/ boot' = boot /\ ~Present
           \/ /\ UNCHANGED <<boot, session>> /\ Present'
              /\ AppendToFile \/ DOMAIN disk' \subseteq DOMAIN disk
    PROVE  GoneInv'
<1> SUFFICES ASSUME gone # None
             PROVE  /\ gone.path \in Seq(Nat) /\ gone.boot \in Nat /\ gone.boot <= boot'
                    /\ gone.boot = boot' => Present' /\ Removed(gone.path)'
    BY DEF GoneInv, ToolStays, Removed
<1>1. /\ gone.path \in Seq(Nat) /\ gone.boot \in Nat /\ gone.boot <= boot /\ boot \in Nat
      /\ gone.boot = boot => Present /\ Removed(gone.path)
    BY DEF GoneInv, DiskInv
<1>2. CASE boot' = boot + 1
    BY <1>1, <1>2
<1>3. CASE boot' = boot /\ ~Present
    BY <1>1, <1>3
<1>4. CASE /\ UNCHANGED <<boot, session>> /\ Present'
           /\ AppendToFile \/ DOMAIN disk' \subseteq DOMAIN disk
    <2>1. PICK p : p = gone.path
        OBVIOUS
    <2>2. gone' = gone
        BY DEF ToolStays
    <2>3. gone.boot = boot => Removed(p)'
        BY <1>1, <1>4, <2>1, StaysAway
    <2> QED
        BY <1>1, <1>4, <2>1, <2>2, <2>3 DEF Removed
<1> QED
    BY <1>2, <1>3, <1>4

\* Booting, and booting again: there is no connection.
LEMMA BootTells ==
    ASSUME DiskInv, ToolInv, ToolStays,
           \/ MountFilesystem \/ FormatFilesystem \/ PrepareSession \/ CreateSessionFiles \/ RunDegraded
           \/ Restarted
    PROVE  ToolInv'
<1>1. /\ link' # "live" /\ answer' = None /\ (call' # None => ~call'.heard)
      /\ (boot' = boot + 1 \/ (boot' = boot /\ ~Present))
    <2>1. CASE Restarted
        <3>1. link' # "live" /\ call' = None /\ answer' = None /\ boot' = boot + 1
            BY <2>1 DEF Restarted, Stopped
        <3> QED
            BY <3>1
    <2>2. CASE MountFilesystem \/ FormatFilesystem \/ PrepareSession \/ CreateSessionFiles \/ RunDegraded
        <3>1. ~Present /\ UNCHANGED <<call, answer, link, boot>>
            BY <2>2 DEF MountFilesystem, FormatFilesystem, PrepareSession, CreateSessionFiles, RunDegraded,
                        Present
        <3> QED
            BY <3>1 DEF ToolInv, ConnectionInv
    <2> QED
        BY <2>1, <2>2
<1>2. CommandInv' /\ PulledFromOneSession' /\ GoneInv'
    BY <1>1, StaysKeeps, GoneStays DEF ToolInv
<1>3. ConnectionInv'
    BY <1>1 DEF ConnectionInv
<1>4. PullInv'
    BY <1>1 DEF ToolInv, ToolStays, PullInv, Named
<1> QED
    BY <1>2, <1>3, <1>4 DEF ToolInv

\* A board that hangs keeps the connection, and what is on the flash but for an erase cut short,
\* which no pull has beside it.
LEMMA HangTells ==
    ASSUME DiskInv, ToolInv, ToolStays, Hung
    PROVE  ToolInv'
<1>1. /\ HalfDone /\ bootStage' = "hung" /\ call' = None /\ answer' = None
      /\ UNCHANGED <<session, link, boot>>
    BY DEF Hung, Stopped
<1>2. Present'
    BY <1>1 DEF Present
<1>3. Present => (Erasing /\ disk' = <<>>) \/ disk' = disk
    BY <1>1 DEF Present, HalfDone, Wiped, Unwiped
<1>4. Present => DOMAIN disk' \subseteq DOMAIN disk
    BY <1>3, NoRows
<1>5. CommandInv' /\ PulledFromOneSession' /\ GoneInv'
    BY <1>1, <1>2, <1>4, StaysKeeps, GoneStays DEF ToolInv
<1>6. ConnectionInv'
    BY <1>1, <1>2 DEF ConnectionInv
<1>7. PullInv'
    <2>1. ASSUME mode = "run", cmd.op = "pull", link = "live" PROVE disk' = disk
        <3>1. Present /\ (call # None => call.op \in {"list", "stat", "read"})
            BY <2>1 DEF ToolInv, ConnectionInv
        <3>2. call.op # "erase"
            BY <3>1 DEF None
        <3> QED
            BY <1>3, <3>1, <3>2 DEF Erasing
    <2> QED
        BY <1>1, <2>1 DEF ToolInv, ToolStays, PullInv, Named, Copies, CopyOf
<1> QED
    BY <1>5, <1>6, <1>7 DEF ToolInv

LEMMA AppendTells ==
    ASSUME DiskInv, ToolInv, ToolStays, AppendToFile
    PROVE  ToolInv'
<1>1. /\ UNCHANGED <<bootStage, session, call, answer, link, boot>> /\ DOMAIN disk \subseteq DOMAIN disk'
      /\ Present /\ Present'
    BY AppendEffect DEF AppendToFile, DiskInv, Present
<1>2. CommandInv' /\ PulledFromOneSession' /\ GoneInv'
    BY <1>1, StaysKeeps, GoneStays DEF ToolInv
<1>3. ASSUME answer # None, answer.err = "Ok"
      PROVE  TellsOf(Head(todo).do, Head(todo).path, answer)'
    <2> DEFINE do == Head(todo).do
               p == Head(todo).path
    <2>1. TellsOf(do, p, answer) /\ waiting
        BY <1>3 DEF ToolInv, ConnectionInv, Tells
    <2>2. Running
        BY <2>1 DEF ToolInv, CommandInv, Running
    <2>3. p \in Seq(Nat)
        BY <2>2, Requested
    <2>4. UNCHANGED <<todo, answer, local>>
        BY <1>1 DEF ToolStays
    <2>5. PICK x, rows : x = p /\ rows = local[p[2]] \o answer.data
        OBVIOUS
    <2>6. do \in {"remove", "rmdir", "erase"} => Removed(x)'
        <3>1. ASSUME Removed(x) PROVE Removed(x)'
            BY <1>1, <2>3, <2>5, <3>1, StaysAway
        <3> QED
            BY <2>1, <2>5, <3>1 DEF TellsOf
    <2>7. do = "chunk" => CopyOf(rows, x)'
        <3>1. ASSUME CopyOf(rows, x) PROVE CopyOf(rows, x)'
            BY <3>1, CopyStays
        <3> QED
            BY <2>1, <2>5, <3>1 DEF TellsOf
    <2> QED
        BY <1>1, <2>1, <2>4, <2>5, <2>6, <2>7 DEF TellsOf, Removed, CopyOf
<1>4. ConnectionInv'
    <2>1. answer # None => Tells(answer)'
        BY <1>1, <1>3 DEF Tells, ToolStays
    <2>2. call # None /\ call.heard => Asks(call)'
        BY <1>1 DEF ToolInv, ConnectionInv, ToolStays, Asks, RequestOf, File
    <2> QED
        BY <1>1, <2>1, <2>2 DEF ToolInv, ToolStays, ConnectionInv, Tells, Asks
<1>5. PullInv'
    <2>1. Named(local)'
        BY DEF ToolInv, ToolStays, PullInv, Named
    <2>2. ASSUME Copies(local, pulled, todo) PROVE Copies(local, pulled, todo)'
        <3>1. \A rows, p : CopyOf(rows, p) => CopyOf(rows, p)'
            BY CopyStays
        <3> QED
            BY <2>2, <3>1 DEF Copies, ToolStays, CopyOf
    <2> QED
        BY <1>1, <2>1, <2>2 DEF ToolInv, ToolStays, PullInv
<1> QED
    BY <1>2, <1>4, <1>5 DEF ToolInv

\* An answer that tells the truth, or that nobody will hear.
LEMMA AnswerTells ==
    ASSUME DiskInv, ToolInv, ToolStays, NEW a, call # None, Reply(a),
           bootStage = "up", UNCHANGED <<bootStage, session, link, boot>>, DOMAIN disk' \subseteq DOMAIN disk,
           call.heard => Tells(a)',
           disk' = disk \/ call.op \in {"remove", "erase"}
    PROVE  ToolInv'
<1>1. call' = None /\ (answer' = IF call.heard THEN a ELSE None) /\ Present /\ Present'
    BY DEF Reply, Present
<1>2. CommandInv' /\ PulledFromOneSession' /\ GoneInv'
    BY <1>1, StaysKeeps, GoneStays DEF ToolInv
<1>3. ConnectionInv'
    <2>1. call.heard => waiting /\ link = "live"
        BY DEF ToolInv, ConnectionInv
    <2>2. answer' # None => call.heard /\ answer' = a
        BY <1>1
    <2>3. answer' # None => Tells(answer)'
        BY <2>2 DEF Tells, TellsOf, CopyOf
    <2> QED
        BY <1>1, <2>1, <2>2, <2>3 DEF ToolInv, ToolStays, ConnectionInv
<1>4. PullInv'
    <2>1. CASE disk' = disk
        BY <2>1 DEF ToolInv, ToolStays, PullInv, Named, Copies, CopyOf
    <2>2. CASE call.op \in {"remove", "erase"}
        <3>1. ~(mode = "run" /\ cmd.op = "pull" /\ link = "live")
            BY <2>2 DEF ToolInv, ConnectionInv
        <3> QED
            BY <3>1 DEF ToolInv, ToolStays, PullInv, Named
    <2> QED
        BY <2>1, <2>2
<1> QED
    BY <1>2, <1>3, <1>4 DEF ToolInv

LEMMA HeardAsks ==
    ASSUME ToolInv, call # None, call.heard
    PROVE  /\ Asks(call) /\ Running
           /\ Head(todo).do = "chunk" => Copies(local, pulled, todo)
<1>1. Asks(call) /\ mode = "run" /\ link = "live"
    BY DEF ToolInv, ConnectionInv, CommandInv
<1>2. Running
    BY <1>1 DEF ToolInv, CommandInv, Running
<1>3. Head(todo).do = "chunk" => cmd.op = "pull"
    BY <1>2, ReadStep
<1> QED
    BY <1>1, <1>2, <1>3 DEF ToolInv, PullInv

LEMMA ReadServed ==
    ASSUME DiskInv, RowsInv, ToolInv, ToolStays, ServeRead
    PROVE  ToolInv'
<1> DEFINE a == IF ~mounted THEN Answer("Io")
                ELSE CASE call.op = "list" -> HandleListDir(call)
                       [] call.op = "stat" -> HandleStat(call)
                       [] call.op = "read" -> HandleReadFile(call)
<1>1. /\ call.op \in {"list", "stat", "read"} /\ Reply(a)
      /\ bootStage = "up" /\ UNCHANGED <<disk, bootStage, session, link, boot>>
    BY DEF ServeRead
<1>2. call # None
    BY <1>1 DEF None
<1>3. Filed(disk) /\ RowsOf(disk)
    BY DEF DiskInv, RowsInv
<1>4. ASSUME call.heard, a.err = "Ok" PROVE TellsOf(Head(todo).do, Head(todo).path, a)
    <2>1. /\ Asks(call) /\ Running
          /\ Head(todo).do = "chunk" => Copies(local, pulled, todo)
        BY <1>2, <1>4, HeardAsks
    <2>2. mounted
        BY <1>4 DEF Answer
    <2>3. CASE call.op = "list"
        <3>1. a = HandleListDir(call)
            BY <2>2, <2>3
        <3> HIDE DEF a
        <3> QED
            BY <1>3, <1>4, <2>1, <2>3, <3>1, ListTells
    <2>4. CASE call.op = "stat"
        <3>1. a = HandleStat(call)
            BY <2>2, <2>4
        <3> HIDE DEF a
        <3> QED
            BY <1>3, <1>4, <2>1, <2>4, <3>1, StatTells
    <2>5. CASE call.op = "read"
        <3>1. a = HandleReadFile(call)
            BY <2>2, <2>5
        <3> HIDE DEF a
        <3>2. Head(todo).do = "chunk"
            BY <2>1, <2>5, Requested DEF Asks
        <3> QED
            BY <1>3, <1>4, <2>1, <2>5, <3>1, <3>2, ReadTells
    <2> QED
        BY <1>1, <2>3, <2>4, <2>5
<1>5. PICK x : x = a
    OBVIOUS
<1>6. call.heard => Tells(x)
    BY <1>4, <1>5 DEF Tells
<1> HIDE DEF a
<1>7. call.heard => Tells(x)'
    BY <1>1, <1>6 DEF Tells, TellsOf, Removed, CopyOf, ToolStays
<1> QED
    BY <1>1, <1>2, <1>5, <1>7, AnswerTells

\* What is removed has nothing below it, and is gone itself.
LEMMA RemovedNow ==
    ASSUME DiskInv, CallInv, NEW p, call.path = p, HandleRemove(call).err = "Ok",
           disk' = Without(disk, {p})
    PROVE  DOMAIN disk' \subseteq DOMAIN disk /\ Removed(p)'
<1>1. DOMAIN disk' = DOMAIN disk \ {p}
    BY DEF Without
<1>2. ~(IsDir(p) /\ Children(p) # {}) /\ p \in DOMAIN disk /\ p # <<>>
    BY DEF HandleRemove, Answer
<1>3. /\ p \in Seq(Nat) /\ Len(p) \in 1..2
      /\ \A q \in DOMAIN disk : q \in Seq(Nat) /\ Len(q) \in 1..2
    BY <1>2 DEF DiskInv, Filed
<1>4. ASSUME NEW q \in DOMAIN disk', Below(p, q) PROVE FALSE
    <2>1. q \in DOMAIN disk /\ q # p /\ q \in Seq(Nat) /\ Len(q) \in 1..2
        BY <1>1, <1>3, <1>4
    <2>2. Len(p) <= Len(q) /\ \A k \in 1..Len(p) : p[k] = q[k]
        <3>1. p \in Seq(Nat) /\ q \in Seq(Nat) /\ IsPrefix(p, q)
            BY <1>3, <1>4, <2>1 DEF Below
        <3> QED
            BY <3>1, PrefixHas, Zenon
    <2>3. CASE Len(p) = Len(q)
        <3>1. p \in Seq(Nat) /\ q \in Seq(Nat) /\ Len(p) = Len(q) /\ \A k \in 1..Len(p) : p[k] = q[k]
            BY <1>3, <2>1, <2>2, <2>3
        <3>2. p = q
            BY <3>1, SeqEqual
        <3> QED
            BY <2>1, <3>2
    <2>4. CASE Len(p) # Len(q)
        <3> DEFINE m == Len(p)
                   n == Len(q)
        <3>1. m = 1 /\ n = m + 1
            <4>1. m \in 1..2 /\ n \in 1..2 /\ m <= n /\ m # n
                BY <1>3, <2>1, <2>2, <2>4
            <4> HIDE DEF m, n
            <4> QED
                BY <4>1
        <3>2. IsDir(p) /\ q \in Children(p)
            BY <1>2, <1>4, <2>1, <3>1 DEF IsDir, Children
        <3> QED
            BY <1>2, <3>2
    <2> QED
        BY <2>3, <2>4
<1> QED
    BY <1>1, <1>4 DEF Removed

LEMMA RemoveServed ==
    ASSUME DiskInv, CallInv, ToolInv, ToolStays, ServeRemove
    PROVE  ToolInv'
<1> DEFINE a == IF mounted THEN HandleRemove(call) ELSE Answer("Io")
<1>1. /\ call.op = "remove" /\ Reply(a) /\ bootStage = "up" /\ UNCHANGED <<bootStage, session, link, boot>>
      /\ disk' = IF a.err = "Ok" THEN Without(disk, {call.path}) ELSE disk
    BY DEF ServeRemove
<1>2. call # None
    BY <1>1 DEF None
<1>3. PICK x, p : x = a /\ p = call.path
    OBVIOUS
<1>4. a.err = "Ok" => a = HandleRemove(call)
    BY DEF Answer
<1> HIDE DEF a
<1>5. ASSUME a.err = "Ok" PROVE DOMAIN disk' \subseteq DOMAIN disk /\ Removed(p)'
    <2>1. HandleRemove(call).err = "Ok" /\ disk' = Without(disk, {p})
        BY <1>1, <1>3, <1>4, <1>5
    <2> QED
        BY <1>3, <2>1, RemovedNow
<1>6. DOMAIN disk' \subseteq DOMAIN disk
    BY <1>1, <1>5
<1>7. ASSUME call.heard PROVE Tells(x)'
    <2>1. Asks(call) /\ Running
        BY <1>2, <1>7, HeardAsks
    <2>2. Head(todo).do \in {"remove", "rmdir"} /\ Head(todo).path = p
        BY <1>1, <1>3, <2>1, Requested DEF Asks
    <2>3. todo' = todo
        BY DEF ToolStays
    <2>4. x.err = "Ok" => Removed(Head(todo).path)'
        BY <1>3, <1>5, <2>2, <2>3 DEF Removed
    <2> QED
        BY <2>2, <2>3, <2>4 DEF Tells, TellsOf, Removed
<1>8. call.heard => Tells(x)'
    BY <1>7
<1>9. Reply(x)
    BY <1>1, <1>3
<1> QED
    BY <1>1, <1>2, <1>6, <1>8, <1>9, AnswerTells

\* An erase, or a restart that was asked for, is acknowledged.
LEMMA EraseServed ==
    ASSUME DiskInv, CallInv, ToolInv, ToolStays, EndErase
    PROVE  ToolInv'
<1>1. call.op = "erase" /\ bootStage = "up" /\ UNCHANGED <<bootStage, session, link, boot>>
    BY DEF EndErase, Erasing, CallInv
<1>2. call # None
    BY <1>1 DEF None
<1>3. PICK x : \/ x = Ok /\ Reply(x) /\ disk' = <<>>
               \/ x = Answer("Io") /\ Reply(x) /\ (disk' = <<>> \/ disk' = disk)
    BY DEF EndErase, Wiped, Unwiped
<1>4. DOMAIN disk' \subseteq DOMAIN disk
    BY <1>3, EmptySeq
<1>5. ASSUME call.heard PROVE Tells(x)'
    <2>1. Asks(call) /\ Running
        BY <1>2, <1>5, HeardAsks
    <2>2. Head(todo).do = "erase" /\ todo' = todo
        BY <1>1, <2>1, Requested DEF Asks, ToolStays
    <2>3. CASE disk' = <<>>
        <3>1. DOMAIN disk' = {}
            BY <2>3
        <3> QED
            BY <2>2, <3>1 DEF Tells, TellsOf, Removed
    <2>4. CASE x = Answer("Io")
        BY <2>4 DEF Tells, Answer
    <2> QED
        BY <1>3, <2>3, <2>4
<1>6. call.heard => Tells(x)'
    BY <1>5
<1>7. Reply(x)
    BY <1>3
<1> QED
    BY <1>1, <1>2, <1>4, <1>6, <1>7, AnswerTells

LEMMA RestartServed ==
    ASSUME DiskInv, CallInv, ToolInv, ToolStays, ServeRestart
    PROVE  ToolInv'
<1>1. /\ call.op \in {"reset", "panic"} /\ UNCHANGED <<disk, bootStage, session, link, boot>>
      /\ bootStage = "up" /\ Reply(Ok)
    BY DEF ServeRestart
<1>2. call # None
    BY <1>1 DEF None
<1>3. PICK x : x = Ok
    OBVIOUS
<1>4. ASSUME call.heard PROVE Tells(x)'
    <2>1. Asks(call) /\ Running
        BY <1>2, <1>4, HeardAsks
    <2>2. Head(todo).do \in {"reset", "panic"} /\ todo' = todo
        BY <1>1, <2>1, Requested DEF Asks, ToolStays
    <2> QED
        BY <2>2 DEF Tells, TellsOf
<1>5. call.heard => Tells(x)'
    BY <1>4
<1> QED
    BY <1>1, <1>2, <1>3, <1>5, AnswerTells

LEMMA EraseBegun ==
    ASSUME DiskInv, CallInv, ToolInv, ToolStays, BeginErase
    PROVE  ToolInv'
<1>1. /\ call.op = "erase" /\ bootStage = "up" /\ UNCHANGED <<disk, bootStage, session, link, boot>>
      /\ Present /\ Present'
    BY DEF BeginErase, Present
<1>2. call # None
    BY <1>1 DEF None
<1>3. CASE mounted
    <2>1. call' = [call EXCEPT !.begun = TRUE] /\ UNCHANGED answer
        BY <1>3 DEF BeginErase
    <2>2. CallFields \subseteq DOMAIN call
        BY <1>2 DEF CallInv
    <2>3. /\ call'.op = call.op /\ call'.path = call.path /\ call'.at = call.at
          /\ call'.len = call.len /\ call'.heard = call.heard
        BY <2>1, <2>2 DEF CallFields
    <2>4. CommandInv' /\ PulledFromOneSession' /\ GoneInv'
        BY <1>1, StaysKeeps, GoneStays DEF ToolInv
    <2>5. call.heard /\ Asks(call) => call'.heard /\ Asks(call)'
        BY <2>3 DEF Asks, RequestOf, File, ToolStays
    <2>6. answer = None \/ call = None
        BY DEF ToolInv, ConnectionInv
    <2>7. answer' = None
        BY <1>2, <2>1, <2>6
    <2>8. ConnectionInv'
        <3>1. call # None /\ call.heard => waiting /\ link = "live" /\ Asks(call)
            BY DEF ToolInv, ConnectionInv
        <3>2. call'.heard => waiting' /\ link' = "live" /\ Asks(call)'
            BY <1>1, <1>2, <2>3, <2>5, <3>1 DEF ToolStays
        <3> QED
            BY <1>1, <1>2, <2>3, <2>7, <3>2 DEF ToolInv, ConnectionInv, ToolStays
    <2>9. PullInv'
        BY <1>1 DEF ToolInv, PullInv, ToolStays, Named, Copies, CopyOf
    <2> QED
        BY <2>4, <2>8, <2>9 DEF ToolInv
<1>4. CASE ~mounted
    <2>1. PICK x : x = Answer("Io")
        OBVIOUS
    <2>2. Reply(x)
        BY <1>4, <2>1 DEF BeginErase
    <2>3. x.err # "Ok"
        BY <2>1 DEF Answer
    <2>4. call.heard => Tells(x)'
        BY <2>3 DEF Tells
    <2> QED
        BY <1>1, <1>2, <2>2, <2>4, AnswerTells
<1> QED
    BY <1>3, <1>4

LEMMA BoardTells ==
    ASSUME DiskInv, CallInv, RowsInv, ToolInv, ToolStays, BoardNext
    PROVE  ToolInv'
<1>1. CASE \/ MountFilesystem \/ FormatFilesystem \/ PrepareSession \/ CreateSessionFiles \/ RunDegraded
           \/ RestartBoard \/ PanicBoard \/ PowerFails
    BY <1>1, BootTells, HangTells, EndOfBoot
<1>2. CASE AppendToFile
    BY <1>2, AppendTells
<1>3. CASE ServeRead
    BY <1>3, ReadServed
<1>4. CASE ServeRemove
    BY <1>4, RemoveServed
<1>5. CASE BeginErase
    BY <1>5, EraseBegun
<1>6. CASE EndErase
    BY <1>6, EraseServed
<1>7. CASE ServeRestart
    BY <1>7, RestartServed
<1> QED
    BY <1>1, <1>2, <1>3, <1>4, <1>5, <1>6, <1>7 DEF BoardNext, BoardWorks

HostInv == DiskInv /\ CallInv /\ RowsInv /\ ToolInv

\* What the tool reports as copied are consecutive rows of one boot, the files of a pull -r of one
\* session, and what it reports as removed stays removed until the board restarts, but for the log
\* the logging task starts again: whatever is lost, repeated, restarted or written in between.
THEOREM ReportsAreTrue == HostSpec => []ReportsHold
<1>1. HostInit => HostInv
    <2> SUFFICES ASSUME HostInit PROVE HostInv
        OBVIOUS
    <2>1. DiskInv /\ CallInv /\ RowsInv
        <3>1. DOMAIN disk = {} /\ disk = <<>>
            BY DEF HostInit, BoardInit
        <3>2. Filed(disk) /\ RowsOf(disk)
            BY <3>1 DEF Filed, RowsOf, OneBoot
        <3> QED
            BY <3>1, <3>2 DEF HostInit, BoardInit, DiskInv, CallInv, RowsInv, Erasing, None
    <2>2. ToolInv
        BY DEF HostInit, BoardInit, ToolInit, ToolInv, CommandInv, ConnectionInv, PullInv, Named,
               GoneInv, PulledFromOneSession, BuildInfo
    <2> QED
        BY <2>1, <2>2 DEF HostInv
<1>2. HostInv /\ [HostNext]_hostVars => HostInv'
    <2> SUFFICES ASSUME HostInv, [HostNext]_hostVars PROVE HostInv'
        OBVIOUS
    <2>1. CASE BoardNext /\ UNCHANGED toolVars
        <3>1. ToolStays
            BY <2>1 DEF toolVars, ToolStays
        <3> QED
            BY <2>1, <3>1, BoardKeeps, BoardRows, BoardTells DEF HostInv
    <2>2. CASE ToolStep
        BY <2>2, ToolKeeps, ToolTells DEF HostInv
    <2>3. CASE UNCHANGED hostVars
        BY <2>3 DEF HostInv, hostVars, boardVars, toolVars, DiskInv, CallInv, Erasing, RowsInv, ToolInv,
               CommandInv, ConnectionInv, PullInv, GoneInv, PulledFromOneSession, Present, Asks, RequestOf,
               File, Tells, TellsOf, CopyOf, Removed, Copies, Named
    <2> QED
        BY <2>1, <2>2, <2>3 DEF HostNext, ToolStep
<1>3. HostInv => ReportsHold
    BY DEF HostInv, ToolInv, GoneInv, Removed, ReportsHold, RemovedStaysAway
<1> QED
    BY <1>1, <1>2, <1>3, PTL DEF HostSpec
=============================================================================
