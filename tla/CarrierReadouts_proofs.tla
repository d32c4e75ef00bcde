------------------------ MODULE CarrierReadouts_proofs ------------------------
(***************************************************************************)
(* Proofs about the readouts of the sensor carriers: that no fix of the    *)
(* GNSS receiver is published twice or late, for every length of the week, *)
(* every size of the ring buffer and every number of faults; that the      *)
(* pairs of the inertial sensor are whole and dated within a period, for   *)
(* every size of the FIFO, watermark and delay; and that the drivers of    *)
(* carrier v2 keep publishing, for every timeout and every width of the    *)
(* moving average.                                                         *)
(***************************************************************************)
EXTENDS GnssReadout, ImuReadout, SensorNodes, SequenceTheorems, Common_proofs

-----------------------------------------------------------------------------
(* The GNSS receiver: times of week, and what waits in the ring buffer.    *)

\* The time of week some epochs, at most a week, later.
Later(t, n) == IF t + n < Week THEN t + n ELSE t + n - Week
Time == 0..(Week - 1)

Message == [kind : {"pvt", "text", "bad", "error"}, fix : BOOLEAN, itow : Int, age : Int]
Carrying == [errors : Int, link : BOOLEAN, status : {"Active", "Inactive"}, last : Int, fix : BOOLEAN,
             since : Int, stale : BOOLEAN, samples : Int]

\* A fix that waits is as old as its age says.
Waiting(m, now) == m.fix => m.itow \in Time /\ m.age \in 0..UartMax /\ Later(m.itow, m.age) = now

\* The last fix is as old as the history says; there is none only if none was published.
Known(last, since, now) ==
    /\ last = None \/ last \in Time
    /\ since \in 0..Week
    /\ last = None => since = Week
    /\ since < Week => Later(last, since) = now

GnssType ==
    /\ gnssErrors \in Int /\ gnssStatus \in {"Active", "Inactive"}
    /\ lastFix \in Int /\ sinceFix \in Int /\ samples \in Int

GnssFlags == linkActive \in BOOLEAN /\ stale \in BOOLEAN

\* The ring buffer bounds the age of what waits in it: an epoch that makes it older is also behind it.
UartInv ==
    /\ itow \in Time /\ uart \in Seq(Message) /\ Len(uart) <= UartMax
    /\ ~jumped => \A i \in 1..Len(uart) :
          Waiting(uart[i], itow) /\ (uart[i].fix => uart[i].age <= Len(uart) - i + 1)

FixInv == ~jumped => ~stale /\ Known(lastFix, sinceFix, itow)

GnssInv == GnssType /\ GnssFlags /\ UartInv /\ FixInv

\* A fix that read_pvt takes for newer is newer than the last one.
LEMMA Newer ==
    ASSUME NEW t \in Time, NEW p \in Time, NEW now \in Time, NEW a \in 0..UartMax, NEW s \in 0..(Week - 1),
           Later(t, a) = now, Later(p, s) = now, IsNewerEpoch(t, p)
    PROVE  a < s
<1>1. Week \in Nat /\ Week > 0 /\ UartMax \in Nat /\ 2 * UartMax <= Week
    BY GnssAssumption
<1> DEFINE x == t + Week - p
           e == x % Week
<1>2. x \in 0..(2 * Week - 1) /\ t \in Int /\ p \in Int /\ a \in Int /\ s \in Int /\ now \in Int
    BY <1>1 DEF Time
<1>3. e = IF x < Week THEN x ELSE x - Week
    BY <1>1, <1>2, WrapsOnce
<1>4. e > 0 /\ e < Week \div 2
    BY DEF IsNewerEpoch
<1>5. 2 * (Week \div 2) <= Week
    BY <1>1
<1> HIDE DEF e
<1>6. e > 0 /\ 2 * e < Week
    <2>1. e \in Int /\ Week \div 2 \in Int
        BY <1>1, <1>2, <1>3
    <2> QED
        BY <1>1, <1>4, <1>5, <2>1
<1> SUFFICES ASSUME a >= s
             PROVE  FALSE
    BY <1>2
<1>7. 2 * (a - s) <= Week
    BY <1>1, <1>2
<1> QED
    BY <1>1, <1>2, <1>3, <1>6, <1>7 DEF Later, Time

LEMMA Ages ==
    ASSUME NEW t \in Time, NEW now \in Time, NEW n \in 0..(Week - 1), Later(t, n) = now
    PROVE  Later(t, n + 1) = (now + 1) % Week /\ (now + 1) % Week \in Time
<1>1. Week \in Nat /\ Week > 0 /\ t \in Int /\ now \in Int /\ n \in Int /\ now + 1 \in 0..(2 * Week - 1)
    BY GnssAssumption DEF Time
<1>2. (now + 1) % Week = IF now + 1 < Week THEN now + 1 ELSE now + 1 - Week
    BY <1>1, WrapsOnce
<1> QED
    BY <1>1, <1>2 DEF Later, Time

LEMMA Submitted ==
    ASSUME NEW c \in Carrying, NEW m \in Message
    PROVE  /\ Submit(m, c) \in Carrying
           /\ ~m.fix => Submit(m, c).last = c.last /\ Submit(m, c).since = c.since
                        /\ (Submit(m, c).stale => c.stale)
           /\ m.fix => Submit(m, c).last = m.itow /\ Submit(m, c).since = m.age
                       /\ (Submit(m, c).stale => c.stale \/ m.age >= c.since)
<1>1. UartMax \in Nat
    BY GnssAssumption
<1>2. (c.samples + 1) % (UartMax + 1) \in Int
    BY <1>1 DEF Carrying
<1>3. Submit(m, c).last = IF m.fix THEN m.itow ELSE c.last
    BY DEF Submit, Carrying
<1>4. Submit(m, c).since = IF m.fix THEN m.age ELSE c.since
    BY DEF Submit, Carrying
<1>5. Submit(m, c).stale => c.stale \/ (m.fix /\ m.age >= c.since)
    BY DEF Submit, Carrying
<1>6. Submit(m, c) \in Carrying
    <2>1. m.itow \in Int /\ m.age \in Int /\ c.last \in Int /\ c.since \in Int
        BY DEF Carrying, Message
    <2>2. (IF m.fix THEN m.itow ELSE c.last) \in Int /\ (IF m.fix THEN m.age ELSE c.since) \in Int
        BY <2>1
    <2>3. (c.fix \/ m.fix) \in BOOLEAN /\ (c.stale \/ (m.fix /\ m.age >= c.since)) \in BOOLEAN
        OBVIOUS
    <2> QED
        BY <1>2, <2>2, <2>3 DEF Submit, Carrying
<1> QED
    BY <1>3, <1>4, <1>5, <1>6

\* What one message changes of the last fix and of the history.
Takes(c, m, r) ==
    /\ r \in Carrying
    /\ \/ r.last = c.last /\ r.since = c.since /\ (r.stale => c.stale)
       \/ /\ m.fix /\ ~Rejected(m, c.last)
          /\ r.last = m.itow /\ r.since = m.age
          /\ r.stale => c.stale \/ m.age >= c.since

LEMMA ParsedTakes ==
    ASSUME NEW c \in Carrying, NEW m \in Message, m.kind # "error"
    PROVE  Takes(c, m, Parsed(c, m))
<1> DEFINE up == [c EXCEPT !.link = TRUE, !.status = "Active"]
           bad == [c EXCEPT !.errors = Saturated(@)]
<1>1. up \in Carrying /\ up.last = c.last /\ up.since = c.since /\ up.stale = c.stale
    BY DEF Carrying
<1>2. Takes(c, m, bad)
    <2>1. MaxGnssErrors \in Nat /\ c.errors \in Int
        BY GnssAssumption DEF Carrying
    <2>2. Saturated(c.errors) \in Int
        BY <2>1 DEF Saturated
    <2>3. bad \in Carrying /\ bad.last = c.last /\ bad.since = c.since /\ bad.stale = c.stale
        BY <2>2 DEF Carrying
    <2> QED
        BY <2>3 DEF Takes
<1> HIDE DEF up, bad
<1>3. Takes(c, m, up)
    BY <1>1 DEF Takes
<1>4. Takes(c, m, c)
    BY DEF Takes
<1>5. ~Rejected(m, c.last) => Takes(c, m, Submit(m, c)) /\ Takes(c, m, Submit(m, up))
    BY <1>1, Submitted DEF Takes
<1>6. CASE m.kind = "bad"
    <2>1. Listen(c, m) = bad /\ Track(c, m) = bad
        BY <1>6, Zenon DEF Listen, Track, bad
    <2> QED
        BY <1>2, <2>1 DEF Parsed
<1>7. CASE m.kind = "text"
    <2>1. Listen(c, m) = c /\ Track(c, m) = c
        BY <1>7, Zenon DEF Listen, Track
    <2> QED
        BY <1>4, <2>1 DEF Parsed
<1>8. CASE m.kind = "pvt"
    <2>1. Listen(c, m) = IF Rejected(m, c.last) THEN up ELSE Submit(m, up)
        BY <1>8, Zenon DEF Listen, up
    <2>2. Track(c, m) = IF Rejected(m, c.last) THEN c ELSE Submit(m, c)
        BY <1>8, Zenon DEF Track
    <2> QED
        BY <1>3, <1>4, <1>5, <2>1, <2>2 DEF Parsed
<1> QED
    BY <1>6, <1>7, <1>8 DEF Message

\* The messages of a read, one by one.
LEMMA Parses ==
    ASSUME Len(uart) \in Nat
    PROVE  /\ Parse[0] = Carried
           /\ \A i \in 1..Len(uart) : Parse[i] = Parsed(Parse[i - 1], uart[i])
<1> DEFINE N == {k \in Nat : \E f : f = [i \in 0..k |-> IF i = 0 THEN Carried ELSE Parsed(f[i - 1], uart[i])]}
<1> HIDE DEF Carried
<1>1. 0 \in N
    <2> DEFINE f == [i \in 0..0 |-> Carried]
    <2>1. f = [i \in 0..0 |-> IF i = 0 THEN Carried ELSE Parsed(f[i - 1], uart[i])]
        OBVIOUS
    <2> QED
        BY <2>1
<1>2. ASSUME NEW k \in Nat, k \in N
      PROVE  k + 1 \in N
    <2>1. PICK f : f = [i \in 0..k |-> IF i = 0 THEN Carried ELSE Parsed(f[i - 1], uart[i])]
        BY <1>2
    <2> DEFINE h == [i \in 0..(k + 1) |-> IF i <= k THEN f[i] ELSE Parsed(f[k], uart[k + 1])]
               g == [i \in 0..(k + 1) |-> IF i = 0 THEN Carried ELSE Parsed(h[i - 1], uart[i])]
    <2>2. ASSUME NEW i \in 0..(k + 1)
          PROVE  h[i] = g[i]
        <3>1. CASE i = 0
            <4>1. f[0] = Carried
                BY <2>1
            <4> QED
                BY <3>1, <4>1
        <3>2. CASE i \in 1..k
            <4>1. i - 1 \in 0..k /\ i \in 0..k /\ i - 1 \in 0..(k + 1)
                BY <3>2
            <4>2. f[i] = Parsed(f[i - 1], uart[i])
                BY <2>1, <3>2, <4>1
            <4>3. h[i - 1] = f[i - 1] /\ h[i] = f[i]
                BY <3>2, <4>1
            <4> QED
                BY <3>2, <4>2, <4>3
        <3>3. CASE i = k + 1
            <4>1. h[i - 1] = f[k] /\ i - 1 = k
                BY <3>3
            <4> QED
                BY <3>3, <4>1
        <3> QED
            BY <3>1, <3>2, <3>3
    <2>3. h = [i \in 0..(k + 1) |-> IF i = 0 THEN Carried ELSE Parsed(h[i - 1], uart[i])]
        BY <2>2
    <2> HIDE DEF h
    <2> QED
        BY <2>3
<1> HIDE DEF N
<1>3. Len(uart) \in N
    BY <1>1, <1>2, NatInduct
<1>4. PICK f : f = [i \in 0..Len(uart) |-> IF i = 0 THEN Carried ELSE Parsed(f[i - 1], uart[i])]
    BY <1>3 DEF N
<1>5. Parse = [i \in 0..Len(uart) |-> IF i = 0 THEN Carried ELSE Parsed(Parse[i - 1], uart[i])]
    BY <1>4 DEF Parse
<1> HIDE DEF Parse
<1>6. ASSUME NEW i \in 0..Len(uart)
      PROVE  Parse[i] = IF i = 0 THEN Carried ELSE Parsed(Parse[i - 1], uart[i])
    BY <1>5
<1> QED
    BY <1>6

\* What a read makes of the last fix: the newest there was.
CarriedInv(c) == c \in Carrying /\ (~jumped => ~c.stale /\ Known(c.last, c.since, itow))

LEMMA MessageKeeps ==
    ASSUME GnssInv, NEW c, CarriedInv(c), NEW m \in Message, m.kind # "error", ~jumped => Waiting(m, itow)
    PROVE  CarriedInv(Parsed(c, m))
<1> DEFINE r == Parsed(c, m)
<1>1. Takes(c, m, r)
    BY ParsedTakes DEF CarriedInv
<1> HIDE DEF r
<1>2. r \in Carrying
    BY <1>1 DEF Takes
<1>3. ASSUME ~jumped
      PROVE  ~r.stale /\ Known(r.last, r.since, itow)
    <2>1. ~c.stale /\ Known(c.last, c.since, itow)
        BY <1>3 DEF CarriedInv
    <2>2. CASE r.last = c.last /\ r.since = c.since /\ (r.stale => c.stale)
        BY <2>1, <2>2
    <2>3. CASE /\ m.fix /\ ~Rejected(m, c.last)
               /\ r.last = m.itow /\ r.since = m.age
               /\ r.stale => c.stale \/ m.age >= c.since
        <3>1. m.itow \in Time /\ m.age \in 0..UartMax /\ Later(m.itow, m.age) = itow
            BY <1>3, <2>3 DEF Waiting
        <3>2. Week \in Nat /\ UartMax \in Nat /\ 2 * UartMax <= Week /\ Week > 0 /\ UartMax < Week
            BY GnssAssumption
        <3>3. m.age < c.since
            <4>1. CASE c.since = Week
                BY <3>1, <3>2, <4>1
            <4>2. CASE c.since # Week
                <5>1. /\ c.since \in 0..(Week - 1) /\ c.last \in Time /\ c.last # None
                      /\ Later(c.last, c.since) = itow
                    BY <2>1, <3>2, <4>2 DEF Known
                <5>2. IsNewerEpoch(m.itow, c.last)
                    BY <2>3, <5>1 DEF Rejected
                <5>3. itow \in Time
                    BY DEF GnssInv, UartInv
                <5> QED
                    BY <3>1, <5>1, <5>2, <5>3, Newer
            <4> QED
                BY <4>1, <4>2
        <3>4. m.age \in Int /\ c.since \in Int /\ None \notin Time
            BY <2>1, <3>1, <3>2 DEF Known, Time, None
        <3>5. ~r.stale
            BY <2>1, <2>3, <3>3, <3>4
        <3>6. Known(r.last, r.since, itow)
            BY <2>3, <3>1, <3>2, <3>4 DEF Known
        <3> QED
            BY <3>5, <3>6
    <2> QED
        BY <1>1, <2>2, <2>3 DEF Takes
<1> QED
    BY <1>2, <1>3 DEF CarriedInv, r

LEMMA ReadKeeps ==
    ASSUME GnssInv, Received
    PROVE  CarriedInv(AfterRead)
<1>1. Len(uart) \in Nat /\ \A i \in 1..Len(uart) : uart[i] \in Message /\ uart[i].kind # "error"
    BY ElementOfSeq, LenProperties DEF GnssInv, UartInv, Received, ReadFailed
<1>2. ASSUME ~jumped, NEW i \in 1..Len(uart)
      PROVE  Waiting(uart[i], itow)
    BY <1>2 DEF GnssInv, UartInv
<1> DEFINE N == {k \in Nat : k <= Len(uart) => CarriedInv(Parse[k])}
<1>3. 0 \in N
    <2>1. CarriedInv(Carried)
        <3>1. Carried \in Carrying
            BY FALSE \in BOOLEAN DEF GnssInv, GnssType, GnssFlags, Carried, Carrying
        <3>2. ~jumped => ~Carried.stale /\ Known(Carried.last, Carried.since, itow)
            BY DEF GnssInv, FixInv, Carried
        <3> QED
            BY <3>1, <3>2 DEF CarriedInv
    <2> QED
        BY <1>1, <2>1, Parses
<1>4. ASSUME NEW k \in Nat, k \in N
      PROVE  k + 1 \in N
    <2> SUFFICES ASSUME k + 1 <= Len(uart)
                 PROVE  CarriedInv(Parse[k + 1])
        OBVIOUS
    <2>1. k + 1 \in 1..Len(uart) /\ (k + 1) - 1 = k /\ CarriedInv(Parse[k])
        BY <1>1, <1>4
    <2>2. Parse[k + 1] = Parsed(Parse[k], uart[k + 1])
        BY <1>1, <2>1, Parses
    <2> QED
        BY <1>1, <1>2, <2>1, <2>2, MessageKeeps
<1> HIDE DEF N
<1>5. Len(uart) \in N
    BY <1>1, <1>3, <1>4, NatInduct
<1> QED
    BY <1>1, <1>5 DEF N, AfterRead

LEMMA InitGnss == GnssInit => GnssInv
<1> SUFFICES ASSUME GnssInit
             PROVE  GnssInv
    OBVIOUS
<1>1. GnssType
    BY GnssAssumption DEF GnssInit, GnssType, None
<1>2. UartInv
    BY GnssAssumption, EmptySeq DEF GnssInit, UartInv, Time
<1>3. FixInv
    BY GnssAssumption DEF GnssInit, FixInv, Known, None
<1>4. GnssFlags
    BY Zenon DEF GnssInit, GnssFlags
<1> QED
    BY <1>1, <1>2, <1>3, <1>4 DEF GnssInv

LEMMA GnssTypeStep == GnssInv /\ [GnssNext]_gnssVars => GnssType'
<1> SUFFICES ASSUME GnssInv, [GnssNext]_gnssVars
             PROVE  GnssType'
    OBVIOUS
<1> DEFINE c == AfterRead
<1>a. GnssType
    BY DEF GnssInv
<1>b. MaxGnssErrors \in Nat /\ Week \in Nat
    BY GnssAssumption
<1>c. Received => c \in Carrying
    BY ReadKeeps DEF CarriedInv
<1>d. Received => /\ c.errors \in Int /\ c.status \in {"Active", "Inactive"}
                  /\ c.last \in Int /\ c.since \in Int /\ c.samples \in Int
    BY <1>c DEF Carrying
<1> HIDE DEF c
<1>1. CASE SendBaudRate \/ SendConfig \/ GnssBackoff
    BY <1>1, <1>a DEF SendBaudRate, SendConfig, GnssBackoff, history, GnssType
<1>2. CASE ListenAgain \/ ListenError \/ ListenSilent
    BY <1>2, <1>a, <1>b DEF ListenAgain, ListenError, ListenSilent, GoInactive, Saturated, history, GnssType
<1>3. CASE ReadListening
    BY <1>3, <1>d DEF ReadListening, Keep, GnssType, c
<1>4. CASE ReadTracking
    <2>1. lastFix' = c.last /\ sinceFix' = c.since /\ samples' = c.samples
        BY <1>4 DEF ReadTracking, IntoInactive, c
    <2>2. gnssErrors' \in Int /\ gnssStatus' \in {"Active", "Inactive"}
        BY <1>4, <1>a, <1>d DEF ReadTracking, IntoInactive, GoInactive, GnssType, c
    <2>3. Received
        BY <1>4 DEF ReadTracking
    <2> QED
        BY <1>d, <2>1, <2>2, <2>3 DEF GnssType
<1>5. CASE TrackError \/ TrackSilent
    BY <1>5, <1>a DEF TrackError, TrackSilent, IntoInactive, GoInactive, history, GnssType
<1>6. CASE Epoch
    BY <1>6, <1>a, <1>b DEF Epoch, AtMostWeek, GnssType
<1>7. CASE Replay \/ BadBytes \/ PowerLoss \/ PowerUp \/ ClockJump
    BY <1>7, <1>a DEF Replay, BadBytes, PowerLoss, PowerUp, ClockJump, history, GnssType
<1>8. CASE UNCHANGED gnssVars
    BY <1>8, <1>a DEF gnssVars, history, GnssType
<1> QED
    BY <1>1, <1>2, <1>3, <1>4, <1>5, <1>6, <1>7, <1>8 DEF GnssNext, GnssTask

LEMMA FlagsStep == GnssInv /\ [GnssNext]_gnssVars => GnssFlags'
<1> SUFFICES ASSUME GnssInv, [GnssNext]_gnssVars
             PROVE  GnssFlags'
    OBVIOUS
<1> DEFINE c == AfterRead
<1>a. linkActive \in BOOLEAN /\ stale \in BOOLEAN
    BY DEF GnssInv, GnssFlags
<1>b. Received => c.link \in BOOLEAN /\ c.stale \in BOOLEAN
    BY ReadKeeps DEF CarriedInv, Carrying
<1> HIDE DEF c
<1>1. CASE ReadListening \/ ReadTracking
    <2>1. Received /\ stale' = c.stale
        BY <1>1, Zenon DEF ReadListening, ReadTracking, Keep, c
    <2>2. linkActive' = FALSE \/ linkActive' = c.link \/ linkActive' = linkActive
        BY <1>1, Zenon DEF ReadListening, ReadTracking, IntoInactive, GoInactive, c
    <2> QED
        BY <1>a, <1>b, <2>1, <2>2, Zenon DEF GnssFlags
<1>2. CASE \/ SendBaudRate \/ SendConfig \/ GnssBackoff \/ ListenAgain \/ ListenError \/ ListenSilent
           \/ TrackError \/ TrackSilent
    BY <1>2, <1>a, Zenon DEF SendBaudRate, SendConfig, GnssBackoff, ListenAgain, ListenError, ListenSilent,
        TrackError, TrackSilent, IntoInactive, GoInactive, history, GnssFlags
<1>3. CASE Epoch \/ Replay \/ BadBytes \/ PowerLoss \/ PowerUp \/ ClockJump \/ UNCHANGED gnssVars
    BY <1>3, <1>a, Zenon DEF Epoch, Replay, BadBytes, PowerLoss, PowerUp, ClockJump, gnssVars, history,
        GnssFlags
<1> QED
    BY <1>1, <1>2, <1>3, Zenon DEF GnssNext, GnssTask

LEMMA FixStep == GnssInv /\ [GnssNext]_gnssVars => FixInv'
<1> SUFFICES ASSUME GnssInv, [GnssNext]_gnssVars, ~jumped'
             PROVE  ~stale' /\ Known(lastFix', sinceFix', itow')
    BY DEF FixInv
<1> USE DEF FixInv
<1>a. FixInv /\ itow \in Time
    BY DEF GnssInv, UartInv
<1>1. CASE UNCHANGED <<lastFix, sinceFix, stale, jumped, itow>>
    BY <1>1, <1>a
<1>2. CASE ReadListening \/ ReadTracking
    <2>1. Received /\ UNCHANGED <<jumped, itow>>
        BY <1>2 DEF ReadListening, ReadTracking, world
    <2>2. lastFix' = AfterRead.last /\ sinceFix' = AfterRead.since /\ stale' = AfterRead.stale
        BY <1>2 DEF ReadListening, ReadTracking, Keep, IntoInactive
    <2>3. CarriedInv(AfterRead)
        BY <2>1, ReadKeeps
    <2> QED
        BY <2>1, <2>2, <2>3 DEF CarriedInv
<1>3. CASE Epoch
    <2>1. /\ UNCHANGED <<lastFix, stale, jumped>> /\ itow' = (itow + 1) % Week
          /\ sinceFix' = AtMostWeek(sinceFix + 1)
        BY <1>3 DEF Epoch
    <2>2. ~stale /\ Known(lastFix, sinceFix, itow) /\ Week \in Nat /\ Week > 0
        BY <1>a, <2>1, GnssAssumption
    <2>3. CASE sinceFix >= Week - 1
        BY <2>1, <2>2, <2>3 DEF Known, AtMostWeek
    <2>4. CASE sinceFix < Week - 1
        <3>1. sinceFix \in 0..(Week - 1) /\ lastFix \in Time /\ Later(lastFix, sinceFix) = itow
            BY <2>2, <2>4 DEF Known
        <3>2. Later(lastFix, sinceFix + 1) = itow'
            BY <1>a, <2>1, <3>1, Ages
        <3>3. sinceFix' = sinceFix + 1 /\ lastFix # None
            BY <2>1, <2>2, <2>4, <3>1 DEF AtMostWeek, Time, None
        <3> QED
            BY <2>1, <2>2, <2>4, <3>1, <3>2, <3>3 DEF Known
    <2>5. sinceFix \in Int
        BY <2>2 DEF Known
    <2> QED
        BY <2>2, <2>3, <2>4, <2>5
<1>4. CASE ClockJump
    BY <1>4 DEF ClockJump
<1>5. CASE \/ SendBaudRate \/ SendConfig \/ GnssBackoff \/ ListenAgain \/ ListenError \/ ListenSilent
           \/ TrackError \/ TrackSilent
    BY <1>1, <1>5 DEF SendBaudRate, SendConfig, GnssBackoff, ListenAgain, ListenError, ListenSilent,
        TrackError, TrackSilent, IntoInactive, history, world
<1>6. CASE Replay \/ BadBytes \/ PowerLoss \/ PowerUp \/ UNCHANGED gnssVars
    BY <1>1, <1>6 DEF Replay, BadBytes, PowerLoss, PowerUp, gnssVars, history, world
<1> QED
    BY <1>2, <1>3, <1>4, <1>5, <1>6 DEF GnssNext, GnssTask

LEMMA OtherMade ==
    ASSUME NEW k \in {"pvt", "text", "bad", "error"}
    PROVE  Other(k) \in Message /\ ~Other(k).fix
<1>1. Other(k) \in Message
    BY FALSE \in BOOLEAN DEF Other, Message
<1>2. ~Other(k).fix
    BY DEF Other
<1> QED
    BY <1>1, <1>2

LEMMA PvtMade ==
    ASSUME NEW f \in BOOLEAN, NEW t \in Int, NEW a \in Int
    PROVE  LET m == [Pvt(f, t) EXCEPT !.age = a]
           IN m \in Message /\ m.itow = t /\ m.age = a
<1> DEFINE m == [Pvt(f, t) EXCEPT !.age = a]
<1>1. Pvt(f, t) \in Message
    BY DEF Pvt, Message
<1>2. m \in Message
    BY <1>1 DEF Message
<1>3. m.itow = t /\ m.age = a
    BY DEF Pvt
<1> QED
    BY <1>2, <1>3

LEMMA PvtNew ==
    ASSUME NEW f \in BOOLEAN, NEW t \in Int
    PROVE  Pvt(f, t) \in Message /\ Pvt(f, t).itow = t /\ Pvt(f, t).age = 0
<1>1. Pvt(f, t) \in Message
    BY DEF Pvt, Message
<1>2. Pvt(f, t).itow = t /\ Pvt(f, t).age = 0
    BY DEF Pvt
<1> QED
    BY <1>1, <1>2

\* What waits stays as old as it says when one more message arrives.
Queued(u, now) ==
    \A i \in 1..Len(u) : Waiting(u[i], now) /\ (u[i].fix => u[i].age <= Len(u) - i + 1)

LEMMA OneMore ==
    ASSUME NEW u \in Seq(Message), NEW now \in Time, Queued(u, now), NEW m \in Message,
           Waiting(m, now), m.fix => m.age <= 1
    PROVE  Queued(Append(u, m), now)
<1> DEFINE v == Append(u, m)
<1>1. Len(u) \in Nat /\ Len(v) = Len(u) + 1 /\ v[Len(u) + 1] = m
      /\ \A i \in 1..Len(u) : v[i] = u[i]
    BY AppendProperties, LenProperties
<1> HIDE DEF v
<1> SUFFICES ASSUME NEW i \in 1..Len(v)
             PROVE  Waiting(v[i], now) /\ (v[i].fix => v[i].age <= Len(v) - i + 1)
    BY DEF Queued, v
<1>2. CASE i = Len(u) + 1
    BY <1>1, <1>2
<1>3. CASE i \in 1..Len(u)
    <2>1. v[i] = u[i] /\ Waiting(u[i], now) /\ (u[i].fix => u[i].age <= Len(u) - i + 1)
        BY <1>1, <1>3 DEF Queued
    <2>2. u[i] \in Message
        BY <1>3, ElementOfSeq
    <2>3. u[i].age \in Int
        BY <2>2 DEF Message
    <2> QED
        BY <1>1, <1>3, <2>1, <2>3
<1> QED
    BY <1>1, <1>2, <1>3

LEMMA Aged ==
    ASSUME UartInv
    PROVE  UartAged \in Seq(Message) /\ Len(UartAged) = Len(uart)
<1>1. Len(uart) \in Nat /\ uart \in Seq(Message) /\ Week \in Int
    BY LenProperties, GnssAssumption DEF UartInv
<1>2. ASSUME NEW i \in 1..Len(uart)
      PROVE  [uart[i] EXCEPT !.age = AtMostWeek(@ + 1)] \in Message
    <2>1. uart[i] \in Message
        BY <1>1, <1>2, ElementOfSeq
    <2>2. uart[i].age \in Int
        BY <2>1 DEF Message
    <2>3. AtMostWeek(uart[i].age + 1) \in Int
        BY <1>1, <2>2 DEF AtMostWeek
    <2> QED
        BY <2>1, <2>3 DEF Message
<1>3. UartAged \in [1..Len(uart) -> Message]
    BY <1>2 DEF UartAged
<1> QED
    BY <1>1, <1>3, SeqDef, LenProperties

\* One epoch later, one more behind each: the bound of the ages stays true once a message is added.
LEMMA OneEpoch ==
    ASSUME UartInv, ~jumped, Len(uart) < UartMax, NEW m \in Message,
           Waiting(m, (itow + 1) % Week), m.fix => m.age = 0
    PROVE  Queued(Append(UartAged, m), (itow + 1) % Week)
<1> DEFINE u == UartAged
           v == Append(u, m)
           now == (itow + 1) % Week
<1>1. u \in Seq(Message) /\ Len(u) = Len(uart) /\ Len(uart) \in Nat
    BY Aged, LenProperties DEF UartInv
<1>2. Len(v) = Len(uart) + 1 /\ v[Len(uart) + 1] = m /\ \A i \in 1..Len(uart) : v[i] = u[i]
    BY <1>1, AppendProperties
<1>3. Week \in Nat /\ Week > 0 /\ UartMax \in Nat /\ 2 * UartMax <= Week /\ UartMax < Week
    BY GnssAssumption
<1>4. ASSUME NEW i \in 1..Len(uart), uart[i].fix
      PROVE  Waiting(u[i], now) /\ u[i].age <= Len(v) - i + 1
    <2>1. /\ uart[i].itow \in Time /\ uart[i].age \in 0..UartMax /\ Later(uart[i].itow, uart[i].age) = itow
          /\ uart[i].age <= Len(uart) - i + 1
        BY <1>4 DEF UartInv, Waiting
    <2>2. uart[i] \in Message
        BY <1>1, <1>4, ElementOfSeq DEF UartInv
    <2>3. AtMostWeek(uart[i].age + 1) = uart[i].age + 1
        BY <1>3, <2>1 DEF AtMostWeek
    <2>4. u[i] = [uart[i] EXCEPT !.age = AtMostWeek(@ + 1)]
        BY <1>4 DEF UartAged
    <2>5. u[i].itow = uart[i].itow /\ u[i].age = uart[i].age + 1
        BY <2>2, <2>3, <2>4 DEF Message
    <2>6. uart[i].age \in 0..(Week - 1) /\ itow \in Time
        BY <1>3, <2>1 DEF UartInv
    <2>7. Later(uart[i].itow, uart[i].age + 1) = now
        BY <2>1, <2>6, Ages
    <2>8. u[i].age \in 0..UartMax /\ u[i].age <= Len(v) - i + 1
        BY <1>1, <1>2, <1>3, <1>4, <2>1, <2>5
    <2> QED
        BY <2>1, <2>5, <2>7, <2>8 DEF Waiting
<1>5. ASSUME NEW i \in 1..Len(uart)
      PROVE  u[i].fix = uart[i].fix
    <2>1. uart[i] \in Message
        BY <1>1, <1>5, ElementOfSeq DEF UartInv
    <2> QED
        BY <1>5, <2>1 DEF UartAged, Message
<1> HIDE DEF u, now
<1> SUFFICES ASSUME NEW i \in 1..Len(v)
             PROVE  Waiting(v[i], now) /\ (v[i].fix => v[i].age <= Len(v) - i + 1)
    BY DEF Queued, now, u
<1> HIDE DEF v
<1>6. CASE i = Len(uart) + 1
    BY <1>1, <1>2, <1>6 DEF now
<1>7. CASE i \in 1..Len(uart)
    <2>1. v[i] = u[i] /\ u[i].fix = uart[i].fix
        BY <1>2, <1>5, <1>7
    <2>2. CASE uart[i].fix
        BY <1>4, <1>7, <2>1, <2>2
    <2>3. CASE ~uart[i].fix
        BY <2>1, <2>3 DEF Waiting
    <2> QED
        BY <2>2, <2>3
<1> QED
    BY <1>1, <1>2, <1>6, <1>7

LEMMA UartStep == GnssInv /\ [GnssNext]_gnssVars => UartInv'
<1> SUFFICES ASSUME GnssInv, [GnssNext]_gnssVars
             PROVE  UartInv'
    OBVIOUS
<1>a. UartInv /\ itow \in Time /\ uart \in Seq(Message) /\ Len(uart) \in Nat /\ Len(uart) <= UartMax
    BY LenProperties DEF GnssInv, UartInv
<1>b. Week \in Nat /\ Week > 0 /\ UartMax \in Nat /\ 2 * UartMax <= Week
    BY GnssAssumption
<1>c. ~jumped => Queued(uart, itow)
    BY <1>a DEF UartInv, Queued
<1>d. ASSUME itow' \in Time, uart' \in Seq(Message), Len(uart') <= UartMax, ~jumped' => Queued(uart', itow')
      PROVE  UartInv'
    BY <1>d DEF UartInv, Queued
<1>1. CASE UNCHANGED <<uart, jumped, itow>>
    BY <1>1, <1>a, <1>c, <1>d
<1>2. CASE uart' = <<>> /\ UNCHANGED <<jumped, itow>>
    <2>1. uart' \in Seq(Message) /\ Len(uart') = 0
        BY <1>2, EmptySeq
    <2>2. Queued(uart', itow')
        BY <2>1 DEF Queued
    <2> QED
        BY <1>2, <1>a, <1>b, <1>d, <2>1, <2>2
<1>3. CASE Epoch
    <2>1. Len(uart) < UartMax /\ itow' = (itow + 1) % Week /\ jumped' = jumped
        BY <1>3 DEF Epoch
    <2>2. PICK m \in Sent : uart' = Append(UartAged, m)
        BY <1>3 DEF Epoch
    <2>3. itow' \in Time
        BY <1>a, <1>b, <2>1 DEF Time
    <2>z. ASSUME NEW n \in Time
          PROVE  Later(n, 0) = n
        BY <1>b DEF Later, Time
    <2>4. m \in Message /\ Waiting(m, itow') /\ (m.fix => m.age = 0)
        <3>1. Later(itow', 0) = itow'
            BY <2>3, <2>z
        <3>2. itow' \in Int /\ 0 \in 0..UartMax /\ 0 \in Int
            BY <1>b, <2>3 DEF Time
        <3>3. CASE m = Other("error") \/ m = Other("text")
            <4>1. m \in Message /\ ~m.fix
                BY <3>3, OtherMade, Zenon
            <4> QED
                BY <4>1, Zenon DEF Waiting
        <3>4. CASE m = Pvt(TRUE, itow') \/ m = Pvt(FALSE, itow')
            <4>1. m \in Message /\ m.itow = itow' /\ m.age = 0
                BY <3>2, <3>4, PvtNew, FALSE \in BOOLEAN, TRUE \in BOOLEAN, Zenon
            <4> QED
                BY <2>3, <3>1, <3>2, <4>1 DEF Waiting
        <3> QED
            BY <2>1, <2>2, <3>3, <3>4 DEF Sent
    <2>5. UartAged \in Seq(Message) /\ Len(UartAged) = Len(uart)
        BY <1>a, Aged
    <2>6. uart' \in Seq(Message) /\ Len(uart') = Len(uart) + 1
        BY <2>2, <2>4, <2>5, AppendProperties
    <2>7. ~jumped => Queued(uart', itow')
        BY <1>a, <2>1, <2>2, <2>4, OneEpoch
    <2> QED
        BY <1>a, <1>b, <1>d, <2>1, <2>3, <2>6, <2>7
<1>4. CASE Replay
    <2>1. Len(uart) < UartMax /\ UNCHANGED <<itow, jumped>>
        BY <1>4 DEF Replay, history
    <2>2. PICK a \in 0..1 : uart' = Append(uart, [Pvt(TRUE, (itow + Week - a) % Week) EXCEPT !.age = a])
        BY <1>4 DEF Replay
    <2> DEFINE t == (itow + Week - a) % Week
               m == [Pvt(TRUE, t) EXCEPT !.age = a]
    <2>3. t \in Time /\ Later(t, a) = itow
        <3>1. itow + Week - a \in 0..(2 * Week - 1)
            BY <1>a, <1>b DEF Time
        <3>2. t = IF itow + Week - a < Week THEN itow + Week - a ELSE itow - a
            BY <1>a, <1>b, <3>1, WrapsOnce DEF Time
        <3> HIDE DEF t
        <3> QED
            BY <1>a, <1>b, <2>1, <3>2 DEF Later, Time
    <2> HIDE DEF t
    <2>4. t \in Int /\ a \in Int /\ a \in 0..UartMax
        BY <1>a, <1>b, <2>1, <2>3 DEF Time
    <2>5. m \in Message /\ Waiting(m, itow) /\ m.age <= 1
        <3>1. m \in Message /\ m.itow = t /\ m.age = a
            BY <2>4, PvtMade, TRUE \in BOOLEAN, Zenon
        <3> HIDE DEF m
        <3> QED
            BY <2>3, <2>4, <3>1 DEF Waiting
    <2> HIDE DEF m
    <2>6. uart' = Append(uart, m)
        BY <2>2 DEF m, t
    <2>7. uart' \in Seq(Message) /\ Len(uart') = Len(uart) + 1
        BY <1>a, <2>5, <2>6, AppendProperties
    <2>8. ~jumped => Queued(uart', itow)
        BY <1>a, <1>c, <2>5, <2>6, OneMore
    <2> QED
        BY <1>a, <1>b, <1>d, <2>1, <2>7, <2>8
<1>5. CASE BadBytes
    <2>1. Len(uart) < UartMax /\ UNCHANGED <<itow, jumped>> /\ uart' = Append(uart, Other("bad"))
        BY <1>5 DEF BadBytes, history
    <2>2. Other("bad") \in Message /\ Waiting(Other("bad"), itow) /\ (Other("bad").fix => Other("bad").age <= 1)
        BY DEF Other, Message, Waiting
    <2>3. uart' \in Seq(Message) /\ Len(uart') = Len(uart) + 1
        BY <1>a, <2>1, <2>2, AppendProperties
    <2>4. ~jumped => Queued(uart', itow)
        BY <1>a, <1>c, <2>1, <2>2, OneMore
    <2> QED
        BY <1>a, <1>b, <1>d, <2>1, <2>3, <2>4
<1>6. CASE ClockJump
    BY <1>6, <1>a, <1>d DEF ClockJump, Time
<1>7. CASE ReadListening \/ ReadTracking \/ ListenError \/ TrackError
    BY <1>2, <1>7 DEF ReadListening, ReadTracking, ListenError, TrackError, history, world
<1>8. CASE SendBaudRate \/ SendConfig \/ GnssBackoff \/ ListenAgain \/ ListenSilent \/ TrackSilent
    BY <1>1, <1>8 DEF SendBaudRate, SendConfig, GnssBackoff, ListenAgain, ListenSilent, TrackSilent,
        history, world
<1>9. CASE PowerLoss \/ PowerUp \/ UNCHANGED gnssVars
    BY <1>1, <1>9 DEF PowerLoss, PowerUp, gnssVars, history, world
<1> QED
    BY <1>3, <1>4, <1>5, <1>6, <1>7, <1>8, <1>9 DEF GnssNext, GnssTask

(* No fix is published that was received before a published one, however   *)
(* the UART replays old bytes and however often the link is restarted, as  *)
(* long as the receiver's clock did not jump: what read_pvt (gnss.rs)      *)
(* takes for newer modulo the week is newer, for nothing that waits is     *)
(* half a week old, and the last fix outlives Inactive and Active.         *)
THEOREM FixesNewOnly == GnssSpec => []FixesAreNew
<1>1. GnssInit => GnssInv
    BY InitGnss
<1>2. GnssInv /\ [GnssNext]_gnssVars => GnssInv'
    BY GnssTypeStep, FlagsStep, FixStep, UartStep DEF GnssInv
<1>3. GnssInv => FixesAreNew
    BY DEF GnssInv, FixInv, FixesAreNew
<1> QED
    BY <1>1, <1>2, <1>3, PTL DEF GnssSpec

-----------------------------------------------------------------------------
(* Sums of sequences.                                                      *)

\* Sums of the first elements of a sequence.
LEMMA SumSteps ==
    ASSUME NEW s, NEW k \in Nat, \A i \in 1..(k + 1) : s[i] \in Int
    PROVE  /\ SumFunctionOnSet(s, 1..k) \in Int
           /\ SumFunctionOnSet(s, 1..(k + 1)) = s[k + 1] + SumFunctionOnSet(s, 1..k)
<1>1. IsFiniteSet(1..(k + 1)) /\ IsFiniteSet(1..k)
    BY FS_Interval
<1>2. k + 1 \in 1..(k + 1) /\ (1..(k + 1)) \ {k + 1} = 1..k
    OBVIOUS
<1>3. \A i \in 1..k : s[i] \in Int
    OBVIOUS
<1>4. SumFunctionOnSet(s, 1..k) \in Int
    BY <1>1, <1>3, SumOfRest
<1>5. \A x \in 1..(k + 1) : SumFunctionOnSet(s, 1..(k + 1)) = s[x] + SumFunctionOnSet(s, (1..(k + 1)) \ {x})
    BY <1>1, SumOfRest
<1> QED
    BY <1>2, <1>4, <1>5

LEMMA SumOfNone == ASSUME NEW s PROVE SumFunctionOnSet(s, 1..0) = 0
<1>1. IsFiniteSet(1..0) /\ 1..0 = {} /\ \A x \in 1..0 : s[x] \in Int
    BY FS_Interval
<1> QED
    BY <1>1, SumOfRest

LEMMA SumsSame ==
    ASSUME NEW s, NEW t, NEW n \in Nat, \A i \in 1..n : s[i] \in Int /\ t[i] = s[i]
    PROVE  SumFunctionOnSet(t, 1..n) = SumFunctionOnSet(s, 1..n)
<1> DEFINE N == {k \in Nat : k <= n => SumFunctionOnSet(t, 1..k) = SumFunctionOnSet(s, 1..k)}
<1>1. 0 \in N
    BY SumOfNone
<1>2. ASSUME NEW k \in Nat, k \in N
      PROVE  k + 1 \in N
    <2> SUFFICES ASSUME k + 1 <= n
                 PROVE  SumFunctionOnSet(t, 1..(k + 1)) = SumFunctionOnSet(s, 1..(k + 1))
        OBVIOUS
    <2>1. \A i \in 1..(k + 1) : s[i] \in Int /\ t[i] \in Int /\ t[i] = s[i]
        OBVIOUS
    <2>2. SumFunctionOnSet(t, 1..k) = SumFunctionOnSet(s, 1..k)
        BY <1>2
    <2>3. SumFunctionOnSet(t, 1..(k + 1)) = t[k + 1] + SumFunctionOnSet(t, 1..k)
        BY <2>1, SumSteps
    <2>4. SumFunctionOnSet(s, 1..(k + 1)) = s[k + 1] + SumFunctionOnSet(s, 1..k)
        BY <2>1, SumSteps
    <2> QED
        BY <2>1, <2>2, <2>3, <2>4
<1> HIDE DEF N
<1>3. n \in N
    BY <1>1, <1>2, NatInduct
<1> QED
    BY <1>3 DEF N

LEMMA SumsShift ==
    ASSUME NEW s, NEW t, NEW n \in Nat, \A i \in 1..(n + 1) : s[i] \in Int, \A i \in 1..n : t[i] = s[i + 1]
    PROVE  SumFunctionOnSet(s, 1..(n + 1)) = s[1] + SumFunctionOnSet(t, 1..n)
<1> DEFINE N == {k \in Nat : k <= n => SumFunctionOnSet(s, 1..(k + 1)) = s[1] + SumFunctionOnSet(t, 1..k)}
<1>1. 0 \in N
    <2>1. SumFunctionOnSet(s, 1..(0 + 1)) = s[0 + 1] + SumFunctionOnSet(s, 1..0)
        <3>1. \A i \in 1..(0 + 1) : s[i] \in Int
            OBVIOUS
        <3> QED
            BY <3>1, SumSteps
    <2>2. SumFunctionOnSet(s, 1..0) = 0 /\ SumFunctionOnSet(t, 1..0) = 0
        BY SumOfNone
    <2>3. SumFunctionOnSet(s, 1..(0 + 1)) = s[1] + SumFunctionOnSet(t, 1..0)
        BY <2>1, <2>2
    <2> QED
        BY <2>3
<1>2. ASSUME NEW k \in Nat, k \in N
      PROVE  k + 1 \in N
    <2> SUFFICES ASSUME k + 1 <= n
                 PROVE  SumFunctionOnSet(s, 1..((k + 1) + 1)) = s[1] + SumFunctionOnSet(t, 1..(k + 1))
        OBVIOUS
    <2>1. /\ \A i \in 1..((k + 1) + 1) : s[i] \in Int
          /\ \A i \in 1..(k + 1) : t[i] \in Int
          /\ t[k + 1] = s[(k + 1) + 1]
        OBVIOUS
    <2>2. SumFunctionOnSet(s, 1..(k + 1)) = s[1] + SumFunctionOnSet(t, 1..k)
        BY <1>2
    <2>3. SumFunctionOnSet(s, 1..((k + 1) + 1)) = s[(k + 1) + 1] + SumFunctionOnSet(s, 1..(k + 1))
        BY <2>1, SumSteps
    <2>4. /\ SumFunctionOnSet(t, 1..(k + 1)) = t[k + 1] + SumFunctionOnSet(t, 1..k)
          /\ SumFunctionOnSet(t, 1..k) \in Int
        BY <2>1, SumSteps
    <2>5. s[1] \in Int /\ t[k + 1] \in Int
        BY <2>1
    <2> QED
        BY <2>1, <2>2, <2>3, <2>4, <2>5
<1> HIDE DEF N
<1>3. n \in N
    BY <1>1, <1>2, NatInduct
<1> QED
    BY <1>3 DEF N

LEMMA SumOfSeq ==
    ASSUME NEW s \in Seq(Nat)
    PROVE  SumFunction(s) \in Int /\ SumFunction(s) = SumFunctionOnSet(s, 1..Len(s))
<1>1. Len(s) \in Nat /\ DOMAIN s = 1..Len(s)
    BY LenProperties
<1>2. IsFiniteSet(1..Len(s)) /\ \A i \in 1..Len(s) : s[i] \in Int
    BY <1>1, FS_Interval, ElementOfSeq
<1>3. SumFunctionOnSet(s, 1..Len(s)) \in Int
    BY <1>2, SumOfRest
<1> QED
    BY <1>1, <1>3 DEF SumFunction

LEMMA SumAppended ==
    ASSUME NEW s \in Seq(Nat), NEW x \in Nat
    PROVE  SumFunction(Append(s, x)) = SumFunction(s) + x
<1> DEFINE t == Append(s, x)
<1>1. Len(s) \in Nat /\ t \in Seq(Nat) /\ Len(t) = Len(s) + 1 /\ t[Len(s) + 1] = x
      /\ \A i \in 1..Len(s) : t[i] = s[i]
    BY AppendProperties, LenProperties
<1>2. \A i \in 1..Len(s) : s[i] \in Int
    BY ElementOfSeq
<1> HIDE DEF t
<1>3. \A i \in 1..(Len(s) + 1) : t[i] \in Int
    BY <1>1, ElementOfSeq
<1>4. SumFunctionOnSet(t, 1..(Len(s) + 1)) = t[Len(s) + 1] + SumFunctionOnSet(t, 1..Len(s))
    BY <1>1, <1>3, SumSteps
<1>5. SumFunctionOnSet(t, 1..Len(s)) = SumFunctionOnSet(s, 1..Len(s))
    BY <1>1, <1>2, SumsSame
<1>6. SumFunction(t) = SumFunctionOnSet(t, 1..(Len(s) + 1)) /\ SumFunction(s) = SumFunctionOnSet(s, 1..Len(s))
      /\ SumFunction(s) \in Int
    BY <1>1, SumOfSeq
<1> QED
    BY <1>1, <1>4, <1>5, <1>6 DEF t

LEMMA SumOfTail ==
    ASSUME NEW s \in Seq(Nat), s # <<>>
    PROVE  SumFunction(s) = s[1] + SumFunction(Tail(s))
<1> DEFINE t == Tail(s)
           n == Len(t)
<1>1. n \in Nat /\ Len(s) = n + 1 /\ t \in Seq(Nat) /\ \A i \in 1..n : t[i] = s[i + 1]
    BY HeadTailProperties, LenProperties
<1>2. \A i \in 1..(n + 1) : s[i] \in Int
    BY <1>1, ElementOfSeq
<1> HIDE DEF n, t
<1>3. SumFunctionOnSet(s, 1..(n + 1)) = s[1] + SumFunctionOnSet(t, 1..n)
    BY <1>1, <1>2, SumsShift
<1>4. SumFunction(s) = SumFunctionOnSet(s, 1..(n + 1)) /\ SumFunction(t) = SumFunctionOnSet(t, 1..n)
    BY <1>1, SumOfSeq DEF n
<1> QED
    BY <1>3, <1>4 DEF t

-----------------------------------------------------------------------------
(* The sensor nodes: the ring of the moving average, and the selectors.    *)

\* The place in the ring of the n-th oldest sample.
Slot(i, n) == IF i + n - 1 < Window THEN i + n - 1 ELSE i + n - 1 - Window
Place == 0..(Window - 1)

RingType(r, i, q) == r \in [Place -> Nat] /\ i \in Place /\ q \in Seq(Nat)

\* The ring holds the latest samples, and zeros while there are too few.
Filling(r, i, q) == Len(q) = i /\ \A k \in Place : r[k] = IF k < i THEN q[k + 1] ELSE 0
Full(r, i, q) == Len(q) = Window /\ \A n \in 1..Window : q[n] = r[Slot(i, n)]

LEMMA NextPlace ==
    ASSUME NEW i \in Place
    PROVE  /\ Window \in Nat /\ Window > 0
           /\ (i + 1) % Window = IF i + 1 = Window THEN 0 ELSE i + 1
           /\ (i + 1) % Window \in Place
<1>1. Window \in Nat /\ Window > 0
    BY NodesAssumption
<1>2. i \in Int /\ i + 1 \in 0..(2 * Window - 1)
    BY <1>1 DEF Place
<1>3. (i + 1) % Window = IF i + 1 < Window THEN i + 1 ELSE i + 1 - Window
    BY <1>1, <1>2, WrapsOnce
<1>4. (i + 1) % Window = IF i + 1 = Window THEN 0 ELSE i + 1
    BY <1>1, <1>3 DEF Place
<1> QED
    BY <1>1, <1>4 DEF Place

\* One more sample while the ring fills.
LEMMA RingFills ==
    ASSUME NEW r, NEW i, NEW q, RingType(r, i, q), Filling(r, i, q), NEW x \in Nat
    PROVE  LET rr == [r EXCEPT ![i] = x]
               j == (i + 1) % Window
               qq == Append(q, x)
           IN /\ RingType(rr, j, qq) /\ Len(q) < Window /\ Len(qq) = i + 1 /\ r[i] = 0
              /\ i + 1 = Window => Full(rr, j, qq)
              /\ i + 1 # Window => Filling(rr, j, qq)
<1> DEFINE rr == [r EXCEPT ![i] = x]
           j == (i + 1) % Window
           qq == Append(q, x)
<1>1. /\ Window \in Nat /\ Window > 0 /\ j \in Place
      /\ j = IF i + 1 = Window THEN 0 ELSE i + 1
    BY NextPlace DEF RingType
<1>2. Len(q) = i /\ i \in Place /\ i \in Nat /\ r[i] = 0 /\ Len(q) < Window
    BY <1>1 DEF Filling, RingType, Place
<1>3. qq \in Seq(Nat) /\ Len(qq) = i + 1 /\ qq[i + 1] = x /\ \A n \in 1..i : qq[n] = q[n]
    BY <1>2, AppendProperties DEF RingType
<1>4. rr \in [Place -> Nat] /\ \A k \in Place : rr[k] = IF k = i THEN x ELSE r[k]
    BY <1>2 DEF RingType
<1> HIDE DEF rr, j, qq
<1>5. ASSUME i + 1 = Window
      PROVE  Full(rr, j, qq)
    <2> SUFFICES ASSUME NEW n \in 1..Window
                 PROVE  qq[n] = rr[Slot(j, n)]
        BY <1>3, <1>5 DEF Full
    <2>1. Slot(j, n) = n - 1 /\ n - 1 \in Place
        BY <1>1, <1>5 DEF Slot, Place
    <2>2. CASE n = Window
        BY <1>2, <1>3, <1>4, <1>5, <2>1, <2>2
    <2>3. CASE n # Window
        <3>1. n \in 1..i /\ n - 1 < i /\ n - 1 # i /\ (n - 1) + 1 = n
            BY <1>2, <1>5, <2>3
        <3>2. r[n - 1] = q[n]
            BY <2>1, <3>1 DEF Filling
        <3> QED
            BY <1>3, <1>4, <2>1, <3>1, <3>2
    <2> QED
        BY <2>2, <2>3
<1>6. ASSUME i + 1 # Window
      PROVE  Filling(rr, j, qq)
    <2>1. j = i + 1
        BY <1>1, <1>6
    <2> SUFFICES ASSUME NEW k \in Place
                 PROVE  rr[k] = IF k < j THEN qq[k + 1] ELSE 0
        BY <1>3, <2>1 DEF Filling
    <2>2. k \in Nat
        BY <1>1 DEF Place
    <2>3. CASE k < i
        <3>1. k + 1 \in 1..i /\ r[k] = q[k + 1] /\ k < j /\ k # i
            BY <1>2, <2>1, <2>2, <2>3 DEF Filling
        <3> QED
            BY <1>3, <1>4, <3>1
    <2>4. CASE k = i
        BY <1>2, <1>3, <1>4, <2>1, <2>4
    <2>5. CASE k > i
        <3>1. r[k] = 0 /\ ~(k < j) /\ k # i
            BY <1>2, <2>1, <2>2, <2>5 DEF Filling
        <3> QED
            BY <1>4, <3>1
    <2> QED
        BY <1>2, <2>2, <2>3, <2>4, <2>5
<1> QED
    BY <1>1, <1>2, <1>3, <1>4, <1>5, <1>6 DEF RingType, rr, j, qq

\* One more sample once it is full: the oldest leaves it.
LEMMA RingTurns ==
    ASSUME NEW r, NEW i, NEW q, RingType(r, i, q), Full(r, i, q), NEW x \in Nat
    PROVE  LET rr == [r EXCEPT ![i] = x]
               j == (i + 1) % Window
               qq == Append(Tail(q), x)
           IN RingType(rr, j, qq) /\ Full(rr, j, qq) /\ r[i] = q[1] /\ q # <<>> /\ Tail(q) \in Seq(Nat)
<1> DEFINE rr == [r EXCEPT ![i] = x]
           j == (i + 1) % Window
           t == Tail(q)
           qq == Append(t, x)
<1>1. /\ Window \in Nat /\ Window > 0 /\ j \in Place
      /\ j = IF i + 1 = Window THEN 0 ELSE i + 1
    BY NextPlace DEF RingType
<1>2. Len(q) = Window /\ i \in Place /\ i \in Nat /\ i < Window /\ q # <<>>
    BY <1>1, EmptySeq DEF Full, RingType, Place
<1>3. t \in Seq(Nat) /\ Len(t) = Window - 1 /\ \A n \in 1..(Window - 1) : t[n] = q[n + 1]
    BY <1>1, <1>2, HeadTailProperties DEF RingType
<1> HIDE DEF t
<1>4. qq \in Seq(Nat) /\ Len(qq) = Window /\ qq[Window] = x /\ \A n \in 1..(Window - 1) : qq[n] = q[n + 1]
    BY <1>1, <1>3, AppendProperties
<1>5. rr \in [Place -> Nat] /\ \A k \in Place : rr[k] = IF k = i THEN x ELSE r[k]
    BY <1>2 DEF RingType
<1> HIDE DEF rr, j, qq
<1>6. r[i] = q[1]
    <2>1. Slot(i, 1) = i /\ 1 \in 1..Window
        BY <1>1, <1>2 DEF Slot
    <2> QED
        BY <2>1 DEF Full
<1>7. Full(rr, j, qq)
    <2> SUFFICES ASSUME NEW n \in 1..Window
                 PROVE  qq[n] = rr[Slot(j, n)]
        BY <1>4 DEF Full
    <2>1. CASE n = Window
        <3>1. Slot(j, n) = i
            BY <1>1, <1>2, <2>1 DEF Slot
        <3> QED
            BY <1>2, <1>4, <1>5, <2>1, <3>1
    <2>2. CASE n # Window
        <3>1. n \in 1..(Window - 1) /\ n + 1 \in 1..Window
            BY <1>1, <2>2
        <3>2. Slot(j, n) = Slot(i, n + 1) /\ Slot(j, n) \in Place /\ Slot(j, n) # i
            BY <1>1, <1>2, <3>1 DEF Slot, Place
        <3>3. q[n + 1] = r[Slot(i, n + 1)]
            BY <3>1 DEF Full
        <3> QED
            BY <1>4, <1>5, <3>1, <3>2, <3>3
    <2> QED
        BY <2>1, <2>2
<1> QED
    BY <1>1, <1>2, <1>3, <1>4, <1>5, <1>6, <1>7 DEF RingType, rr, j, qq, t

-----------------------------------------------------------------------------
Attempt == {"no", "tried", "delivered"}
Quality == [age : Nat, tier : Nat, pdop : Nat]

NodesType ==
    /\ kind \in {"imu", "mag", "gnss", "air"} /\ primary \in Node
    /\ polled \in [Node -> Attempt] /\ solution \in [Node -> Quality]
    /\ quiet \in Nat /\ sinceUpdate \in Nat

\* What a selector measures its timeout with is what its driver has been quiet for, while the
\* source it prefers could still be the one that was used.
QuietInv ==
    /\ \A s \in Node : polled[s] = "delivered" => quiet <= SourceTimeout
    /\ kind \in {"imu", "mag"} => sinceUpdate = UpTo(quiet, SourceTimeout + 1)
    /\ kind = "gnss" /\ Fresh(solution, primary) => quiet <= solution[primary].age

RingInv ==
    /\ RingType(ring, index, recent)
    /\ filled => Full(ring, index, recent)
    /\ ~filled => Filling(ring, index, recent)

SumInv == sum = SumFunction(recent)

FilledInv == filled \in BOOLEAN

NodesInv == NodesType /\ QuietInv /\ RingInv /\ SumInv /\ FilledInv

LEMMA NoFixIs == NoFix \in Quality /\ NoFix.age = SourceTimeout + 1
BY NodesAssumption DEF NoFix, Quality

LEMMA InitNodes == NodesInit => NodesInv
<1> SUFFICES ASSUME NodesInit
             PROVE  NodesInv
    OBVIOUS
<1>1. SourceTimeout \in Nat /\ Window \in Nat /\ Window > 0
    BY NodesAssumption
<1>2. NodesType
    BY NoFixIs DEF NodesInit, NodesType, Node, Attempt
<1>3. QuietInv
    <2>1. solution[primary].age = SourceTimeout + 1
        BY NoFixIs DEF NodesInit, Node
    <2> QED
        BY <1>1, <2>1 DEF NodesInit, QuietInv, UpTo, Node, Fresh
<1>4. RingInv
    <2>1. ~filled
        BY Zenon DEF NodesInit
    <2>2. ring = [i \in Place |-> 0] /\ index = 0 /\ recent = <<>>
        BY DEF NodesInit, Place
    <2>3. recent \in Seq(Nat) /\ Len(recent) = 0
        BY <2>2, EmptySeq
    <2>4. 0 \in Place /\ \A k \in Place : ~(k < 0)
        BY <1>1 DEF Place
    <2> QED
        BY <2>1, <2>2, <2>3, <2>4 DEF RingInv, RingType, Filling
<1>5. SumInv
    <2>1. recent = <<>> /\ sum = 0
        BY DEF NodesInit
    <2>2. recent \in Seq(Nat) /\ Len(recent) = 0
        BY <2>1, EmptySeq
    <2> QED
        BY <2>1, <2>2, SumOfSeq, SumOfNone DEF SumInv
<1>6. FilledInv
    BY Zenon DEF NodesInit, FilledInv
<1> QED
    BY <1>2, <1>3, <1>4, <1>5, <1>6 DEF NodesInv

\* A reading of the barometer.
LEMMA AverageKeeps ==
    ASSUME RingInv, SumInv, FilledInv, NEW x \in Nat, Average(x)
    PROVE  RingInv' /\ SumInv' /\ FilledInv'
<1>1. RingType(ring, index, recent)
    BY DEF RingInv
<1>2. /\ ring' = [ring EXCEPT ![index] = x] /\ index' = (index + 1) % Window
      /\ sum' = sum + x - ring[index]
    BY DEF Average
<1>3. filled' = (filled \/ index + 1 = Window)
    BY Zenon DEF Average
<1>4. FilledInv'
    BY <1>3, Zenon DEF FilledInv
<1>5. Window \in Nat /\ index \in Int /\ recent \in Seq(Nat) /\ SumFunction(recent) \in Int
    BY <1>1, NodesAssumption, SumOfSeq DEF RingType, Place
<1>6. CASE ~filled
    <2>1. Filling(ring, index, recent)
        BY <1>6 DEF RingInv
    <2> DEFINE qq == Append(recent, x)
    <2>2. /\ RingType(ring', index', qq) /\ Len(recent) < Window /\ ring[index] = 0
          /\ index + 1 = Window => Full(ring', index', qq)
          /\ index + 1 # Window => Filling(ring', index', qq)
        BY <1>1, <1>2, <2>1, RingFills
    <2>3. recent' = qq
        BY <2>2 DEF Average
    <2>4. SumFunction(qq) = SumFunction(recent) + x
        BY <1>5, SumAppended
    <2> HIDE DEF qq
    <2>5. SumInv'
        BY <1>2, <1>5, <2>2, <2>3, <2>4 DEF SumInv
    <2>6. filled' <=> index + 1 = Window
        BY <1>3, <1>6, Zenon
    <2>7. RingInv'
        BY <2>2, <2>3, <2>6, Zenon DEF RingInv
    <2> QED
        BY <1>4, <2>5, <2>7
<1>7. CASE filled
    <2>1. Full(ring, index, recent)
        BY <1>7 DEF RingInv
    <2> DEFINE qq == Append(Tail(recent), x)
    <2>2. /\ RingType(ring', index', qq) /\ Full(ring', index', qq) /\ ring[index] = recent[1]
          /\ recent # <<>> /\ Tail(recent) \in Seq(Nat)
        BY <1>1, <1>2, <2>1, RingTurns
    <2>3. recent' = qq
        <3>1. ~(Len(recent) < Window)
            BY <1>5, <2>1 DEF Full
        <3> QED
            BY <3>1 DEF Average
    <2>4. SumFunction(qq) = SumFunction(Tail(recent)) + x
        BY <2>2, SumAppended
    <2>5. SumFunction(recent) = recent[1] + SumFunction(Tail(recent)) /\ SumFunction(Tail(recent)) \in Int
        BY <1>5, <2>2, SumOfTail, SumOfSeq
    <2>6. recent[1] \in Int
        BY <1>1, <2>2 DEF RingType
    <2> HIDE DEF qq
    <2>7. SumInv'
        BY <1>2, <1>5, <2>2, <2>3, <2>4, <2>5, <2>6 DEF SumInv
    <2>8. filled'
        BY <1>3, <1>7, Zenon
    <2>9. RingInv'
        BY <2>2, <2>3, <2>8, Zenon DEF RingInv
    <2> QED
        BY <1>4, <2>7, <2>9
<1> QED
    BY <1>6, <1>7

LEMMA RingStep == NodesInv /\ [NodesNext]_nodeVars => RingInv' /\ SumInv' /\ FilledInv'
<1> SUFFICES ASSUME NodesInv, [NodesNext]_nodeVars
             PROVE  RingInv' /\ SumInv' /\ FilledInv'
    OBVIOUS
<1>a. RingInv /\ SumInv /\ FilledInv
    BY DEF NodesInv
<1>1. CASE UNCHANGED <<ring, index, sum, filled, recent>>
    BY <1>1, <1>a, Zenon DEF RingInv, SumInv, FilledInv
<1>2. CASE TickNodes
    BY <1>1, <1>2, Zenon DEF TickNodes, airVars
<1>3. ASSUME NEW s \in Node, NodeTask(s)
      PROVE  RingInv' /\ SumInv' /\ FilledInv'
    <2>1. CASE Initialise(s)
        BY <1>1, <2>1, Zenon DEF Initialise, airVars
    <2>2. CASE SensorFailed(s) \/ ReadNothing(s)
        BY <1>1, <2>2, Zenon DEF SensorFailed, ReadNothing, airVars
    <2>3. CASE Deliver(s)
        <3>1. Forward(s)
            BY <2>3 DEF Deliver
        <3>2. CASE kind \in {"imu", "mag"} \/ kind = "gnss"
            <4>1. UNCHANGED airVars
                BY <3>1, <3>2 DEF Forward
            <4> QED
                BY <1>1, <4>1, Zenon DEF airVars
        <3>3. CASE kind = "air"
            <4>1. AirUpdate(s)
                BY <3>1, <3>3 DEF Forward
            <4>2. CASE s = 1
                <5>1. PICK sample \in {0, 1} : Average(sample)
                    BY <4>1, <4>2, Zenon DEF AirUpdate
                <5>2. sample \in Nat
                    OBVIOUS
                <5> QED
                    BY <1>a, <5>1, <5>2, AverageKeeps
            <4>3. CASE s # 1
                BY <1>1, <4>1, <4>3, Zenon DEF AirUpdate
            <4> QED
                BY <4>2, <4>3
        <3> QED
            BY <3>2, <3>3 DEF NodesInv, NodesType
    <2> QED
        BY <1>3, <2>1, <2>2, <2>3 DEF NodeTask, ReadSensor
<1>4. ASSUME NEW s \in Node, Sicken(s) \/ Heal(s)
      PROVE  RingInv' /\ SumInv' /\ FilledInv'
    BY <1>1, <1>4, Zenon DEF Sicken, Heal, airVars
<1>5. CASE UNCHANGED nodeVars
    BY <1>1, <1>5, Zenon DEF nodeVars, airVars
<1> QED
    BY <1>2, <1>3, <1>4, <1>5 DEF NodesNext

LEMMA PolledBy ==
    ASSUME NodesType, NEW s \in Node, NEW what \in Attempt, Polled(s, what)
    PROVE  /\ polled' \in [Node -> Attempt]
           /\ \A o \in Node : polled'[o] = IF o = s THEN what ELSE polled[o]
BY DEF NodesType, Polled

\* What a selector makes of a value.
LEMMA TimeoutKeeps ==
    ASSUME NodesType, QuietInv, kind \in {"imu", "mag"}, NEW s \in Node, TimeoutAccept(s)
    PROVE  /\ primary' \in Node /\ solution' \in [Node -> Quality] /\ quiet' \in Nat /\ sinceUpdate' \in Nat
           /\ quiet' <= SourceTimeout /\ sinceUpdate' = UpTo(quiet', SourceTimeout + 1)
<1>1. SourceTimeout \in Nat /\ quiet \in Nat /\ sinceUpdate = UpTo(quiet, SourceTimeout + 1)
    BY NodesAssumption DEF NodesType, QuietInv
<1>2. CASE primary = s \/ sinceUpdate > SourceTimeout
    BY <1>1, <1>2 DEF TimeoutAccept, NodesType, UpTo
<1>3. CASE ~(primary = s \/ sinceUpdate > SourceTimeout)
    BY <1>1, <1>3 DEF TimeoutAccept, NodesType, UpTo
<1> QED
    BY <1>2, <1>3

LEMMA QualityKeeps ==
    ASSUME NodesType, QuietInv, kind = "gnss", NEW s \in Node, QualityAccept(s)
    PROVE  /\ primary' \in Node /\ solution' \in [Node -> Quality] /\ quiet' \in Nat /\ sinceUpdate' \in Nat
           /\ quiet' <= SourceTimeout
           /\ Fresh(solution', primary') => quiet' <= solution'[primary'].age
<1>1. PICK tier \in Tiers, pdop \in Pdops :
          LET seen == [solution EXCEPT ![s] = [age |-> 0, tier |-> tier, pdop |-> pdop]]
              chosen == ChoosePrimary(seen, primary)
          IN /\ solution' = seen /\ primary' = chosen
             /\ quiet' = IF chosen = s \/ chosen # primary THEN 0 ELSE quiet
             /\ sinceUpdate' = sinceUpdate
    BY DEF QualityAccept
<1>2. tier \in Nat /\ pdop \in Nat /\ SourceTimeout \in Nat
    BY NodesAssumption
<1> DEFINE q == [age |-> 0, tier |-> tier, pdop |-> pdop]
<1>3. q \in Quality /\ q.age = 0
    BY <1>2 DEF Quality
<1> HIDE DEF q
<1>4. solution' = [solution EXCEPT ![s] = q] /\ solution \in [Node -> Quality]
    BY <1>1 DEF q, NodesType
<1>5. solution' \in [Node -> Quality] /\ solution'[s] = q
      /\ \A o \in Node : o # s => solution'[o] = solution[o]
    BY <1>3, <1>4
<1>6. primary \in Node /\ Peer(primary) \in Node /\ quiet \in Nat /\ sinceUpdate \in Nat
      /\ (s # primary => s = Peer(primary))
    BY DEF NodesType, Node, Peer
<1>7. primary' = ChoosePrimary(solution', primary) /\ sinceUpdate' = sinceUpdate
      /\ quiet' = IF primary' = s \/ primary' # primary THEN 0 ELSE quiet
    BY <1>1
<1>8. primary' \in Node
    BY <1>6, <1>7 DEF ChoosePrimary
<1>9. \A o \in Node : solution'[o].age \in Nat
    BY <1>5 DEF Quality
<1>10. CASE primary' = s \/ primary' # primary
    BY <1>2, <1>5, <1>6, <1>7, <1>8, <1>9, <1>10
<1>11. CASE primary' # s /\ primary' = primary
    <2>1. s = Peer(primary) /\ Fresh(solution', s)
        BY <1>2, <1>3, <1>5, <1>6, <1>11 DEF Fresh
    <2>2. Fresh(solution', primary)
        BY <1>6, <1>7, <1>11, <2>1 DEF ChoosePrimary
    <2>3. solution'[primary] = solution[primary] /\ quiet' = quiet
        BY <1>5, <1>6, <1>7, <1>11
    <2>4. Fresh(solution, primary)
        BY <2>2, <2>3 DEF Fresh
    <2>5. quiet <= solution[primary].age /\ solution[primary].age <= SourceTimeout
        BY <2>4 DEF QuietInv, Fresh
    <2>6. solution[primary].age \in Nat
        BY <1>6, <1>9, <2>3
    <2> QED
        BY <1>2, <1>5, <1>6, <1>7, <1>8, <1>11, <2>3, <2>5, <2>6
<1> QED
    BY <1>10, <1>11

LEMMA TickKeeps ==
    ASSUME NodesType, QuietInv, TickNodes
    PROVE  NodesType' /\ QuietInv'
<1>1. SourceTimeout \in Nat /\ Longest = SourceTimeout + 2
    BY NodesAssumption DEF Longest
<1>2. /\ polled' = [o \in Node |-> "no"] /\ UNCHANGED <<kind, primary>>
      /\ sinceUpdate' = UpTo(sinceUpdate + 1, SourceTimeout + 1)
      /\ quiet' = UpTo(quiet + 1, Longest)
      /\ solution' = [s \in Node |-> IF solution[s].age < SourceTimeout
                                     THEN [solution[s] EXCEPT !.age = @ + 1] ELSE NoFix]
    BY DEF TickNodes
<1>3. quiet \in Nat /\ sinceUpdate \in Nat /\ primary \in Node /\ solution \in [Node -> Quality]
    BY DEF NodesType
<1>4. polled' \in [Node -> Attempt] /\ \A o \in Node : polled'[o] = "no"
    BY <1>2 DEF Attempt
<1>5. ASSUME NEW o \in Node
      PROVE  /\ solution'[o] \in Quality
             /\ solution'[o].age = IF solution[o].age < SourceTimeout THEN solution[o].age + 1
                                                                      ELSE SourceTimeout + 1
    <2>1. solution[o] \in Quality /\ solution[o].age \in Nat
        BY <1>3 DEF Quality
    <2>2. CASE solution[o].age < SourceTimeout
        BY <1>1, <1>2, <2>1, <2>2 DEF Quality
    <2>3. CASE ~(solution[o].age < SourceTimeout)
        BY <1>1, <1>2, <2>1, <2>3, NoFixIs
    <2> QED
        BY <2>2, <2>3
<1>6. solution' \in [Node -> Quality]
    BY <1>2, <1>5
<1>7. quiet' \in Nat /\ sinceUpdate' \in Nat
    BY <1>1, <1>2, <1>3 DEF UpTo
<1>8. NodesType'
    BY <1>2, <1>4, <1>6, <1>7 DEF NodesType
<1>9. kind' \in {"imu", "mag"} => sinceUpdate' = UpTo(quiet', SourceTimeout + 1)
    BY <1>1, <1>2, <1>3 DEF QuietInv, UpTo
<1>10. kind' = "gnss" /\ Fresh(solution', primary') => quiet' <= solution'[primary'].age
    <2> SUFFICES ASSUME kind = "gnss", solution'[primary].age <= SourceTimeout
                 PROVE  quiet' <= solution'[primary].age
        BY <1>2 DEF Fresh
    <2>1. solution[primary].age \in Nat
        BY <1>3 DEF Quality
    <2>2. /\ solution[primary].age < SourceTimeout
          /\ solution'[primary].age = solution[primary].age + 1
        <3>1. CASE solution[primary].age < SourceTimeout
            BY <1>3, <1>5, <3>1
        <3>2. CASE ~(solution[primary].age < SourceTimeout)
            BY <1>1, <1>3, <1>5, <3>2
        <3> QED
            BY <3>1, <3>2
    <2>3. quiet <= solution[primary].age
        BY <1>1, <2>1, <2>2 DEF QuietInv, Fresh
    <2>4. quiet' <= quiet + 1
        BY <1>1, <1>2, <1>3 DEF UpTo
    <2> QED
        BY <1>3, <1>7, <2>1, <2>2, <2>3, <2>4
<1>11. QuietInv'
    BY <1>4, <1>9, <1>10 DEF QuietInv, Fresh
<1> QED
    BY <1>8, <1>11

LEMMA QuietStep == NodesInv /\ [NodesNext]_nodeVars => NodesType' /\ QuietInv'
<1> SUFFICES ASSUME NodesInv, [NodesNext]_nodeVars
             PROVE  NodesType' /\ QuietInv'
    OBVIOUS
<1>a. NodesType /\ QuietInv /\ SourceTimeout \in Nat
    BY NodesAssumption DEF NodesInv
<1>b. ASSUME UNCHANGED <<kind, selectVars, quiet>>,
             polled' \in [Node -> Attempt],
             \A o \in Node : polled'[o] = "delivered" => polled[o] = "delivered"
      PROVE  NodesType' /\ QuietInv'
    <2>1. NodesType'
        BY <1>a, <1>b DEF NodesType, selectVars
    <2>2. QuietInv'
        BY <1>a, <1>b DEF QuietInv, selectVars, Fresh
    <2> QED
        BY <2>1, <2>2
<1>1. CASE TickNodes
    BY <1>1, <1>a, TickKeeps
<1>2. ASSUME NEW s \in Node, NodeTask(s)
      PROVE  NodesType' /\ QuietInv'
    <2>1. CASE Initialise(s) \/ SensorFailed(s) \/ ReadNothing(s)
        <3>1. Polled(s, "tried") /\ UNCHANGED <<kind, selectVars, quiet>>
            BY <2>1, Zenon DEF Initialise, SensorFailed, ReadNothing
        <3>2. "tried" \in Attempt /\ "tried" # "delivered"
            BY DEF Attempt
        <3> QED
            BY <1>a, <1>b, <3>1, <3>2, PolledBy
    <2>2. CASE Deliver(s)
        <3>1. Forward(s) /\ Polled(s, "delivered") /\ kind' = kind
            BY <2>2 DEF Deliver
        <3>2. polled' \in [Node -> Attempt]
            BY <1>a, <3>1, PolledBy DEF Attempt
        <3>3. CASE kind \in {"imu", "mag"}
            <4>1. TimeoutAccept(s)
                BY <3>1, <3>3 DEF Forward
            <4>2. /\ primary' \in Node /\ solution' \in [Node -> Quality] /\ quiet' \in Nat /\ sinceUpdate' \in Nat
                  /\ quiet' <= SourceTimeout /\ sinceUpdate' = UpTo(quiet', SourceTimeout + 1)
                BY <1>a, <3>3, <4>1, TimeoutKeeps
            <4> QED
                BY <1>a, <3>1, <3>2, <3>3, <4>2 DEF NodesType, QuietInv
        <3>4. CASE kind = "gnss"
            <4>1. QualityAccept(s)
                BY <3>1, <3>4 DEF Forward
            <4>2. /\ primary' \in Node /\ solution' \in [Node -> Quality] /\ quiet' \in Nat /\ sinceUpdate' \in Nat
                  /\ quiet' <= SourceTimeout
                  /\ Fresh(solution', primary') => quiet' <= solution'[primary'].age
                BY <1>a, <3>4, <4>1, QualityKeeps
            <4> QED
                BY <1>a, <3>1, <3>2, <3>4, <4>2 DEF NodesType, QuietInv, Fresh
        <3>5. CASE kind = "air"
            <4>1. AirUpdate(s) /\ UNCHANGED selectVars
                BY <3>1, <3>5 DEF Forward
            <4>2. quiet' = 0
                BY <4>1 DEF AirUpdate
            <4> QED
                BY <1>a, <3>1, <3>2, <3>5, <4>1, <4>2 DEF NodesType, QuietInv, selectVars
        <3> QED
            BY <1>a, <3>3, <3>4, <3>5 DEF NodesType
    <2> QED
        BY <1>2, <2>1, <2>2 DEF NodeTask, ReadSensor
<1>3. ASSUME NEW s \in Node, Sicken(s) \/ Heal(s)
      PROVE  NodesType' /\ QuietInv'
    <2>1. UNCHANGED <<kind, polled, selectVars, quiet>>
        BY <1>3, Zenon DEF Sicken, Heal
    <2> QED
        BY <1>a, <1>b, <2>1 DEF NodesType
<1>4. CASE UNCHANGED nodeVars
    <2>1. UNCHANGED <<kind, polled, selectVars, quiet>>
        BY <1>4, Zenon DEF nodeVars
    <2> QED
        BY <1>a, <1>b, <2>1 DEF NodesType
<1> QED
    BY <1>1, <1>2, <1>3, <1>4 DEF NodesNext

(* While either sensor delivers, its driver publishes within the selector's *)
(* timeout, whichever of the two fell silent, and the pressure published is *)
(* the mean of the latest samples, for every width of the average, every    *)
(* timeout and every quality of the solutions (drivers/*.rs accept,         *)
(* filters.rs).                                                             *)
THEOREM DriversKeepPublishing == NodesSpec => []KeepsPublishing
<1>1. NodesInit => NodesInv
    BY InitNodes
<1>2. NodesInv /\ [NodesNext]_nodeVars => NodesInv'
    BY RingStep, QuietStep DEF NodesInv
<1>3. NodesInv => KeepsPublishing
    <2> SUFFICES ASSUME NodesInv
                 PROVE  KeepsPublishing
        OBVIOUS
    <2>1. \A s \in Node : polled[s] = "delivered" => quiet <= SourceTimeout
        BY DEF NodesInv, QuietInv
    <2>2. filled <=> Len(recent) = Window
        <3>1. filled => Len(recent) = Window
            BY DEF NodesInv, RingInv, Full
        <3>2. ~filled => Len(recent) # Window
            BY NodesAssumption DEF NodesInv, RingInv, RingType, Filling, Place
        <3> QED
            BY <3>1, <3>2, Zenon
    <2>3. filled = (Len(recent) = Window)
        BY <2>2, Zenon DEF NodesInv, FilledInv
    <2>4. sum = SumFunction(recent)
        BY DEF NodesInv, SumInv
    <2> QED
        BY <2>1, <2>3, <2>4, Zenon DEF KeepsPublishing
<1> QED
    BY <1>1, <1>2, <1>3, PTL DEF NodesSpec

-----------------------------------------------------------------------------
(* The inertial sensor of carrier v3: the dates of the pairs of a batch.   *)

\* The quotient, and products of naturals.
LEMMA Quotient ==
    ASSUME NEW n \in Nat, NEW p \in Nat, p > 0
    PROVE  n \div p \in Nat /\ (n \div p) * p <= n /\ n < (n \div p) * p + p
BY SMT

LEMMA Product == ASSUME NEW a \in Nat, NEW b \in Nat PROVE a * b \in Nat /\ a * b >= 0
BY SMT

\* What is no more than K in p places is none in fewer.
LEMMA InFewer ==
    ASSUME NEW a \in Int, NEW p \in Nat, NEW k \in Nat, k < p, NEW K \in Int, K >= 0, a * p <= K
    PROVE  a * k <= K
<1>1. CASE a <= 0
    <2>1. (-a) * k >= 0
        BY <1>1, Product
    <2> QED
        BY <2>1
<1>2. CASE a > 0
    <2>1. a * (p - k) >= 0
        BY <1>2, Product
    <2>2. a * (p - k) = a * p - a * k
        OBVIOUS
    <2>3. a * p \in Int /\ a * k \in Int
        OBVIOUS
    <2> QED
        BY <2>1, <2>2, <2>3
<1> QED
    BY <1>1, <1>2

\* A batch of p pairs of which the oldest sample is c - 1 periods off the start of the batch
\* and the newest d periods off its end: the k-th pair is dated within a period of its sample,
\* but for what the division rounds off.
LEMMA Dating ==
    ASSUME NEW F \in Nat, NEW p \in Nat, NEW s \in Nat, NEW c \in 0..2, NEW d \in 0..2, p = s + c - d,
           NEW k \in 0..(p - 1)
    PROVE  F * (c - 1 - k) + ((s * F) \div p) * k \in (-(F + k))..F
<1> DEFINE n == s * F
           q == n \div p
           r == F - q
<1>1. n \in Nat /\ p > 0 /\ k \in Nat /\ k < p /\ c \in Int /\ d \in Int /\ -d \in Int
    BY Product
<1>2. q \in Nat /\ q * p <= n /\ n < q * p + p
    BY <1>1, Quotient
<1>3. n = p * F - c * F + d * F
    BY <1>1
<1> HIDE DEF n, q
<1>4. r \in Int /\ r * p = p * F - q * p /\ r * k = F * k - q * k
    BY <1>1, <1>2
<1>5. q * p \in Int /\ p * F \in Int /\ q * k \in Int /\ F * k \in Int /\ c * F \in Int /\ d * F \in Int
    BY <1>1, <1>2
<1>6. c * F >= 0 /\ d * F >= 0 /\ (2 - c) * F = 2 * F - c * F /\ (2 - c) * F >= 0 /\ d * F <= 2 * F
    <2>1. (2 - d) * F >= 0 /\ (2 - d) * F = 2 * F - d * F /\ c * F >= 0 /\ d * F >= 0 /\ (2 - c) * F >= 0
        BY <1>1, Product
    <2> QED
        BY <1>1, <1>5, <2>1
<1> HIDE DEF r
<1>7. (r - 1) * k <= c * F
    <2>1. (r - 1) * p = r * p - p /\ r * p \in Int /\ (r - 1) * p \in Int
        BY <1>1, <1>4
    <2>2. (r - 1) * p <= c * F
        BY <1>1, <1>2, <1>3, <1>4, <1>5, <1>6, <2>1
    <2> QED
        BY <1>1, <1>4, <1>5, <1>6, <2>2, InFewer
<1>8. (-r) * k <= (2 - c) * F
    <2>1. (-r) * p = -(r * p) /\ r * p \in Int /\ (-r) * p \in Int
        BY <1>1, <1>4
    <2>2. (-r) * p <= (2 - c) * F
        BY <1>1, <1>2, <1>3, <1>4, <1>5, <1>6, <2>1
    <2> QED
        BY <1>1, <1>4, <1>5, <1>6, <2>2, InFewer
<1>9. (r - 1) * k = r * k - k /\ (-r) * k = -(r * k) /\ r * k \in Int
    BY <1>1, <1>4
<1>10. F * (c - 1 - k) = c * F - F - F * k
    BY <1>1
<1> QED
    BY <1>1, <1>4, <1>5, <1>6, <1>7, <1>8, <1>9, <1>10 DEF q, n

-----------------------------------------------------------------------------
(* Its FIFO: words, samples, and what holds of them.                      *)

Words == [tag : {"A", "G"}, age : Nat]
Active == Reading \cup {"wait"}

\* Samples that n words belong to, and what the j-th word is of.
Samples(n) == (n + 1) \div 2
Tag(j) == IF j % 2 = 1 THEN "A" ELSE "G"

\* Two words that follow one another: of one sample, or of two that do.
Neighbours(a, b) ==
    \/ a.tag = "A" /\ b.tag = "G" /\ b.age = a.age
    \/ a.tag = "G" /\ b.tag = "A" /\ a.age - b.age \in 0..1

Ordered(s) == \A j \in 1..Len(s) : j > 1 => Neighbours(s[j - 1], s[j])
Aligned(s) == \A j \in 1..Len(s) : s[j].tag = Tag(j)
Aging(s) == \A j \in 1..Len(s) : s[j].age = Samples(Len(s)) - Samples(j)

ImuType ==
    /\ imuTask \in Configuring \cup Active \cup {"backoff"}
    /\ mode \in {"bypass", "fifo", "stopped"}
    /\ fifo \in Seq(Words) /\ Len(fifo) <= Capacity
    /\ level \in Nat /\ span \in Nat /\ gap \in Nat /\ sinceRead \in Nat

\* What the FIFO holds, whatever was read of it.
FifoInv ==
    /\ Ordered(fifo)
    /\ mode = "fifo" =>
         /\ Len(fifo) < Capacity
         /\ Len(fifo) > 0 => fifo[Len(fifo)] = Word(IF half THEN "A" ELSE "G", 0)
    /\ mode = "bypass" => Len(fifo) = 0
    /\ half => mode = "fifo"
    /\ imuTask \in Configuring \ {"reset", "interrupts"} => mode = "bypass"

\* While no read broke off it begins with a whole sample, and its words are as old as their place says.
Clean == imuTask = "interrupts" \/ (intact /\ imuTask \in Active)
AlignInv ==
    Clean =>
      /\ Aligned(fifo)
      /\ mode = "fifo" => (half <=> Len(fifo) % 2 = 1) /\ Aging(fifo)

LevelInv ==
    imuTask = "data" =>
      /\ level = 2 * (level \div 2) /\ level > 0 /\ sinceRead = gap
      /\ intact /\ mode # "bypass" => level <= Len(fifo)
      /\ intact /\ mode = "fifo" => Samples(Len(fifo)) - gap >= level \div 2

\* At most two samples are older than last_read, and the batch being read leaves at most two.
DateInv ==
    intact /\ ~moved /\ mode = "fifo" =>
      /\ imuTask \in Active \ {"data"} => Samples(Len(fifo)) - sinceRead \in 0..2
      /\ imuTask = "data" =>
           /\ Samples(Len(fifo)) - gap - span \in 0..2
           /\ Samples(Len(fifo)) - gap - level \div 2 \in 0..2

MovedInv ==
    mode = "stopped" =>
      /\ imuTask \in Active => moved
      /\ imuTask = "interrupts" => Len(fifo) > 0

PairRight(p) ==
    /\ p.tags = <<"A", "G">>
    /\ p.skew \in -1..1
    /\ p.whole => p.skew = 0
    /\ p.trusted => p.late \in -(Fraction + p.nth)..Fraction

ImuInv == ImuType /\ FifoInv /\ AlignInv /\ LevelInv /\ DateInv /\ MovedInv /\ PairsRight

\* What the proofs need of the constants.
LEMMA Constants ==
    /\ Capacity \in Nat /\ Capacity > 0 /\ LowByte \in Nat /\ LowByte > 0 /\ Fraction \in Nat
    /\ Horizon \in Nat /\ Horizon >= Capacity
BY ImuAssumption DEF Horizon

\* Two words make a sample: what one word more, and two words fewer, change.
LEMMA SamplesOf ==
    ASSUME NEW n \in Nat
    PROVE  /\ Samples(n) \in Nat /\ Samples(0) = 0
           /\ 2 * Samples(n) = n + (n % 2) /\ n % 2 \in 0..1
           /\ Samples(n) <= n
           /\ n % 2 = 0 => Samples(n + 1) = Samples(n) + 1 /\ (n + 1) % 2 = 1
           /\ n % 2 = 1 => Samples(n + 1) = Samples(n) /\ (n + 1) % 2 = 0
BY DEF Samples

LEMMA SamplesLess ==
    ASSUME NEW n \in Nat, NEW h \in Nat, 2 * h <= n
    PROVE  Samples(n - 2 * h) = Samples(n) - h /\ (n - 2 * h) % 2 = n % 2
           /\ \A j \in Nat : Samples(j + 2 * h) = Samples(j) + h /\ (j + 2 * h) % 2 = j % 2
BY DEF Samples

LEMMA SamplesGrow ==
    ASSUME NEW m \in Nat, NEW n \in Nat, m <= n
    PROVE  Samples(m) <= Samples(n)
BY DEF Samples

-----------------------------------------------------------------------------
(* Words come and go.                                                      *)

\* Words of the FIFO, and what a period does to them.
LEMMA MadeWord ==
    ASSUME NEW t \in {"A", "G"}, NEW a \in Nat
    PROVE  Word(t, a) \in Words /\ Word(t, a).tag = t /\ Word(t, a).age = a
BY DEF Word, Words

LEMMA AgedWords ==
    ASSUME fifo \in Seq(Words)
    PROVE  /\ FifoAged \in Seq(Words) /\ Len(FifoAged) = Len(fifo)
           /\ \A j \in 1..Len(fifo) : FifoAged[j].tag = fifo[j].tag
                                      /\ FifoAged[j].age = Horizoned(fifo[j].age + 1)
<1>1. Len(fifo) \in Nat
    BY LenProperties
<1>2. ASSUME NEW j \in 1..Len(fifo)
      PROVE  /\ [fifo[j] EXCEPT !.age = Horizoned(@ + 1)] \in Words
             /\ FifoAged[j] = [fifo[j] EXCEPT !.age = Horizoned(@ + 1)]
             /\ FifoAged[j].tag = fifo[j].tag /\ FifoAged[j].age = Horizoned(fifo[j].age + 1)
    <2>1. fifo[j] \in Words
        BY <1>2, ElementOfSeq
    <2>2. fifo[j].age \in Nat
        BY <2>1 DEF Words
    <2>3. Horizoned(fifo[j].age + 1) \in Nat
        BY <2>2, Constants DEF Horizoned
    <2>4. [fifo[j] EXCEPT !.age = Horizoned(@ + 1)] \in Words
        BY <2>1, <2>3 DEF Words
    <2>5. FifoAged[j] = [fifo[j] EXCEPT !.age = Horizoned(@ + 1)]
        BY <1>2 DEF FifoAged
    <2> QED
        BY <2>1, <2>4, <2>5 DEF Words
<1>3. FifoAged \in [1..Len(fifo) -> Words]
    BY <1>2 DEF FifoAged
<1>4. FifoAged \in Seq(Words) /\ Len(FifoAged) = Len(fifo)
    BY <1>1, <1>3, SeqDef, LenProperties
<1> QED
    BY <1>2, <1>4

LEMMA AgedOrdered ==
    ASSUME fifo \in Seq(Words), Ordered(fifo)
    PROVE  Ordered(FifoAged)
<1> SUFFICES ASSUME NEW j \in 1..Len(fifo), j > 1
             PROVE  Neighbours(FifoAged[j - 1], FifoAged[j])
    BY AgedWords DEF Ordered
<1>1. j - 1 \in 1..Len(fifo)
    BY LenProperties
<1>2. fifo[j] \in Words /\ fifo[j - 1] \in Words
    BY <1>1, ElementOfSeq
<1>3. fifo[j].age \in Nat /\ fifo[j - 1].age \in Nat
    BY <1>2 DEF Words
<1>4. Neighbours(fifo[j - 1], fifo[j])
    BY DEF Ordered
<1>5. /\ FifoAged[j].tag = fifo[j].tag /\ FifoAged[j].age = Horizoned(fifo[j].age + 1)
      /\ FifoAged[j - 1].tag = fifo[j - 1].tag /\ FifoAged[j - 1].age = Horizoned(fifo[j - 1].age + 1)
    BY <1>1, AgedWords
<1> QED
    BY <1>3, <1>4, <1>5, Constants DEF Neighbours, Horizoned

\* A word more at the end.
LEMMA Pushed ==
    ASSUME NEW s \in Seq(Words), Ordered(s), NEW w \in Words, Len(s) > 0 => Neighbours(s[Len(s)], w)
    PROVE  LET t == Append(s, w)
           IN /\ t \in Seq(Words) /\ Len(t) = Len(s) + 1 /\ t[Len(s) + 1] = w
              /\ \A j \in 1..Len(s) : t[j] = s[j]
              /\ Ordered(t)
<1> DEFINE t == Append(s, w)
<1>1. /\ t \in Seq(Words) /\ Len(t) = Len(s) + 1 /\ t[Len(s) + 1] = w /\ Len(s) \in Nat
      /\ \A j \in 1..Len(s) : t[j] = s[j]
    BY AppendProperties, LenProperties
<1> HIDE DEF t
<1>2. ASSUME NEW j \in 1..Len(t), j > 1
      PROVE  Neighbours(t[j - 1], t[j])
    <2>1. CASE j = Len(s) + 1
        <3>1. j - 1 = Len(s) /\ Len(s) > 0 /\ Len(s) \in 1..Len(s)
            BY <1>1, <1>2, <2>1
        <3>2. t[j - 1] = s[Len(s)] /\ t[j] = w
            BY <1>1, <2>1, <3>1
        <3> QED
            BY <3>1, <3>2
    <2>2. CASE j \in 1..Len(s)
        <3>1. j - 1 \in 1..Len(s)
            BY <1>1, <1>2, <2>2
        <3>2. t[j - 1] = s[j - 1] /\ t[j] = s[j]
            BY <1>1, <2>2, <3>1
        <3> QED
            BY <1>2, <2>2, <3>2 DEF Ordered
    <2> QED
        BY <1>1, <1>2, <2>1, <2>2
<1> QED
    BY <1>1, <1>2 DEF Ordered, t

\* What a read takes away at the front.
LEMMA Shifted ==
    ASSUME NEW s \in Seq(Words), Ordered(s), NEW n \in Nat
    PROVE  LET t == SubSeq(s, n + 1, Len(s))
           IN /\ t \in Seq(Words) /\ Len(t) = IF n <= Len(s) THEN Len(s) - n ELSE 0
              /\ \A j \in 1..Len(t) : n + j \in 1..Len(s) /\ t[j] = s[n + j]
              /\ Ordered(t)
<1> DEFINE t == SubSeq(s, n + 1, Len(s))
<1>1. Len(s) \in Nat
    BY LenProperties
<1>2. \A j \in (n + 1)..Len(s) : s[j] \in Words
    BY <1>1, ElementOfSeq
<1>3. /\ t \in Seq(Words) /\ Len(t) = IF n + 1 <= Len(s) THEN Len(s) - (n + 1) + 1 ELSE 0
      /\ \A j \in 1..(Len(s) - (n + 1) + 1) : t[j] = s[(n + 1) + j - 1]
    BY <1>1, <1>2, SubSeqProperties
<1> HIDE DEF t
<1>4. Len(t) = IF n <= Len(s) THEN Len(s) - n ELSE 0
    BY <1>1, <1>3
<1>5. ASSUME NEW j \in 1..Len(t)
      PROVE  n + j \in 1..Len(s) /\ t[j] = s[n + j]
    <2>1. n <= Len(s) /\ Len(t) = Len(s) - n
        BY <1>1, <1>4, <1>5
    <2>2. j \in 1..(Len(s) - (n + 1) + 1) /\ (n + 1) + j - 1 = n + j /\ n + j \in 1..Len(s)
        BY <1>1, <1>5, <2>1
    <2> QED
        BY <1>3, <2>2
<1>6. ASSUME NEW j \in 1..Len(t), j > 1
      PROVE  Neighbours(t[j - 1], t[j])
    <2>1. j - 1 \in 1..Len(t) /\ Len(t) \in Nat /\ n + (j - 1) = (n + j) - 1
        BY <1>1, <1>4, <1>6
    <2>2. t[j] = s[n + j] /\ t[j - 1] = s[(n + j) - 1] /\ n + j \in 1..Len(s) /\ n + j > 1
        BY <1>5, <1>6, <2>1
    <2> QED
        BY <2>2 DEF Ordered
<1> QED
    BY <1>3, <1>4, <1>5, <1>6 DEF Ordered, t

-----------------------------------------------------------------------------
\* The FIFO after a period: everything is a period older, and the accelerometer's word has come.
LEMMA AccelerometerCame ==
    ASSUME fifo \in Seq(Words), Ordered(fifo), Len(fifo) < Capacity,
           Len(fifo) > 0 => fifo[Len(fifo)] = Word("G", 0)
    PROVE  LET t == Append(FifoAged, Word("A", 0))
           IN /\ t \in Seq(Words) /\ Len(t) = Len(fifo) + 1 /\ t[Len(t)] = Word("A", 0) /\ Ordered(t)
              /\ Aligned(fifo) /\ Len(fifo) % 2 = 0 => Aligned(t)
              /\ Aging(fifo) /\ Len(fifo) % 2 = 0 => Aging(t)
<1> DEFINE n == Len(fifo)
           w == Word("A", 0)
           t == Append(FifoAged, w)
<1>1. n \in Nat /\ n < Capacity /\ w \in Words /\ w.tag = "A" /\ w.age = 0
    BY MadeWord, LenProperties
<1>2. FifoAged \in Seq(Words) /\ Len(FifoAged) = n /\ Ordered(FifoAged)
    BY AgedWords, AgedOrdered
<1>3. n > 0 => Neighbours(FifoAged[n], w)
    <2> SUFFICES ASSUME n > 0 PROVE Neighbours(FifoAged[n], w)
        OBVIOUS
    <2>1. FifoAged[n].tag = fifo[n].tag /\ FifoAged[n].age = Horizoned(fifo[n].age + 1)
        BY <1>1, AgedWords
    <2>2. fifo[n].tag = "G" /\ fifo[n].age = 0
        BY MadeWord
    <2> QED
        BY <1>1, <2>1, <2>2, Constants DEF Neighbours, Horizoned
<1>4. /\ t \in Seq(Words) /\ Len(t) = n + 1 /\ t[n + 1] = w
      /\ \A j \in 1..n : t[j] = FifoAged[j]
      /\ Ordered(t)
    BY <1>1, <1>2, <1>3, Pushed
<1> HIDE DEF t, w
<1>5. ASSUME Aligned(fifo), n % 2 = 0 PROVE Aligned(t)
    <2>1. (n + 1) % 2 = 1
        BY <1>1, <1>5, SamplesOf
    <2>2. ASSUME NEW j \in 1..n PROVE t[j].tag = Tag(j)
        BY <1>1, <1>4, <1>5, AgedWords DEF Aligned
    <2>3. t[n + 1].tag = Tag(n + 1)
        BY <1>1, <1>4, <2>1 DEF Tag
    <2> QED
        BY <1>1, <1>4, <2>2, <2>3 DEF Aligned
<1>6. ASSUME Aging(fifo), n % 2 = 0 PROVE Aging(t)
    <2>1. Samples(n + 1) = Samples(n) + 1 /\ Samples(n) \in Nat /\ Samples(n) <= n
        BY <1>1, <1>6, SamplesOf
    <2>2. ASSUME NEW j \in 1..n PROVE t[j].age = Samples(n + 1) - Samples(j)
        <3>1. j \in Nat /\ j <= n /\ Samples(j) \in Nat /\ Samples(j) <= Samples(n)
            BY <1>1, SamplesOf, SamplesGrow
        <3>2. t[j].age = Horizoned(fifo[j].age + 1) /\ fifo[j].age = Samples(n) - Samples(j)
            BY <1>4, <1>6, AgedWords DEF Aging
        <3>3. Samples(n) - Samples(j) + 1 <= Horizon
            BY <1>1, <2>1, <3>1, Constants
        <3> QED
            BY <2>1, <3>1, <3>2, <3>3, Constants DEF Horizoned
    <2>3. t[n + 1].age = Samples(n + 1) - Samples(n + 1)
        BY <1>1, <1>4, <2>1
    <2> QED
        BY <1>1, <1>4, <2>2, <2>3 DEF Aging
<1> QED
    BY <1>1, <1>4, <1>5, <1>6 DEF t, w

\* The FIFO after the gyroscope's word of the last sample.
LEMMA GyroscopeCame ==
    ASSUME fifo \in Seq(Words), Ordered(fifo), Len(fifo) > 0 => fifo[Len(fifo)] = Word("A", 0)
    PROVE  LET t == Append(fifo, Word("G", 0))
           IN /\ t \in Seq(Words) /\ Len(t) = Len(fifo) + 1 /\ t[Len(t)] = Word("G", 0) /\ Ordered(t)
              /\ Aligned(fifo) /\ Len(fifo) % 2 = 1 => Aligned(t)
              /\ Aging(fifo) /\ Len(fifo) % 2 = 1 => Aging(t)
<1> DEFINE n == Len(fifo)
           w == Word("G", 0)
           t == Append(fifo, w)
<1>1. n \in Nat /\ w \in Words /\ w.tag = "G" /\ w.age = 0
    BY MadeWord, LenProperties
<1>2. n > 0 => Neighbours(fifo[n], w)
    BY <1>1, MadeWord DEF Neighbours
<1>3. /\ t \in Seq(Words) /\ Len(t) = n + 1 /\ t[n + 1] = w
      /\ \A j \in 1..n : t[j] = fifo[j]
      /\ Ordered(t)
    BY <1>1, <1>2, Pushed
<1> HIDE DEF t, w
<1>4. ASSUME Aligned(fifo), n % 2 = 1 PROVE Aligned(t)
    <2>1. (n + 1) % 2 = 0
        BY <1>1, <1>4, SamplesOf
    <2>2. ASSUME NEW j \in 1..n PROVE t[j].tag = Tag(j)
        BY <1>3, <1>4 DEF Aligned
    <2>3. t[n + 1].tag = Tag(n + 1)
        BY <1>1, <1>3, <2>1 DEF Tag
    <2> QED
        BY <1>1, <1>3, <2>2, <2>3 DEF Aligned
<1>5. ASSUME Aging(fifo), n % 2 = 1 PROVE Aging(t)
    <2>1. Samples(n + 1) = Samples(n) /\ Samples(n) \in Nat
        BY <1>1, <1>5, SamplesOf
    <2>2. ASSUME NEW j \in 1..n PROVE t[j].age = Samples(n + 1) - Samples(j)
        BY <1>3, <1>5, <2>1 DEF Aging
    <2>3. t[n + 1].age = Samples(n + 1) - Samples(n + 1)
        BY <1>1, <1>3, <2>1
    <2> QED
        BY <1>1, <1>3, <2>2, <2>3 DEF Aging
<1> QED
    BY <1>1, <1>3, <1>4, <1>5 DEF t, w

\* The FIFO after a read of n words, and of whole samples.
LEMMA WordsLeft ==
    ASSUME fifo \in Seq(Words), Ordered(fifo), NEW n \in Nat
    PROVE  /\ Rest(n) \in Seq(Words) /\ Ordered(Rest(n))
           /\ Len(Rest(n)) = IF n <= Len(fifo) THEN Len(fifo) - n ELSE 0
           /\ Len(Rest(n)) > 0 => Rest(n)[Len(Rest(n))] = fifo[Len(fifo)]
           /\ \A j \in 1..Len(Rest(n)) : n + j \in 1..Len(fifo) /\ Rest(n)[j] = fifo[n + j]
<1>1. Len(fifo) \in Nat
    BY LenProperties
<1> DEFINE t == Rest(n)
<1>2. /\ t \in Seq(Words) /\ Ordered(t) /\ Len(t) = IF n <= Len(fifo) THEN Len(fifo) - n ELSE 0
      /\ \A j \in 1..Len(t) : n + j \in 1..Len(fifo) /\ t[j] = fifo[n + j]
    BY Shifted DEF Rest
<1> HIDE DEF t
<1>3. ASSUME Len(t) > 0 PROVE t[Len(t)] = fifo[Len(fifo)]
    <2>1. Len(t) = Len(fifo) - n /\ Len(t) \in 1..Len(t) /\ n + Len(t) = Len(fifo)
        BY <1>1, <1>2, <1>3
    <2> QED
        BY <1>2, <2>1
<1> QED
    BY <1>2, <1>3 DEF t

LEMMA SamplesLeft ==
    ASSUME fifo \in Seq(Words), Ordered(fifo), Aligned(fifo), NEW h \in Nat,
           2 * h <= Len(fifo) \/ Len(Rest(2 * h)) = 0
    PROVE  /\ Aligned(Rest(2 * h))
           /\ Aging(fifo) => Aging(Rest(2 * h))
<1> DEFINE n == Len(fifo)
           t == Rest(2 * h)
<1>1. n \in Nat /\ 2 * h \in Nat
    BY LenProperties
<1>2. /\ Len(t) = IF 2 * h <= n THEN n - 2 * h ELSE 0
      /\ \A j \in 1..Len(t) : 2 * h + j \in 1..n /\ t[j] = fifo[2 * h + j]
    BY <1>1, WordsLeft
<1> HIDE DEF t
<1>3. CASE Len(t) = 0
    BY <1>3 DEF Aligned, Aging, t
<1>4. CASE 2 * h <= n
    <2>1. /\ Len(t) = n - 2 * h /\ Samples(Len(t)) = Samples(n) - h
          /\ \A j \in Nat : Samples(j + 2 * h) = Samples(j) + h /\ (j + 2 * h) % 2 = j % 2
        BY <1>1, <1>2, <1>4, SamplesLess
    <2>2. ASSUME NEW j \in 1..Len(t)
          PROVE  /\ t[j].tag = Tag(j)
                 /\ Aging(fifo) => t[j].age = Samples(Len(t)) - Samples(j)
        <3>1. j \in Nat /\ 2 * h + j \in 1..n /\ t[j] = fifo[2 * h + j] /\ 2 * h + j = j + 2 * h
            BY <1>1, <1>2, <2>1
        <3>2. t[j].tag = Tag(2 * h + j) /\ Tag(2 * h + j) = Tag(j)
            BY <2>1, <3>1 DEF Aligned, Tag
        <3>3. ASSUME Aging(fifo) PROVE t[j].age = Samples(Len(t)) - Samples(j)
            <4>1. t[j].age = Samples(n) - Samples(2 * h + j)
                BY <3>1, <3>3 DEF Aging
            <4>2. Samples(n) \in Nat /\ Samples(j) \in Nat
                BY <1>1, <3>1, SamplesOf
            <4>3. Samples(2 * h + j) = Samples(j) + h
                BY <2>1, <3>1
            <4>4. t[j].age = Samples(n) - (Samples(j) + h)
                BY <4>1, <4>3
            <4>5. Samples(Len(t)) = Samples(n) - h
                BY <2>1
            <4>6. Samples(n) - (Samples(j) + h) = (Samples(n) - h) - Samples(j)
                BY <4>2
            <4> QED
                BY <4>4, <4>5, <4>6, Zenon
        <3> QED
            BY <3>2, <3>3
    <2> QED
        BY <2>2 DEF Aligned, Aging, t
<1> QED
    BY <1>3, <1>4 DEF t

-----------------------------------------------------------------------------
\* The invariant at the start, and over every step.
LEMMA InitImu == ASSUME ImuInit PROVE ImuInv
<1>1. fifo \in Seq(Words) /\ Len(fifo) = 0
    BY EmptySeq DEF ImuInit
<1>2. ImuType
    BY <1>1, Constants DEF ImuInit, ImuType, Configuring
<1>3. Ordered(fifo) /\ Aligned(fifo) /\ Aging(fifo)
    BY <1>1 DEF Ordered, Aligned, Aging
<1>4. FifoInv
    BY <1>1, <1>3, Constants DEF ImuInit, FifoInv
<1>5. AlignInv /\ LevelInv /\ DateInv /\ MovedInv
    BY DEF ImuInit, AlignInv, Clean, LevelInv, DateInv, MovedInv, Active, Reading
<1>6. PairsRight
    BY DEF ImuInit, PairsRight
<1> QED
    BY <1>2, <1>4, <1>5, <1>6 DEF ImuInv

\* What is published does not change while nothing is read.
LEMMA PairsKept == ASSUME PairsRight, UNCHANGED out PROVE PairsRight'
BY DEF PairsRight

\* A period more: a FIFO that runs is a sample longer, and the task's clocks a period later.
LEMMA PeriodStep == ASSUME ImuInv, Period PROVE ImuInv'
<1> DEFINE n == Len(fifo)
<1> USE DEF ImuInv
<1>1. /\ n \in Nat /\ fifo \in Seq(Words) /\ n <= Capacity /\ Ordered(fifo)
      /\ gap \in Nat /\ sinceRead \in Nat /\ span \in Nat /\ level \in Nat
    BY LenProperties DEF ImuType, FifoInv
<1>2. UNCHANGED <<imuTask, level, span, intact, out>> /\ ~half
    BY DEF Period, task_
<1>3. /\ sinceRead' = IF imuTask \in Active THEN Horizoned(sinceRead + 1) ELSE 0
      /\ gap' = IF imuTask \in Reading THEN Horizoned(gap + 1) ELSE 0
      /\ sinceRead' \in Nat /\ gap' \in Nat
    BY <1>1, Constants DEF Period, Active, Horizoned
<1>4. PairsRight'
    BY <1>2, PairsKept
<1>5. CASE mode = "fifo"
    <2>1. /\ fifo' = Append(FifoAged, Word("A", 0)) /\ n < Capacity
          /\ n > 0 => fifo[n] = Word("G", 0)
        BY <1>2, <1>5 DEF Period, Push, FifoInv
    <2>2. Len(FifoAged) = n
        BY <1>1, AgedWords
    <2>3. /\ mode' = IF n + 1 = Capacity THEN "stopped" ELSE "fifo"
          /\ (moved => moved') /\ (n + 1 = Capacity => moved')
          /\ half' <=> mode' = "fifo"
        BY <1>5, <2>2 DEF Period, Push
    <2>0. n + 1 <= Capacity /\ (mode' = "fifo" => n + 1 < Capacity) /\ mode' \in {"fifo", "stopped"}
        BY <1>1, <2>1, <2>3, Constants
    <2>4. /\ fifo' \in Seq(Words) /\ Len(fifo') = n + 1 /\ fifo'[n + 1] = Word("A", 0) /\ Ordered(fifo')
          /\ Aligned(fifo) /\ n % 2 = 0 => Aligned(fifo')
          /\ Aging(fifo) /\ n % 2 = 0 => Aging(fifo')
        BY <1>1, <2>1, AccelerometerCame
    <2>5. ImuType'
        BY <1>1, <1>2, <1>3, <2>0, <2>4 DEF ImuType
    <2>6. imuTask \notin Configuring \ {"reset", "interrupts"}
        BY <1>5 DEF FifoInv
    <2>7. FifoInv'
        BY <1>2, <2>0, <2>3, <2>4, <2>6 DEF FifoInv
    <2>8. n % 2 \in 0..1 /\ (n % 2 = 0 => Samples(n + 1) = Samples(n) + 1 /\ (n + 1) % 2 = 1)
          /\ Samples(n) \in Nat /\ Samples(n) <= n
        BY <1>1, SamplesOf
    <2>9. Clean => Aligned(fifo) /\ n % 2 = 0 /\ Aging(fifo)
        BY <1>2, <1>5, <2>8 DEF AlignInv
    <2>10. Clean' = Clean
        BY <1>2 DEF Clean
    <2>11. AlignInv'
        BY <2>3, <2>4, <2>8, <2>9, <2>10 DEF AlignInv
    <2>12. imuTask \in Active /\ intact => Samples(n + 1) = Samples(n) + 1
        BY <2>8, <2>9 DEF Clean
    <2>13. LevelInv'
        <3> SUFFICES ASSUME imuTask = "data" PROVE LevelInv'
            BY <1>2 DEF LevelInv
        <3>1. "data" \in Reading /\ "data" \in Active
            BY DEF Reading, Active
        <3>2. level = 2 * (level \div 2) /\ level > 0 /\ sinceRead' = gap'
            BY <1>3, <3>1 DEF LevelInv
        <3>3. ASSUME intact
              PROVE  level <= n + 1 /\ Samples(n + 1) - gap' >= level \div 2
            <4>1. level <= n /\ Samples(n) - gap >= level \div 2 /\ level \div 2 \in Nat
                BY <1>1, <1>5, <3>3 DEF LevelInv
            <4>2. gap' = gap + 1
                BY <1>1, <1>3, <2>1, <2>8, <3>1, <4>1, Constants DEF Horizoned
            <4> QED
                BY <1>1, <2>8, <2>12, <3>1, <3>3, <4>1, <4>2
        <3> QED
            BY <1>2, <2>4, <3>2, <3>3 DEF LevelInv
    <2>14. DateInv'
        <3> SUFFICES ASSUME intact, ~moved, imuTask \in Active PROVE DateInv'
            BY <1>2, <2>3 DEF DateInv, Active, Reading
        <3>1. Samples(n + 1) = Samples(n) + 1
            BY <2>12
        <3>2. ASSUME imuTask # "data"
              PROVE  Samples(n + 1) - sinceRead' \in 0..2
            <4>1. Samples(n) - sinceRead \in 0..2
                BY <1>5, <3>2 DEF DateInv
            <4>2. sinceRead' = sinceRead + 1
                BY <1>1, <1>3, <2>1, <2>8, <4>1, Constants DEF Horizoned
            <4> QED
                BY <1>1, <2>8, <3>1, <4>1, <4>2
        <3>3. ASSUME imuTask = "data"
              PROVE  Samples(n + 1) - gap' - span \in 0..2 /\ Samples(n + 1) - gap' - level \div 2 \in 0..2
            <4>1. Samples(n) - gap - span \in 0..2 /\ Samples(n) - gap - level \div 2 \in 0..2
                  /\ level \div 2 \in Nat
                BY <1>1, <1>5, <3>3 DEF DateInv
            <4>2. gap + 1 <= Horizon
                BY <1>1, <2>1, <2>8, <4>1, Constants
            <4>3. imuTask \in Reading
                BY <3>3 DEF Reading
            <4>4. gap' = gap + 1
                BY <1>1, <1>3, <4>2, <4>3, Constants DEF Horizoned
            <4> QED
                BY <1>1, <2>8, <3>1, <4>1, <4>4
        <3> QED
            BY <1>2, <2>4, <3>2, <3>3 DEF DateInv
    <2>15. MovedInv'
        BY <1>1, <1>2, <2>3, <2>4 DEF MovedInv
    <2> QED
        BY <1>4, <2>5, <2>7, <2>11, <2>13, <2>14, <2>15
<1>6. CASE mode # "fifo"
    <2>1. fifo' = FifoAged /\ UNCHANGED <<half, mode, moved>>
        BY <1>6 DEF Period
    <2>2. fifo' \in Seq(Words) /\ Len(fifo') = n /\ Ordered(fifo')
          /\ \A j \in 1..n : fifo'[j].tag = fifo[j].tag
        BY <1>1, <2>1, AgedWords, AgedOrdered
    <2>3. ImuType'
        BY <1>1, <1>2, <1>3, <2>1, <2>2 DEF ImuType
    <2>4. FifoInv'
        BY <1>2, <1>6, <2>1, <2>2 DEF FifoInv
    <2>5. AlignInv'
        BY <1>2, <1>6, <2>1, <2>2 DEF AlignInv, Clean, Aligned
    <2>6. LevelInv'
        BY <1>2, <1>3, <1>6, <2>1, <2>2 DEF LevelInv, Reading, Active
    <2>7. DateInv' /\ MovedInv'
        BY <1>2, <1>6, <2>1, <2>2 DEF DateInv, MovedInv
    <2> QED
        BY <1>4, <2>3, <2>4, <2>5, <2>6, <2>7
<1> QED
    BY <1>5, <1>6

\* The second word of a sample.
LEMMA GyroStep == ASSUME ImuInv, GyroWord PROVE ImuInv'
<1> DEFINE n == Len(fifo)
<1> USE DEF ImuInv
<1>1. /\ n \in Nat /\ fifo \in Seq(Words) /\ n <= Capacity /\ Ordered(fifo)
      /\ gap \in Nat /\ sinceRead \in Nat /\ span \in Nat /\ level \in Nat
    BY LenProperties DEF ImuType, FifoInv
<1>2. UNCHANGED <<imuTask, level, span, gap, sinceRead, intact, out>> /\ half /\ half' = FALSE
    BY DEF GyroWord, task_, batch
<1>3. /\ mode = "fifo" /\ fifo' = Append(fifo, Word("G", 0)) /\ n < Capacity
      /\ n > 0 => fifo[n] = Word("A", 0)
    BY <1>2 DEF GyroWord, Push, FifoInv
<1>4. /\ mode' = IF n + 1 = Capacity THEN "stopped" ELSE "fifo"
      /\ (moved => moved') /\ (n + 1 = Capacity => moved')
    BY <1>3 DEF GyroWord, Push
<1>0. n + 1 <= Capacity /\ (mode' = "fifo" => n + 1 < Capacity) /\ mode' \in {"fifo", "stopped"}
    BY <1>1, <1>3, <1>4, Constants
<1>5. /\ fifo' \in Seq(Words) /\ Len(fifo') = n + 1 /\ fifo'[n + 1] = Word("G", 0) /\ Ordered(fifo')
      /\ Aligned(fifo) /\ n % 2 = 1 => Aligned(fifo')
      /\ Aging(fifo) /\ n % 2 = 1 => Aging(fifo')
    BY <1>1, <1>3, GyroscopeCame
<1>6. ImuType'
    BY <1>0, <1>1, <1>2, <1>5 DEF ImuType
<1>7. imuTask \notin Configuring \ {"reset", "interrupts"}
    BY <1>3 DEF FifoInv
<1>8. FifoInv'
    BY <1>0, <1>2, <1>5, <1>7 DEF FifoInv
<1>9. n % 2 \in 0..1 /\ (n % 2 = 1 => Samples(n + 1) = Samples(n) /\ (n + 1) % 2 = 0)
    BY <1>1, SamplesOf
<1>10. Clean => Aligned(fifo) /\ n % 2 = 1 /\ Aging(fifo)
    BY <1>2, <1>3 DEF AlignInv
<1>11. Clean' = Clean
    BY <1>2 DEF Clean
<1>12. AlignInv'
    BY <1>2, <1>4, <1>5, <1>9, <1>10, <1>11 DEF AlignInv
<1>13. imuTask \in Active /\ intact => Samples(n + 1) = Samples(n)
    BY <1>9, <1>10 DEF Clean
<1>14. LevelInv'
    <2>1. "data" \in Active
        BY DEF Reading, Active
    <2> QED
        BY <1>1, <1>2, <1>3, <1>5, <1>13, <2>1 DEF LevelInv
<1>15. DateInv'
    BY <1>2, <1>3, <1>4, <1>5, <1>13 DEF DateInv, Active, Reading
<1>16. MovedInv'
    BY <1>1, <1>2, <1>4, <1>5 DEF MovedInv
<1>17. PairsRight'
    BY <1>2, PairsKept
<1> QED
    BY <1>6, <1>8, <1>12, <1>14, <1>15, <1>16, <1>17

\* Steps that empty the FIFO or leave all of it alone.
LEMMA OtherSteps ==
    ASSUME ImuInv, LoseConfiguration \/ Stall \/ ImuBackoff \/ WaitEnds
    PROVE  ImuInv'
<1> USE DEF ImuInv
<1>1. PairsRight'
    BY PairsKept DEF LoseConfiguration, Stall, ImuBackoff, WaitEnds
<1>2. CASE LoseConfiguration
    <2>1. mode' = "bypass" /\ fifo' = <<>> /\ half' = FALSE /\ UNCHANGED <<imuTask, sinceRead, level, span, gap, intact, moved>>
        BY <1>2 DEF LoseConfiguration, task_, batch
    <2>2. fifo' \in Seq(Words) /\ Len(fifo') = 0
        BY <2>1, EmptySeq
    <2>3. ImuType'
        BY <2>1, <2>2, Constants DEF ImuType
    <2>4. Ordered(fifo') /\ Aligned(fifo')
        BY <2>2 DEF Ordered, Aligned
    <2>5. FifoInv'
        BY <2>1, <2>2, <2>4 DEF FifoInv
    <2>6. AlignInv' /\ DateInv' /\ MovedInv'
        BY <2>1, <2>2, <2>4 DEF AlignInv, DateInv, MovedInv
    <2>7. LevelInv'
        BY <2>1 DEF LevelInv
    <2> QED
        BY <1>1, <2>3, <2>5, <2>6, <2>7
<1>3. CASE Stall \/ ImuBackoff \/ WaitEnds
    <2>1. /\ UNCHANGED <<mode, fifo, half, sinceRead, level, span, gap, intact, moved>>
          /\ \/ imuTask' = imuTask
             \/ imuTask = "backoff" /\ imuTask' = "reset"
             \/ imuTask = "wait" /\ imuTask' = "level low"
        BY <1>3 DEF Stall, ImuBackoff, WaitEnds, Due, task_, chip, batch
    <2>2. ImuType'
        BY <2>1 DEF ImuType, Configuring, Active, Reading
    <2>3. FifoInv'
        BY <2>1 DEF FifoInv, Configuring
    <2>4. Clean' = Clean
        BY <2>1 DEF Clean, Active, Reading
    <2>5. AlignInv'
        BY <2>1, <2>4 DEF AlignInv
    <2>6. LevelInv' /\ DateInv' /\ MovedInv'
        BY <2>1 DEF LevelInv, DateInv, MovedInv, Active, Reading
    <2> QED
        BY <1>1, <2>2, <2>3, <2>5, <2>6
<1> QED
    BY <1>2, <1>3

\* The order of the configuration.
LEMMA ConfigurationOrder ==
    /\ NextStep("reset") = "who am I" /\ NextStep("who am I") = "control"
    /\ NextStep("control") = "bypass" /\ NextStep("bypass") = "rates"
    /\ NextStep("rates") = "watermark" /\ NextStep("watermark") = "fifo"
    /\ NextStep("fifo") = "interrupts"
<1> DEFINE c == ConfigureSequence
<1>1. /\ c[1] = "reset" /\ c[2] = "who am I" /\ c[3] = "control" /\ c[4] = "bypass"
      /\ c[5] = "rates" /\ c[6] = "watermark" /\ c[7] = "fifo" /\ c[8] = "interrupts"
    BY DEF ConfigureSequence
<1> HIDE DEF c
<1>2. ASSUME NEW i \in 1..8, NEW j \in 1..8, c[i] = c[j]
      PROVE  i = j
    <2>1. \A m \in 1..8 : m = 1 \/ m = 2 \/ m = 3 \/ m = 4 \/ m = 5 \/ m = 6 \/ m = 7 \/ m = 8
        OBVIOUS
    <2> QED
        BY <1>1, <1>2, <2>1, ZenonT(60)
<1>3. ASSUME NEW i \in 1..8
      PROVE  NextStep(c[i]) = c[1 + i]
    <2>1. (CHOOSE j \in 1..8 : c[j] = c[i]) = i
        BY <1>2
    <2> QED
        BY <2>1 DEF NextStep, c
<1>4. /\ NextStep(c[1]) = c[2] /\ NextStep(c[2]) = c[3] /\ NextStep(c[3]) = c[4] /\ NextStep(c[4]) = c[5]
      /\ NextStep(c[5]) = c[6] /\ NextStep(c[6]) = c[7] /\ NextStep(c[7]) = c[8]
    BY <1>3, 1 + 1 = 2, 1 + 2 = 3, 1 + 3 = 4, 1 + 4 = 5, 1 + 5 = 6, 1 + 6 = 7, 1 + 7 = 8
<1> QED
    BY <1>1, <1>4, Zenon

\* The configuration keeps the FIFO in bypass, empty, until it starts it.
LEMMA ConfigureStep == ASSUME ImuInv, ImuConfigure PROVE ImuInv'
<1> USE DEF ImuInv
<1>1. imuTask \in Configuring /\ UNCHANGED <<level, span, gap>>
    BY DEF ImuConfigure, batch
<1>2. CASE imuTask' = "backoff" /\ UNCHANGED <<mode, fifo, half, sinceRead, intact, moved, out>>
    <2>1. ImuType'
        BY <1>1, <1>2 DEF ImuType
    <2>2. FifoInv'
        BY <1>2 DEF FifoInv, Configuring
    <2>3. ~Clean'
        BY <1>2 DEF Clean, Active, Reading
    <2>4. AlignInv' /\ LevelInv' /\ DateInv' /\ MovedInv'
        BY <1>2, <2>3 DEF AlignInv, LevelInv, DateInv, MovedInv, Active, Reading
    <2> QED
        BY <1>2, <2>1, <2>2, <2>4, PairsKept
<1>3. CASE imuTask = "interrupts" /\ imuTask' = "wait" /\ sinceRead' = 0 /\ intact' = TRUE
           /\ moved' = (fifo # <<>>) /\ out' = {} /\ UNCHANGED <<mode, fifo, half>>
    <2>1. ImuType'
        BY <1>1, <1>3 DEF ImuType, Active
    <2>2. FifoInv'
        BY <1>3 DEF FifoInv, Configuring
    <2>3. AlignInv'
        BY <1>3 DEF AlignInv, Clean
    <2>4. LevelInv'
        BY <1>3 DEF LevelInv
    <2>5. DateInv'
        <3>1. SUFFICES ASSUME fifo = <<>> PROVE DateInv'
            BY <1>3 DEF DateInv
        <3>2. Len(fifo) = 0
            BY <3>1
        <3> QED
            BY <1>3, <3>2, SamplesOf DEF DateInv
    <2>6. MovedInv'
        <3>1. Len(fifo) > 0 => fifo # <<>>
            OBVIOUS
        <3> QED
            BY <1>3, <3>1 DEF MovedInv
    <2>7. PairsRight'
        BY <1>3 DEF PairsRight
    <2> QED
        BY <2>1, <2>2, <2>3, <2>4, <2>5, <2>6, <2>7
<1>4. CASE /\ imuTask \in Configuring \ {"interrupts"} /\ imuTask' = NextStep(imuTask)
           /\ mode' = CASE imuTask \in {"reset", "bypass"} -> "bypass"
                        [] imuTask = "fifo" -> "fifo"
                        [] OTHER -> mode
           /\ IF imuTask \in {"reset", "bypass"}
                 THEN fifo' = <<>> /\ half' = FALSE
                 ELSE UNCHANGED <<fifo, half>>
           /\ UNCHANGED <<sinceRead, intact, moved, out>>
    <2>1. /\ imuTask = "reset" => mode' = "bypass"
          /\ imuTask = "bypass" => mode' = "bypass"
          /\ imuTask = "fifo" => mode' = "fifo"
          /\ imuTask \in Configuring \ {"reset", "bypass", "fifo", "interrupts"} => mode' = mode
        BY <1>4 DEF Configuring
    <2>2. imuTask # "reset" => mode = "bypass"
        BY <1>4 DEF FifoInv
    <2>3. fifo' = <<>> /\ half' = FALSE
        <3>1. CASE imuTask \in {"reset", "bypass"}
            BY <1>4, <3>1
        <3>2. CASE imuTask \notin {"reset", "bypass"}
            <4>1. Len(fifo) = 0 /\ half = FALSE
                BY <2>2, <3>2 DEF FifoInv
            <4>2. fifo = <<>>
                BY <4>1, EmptySeq DEF ImuType
            <4> QED
                BY <1>4, <3>2, <4>1, <4>2
        <3> QED
            BY <3>1, <3>2
    <2>4. fifo' \in Seq(Words) /\ Len(fifo') = 0
        BY <2>3, EmptySeq
    <2>5. \/ imuTask = "fifo" /\ imuTask' = "interrupts" /\ mode' = "fifo"
          \/ imuTask' \in Configuring \ {"reset", "interrupts"} /\ mode' = "bypass"
        <3>1. imuTask \in {"reset", "who am I", "control", "bypass", "rates", "watermark", "fifo"}
            BY <1>4 DEF Configuring
        <3>2. CASE imuTask = "fifo"
            BY <1>4, <2>1, <3>2, ConfigurationOrder
        <3>3. CASE imuTask # "fifo"
            <4>1. mode' = "bypass"
                BY <2>1, <2>2, <3>1, <3>3 DEF Configuring
            <4>2. imuTask' = NextStep(imuTask)
                BY <1>4
            <4>3. imuTask' \in {"who am I", "control", "bypass", "rates", "watermark", "fifo"}
                BY <3>1, <3>3, <4>2, ConfigurationOrder
            <4> QED
                BY <4>1, <4>3 DEF Configuring
        <3> QED
            BY <3>2, <3>3
    <2>6. ImuType'
        <3>1. imuTask' \in Configuring /\ mode' \in {"bypass", "fifo"}
            BY <2>5 DEF Configuring
        <3> QED
            BY <1>1, <1>4, <2>4, <3>1, Constants DEF ImuType
    <2>7. Ordered(fifo') /\ Aligned(fifo') /\ Aging(fifo')
        BY <2>4 DEF Ordered, Aligned, Aging
    <2>8. FifoInv'
        BY <2>3, <2>4, <2>5, <2>7, Constants DEF FifoInv
    <2>9. AlignInv'
        BY <2>3, <2>4, <2>7 DEF AlignInv
    <2>10. LevelInv' /\ DateInv' /\ MovedInv'
        BY <2>5 DEF LevelInv, DateInv, MovedInv, Active, Reading, Configuring
    <2> QED
        BY <1>4, <2>6, <2>8, <2>9, <2>10, PairsKept
<1> QED
    BY <1>1, <1>2, <1>3, <1>4 DEF ImuConfigure, chip

LEMMA ErredEnds ==
    ASSUME Erred
    PROVE  imuTask' \in {"wait", "reset"} /\ level' = 0 /\ span' = 0 /\ gap' = 0
BY DEF Erred, BatchDone

\* An attempt that failed leaves the FIFO, and what is known of it, alone.
LEMMA ErredStep ==
    ASSUME ImuInv, Erred, imuTask \in Reading, UNCHANGED <<chip, out>>,
           \/ imuTask # "data" /\ UNCHANGED <<sinceRead, intact, moved>>
           \/ sinceRead' \in Nat /\ moved' = TRUE /\ UNCHANGED intact
    PROVE  ImuInv'
<1> USE DEF ImuInv
<1>1. imuTask' \in {"wait", "reset"} /\ level' = 0 /\ span' = 0 /\ gap' = 0
    BY ErredEnds
<1>2. UNCHANGED <<mode, fifo, half, intact>> /\ imuTask \in Active /\ sinceRead' \in Nat
    BY DEF chip, Active, ImuType
<1>3. ImuType'
    <2>1. imuTask' \in Configuring \cup Active \cup {"backoff"}
        BY <1>1 DEF Configuring, Active
    <2> QED
        BY <1>1, <1>2, <2>1 DEF ImuType
<1>4. FifoInv'
    BY <1>1, <1>2 DEF FifoInv, Configuring
<1>5. Clean' => Clean
    BY <1>1, <1>2 DEF Clean, Active, Reading
<1>6. AlignInv'
    BY <1>2, <1>5 DEF AlignInv
<1>7. LevelInv'
    BY <1>1 DEF LevelInv
<1>8. DateInv'
    BY <1>1, <1>2 DEF DateInv, Active, Reading
<1>9. MovedInv'
    BY <1>1, <1>2 DEF MovedInv, Active, Reading
<1>10. PairsRight'
    BY PairsKept
<1> QED
    BY <1>3, <1>4, <1>6, <1>7, <1>8, <1>9, <1>10

\* The two registers of the level, one after the other.
LEMMA LevelLowStep == ASSUME ImuInv, ReadLevelLow PROVE ImuInv'
<1> USE DEF ImuInv
<1>1. imuTask = "level low" /\ UNCHANGED <<chip, sinceRead, intact, moved, out>>
    BY DEF ReadLevelLow
<1>2. CASE Erred
    <2>1. imuTask \in Reading
        BY <1>1 DEF Reading
    <2> QED
        BY <1>1, <1>2, <2>1, ErredStep
<1>3. CASE level' = Len(fifo) % LowByte /\ imuTask' = "level high" /\ UNCHANGED <<span, gap>>
    <2>1. level' \in Nat
        <3>1. \A a \in Nat : a % LowByte \in Nat
            BY Constants
        <3> QED
            BY <1>3, <3>1, LenProperties DEF ImuType
    <2>2. UNCHANGED <<mode, fifo, half>>
        BY <1>1 DEF chip
    <2>3. ImuType'
        BY <1>1, <1>3, <2>1, <2>2 DEF ImuType, Active, Reading
    <2>4. FifoInv'
        BY <1>1, <1>3, <2>2 DEF FifoInv, Configuring
    <2>5. Clean' = Clean
        BY <1>1, <1>3 DEF Clean, Active, Reading
    <2>6. AlignInv'
        BY <2>2, <2>5 DEF AlignInv
    <2>7. LevelInv' /\ DateInv' /\ MovedInv'
        BY <1>1, <1>3, <2>2 DEF LevelInv, DateInv, MovedInv, Active, Reading
    <2> QED
        BY <1>1, <2>3, <2>4, <2>6, <2>7, PairsKept
<1> QED
    BY <1>2, <1>3 DEF ReadLevelLow

\* An even number of words is read, whatever the two registers said.
LEMMA EvenEntries ==
    ASSUME NEW m \in Nat
    PROVE  LET n == Entries(m) IN n \in Nat /\ n = 2 * (n \div 2) /\ n \div 2 \in Nat
BY Constants DEF Entries

LEMMA LevelHighStep == ASSUME ImuInv, ReadLevelHigh PROVE ImuInv'
<1> DEFINE m == LowByte * (Len(fifo) \div LowByte) + level
           n == Entries(m)
           s == Samples(Len(fifo))
<1> USE DEF ImuInv
<1>1. imuTask = "level high" /\ imuTask \in Reading /\ UNCHANGED <<chip, out>>
    BY DEF ReadLevelHigh, Reading
<1>2. CASE Erred /\ UNCHANGED <<sinceRead, intact, moved>>
    BY <1>1, <1>2, ErredStep
<1>3. CASE Erred /\ sinceRead' = 0 /\ moved' = TRUE /\ UNCHANGED intact
    BY <1>1, <1>3, ErredStep
<1>4. CASE /\ n # 0 /\ sinceRead' = 0 /\ imuTask' = "data" /\ level' = n /\ span' = sinceRead /\ gap' = 0
           /\ intact' = (intact /\ n <= Len(fifo))
           /\ moved' = (moved \/ n > Len(fifo) \/ LeftBehind(n, 0))
    <2>1. Len(fifo) \in Nat /\ m \in Nat
        <3>1. \A a \in Nat : LowByte * (a \div LowByte) \in Nat
            BY Constants, Quotient, Product
        <3> QED
            BY <3>1, LenProperties DEF ImuType
    <2>2. n \in Nat /\ n = 2 * (n \div 2) /\ n > 0 /\ n \div 2 \in Nat
        <3> HIDE DEF m
        <3>1. n \in Nat /\ n = 2 * (n \div 2) /\ n \div 2 \in Nat
            BY <2>1, EvenEntries
        <3> HIDE DEF n
        <3> QED
            BY <1>4, <3>1
    <2> HIDE DEF m, n
    <2>3. UNCHANGED <<mode, fifo, half>>
        BY <1>1 DEF chip
    <2>4. (intact' => intact /\ n <= Len(fifo)) /\ (~moved' => ~moved /\ ~LeftBehind(n, 0))
        BY <1>4
    <2>5. n <= Len(fifo) => s - n \div 2 = Samples(Len(fifo) - n) /\ Samples(Len(fifo) - n) \in Nat
        <3> SUFFICES ASSUME n <= Len(fifo) PROVE s - n \div 2 = Samples(Len(fifo) - n) /\ Samples(Len(fifo) - n) \in Nat
            OBVIOUS
        <3>1. Samples(Len(fifo) - 2 * (n \div 2)) = Samples(Len(fifo)) - n \div 2
            BY <2>1, <2>2, SamplesLess
        <3>2. Len(fifo) - n \in Nat
            BY <2>1, <2>2
        <3> QED
            BY <2>2, <3>1, <3>2, SamplesOf
    <2>6. s \in Nat
        BY <2>1, SamplesOf
    <2>7. ImuType'
        BY <1>4, <2>2, <2>3 DEF ImuType, Active, Reading
    <2>8. FifoInv'
        BY <1>1, <1>4, <2>3 DEF FifoInv, Configuring
    <2>9. Clean' => Clean
        BY <1>1, <1>4, <2>4 DEF Clean, Active, Reading
    <2>10. AlignInv'
        BY <2>3, <2>9 DEF AlignInv
    <2>11. LevelInv'
        <3>1. intact' => Samples(Len(fifo)) - 0 >= n \div 2
            BY <2>2, <2>4, <2>5, <2>6
        <3> QED
            BY <1>4, <2>2, <2>3, <2>4, <3>1 DEF LevelInv
    <2>12. DateInv'
        <3> SUFFICES ASSUME intact, n <= Len(fifo), ~moved, ~LeftBehind(n, 0), mode = "fifo"
                     PROVE  DateInv'
            BY <2>3, <2>4 DEF DateInv
        <3>1. s - sinceRead \in 0..2
            BY <1>1 DEF DateInv, Active, Reading
        <3>2. Samples(Len(fifo) - n) <= 2
            BY <2>1, <2>2, <2>5 DEF LeftBehind, Samples
        <3>3. s - 0 - sinceRead \in 0..2 /\ s - 0 - n \div 2 \in 0..2
            BY <2>2, <2>5, <2>6, <3>1, <3>2 DEF ImuType
        <3> QED
            BY <1>4, <2>3, <3>3 DEF DateInv
    <2>13. MovedInv'
        BY <1>1, <1>4, <2>3 DEF MovedInv, Active, Reading
    <2> QED
        BY <1>1, <2>7, <2>8, <2>10, <2>11, <2>12, <2>13, PairsKept
<1> QED
    BY <1>2, <1>3, <1>4 DEF ReadLevelHigh, EmptyFifo

-----------------------------------------------------------------------------
\* Pair i of a batch of level words.
LEMMA PairIsRight ==
    ASSUME ImuInv, imuTask = "data", NEW i \in 1..(level \div 2),
           Paired(Read(level)[2 * i - 1], Read(level)[2 * i])
    PROVE  PairRight(Published(Read(level)[2 * i - 1], Read(level)[2 * i], i - 1, level \div 2))
<1> DEFINE len == Len(fifo)
           h == level \div 2
           a == Read(level)[2 * i - 1]
           b == Read(level)[2 * i]
           p == Published(a, b, i - 1, h)
           acc == IF a.tag = "A" THEN a ELSE b
           gyr == IF a.tag = "A" THEN b ELSE a
<1> USE DEF ImuInv
<1>1. /\ len \in Nat /\ fifo \in Seq(Words) /\ gap \in Nat /\ span \in Nat /\ level \in Nat
      /\ level = 2 * h /\ h \in Nat /\ i \in Nat /\ i <= h /\ i > 0
      /\ 2 * i \in 1..level /\ 2 * i - 1 \in 1..level
    <2>1. level \in Nat /\ level = 2 * h /\ h \in Nat
        BY DEF ImuType, LevelInv
    <2>2. len \in Nat /\ fifo \in Seq(Words) /\ gap \in Nat /\ span \in Nat
        BY LenProperties DEF ImuType
    <2> HIDE DEF h
    <2>3. i \in Nat /\ i <= h /\ i > 0
        BY <2>1 DEF h
    <2> QED
        BY <2>1, <2>2, <2>3
<1>2. 2 * i <= len /\ a = fifo[2 * i - 1] /\ b = fifo[2 * i]
    <2>1. /\ a = IF 2 * i - 1 <= len THEN fifo[2 * i - 1] ELSE Zero
          /\ b = IF 2 * i <= len THEN fifo[2 * i] ELSE Zero
        BY <1>1 DEF Read
    <2>2. b.tag \in {"A", "G"}
        BY DEF Paired
    <2>3. Zero.tag = "none"
        BY DEF Zero, Word
    <2>4. 2 * i <= len
        BY <2>1, <2>2, <2>3
    <2> QED
        BY <1>1, <2>1, <2>4
<1>3. 2 * i \in 1..len /\ 2 * i - 1 \in 1..len /\ 2 * i > 1
    BY <1>1, <1>2
<1>4. a \in Words /\ b \in Words
    BY <1>1, <1>2, <1>3, ElementOfSeq
<1>5. Neighbours(a, b)
    BY <1>2, <1>3 DEF FifoInv, Ordered
<1>6. a.age \in Nat /\ b.age \in Nat
    BY <1>4 DEF Words
<1> HIDE DEF a, b
<1>7. /\ p.tags = <<acc.tag, gyr.tag>> /\ p.skew = acc.age - gyr.age /\ p.nth = i - 1
      /\ (p.whole => intact) /\ (p.trusted => intact /\ ~moved)
      /\ p.late = acc.age * Fraction - (gap * Fraction + span * Fraction - PairDt(h) * (i - 1))
    BY DEF Published
<1> HIDE DEF p
<1>8. p.tags = <<"A", "G">> /\ p.skew \in -1..1
    <2>1. CASE a.tag = "A" /\ b.tag = "G" /\ b.age = a.age
        BY <1>6, <1>7, <2>1
    <2>2. CASE a.tag = "G" /\ b.tag = "A" /\ a.age - b.age \in 0..1
        BY <1>6, <1>7, <2>2
    <2> QED
        BY <1>5, <2>1, <2>2 DEF Neighbours
<1>9. ASSUME intact PROVE a.tag = "A" /\ b.tag = "G" /\ b.age = a.age
    <2>1. Aligned(fifo)
        BY <1>9 DEF AlignInv, Clean, Active, Reading
    <2>2. (2 * i - 1) % 2 = 1
        BY <1>1
    <2>3. a.tag = "A"
        BY <1>2, <1>3, <2>1, <2>2 DEF Aligned, Tag
    <2> QED
        BY <1>5, <2>3 DEF Neighbours
<1>10. p.whole => p.skew = 0
    BY <1>6, <1>7, <1>9
<1>11. ASSUME intact, ~moved PROVE p.late \in -(Fraction + p.nth)..Fraction
    <2> DEFINE s == Samples(len)
               c == s - gap - span
               d == s - gap - h
               k == i - 1
    <2>1. mode = "fifo"
        <3>1. mode # "stopped"
            BY <1>11 DEF MovedInv, Active, Reading
        <3>2. mode # "bypass"
            BY <1>1, <1>2 DEF FifoInv
        <3> QED
            BY <3>1, <3>2 DEF ImuType
    <2>2. c \in 0..2 /\ d \in 0..2 /\ s \in Nat
        BY <1>1, <1>11, <2>1, SamplesOf DEF DateInv
    <2>3. a.age = s - i
        <3>1. Aging(fifo)
            BY <1>11, <2>1 DEF AlignInv, Clean, Active, Reading
        <3>2. Samples(2 * i - 1) = i
            BY <1>1 DEF Samples
        <3> QED
            BY <1>2, <1>3, <3>1, <3>2 DEF Aging
    <2> HIDE DEF s
    <2>4. h = span + c - d /\ k \in 0..(h - 1) /\ s - i = c + gap + span - 1 - k
        BY <1>1, <2>2
    <2>5. acc = a
        BY <1>9, <1>11
    <2> DEFINE q == (span * Fraction) \div h
    <2>6. Fraction * (c - 1 - k) + q * k \in (-(Fraction + k))..Fraction
        <3> HIDE DEF h, c, d, k
        <3> QED
            BY <1>1, <2>2, <2>4, Constants, Dating
    <2>7. q \in Nat
        BY <1>1, Constants, Product, Quotient
    <2>8. p.late = (s - i) * Fraction - (gap * Fraction + span * Fraction - q * k)
        BY <1>7, <2>3, <2>5 DEF PairDt
    <2> HIDE DEF q
    <2>9. (s - i) * Fraction - (gap * Fraction + span * Fraction - q * k) = Fraction * (c - 1 - k) + q * k
        <3> HIDE DEF c, k
        <3>1. c \in Int /\ k \in Int /\ Fraction \in Int /\ gap \in Int /\ span \in Int /\ q \in Int
            BY <1>1, <2>2, <2>4, <2>7, Constants
        <3>2. (c + gap + span - 1 - k) * Fraction - (gap * Fraction + span * Fraction - q * k) = Fraction * (c - 1 - k) + q * k
            BY <3>1
        <3> QED
            BY <2>4, <3>2
    <2> QED
        BY <1>7, <2>6, <2>8, <2>9
<1> QED
    BY <1>7, <1>8, <1>10, <1>11 DEF PairRight, p, a, b

\* A batch is read, or the transfer breaks off.
LEMMA ReadDataStep == ASSUME ImuInv, ReadData PROVE ImuInv'
<1> DEFINE h == level \div 2
           n == Len(fifo)
<1> USE DEF ImuInv
<1>1. /\ imuTask = "data" /\ imuTask \in Active /\ imuTask \in Reading
      /\ UNCHANGED <<mode, half, sinceRead>>
    BY DEF ReadData, Active, Reading
<1>2. /\ n \in Nat /\ fifo \in Seq(Words) /\ Ordered(fifo) /\ n <= Capacity
      /\ level \in Nat /\ level = 2 * h /\ h \in Nat /\ sinceRead \in Nat /\ sinceRead = gap
    BY <1>1, LenProperties DEF ImuType, FifoInv, LevelInv
<1>3. ASSUME NEW m \in Nat, fifo' = Rest(m), imuTask' \in {"wait", "reset"}, level' = 0, span' = 0, gap' = 0
      PROVE  ImuType' /\ FifoInv' /\ LevelInv'
    <2>1. /\ fifo' \in Seq(Words) /\ Ordered(fifo') /\ Len(fifo') <= n /\ Len(fifo') \in Nat
          /\ Len(fifo') > 0 => fifo'[Len(fifo')] = fifo[n] /\ n > 0
        <3> DEFINE t == Rest(m)
        <3>1. /\ t \in Seq(Words) /\ Ordered(t) /\ Len(t) = IF m <= n THEN n - m ELSE 0
              /\ Len(t) > 0 => t[Len(t)] = fifo[n]
            BY <1>2, WordsLeft
        <3> HIDE DEF t
        <3>2. Len(t) <= n /\ Len(t) \in Nat /\ (Len(t) > 0 => n > 0)
            BY <1>2, <3>1
        <3>3. fifo' = t
            BY <1>3 DEF t
        <3> QED
            BY <3>1, <3>2, <3>3, Zenon
    <2>2. ImuType'
        <3>1. imuTask' \in Configuring \cup Active \cup {"backoff"}
            BY <1>3 DEF Configuring, Active
        <3>2. Len(fifo') <= Capacity
            BY <1>2, <2>1, Constants
        <3> QED
            BY <1>1, <1>2, <1>3, <2>1, <3>1, <3>2 DEF ImuType
    <2>3. FifoInv'
        <3>1. mode = "fifo" => Len(fifo') < Capacity
            BY <1>2, <2>1, Constants DEF FifoInv
        <3>2. mode = "bypass" => Len(fifo') = 0
            BY <1>2, <2>1 DEF FifoInv
        <3>3. imuTask' \notin Configuring \ {"reset", "interrupts"}
            BY <1>3 DEF Configuring
        <3> QED
            BY <1>1, <2>1, <3>1, <3>2, <3>3 DEF FifoInv
    <2>4. LevelInv'
        BY <1>3 DEF LevelInv
    <2> QED
        BY <2>2, <2>3, <2>4
<1>4. CASE /\ out' = {Published(Read(level)[2 * i - 1], Read(level)[2 * i], i - 1, h) :
                        i \in {j \in 1..h : Paired(Read(level)[2 * j - 1], Read(level)[2 * j])}}
           /\ fifo' = Rest(level) /\ imuTask' = "wait" /\ level' = 0 /\ span' = 0 /\ gap' = 0
           /\ moved' = (mode # "fifo" \/ LeftBehind(level, sinceRead))
           /\ intact' = intact
    <2>1. \A p \in out' : PairRight(p)
        BY <1>1, <1>4, PairIsRight
    <2>2. PairsRight'
        BY <2>1 DEF PairsRight, PairRight
    <2>3. ImuType' /\ FifoInv' /\ LevelInv'
        BY <1>2, <1>3, <1>4
    <2>4. Len(fifo') = IF level <= n THEN n - level ELSE 0
        BY <1>2, <1>4, WordsLeft
    <2>5. intact => level <= n \/ Len(fifo') = 0
        BY <1>2, <2>4
    <2>6. ASSUME intact PROVE Aligned(fifo) /\ (mode = "fifo" => (half <=> n % 2 = 1) /\ Aging(fifo))
        BY <1>1, <2>6 DEF AlignInv, Clean
    <2>7. ASSUME intact PROVE Aligned(fifo') /\ (mode = "fifo" => Aging(fifo'))
        BY <1>2, <1>4, <2>5, <2>6, <2>7, SamplesLeft
    <2>8. ASSUME intact, mode = "fifo"
          PROVE  /\ level <= n /\ Len(fifo') = n - level /\ Samples(n) - gap >= h
                 /\ Samples(n - level) = Samples(n) - h /\ (n - level) % 2 = n % 2
        <3>1. level <= n /\ Samples(n) - gap >= h
            BY <1>1, <2>8 DEF LevelInv
        <3>2. Samples(n - 2 * h) = Samples(n) - h /\ (n - 2 * h) % 2 = n % 2
            BY <1>2, <3>1, SamplesLess
        <3> QED
            BY <1>2, <2>4, <3>1, <3>2
    <2>9. AlignInv'
        <3> SUFFICES ASSUME intact PROVE AlignInv'
            BY <1>4 DEF AlignInv, Clean
        <3>1. mode = "fifo" => (half <=> Len(fifo') % 2 = 1)
            BY <2>6, <2>8
        <3> QED
            BY <1>1, <2>7, <3>1 DEF AlignInv
    <2>10. DateInv'
        <3> SUFFICES ASSUME intact, mode = "fifo", ~LeftBehind(level, sinceRead) PROVE DateInv'
            BY <1>1, <1>4 DEF DateInv
        <3>1. Samples(n - level) <= sinceRead + 2 /\ Samples(n - level) \in Int /\ Samples(n) \in Nat
            <4>1. n - level \in Nat
                BY <1>2, <2>8
            <4>2. Samples(n - level) \in Nat /\ Samples(n) \in Nat
                BY <1>2, <4>1, SamplesOf
            <4>3. ~(Samples(n - level) > sinceRead + 2)
                BY DEF LeftBehind, Samples
            <4> QED
                BY <1>2, <4>2, <4>3
        <3>2. Samples(n - level) - sinceRead \in 0..2
            BY <1>2, <2>8, <3>1
        <3> QED
            BY <1>1, <1>4, <2>8, <3>2 DEF DateInv
    <2>11. MovedInv'
        BY <1>1, <1>4 DEF MovedInv
    <2> QED
        BY <2>2, <2>3, <2>9, <2>10, <2>11
<1>5. CASE /\ Erred /\ (\E m \in 0..level : fifo' = Rest(m))
           /\ intact' = FALSE /\ moved' = TRUE /\ UNCHANGED out
    <2>1. PICK m \in 0..level : fifo' = Rest(m)
        BY <1>5
    <2>2. m \in Nat
        BY <1>2
    <2>3. imuTask' \in {"wait", "reset"} /\ level' = 0 /\ span' = 0 /\ gap' = 0
        BY <1>5, ErredEnds
    <2>4. ImuType' /\ FifoInv' /\ LevelInv'
        BY <1>3, <2>1, <2>2, <2>3
    <2>5. AlignInv'
        BY <1>5, <2>3 DEF AlignInv, Clean
    <2>6. DateInv'
        BY <1>5 DEF DateInv
    <2>7. MovedInv'
        BY <1>5, <2>3 DEF MovedInv, Active, Reading
    <2> QED
        BY <1>5, <2>4, <2>5, <2>6, <2>7, PairsKept
<1> QED
    BY <1>4, <1>5 DEF ReadData, BatchDone

(* A published pair holds the accelerometer and the gyroscope word of one   *)
(* sample, or of neighbours once a read broke off, and is dated within a    *)
(* period of its sample but for what is rounded off, unless the FIFO got    *)
(* full or words were left behind: for every size of the FIFO, however late *)
(* the executor serves the task between the two registers of the level and  *)
(* the data, and however often the sensor is reset (imu.rs read_batch).     *)
THEOREM PairsAreRight == ImuSpec => []PairsRight
<1>1. ASSUME ImuInv, [ImuNext]_imuVars PROVE ImuInv'
    <2>1. CASE UNCHANGED imuVars
        <3>1. UNCHANGED <<imuTask, mode, fifo, half, sinceRead, level, span, gap, intact, moved, out>>
            BY <2>1 DEF imuVars, task_, chip, batch
        <3>2. ImuType' /\ FifoInv'
            BY <1>1, <3>1 DEF ImuInv, ImuType, FifoInv
        <3>3. AlignInv' /\ LevelInv'
            BY <1>1, <3>1 DEF ImuInv, AlignInv, Clean, LevelInv
        <3>4. DateInv' /\ MovedInv' /\ PairsRight'
            BY <1>1, <3>1 DEF ImuInv, DateInv, MovedInv, PairsRight
        <3> QED
            BY <3>2, <3>3, <3>4 DEF ImuInv
    <2> QED
        BY <1>1, <2>1, PeriodStep, GyroStep, OtherSteps, ConfigureStep, LevelLowStep, LevelHighStep,
           ReadDataStep DEF ImuNext, ImuTask
<1> QED
    BY <1>1, InitImu, PTL DEF ImuSpec, ImuInv
=============================================================================
