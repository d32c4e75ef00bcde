----------------------------- MODULE CanInputs ------------------------------
(***************************************************************************)
(* How a frame on the CAN bus reaches the Watch a task reads: the filter   *)
(* bank that setup_can builds from the ids a board supports, the receive   *)
(* FIFO (external), recv and its errors, the receive loop of main, and the *)
(* match that the Collector macro generates, direct fields before          *)
(* flattened ones.                                                         *)
(***************************************************************************)
EXTENDS Integers, Sequences, SequencesExt

CONSTANTS
    Ids,          \* standard ids on the bus
    SupportedIds, \* CanDecode::SUPPORTED_IDS of the board, in order
    FilterCount,  \* slots of the filter bank
    ResetIds,     \* of them, ResetAll and ResetSpecific
    Struct,       \* the fields of the collector: [name, ids, flatten], in order
    Nested,       \* the fields of a flattened one
    FifoLen,      \* receive FIFO of the controller
    MaxFrames     \* bound on the frames

ASSUME CanAssumption ==
    /\ SupportedIds \in Seq(Ids) /\ Len(SupportedIds) < FilterCount
    /\ FilterCount \in Nat /\ Ids \cap {"reject", "off"} = {}

\* The resets are taken before the collector.  The macro refuses a flattened field with a pattern,
\* and every field has its name.
Fields == [name : STRING, ids : SUBSET (Ids \ ResetIds), flatten : BOOLEAN]
ASSUME CollectorAssumption ==
    /\ Struct \in Seq(Fields) /\ Nested \in Seq(Fields)
    /\ \A i \in 1..Len(Struct) : Struct[i].flatten => Struct[i].ids = {}
    /\ \A i \in 1..Len(Nested) : ~Nested[i].flatten /\ \E j \in 1..Len(Struct) : Struct[j].flatten
    /\ \A i, j \in 1..Len(Struct) : Struct[i].name = Struct[j].name => i = j
    /\ \A i, j \in 1..Len(Nested) : Nested[i].name = Nested[j].name => i = j
    /\ \A i \in 1..Len(Struct), j \in 1..Len(Nested) : Struct[i].name # Nested[j].name

Values == {"a", "b"}
Names == {Struct[i].name : i \in 1..Len(Struct)} \cup {Nested[i].name : i \in 1..Len(Nested)}

VARIABLES
    filters,  \* the bank: ids that are stored, "reject", or "off"
    fifo,     \* frames: [id, val, form]
    loop,     \* the receive loop: boot, recv, sleep
    input,    \* the Watch of each field
    led,      \* the yellow LED: the last receive failed
    latest,   \* the last good frame per id since the board started, none if lost (history)
    frames

canVars == <<filters, fifo, loop, input, led, latest, frames>>

-----------------------------------------------------------------------------
\* setup_can: one slot per id, then one that rejects, which ends the search; the rest is off.
Bank ==
    [i \in 1..FilterCount |->
        IF i <= Len(SupportedIds) THEN SupportedIds[i]
        ELSE IF i = Len(SupportedIds) + 1 THEN "reject" ELSE "off"]
Passes(id) ==
    \E i \in 1..FilterCount : filters[i] = id /\ \A j \in 1..(i - 1) : filters[j] # "reject"

Boot ==
    /\ loop = "boot"
    /\ filters' = Bank /\ loop' = "recv"
    /\ UNCHANGED <<fifo, input, led, latest, frames>>

\* A frame on the bus.  What comes while the FIFO is full is lost.  A damaged one has a payload
\* that does not decode.
BusFrame ==
    /\ frames < MaxFrames /\ loop # "boot"
    /\ frames' = frames + 1
    /\ \E id \in Ids, v \in Values, form \in {"good", "damaged"} :
          LET kept == Passes(id) /\ Len(fifo) < FifoLen
          IN /\ fifo' = IF kept THEN Append(fifo, [id |-> id, val |-> v, form |-> form]) ELSE fifo
             /\ latest' = IF kept /\ form = "good" THEN [latest EXCEPT ![id] = v] ELSE latest
    /\ UNCHANGED <<filters, loop, input, led>>

-----------------------------------------------------------------------------
\* The first direct field whose pattern matches.
Direct(s, id) ==
    {s[i].name : i \in {i \in 1..Len(s) :
        /\ ~s[i].flatten /\ id \in s[i].ids
        /\ \A j \in 1..(i - 1) : ~s[j].flatten => id \notin s[j].ids}}

\* Mutant: a flattened collector is asked where its field stands.
UpdateFromInOrder(id) ==
    LET f == SelectInSeq(Struct, LAMBDA e : e.flatten)
        before == IF f = 0 THEN Struct ELSE SubSeq(Struct, 1, f)
    IN IF Direct(before, id) # {} THEN Direct(before, id)
       ELSE IF f # 0 /\ Direct(Nested, id) # {} THEN Direct(Nested, id)
       ELSE Direct(Struct, id)

\* update_from: the field that takes a frame, none if no pattern matches.
UpdateFrom(id) ==
    IF Direct(Struct, id) # {} THEN Direct(Struct, id)
    ELSE IF \E i \in 1..Len(Struct) : Struct[i].flatten THEN Direct(Nested, id) ELSE {}

Restart ==
    /\ loop' = "boot" /\ fifo' = <<>> /\ led' = FALSE
    /\ input' = [n \in Names |-> "none"] /\ latest' = [id \in Ids |-> "none"]

\* recv returned a message.
ReceiveOk ==
    /\ loop = "recv" /\ fifo # <<>> /\ Head(fifo).form = "good"
    /\ IF Head(fifo).id \in ResetIds
          THEN \/ Restart
               \/ fifo' = Tail(fifo) /\ led' = FALSE /\ UNCHANGED <<loop, input, latest>>
          ELSE /\ fifo' = Tail(fifo) /\ led' = FALSE
               /\ input' = [n \in Names |-> IF n \in UpdateFrom(Head(fifo).id)
                                               THEN Head(fifo).val ELSE input[n]]
               /\ UNCHANGED <<loop, latest>>
    /\ UNCHANGED <<filters, frames>>

\* RxError::Decode, or RxError::Bus, which takes no frame: LED on, 10 ms of sleep.
ReceiveErr ==
    /\ loop = "recv"
    /\ \/ fifo # <<>> /\ Head(fifo).form = "damaged" /\ fifo' = Tail(fifo)
       \/ UNCHANGED fifo
    /\ led' = TRUE /\ loop' = "sleep"
    /\ UNCHANGED <<filters, input, latest, frames>>

Wake ==
    /\ loop = "sleep"
    /\ loop' = "recv"
    /\ UNCHANGED <<filters, fifo, input, led, latest, frames>>

-----------------------------------------------------------------------------
CanInit ==
    /\ filters = [i \in 1..FilterCount |-> "off"] /\ fifo = <<>> /\ loop = "boot"
    /\ input = [n \in Names |-> "none"] /\ led = FALSE
    /\ latest = [id \in Ids |-> "none"] /\ frames = 0

CanNext == Boot \/ BusFrame \/ ReceiveOk \/ ReceiveErr \/ Wake

CanSpec == CanInit /\ [][CanNext]_canVars

-----------------------------------------------------------------------------
(* When the FIFO is drained, every field with an id to itself, or that no  *)
(* field of the outer collector claims, holds the last good frame of that  *)
(* id, whatever was filtered, damaged, delayed by an error or lost to a    *)
(* full FIFO around it, and an id the board does not support never got     *)
(* through (setup_can, recv, update_from).                                 *)
Owner(n, id) ==
    LET taking(s) == {i \in 1..Len(s) : id \in s[i].ids}
        own(s) == \E i \in taking(s) : taking(s) = {i} /\ s[i].name = n /\ s[i].ids = {id}
    IN own(Struct) \/ (taking(Struct) = {} /\ own(Nested))
InputsFollowBus ==
    /\ fifo = <<>> =>
          \A n \in Names, id \in Ids : Owner(n, id) => input[n] = latest[id]
    /\ \A id \in Ids : latest[id] # "none" => \E i \in 1..Len(SupportedIds) : SupportedIds[i] = id
=============================================================================
