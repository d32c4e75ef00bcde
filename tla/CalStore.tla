------------------------------ MODULE CalStore ------------------------------
(***************************************************************************)
(* The calibrations of sensor carrier v3: the console stores, clears and   *)
(* erases them (tasks/console), storage.rs keeps them in a key/value map,  *)
(* resources/flash.rs drives the NOR flash, calibration::load reads them   *)
(* once at boot.  The map is the crate sequential-storage (external): a    *)
(* log over a ring of sectors, the one after the newest kept empty; the    *)
(* newest whole record of a key is its value.  The chip works on while the *)
(* MCU polls it or restarts, and takes no command until it is done.        *)
(***************************************************************************)
EXTENDS Naturals, Sequences

CONSTANTS
    Keys,         \* sensors with a calibration
    Sectors,      \* CONFIG_LEN / SECTOR_SIZE
    SectorLen,    \* records a sector holds
    PageSize,     \* PAGE_SIZE
    ItemLen,      \* bytes of a record
    MaxCommands,  \* bound on the console's commands and resets
    MaxUpsets     \* bound on power losses, restarts and transfers that fail

ASSUME StoreAssumption ==
    Sectors \in Nat \ {0, 1} /\ SectorLen \in Nat /\ {PageSize, ItemLen} \subseteq Nat \ {0}

Default == "default"
Invalid == "invalid"                     \* decodes, but is_valid rejects it
Values == {"old", "new", Invalid}
Sector == 0..(Sectors - 1)

VARIABLES
    data,      \* what each sector holds, oldest first: [key, val, state]
    open,      \* the sector that takes records
    chip,      \* the program or erase the chip is busy with
    pc, then,  \* where the command, or the boot, is, and where it goes from wait_idle
    cmd,       \* the command: [op, key, val]
    item,      \* the record being programmed
    rest,      \* its bytes still to program, or the sector to erase next
    applied,   \* Calibrations::applied
    promised,  \* what the next boot may apply to each key (history)
    atBoot,    \* promised, when the board booted (history)
    misread,   \* a busy chip's status read failed and passed for idle (history)
    blind,     \* this boot read the map while the chip was busy, or a read failed (history)
    commands, upsets

flash == <<data, open, chip>>
console == <<pc, then, cmd, item, rest>>
boot == <<applied, atBoot, blind>>
storeVars == <<flash, console, boot, promised, misread, commands, upsets>>

Record(k, v, st) == [key |-> k, val |-> v, state |-> st]
None == Record("none", Default, "dead")
Command(op, k, v) == [op |-> op, key |-> k, val |-> v]
Idle == [op |-> "idle"]
Busy == chip # Idle
Upset == upsets < MaxUpsets /\ upsets' = upsets + 1

-----------------------------------------------------------------------------
(* The map (external): where the value of a key is                         *)

After(s) == (s + 1) % Sectors
Age(s) == (open + Sectors - s) % Sectors         \* 0 is the newest sector
Slot == Sector \X (1..SectorLen)
At(p) == data[p[1]][p[2]]

WholeOf(k) == {p \in Slot : p[2] <= Len(data[p[1]]) /\ At(p).key = k /\ At(p).state = "whole"}
Newer(p, q) == Age(p[1]) < Age(q[1]) \/ (p[1] = q[1] /\ p[2] > q[2])
Newest(k) == {p \in WholeOf(k) : \A q \in WholeOf(k) \ {p} : Newer(p, q)}
Oldest(k) == {p \in WholeOf(k) : \A q \in WholeOf(k) \ {p} : Newer(q, p)}
Live(s) == {p \in UNION {Newest(k) : k \in Keys} : p[1] = s}

(* Calibrations::stored: a record that is not there or not valid is None.  *)
Fetch(k) == {At(p).val : p \in Newest(k)}
Stored(k) == IF Fetch(k) \subseteq {Invalid} THEN Default ELSE CHOOSE v \in Fetch(k) : TRUE

-----------------------------------------------------------------------------
(* The chip (external)                                                     *)

Append1(s, r) == [data EXCEPT ![s] = Append(@, r)]
LastTorn(s) == data[s] # <<>> /\ data[s][Len(data[s])].state = "torn"
Become(p, st) == [data EXCEPT ![p[1]][p[2]].state = st]

Effect(c) ==
    CASE c.op = "erase" -> [data EXCEPT ![c.sector] = <<>>]
      [] c.op = "kill" -> Become(c.at, "dead")
      [] c.op = "program" /\ c.first ->
            Append1(open, Record(c.key, c.val, IF c.last THEN "whole" ELSE "torn"))
      [] c.op = "program" /\ ~c.first ->
            IF c.last /\ LastTorn(open) THEN Become(<<open, Len(data[open])>>, "whole") ELSE data

ChipDone ==
    /\ Busy
    /\ data' = Effect(chip)
    /\ chip' = Idle
    /\ UNCHANGED <<open, console, boot, promised, misread, commands, upsets>>

\* A command reaches the chip, which ignores it while it is busy.
Issue(c) == chip' = IF Busy THEN chip ELSE c

\* The transfer of a command fails: the command of the console fails with it.
TransferFails ==
    /\ pc \in {"program", "kill", "erase", "erase all"}
    /\ Upset
    /\ pc' = "idle"
    /\ UNCHANGED <<flash, then, cmd, item, rest, boot, promised, misread, commands>>

-----------------------------------------------------------------------------
(* The console's commands                                                  *)

\* StoredCal::parse: every field at least once, nothing else, values in range.
Field == {"name", "latency_us", "correction"}
Parses(line, v) ==
    /\ \A i \in 1..Len(line) : line[i] \in Field
    /\ {line[i] : i \in 1..Len(line)} = Field
    /\ v # Invalid
Lines == UNION {[1..n -> Field \cup {"other"}] : n \in 0..3}

Start(op, k, v, at) ==
    /\ pc = "idle" /\ commands < MaxCommands
    /\ ~Busy                         \* a busy chip cannot be read: the command fails
    /\ commands' = commands + 1
    /\ cmd' = Command(op, k, v)
    /\ pc' = at /\ rest' = 0
    /\ UNCHANGED <<flash, then, item, boot, misread, upsets>>

CalSet ==
    \E k \in Keys, v \in Values, line \in Lines :
        /\ Parses(line, v)
        /\ Start("set", k, v, "place")
        /\ promised' = [promised EXCEPT ![k] = @ \cup {v}]

FlashClear ==
    \E k \in Keys :
        /\ Fetch(k) # {}
        /\ Start("clear", k, Default, "kill")
        /\ promised' = [promised EXCEPT ![k] = @ \cup {Default}]

\* Sectors are erased in order: an erase that is cut short may leave an older record.
FlashErase ==
    /\ Start("erase", "none", Default, "erase all")
    /\ promised' = [k \in Keys |->
                      promised[k] \cup {Default}
                        \cup ({At(p).val : p \in WholeOf(k)} \ {Invalid})]

-----------------------------------------------------------------------------
(* A command under way                                                     *)

\* store_item (external): move what is live out of the sector that must be empty, erase it, and
\* take the next sector when the open one is full.
Place ==
    LET next == After(open)
        room == Len(data[open]) < SectorLen
        move(r) == pc' = "program" /\ item' = r /\ rest' = ItemLen
    IN /\ pc = "place"
       /\ \/ /\ Live(next) # {} /\ room
             /\ \E p \in Live(next) : move(At(p))
             /\ UNCHANGED open
          \/ /\ Live(next) = {} /\ data[next] # <<>>
             /\ pc' = "erase" /\ UNCHANGED <<open, item, rest>>
          \/ /\ data[next] = <<>> /\ room
             /\ move(Record(cmd.key, cmd.val, "new")) /\ UNCHANGED open
          \/ /\ data[next] = <<>> /\ ~room
             /\ open' = next /\ UNCHANGED <<pc, item, rest>>
          \/ /\ Live(next) # {} /\ ~room                          \* FullStorage
             /\ pc' = "idle" /\ UNCHANGED <<open, item, rest>>
       /\ UNCHANGED <<data, chip, then, cmd, boot, promised, misread, commands, upsets>>

Wait(t) == pc' = "wait" /\ then' = t

\* write: a page program per page the record touches.
Program ==
    LET first == rest = ItemLen
        slot == IF first THEN Len(data[open]) ELSE Len(data[open]) - 1
        offset == (slot + 1) * ItemLen - rest
        left == PageSize - (offset % PageSize)
        n == IF left < rest THEN left ELSE rest
    IN /\ pc = "program"
       /\ Issue([op |-> "program", key |-> item.key, val |-> item.val,
                 first |-> first, last |-> n = rest])
       /\ rest' = rest - n
       /\ Wait(IF n < rest THEN "program" ELSE IF item.state = "new" THEN "answer" ELSE "place")
       /\ UNCHANGED <<data, open, cmd, item, boot, promised, misread, commands, upsets>>

EraseSector ==
    /\ pc = "erase"
    /\ Issue([op |-> "erase", sector |-> After(open)])
    /\ Wait("place")
    /\ UNCHANGED <<data, open, cmd, item, rest, boot, promised, misread, commands, upsets>>

EraseAll ==
    /\ pc = "erase all"
    /\ Issue([op |-> "erase", sector |-> rest])
    /\ rest' = rest + 1
    /\ Wait(IF rest + 1 < Sectors THEN "erase all" ELSE "answer")
    /\ UNCHANGED <<data, open, cmd, item, boot, promised, misread, commands, upsets>>

\* remove_item (external) flips a flag in every record of the key, the oldest first.
Kill ==
    /\ pc = "kill"
    /\ \E p \in Oldest(cmd.key) :
          /\ Issue([op |-> "kill", at |-> p])
          /\ Wait(IF WholeOf(cmd.key) = {p} THEN "answer" ELSE "kill")
    /\ UNCHANGED <<data, open, cmd, item, rest, boot, promised, misread, commands, upsets>>

Answered ==
    CASE cmd.op = "erase" -> [k \in Keys |-> {Default}]
      [] OTHER -> [promised EXCEPT ![cmd.key] = {cmd.val}]

GoOn ==
    /\ pc' = IF then = "answer" THEN "idle" ELSE then
    /\ promised' = IF then = "answer" THEN Answered ELSE promised
    /\ open' = IF then = "answer" /\ cmd.op = "erase" THEN 0 ELSE open
    /\ UNCHANGED <<data, chip, then, cmd, item, rest, boot, commands>>

\* Mutant: the driver does not wait.
WaitIdleNot == pc = "wait" /\ GoOn /\ UNCHANGED <<misread, upsets>>

WaitIdle == pc = "wait" /\ ~Busy /\ GoOn /\ UNCHANGED <<misread, upsets>>

\* read_status ignores the error and returns 0: not busy.
StatusMisread == pc = "wait" /\ Busy /\ GoOn /\ Upset /\ misread' = TRUE

-----------------------------------------------------------------------------
(* Boot                                                                    *)

Restarted ==
    /\ pc' = "boot" /\ then' = "boot" /\ cmd' = Command("none", "none", Default) /\ item' = None
    /\ rest' = 0
    /\ atBoot' = promised /\ blind' = FALSE /\ applied' = [k \in Keys |-> Default]
    /\ UNCHANGED <<open, promised, misread>>

\* The console's reset; a restart of the MCU alone, during a command or not; a loss of power.
Reset ==
    /\ pc = "idle" /\ commands < MaxCommands /\ commands' = commands + 1
    /\ Restarted /\ UNCHANGED <<data, chip, upsets>>
McuRestarts ==
    /\ pc # "boot" /\ Upset
    /\ Restarted /\ UNCHANGED <<data, chip, commands>>
PowerLoss ==
    /\ pc # "boot" /\ Upset
    /\ Restarted
    /\ chip' = Idle
    /\ \/ UNCHANGED data
       \/ Busy /\ data' = Effect(chip)
       \/ Busy /\ chip.op = "program" /\ chip.first
          /\ data' = Append1(open, Record(chip.key, chip.val, "torn"))
    /\ UNCHANGED commands

\* calibration::load: what cannot be read is left at the default.
Load ==
    /\ pc = "boot"
    /\ \E lost \in SUBSET Keys :
          /\ \/ lost = {} /\ ~Busy /\ UNCHANGED upsets
             \/ lost # {} /\ Busy /\ UNCHANGED upsets
             \/ lost # {} /\ ~Busy /\ Upset
          /\ blind' = (lost # {})
          /\ applied' = [k \in Keys |-> IF k \in lost THEN Default ELSE Stored(k)]
          /\ promised' = [k \in Keys |-> IF k \in lost \/ Busy THEN promised[k] ELSE {Stored(k)}]
    /\ pc' = "idle"
    /\ UNCHANGED <<flash, then, cmd, item, rest, atBoot, misread, commands>>

-----------------------------------------------------------------------------
\* A board that was used before: a full sector, a value stored by other firmware among them, and
\* one that has begun to fill.
StoreInit ==
    /\ \E a, b \in Keys, v \in {"old", Invalid} :
          data = [s \in Sector |->
                     CASE s = 0 -> <<Record(a, "old", "whole"), Record(b, v, "whole")>>
                       [] s = 1 -> <<Record(a, "new", "whole")>>
                       [] OTHER -> <<>>]
    /\ open = 1 /\ chip = Idle
    /\ pc = "boot" /\ then = "boot" /\ cmd = Command("none", "none", Default) /\ item = None
    /\ rest = 0
    /\ applied = [k \in Keys |-> Default]
    /\ promised = [k \in Keys |-> {Stored(k)}] /\ atBoot = promised
    /\ misread = FALSE /\ blind = FALSE /\ commands = 0 /\ upsets = 0

StoreNext ==
    \/ ChipDone \/ TransferFails
    \/ CalSet \/ FlashClear \/ FlashErase
    \/ Place \/ Program \/ EraseSector \/ EraseAll \/ Kill \/ WaitIdle \/ StatusMisread
    \/ Reset \/ McuRestarts \/ PowerLoss \/ Load

StoreSpec == StoreInit /\ [][StoreNext]_storeVars

-----------------------------------------------------------------------------
(* A boot applies to every sensor what the console last said is stored,    *)
(* cleared or erased, or what a command that was cut short would have      *)
(* made of it, whatever was moved and erased on the way ("stored; reset to *)
(* apply").  It does not when a failed status read passed for idle, or     *)
(* when the boot itself could not read: a read failed, or the chip was     *)
(* still at work for the command the restart cut short.                    *)
AppliedIsStored ==
    pc # "boot" /\ ~misread /\ ~blind => \A k \in Keys : applied[k] \in atBoot[k]
=============================================================================
