----------------------------- MODULE TestBoard -----------------------------
(***************************************************************************)
(* The test board: its log sessions on a littlefs flash, the file system   *)
(* worker that serves one request at a time, the logging task that appends *)
(* to the session of this boot, and the ways the board restarts.  The host *)
(* tool that sends the requests is AsteriaTool.                            *)
(*                                                                         *)
(* A path is <<>> (the root), <<i>> (the directory /log_i) or <<i, f>> (a  *)
(* file in it); the contents of a file are rows that name their boot.  The *)
(* tool never sends an expected epoch, so the epoch check always passes    *)
(* and the epoch is left out.                                              *)
(***************************************************************************)
EXTENDS Integers, SequencesExt, FiniteSetsExt

CONSTANTS
    PanicResets,  \* the build's panic handler resets the board: one without the feature defmt
    MaxIndex,     \* u32::MAX, the highest index of a session
    PageCap,      \* FS_DIR_PAGE_CAP, entries in one page of a listing
    Chunk,        \* FS_MAX_CHUNK, rows in one answer
    MaxRows,      \* bounds: rows logged, and faults (power cuts, failures, time-outs, ^C)
    MaxFaults

ASSUME BoardAssumption ==
    /\ PanicResets \in BOOLEAN
    /\ {MaxIndex, MaxRows, MaxFaults} \subseteq Nat
    /\ {PageCap, Chunk} \subseteq Nat \ {0}

None == [op |-> "none"]
BuildInfo == 1
Defmt == 2

VARIABLES
    disk,       \* path -> contents; a directory has none
    flash,      \* good, or blank: erased, to be formatted
    bootStage,  \* of this boot: mount, format, session, create, up, hung
    mounted,    \* FS_STATE is Some
    session,    \* index of the session of this boot; -1 if it has none
    call,       \* the request the RPC server works on
    answer,     \* its answer, on its way to the tool
    restarting, \* a restart was asked for: REBOOT_SIGNAL
    panicking,  \* a panic was asked for: PANIC_REQ_CH
    link,       \* of the tool: none, live, dead (the board has restarted)
    boot, logged, faults

boardVars == <<disk, flash, bootStage, mounted, session, call, answer, restarting, panicking, link,
               boot, logged, faults>>

Fault == faults < MaxFaults /\ faults' = faults + 1

-----------------------------------------------------------------------------
(* The file system                                                         *)

Below(p, q) == IsPrefix(p, q)      \* q is p or in p
IsDir(p) == p = <<>> \/ (Len(p) = 1 /\ p \in DOMAIN disk)
IsFile(p) == Len(p) = 2 /\ p \in DOMAIN disk
Children(p) == {q \in DOMAIN disk : Len(q) = Len(p) + 1 /\ Below(p, q)}
\* The names of its children, in their order.
Entries(p) ==
    LET names == {q[Len(q)] : q \in Children(p)}
    IN  CHOOSE s \in [1..Cardinality(names) -> names] :
            \A i, j \in DOMAIN s : i < j => s[i] < s[j]
Without(d, paths) == [p \in DOMAIN d \ paths |-> d[p]]
With(d, p, rows) == [q \in DOMAIN d \union {p} |-> IF q = p THEN rows ELSE d[q]]

Answer(err) == [err |-> err, kind |-> "none", size |-> 0, data |-> <<>>, next |-> 0]
Ok == Answer("Ok")

\* One page from the cursor on; the next cursor is 0 when the page reaches the end.
HandleListDir(q) ==
    LET all  == Entries(q.path)
        page == SubSeq(all, q.at + 1, Min({q.at + PageCap, Len(all)}))
    IN  CASE IsDir(q.path) -> [Ok EXCEPT !.data = page,
                                 !.next = IF Len(all) > q.at + Len(page) THEN q.at + Len(page) ELSE 0]
          [] IsFile(q.path) -> Answer("NotDir")
          [] OTHER -> Answer("NotFound")

HandleStat(q) ==
    CASE IsDir(q.path) -> [Ok EXCEPT !.kind = "Dir"]
      [] IsFile(q.path) -> [Ok EXCEPT !.kind = "File", !.size = Len(disk[q.path])]
      [] OTHER -> Answer("NotFound")

HandleReadFile(q) ==
    CASE IsDir(q.path) -> Answer("IsDir")
      [] ~IsDir(q.path) /\ ~IsFile(q.path) -> Answer("NotFound")
      [] IsFile(q.path) /\ q.at > Len(disk[q.path]) -> Answer("OffsetOutOfRange")
      [] OTHER -> [Ok EXCEPT !.data = SubSeq(disk[q.path], q.at + 1,
                                             Min({q.at + q.len, Len(disk[q.path])}))]

HandleRemove(q) ==
    CASE q.path = <<>> \/ (IsDir(q.path) /\ Children(q.path) # {}) -> Answer("Busy")
      [] q.path \notin DOMAIN disk -> Answer("NotFound")
      [] OTHER -> Ok

-----------------------------------------------------------------------------
(* Boot: check the flash, format one that cannot be mounted, and start the *)
(* next session                                                            *)

\* Mutant: the highest index is taken again.
SelectLastIndex(d) ==
    IF d = <<>> THEN 0 ELSE Max({p[1] : p \in DOMAIN d})

SelectNextIndex(d) ==
    IF d = <<>> THEN 0 ELSE Min({MaxIndex, 1 + Max({p[1] : p \in DOMAIN d})})

\* What is there of the session to come: only the highest index is ever taken again.
Reused == {p \in DOMAIN disk : Below(<<SelectNextIndex(disk)>>, p)}

\* init_filesystem: a flash that is_mountable refuses is formatted, be it blank or only not read.
MountFilesystem ==
    /\ bootStage = "mount"
    /\ \/ flash = "good" /\ bootStage' = "session" /\ UNCHANGED faults
       \/ flash = "blank" /\ bootStage' = "format" /\ UNCHANGED faults
       \/ flash = "good" /\ bootStage' = "format" /\ Fault
    /\ UNCHANGED <<disk, flash, mounted, session, call, answer, restarting, panicking, link, boot, logged>>

FormatFilesystem ==
    /\ bootStage = "format" /\ bootStage' = "session"
    /\ disk' = <<>> /\ flash' = "good"
    /\ UNCHANGED <<mounted, session, call, answer, restarting, panicking, link, boot, logged, faults>>

\* The first half of prepare_log_session: an existing directory is cleared.
PrepareSession ==
    /\ bootStage = "session" /\ bootStage' = "create"
    /\ session' = SelectNextIndex(disk)
    /\ disk' = With(Without(disk, Reused), <<session'>>, <<>>)
    /\ UNCHANGED <<flash, mounted, call, answer, restarting, panicking, link, boot, logged, faults>>

\* The two files of the session; from now on the file system is there for the tasks.
Info == <<[boot |-> boot, n |-> 0]>>
CreateSessionFiles ==
    /\ bootStage = "create"
    /\ disk' = With(With(disk, <<session, Defmt>>, <<>>), <<session, BuildInfo>>, Info)
    /\ bootStage' = "up" /\ mounted' = TRUE
    /\ UNCHANGED <<flash, session, call, answer, restarting, panicking, link, boot, logged, faults>>

Wiped == flash' = "blank" /\ disk' = <<>>
Unwiped == UNCHANGED <<flash, disk>>

\* handle_erase_storage takes the file system out of FS_STATE and erases the chip for minutes.
Erasing == call.op = "erase" /\ call.begun

\* What is on the flash when a step of the boot, or an erase, fails or is cut short.
HalfDone ==
    CASE bootStage = "format" -> Wiped \/ Unwiped
      [] bootStage = "session" ->
           /\ \E s \in SUBSET Reused :
                 /\ <<SelectNextIndex(disk)>> \in s => s = Reused
                 /\ disk' = Without(disk, s)
           /\ UNCHANGED flash
      [] bootStage = "create" ->
           /\ LET log == With(disk, <<session, Defmt>>, <<>>)
              IN  disk' \in {disk, log} \union {With(log, <<session, BuildInfo>>, i) : i \in {<<>>, Info}}
           /\ UNCHANGED flash
      [] OTHER -> (Erasing /\ Wiped) \/ Unwiped

\* Formatting, mounting or a write fails: the board runs without storage.
RunDegraded ==
    /\ bootStage \in {"format", "session", "create"} /\ Fault
    /\ HalfDone
    /\ bootStage' = "up" /\ session' = -1
    /\ UNCHANGED <<mounted, call, answer, restarting, panicking, link, boot, logged>>

\* logging_task: one grant appended to defmt.bin, which is created if it is missing.  Without the
\* directory, or without a file system, the rows are dropped.
AppendToFile ==
    /\ mounted /\ <<session>> \in DOMAIN disk /\ logged < MaxRows
    /\ logged' = logged + 1
    /\ LET file == <<session, Defmt>>
           old  == IF IsFile(file) THEN disk[file] ELSE <<>>
       IN  disk' = With(disk, file, Append(old, [boot |-> boot, n |-> logged']))
    /\ UNCHANGED <<flash, bootStage, mounted, session, call, answer, restarting, panicking, link, boot, faults>>

-----------------------------------------------------------------------------
(* Requests                                                                *)

\* The answer goes to the tool unless it has dropped the connection or given up meanwhile.
Reply(a) == call' = None /\ answer' = IF call.heard THEN a ELSE None

\* with_fs_req: without a file system every request but the information fails.
ServeRead ==
    /\ bootStage = "up" /\ call.op \in {"list", "stat", "read"}
    /\ Reply(IF ~mounted THEN Answer("Io")
             ELSE CASE call.op = "list" -> HandleListDir(call)
                    [] call.op = "stat" -> HandleStat(call)
                    [] call.op = "read" -> HandleReadFile(call))
    /\ UNCHANGED <<disk, flash, bootStage, mounted, session, restarting, panicking, link, boot, logged, faults>>

ServeRemove ==
    /\ bootStage = "up" /\ call.op = "remove"
    /\ LET a == IF mounted THEN HandleRemove(call) ELSE Answer("Io")
       IN  /\ Reply(a)
           /\ disk' = IF a.err = "Ok" THEN Without(disk, {call.path}) ELSE disk
    /\ UNCHANGED <<flash, bootStage, mounted, session, restarting, panicking, link, boot, logged, faults>>

\* From here on Erasing.
BeginErase ==
    /\ bootStage = "up" /\ call.op = "erase" /\ ~call.begun
    /\ IF mounted
         THEN mounted' = FALSE /\ call' = [call EXCEPT !.begun = TRUE] /\ UNCHANGED answer
         ELSE Reply(Answer("Io")) /\ UNCHANGED mounted
    /\ UNCHANGED <<disk, flash, bootStage, session, restarting, panicking, link, boot, logged, faults>>

\* Erased: fs_erase_storage_handler asks for a restart.  A failure leaves the board without storage.
EndErase ==
    /\ Erasing
    /\ \/ Wiped /\ Reply(Ok) /\ restarting' = TRUE /\ UNCHANGED faults
       \/ (Wiped \/ Unwiped) /\ Reply(Answer("Io")) /\ Fault /\ UNCHANGED restarting
    /\ UNCHANGED <<bootStage, mounted, session, panicking, link, boot, logged>>

\* reset_handler, panic_handler: acknowledged at once, carried out after a delay.
ServeRestart ==
    /\ bootStage = "up" /\ call.op \in {"reset", "panic"}
    /\ Reply(Ok)
    /\ IF call.op = "reset" THEN restarting' = TRUE /\ UNCHANGED panicking
                            ELSE panicking' = TRUE /\ UNCHANGED restarting
    /\ UNCHANGED <<disk, flash, bootStage, mounted, session, link, boot, logged, faults>>

-----------------------------------------------------------------------------
(* The end of a boot                                                       *)

\* No task runs on, and whatever was under way stays half done.
Stopped ==
    /\ HalfDone
    /\ mounted' = FALSE /\ call' = None /\ answer' = None
    /\ restarting' = FALSE /\ panicking' = FALSE
    /\ UNCHANGED logged

Restarted ==
    /\ Stopped
    /\ bootStage' = "mount" /\ session' = -1
    /\ link' = IF link = "live" THEN "dead" ELSE link
    /\ boot' = boot + 1

\* panic_probe ends in the exception for hard faults, which loops with interrupts off: the host
\* still sees the device, but nothing answers until the power is cut.
Hung == Stopped /\ bootStage' = "hung" /\ UNCHANGED <<session, link, boot>>

\* reboot_task and panic_task, after a delay that lets the answer out.
RestartBoard == restarting /\ answer = None /\ Restarted /\ UNCHANGED faults
PanicBoard ==
    /\ panicking /\ answer = None
    /\ IF PanicResets THEN Restarted ELSE Hung
    /\ UNCHANGED faults

PowerFails == Fault /\ Restarted

-----------------------------------------------------------------------------
BoardInit ==
    /\ disk = <<>> /\ flash = "blank" /\ bootStage = "mount" /\ mounted = FALSE /\ session = -1
    /\ call = None /\ answer = None /\ restarting = FALSE /\ panicking = FALSE /\ link = "none"
    /\ boot = 0 /\ logged = 0 /\ faults = 0

BoardWorks ==
    \/ MountFilesystem \/ FormatFilesystem \/ PrepareSession \/ CreateSessionFiles
    \/ ServeRead \/ ServeRemove \/ BeginErase \/ EndErase \/ ServeRestart
    \/ RestartBoard \/ PanicBoard

BoardNext == BoardWorks \/ RunDegraded \/ AppendToFile \/ PowerFails

-----------------------------------------------------------------------------
Rows(d) == UNION {ToSet(d[p]) : p \in DOMAIN d}

(* A row that has reached the flash is lost only to a removal, to an erase  *)
(* or to the format of a flash that this boot could not mount: not to a     *)
(* restart at any moment, a session that is set up half and left so, a boot *)
(* that goes on without storage, or a later session, as long as indices are *)
(* left (select_next_log_index stays at the highest one, whose directory is *)
(* cleared).                                                                *)
RowsAreKept ==
    [][\/ Rows(disk) \subseteq Rows(disk')
       \/ call.op \in {"remove", "erase"}
       \/ bootStage = "format"
       \/ <<MaxIndex>> \in DOMAIN disk /\ bootStage = "session"]_boardVars
=============================================================================
