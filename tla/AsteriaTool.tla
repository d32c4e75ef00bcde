---------------------------- MODULE AsteriaTool ----------------------------
(***************************************************************************)
(* The shell of the host tool: a command is a stack of steps, each step    *)
(* one or more requests to the board (TestBoard); a command that loses the *)
(* board is started over after the next connection, whatever it had        *)
(* already done.  Commands that only show what they read (ls, du, cat, cd, *)
(* info) send the requests that pull and rm send, and change nothing.      *)
(***************************************************************************)
EXTENDS TestBoard

CONSTANT MaxCommands    \* bound

VARIABLES
    mode,      \* connect, idle, run, lost (connect and start over), reboot (connect and go on)
    cmd,       \* the command of the user: [op, path]
    todo,      \* its steps still to do, the next first
    waiting,   \* a request has been sent and not been answered
    local,     \* the files pulled to this computer: name -> contents
    pulled,    \* the names the command has pulled whole
    failures,  \* what pull -r could not copy
    gone,      \* the path last reported as removed, and the boot it was on (history)
    commands

toolVars == <<mode, cmd, todo, waiting, local, pulled, failures, gone, commands>>
hostVars == <<boardVars, toolVars>>

Step(do, path) == [do |-> do, path |-> path, at |-> 0, found |-> <<>>]

\* How a command begins: pull of one file, pull -r, rm -r, and those without a path.
Start(c) ==
    CASE c.op = "pull" /\ Len(c.path) = 2 -> <<Step("size", c.path)>>
      [] c.op = "pull" /\ Len(c.path) # 2 -> <<Step("root", c.path)>>
      [] c.op = "rm" -> <<Step("visit", c.path)>>
      [] OTHER -> <<Step(c.op, <<>>)>>

\* pull -r goes on after a failure of any of its steps but the first.
Tolerant == cmd.op = "pull" /\ Len(cmd.path) # 2 /\ Head(todo).do # "root"

File == todo[1].path[2]    \* the local name of the file being pulled

RequestOf ==
    LET s == Head(todo)
        op == CASE s.do \in {"root", "size", "visit"} -> "stat"
                [] s.do = "list" -> "list"
                [] s.do = "chunk" -> "read"
                [] s.do \in {"remove", "rmdir"} -> "remove"
                [] OTHER -> s.do
    IN  [op |-> op, path |-> s.path, heard |-> TRUE, begun |-> FALSE,
         at |-> IF s.do = "chunk" THEN Len(local[File]) ELSE s.at,
         len |-> IF s.do = "chunk" THEN Min({Chunk, s.at - Len(local[File])}) ELSE 0]

-----------------------------------------------------------------------------
(* The end of a step                                                       *)

RebootsBoard == cmd.op \in {"erase", "reset", "panic"}

\* The connection is dropped; the board finishes what it is doing, unheard.
DropConnection ==
    /\ link' = "none" /\ answer' = None
    /\ call' = IF call = None THEN None ELSE [call EXCEPT !.heard = FALSE]

KeepConnection == UNCHANGED <<link, call>> /\ answer' = None

\* The step is done, and rest is left to do: perhaps nothing, and the command has succeeded.
Proceed(rest) ==
    /\ todo' = rest
    /\ IF rest # <<>> THEN mode' = "run" /\ KeepConnection /\ UNCHANGED gone
       ELSE /\ IF RebootsBoard THEN mode' = "reboot" /\ DropConnection
                               ELSE mode' = "idle" /\ KeepConnection
            /\ gone' = IF cmd.op \in {"rm", "erase"} THEN [path |-> cmd.path, boot |-> boot] ELSE gone

\* An error of the board ends the command; pull -r only records it.
StepFails ==
    IF Tolerant THEN Proceed(Tail(todo)) /\ failures' = failures + 1
    ELSE mode' = "idle" /\ todo' = <<>> /\ KeepConnection /\ UNCHANGED <<failures, gone>>

\* So does an error that looks like a lost connection, which the shell would retry.
ConnectionFails ==
    /\ waiting' = FALSE
    /\ IF Tolerant
         THEN /\ failures' = failures + 1 /\ todo' = Tail(todo) /\ UNCHANGED <<gone, link>>
              /\ mode' = IF todo' = <<>> THEN "idle" ELSE "run"
              /\ answer' = None
              /\ call' = IF call = None THEN None ELSE [call EXCEPT !.heard = FALSE]
         ELSE mode' = "lost" /\ todo' = <<>> /\ DropConnection /\ UNCHANGED <<failures, gone>>
    /\ UNCHANGED <<disk, flash, bootStage, mounted, session, restarting, panicking, boot, logged,
                   cmd, local, pulled, commands>>

-----------------------------------------------------------------------------
(* The steps of a command                                                  *)

Child(p, name) == Append(p, name)

\* Entries of a directory: files are pulled, directories left for later; rm -r visits each, and
\* removes the directory itself after its children.
Expand(p, names, rest) ==
    LET do(n) == IF cmd.op = "rm" THEN Step("visit", Child(p, n))
                 ELSE Step(IF Len(p) = 1 THEN "size" ELSE "list", Child(p, n))
    IN  [i \in DOMAIN names |-> do(names[i])] \o rest

\* list_dir_entries: page after page, until the cursor is 0.
HearPage(a) ==
    LET s == Head(todo)
        found == s.found \o a.data
    IN  /\ IF a.next # 0 THEN Proceed(<<[s EXCEPT !.at = a.next, !.found = found]>> \o Tail(todo))
           ELSE Proceed(Expand(s.path, found, Tail(todo)))
        /\ UNCHANGED <<local, pulled, failures>>

\* Mutant: the local file is opened without emptying it.
HearSizeKeeps(a) ==
    IF a.kind # "File" THEN StepFails /\ UNCHANGED <<local, pulled>>
    ELSE /\ local' = IF File \in DOMAIN local THEN local ELSE With(local, File, <<>>)
         /\ pulled' = IF a.size = 0 THEN pulled \union {File} ELSE pulled \ {File}
         /\ Proceed(IF a.size = 0 THEN Tail(todo)
                    ELSE <<[Head(todo) EXCEPT !.do = "chunk", !.at = Len(local'[File]) + a.size]>>
                         \o Tail(todo))
         /\ UNCHANGED failures

\* The size is the snapshot the pull aims at; the local file is created, or emptied.
HearSize(a) ==
    IF a.kind # "File" THEN StepFails /\ UNCHANGED <<local, pulled>>
    ELSE /\ local' = With(local, File, <<>>)
         /\ pulled' = IF a.size = 0 THEN pulled \union {File} ELSE pulled \ {File}
         /\ Proceed(IF a.size = 0 THEN Tail(todo)
                    ELSE <<[Head(todo) EXCEPT !.do = "chunk", !.at = a.size]>> \o Tail(todo))
         /\ UNCHANGED failures

\* Chunks are asked for up to the snapshot; an empty one before that is an error, and so is one
\* beyond it.
HearChunk(a) ==
    LET have == local[File] \o a.data IN
    IF a.data = <<>> \/ Len(have) > Head(todo).at THEN StepFails /\ UNCHANGED <<local, pulled>>
    ELSE /\ local' = [local EXCEPT ![File] = have]
         /\ IF Len(have) = Head(todo).at
              THEN pulled' = pulled \union {File} /\ Proceed(Tail(todo))
              ELSE Proceed(todo) /\ UNCHANGED pulled
         /\ UNCHANGED failures

HearKind(a) ==
    LET s == Head(todo)
        next == CASE s.do = "root" -> <<Step(IF a.kind = "File" THEN "size" ELSE "list", s.path)>>
                  [] s.do = "visit" /\ a.kind = "File" -> <<Step("remove", s.path)>>
                  [] OTHER -> <<Step("list", s.path), Step("rmdir", s.path)>>
    IN  Proceed(next \o Tail(todo)) /\ UNCHANGED <<local, pulled, failures>>

HearAnswer ==
    /\ mode = "run" /\ waiting /\ answer # None /\ link = "live"
    /\ waiting' = FALSE
    /\ LET do == Head(todo).do IN
       IF answer.err # "Ok" THEN StepFails /\ UNCHANGED <<local, pulled>>
       ELSE CASE do \in {"root", "visit"} -> HearKind(answer)
              [] do = "list" -> HearPage(answer)
              [] do = "size" -> HearSize(answer)
              [] do = "chunk" -> HearChunk(answer)
              [] OTHER -> Proceed(Tail(todo)) /\ UNCHANGED <<local, pulled, failures>>
    /\ UNCHANGED <<disk, flash, bootStage, mounted, session, restarting, panicking, boot, logged,
                   faults, cmd, commands>>

-----------------------------------------------------------------------------
(* The shell                                                               *)

Ask(c) ==
    /\ mode = "idle" /\ commands < MaxCommands
    /\ cmd' = c /\ todo' = Start(c) /\ mode' = "run" /\ commands' = commands + 1
    /\ pulled' = {} /\ failures' = 0
    /\ UNCHANGED <<boardVars, waiting, local, gone>>

SendRequest ==
    /\ mode = "run" /\ ~waiting /\ link = "live" /\ (call = None \/ bootStage = "hung")
    /\ call' = RequestOf /\ waiting' = TRUE
    /\ UNCHANGED <<disk, flash, bootStage, mounted, session, answer, restarting, panicking, link, boot, logged,
                   faults, mode, cmd, todo, local, pulled, failures, gone, commands>>

\* Mutant: a closed client is noticed by a request under way only.
FindClosedWaiting == mode = "run" /\ waiting /\ link = "dead" /\ ConnectionFails /\ UNCHANGED faults

\* The board has restarted: the client is closed, and so is every request of it.
FindClosed == mode = "run" /\ link = "dead" /\ ConnectionFails /\ UNCHANGED faults

\* RPC_TIMEOUT: the board did not answer for 5 s; ERASE_STORAGE_TIMEOUT: the erase takes longer
\* than 300 s.  A board that hangs never answers.
TimeOut ==
    /\ mode = "run" /\ waiting /\ link = "live" /\ answer = None
    /\ IF bootStage = "hung" THEN UNCHANGED faults ELSE Fault
    /\ ConnectionFails

\* Ctrl-C drops the command and the connection.
Interrupt ==
    /\ mode = "run" /\ Fault
    /\ mode' = "connect" /\ todo' = <<>> /\ waiting' = FALSE /\ DropConnection
    /\ UNCHANGED <<disk, flash, bootStage, mounted, session, restarting, panicking, boot, logged,
                   cmd, local, pulled, failures, gone, commands>>

\* reconnect: attempts go on until one board answers the probe.  A command that lost its
\* connection is started over.
Reconnect ==
    /\ mode \in {"connect", "lost", "reboot"} /\ link = "none"
    /\ bootStage = "up" /\ call = None
    /\ link' = "live"
    /\ IF mode = "lost"
         THEN mode' = "run" /\ todo' = Start(cmd) /\ pulled' = {} /\ failures' = 0
         ELSE mode' = "idle" /\ UNCHANGED <<todo, pulled, failures>>
    /\ UNCHANGED <<disk, flash, bootStage, mounted, session, call, answer, restarting, panicking, boot, logged,
                   faults, cmd, waiting, local, gone, commands>>

-----------------------------------------------------------------------------
Paths == {<<i>> : i \in 0..MaxIndex} \union {<<i, f>> : i \in 0..MaxIndex, f \in {BuildInfo, Defmt}}
Command ==
    [op : {"pull", "rm"}, path : Paths] \union [op : {"erase", "reset", "panic"}, path : {<<>>}]

ToolInit ==
    /\ mode = "connect" /\ cmd = None /\ todo = <<>> /\ waiting = FALSE
    /\ local = <<>> /\ pulled = {} /\ failures = 0 /\ gone = None /\ commands = 0

HostInit == BoardInit /\ ToolInit

ToolWorks ==
    \/ SendRequest \/ HearAnswer \/ FindClosed \/ Reconnect
    \/ bootStage = "hung" /\ TimeOut

HostNext ==
    \/ BoardNext /\ UNCHANGED toolVars
    \/ ToolWorks \/ TimeOut \/ Interrupt
    \/ \E c \in Command : Ask(c)

HostSpec == HostInit /\ [][HostNext]_hostVars

-----------------------------------------------------------------------------
(* A file that a pull reports as copied holds consecutive rows of one boot, *)
(* and the files of one pull -r are of one boot, so that the log goes with  *)
(* the build that decodes it: whatever restarts, retries, removals and new  *)
(* rows come between the chunks.                                            *)
Consecutive(rows) == \A k \in DOMAIN rows : rows[k] = [rows[1] EXCEPT !.n = @ + k - 1]

PulledFromOneSession ==
    /\ \A f \in pulled : Consecutive(local[f])
    /\ {BuildInfo, Defmt} \subseteq pulled
         => \A i \in DOMAIN local[BuildInfo], k \in DOMAIN local[Defmt] :
                local[Defmt][k].boot = local[BuildInfo][i].boot

(* What rm -r or an erase has reported as removed stays removed until the   *)
(* board restarts: the logging task creates its file again when it is       *)
(* missing, which may stop the removal of its directory but not undo it.    *)
RemovedStaysAway ==
    gone # None /\ gone.boot = boot =>
        \A p \in DOMAIN disk : Below(gone.path, p) => p = gone.path /\ p = <<session, Defmt>>

(* What the tool reports of the card is so: both of the above.              *)
ReportsHold == PulledFromOneSession /\ RemovedStaysAway

(* Every command comes to an end, and a restart that was asked for happens, *)
(* unless the board hangs in its panic handler: then the tool tries to      *)
(* connect for ever.                                                        *)
CommandsConclude ==
    /\ (mode # "idle") ~> (mode = "idle" \/ bootStage = "hung")
    /\ (restarting \/ panicking) ~> (bootStage \in {"mount", "hung"})

(* The tool's help: "`panic` triggers an intentional firmware panic then    *)
(* reboot", and the shell: "board will now panic and restart".              *)
PanicRestarts == panicking ~> (bootStage = "mount")
=============================================================================
