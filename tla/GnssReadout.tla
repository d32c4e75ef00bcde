---------------------------- MODULE GnssReadout ----------------------------
(***************************************************************************)
(* The readout of one u-blox GNSS receiver of sensor carrier v3            *)
(* (tasks/readout/gnss.rs).  The receiver speaks NMEA at its default rate  *)
(* until two configuration frames reach it: one moves it to BAUD_RATE, one *)
(* turns UBX on.  Nothing acknowledges them.  The task reads what the UART *)
(* collected, drops fixes that are not newer than the last one modulo the  *)
(* GPS week, and configures the receiver again after errors or silence.    *)
(* Time is counted in navigation epochs.                                   *)
(***************************************************************************)
EXTENDS Integers, Sequences

CONSTANTS
    Week,          \* epochs of a GPS week (even)
    MaxGnssErrors, \* MAX_CONSECUTIVE_ERRORS
    UartMax,       \* bound on what waits in the UART's ring buffer
    MaxGnssFaults  \* bound on power losses, lost frames, replays, clock jumps and bad bytes

\* The ring buffer holds at most half a week of epochs.
ASSUME GnssAssumption ==
    /\ {Week, UartMax, MaxGnssErrors, MaxGnssFaults} \subseteq Nat /\ Week > 0
    /\ 2 * UartMax <= Week

None == -1

VARIABLES
    gnssTask,   \* "configure", "settle", "listen" (Inactive), "backoff" or "active"
    gnssErrors, \* consecutive_errors, errors
    linkActive, \* link_active
    gnssStatus, \* GNSS_STATUS
    lastFix,    \* last_fix_itow_ms
    receiver,   \* [on, fast, ubx]: powered, at BAUD_RATE, sends UBX
    itow,       \* the receiver's time of week
    uart,       \* what the ring buffer holds
    sinceFix,   \* epochs since the newest published fix (history)
    stale,      \* a fix was published that is not newer than that one (history)
    jumped,     \* the receiver's clock jumped (history)
    samples,    \* published samples, modulo what a read can hold
    gnssFaults

history == <<sinceFix, stale, jumped>>
world == <<receiver, itow, gnssFaults>>
gnssVars == <<gnssTask, gnssErrors, linkActive, gnssStatus, lastFix, uart, samples, history, world>>

\* What a read can give: a navigation solution (other UBX packets come with it), text, bytes that
\* do not parse, or a read error.
Pvt(fix, t) == [kind |-> "pvt", fix |-> fix, itow |-> t, age |-> 0]
Other(k) == [kind |-> k, fix |-> FALSE, itow |-> 0, age |-> 0]
AtMostWeek(n) == IF n > Week THEN Week ELSE n

GnssFault == gnssFaults < MaxGnssFaults /\ gnssFaults' = gnssFaults + 1

-----------------------------------------------------------------------------
(* read_pvt                                                                *)

\* Mutant: the week is not wrapped.
IsNewerEpochPlain(t, previous) == t > previous

IsNewerEpoch(t, previous) ==
    LET elapsed == (t + Week - previous) % Week
    IN elapsed > 0 /\ elapsed < Week \div 2

Rejected(m, last) == m.fix /\ last # None /\ ~IsNewerEpoch(m.itow, last)

\* What the task has after a message: its error count, the link, the status, the last fix, and
\* the history.
Carried ==
    [errors |-> gnssErrors, link |-> linkActive, status |-> gnssStatus, last |-> lastFix, fix |-> FALSE,
     since |-> sinceFix, stale |-> stale, samples |-> samples]

Submit(m, c) ==
    [errors |-> 0, link |-> c.link, status |-> c.status, last |-> IF m.fix THEN m.itow ELSE c.last,
     fix |-> c.fix \/ m.fix, since |-> IF m.fix THEN m.age ELSE c.since,
     stale |-> c.stale \/ (m.fix /\ m.age >= c.since), samples |-> (c.samples + 1) % (UartMax + 1)]

Saturated(e) == IF e < MaxGnssErrors THEN e + 1 ELSE e

\* One message of the parser, in Inactive::run.
Listen(c, m) ==
    LET up == [c EXCEPT !.link = TRUE, !.status = "Active"]
    IN CASE m.kind = "bad" -> [c EXCEPT !.errors = Saturated(@)]
         [] m.kind = "text" -> c
         [] m.kind = "pvt" -> IF Rejected(m, c.last) THEN up ELSE Submit(m, up)

\* One message of the parser, in Active::run.
Track(c, m) ==
    CASE m.kind = "bad" -> [c EXCEPT !.errors = Saturated(@)]
      [] m.kind = "pvt" /\ ~Rejected(m, c.last) -> Submit(m, c)
      [] OTHER -> c

\* All that a read gives, message by message.
Parsed(c, m) == IF gnssTask = "active" THEN Track(c, m) ELSE Listen(c, m)
Parse[i \in 0..Len(uart)] == IF i = 0 THEN Carried ELSE Parsed(Parse[i - 1], uart[i])
AfterRead == Parse[Len(uart)]

Keep(c) ==
    /\ lastFix' = c.last
    /\ sinceFix' = c.since /\ stale' = c.stale /\ samples' = c.samples

-----------------------------------------------------------------------------
(* Inactive::run                                                           *)

GoInactive(e) == gnssErrors' = e /\ linkActive' = FALSE /\ gnssStatus' = "Inactive"

\* configure: the baud rate frame at every fallback rate, a pause, the configuration.
SendBaudRate ==
    /\ gnssTask = "configure"
    /\ gnssTask' = "settle"
    /\ \/ /\ receiver' = [receiver EXCEPT !.fast = @ \/ receiver.on]
          /\ UNCHANGED gnssFaults
       \/ GnssFault /\ UNCHANGED receiver      \* the frame does not arrive
    /\ UNCHANGED <<gnssErrors, linkActive, gnssStatus, lastFix, uart, samples, history, itow>>

SendConfig ==
    /\ gnssTask = "settle"
    /\ gnssTask' = "listen"
    /\ \/ /\ receiver' = [receiver EXCEPT !.ubx = @ \/ (receiver.on /\ receiver.fast)]
          /\ UNCHANGED gnssFaults
       \/ GnssFault /\ UNCHANGED receiver
    /\ UNCHANGED <<gnssErrors, linkActive, gnssStatus, lastFix, uart, samples, history, itow>>

ListenAgain ==
    /\ gnssTask = "listen" /\ gnssErrors >= MaxGnssErrors
    /\ gnssTask' = "backoff"
    /\ GoInactive(0)
    /\ UNCHANGED <<lastFix, uart, samples, history, world>>

GnssBackoff ==
    /\ gnssTask = "backoff"
    /\ gnssTask' = "configure"
    /\ UNCHANGED <<gnssErrors, linkActive, gnssStatus, lastFix, uart, samples, history, world>>

Listening == gnssTask = "listen" /\ gnssErrors < MaxGnssErrors
ReadFailed == \E i \in 1..Len(uart) : uart[i].kind = "error"
Received == uart # <<>> /\ ~ReadFailed
Silent == uart = <<>> /\ ~receiver.on         \* LINK_SILENCE_TIMEOUT passes

ReadListening ==
    /\ Listening /\ Received
    /\ LET c == AfterRead
       IN /\ Keep(c)
          /\ IF c.fix
                THEN gnssTask' = "active" /\ gnssErrors' = 0 /\ linkActive' = FALSE
                     /\ gnssStatus' = "Active"
                ELSE gnssErrors' = c.errors /\ linkActive' = c.link /\ gnssStatus' = c.status
                     /\ UNCHANGED gnssTask
    /\ uart' = <<>>
    /\ UNCHANGED <<jumped, world>>

ListenError ==
    /\ Listening /\ ReadFailed
    /\ gnssErrors' = Saturated(gnssErrors)
    /\ uart' = <<>>
    /\ UNCHANGED <<gnssTask, linkActive, gnssStatus, lastFix, samples, history, world>>

ListenSilent ==
    /\ Listening /\ Silent
    /\ gnssErrors' = MaxGnssErrors
    /\ linkActive' = FALSE
    /\ gnssStatus' = IF linkActive THEN "Inactive" ELSE gnssStatus
    /\ UNCHANGED <<gnssTask, lastFix, uart, samples, history, world>>

-----------------------------------------------------------------------------
(* Active::run                                                             *)

\* Mutant: the new Inactive starts without the last fix.
IntoInactiveFresh(last) == gnssTask' = "configure" /\ GoInactive(0) /\ lastFix' = None

IntoInactive(last) == gnssTask' = "configure" /\ GoInactive(0) /\ lastFix' = last

ReadTracking ==
    /\ gnssTask = "active" /\ Received
    /\ LET c == AfterRead
       IN /\ sinceFix' = c.since /\ stale' = c.stale /\ samples' = c.samples
          /\ IF c.errors < MaxGnssErrors
                THEN gnssErrors' = c.errors /\ lastFix' = c.last
                     /\ UNCHANGED <<gnssTask, linkActive, gnssStatus>>
                ELSE IntoInactive(c.last)
    /\ uart' = <<>>
    /\ UNCHANGED <<jumped, world>>

TrackError ==
    /\ gnssTask = "active" /\ ReadFailed
    /\ IF gnssErrors + 1 < MaxGnssErrors
          THEN gnssErrors' = gnssErrors + 1
               /\ UNCHANGED <<gnssTask, linkActive, gnssStatus, lastFix>>
          ELSE IntoInactive(lastFix)
    /\ uart' = <<>>
    /\ UNCHANGED <<samples, history, world>>

TrackSilent ==
    /\ gnssTask = "active" /\ Silent
    /\ IntoInactive(lastFix)
    /\ UNCHANGED <<uart, samples, history, world>>

GnssTask ==
    \/ SendBaudRate \/ SendConfig \/ ListenAgain \/ GnssBackoff
    \/ ReadListening \/ ListenError \/ ListenSilent
    \/ ReadTracking \/ TrackError \/ TrackSilent

-----------------------------------------------------------------------------
(* The receiver and the UART                                               *)

UartAged == [i \in 1..Len(uart) |-> [uart[i] EXCEPT !.age = AtMostWeek(@ + 1)]]

\* What arrives in an epoch: at another rate only read errors, before UBX is on only text.
Sent ==
    IF ~receiver.fast THEN {Other("error")}
    ELSE IF ~receiver.ubx THEN {Other("text")}
    ELSE {Pvt(TRUE, (itow + 1) % Week), Pvt(FALSE, (itow + 1) % Week)}

Epoch ==
    /\ receiver.on /\ Len(uart) < UartMax
    /\ itow' = (itow + 1) % Week
    /\ \E m \in Sent : uart' = Append(UartAged, m)
    /\ sinceFix' = AtMostWeek(sinceFix + 1)
    /\ UNCHANGED <<gnssTask, gnssErrors, linkActive, gnssStatus, lastFix, samples, stale, jumped,
                   receiver, gnssFaults>>

\* UART recovery replays what was received before: a fix of up to two epochs ago.
Replay ==
    /\ GnssFault /\ Len(uart) < UartMax /\ receiver.ubx /\ receiver.fast
    /\ \E a \in 0..1 :
           uart' = Append(uart, [Pvt(TRUE, (itow + Week - a) % Week) EXCEPT !.age = a])
    /\ UNCHANGED <<gnssTask, gnssErrors, linkActive, gnssStatus, lastFix, samples, history, receiver, itow>>

BadBytes ==
    /\ GnssFault /\ Len(uart) < UartMax /\ receiver.on
    /\ uart' = Append(uart, Other("bad"))
    /\ UNCHANGED <<gnssTask, gnssErrors, linkActive, gnssStatus, lastFix, samples, history, receiver, itow>>

PowerLoss ==
    /\ GnssFault /\ receiver.on
    /\ receiver' = [on |-> FALSE, fast |-> FALSE, ubx |-> FALSE]
    /\ UNCHANGED <<gnssTask, gnssErrors, linkActive, gnssStatus, lastFix, uart, samples, history, itow>>

PowerUp ==
    /\ ~receiver.on
    /\ receiver' = [receiver EXCEPT !.on = TRUE]
    /\ UNCHANGED <<gnssTask, gnssErrors, linkActive, gnssStatus, lastFix, uart, samples, history, itow,
                   gnssFaults>>

ClockJump ==
    /\ GnssFault
    /\ \E t \in 0..(Week - 1) : itow' = t
    /\ jumped' = TRUE
    /\ UNCHANGED <<gnssTask, gnssErrors, linkActive, gnssStatus, lastFix, uart, samples, sinceFix,
                   stale, receiver>>

GnssInit ==
    /\ gnssTask = "configure" /\ gnssErrors = 0 /\ linkActive = FALSE /\ gnssStatus = "Inactive"
    /\ lastFix = None /\ uart = <<>> /\ samples = 0
    /\ sinceFix = Week /\ stale = FALSE /\ jumped = FALSE
    /\ receiver \in {[on |-> TRUE, fast |-> FALSE, ubx |-> FALSE],
                     [on |-> TRUE, fast |-> TRUE, ubx |-> TRUE],   \* only the MCU restarted
                     [on |-> FALSE, fast |-> FALSE, ubx |-> FALSE]}
    /\ itow = 0 /\ gnssFaults = 0

GnssNext ==
    GnssTask \/ Epoch \/ Replay \/ BadBytes \/ PowerLoss \/ PowerUp \/ ClockJump

(* The executor serves the task; a powered receiver goes on sending.       *)
GnssFairness == WF_gnssVars(GnssTask) /\ WF_gnssVars(Epoch)

GnssSpec == GnssInit /\ [][GnssNext]_gnssVars /\ GnssFairness

-----------------------------------------------------------------------------
(* No fix is published that was received before a published one, even when *)
(* the UART replays old bytes across a restart of the link, as long as the *)
(* receiver's clock did not jump (read_pvt drops what is not newer).       *)
FixesAreNew == stale => jumped

(* A receiver that stays powered is read again and again, through power    *)
(* losses, clock jumps and the turn of the week.  The one thing that stops *)
(* it for good: CONFIG_VALSET got lost after the baud rate frame arrived,  *)
(* for then text arrives without an error and without silence.             *)
ReceiverUsed ==
    <>[](receiver.on)
        => \/ []<><<samples' # samples>>_gnssVars
           \/ <>[](receiver.fast /\ ~receiver.ubx)
=============================================================================
