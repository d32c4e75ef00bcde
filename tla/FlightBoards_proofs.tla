------------------------ MODULE FlightBoards_proofs -------------------------
(***************************************************************************)
(* Proofs about the engine board, the camera board and the LOX valve       *)
(* board: that what the engine board measures belongs to what it is shown  *)
(* for, for every range of temperatures, every number of mishaps and of    *)
(* attempts, that a main valve opens on command only, that no camera loses *)
(* a file that its board could have closed, and that the LOX valve moves   *)
(* only when it knows where it is.                                         *)
(***************************************************************************)
EXTENDS EngineBoard, CameraBoard, LoxValve, Common_proofs

-----------------------------------------------------------------------------
(* The thermocouples: one converter for two channels.                      *)

\* While the task waits for a channel, the converter is set to it and a
\* conversion that is done was made of it: the selection has begun it anew.
ChannelInv ==
  /\ \A c \in Channel : step = (IF c = "primary" THEN "wait1" ELSE "wait2") =>
       mux = c /\ (conversion.state = "done" => conversion.of = c)
  /\ primary.of \in {"primary", "none"} /\ secondary.of \in {"secondary", "none"}
  /\ \A c \in Channel : temperature[c] # NoVal => temperature[c].of \in {c, "none"}

LEMMA InitChannel == HeatInit => ChannelInv
BY DEF HeatInit, ChannelInv, NoReading, Idle, Channel

LEMMA ChannelStep == ChannelInv /\ [HeatNext]_heatVars => ChannelInv'
<1> SUFFICES ASSUME ChannelInv, [HeatNext]_heatVars
             PROVE  ChannelInv'
  OBVIOUS
<1> USE DEF ChannelInv, Channel
<1>1. CASE Converts
  BY <1>1 DEF Converts, world, round, heatShown
<1>2. CASE HeatBoots
  BY <1>2 DEF HeatBoots, world, round, heatShown, Idle
<1>3. ASSUME NEW c \in Channel, NEW next \in {"wait1", "wait2"}, Select(c, next),
             next = IF c = "primary" THEN "wait1" ELSE "wait2"
      PROVE  ChannelInv'
  BY <1>3 DEF Select, round, heatShown, Idle
<1>4. ASSUME NEW c \in Channel, NEW next \in {"trigger", "publish"}, SelectFails(c, next)
      PROVE  ChannelInv'
  BY <1>4 DEF SelectFails, heatShown
<1>5. CASE ReadPrimary
  BY <1>5 DEF ReadPrimary, Take, NotTaken, Taken, NoReading, Idle, heatShown
<1>6. CASE ReadSecondary
  BY <1>6 DEF ReadSecondary, Take, NotTaken, Taken, NoReading, Idle, heatShown
<1>7. CASE Trigger \/ ReadFifo
  BY <1>7 DEF Trigger, ReadFifo, heatShown
<1>8. CASE PublishHeat
  BY <1>8 DEF PublishHeat, Converted, NoReading, world, devices
<1>9. CASE ResetEngine
  BY <1>9 DEF ResetEngine, NoReading, devices
<1>10. CASE UNCHANGED <<step, mux, conversion, primary, secondary, temperature>>
  BY <1>10
<1>11. ASSUME HeatPanics \/ HeatControl \/ Measures \/ (\E c \in Channel : PlaceChanges(c))
              \/ (\E d \in {"adc", "junction"} : DeviceDies(d)) \/ UNCHANGED heatVars
       PROVE  UNCHANGED <<step, mux, conversion, primary, secondary, temperature>>
  BY <1>11 DEF HeatPanics, HeatControl, Measures, PlaceChanges, DeviceDies, heatVars, devices, round,
               heatShown
<1> QED
  BY <1>1, <1>2, <1>3, <1>4, <1>5, <1>6, <1>7, <1>8, <1>9, <1>10, <1>11 DEF HeatNext, Round

-----------------------------------------------------------------------------
(* The cold junction: a FIFO that is read once a round.                    *)

\* Between the trigger and the read the FIFO may hold one measurement more.
Slack == IF step = "fifo" THEN mishaps + 2 ELSE mishaps + 1

\* While the thermometer works, a measurement is the older the nearer it is to
\* the head; each mishap leaves room for one more, and for one round more.
FifoInv ==
  /\ mishaps \in Nat
  /\ fifo \in Seq(Nat)
  /\ triggered \in BOOLEAN
  /\ "junction" \notin dead =>
       /\ Len(fifo) <= Slack /\ (triggered => Len(fifo) + 1 <= Slack)
       /\ \A i \in 1..Len(fifo) : fifo[i] + i <= Slack
  /\ junction # NoReading => junction.level \in Nat /\ junction.level <= 1 + mishaps

LEMMA InitFifo == HeatInit => FifoInv
<1> SUFFICES ASSUME HeatInit PROVE FifoInv
  OBVIOUS
<1>1. fifo = <<>> /\ mishaps = 0 /\ ~triggered /\ triggered \in BOOLEAN /\ junction = NoReading /\ step # "fifo"
  BY DEF HeatInit
<1>2. fifo \in Seq(Nat) /\ Len(fifo) = 0
  BY <1>1
<1> QED
  BY <1>1, <1>2 DEF FifoInv, Slack

\* What a step that leaves FIFO and thermometer alone may do to the rest.
LEMMA FifoKept ==
  ASSUME FifoInv, UNCHANGED <<fifo, triggered>>, dead \subseteq dead',
         mishaps' = mishaps \/ mishaps' = mishaps + 1,
         step = "fifo" => step' = "fifo" \/ mishaps' = mishaps + 1 \/ "junction" \in dead,
         junction' = junction \/ junction' = NoReading
  PROVE  FifoInv'
<1>1. mishaps \in Nat /\ Len(fifo) \in Nat /\ \A i \in 1..Len(fifo) : i \in Nat /\ fifo[i] \in Nat
  BY DEF FifoInv
<1>2. PICK new \in {Slack - 1, Slack, Slack + 1, Slack + 2} :
        new = Slack' /\ ("junction" \notin dead => Slack <= new)
  BY <1>1 DEF Slack
<1>3. Slack \in Nat
  BY <1>1 DEF Slack
<1>4. "junction" \notin dead' =>
        /\ Len(fifo) <= new /\ (triggered => Len(fifo) + 1 <= new)
        /\ \A i \in 1..Len(fifo) : fifo[i] + i <= new
  BY <1>1, <1>2, <1>3 DEF FifoInv
<1>5. junction' # NoReading => junction'.level \in Nat /\ junction'.level <= 1 + mishaps'
  BY <1>1 DEF FifoInv
<1> QED
  BY <1>1, <1>2, <1>4, <1>5 DEF FifoInv

LEMMA MeasuresFifo == FifoInv /\ Measures => FifoInv'
<1> SUFFICES ASSUME FifoInv, Measures PROVE FifoInv'
  OBVIOUS
<1> DEFINE longer == Append(fifo, 0)
<1>1. /\ Len(fifo) \in Nat /\ longer \in Seq(Nat) /\ Len(longer) = Len(fifo) + 1
      /\ \A i \in 1..Len(longer) : longer[i] = IF i = Len(longer) THEN 0 ELSE fifo[i]
  BY DEF FifoInv
<1>2. Slack' = Slack /\ UNCHANGED <<mishaps, junction, dead>> /\ triggered /\ ~triggered' /\ fifo' = longer
  BY DEF Slack, Measures, world, round
<1> HIDE DEF longer
<1>3. Slack \in Nat
  BY DEF Slack, FifoInv
<1>4. "junction" \notin dead =>
        Len(longer) <= Slack /\ \A i \in 1..Len(longer) : longer[i] + i <= Slack
  BY <1>1, <1>2, <1>3 DEF FifoInv
<1> QED
  BY <1>1, <1>2, <1>4 DEF FifoInv, Measures

LEMMA TriggerFifo ==
  ASSUME FifoInv, Trigger, MaxMishaps \in Nat
  PROVE  FifoInv'
<1> DEFINE older == [i \in DOMAIN fifo |-> Older(fifo[i])]
<1>1. /\ mishaps \in Nat /\ Len(fifo) \in Nat
      /\ older \in Seq(Nat) /\ Len(older) = Len(fifo)
      /\ \A i \in 1..Len(fifo) : older[i] <= fifo[i] + 1 /\ older[i] \in Nat /\ fifo[i] \in Nat
  BY DEF FifoInv, Older
<1>2. fifo' = older /\ step = "trigger" /\ dead' = dead
  BY DEF Trigger
<1> HIDE DEF older
<1>3. "junction" \notin dead =>
        /\ Len(older) <= mishaps + 1
        /\ \A i \in 1..Len(older) : older[i] + i <= mishaps + 2
  BY <1>1, <1>2 DEF FifoInv, Slack
<1>4. CASE Answers("junction") /\ triggered' = TRUE /\ step' = "fifo" /\ UNCHANGED <<junction, mistakes>>
  BY <1>1, <1>2, <1>3, <1>4 DEF FifoInv, Slack, Answers
<1>5. CASE Fails("junction") /\ step' = "secondary" /\ junction' = NoReading /\ UNCHANGED triggered
  <2>1. /\ mishaps' = mishaps \/ mishaps' = mishaps + 1
        /\ "junction" \notin dead => mishaps' = mishaps + 1
    BY <1>5 DEF Fails
  <2>2. "junction" \notin dead => (triggered => Len(older) + 1 <= mishaps + 2)
    BY <1>1, <1>2 DEF FifoInv, Slack
  <2> QED
    BY <1>1, <1>2, <1>3, <1>5, <2>1, <2>2 DEF FifoInv, Slack
<1> QED
  BY <1>4, <1>5 DEF Trigger

LEMMA ReadFifoFifo == FifoInv /\ ReadFifo => FifoInv'
<1> SUFFICES ASSUME FifoInv, ReadFifo PROVE FifoInv'
  OBVIOUS
<1>1. CASE Answers("junction") /\ fifo = <<>> /\ junction' = NoReading /\ UNCHANGED fifo
  <2>1. /\ mishaps \in Nat /\ Len(fifo) = 0 /\ UNCHANGED <<mishaps, dead, triggered>>
        /\ step' = "secondary"
    BY <1>1 DEF FifoInv, ReadFifo, Answers
  <2> QED
    BY <1>1, <2>1 DEF FifoInv, Slack
<1>2. CASE Answers("junction") /\ fifo # <<>> /\ junction' = [of |-> "junction", level |-> Head(fifo)] /\ fifo' = Tail(fifo)
  <2> DEFINE rest == Tail(fifo)
  <2>1. /\ Head(fifo) = fifo[1] /\ fifo[1] \in Nat /\ 1 \in 1..Len(fifo)
        /\ rest \in Seq(Nat) /\ Len(rest) = Len(fifo) - 1 /\ Len(fifo) \in Nat /\ Len(rest) \in Nat
        /\ \A i \in 1..Len(rest) : rest[i] = fifo[i + 1] /\ fifo[i + 1] \in Nat /\ i + 1 \in 1..Len(fifo) /\ i \in Nat
    BY <1>2 DEF FifoInv
  <2>2. /\ mishaps \in Nat /\ UNCHANGED <<mishaps, dead, triggered>> /\ fifo' = rest
        /\ step = "fifo" /\ step' = "secondary" /\ "junction" \notin dead
    BY <1>2 DEF FifoInv, ReadFifo, Answers
  <2> HIDE DEF rest
  <2>3. fifo[1] + 1 <= mishaps + 2
    BY <2>1, <2>2 DEF FifoInv, Slack
  <2>4. /\ Len(rest) <= mishaps + 1 /\ (triggered => Len(rest) + 1 <= mishaps + 1)
        /\ \A i \in 1..Len(rest) : rest[i] + i <= mishaps + 1
    <3>1. /\ Len(fifo) <= mishaps + 2 /\ (triggered => Len(fifo) + 1 <= mishaps + 2)
          /\ \A i \in 1..Len(fifo) : fifo[i] + i <= mishaps + 2
      BY <2>2 DEF FifoInv, Slack
    <3>2. ASSUME NEW i \in 1..Len(rest) PROVE rest[i] + i <= mishaps + 1
      <4>1. fifo[i + 1] + (i + 1) <= mishaps + 2
        BY <2>1, <3>1
      <4> QED
        BY <2>1, <2>2, <4>1
    <3> QED
      BY <2>1, <2>2, <3>1, <3>2
  <2>5. junction'.level = fifo[1] /\ fifo[1] <= 1 + mishaps
    BY <1>2, <2>1, <2>2, <2>3
  <2> QED
    BY <2>1, <2>2, <2>4, <2>5 DEF FifoInv, Slack
<1>3. CASE Fails("junction") /\ junction' = NoReading /\ UNCHANGED fifo
  BY <1>3, FifoKept DEF ReadFifo, Fails, FifoInv
<1> QED
  BY <1>1, <1>2, <1>3 DEF ReadFifo

LEMMA FifoStep == FifoInv /\ [HeatNext]_heatVars => FifoInv'
<1> SUFFICES ASSUME FifoInv, [HeatNext]_heatVars
             PROVE  FifoInv'
  OBVIOUS
<1>1. CASE Measures
  BY <1>1, MeasuresFifo
<1>2. CASE Trigger
  BY <1>2, TriggerFifo, HeatAssumption
<1>3. CASE ReadFifo
  BY <1>3, ReadFifoFifo
<1>4. CASE ResetEngine
  BY <1>4, FifoKept DEF ResetEngine, devices, FifoInv
<1>5. CASE PublishHeat
  BY <1>5, FifoKept DEF PublishHeat, world, devices, FifoInv
<1>6. CASE HeatBoots \/ HeatPanics \/ Select("primary", "wait1") \/ SelectFails("primary", "trigger")
           \/ ReadPrimary \/ Select("secondary", "wait2") \/ SelectFails("secondary", "publish") \/ ReadSecondary
  <2>1. /\ UNCHANGED <<fifo, triggered, junction, dead>> /\ step # "fifo"
        /\ mishaps' = mishaps \/ mishaps' = mishaps + 1
    BY <1>6 DEF HeatBoots, HeatPanics, Select, SelectFails, ReadPrimary, ReadSecondary, Take, NotTaken,
                Answers, Fails, world, round, devices
  <2> QED
    BY <2>1, FifoKept DEF FifoInv
<1>7. CASE Converts \/ HeatControl \/ (\E c \in Channel : PlaceChanges(c))
           \/ (\E d \in {"adc", "junction"} : DeviceDies(d)) \/ UNCHANGED heatVars
  <2>1. UNCHANGED <<fifo, triggered, junction, mishaps, step>> /\ dead \subseteq dead'
    BY <1>7 DEF Converts, HeatControl, PlaceChanges, DeviceDies, heatVars, world, round, devices
  <2> QED
    BY <2>1, FifoKept DEF FifoInv
<1> QED
  BY <1>1, <1>2, <1>3, <1>4, <1>5, <1>6, <1>7 DEF HeatNext, Round

-----------------------------------------------------------------------------
(* The main valves and the currents of their solenoids.                    *)

\* A valve that is open was commanded so; a conversion that may be fetched is
\* one of the channel the driver configured; and a round keeps the two apart.
CurrentsInv ==
  /\ command \in [Valve -> WatchOf({"open", "closed"})] /\ open \in [Valve -> BOOLEAN]
  /\ \A v \in Valve : open[v] /\ ~command[v].new => command[v].val = "open"
  /\ adcStarted => adcResult.of = adcConfig
  /\ reading.of \in Valve /\ fuelSample.of \in {"fuel", "none"}
  /\ \A v \in Valve : current[v].of \in {v, "none"}

LEMMA InitCurrents == EngineInit => CurrentsInv
BY DEF EngineInit, CurrentsInv, Valve, WatchOf, EmptyWatch, None, FirstRead

LEMMA AttemptCurrents == CurrentsInv /\ Attempt => CurrentsInv'
<1> SUFFICES ASSUME CurrentsInv, Attempt
             PROVE  CurrentsInv'
  OBVIOUS
<1> USE DEF CurrentsInv, Valve
<1>1. adcStarted' => adcResult'.of = adcConfig'
  <2>1. CASE UNCHANGED <<adcConfig, adcStarted, adcBusy, adcResult>>
    BY <2>1
  <2>2. CASE adcStarted' = FALSE
    BY <2>2
  <2>3. CASE adcConfig' = ChannelOf(reading.of) /\ adcResult' = [of |-> ChannelOf(reading.of), flows |-> FALSE]
    BY <2>3
  <2> QED
    BY <2>1, <2>2, <2>3 DEF Attempt, ReadOnce
<1>2. ASSUME NEW sample, sample.of \in {reading.of, "none"}, ChannelDone(sample)
      PROVE  /\ reading'.of \in Valve /\ fuelSample'.of \in {"fuel", "none"}
             /\ \A v \in Valve : current'[v].of \in {v, "none"}
  BY <1>2 DEF ChannelDone, RoundEnds, Kept, None, FirstRead
<1>3. adcResult.of = reading.of \/ ~Fetched(reading.of)
  BY DEF Fetched, ChannelOf
<1>4. CASE Fetched(reading.of)
  BY <1>1, <1>2, <1>3, <1>4 DEF Attempt, valveVars
<1>5. CASE ~Fetched(reading.of) /\ ChannelDone(None)
  BY <1>1, <1>2, <1>5 DEF Attempt, valveVars, None
<1>6. CASE reading' = [reading EXCEPT !.attempts = @ + 1] /\ UNCHANGED <<fuelSample, current>>
  BY <1>1, <1>6 DEF Attempt, valveVars
<1> QED
  BY <1>4, <1>5, <1>6 DEF Attempt

LEMMA CurrentsStep == CurrentsInv /\ [ValvesNext \/ ArmNext]_engineVars => CurrentsInv'
<1> SUFFICES ASSUME CurrentsInv, [ValvesNext \/ ArmNext]_engineVars
             PROVE  CurrentsInv'
  OBVIOUS
<1>1. CASE EngineResets
  BY <1>1 DEF EngineResets, CurrentsInv, Valve, WatchOf, EmptyWatch, None, FirstRead
<1>2. ASSUME NEW v \in Valve, DriveValve(v)
      PROVE  CurrentsInv'
  <2>1. command[v].new /\ command[v] \in WatchOf({"open", "closed"})
    BY <1>2 DEF DriveValve, CurrentsInv
  <2>2. Seen(command[v]).val = command[v].val /\ Seen(command[v]) \in WatchOf({"open", "closed"})
    <3>1. command[v] \in [val : {"open", "closed"}, new : BOOLEAN]
      BY <2>1 DEF WatchOf, EmptyWatch
    <3>2. Seen(command[v]).val = command[v].val
      BY <3>1 DEF Seen
    <3> QED
      BY <2>1, <3>2, WatchTypes
  <2>3. /\ command' = [command EXCEPT ![v] = Seen(command[v])]
        /\ open' = [open EXCEPT ![v] = (command[v].val = "open")]
        /\ UNCHANGED <<adcStarted, adcResult, adcConfig, reading, fuelSample, current>>
    BY <1>2 DEF DriveValve, adcVars, currentVars
  <2>4. command' \in [Valve -> WatchOf({"open", "closed"})] /\ open' \in [Valve -> BOOLEAN]
    BY <2>2, <2>3 DEF CurrentsInv
  <2>5. ASSUME NEW w \in Valve, open'[w], ~command'[w].new PROVE command'[w].val = "open"
    <3>1. CASE w = v
      <4>1. open'[v] = (command[v].val = "open") /\ command'[v].val = command[v].val
        BY <2>2, <2>3 DEF CurrentsInv
      <4> QED
        BY <2>5, <3>1, <4>1
    <3>2. CASE w # v
      <4>1. open'[w] = open[w] /\ command'[w] = command[w]
        BY <2>3, <3>2 DEF CurrentsInv
      <4> QED
        BY <2>5, <4>1 DEF CurrentsInv
    <3> QED
      BY <3>1, <3>2
  <2> QED
    BY <2>3, <2>4, <2>5 DEF CurrentsInv
<1>3. ASSUME NEW v \in Valve, NEW c \in {"open", "closed"}, ReceiveCommand(v, c)
      PROVE  CurrentsInv'
  BY <1>3 DEF ReceiveCommand, CurrentsInv, Send, WatchOf, EmptyWatch, adcVars, currentVars
<1>4. CASE Attempt
  BY <1>4, AttemptCurrents
<1>5. CASE AdcConverts
  BY <1>5 DEF AdcConverts, CurrentsInv, valveVars, currentVars
<1>6. CASE AdcFails \/ EngineBoots \/ SwitchFlips \/ CheckArming \/ Beep \/ ReportArming
           \/ UNCHANGED engineVars
  BY <1>6 DEF AdcFails, EngineBoots, SwitchFlips, CheckArming, Beep, ReportArming, engineVars,
              CurrentsInv, valveVars, adcVars, currentVars
<1> QED
  BY <1>1, <1>2, <1>3, <1>4, <1>5, <1>6 DEF ValvesNext, ArmNext

-----------------------------------------------------------------------------
\* Whatever devices die, transfers fail and conversions end late, and however
\* thermocouples, heater, valves, arming and restarts interleave: a temperature
\* and a current are of the channel they are shown for, the cold junction is not
\* older than mishaps explain, and a main valve is open for a command only
\* (thermocouple_task, read_current_channel, valve_task_impl).
THEOREM MeasuresAndDrivesRight ==
  /\ HeatInit /\ [][HeatNext]_heatVars
  /\ EngineInit /\ [][ValvesNext \/ ArmNext]_engineVars
  => []EngineRight
<1>1. ChannelInv /\ FifoInv => MeasuredRight
  BY DEF ChannelInv, FifoInv, MeasuredRight
<1>2. CurrentsInv => MainValvesRight
  BY DEF CurrentsInv, MainValvesRight
<1> QED
  BY <1>1, <1>2, InitChannel, ChannelStep, InitFifo, FifoStep, InitCurrents, CurrentsStep,
     PTL DEF EngineRight

-----------------------------------------------------------------------------
(* The camera: a button that starts and stops.                             *)

\* While the cable holds, the task knows what the camera can do from its answer on, and between
\* the command to start and the one to stop a camera that can be started records; so the button
\* stops it.  Whatever records began by itself or by the command to start.
CameraInv ==
  /\ FileKept
  /\ camera \in {"recording", "closing"} => cableCut \/ autoRecord \/ "start" \in features
  /\ cameraTask = "booting" => camera \in {"boots", "idle", "recording"}
  /\ ~cableCut =>
       /\ cameraTask \in {"start", "on", "delay", "stop"} =>
            known = features /\ camera \in {"idle", "recording"}
       /\ cameraTask \in {"on", "delay", "stop"} /\ "start" \in features => camera = "recording"
       /\ cameraTask = "close" => camera \notin {"recording", "boots"}

\* What a camera does with a command, one fact per case.
LEMMA Hearing ==
  ASSUME NEW c \in {"start", "stop", "button"}
  PROVE  /\ cableCut \/ c \notin features => Told(c) = camera
         /\ camera \notin {"idle", "recording"} => Told(c) = camera
         /\ ~cableCut /\ c \in features /\ camera = "idle" =>
              Told(c) = IF c \in {"start", "button"} THEN "recording" ELSE "idle"
         /\ ~cableCut /\ c \in features /\ camera = "recording" =>
              Told(c) = IF c \in {"stop", "button"} THEN "closing" ELSE "recording"
<1>1. CASE c = "start"
  BY <1>1, Zenon DEF Told
<1>2. CASE c = "stop"
  BY <1>2, Zenon DEF Told
<1>3. CASE c = "button"
  BY <1>3, Zenon DEF Told
<1> QED
  BY <1>1, <1>2, <1>3

LEMMA InitCamera == CameraInit => CameraInv
BY DEF CameraInit, CameraInv, FileKept

LEMMA CameraStep == CameraInv /\ [CameraNext]_cameraVars => CameraInv'
<1> SUFFICES ASSUME CameraInv, [CameraNext]_cameraVars
             PROVE  CameraInv'
  OBVIOUS
<1> USE DEF CameraInv, FileKept, CanStop, link
<1>1. CASE CameraBoots \/ FileCloses \/ CableBreaks
  BY <1>1 DEF CameraBoots, FileCloses, CableBreaks
<1>2. CASE ResetCamera \/ CameraOn
  BY <1>2 DEF ResetCamera, CameraOn
<1>3. CASE DeviceInfo
  BY <1>3 DEF DeviceInfo
<1>4. CASE StartRecording
  BY <1>4, Hearing DEF StartRecording
<1>5. CASE AwaitSafe \/ OffDelay
  BY <1>5 DEF AwaitSafe, OffDelay
<1>6. CASE StopRecording
  <2>1. CASE "stop" \in known \/ {"start", "button"} \subseteq known
    BY <1>6, <2>1, Hearing DEF StopRecording
  <2>2. CASE ~("stop" \in known \/ {"start", "button"} \subseteq known)
    BY <1>6, <2>2 DEF StopRecording, CutPower
  <2> QED
    BY <2>1, <2>2
<1>7. CASE CloseDelay
  BY <1>7 DEF CloseDelay, CutPower
<1>8. ASSUME NEW s \in {"armed", "safe"}, ReceiveArming(s)
      PROVE  CameraInv'
  BY <1>8 DEF ReceiveArming
<1>9. CASE UNCHANGED cameraVars
  BY <1>9 DEF cameraVars
<1> QED
  BY <1>1, <1>2, <1>3, <1>4, <1>5, <1>6, <1>7, <1>8, <1>9 DEF CameraNext, CameraTask

\* The camera board cuts off a recording only when the cable to the camera was cut, or when the
\* camera cannot be told to stop and began by itself or at the command to start: the button alone
\* never begins what the power then cuts off (tasks/camera.rs, runcam.rs).
THEOREM KeptFiles == CameraInit /\ [][CameraNext]_cameraVars => []FileKept
<1>1. CameraInv => FileKept
  BY DEF CameraInv
<1> QED
  BY <1>1, InitCamera, CameraStep, PTL

-----------------------------------------------------------------------------
(* The LOX valve board: who may move the valve.                            *)

\* The tasks that move and read the valve exist once the board is ready, the
\* offset is stored by then, and nothing touches it or the two flags again.
HomedInv ==
  /\ controller # "none" => boot = "ready"
  /\ boot = "ready" => home = 0 /\ "READY" \in status /\ "INITIALIZING" \notin status
  /\ boot # "ready" => controller = "none"

LEMMA InitHomed == Init => HomedInv
BY DEF Init, HomedInv

LEMMA HomedStep == HomedInv /\ [Next]_vars => HomedInv'
<1> SUFFICES ASSUME HomedInv, [Next]_vars
             PROVE  HomedInv'
  OBVIOUS
<1> USE DEF HomedInv, driveVars, taskVars, bootUnchanged
<1>1. CASE DriveBoots \/ DriveFaults \/ DriveMoves
  BY <1>1 DEF DriveBoots, DriveFaults, DriveMoves
<1>2. CASE Initialize
  <2>1. CASE MotorReady \/ MotorInFault \/ MotorNotYetReady
    BY <2>1 DEF MotorReady, MotorInFault, MotorNotYetReady, Succeeded
  <2>2. CASE StatusFails \/ ResetNode \/ AskAgain
    BY <2>2 DEF StatusFails, ResetNode, AskAgain, Succeeded, Failed
  <2>3. CASE SetUp
    BY <2>3 DEF SetUp, Setup, After, Succeeded
  <2>4. CASE SetUpFails
    BY <2>4 DEF SetUpFails, Setup
  <2>5. CASE HomingStep
    BY <2>5 DEF HomingStep
  <2>6. CASE HomingEnds
    BY <2>6 DEF HomingEnds
  <2>7. CASE HomingFails
    BY <2>7 DEF HomingFails
  <2> QED
    BY <1>2, <2>1, <2>2, <2>3, <2>4, <2>5, <2>6, <2>7 DEF Initialize
<1>3. ASSUME NEW p \in Position, WriteTarget(p)
      PROVE  HomedInv'
  BY <1>3 DEF WriteTarget
<1>4. CASE Control
  <2>1. CASE TargetChanged
    BY <2>1 DEF TargetChanged
  <2>2. CASE StartMove
    BY <2>2 DEF StartMove
  <2>3. CASE Move
    BY <2>3 DEF Move, MoveEnds, Succeeded, Failed
  <2> QED
    BY <1>4, <2>1, <2>2, <2>3 DEF Control
<1>5. CASE Update
  <2>1. CASE StartRead \/ NextRead
    BY <2>1 DEF StartRead, NextRead
  <2>2. CASE ReadPosition
    BY <2>2 DEF ReadPosition, Succeeded, Failed
  <2> QED
    BY <1>5, <2>1, <2>2 DEF Update
<1>6. CASE UNCHANGED vars
  BY <1>6 DEF vars
<1> QED
  BY <1>1, <1>2, <1>3, <1>4, <1>5, <1>6 DEF Next

\* The valve is moved for the master only by a board that reports READY and
\* has found the endstop, whatever fails on the way there (main,
\* find_and_calibrate_home).
THEOREM OnlyHomedMoves == Spec => []MovedOnlyWhenHomed
<1>1. HomedInv => MovedOnlyWhenHomed
  BY DEF HomedInv, MovedOnlyWhenHomed
<1> QED
  BY <1>1, InitHomed, HomedStep, PTL DEF Spec
=============================================================================
