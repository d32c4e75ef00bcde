----------------------------- MODULE CameraBoard -----------------------------
(***************************************************************************)
(* The camera board: power and recording of a camera that follow the       *)
(* flight computer's arming, and the camera itself, which may record by    *)
(* itself whenever it has power and tells over a cable what it can be told *)
(* to do.                                                                  *)
(***************************************************************************)
EXTENDS EmbassyWatch

Feature == {"start", "stop", "button"}   \* Features: the button starts and stops

CONSTANT Cameras   \* the kinds of camera: what they can do

ASSUME CameraAssumption == Cameras \subseteq SUBSET Feature

VARIABLES
  features,      \* what the camera can do
  autoRecord,    \* it records by itself once it has booted
  camera,        \* "off", "boots", "idle", "recording", "closing" a file
  cableCut,      \* nothing passes between camera and board
  fcArming,      \* FC_ARMING
  cameraTask,    \* where the camera task awaits
  known,         \* the features the camera has told
  cutShort       \* history: the task itself has cut off a recording

link       == <<features, autoRecord, cableCut>>
cameraVars == <<link, camera, fcArming, cameraTask, known, cutShort>>

CameraInit ==
  /\ features \in Cameras /\ autoRecord \in BOOLEAN /\ cableCut = FALSE
  /\ camera = "off" /\ fcArming = EmptyWatch /\ cameraTask = "off" /\ known = {} /\ cutShort = FALSE

-----------------------------------------------------------------------------
(* The camera.                                                             *)

CameraBoots ==
  /\ camera = "boots"
  /\ camera' = IF autoRecord THEN "recording" ELSE "idle"
  /\ UNCHANGED <<link, fcArming, cameraTask, known, cutShort>>

FileCloses ==
  /\ camera = "closing" /\ camera' = "idle"
  /\ UNCHANGED <<link, fcArming, cameraTask, known, cutShort>>

CableBreaks ==
  /\ ~cableCut /\ cableCut' = TRUE
  /\ UNCHANGED <<features, autoRecord, camera, fcArming, cameraTask, known, cutShort>>

\* What a command does to a camera that hears it: the button toggles.
Told(command) ==
  IF cableCut \/ command \notin features THEN camera
  ELSE CASE camera = "idle" /\ command \in {"start", "button"} -> "recording"
         [] camera = "recording" /\ command \in {"stop", "button"} -> "closing"
         [] OTHER -> camera

-----------------------------------------------------------------------------
(* The board.                                                              *)

\* rx: the arming in the flight computer's status.
ReceiveArming(s) ==
  /\ fcArming' = Send(s)
  /\ UNCHANGED <<link, camera, cameraTask, known, cutShort>>

\* ResetAll: start-up takes the power away until the flight computer's next status.
ResetCamera ==
  /\ camera' = "off" /\ fcArming' = EmptyWatch /\ cameraTask' = "off" /\ known' = {} /\ cutShort' = FALSE
  /\ UNCHANGED link

\* changed_and: a value that does not match stays unseen.
Hears(s) == fcArming.new /\ fcArming.val = s

CameraOn ==
  /\ cameraTask = "off" /\ Hears("armed") /\ fcArming' = Seen(fcArming)
  /\ camera' = "boots" /\ cameraTask' = "booting"
  /\ UNCHANGED <<link, known, cutShort>>

\* wait_until_booted: asked until it answers, longer than any camera takes to boot.
DeviceInfo ==
  /\ cameraTask = "booting"
  /\ \/ ~cableCut /\ camera # "boots" /\ known' = features /\ cameraTask' = "start"
     \/ cableCut /\ known' = {} /\ cameraTask' = "on"
  /\ UNCHANGED <<link, camera, fcArming, cutShort>>

StartRecording ==
  /\ cameraTask = "start" /\ cameraTask' = "on"
  /\ camera' = Told("start")
  /\ UNCHANGED <<link, fcArming, known, cutShort>>

AwaitSafe ==
  /\ cameraTask = "on" /\ Hears("safe") /\ fcArming' = Seen(fcArming)
  /\ cameraTask' = "delay"
  /\ UNCHANGED <<link, camera, known, cutShort>>

\* with_timeout polls the Watch before the timer.
OffDelay ==
  /\ cameraTask = "delay"
  /\ IF Hears("armed") THEN cameraTask' = "on" /\ fcArming' = Seen(fcArming)
     ELSE cameraTask' = "stop" /\ UNCHANGED fcArming
  /\ UNCHANGED <<link, camera, known, cutShort>>

CutPower ==
  /\ camera' = "off" /\ cameraTask' = "off" /\ known' = {}
  /\ cutShort' = (cutShort \/ camera \in {"recording", "closing"})
  /\ UNCHANGED <<link, fcArming>>

\* Mutant: the button is pressed whether or not the recording could be started.
StopWithButton ==
  /\ cameraTask = "stop"
  /\ IF known \cap {"stop", "button"} # {}
     THEN /\ camera' = Told(IF "stop" \in known THEN "stop" ELSE "button") /\ cameraTask' = "close"
          /\ UNCHANGED <<link, fcArming, known, cutShort>>
     ELSE CutPower

\* stop_recording; a camera that cannot be told so loses power at once.
StopRecording ==
  /\ cameraTask = "stop"
  /\ IF "stop" \in known \/ {"start", "button"} \subseteq known
     THEN /\ camera' = Told(IF "stop" \in known THEN "stop" ELSE "button") /\ cameraTask' = "close"
          /\ UNCHANGED <<link, fcArming, known, cutShort>>
     ELSE CutPower

\* FILE_CLOSE_DELAY is over: the camera has closed its file.
CloseDelay == cameraTask = "close" /\ camera # "closing" /\ CutPower

CameraTask ==
  CameraOn \/ DeviceInfo \/ StartRecording \/ AwaitSafe \/ OffDelay \/ StopRecording \/ CloseDelay

CameraNext ==
  \/ CameraBoots \/ FileCloses \/ CableBreaks \/ ResetCamera \/ CameraTask
  \/ \E s \in {"armed", "safe"} : ReceiveArming(s)

-----------------------------------------------------------------------------
(* Properties.                                                             *)

CanStop == "stop" \in features \/ {"start", "button"} \subseteq features

\* The task itself cuts off a recording only if the camera cannot be told to stop, for what it
\* is or for a broken cable: however arming and re-arming fall into start-up, off delay and
\* the closing of the file, the button never starts what the power then cuts off.  What is cut
\* off began by itself or by the command to start.
FileKept == cutShort => cableCut \/ (~CanStop /\ (autoRecord \/ "start" \in features))

\* Where the camera comes to rest once nothing changes any more around the board: recording
\* while the flight computer is armed, if it can be told so or does so by itself, without power
\* while it is safe or not heard of.
CameraSettled ==
  IF fcArming.val = "armed"
  THEN camera = "recording" \/ (camera = "idle" /\ ~autoRecord /\ (cableCut \/ "start" \notin features))
  ELSE camera = "off"

cameraInputs == <<fcArming.val, cableCut>>
=============================================================================
