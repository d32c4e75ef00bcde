----------------------------- MODULE SensorNodes -----------------------------
(***************************************************************************)
(* The sensor tasks of sensor carrier v2 (sensors/*.rs) and the drivers    *)
(* they feed (drivers/*.rs).  A task alternates between Inactive, which    *)
(* initialises its sensor with an exponential back-off, and Active, which  *)
(* reads it.  Two sensors feed one driver: two IMUs, magnetometers or      *)
(* receivers, of which the driver selects one, or a barometer and a        *)
(* humidity sensor ("air"), whose values it combines.                      *)
(*                                                                         *)
(* A tick is the interval of the readings; in one each task makes one      *)
(* attempt or one reading.  The filters' real numbers, the fusion and the  *)
(* calibration are left out, except for the moving average of the pressure.*)
(***************************************************************************)
EXTENDS Naturals, Sequences, Functions

CONSTANTS
  MaxNodeErrors,     \* max_consecutive_errors
  SourceTimeout,     \* timeout of the two selectors, in ticks
  Dwell,             \* GNSS_SOURCE_MIN_DWELL, in ticks
  BaseWait, MaxWait, \* base_backoff_ms and max_backoff_ms, in ticks
  TryBits, PowBits,  \* widths of the attempt counter (u8) and of its power (u32)
  Window,            \* MOVING_AVERAGE_COUNT
  Tiers, Pdops,      \* the qualities a receiver's solution may have
  MaxNodeFaults      \* bound on failures and on changes of a sensor's health

ASSUME NodesAssumption ==
  /\ MaxNodeErrors \in Nat \ {0} /\ Window \in Nat \ {0}
  /\ {SourceTimeout, Dwell, BaseWait, MaxWait, TryBits, PowBits, MaxNodeFaults} \subseteq Nat
  /\ Tiers \subseteq 1..3 /\ Pdops \subseteq Nat

Node == {1, 2}    \* of "air", 1 is the barometer and 2 the humidity sensor
Peer(s) == 3 - s

VARIABLES
  kind,      \* what the two sensors are; it never changes
  life,      \* "init": about to initialise, "wait": backing off, "run": Active
  tally, tries, wait,  \* error_count, attempt_count, what is left of the back-off
  shown,     \* the sensor's status, as status_task reports it
  health,    \* "good", "broken", "mute" (nothing arrives), "nofix" (no solution)
  polled,    \* what the task did in this tick
  upsets,    \* failures and changes of health that happened
  primary,   \* the source the selector prefers
  sinceUpdate,       \* TimeoutSelector: age of last_update
  solution, held,    \* QualitySelector: each source's state, and time since last_switch
  ring, index, sum, filled, recent, \* MovingAverage; history: the latest samples
  env,       \* EnvironmentalDriver: what was measured, and what is still zero
  quiet      \* history: ticks since the driver published or went over to the other source

lifeVars == <<life, tries, wait, shown, tally>>
selectVars == <<primary, sinceUpdate, solution, held>>
airVars == <<ring, index, sum, filled, recent, env>>
nodeVars == <<kind, lifeVars, health, polled, upsets, selectVars, airVars, quiet>>

Healths == CASE kind = "gnss" -> {"good", "broken", "mute", "nofix"}
             [] kind = "imu"  -> {"good", "broken", "mute"}
             [] OTHER         -> {"good", "broken"}

Longest == SourceTimeout + 2    \* bound on quiet
UpTo(n, bound) == IF n < bound THEN n ELSE bound

-----------------------------------------------------------------------------
(* Inactive: initialise, or back off and try again.                        *)

\* base * 2^attempt, at most max; the attempt is a u8, its power a u32 that wraps.
BackoffTime(nth) == UpTo(BaseWait * (2 ^ nth % 2 ^ PowBits), MaxWait)

Retry(s) ==
  LET nth == (tries[s] + 1) % 2 ^ TryBits
  IN /\ tries' = [tries EXCEPT ![s] = nth]
     /\ wait' = [wait EXCEPT ![s] = BackoffTime(nth)]
     /\ life' = [life EXCEPT ![s] = "wait"]

Activate2(s) ==
  /\ life' = [life EXCEPT ![s] = "run"]
  /\ shown' = [shown EXCEPT ![s] = "Active"]
  /\ tally' = [tally EXCEPT ![s] = 0]
  /\ tries' = [tries EXCEPT ![s] = 0]
  /\ UNCHANGED wait

Polled(s, what) == polled' = [polled EXCEPT ![s] = what]

Upset(s) == health[s] = "good" /\ upsets < MaxNodeFaults /\ upsets' = upsets + 1
Broken(s) == health[s] = "broken" /\ UNCHANGED upsets

\* The IMU's initialisation resets its FIFO, so that a stopped one runs again.
Initialised(s) ==
  /\ health[s] = "good" \/ (kind = "imu" /\ health[s] = "mute")
  /\ health' = [health EXCEPT ![s] = "good"]
  /\ Activate2(s)
  /\ UNCHANGED upsets

\* A receiver is not initialised but read: it becomes active with its first solution, and only
\* one error too many makes its task back off.  The tally is counted no further than that.
InitFailed(s) ==
  /\ Broken(s) \/ Upset(s)
  /\ IF kind # "gnss"
     THEN Retry(s) /\ UNCHANGED tally
     ELSE /\ tally' = [tally EXCEPT ![s] = UpTo(@ + 1, MaxNodeErrors + 1)]
          /\ IF tally[s] + 1 > MaxNodeErrors THEN Retry(s) ELSE UNCHANGED <<tries, wait, life>>
  /\ UNCHANGED <<health, shown>>

NoSolution(s) ==
  /\ kind = "gnss" /\ health[s] = "nofix"
  /\ tally' = [tally EXCEPT ![s] = 0] /\ tries' = [tries EXCEPT ![s] = 0]
  /\ UNCHANGED <<life, wait, shown, health, upsets>>

Initialise(s) ==
  /\ life[s] = "init" /\ polled[s] = "no"
  /\ Initialised(s) \/ InitFailed(s) \/ NoSolution(s)
  /\ Polled(s, "tried")
  /\ UNCHANGED <<kind, selectVars, airVars, quiet>>

-----------------------------------------------------------------------------
(* The drivers                                                             *)

\* Mutant: a rejected value counts as an update as well.
TimeoutAcceptAny(s) ==
  /\ IF primary = s \/ sinceUpdate > SourceTimeout
     THEN primary' = s /\ quiet' = 0
     ELSE UNCHANGED <<primary, quiet>>
  /\ sinceUpdate' = 0
  /\ UNCHANGED <<solution, held>>

\* TimeoutSelector::accept, of the inertial and of the magnetic field driver
TimeoutAccept(s) ==
  /\ IF primary = s \/ sinceUpdate > SourceTimeout
     THEN primary' = s /\ sinceUpdate' = 0 /\ quiet' = 0
     ELSE UNCHANGED <<primary, sinceUpdate, quiet>>
  /\ UNCHANGED <<solution, held>>

\* Of a source that is not live any more only that is known.
NoFix == [age |-> SourceTimeout + 1, tier |-> 1, pdop |-> 0]

Fresh(fx, s) == fx[s].age <= SourceTimeout

\* Whether a live source o takes over from a live primary p.
Better(p, o, dwelled) ==
  \/ o.tier > p.tier
  \/ /\ o.tier = p.tier /\ o.pdop > 0
     /\ p.pdop = 0 \/ (10 * o.pdop < 9 * p.pdop /\ dwelled >= Dwell)

ChoosePrimary(fx, p) ==
  IF Fresh(fx, Peer(p)) /\ (~Fresh(fx, p) \/ Better(fx[p], fx[Peer(p)], held))
  THEN Peer(p) ELSE p

QualityAccept(s) ==
  \E tier \in Tiers, pdop \in Pdops :
    LET seen == [solution EXCEPT ![s] = [age |-> 0, tier |-> tier, pdop |-> pdop]]
        chosen == ChoosePrimary(seen, primary)
    IN /\ solution' = seen
       /\ primary' = chosen
       /\ held' = IF chosen = primary THEN held ELSE 0
       /\ quiet' = IF chosen = s \/ chosen # primary THEN 0 ELSE quiet
       /\ UNCHANGED sinceUpdate

\* PressureDriver: the oldest of the last Window samples leaves the sum.
Average(sample) ==
  /\ sum' = sum + sample - ring[index]
  /\ ring' = [ring EXCEPT ![index] = sample]
  /\ index' = (index + 1) % Window
  /\ filled' = (filled \/ index + 1 = Window)
  /\ recent' = IF Len(recent) < Window THEN Append(recent, sample)
                                       ELSE Append(Tail(recent), sample)

\* Either sensor publishes both quantities, a zero for the one that never came.
AirUpdate(s) ==
  /\ IF s = 1 THEN \E sample \in {0, 1} : Average(sample)
              ELSE UNCHANGED <<ring, index, sum, filled, recent>>
  /\ env' = [env EXCEPT ![s] = "measured"]
  /\ quiet' = 0

Forward(s) ==
  CASE kind \in {"imu", "mag"} -> TimeoutAccept(s) /\ UNCHANGED airVars
    [] kind = "gnss" -> QualityAccept(s) /\ UNCHANGED airVars
    [] kind = "air" -> AirUpdate(s) /\ UNCHANGED selectVars

-----------------------------------------------------------------------------
(* Active: one reading.                                                    *)

\* The magnetometer's errors are counted over all of its readings: nothing takes them back.
Deliver(s) ==
  /\ health[s] = "good"
  /\ tally' = IF kind = "mag" THEN tally ELSE [tally EXCEPT ![s] = 0]
  /\ Forward(s)
  /\ Polled(s, "delivered")
  /\ UNCHANGED <<kind, life, tries, wait, shown, health, upsets>>

Offline(s) ==
  /\ life' = [life EXCEPT ![s] = "init"]
  /\ tally' = [tally EXCEPT ![s] = 0]
  /\ shown' = [shown EXCEPT ![s] = "Inactive"]

Counted(s, n) ==
  IF n >= MaxNodeErrors
  THEN Offline(s)
  ELSE tally' = [tally EXCEPT ![s] = n] /\ UNCHANGED <<life, shown>>

\* A receiver's errors are those since its last read: only a failed read, or one read full of
\* unreadable packets, takes it offline.
SensorFailed(s) ==
  /\ Broken(s) \/ Upset(s) \/ (kind = "imu" /\ health[s] = "mute" /\ UNCHANGED upsets)
  /\ \/ Counted(s, tally[s] + 1)
     \/ kind = "gnss" /\ \E garbled \in 1..MaxNodeErrors : Counted(s, garbled)
  /\ Polled(s, "tried")
  /\ UNCHANGED <<kind, tries, wait, health, selectVars, airVars, quiet>>

ReadNothing(s) ==
  /\ kind = "gnss" /\ health[s] = "nofix"
  /\ tally' = [tally EXCEPT ![s] = 0]
  /\ Polled(s, "tried")
  /\ UNCHANGED <<kind, life, tries, wait, shown, health, upsets, selectVars, airVars, quiet>>

ReadSensor(s) ==
  /\ life[s] = "run" /\ polled[s] = "no"
  /\ Deliver(s) \/ SensorFailed(s) \/ ReadNothing(s)

NodeTask(s) == Initialise(s) \/ ReadSensor(s)

-----------------------------------------------------------------------------
(* Time passes when every task waits: for its next reading, for the end of *)
(* its back-off, or for bytes that do not come.                            *)

Waits(s) == polled[s] # "no" \/ life[s] = "wait" \/ (kind = "gnss" /\ health[s] = "mute")

TickNodes ==
  /\ \A s \in Node : Waits(s)
  /\ wait' = [s \in Node |-> IF life[s] = "wait" /\ wait[s] > 0 THEN wait[s] - 1 ELSE 0]
  /\ life' = [s \in Node |-> IF life[s] = "wait" /\ wait[s] <= 1 THEN "init" ELSE life[s]]
  /\ polled' = [s \in Node |-> "no"]
  /\ sinceUpdate' = UpTo(sinceUpdate + 1, SourceTimeout + 1)
  /\ solution' = [s \in Node |-> IF solution[s].age < SourceTimeout
                                  THEN [solution[s] EXCEPT !.age = @ + 1] ELSE NoFix]
  /\ held' = UpTo(held + 1, Dwell)
  /\ quiet' = UpTo(quiet + 1, Longest)
  /\ UNCHANGED <<kind, tally, tries, shown, health, upsets, primary, airVars>>

Sicken(s) ==
  /\ health[s] = "good" /\ upsets < MaxNodeFaults
  /\ upsets' = upsets + 1
  /\ \E h \in Healths \ {"good"} : health' = [health EXCEPT ![s] = h]
  /\ UNCHANGED <<kind, lifeVars, polled, selectVars, airVars, quiet>>

Heal(s) ==
  /\ health[s] \notin {"good"}
  /\ health' = [health EXCEPT ![s] = "good"]
  /\ UNCHANGED <<kind, lifeVars, polled, upsets, selectVars, airVars, quiet>>

NodesInit ==
  /\ kind \in {"imu", "mag", "gnss", "air"}
  /\ life = [s \in Node |-> "init"] /\ tally = [s \in Node |-> 0]
  /\ tries = [s \in Node |-> 0] /\ wait = [s \in Node |-> 0]
  /\ shown = [s \in Node |-> "Inactive"]
  /\ health \in [Node -> Healths]
  /\ polled = [s \in Node |-> "no"] /\ upsets = 0
  /\ primary = 1 /\ sinceUpdate = 0
  /\ solution = [s \in Node |-> NoFix] /\ held = 0
  /\ ring = [i \in 0..Window-1 |-> 0] /\ index = 0 /\ sum = 0 /\ filled = FALSE
  /\ recent = <<>> /\ env = [s \in Node |-> "zero"]
  /\ quiet = 0

NodesNext == TickNodes \/ \E s \in Node : NodeTask(s) \/ Sicken(s) \/ Heal(s)

NodesFairness == WF_nodeVars(TickNodes) /\ \A s \in Node : WF_nodeVars(NodeTask(s))

NodesSpec == NodesInit /\ [][NodesNext]_nodeVars /\ NodesFairness

-----------------------------------------------------------------------------
(* While either sensor delivers, its driver does not stay quiet: whichever *)
(* of the two falls silent, after the selector's timeout the other one is  *)
(* used, and what it delivers is published (drivers/inertial.rs,           *)
(* magnetic_field.rs, position_velocity.rs accept).  A receiver's value    *)
(* that makes the selector go over to the other one is not published: two  *)
(* receivers whose qualities alternate may change places without a fix     *)
(* getting out.  And the pressure published is the mean of the last samples *)
(* (filters.rs).                                                           *)
KeepsPublishing ==
  /\ \A s \in Node : polled[s] = "delivered" => quiet <= SourceTimeout
  /\ sum = SumFunction(recent)
  /\ filled = (Len(recent) = Window)

(* A sensor that stays good is active and shown so, whatever happened to   *)
(* it before, and its driver publishes; one that stays broken is shown     *)
(* Inactive, unless it is a receiver (sensors/*.rs run, update_status); an *)
(* IMU whose FIFO has filled up and stopped is started again (imu.rs).     *)
NodesSettle ==
  \A s \in Node :
    /\ <>[](health[s] = "good") =>
         /\ <>[](shown[s] = "Active")
         /\ []<>(quiet = 0)
         /\ <>[](kind = "air" => env[s] = "measured")
    /\ <>[](health[s] = "broken" /\ kind # "gnss") => <>[](shown[s] = "Inactive")
    /\ ~<>[](kind = "imu" /\ health[s] = "mute")
=============================================================================
