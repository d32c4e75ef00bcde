----------------------------- MODULE CatsInputs -----------------------------
(***************************************************************************)
(* The inputs of the recovery board that only report: the two pins of the  *)
(* CATS backup computer (cats.rs), the arming pin, and the status frame    *)
(* that collects once per second what the other tasks published            *)
(* (can_tx_task).  The CATS and the arming switch are external: a pin is   *)
(* high while there is no power for the servos, low while armed; a         *)
(* deployment takes the power away for a tick (10 ms) and gives it back.   *)
(* Tasks that are ready run before time goes on.                           *)
(***************************************************************************)
EXTENDS Integers

CONSTANTS
    Pins,          \* cats_separation, cats_deployment
    SettleTicks,   \* the 20 ms of detect
    StatusPeriod,  \* STATUS_CREATION_INTERVAL
    MaxFlips       \* bound on what happens to the pins

ASSUME CatsAssumption ==
    SettleTicks \in Nat \ {0} /\ StatusPeriod \in Nat /\ MaxFlips \in Nat

Sources == {"separation", "deployment", "steering", "watchdog", "arming"}

VARIABLES
    level,      \* of each CATS pin: high, low
    rose,       \* an edge that a waiting detector has not been polled for
    pulse,      \* ticks until the CATS gives the power back, 0: no deployment under way
    detector,   \* detect: unarmed, armed, settle, deployed
    settle,     \* ticks left of its timer
    state,      \* OUTPUTS.cats_separation / cats_deployment
    fired,      \* the CATS has deployed since it was armed (history)
    blinked,    \* it was disarmed and armed again, or fired again, within the timer (history)
    low,        \* ticks the pin has been low (history)
    published,  \* the Watches the status task reads: [val, new] per source
    known,      \* its local copies
    shown,      \* the last status frame on the bus
    sent,       \* the last frame built got there (history)
    due,        \* ticks until the next frame
    flips

pinVars == <<level, rose, pulse, detector, settle, state, fired, blinked, low>>
statusVars == <<published, known, shown, sent, due>>
catsVars == <<pinVars, statusVars, flips>>

Flip == flips < MaxFlips /\ flips' = flips + 1

-----------------------------------------------------------------------------
(* The CATS (external)                                                     *)

Raise(p) ==
    /\ level' = [level EXCEPT ![p] = "high"]
    /\ rose' = [rose EXCEPT ![p] = TRUE]
    /\ low' = [low EXCEPT ![p] = 0]
Lower(p) ==
    /\ level' = [level EXCEPT ![p] = "low"] /\ UNCHANGED rose
    /\ low' = [low EXCEPT ![p] = 0]

Arm(p) ==
    /\ Flip /\ level[p] = "high" /\ pulse[p] = 0
    /\ Lower(p)
    /\ fired' = [fired EXCEPT ![p] = FALSE]
    /\ blinked' = [blinked EXCEPT ![p] = detector[p] = "settle" \/ rose[p]]
    /\ UNCHANGED <<pulse, detector, settle, state, statusVars>>

Disarm(p) ==
    /\ Flip /\ (level[p] = "low" \/ pulse[p] > 0)
    /\ Raise(p)
    /\ pulse' = [pulse EXCEPT ![p] = 0]
    /\ fired' = [fired EXCEPT ![p] = FALSE]
    /\ blinked' = [blinked EXCEPT ![p] = FALSE]
    /\ UNCHANGED <<detector, settle, state, statusVars>>

\* One deployment per arming.
Fire(p) ==
    /\ Flip /\ level[p] = "low" /\ ~fired[p]
    /\ Raise(p)
    /\ pulse' = [pulse EXCEPT ![p] = 1]
    /\ fired' = [fired EXCEPT ![p] = TRUE]
    /\ blinked' = [blinked EXCEPT ![p] = @ \/ detector[p] # "armed"]
    /\ UNCHANGED <<detector, settle, state, statusVars>>

-----------------------------------------------------------------------------
(* detect                                                                  *)

Enter(p, d, s) ==
    /\ detector' = [detector EXCEPT ![p] = d]
    /\ state' = [state EXCEPT ![p] = s]

DetectArmed(p) ==
    /\ detector[p] = "unarmed" /\ level[p] = "low"
    /\ Enter(p, "armed", "NotYetDeployed")
    /\ rose' = [rose EXCEPT ![p] = FALSE]
    /\ UNCHANGED <<level, pulse, settle, fired, blinked, low, statusVars, flips>>

\* wait_for_high: high now, or an edge since the wait began.
High(p) == level[p] = "high" \/ rose[p]

DetectRise(p) ==
    /\ detector[p] = "armed" /\ High(p)
    /\ Enter(p, "settle", state[p])
    /\ settle' = [settle EXCEPT ![p] = SettleTicks]
    /\ UNCHANGED <<level, rose, pulse, fired, blinked, low, statusVars, flips>>

\* Mutant: the power is looked at before the CATS had time to give it back.
DetectOutcomeEarly(p) ==
    /\ detector[p] = "settle"
    /\ IF level[p] = "high" THEN Enter(p, "unarmed", "Unarmed")
                            ELSE Enter(p, "deployed", "Deployed")
    /\ rose' = [rose EXCEPT ![p] = FALSE]
    /\ UNCHANGED <<level, pulse, settle, fired, blinked, low, statusVars, flips>>

DetectOutcome(p) ==
    /\ detector[p] = "settle" /\ settle[p] = 0
    /\ IF level[p] = "high" THEN Enter(p, "unarmed", "Unarmed")
                            ELSE Enter(p, "deployed", "Deployed")
    /\ rose' = [rose EXCEPT ![p] = FALSE]
    /\ UNCHANGED <<level, pulse, settle, fired, blinked, low, statusVars, flips>>

DetectDisarmed(p) ==
    /\ detector[p] = "deployed" /\ High(p)
    /\ Enter(p, "unarmed", "Unarmed")
    /\ UNCHANGED <<level, rose, pulse, settle, fired, blinked, low, statusVars, flips>>

Detect(p) == DetectArmed(p) \/ DetectRise(p) \/ DetectOutcome(p) \/ DetectDisarmed(p)

-----------------------------------------------------------------------------
(* The status frame                                                        *)

\* A task publishes: arming_detection_task its pin, the others what they do.
Publish(s) ==
    /\ Flip
    /\ published' = [published EXCEPT ![s] = [val |-> 1 - @.val, new |-> TRUE]]
    /\ UNCHANGED <<pinVars, known, shown, sent, due>>

\* try_changed of each source; what did not change keeps its last value.
Collect ==
    [s \in Sources |-> IF published[s].new THEN published[s].val ELSE known[s]]

\* The frame is sent, or the transmitter times out: the copies are kept all the same.
SendStatus ==
    /\ due = 0
    /\ known' = Collect
    /\ published' = [s \in Sources |-> [published[s] EXCEPT !.new = FALSE]]
    /\ \/ sent' = TRUE /\ shown' = Collect
       \/ sent' = FALSE /\ UNCHANGED shown
    /\ due' = StatusPeriod
    /\ UNCHANGED <<pinVars, flips>>

-----------------------------------------------------------------------------
CatsTick ==
    /\ due > 0
    /\ \A p \in Pins :
          /\ ~(detector[p] = "unarmed" /\ level[p] = "low")
          /\ ~(detector[p] \in {"armed", "deployed"} /\ High(p))
          /\ ~(detector[p] = "settle" /\ settle[p] = 0)
    /\ due' = due - 1
    /\ settle' = [p \in Pins |-> IF detector[p] = "settle" THEN settle[p] - 1 ELSE 0]
    /\ level' = [p \in Pins |-> IF pulse[p] = 1 THEN "low" ELSE level[p]]
    /\ pulse' = [p \in Pins |-> 0]
    /\ low' = [p \in Pins |-> IF pulse[p] = 1 \/ level[p] = "high" THEN 0
                              ELSE IF low[p] < SettleTicks THEN low[p] + 1 ELSE low[p]]
    /\ UNCHANGED <<rose, detector, state, fired, blinked, published, known, shown, sent, flips>>

CatsInit ==
    /\ level = [p \in Pins |-> "high"] /\ rose = [p \in Pins |-> FALSE]
    /\ pulse = [p \in Pins |-> 0] /\ detector = [p \in Pins |-> "unarmed"]
    /\ settle = [p \in Pins |-> 0] /\ state = [p \in Pins |-> "Unarmed"]
    /\ fired = [p \in Pins |-> FALSE] /\ blinked = [p \in Pins |-> FALSE]
    /\ low = [p \in Pins |-> 0]
    /\ published = [s \in Sources |-> [val |-> 0, new |-> FALSE]]
    /\ known = [s \in Sources |-> 0] /\ shown = known
    /\ sent = FALSE /\ due = StatusPeriod /\ flips = 0

CatsNext ==
    \/ \E p \in Pins : Arm(p) \/ Disarm(p) \/ Fire(p) \/ Detect(p)
    \/ \E s \in Sources : Publish(s)
    \/ SendStatus \/ CatsTick

CatsSpec == CatsInit /\ [][CatsNext]_catsVars
-----------------------------------------------------------------------------
(* Deployed is reported when the CATS has deployed, and stays reported     *)
(* until it is disarmed; a deployment that has its power back for the      *)
(* length of the timer is reported.  Neither holds when the CATS is        *)
(* disarmed and armed again within the 20 ms, which reads as a deployment  *)
(* (detect).  A status frame that gets on the bus shows the latest of      *)
(* every source, however many frames before it were lost (can_tx_task).    *)
CatsReported ==
    /\ \A p \in Pins :
        /\ state[p] = "Deployed" => fired[p] \/ blinked[p] \/ High(p)
        /\ fired[p] /\ low[p] >= SettleTicks => state[p] = "Deployed" \/ blinked[p]
    /\ sent => \A s \in Sources : shown[s] = published[s].val \/ published[s].new
=============================================================================
