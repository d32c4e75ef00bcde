------------------------- MODULE MCCarrierReadouts --------------------------
(* The readouts of the two sensor carriers and the CAN tasks of carrier v2 *)
(* for TLC: five specifications that share nothing, of which a behaviour   *)
(* runs one.  The others keep an initial state of which their properties   *)
(* promise nothing: sensors unplugged or without a fix, bus stalled.       *)
EXTENDS BusReadout, ImuReadout, GnssReadout, SensorNodes, SensorCan

VARIABLE part    \* the specification that runs

MCRank == [t \in Task |-> CASE t = "field" -> 2 [] t = "status" -> 1 [] OTHER -> 0]

Init ==
    /\ part \in {"bus", "imu", "gnss", "nodes", "can"}
    /\ BusInit /\ (part # "bus" => present = {})
    /\ ImuInit /\ (part # "imu" => mode = "bypass")
    /\ GnssInit /\ (part # "gnss" => ~receiver.on)
    /\ NodesInit /\ (part # "nodes" => kind = "gnss" /\ health = [s \in Node |-> "nofix"])
    /\ CanInit /\ (part # "can" => bus = "stalled")

BusStep(A) == part = "bus" /\ A /\ UNCHANGED <<part, imuVars, gnssVars, nodeVars, canVars>>
ImuStep(A) == part = "imu" /\ A /\ UNCHANGED <<part, busVars, gnssVars, nodeVars, canVars>>
GnssStep(A) == part = "gnss" /\ A /\ UNCHANGED <<part, busVars, imuVars, nodeVars, canVars>>
NodesStep(A) == part = "nodes" /\ A /\ UNCHANGED <<part, busVars, imuVars, gnssVars, canVars>>
CanStep(A) == part = "can" /\ A /\ UNCHANGED <<part, busVars, imuVars, gnssVars, nodeVars>>

Next ==
    \/ BusStep(BusNext) \/ ImuStep(ImuNext) \/ GnssStep(GnssNext)
    \/ NodesStep(NodesNext) \/ CanStep(CanNext)

vars == <<part, busVars, imuVars, gnssVars, nodeVars, canVars>>

\* The fairness of each module, while it is the one that runs.
Fairness ==
    /\ \A s \in Sensors : WF_busVars(part = "bus" /\ BusTask(s))
    /\ WF_imuVars(part = "imu" /\ ImuTask)
    /\ WF_imuVars(part = "imu" /\ Period)
    /\ WF_imuVars(part = "imu" /\ GyroWord)
    /\ WF_gnssVars(part = "gnss" /\ GnssTask)
    /\ WF_gnssVars(part = "gnss" /\ Epoch)
    /\ WF_nodeVars(part = "nodes" /\ TickNodes)
    /\ \A s \in Node : WF_nodeVars(part = "nodes" /\ NodeTask(s))
    /\ WF_canVars(part = "can" /\ \E t \in Task : CanTask(t))
    /\ WF_canVars(part = "can" /\ Carry)
    /\ WF_canVars(part = "can" /\ TickCan)

Spec == Init /\ [][Next]_vars /\ Fairness

-----------------------------------------------------------------------------
(* A sensor on a shared bus that stays there is read again and again, and  *)
(* one that is gone is shown Inactive (readout/mod.rs, buses.rs); a        *)
(* stopped FIFO is configured again (imu.rs run); a powered receiver is    *)
(* read again (gnss.rs run, configure).  On carrier v2 a sensor that stays *)
(* good is active and its driver publishes (sensors/*.rs run), and once    *)
(* the bus keeps up the status on it becomes true (can_impl.rs).           *)
ReadoutsRecover ==
    /\ ReadAgain /\ GoneIsShown
    /\ []<>(part = "imu" => FifoRuns)
    /\ ReceiverUsed
    /\ NodesSettle
    /\ CanSettles
=============================================================================
