--------------------------- MODULE MCCarrierData ----------------------------
(* What sensor carrier v3 does with its readings and settings, for TLC:    *)
(* four specifications that share nothing, of which a behaviour runs one.  *)
EXTENDS CsvLog, SdLog, CarrierBus, CalStore

VARIABLE part    \* the specification that runs

MCCapacity == <<2, 1>>

Init ==
    /\ part \in {"csv", "sd", "bus", "cal"}
    /\ CsvInit /\ (part # "csv" => used = 1)
    /\ SdInit /\ CarrierInit
    /\ StoreInit /\ (part # "cal" => \A i \in 1..2 : data[0][i] = Record("imu", "old", "whole"))

CsvStep(A) == part = "csv" /\ A /\ UNCHANGED <<part, sdVars, carrierVars, storeVars>>
SdStep(A) == part = "sd" /\ A /\ UNCHANGED <<part, csvVars, carrierVars, storeVars>>
BusStep(A) == part = "bus" /\ A /\ UNCHANGED <<part, csvVars, sdVars, storeVars>>
CalStep(A) == part = "cal" /\ A /\ UNCHANGED <<part, csvVars, sdVars, carrierVars>>

Next == CsvStep(CsvNext) \/ SdStep(SdNext) \/ BusStep(CarrierNext) \/ CalStep(StoreNext)

vars == <<part, csvVars, sdVars, carrierVars, storeVars>>

\* The fairness of SdLog and CarrierBus.  part never changes, so that one condition can stand
\* for one condition of each part.
Fairness ==
    /\ WF_vars(BusStep(SefUpdate) \/ SdStep(PeriodPasses))
    /\ WF_vars(BusStep(CanImu) \/ SdStep(StartSession))
    /\ WF_vars(BusStep(CanPressure) \/ SdStep(Retry))
    /\ WF_vars(BusStep(BusTakes) \/ SdStep(Session))
    /\ WF_vars(BusStep(Tick))
    /\ \A i \in Unit : WF_vars(BusStep(ImuReading(i))) /\ WF_vars(BusStep(BaroReading(i)))

Spec == Init /\ [][Next]_vars /\ Fairness

-----------------------------------------------------------------------------
(* Every reading of an SD session ends up in a flushed file or counted as  *)
(* dropped (sd_logging/mod.rs); a pair of which one sensor keeps running   *)
(* is heard on the bus for ever (selection.rs, tx.rs).                     *)
CarrierSettles ==
    /\ part = "sd" => AllOnCard
    /\ part = "bus" => HandsOver
=============================================================================
