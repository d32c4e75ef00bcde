---------------------------- MODULE MCBoardLinks ----------------------------
(* The links of the boards to their actuators, inputs, bus and host tool,  *)
(* for TLC: specifications that share nothing, of which a behaviour runs   *)
(* one.                                                                    *)
EXTENDS EposLink, RsblLink, CatsInputs, CanInputs, AsteriaTool

VARIABLE part    \* the specification that runs

MCIds == {"reset", "target", "power", "other"}
MCSupportedIds == <<"reset", "target", "power">>
MCStruct == <<[name |-> "inner", ids |-> {}, flatten |-> TRUE],
              [name |-> "steering", ids |-> {"target"}, flatten |-> FALSE]>>
MCNested == <<[name |-> "copy", ids |-> {"target"}, flatten |-> FALSE],
              [name |-> "pw", ids |-> {"power"}, flatten |-> FALSE]>>

Init ==
    /\ part \in {"epos", "rsbl", "cats", "can", "host"}
    /\ EposInit /\ LinkInit /\ CatsInit /\ CanInit /\ HostInit

EposStep(A) == part = "epos" /\ A /\ UNCHANGED <<part, linkVars, catsVars, canVars, hostVars>>
RsblStep(A) == part = "rsbl" /\ A /\ UNCHANGED <<part, eposVars, catsVars, canVars, hostVars>>
CatsStep(A) == part = "cats" /\ A /\ UNCHANGED <<part, eposVars, linkVars, canVars, hostVars>>
CanStep(A)  == part = "can" /\ A /\ UNCHANGED <<part, eposVars, linkVars, catsVars, hostVars>>
HostStep(A) == part = "host" /\ A /\ UNCHANGED <<part, eposVars, linkVars, catsVars, canVars>>

Next ==
    \/ EposStep(EposNext) \/ RsblStep(LinkNext) \/ CatsStep(CatsNext) \/ CanStep(CanNext)
    \/ HostStep(HostNext)

vars == <<part, eposVars, linkVars, catsVars, canVars, hostVars>>

Fairness ==
    /\ WF_vars(HostStep(BoardWorks /\ UNCHANGED toolVars))
    /\ WF_vars(HostStep(ToolWorks))

Spec == Init /\ [][Next]_vars /\ Fairness

\* Every command of the host tool comes to an end, and a restart it asked the board for happens.
HostConcludes == part = "host" => CommandsConclude
=============================================================================
