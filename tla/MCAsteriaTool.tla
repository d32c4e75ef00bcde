--------------------------- MODULE MCAsteriaTool ----------------------------
(* The test board and its host tool alone, for TLC.                        *)
EXTENDS AsteriaTool

\* The board and the tool go on with what they can do; faults and the user need not.
Fairness ==
    /\ WF_hostVars(BoardWorks /\ UNCHANGED toolVars)
    /\ WF_hostVars(ToolWorks)

Spec == HostSpec /\ Fairness
=============================================================================
