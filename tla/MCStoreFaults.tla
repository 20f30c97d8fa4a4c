--------------------------- MODULE MCStoreFaults ----------------------------
\* Store under two kinds of trouble in one run: calls fail, or processes die and
\* leave temporary files that take the names their successors would use.
EXTENDS StoreSafety

VARIABLE trouble \* which of the two; it does not change

Dying == INSTANCE StoreSafety WITH Env <- {"crash"}, MaxOps <- 2

Troubled == <<vars, trouble>>
TroubledInit == Init /\ trouble \in {"calls fail", "processes die"}
TroubledNext == /\ \/ trouble = "calls fail" /\ Next
                   \/ trouble = "processes die" /\ Dying!Next
                /\ UNCHANGED trouble
TroubledSpec == /\ TroubledInit /\ [][TroubledNext]_Troubled
                /\ \A p \in Proc : /\ WF_vars(trouble = "calls fail" /\ Step(p))
                                  /\ WF_vars(trouble = "processes die" /\ Dying!Step(p))
                                  /\ WF_vars(Close(p))

\* Only the dead, and failures of the cleanup itself, leave files behind.
HandledLeaveNothing == trouble = "calls fail" => NoLeftovers

\* Dead processes do not stop later ones: see FailsOnlyWhenFull in StoreSafety.
DeadBlockNobody == trouble = "processes die" => Dying!FailsOnlyWhenFull
=============================================================================
