----------------------------- MODULE MCSshBatch -----------------------------
(* Batches of fewer targets than threads, as many, and more, for TLC: with  *)
(* --fail-fast and a time limit, or with neither.                           *)
EXTENDS SshBatch

CONSTANTS e1, e2, e3, e4

UpToFour == {<<e1>>, <<e1, e2>>, <<e1, e2, e3>>, <<e1, e2, e3, e4>>}

VARIABLE limited  \* --fail-fast and --timeout are given

\* The same batch with neither.
Collecting == INSTANCE SshBatch WITH FailFast <- FALSE, Timeout <- FALSE

BothInit == Init /\ limited \in BOOLEAN

BothNext ==
    \/ limited /\ Next /\ UNCHANGED limited
    \/ ~ limited /\ Collecting!Next /\ UNCHANGED limited

BothFairness ==
    /\ \A w \in Worker : WF_vars(limited /\ Step(w))
    /\ \A w \in Worker : WF_vars(~ limited /\ Collecting!Step(w))
    /\ WF_vars(Join \/ Collect)

BothSpec == BothInit /\ [][BothNext]_<<vars, limited>> /\ BothFairness

-----------------------------------------------------------------------------

\* Without --fail-fast a failure stops nothing: a target is left out of a
\* batch only when it was cancelled.
CollectsAll ==
    [][~ limited => Collecting!Contract!Next \/ UNCHANGED Contract!vars]_<<vars, limited>>

\* A batch that is cancelled ends, and one with a time limit per target.
BatchEnds == CancelledBatchEnds /\ (limited => TimedBatchEnds)
=============================================================================
