-------------------------- MODULE MCPhasePipeline --------------------------
(***************************************************************************)
(* Small instances of PhasePipeline.                                       *)
(***************************************************************************)
EXTENDS PhasePipeline

CONSTANTS p1, p2, p3mid, p5base

OneProc == {p1}
TwoProcs == {p1, p2}

Everything == [p \in Procs |-> Commands]
AdvanceOnly == [p \in Procs |-> {"advance"}]
ReviewedPhases == [p \in Procs |-> {"advance", "checkpoint"}]
AdvanceOrPush ==
    [p \in Procs |-> IF p = p1 THEN {"advance"} ELSE {"advance", "milestone", "finalize"}]
AdvanceBesidePush ==
    [p \in Procs |-> IF p = p1 THEN {"advance"} ELSE {"milestone", "finalize"}]

OneMilestone == {p3mid}
TwoMilestones == {p3mid, p5base}
PhaseOfMilestone == [m \in Milestones |-> IF m = p5base THEN 5 ELSE 3]
GateOfMilestone == [m \in Milestones |-> IF m = p5base THEN 3 ELSE 0]
============================================================================
