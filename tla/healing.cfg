SPECIFICATION Spec
CONSTANTS
    p1 = p1
    p2 = p2
    p3mid = p3mid
    p5base = p5base
    NoProc = NoProc
    Procs <- TwoProcs
    May <- ReviewedPhases
    Milestones <- OneMilestone
    MilestonePhase <- PhaseOfMilestone
    MilestoneGate <- GateOfMilestone
    StartPhase = 2
    MaxRuns = 2
    MaxFaults = 1
    MaxCrashes = 1
    MaxRewrites = 1
INVARIANTS
    PublishIsFresh
PROPERTIES
    HealOnlyDangling
