SPECIFICATION Spec
CONSTANTS
    p1 = p1
    p2 = p2
    p3mid = p3mid
    p5base = p5base
    NoProc = NoProc
    Procs <- TwoProcs
    May <- AdvanceBesidePush
    Milestones <- OneMilestone
    MilestonePhase <- PhaseOfMilestone
    MilestoneGate <- GateOfMilestone
    StartPhase = 7
    MaxRuns = 2
    MaxFaults = 1
    MaxCrashes = 0
    MaxRewrites = 0
PROPERTIES
    MilestoneHeadKept
