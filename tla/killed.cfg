SPECIFICATION FairSpec
CONSTANTS
    p1 = p1
    p2 = p2
    p3mid = p3mid
    p5base = p5base
    NoProc = NoProc
    Procs <- OneProc
    May <- AdvanceOnly
    Milestones <- OneMilestone
    MilestonePhase <- PhaseOfMilestone
    MilestoneGate <- GateOfMilestone
    StartPhase = 7
    MaxRuns = 4
    MaxFaults = 1
    MaxCrashes = 2
    MaxRewrites = 0
INVARIANTS
    HandoverNotBehind
PROPERTIES
    SuccessLeavesRecord
    CommandsEnd
