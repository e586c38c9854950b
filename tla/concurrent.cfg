SPECIFICATION FairSpec
CONSTANTS
    p1 = p1
    p2 = p2
    p3mid = p3mid
    p5base = p5base
    NoProc = NoProc
    Procs <- TwoProcs
    May <- AdvanceOrPush
    Milestones <- OneMilestone
    MilestonePhase <- PhaseOfMilestone
    MilestoneGate <- GateOfMilestone
    StartPhase = 7
    MaxRuns = 2
    MaxFaults = 0
    MaxCrashes = 1
    MaxRewrites = 0
INVARIANTS
    PublishIsFresh
    LockDiscipline
    RecordNamesHandover
PROPERTIES
    CommandsEnd
