\* One process runs every command in turn; git and the disk may refuse.
SPECIFICATION Spec
CONSTANTS
    p1 = p1
    p2 = p2
    p3mid = p3mid
    p5base = p5base
    NoProc = NoProc
    Procs <- OneProc
    May <- Everything
    Milestones <- TwoMilestones
    MilestonePhase <- PhaseOfMilestone
    MilestoneGate <- GateOfMilestone
    StartPhase = 6
    MaxRuns = 4
    MaxFaults = 1
    MaxCrashes = 0
    MaxRewrites = 0
INVARIANTS
    TypeOK
    NoGhostPhase
    RecordNamesHandover
    GateMeansCommitted
    MilestoneMeansPushed
PROPERTIES
    PhaseMovesByOne
    SuccessLeavesRecord
    EntryGateHonoured
    CommitsFormLedger
