SPECIFICATION FairSpec
CONSTANTS
    session = session
    monitor = monitor
    hooks = hooks
    operator = operator
    NoThread = NoThread
    Procs <- OneSession
    Threads <- SessionThreads
    Home <- InSession
    May <- SessionCalls
    Threshold = 2
    MaxOps = 5
    MaxFaults = 1
    MaxCrashes = 1
INVARIANTS
    KsTypeOK
    InterruptExclusive
    ClosedBelowThreshold
    OneInterruptPerTrip
    KillSurvives
PROPERTIES
    KilledNotLetThrough
    CallsEnd
