SPECIFICATION Spec
CONSTANTS
    p1 = p1
    p2 = p2
    fr1 = fr1
    fr2 = fr2
    NoTmp = NoTmp
    Partial = Partial
    Procs <- TwoProcs
    Files <- OneTicket
    Frs <- OneFr
    MaxVerdicts = 1
    MaxTickets = 1
    StartStatus <- AllVerified
    MaxRuns = 3
    MaxFaults = 1
    MaxCrashes = 1
INVARIANT ClosedHasEvidence
