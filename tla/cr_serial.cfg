SPECIFICATION Spec
CONSTANTS
    p1 = p1
    p2 = p2
    fr1 = fr1
    fr2 = fr2
    NoTmp = NoTmp
    Partial = Partial
    Procs <- OneProc
    Files <- OneTicket
    Frs <- TwoFrs
    MaxVerdicts = 1
    MaxTickets = 1
    StartStatus <- Fresh
    MaxRuns = 7
    MaxFaults = 1
    MaxCrashes = 1
INVARIANTS
    CrTypeOK
    ClosedIsLogged
PROPERTIES
    ClosedWasGated
    TerminalIsFinal
    CutOffIsJournalled
    FollowsLifecycle
