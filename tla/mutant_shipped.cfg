SPECIFICATION Spec
CONSTANTS
    gate = gate
    push = push
    NoProc = NoProc
    Nothing = Nothing
    Procs <- OneHarness
    MaxWindows = 2
    MaxOthers = 1
    MaxEdits = 0
    MaxFaults = 0
    MaxKills = 1
INVARIANT NoMutantShipped
CHECK_DEADLOCK FALSE
