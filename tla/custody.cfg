SPECIFICATION FairSpec
CONSTANTS
    gate = gate
    push = push
    NoProc = NoProc
    Nothing = Nothing
    Procs <- TwoHarnesses
    MaxWindows = 2
    MaxOthers = 1
    MaxEdits = 1
    MaxFaults = 1
    MaxKills = 1
INVARIANTS
    TcTypeOK
    SuiteSeesNoMutant
    MutantOnRecord
PROPERTY CommandEnds
CHECK_DEADLOCK FALSE
