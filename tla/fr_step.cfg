SPECIFICATION FairSpec
CONSTANTS
    say = say
    Texts <- OneText
    Asked = {"TDD-GREEN", "GATE1-DELTA"}
    Fixers = {"COVERAGE-FIX"}
    Replies = {"done", "pass", "turns", "infra"}
    FixReplies = {"done", "pass", "turns", "disconnected"}
    Verdict <- RedUntilEdited
    Limit = 2
    MaxRounds = 2
    MaxStill = 1
    MaxVersions = 1
    MaxHeads = 1
    MaxRuns = 2
    MaxKills = 1
INVARIANTS
    FrTypeOK
    RepetitionBounded
    SuccessIsEvidenced
PROPERTY InvocationEnds
CHECK_DEADLOCK FALSE
