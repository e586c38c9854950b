SPECIFICATION FairSpec
CONSTANTS
    say = say
    Texts <- OneText
    Asked = {"TDD-GREEN"}
    Fixers = {}
    Replies = {"done", "error"}
    FixReplies = {}
    Verdict <- RedUntilEdited
    Limit = 2
    MaxRounds = 1
    MaxStill = 2
    MaxVersions = 2
    MaxHeads = 1
    MaxRuns = 3
    MaxKills = 0
INVARIANT RepairReopens
CHECK_DEADLOCK FALSE
