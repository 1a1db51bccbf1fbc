SPECIFICATION FairSpec
CONSTANTS
    Channels = {1, 2}
    Picks = {1}
    Clicks = {"k1"}
    StageAttempts = 2
    RunFailures = 2
    MaxRuns = 2
    MaxSetbacks = 2
    MaxCrashes = 1
CHECK_DEADLOCK FALSE
INVARIANTS
    RunGoesOn
PROPERTIES
    LedgerRespected
    EveryRunEnds
