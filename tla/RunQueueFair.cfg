SPECIFICATION Spec
CONSTANTS
    Tids = {1, 2}
    NoTid = 0
    Strategy = "StickyRandom"
    LAST_PRIORITY = 2
    POLLING_UPGRADE_INTERVAL = 3
    RUN_TIME_TURNS = 1000000
    ControlledSignals = TRUE
    FairContinuation = TRUE
    RunTimes <- TwoRunTimes
    PollAttempts = {1}
    MaxPushes = 4
INVARIANTS
    SelectionIsCommittable
    OneEntryPerThread
    RunTimeTurnsAreRoundRobin
CHECK_DEADLOCK FALSE
