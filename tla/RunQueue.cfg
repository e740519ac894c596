SPECIFICATION Spec
CONSTANTS
    Tids = {t1, t2, t3}
    NoTid = NoTid
    Strategy = "None"
    LAST_PRIORITY = 2
    POLLING_UPGRADE_INTERVAL = 3
    RUN_TIME_TURNS = 1000000
    ControlledSignals = FALSE
    FairContinuation = FALSE
    RunTimes <- NoRunTimes
    PollAttempts = {1}
    MaxPushes = 99999
VIEW RankedView
SYMMETRY TidSymmetry
INVARIANTS
    DistinctKeys
    SomeoneEligible
    PollersAreUpgraded
PROPERTIES
    RestoreKeepsGateClass
    ImplementsSelectionLock
CHECK_DEADLOCK FALSE
