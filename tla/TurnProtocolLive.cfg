SPECIFICATION FairSpec
CONSTANTS
    Tids = {l, a}
    Leader = l
    NoTid = none
    CancelsKilledRpcs = FALSE
    RegistersQueuedSleeps = FALSE
    MaxExecs = 1
INVARIANTS
    EveryThreadIsSomewhere
PROPERTIES
    NoTurnForTheDead
    TurnsEnd
CHECK_DEADLOCK FALSE
