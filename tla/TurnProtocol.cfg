SPECIFICATION Spec
CONSTANTS
    Tids = {l, a, b}
    Leader = l
    NoTid = none
    CancelsKilledRpcs = TRUE
    RegistersQueuedSleeps = TRUE
    MaxExecs = 1
SYMMETRY Others
INVARIANTS
    OneGuestRuns
    HandoverIsPaired
    AdmittedRequestsAreAwaited
    EndsWithNobodyLeft
    EveryThreadIsSomewhere
PROPERTIES
    ImplementsSelectionLock
    DeadlockIsReal
    NoTurnForTheDead
CHECK_DEADLOCK FALSE
