SPECIFICATION FairSpec
CONSTANTS
    NoThread = NoThread
    Threads = {1, 2, 3, 4}
    ProcessOf <- ThreeProcesses
    Unborn = {3}
    Owners = {2, 3}
    Sends <- OneTwoOrOwn
    Killers = {1}
    MaxKills = 2
    Exits = {3}
    Faults = {2}
    HostKilled = {4}
    MayLose = TRUE
INVARIANTS KillsAreSettled RefusesOnlyTheLost
PROPERTIES WakesRunTogether KillsReturn
CHECK_DEADLOCK FALSE
