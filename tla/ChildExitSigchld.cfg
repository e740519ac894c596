SPECIFICATION Spec
CONSTANTS
    Leader = t1
    t2 = t2
    NoThread = NoThread
    Setups <- ThreeSetups
INVARIANTS EveryExitIsNotified OneSigchldPerExit
CHECK_DEADLOCK FALSE
