CONSTANTS
    Threads = {1, 2, 3, 4}
    Initial = {2, 3}
    Pending = Pending
    NoThread = NoThread
    MayDie = {1, 2}
SPECIFICATION Spec
INVARIANTS
    RegistrationFindsItsParent
    BarrierWaitsAreOwed
PROPERTY ImplementsInstantVfork
