SPECIFICATION Spec
CONSTANTS
    Channels = {c1}
    t1 = t1
    t2 = t2
    Threads = {t1, t2}
    NoThread = none
    NoError = "0"
    StallLimit = 1
    Guests <- BothGuests
    MaxLen = 2
    MaxWaits = 2
    PolledTwice = FALSE
INVARIANTS
    ReplayObservesTheSame
    ReplayUsesTheWholeRecording
    RecordingValidates
CHECK_DEADLOCK FALSE
