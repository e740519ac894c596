SPECIFICATION Spec
CONSTANTS
    Readers = {r1, r2, r3}
    Writers = {w1, w2}
    Values = {v1, v2}
    None = none
    Shared = TRUE
PROPERTIES
    BlockedReadersWake
CHECK_DEADLOCK FALSE
