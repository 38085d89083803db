\* One maintenance command at a time beside two sessions, one killed process.
SPECIFICATION Spec
CONSTANTS
    None = None
    MaxInodes = 3
    Writers = {w1, w2}
    Jobs = {j1}
    Backups = {k1, k2}
    Captures = {c1}
    MaxEvents = 2
    MaxFaults = 1
    Exclusive = TRUE
SYMMETRY Symmetry
INVARIANTS
    TypeOK
    NothingLost
    LogIsOfLive
PROPERTIES
    LedgerKept
CHECK_DEADLOCK FALSE
