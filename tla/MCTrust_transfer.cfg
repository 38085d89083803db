\* Two machines, three ceremonies each.
SPECIFICATION Spec
CONSTANTS
    None = None
    Machines = {a, b}
    MaxMade = 3
    MaxTickets = 2
SYMMETRY Symmetry
INVARIANTS
    TypeOK
    LedgerKeepsPins
    KeyIsSealedForItsCertificate
    OnlyCommitted
PROPERTIES
    AnchorMovesForward
CHECK_DEADLOCK FALSE
