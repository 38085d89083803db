\* Two consoles, two rotations, one recovery key, one paired key; crashes.
SPECIFICATION OrderlySpec
CONSTANTS
    LocalKeys = {k1, k2, k3}
    OtherKeys = {o1}
    RecoveryKeys = {r1}
    Genesis = {k1}
    Consoles = {p, q}
    Crashes = TRUE
    None = None
SYMMETRY Symmetry
INVARIANTS
    TypeOK
    OneActiveKey
    ActiveKeyIsUsable
    HoldIsKept
PROPERTIES
    LedgerIsKept
CHECK_DEADLOCK FALSE
