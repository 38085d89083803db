\* Two consoles and a recovery key, nothing excluded.
SPECIFICATION Spec
CONSTANTS
    LocalKeys = {k1, k2}
    OtherKeys = {o1}
    RecoveryKeys = {r1}
    Genesis = {k1, r1}
    Consoles = {p, q}
    Crashes = FALSE
    None = None
INVARIANTS
    HoldIsKept
CHECK_DEADLOCK FALSE
