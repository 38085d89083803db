\* Two consoles, one rotation, nothing excluded.
SPECIFICATION Spec
CONSTANTS
    LocalKeys = {k1, k2}
    OtherKeys = {o1}
    RecoveryKeys = {r1}
    Genesis = {k1, r1}
    Consoles = {p, q}
    Crashes = FALSE
    None = None
INVARIANTS
    SealFits
CHECK_DEADLOCK FALSE
