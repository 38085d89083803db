\* A crash in the middle of a heartbeat, then a recovery.
SPECIFICATION SupportedSpec
CONSTANTS
    Compilers = {c1}
    Recoverers = {r1}
    Inos = {i1, i2, i3}
    HostOf <- SameHost
    Inputs = 1
    Faults = {"crash"}
    None = None
INVARIANTS
    HeartbeatResidueIsOwned
CHECK_DEADLOCK FALSE
