\* Two recoveries of one dead lease.
SPECIFICATION ManyRecoveriesSpec
CONSTANTS
    Compilers = {c1, c2, c3}
    Recoverers = {r1, r2}
    Inos = {i1, i2, i3}
    HostOf <- SameHost
    Inputs = 0
    Faults = {"crash"}
    None = None
INVARIANTS
    OneWriter
CHECK_DEADLOCK FALSE
