\* Two recoveries at once, slow compilers: outside the supported deployment.
SPECIFICATION Spec
CONSTANTS
    Compilers = {c1, c2}
    Recoverers = {r1, r2}
    Inos = {i1, i2}
    HostOf <- SameHost
    Inputs = 0
    Faults = {"crash", "io"}
    None = None
SYMMETRY Symmetry
INVARIANTS
    DeletesOnlyDead
CHECK_DEADLOCK FALSE
