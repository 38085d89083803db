\* Two compilers, no faults: what is left when both are done.
SPECIFICATION SupportedSpec
CONSTANTS
    Compilers = {c1, c2}
    Recoverers = {}
    Inos = {i1, i2, i3}
    HostOf <- SameHost
    Inputs = 0
    Faults = {}
    None = None
INVARIANTS
    AbsentBetweenCompiles
CHECK_DEADLOCK FALSE
