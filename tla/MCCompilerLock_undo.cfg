\* A recovery that an I/O error makes undo its claim while a compiler starts.
SPECIFICATION UndoRaceSpec
CONSTANTS
    Compilers = {c1, c2}
    Recoverers = {r1}
    Inos = {i1, i2}
    HostOf <- SameHost
    Inputs = 0
    Faults = {"crash", "io"}
    None = None
PROPERTIES
    LeaseKept
CHECK_DEADLOCK FALSE
