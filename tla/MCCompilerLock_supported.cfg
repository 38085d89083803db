\* The lease in its supported deployment: crashes, I/O errors, recoveries.
SPECIFICATION FairSpec
CONSTANTS
    Compilers = {c1, c2}
    Recoverers = {r1, r2}
    Inos = {i1, i2}
    HostOf <- SameHost
    Inputs = 1
    Faults = {"crash", "io"}
    None = None
INVARIANTS
    TypeOK
    MutualExclusion
    WriterIsOwner
    ClaimsOnlyDead
PROPERTIES
    LeaseKept
    CompilerEnds
CHECK_DEADLOCK FALSE
