\* A compile prunes while `imprint spool prune` runs.
SPECIFICATION Spec
CONSTANTS
    Passes = {c1}
    Pruners = {r1}
    Paths = {1, 2}
    EventIds = {1, 2}
    Texts = {t1, t2}
    Nodes = {n1}
    Envelopes = {a, a2, b, x}
    Valid = {a, a2, b}
    PathOf <- ReusedPathOf
    EventOf <- ReusedPathOf
    TextOf <- ReusedTextOf
    StampOf <- ReusedStampOf
    NodeOf <- OneNode
    SharesNode <- ReusedSharesNode
    ForeignFiles = {}
    HomeNode = n1
    ExpectedNode = n1
    BatchSize = 1
    MaxFaults = 0
    None = None
    a = a
    a2 = a2
    b = b
    x = x
    n1 = n1
    t1 = t1
    t2 = t2
PROPERTIES
    DeletesOnlyCommitted
CHECK_DEADLOCK FALSE
