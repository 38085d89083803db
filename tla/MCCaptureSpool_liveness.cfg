\* Unique event ids: every input is settled and acknowledged.
SPECIFICATION FairSpec
CONSTANTS
    Passes = {c1}
    Pruners = {r1}
    Paths = {1, 2}
    EventIds = {1, 2}
    Texts = {t1, t2}
    Nodes = {n1}
    Envelopes = {a, b, x}
    Valid = {a, b}
    PathOf <- UniquePathOf
    EventOf <- UniquePathOf
    TextOf <- UniqueTextOf
    StampOf <- UniqueStampOf
    NodeOf <- OneNode
    SharesNode = {}
    ForeignFiles <- UniqueForeignFiles
    HomeNode = n1
    ExpectedNode = n1
    BatchSize = 2
    MaxFaults = 1
    None = None
    a = a
    a2 = a2
    b = b
    x = x
    n1 = n1
    t1 = t1
    t2 = t2
PROPERTIES
    EventuallySettled
    EventuallyAcknowledged
CHECK_DEADLOCK FALSE
