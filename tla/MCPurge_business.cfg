\* A purge of what a business node belongs to.
SPECIFICATION Spec
CONSTANTS
    c1 = c1
    p1 = p1
    s1 = s1
    i1 = i1
    b1 = b1
    w1 = w1
    x1 = x1
    x2 = x2
    None = None
    q1 = q1
    v1 = v1
    v2 = v2
    op = op
    Captures = {c1}
    Proposals = {p1}
    Successors = {s1}
    Items = {i1}
    Business = {b1}
    Words = {w1}
    Sessions = {x1, x2}
    Operator = op
    Passes = {q1}
    Derivers = {v1}
    WordsOf <- MCWordsOf
    SessionOf <- MCSessionOf
    SourceOf <- MCSourceOf
    SuccessorOf <- MCSuccessorOf
    ScopeNodeOf <- MCScopeNodeOf
    Relatable <- MCRelatable
    Reviewable <- MCReviewable
    MaxPurges = 1
    MaxEdits = 2
    MaxFaults = 1
INVARIANT
    PurgeCommits
CHECK_DEADLOCK FALSE
