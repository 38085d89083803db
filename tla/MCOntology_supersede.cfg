\* A correction whose valid time has ended is superseded.
SPECIFICATION Spec
CONSTANTS
    Records = {role, r1, r2}
    Roles = {role}
    Plain = {}
    Judged = {role}
    Inferred = {}
    Grants = {}
    Legacy = {}
    ValidTimes = {2, 4}
    ValidEnds = {}
    Effective = {3, 4}
    Terms <- ShortAndLong
    Revised = {r1}
    Reviewed = {}
    Pairs <- SecondForFirst
    MaxTime = 7
    MaxPrepared = 2
    MaxRelations = 1
    None = None
    r1 = r1
    r2 = r2
INVARIANTS
    NoOverlap
CHECK_DEADLOCK FALSE
