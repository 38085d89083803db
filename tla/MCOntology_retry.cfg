\* A revocation whose time the caller leaves to the store.
SPECIFICATION Spec
CONSTANTS
    Records = {role, r1, r2, o}
    Roles = {role}
    Plain = {o}
    Judged = {role, r2}
    Inferred = {}
    Grants = {g}
    Legacy = {}
    ValidTimes = {2, 4}
    ValidEnds = {}
    Effective = {3, 4}
    Terms <- ShortAndLong
    Revised = {r1}
    Reviewed = {}
    Pairs <- SecondForFirst
    MaxTime = 7
    MaxPrepared = 2
    MaxRelations = 1
    None = None
    r1 = r1
    r2 = r2
INVARIANTS
    RetryIsExact
CHECK_DEADLOCK FALSE
