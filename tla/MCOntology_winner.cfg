\* One member of a contest is tombstoned or ratified.
SPECIFICATION Spec
CONSTANTS
    Records = {role, r1, r2}
    Roles = {role}
    Plain = {}
    Judged = {role}
    Inferred = {}
    Grants = {}
    Legacy = {}
    ValidTimes = {2, 4}
    ValidEnds = {}
    Effective = {3, 4}
    Terms <- ShortAndLong
    Revised = {r1}
    Reviewed = {r1}
    Pairs <- SecondForFirst
    MaxTime = 7
    MaxPrepared = 2
    MaxRelations = 1
    None = None
    r1 = r1
    r2 = r2
INVARIANTS
    NoSilentWinner
CHECK_DEADLOCK FALSE
