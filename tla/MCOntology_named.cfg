\* Relations, corrections and contests under a revoked grant.
SPECIFICATION Spec
CONSTANTS
    Records = {role, r1, r2}
    Roles = {role}
    Plain = {}
    Judged = {role}
    Inferred = {}
    Grants = {g}
    Legacy = {}
    ValidTimes = {2, 4}
    ValidEnds = {}
    Effective = {3, 4}
    Terms <- ShortAndLong
    Revised = {r1}
    Reviewed = {}
    Pairs <- SecondForFirst
    MaxTime = 8
    MaxPrepared = 2
    MaxRelations = 1
    None = None
    r1 = r1
    r2 = r2
PROPERTIES
    GrantIsNotJustNamed
CHECK_DEADLOCK FALSE
