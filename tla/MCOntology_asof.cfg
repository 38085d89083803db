\* Corrections, contests, reviews, supersessions and revocations in any order.
SPECIFICATION Spec
CONSTANTS
    Records = {role, r1, r2, o}
    Roles = {role}
    Plain = {o}
    Judged = {role, r2}
    Inferred = {r1}
    Grants = {g, h}
    Legacy = {h}
    ValidTimes = {2}
    ValidEnds = {}
    Effective = {3, 4}
    Terms <- ShortAndLong
    Revised = {r1}
    Reviewed = {r1, g}
    Pairs <- SecondForFirst
    MaxTime = 7
    MaxPrepared = 2
    MaxRelations = 1
    None = None
    r1 = r1
    r2 = r2
INVARIANTS
    TypeOK
    AsOfIsDecided
PROPERTIES
    StoredUnderStandingGrant
CHECK_DEADLOCK FALSE
