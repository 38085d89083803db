\* Two operations on a proposal, a candidate and their relation; two challenges; the
\* sequence is counted from a ledger that has paired a machine.
SPECIFICATION Spec
CONSTANTS
    LocalKeys = {k1, k2}
    OtherKeys = {p1, p2}
    RecoveryKeys = {r1}
    Genesis = {k1, r1, p1}
    Nodes = {a, b}
    Edges = {e}
    EndsOf <- MCEndsOf
    Typed = {a}
    Unratifiable = {}
    FirstStatus <- MCFirstStatus
    Ops = {o1, o2}
    Nonces = {n1, n2}
    MaxSeq = 3
    None = None
    a = a
    b = b
    e = e
SYMMETRY Symmetry
INVARIANTS
    TypeOK
    ApprovedOnce
    HistoryIsChain
    HoldVoidsApprovals
    TombstoneIsFinal
CHECK_DEADLOCK FALSE
