--------------------------- MODULE ApprovalProofs ---------------------------
(***************************************************************************)
(* Proofs about Approval, for any nodes, edges, keys, operations and       *)
(* challenges.  The proofs rest on KeysAssumption and ReviewAssumption.    *)
(***************************************************************************)
EXTENDS Approval, TLAPS

-----------------------------------------------------------------------------
(* Type correctness.                                                       *)

\* What the reviews make of a head: a tier, or one of the three marks.
LEMMA OutcomeType ==
    ASSUME NEW cmd, NEW i, NEW status, Allowed(cmd, i, status)
    PROVE  Outcome(cmd, i, status) \in Tiers \cup {"closed", "kept"}
  BY DEF Allowed, Outcome, Tiers, ReviewEdge, RatifyNode, CorrectTypedNode,
         ContestTypedNode, RejectNode, DeferNode, TombstoneNode

\* A ledger event moves the ledger inside its type.
LEMMA LedgerType ==
    ASSUME chain \in [Keys -> Status], seq \in Nat, blocked \in BOOLEAN, LedgerNext
    PROVE  chain' \in [Keys -> Status] /\ seq' \in Nat /\ blocked' \in BOOLEAN
  <1> USE DEF Append
  <1>1. ASSUME NEW old \in LocalKeys, NEW new \in LocalKeys, Rotated(old, new)
        PROVE  chain' \in [Keys -> Status] /\ seq' \in Nat /\ blocked' \in BOOLEAN
    BY <1>1 DEF Rotated, Status, Keys
  <1>2. ASSUME NEW signer \in LocalKeys, NEW new \in RecoveryKeys \cup OtherKeys,
               Certified(signer, new)
        PROVE  chain' \in [Keys -> Status] /\ seq' \in Nat /\ blocked' \in BOOLEAN
    BY <1>2 DEF Certified, Status, Keys
  <1>3. ASSUME NEW signer \in Keys, NEW target \in Keys, Revoked(signer, target)
        PROVE  chain' \in [Keys -> Status] /\ seq' \in Nat /\ blocked' \in BOOLEAN
    BY <1>3 DEF Revoked, Status
  <1>4. ASSUME NEW signer \in Keys, NEW target \in Keys, Compromised(signer, target)
        PROVE  chain' \in [Keys -> Status] /\ seq' \in Nat /\ blocked' \in BOOLEAN
    BY <1>4 DEF Compromised, Status
  <1>5. ASSUME NEW signer \in RecoveryKeys, Adjudicated(signer)
        PROVE  chain' \in [Keys -> Status] /\ seq' \in Nat /\ blocked' \in BOOLEAN
    <2>1. chain' = chain /\ blocked' = FALSE
      BY <1>5, Zenon DEF Adjudicated
    <2>2. seq' \in Nat
      BY <1>5 DEF Adjudicated
    <2> QED
      BY <2>1, <2>2, Zenon
  <1> QED
    <2>1. CASE \E old, new \in LocalKeys : Rotated(old, new)
      BY <2>1, <1>1, Zenon
    <2>2. CASE \E signer \in LocalKeys, new \in RecoveryKeys \cup OtherKeys : Certified(signer, new)
      BY <2>2, <1>2, Zenon
    <2>3. CASE \E signer, target \in Keys : Revoked(signer, target) \/ Compromised(signer, target)
      BY <2>3, <1>3, <1>4, Zenon
    <2>4. CASE \E signer \in RecoveryKeys : Adjudicated(signer)
      BY <2>4, <1>5, Zenon
    <2> QED
      BY <2>1, <2>2, <2>3, <2>4, Zenon DEF LedgerNext

\* What Execute has established when it writes, for its operation and head.
Executes(n, cmd, i, o, v) ==
    /\ Head(i, v)
    /\ o = nonces[n].op
    /\ prepared[o].status = "pending"
    /\ prepared[o].cmd = cmd /\ prepared[o].item = i /\ prepared[o].prior = v
    /\ Outcome(cmd, i, versions[v].status) \in Tiers \cup {"closed", "kept"}
    /\ ~blocked /\ Active(nonces[n].key)
    /\ nonces[n].status = "issued"
    /\ nonces' = [nonces EXCEPT ![n].status = "used"]
    /\ prepared' = [prepared EXCEPT ![o].status = "executed"]
    /\ versions' = Mutated(o)
    /\ UNCHANGED ledgerVars

\* Execute finds one operation and the head it was prepared for.
LEMMA ExecuteFacts ==
    ASSUME NEW n \in Nonces, NEW cmd \in Commands, NEW i \in Items,
           Execute(n, cmd, i)
    PROVE  \E o \in Ops, v \in VersionIds : Executes(n, cmd, i, o, v)
  <1>1. PICK o \in Ops, v \in VersionIds :
          /\ o = nonces[n].op
          /\ Head(i, v)
          /\ Allowed(cmd, i, versions[v].status)
          /\ LoadPrepared(o, cmd, i, v)
          /\ ~blocked
          /\ InForce(n)
          /\ Consumed(n, o)
          /\ versions' = Mutated(o)
    BY Zenon DEF Execute
  <1>2. TokenHolds(n) /\ UNCHANGED ledgerVars
    BY Zenon DEF Execute
  <1>3. Outcome(cmd, i, versions[v].status) \in Tiers \cup {"closed", "kept"}
    BY <1>1, OutcomeType, Zenon
  <1>4. prepared[o].status = "pending" /\ prepared[o].cmd = cmd
        /\ prepared[o].item = i /\ prepared[o].prior = v
    BY <1>1, Zenon DEF LoadPrepared
  <1>5. Active(nonces[n].key) /\ nonces[n].status = "issued"
    BY <1>1, <1>2, Zenon DEF InForce, TokenHolds
  <1>6. nonces' = [nonces EXCEPT ![n].status = "used"]
        /\ prepared' = [prepared EXCEPT ![o].status = "executed"]
    BY <1>1, Zenon DEF Consumed
  <1> QED
    BY <1>1, <1>2, <1>3, <1>4, <1>5, <1>6, Zenon DEF Executes

\* Every variable keeps its type, whatever is prepared, approved, executed or
\* expires, and whatever happens to the keys.
THEOREM TypeCorrect == Spec => []TypeOK
<1>1. Init => TypeOK
  <2> SUFFICES ASSUME Init PROVE TypeOK
    OBVIOUS
  <2>1. chain \in [Keys -> Status] /\ seq \in Nat /\ blocked \in BOOLEAN
    BY DEF Init, LedgerInit, Status
  <2>2. versions \in [VersionIds -> Row]
    <3>1. NoRow \in Row
      BY DEF NoRow, Row
    <3>2. ASSUME NEW v \in Items
          PROVE  [NoRow EXCEPT !.item = v, !.status = FirstStatus[v], !.open = TRUE] \in Row
      BY <3>1, ReviewAssumption DEF Row
    <3> QED
      BY <3>1, <3>2 DEF Init
  <2>3. prepared \in [Ops -> Prepared]
    BY DEF Init, NoOp, Prepared
  <2>4. nonces \in [Nonces -> Challenge]
    BY DEF Init, NoNonce, Challenge
  <2>5. held \subseteq Nonces
    BY DEF Init
  <2> QED
    BY <2>1, <2>2, <2>3, <2>4, <2>5, Zenon DEF TypeOK
<1>2. ASSUME TypeOK, [Next]_vars PROVE TypeOK'
  <2>1. ASSUME NEW o \in Ops, NEW cmd \in Commands, NEW i \in Items, Prepare(o, cmd, i),
               UNCHANGED held
        PROVE  TypeOK'
    BY <1>2, <2>1 DEF TypeOK, Prepare, Prepared, ledgerVars
  <2>2. ASSUME NEW n \in Nonces, NEW o \in Ops, Approve(n, o), UNCHANGED held PROVE TypeOK'
    BY <1>2, <2>2 DEF TypeOK, Approve, Challenge, ledgerVars, Keys
  <2>3. ASSUME NEW n \in Nonces, ChallengeExpires(n), UNCHANGED held PROVE TypeOK'
    BY <1>2, <2>3 DEF TypeOK, ChallengeExpires, Challenge, ledgerVars
  <2>4. ASSUME NEW n \in Nonces, NEW cmd \in Commands, NEW i \in Items, Execute(n, cmd, i),
               UNCHANGED held
        PROVE  TypeOK'
    <3>1. PICK o \in Ops, v \in VersionIds : Executes(n, cmd, i, o, v)
      BY <2>4, ExecuteFacts, Zenon
    <3>2. versions' \in [VersionIds -> Row]
      BY <1>2, <3>1, ZenonT(40) DEF Executes, TypeOK, Row, Mutated, Tiers
    <3>3. prepared' \in [Ops -> Prepared]
      BY <1>2, <3>1 DEF Executes, TypeOK, Prepared
    <3>4. nonces' \in [Nonces -> Challenge]
      BY <1>2, <3>1 DEF Executes, TypeOK, Challenge
    <3> QED
      BY <1>2, <2>4, <3>1, <3>2, <3>3, <3>4, Zenon DEF Executes, TypeOK, ledgerVars
  <2>5. ASSUME NEW o \in Ops, PreparedExpires(o), UNCHANGED held PROVE TypeOK'
    BY <1>2, <2>5 DEF TypeOK, PreparedExpires, Prepared, ledgerVars
  <2>6. CASE Ledger
    <3>1. LedgerNext /\ UNCHANGED reviewVars
      BY <2>6, Zenon DEF Ledger
    <3>2. chain' \in [Keys -> Status] /\ seq' \in Nat /\ blocked' \in BOOLEAN
      BY <1>2, <3>1, LedgerType, Zenon DEF TypeOK
    <3>3. held' \subseteq Nonces
      BY <1>2, <2>6 DEF TypeOK, Ledger
    <3> QED
      BY <1>2, <3>1, <3>2, <3>3, Zenon DEF TypeOK, reviewVars
  <2>7. CASE UNCHANGED vars
    BY <1>2, <2>7, Zenon DEF TypeOK, vars, ledgerVars, reviewVars
  <2> QED
    BY <1>2, <2>1, <2>2, <2>3, <2>4, <2>5, <2>6, <2>7, Zenon DEF Next, Review
<1> QED
  BY <1>1, <1>2, PTL DEF Spec

-----------------------------------------------------------------------------
(* One approval for one mutation.                                          *)

\* ApprovedOnce is inductive with the types: an operation that is still pending
\* has no used challenge, and only a pending one is executed.
THEOREM ApprovalsAreSingle == Spec => []ApprovedOnce
<1>1. Init => ApprovedOnce
  <2> SUFFICES ASSUME Init PROVE ApprovedOnce
    OBVIOUS
  <2>1. /\ \A o \in Ops : prepared[o].status = "none"
        /\ \A n \in Nonces : nonces[n].status = "none"
    BY DEF Init, NoOp, NoNonce
  <2> QED
    BY <2>1 DEF ApprovedOnce, Used
<1>2. ASSUME TypeOK, ApprovedOnce, [Next]_vars PROVE ApprovedOnce'
  <2> USE DEF ApprovedOnce, Used
  <2>1. ASSUME NEW o \in Ops, NEW cmd \in Commands, NEW i \in Items, Prepare(o, cmd, i)
        PROVE  ApprovedOnce'
    BY <1>2, <2>1 DEF TypeOK, Prepare, Prepared, NoOp
  <2>2. ASSUME NEW n \in Nonces, NEW o \in Ops, Approve(n, o) PROVE ApprovedOnce'
    BY <1>2, <2>2 DEF TypeOK, Approve, Challenge, NoNonce
  <2>3. ASSUME NEW n \in Nonces, ChallengeExpires(n) PROVE ApprovedOnce'
    BY <1>2, <2>3 DEF TypeOK, ChallengeExpires, Challenge
  <2>4. ASSUME NEW n \in Nonces, NEW cmd \in Commands, NEW i \in Items, Execute(n, cmd, i)
        PROVE  ApprovedOnce'
    <3>1. PICK o \in Ops, v \in VersionIds : Executes(n, cmd, i, o, v)
      BY <2>4, ExecuteFacts, Zenon
    <3>2. /\ o = nonces[n].op /\ prepared[o].status = "pending"
          /\ nonces[n].status = "issued"
          /\ nonces' = [nonces EXCEPT ![n].status = "used"]
          /\ prepared' = [prepared EXCEPT ![o].status = "executed"]
      BY <3>1, Zenon DEF Executes
    <3>3. /\ \A m \in Nonces : m # n => nonces'[m] = nonces[m]
          /\ nonces'[n].status = "used" /\ nonces'[n].op = o
      BY <1>2, <3>2 DEF TypeOK, Challenge
    <3>4. /\ \A q \in Ops : q # o => prepared'[q] = prepared[q]
          /\ prepared'[o].status = "executed"
      BY <1>2, <3>2 DEF TypeOK, Prepared
    <3>5. \A m \in Nonces : ~(nonces[m].status = "used" /\ nonces[m].op = o)
      BY <1>2, <3>2
    <3> QED
      BY <1>2, <3>2, <3>3, <3>4, <3>5
  <2>5. ASSUME NEW o \in Ops, PreparedExpires(o) PROVE ApprovedOnce'
    BY <1>2, <2>5 DEF TypeOK, PreparedExpires, Prepared
  <2>6. CASE Ledger
    BY <1>2, <2>6 DEF Ledger, reviewVars
  <2>7. CASE UNCHANGED vars
    BY <1>2, <2>7 DEF vars, reviewVars
  <2> QED
    BY <1>2, <2>1, <2>2, <2>3, <2>4, <2>5, <2>6, <2>7, Zenon DEF Next, Review
<1> QED
  BY <1>1, <1>2, TypeCorrect, PTL DEF Spec

\* A hold moves the head of the ledger, when it begins and when it ends, and a challenge
\* is made for one head: what was outstanding during a hold lies behind the head for good.
Behind == \A n \in held : nonces[n].op # None /\ nonces[n].seq < seq /\ ~Used(n)

NotAhead == \A n \in Nonces : nonces[n].seq <= seq /\ (nonces[n].status # "none" => nonces[n].op # None)

HeldInv == TypeOK /\ Behind /\ NotAhead

\* Every event that is appended is the new head.
LEMMA LedgerMovesOn ==
    ASSUME seq \in Nat, LedgerNext
    PROVE  seq' = seq + 1
  BY DEF LedgerNext, Rotated, Certified, Revoked, Compromised, Adjudicated, Append

LEMMA HeldStep ==
    ASSUME HeldInv, [Next]_vars
    PROVE  Behind' /\ NotAhead'
  <1> USE DEF HeldInv
  <1>0. /\ \A n \in Nonces : nonces[n].seq \in Nat
        /\ seq \in Nat /\ held \subseteq Nonces
    BY DEF TypeOK, Challenge
  <1>1. ASSUME NEW o \in Ops, NEW cmd \in Commands, NEW i \in Items, Prepare(o, cmd, i), UNCHANGED held
        PROVE  Behind' /\ NotAhead'
    BY <1>1 DEF Prepare, Behind, NotAhead, Used, ledgerVars
  <1>2. ASSUME NEW n \in Nonces, NEW o \in Ops, Approve(n, o), UNCHANGED held
        PROVE  Behind' /\ NotAhead'
    <2>1. PICK k \in LocalKeys :
            nonces' = [nonces EXCEPT ![n] = [op |-> o, key |-> k, seq |-> seq, status |-> "issued"]]
      BY <1>2 DEF Approve
    <2>2. nonces[n].op = None /\ o # None /\ seq' = seq
      BY <1>2, ReviewAssumption DEF Approve, NoNonce, ledgerVars
    <2>3. /\ \A m \in Nonces : m # n => nonces'[m] = nonces[m]
          /\ nonces'[n].op = o /\ nonces'[n].seq = seq
      BY <2>1 DEF TypeOK
    <2>4. n \notin held
      BY <2>2 DEF Behind
    <2> QED
      BY <1>0, <1>2, <2>2, <2>3, <2>4 DEF Behind, NotAhead, Used
  <1>3. ASSUME NEW n \in Nonces, ChallengeExpires(n), UNCHANGED held
        PROVE  Behind' /\ NotAhead'
    <2>0. /\ nonces' = [nonces EXCEPT ![n].status = "late"]
          /\ nonces[n].status = "issued" /\ seq' = seq
      BY <1>3 DEF ChallengeExpires, ledgerVars
    <2>1. /\ \A m \in Nonces : nonces'[m].seq = nonces[m].seq /\ nonces'[m].op = nonces[m].op
          /\ \A m \in Nonces : m # n => nonces'[m] = nonces[m]
          /\ nonces'[n].status = "late"
          /\ nonces[n].status = "issued" /\ seq' = seq
      BY <2>0 DEF TypeOK, Challenge
    <2> QED
      BY <1>0, <1>3, <2>1 DEF Behind, NotAhead, Used
  <1>4. ASSUME NEW n \in Nonces, NEW cmd \in Commands, NEW i \in Items, Execute(n, cmd, i), UNCHANGED held
        PROVE  Behind' /\ NotAhead'
    <2>1. nonces[n].seq = seq /\ nonces[n].status = "issued"
          /\ nonces' = [nonces EXCEPT ![n].status = "used"] /\ seq' = seq
      BY <1>4 DEF Execute, InForce, TokenHolds, Consumed, ledgerVars
    <2>2. n \notin held
      BY <1>0, <2>1 DEF Behind
    <2>3. /\ \A m \in Nonces : nonces'[m].seq = nonces[m].seq /\ nonces'[m].op = nonces[m].op
          /\ \A m \in Nonces : m # n => nonces'[m] = nonces[m]
      BY <2>1 DEF TypeOK, Challenge
    <2> QED
      BY <1>0, <1>4, <2>1, <2>2, <2>3 DEF Behind, NotAhead, Used
  <1>5. ASSUME NEW o \in Ops, PreparedExpires(o), UNCHANGED held
        PROVE  Behind' /\ NotAhead'
    BY <1>5 DEF PreparedExpires, Behind, NotAhead, Used, ledgerVars
  <1>6. CASE Ledger
    <2>1. UNCHANGED nonces /\ seq' = seq + 1
      BY <1>0, <1>6, LedgerMovesOn DEF Ledger, reviewVars
    <2>2. \A n \in held' : n \in held \/ (n \in Nonces /\ nonces[n].status = "issued")
      BY <1>6 DEF Ledger, TokenHolds
    <2> QED
      BY <1>0, <2>1, <2>2 DEF Behind, NotAhead, Used
  <1>7. CASE UNCHANGED vars
    BY <1>7 DEF vars, reviewVars, ledgerVars, Behind, NotAhead, Used
  <1> QED
    BY <1>1, <1>2, <1>3, <1>4, <1>5, <1>6, <1>7, Zenon DEF Next, Review

\* A challenge that was outstanding when a compromise was reported is never executed, not
\* even by a key that stays active and after recovery has ended the hold: the operator is
\* asked again.
THEOREM HoldsVoidApprovals == Spec => []HoldVoidsApprovals
<1>1. Init => Behind /\ NotAhead
  <2> SUFFICES ASSUME Init PROVE Behind /\ NotAhead
    OBVIOUS
  <2>1. held = {} /\ seq = 1
    BY DEF Init, LedgerInit
  <2>2. \A n \in Nonces : nonces[n].seq = 0 /\ nonces[n].status = "none"
    BY DEF Init, NoNonce
  <2> QED
    BY <2>1, <2>2 DEF Behind, NotAhead
<1>2. HeldInv => HoldVoidsApprovals
  BY DEF HeldInv, Behind, HoldVoidsApprovals
<1> QED
  BY <1>1, <1>2, HeldStep, TypeCorrect, PTL DEF Spec, HeldInv

-----------------------------------------------------------------------------
(* The history of an item.                                                 *)

\* The version an operation creates does not exist before it is executed, and a
\* row that does not exist has no prior version.
VersionIsNew ==
    /\ \A o \in Ops : prepared[o].status # "executed" => versions[o] = NoRow
    /\ \A v \in VersionIds : versions[v].item = None => versions[v].prior = None

HistoryInv == TypeOK /\ HistoryIsChain /\ VersionIsNew

\* What Execute does to the versions: it closes rows, and may add the row of
\* its operation behind the head it was prepared for.
Rewrites(i, o, v) ==
    /\ \A w \in VersionIds \ {o} :
          /\ versions'[w].item = versions[w].item
          /\ versions'[w].prior = versions[w].prior
          /\ versions'[w].open => versions[w].open
    /\ \/ versions'[o] = versions[o]
       \/ /\ versions'[o].item = i /\ versions'[o].prior = v
          /\ ~versions'[v].open

\* Execute rewrites the versions like that, and its version is a new one.
LEMMA ExecuteRewrites ==
    ASSUME HistoryInv, NEW n \in Nonces, NEW cmd \in Commands, NEW i \in Items,
           NEW o \in Ops, NEW v \in VersionIds, Executes(n, cmd, i, o, v)
    PROVE  Rewrites(i, o, v) /\ o # v /\ versions[o] = NoRow
  <1>1. /\ prepared[o].status = "pending" /\ prepared[o].item = i /\ prepared[o].prior = v
        /\ versions' = Mutated(o) /\ versions[v].item = i /\ versions[v].open
    BY Zenon DEF Executes, Head
  <1>2. versions[o] = NoRow
    BY <1>1 DEF HistoryInv, VersionIsNew
  <1>3. o # v
    BY <1>1, <1>2 DEF NoRow
  <1>4. o \in VersionIds /\ versions \in [VersionIds -> Row]
    BY Zenon DEF VersionIds, HistoryInv, TypeOK
  <1>5. ~Touches(o, o)
    BY <1>1, <1>2, <1>3 DEF Touches, NoRow
  <1>6. Touches(o, v)
    BY <1>1 DEF Touches
  <1>7. \A w \in VersionIds \ {o} :
          \/ versions'[w] = versions[w]
          \/ versions'[w] = [versions[w] EXCEPT !.open = FALSE]
    BY <1>1 DEF Mutated
  <1>8. \A w \in VersionIds \ {o} :
          /\ versions'[w].item = versions[w].item
          /\ versions'[w].prior = versions[w].prior
          /\ versions'[w].open => versions[w].open
    BY <1>7, <1>4, ZenonT(40) DEF Row
  <1>9. \/ versions'[o] = versions[o]
        \/ /\ versions'[o].item = i /\ versions'[o].prior = v
           /\ ~versions'[v].open
    BY <1>1, <1>3, <1>4, <1>5, <1>6 DEF Mutated, Row
  <1> QED
    BY <1>2, <1>3, <1>8, <1>9, Zenon DEF Rewrites

\* A version has at most one successor, which was decided on it, and an item at
\* most one head.
LEMMA HistoryStep ==
    ASSUME HistoryInv, [Next]_vars
    PROVE  HistoryIsChain' /\ VersionIsNew'
  <1> USE DEF HistoryInv
  <1>1. ASSUME NEW o \in Ops, NEW cmd \in Commands, NEW i \in Items, Prepare(o, cmd, i)
        PROVE  HistoryIsChain' /\ VersionIsNew'
    BY <1>1 DEF Prepare, HistoryIsChain, VersionIsNew, TypeOK, NoOp
  <1>2. ASSUME NEW n \in Nonces, NEW o \in Ops, Approve(n, o)
        PROVE  HistoryIsChain' /\ VersionIsNew'
    BY <1>2 DEF Approve, HistoryIsChain, VersionIsNew
  <1>3. ASSUME NEW n \in Nonces, ChallengeExpires(n)
        PROVE  HistoryIsChain' /\ VersionIsNew'
    BY <1>3 DEF ChallengeExpires, HistoryIsChain, VersionIsNew
  <1>4. ASSUME NEW n \in Nonces, NEW cmd \in Commands, NEW i \in Items, Execute(n, cmd, i)
        PROVE  HistoryIsChain' /\ VersionIsNew'
    <2>1. PICK o \in Ops, v \in VersionIds : Executes(n, cmd, i, o, v)
      BY <1>4, ExecuteFacts, Zenon
    <2>2. Rewrites(i, o, v) /\ o # v /\ versions[o] = NoRow
      BY <2>1, ExecuteRewrites, Zenon
    <2>3. versions[v].item = i /\ versions[v].open
      BY <2>1, Zenon DEF Executes, Head
    <2>4. o \in VersionIds /\ None \notin VersionIds
      BY ReviewAssumption DEF VersionIds
    <2>5. HistoryIsChain'
      <3>1. /\ \A w \in VersionIds \ {o} :
                  /\ versions'[w].item = versions[w].item
                  /\ versions'[w].prior = versions[w].prior
                  /\ versions'[w].open => versions[w].open
            /\ \A w \in VersionIds : versions[w].prior # v
            /\ \A w \in VersionIds : versions[w].prior # o
        <4>1. \A w \in VersionIds : versions[w].prior # v
          BY <2>3, <2>4 DEF HistoryIsChain
        <4>2. ASSUME NEW w \in VersionIds, versions[w].prior = o PROVE FALSE
          \* Nothing follows a version that does not exist: their items agree.
          <5>1. versions[o].item = versions[w].item /\ versions[o].item = None
            BY <2>2, <2>4, <4>2 DEF HistoryIsChain, NoRow
          <5> QED
            BY <5>1, <4>2, <2>4 DEF VersionIsNew
        <4> QED
          BY <2>2, <4>1, <4>2 DEF Rewrites
      <3>2. CASE versions'[o] = versions[o]
        BY <2>2, <2>4, <3>1, <3>2 DEF HistoryIsChain, NoRow
      <3>3. CASE /\ versions'[o].item = i /\ versions'[o].prior = v
                 /\ ~versions'[v].open
        BY <2>2, <2>3, <2>4, <3>1, <3>3 DEF HistoryIsChain, NoRow
      <3> QED
        BY <2>2, <3>2, <3>3, Zenon DEF Rewrites
    <2>6. VersionIsNew'
      <3>1. prepared' = [prepared EXCEPT ![o].status = "executed"]
            /\ versions' = Mutated(o) /\ prepared[o].prior = v
        BY <2>1, Zenon DEF Executes
      <3>a. \A w \in VersionIds : versions'[w].item = None => versions'[w].prior = None
        BY <2>2, <2>4, ReviewAssumption DEF Rewrites, VersionIsNew
      <3>2. SUFFICES ASSUME NEW q \in Ops, prepared'[q].status # "executed"
                     PROVE  versions'[q] = NoRow
        BY <3>a, Zenon DEF VersionIsNew
      <3>3. q # o /\ prepared[q].status # "executed"
        BY <3>1, <3>2 DEF TypeOK, Prepared
      <3>4. versions[q] = NoRow /\ q \in VersionIds
        BY <3>3 DEF VersionIsNew, VersionIds
      <3>5. ~Touches(o, q)
        BY <2>3, <3>1, <3>4 DEF Touches, NoRow
      <3> QED
        BY <3>1, <3>3, <3>4, <3>5 DEF Mutated
    <2> QED
      BY <2>5, <2>6
  <1>5. ASSUME NEW o \in Ops, PreparedExpires(o)
        PROVE  HistoryIsChain' /\ VersionIsNew'
    BY <1>5 DEF PreparedExpires, HistoryIsChain, VersionIsNew, TypeOK, Prepared
  <1>6. CASE Ledger
    BY <1>6 DEF Ledger, reviewVars, HistoryIsChain, VersionIsNew
  <1>7. CASE UNCHANGED vars
    BY <1>7 DEF vars, reviewVars, HistoryIsChain, VersionIsNew
  <1> QED
    BY <1>1, <1>2, <1>3, <1>4, <1>5, <1>6, <1>7, Zenon DEF Next, Review

\* HistoryInv is the inductive form of HistoryIsChain.
LEMMA HistoryIsInvariant == Spec => []HistoryInv
<1>1. Init => HistoryIsChain /\ VersionIsNew
  <2> SUFFICES ASSUME Init PROVE HistoryIsChain /\ VersionIsNew
    OBVIOUS
  <2>1. None \notin VersionIds /\ Items \cap Ops = {} /\ VersionIds = Items \cup Ops
    BY ReviewAssumption DEF VersionIds
  <2>2. \A v \in Items : versions[v].item = v /\ versions[v].prior = None
    BY <2>1 DEF Init, NoRow
  <2>3. \A o \in Ops : versions[o] = NoRow
    BY <2>1 DEF Init
  <2>4. VersionIsNew
    <3>1. NoRow.prior = None
      BY DEF NoRow
    <3>2. \A v \in VersionIds : versions[v].prior = None
      BY <2>1, <2>2, <2>3, <3>1
    <3> QED
      BY <2>3, <3>2, Zenon DEF VersionIsNew
  <2>5. HistoryIsChain
    <3>1. \A v \in VersionIds : versions[v].prior = None
      BY <2>1, <2>2, <2>3 DEF NoRow
    <3>2. \A v \in VersionIds : versions[v].open => v \in Items
      BY <2>1, <2>3 DEF NoRow
    <3> QED
      BY <2>1, <2>2, <3>1, <3>2 DEF HistoryIsChain
  <2> QED
    BY <2>4, <2>5
<1> QED
  BY <1>1, HistoryStep, TypeCorrect, PTL DEF Spec, HistoryInv

\* No update is lost: reviews of one item that overlap are decided on the head
\* they replace, or refused.
THEOREM HistoryIsKept == Spec => []HistoryIsChain
  BY HistoryIsInvariant, PTL DEF HistoryInv

-----------------------------------------------------------------------------
(* Tombstones.                                                             *)

\* A tombstone is final.  It closes the one head of its node and every open edge
\* at it; a later review of them finds no head to replace.
THEOREM TombstonesAreFinal == Spec => []TombstoneIsFinal
<1>1. Init => TombstoneIsFinal
  <2>1. ASSUME Init PROVE \A o \in Ops : prepared[o].status # "executed"
    BY <2>1 DEF Init, NoOp
  <2> QED
    BY <2>1 DEF TombstoneIsFinal
<1>2. ASSUME HistoryInv, TombstoneIsFinal, [Next]_vars PROVE TombstoneIsFinal'
  <2> USE DEF HistoryInv
  <2>1. ASSUME NEW o \in Ops, NEW cmd \in Commands, NEW i \in Items, Prepare(o, cmd, i)
        PROVE  TombstoneIsFinal'
    BY <1>2, <2>1 DEF Prepare, TombstoneIsFinal, TypeOK, Prepared, Head
  <2>2. ASSUME NEW n \in Nonces, NEW o \in Ops, Approve(n, o) PROVE TombstoneIsFinal'
    BY <1>2, <2>2 DEF Approve, TombstoneIsFinal, Head
  <2>3. ASSUME NEW n \in Nonces, ChallengeExpires(n) PROVE TombstoneIsFinal'
    BY <1>2, <2>3 DEF ChallengeExpires, TombstoneIsFinal, Head
  <2>4. ASSUME NEW n \in Nonces, NEW cmd \in Commands, NEW i \in Items, Execute(n, cmd, i)
        PROVE  TombstoneIsFinal'
    <3>1. PICK o \in Ops, v \in VersionIds : Executes(n, cmd, i, o, v)
      BY <2>4, ExecuteFacts, Zenon
    <3>2. Rewrites(i, o, v) /\ o # v /\ versions[o] = NoRow
      BY <1>2, <3>1, ExecuteRewrites, Zenon
    <3>3. /\ versions[v].item = i /\ versions[v].open
          /\ prepared[o].status = "pending" /\ prepared[o].cmd = cmd
          /\ prepared[o].item = i /\ prepared[o].prior = v
          /\ prepared' = [prepared EXCEPT ![o].status = "executed"]
          /\ versions' = Mutated(o)
          /\ Outcome(cmd, i, versions[v].status) \in Tiers \cup {"closed", "kept"}
      BY <3>1, Zenon DEF Executes, Head
    <3>4. SUFFICES ASSUME NEW q \in Ops, NEW w \in VersionIds,
                          prepared'[q].cmd = "tombstone", prepared'[q].status = "executed",
                          versions'[w].open
                   PROVE  /\ versions'[w].item # prepared'[q].item
                          /\ versions'[w].item \in Edges =>
                                prepared'[q].item \notin EndsOf[versions'[w].item]
      BY Zenon DEF TombstoneIsFinal, Head
    <3>5. prepared'[q].item = prepared[q].item /\ prepared'[q].cmd = prepared[q].cmd
          /\ (q # o => prepared[q].status = "executed")
      BY <1>2, <3>3, <3>4 DEF TypeOK, Prepared
    <3>6. CASE q # o
      <4>1. CASE w = o /\ versions'[o] # versions[o]
        \* The new version is of the item whose head v was open.
        <5>1. versions'[w].item = versions[v].item /\ versions[v].open
          BY <3>2, <3>3, <4>1 DEF Rewrites
        <5> QED
          BY <1>2, <3>4, <3>5, <3>6, <5>1 DEF TombstoneIsFinal, Head
      <4>2. CASE w # o \/ versions'[o] = versions[o]
        <5>1. versions'[w].item = versions[w].item /\ versions[w].open
          BY <3>2, <3>4, <4>2, Zenon DEF Rewrites
        <5> QED
          BY <1>2, <3>4, <3>5, <3>6, <5>1 DEF TombstoneIsFinal, Head
      <4> QED
        BY <4>1, <4>2, Zenon
    <3>7. CASE q = o
      <4>1. Outcome(cmd, i, versions[v].status) = "closed"
        BY <3>3, <3>4, <3>5, <3>7 DEF Outcome, ReviewEdge, TombstoneNode, Tiers
      <4>2. \A x \in VersionIds :
               versions'[x] = IF Touches(o, x) THEN [versions[x] EXCEPT !.open = FALSE]
                              ELSE versions[x]
        BY <3>3, <4>1 DEF Mutated
      <4>3. ~Touches(o, w) /\ versions'[w] = versions[w]
        BY <1>2, <3>4, <4>2 DEF TypeOK, Row
      <4>4. w # v /\ versions[w].open
        BY <3>3, <3>4, <4>3 DEF Touches
      <4>5. versions[w].item # i
        BY <1>2, <3>3, <4>4 DEF HistoryIsChain
      <4>6. versions[w].item \in Edges => i \notin EndsOf[versions[w].item]
        BY <3>3, <3>4, <3>5, <3>7, <4>3, <4>4 DEF Touches
      <4> QED
        BY <3>3, <3>5, <3>7, <4>3, <4>5, <4>6, Zenon
    <3> QED
      BY <3>6, <3>7, Zenon
  <2>5. ASSUME NEW o \in Ops, PreparedExpires(o) PROVE TombstoneIsFinal'
    BY <1>2, <2>5 DEF PreparedExpires, TombstoneIsFinal, TypeOK, Prepared, Head
  <2>6. CASE Ledger
    BY <1>2, <2>6 DEF Ledger, reviewVars, TombstoneIsFinal, Head
  <2>7. CASE UNCHANGED vars
    BY <1>2, <2>7 DEF vars, reviewVars, TombstoneIsFinal, Head
  <2> QED
    BY <1>2, <2>1, <2>2, <2>3, <2>4, <2>5, <2>6, <2>7, Zenon DEF Next, Review
<1>3. Spec => []HistoryInv
  BY HistoryIsInvariant
<1> QED
  BY <1>1, <1>2, <1>3, PTL DEF Spec

=============================================================================
