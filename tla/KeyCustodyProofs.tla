-------------------------- MODULE KeyCustodyProofs --------------------------
(***************************************************************************)
(* Proofs about KeyCustody, for any keys and any number of consoles.  They *)
(* rest on KeysAssumption and ConsoleAssumption.                           *)
(***************************************************************************)
EXTENDS KeyCustody, TLAPS

-----------------------------------------------------------------------------
(* Type correctness.                                                       *)

\* Replacing one value of a function keeps its type, wherever the change is.
LEMMA ExceptType ==
    ASSUME NEW S, NEW T, NEW f \in [S -> T], NEW a, NEW b \in T
    PROVE  [f EXCEPT ![a] = b] \in [S -> T]
  <1>1. [f EXCEPT ![a] = b] = [x \in S |-> IF x = a THEN b ELSE f[x]]
    BY Zenon
  <1> QED
    BY <1>1

\* A console that goes on from one typed desk to another keeps the desks typed.
LEMMA DeskStep ==
    ASSUME desk \in [Consoles -> Desk], NEW p \in Consoles, NEW d \in Desk,
           desk' = [desk EXCEPT ![p] = d]
    PROVE  /\ desk' \in [Consoles -> Desk]
           /\ desk'[p] = d
           /\ \A q \in Consoles \ {p} : desk'[q] = desk[q]
  OBVIOUS

\* The desk of a console that does nothing is typed.
LEMMA IdleType == Idle \in Desk
  BY DEF Idle, Desk, Places, Rites

\* Steps that begin a ceremony.
LEMMA BeginType ==
    ASSUME TypeOK, NEW p \in Consoles, Begin(p), crossed' \subseteq LocalKeys
    PROVE  TypeOK'
  <1> USE DEF TypeOK, ledgerVars
  <1>0. desk[p] \in Desk
    OBVIOUS
  <1>1. ASSUME NEW rite \in LocalRites, Start(p, rite) PROVE TypeOK'
    BY <1>1, IdleType, DeskStep DEF Start, Desk, Places, Rites, Bound
  <1>2. ASSUME NEW target \in Keys, NEW rite \in {"revoke", "compromise"},
               StartState(p, rite, target)
        PROVE  TypeOK'
    BY <1>2, IdleType, DeskStep DEF StartState, Desk, Places, Rites
  <1>3. ASSUME NEW target \in Keys, NEW rite \in {"revoke", "compromise"},
               NEW r \in RecoveryKeys, StartRecoveryState(p, rite, target, r)
        PROVE  TypeOK'
    BY <1>3, IdleType, DeskStep DEF StartRecoveryState, Desk, Places, Rites, Keys
  <1>4. ASSUME NEW proof \in Keys, NEW r \in RecoveryKeys, StartAdjudication(p, proof, r)
        PROVE  TypeOK'
    BY <1>4, IdleType, DeskStep DEF StartAdjudication, Desk, Places, Rites, Keys
  <1>5. CASE ReconcileRead(p)
    BY <1>0, <1>5, IdleType, DeskStep DEF ReconcileRead, Desk, Places, Rites, Bound
  <1>6. CASE ReconcileSweep(p)
    <2>1. blobs' \in [LocalKeys -> [at : {"none", "staged", "published"}, aad : Nat]]
      BY <1>6 DEF ReconcileSweep, NoFile
    <2>2. desk' \in [Consoles -> Desk]
      <3>1. CASE Leave(p)
        BY <3>1, IdleType DEF Leave
      <3>2. CASE desk' = [desk EXCEPT ![p].pc = "signer", ![p].refs = {}]
        BY <1>0, <3>2 DEF Desk, Places
      <3> QED
        BY <1>6, <3>1, <3>2 DEF ReconcileSweep
    <2> QED
      BY <1>6, <2>1, <2>2, Zenon DEF ReconcileSweep
  <1>7. CASE ReadSigner(p)
    BY <1>0, <1>7, IdleType, DeskStep, SMTT(20) DEF ReadSigner, Leave, Desk, Places, Keys
  <1> QED
    BY <1>1, <1>2, <1>3, <1>4, <1>5, <1>6, <1>7, Zenon DEF Begin

\* Steps of rotate_key.
LEMMA RotateType ==
    ASSUME TypeOK, NEW p \in Consoles, Rotate(p), crossed' \subseteq LocalKeys
    PROVE  TypeOK'
  <1> USE DEF TypeOK, ledgerVars
  <1>0. desk[p] \in Desk
    OBVIOUS
  <1>1. ASSUME NEW new \in LocalKeys, RotateSeal(p, new) PROVE TypeOK'
    BY <1>0, <1>1 DEF RotateSeal, Desk, Places, Keys
  <1>2. CASE RotateBegin(p)
    BY <1>0, <1>2 DEF RotateBegin, Goto, Desk, Places
  <1>3. CASE RotatePublish(p)
    BY <1>0, <1>3, ZenonT(40) DEF RotatePublish, Goto, Desk, Places
  <1>4. CASE RotateCheck(p)
    BY <1>0, <1>4 DEF RotateCheck, Goto, Desk, Places
  <1>5. CASE RotateCommit(p)
    <2>1. chain' \in [Keys -> Status] /\ seq' \in Nat
      <3>1. chain' = [chain EXCEPT ![desk[p].signer] = "retired", ![desk[p].key] = "active"]
            /\ seq' = seq + 1
        BY <1>5, Zenon DEF RotateCommit
      <3>2. "retired" \in Status /\ "active" \in Status
        BY DEF Status
      <3>3. [chain EXCEPT ![desk[p].signer] = "retired"] \in [Keys -> Status]
        BY <3>2, ExceptType, Zenon
      <3>4. chain' = [[chain EXCEPT ![desk[p].signer] = "retired"]
                        EXCEPT ![desk[p].key] = "active"]
        BY <3>1, Zenon
      <3>5. chain' \in [Keys -> Status]
        BY <3>2, <3>3, <3>4, ExceptType, Zenon
      <3>6. seq' \in Nat
        BY <3>1
      <3> QED
        BY <3>5, <3>6
    <2>2. desk' \in [Consoles -> Desk]
      BY <1>0, <1>5, IdleType DEF RotateCommit, Leave
    <2>3. bound' \in [LocalKeys -> Nat]
      <3>1. bound' = [bound EXCEPT ![desk[p].key] = seq + 1]
        BY <1>5, Zenon DEF RotateCommit, BoundAt
      <3>2. seq + 1 \in Nat
        OBVIOUS
      <3> QED
        BY <3>1, <3>2, ExceptType, Zenon
    <2> QED
      BY <1>5, <2>1, <2>2, <2>3, Zenon DEF RotateCommit
  <1> QED
    BY <1>1, <1>2, <1>3, <1>4, <1>5, Zenon DEF Rotate

\* Steps of the other ceremonies.
LEMMA OtherType ==
    ASSUME TypeOK, NEW p \in Consoles, Other(p), crossed' \subseteq LocalKeys
    PROVE  TypeOK'
  <1> USE DEF TypeOK, ledgerVars
  <1>0. desk[p] \in Desk
    OBVIOUS
  <1>1. ASSUME NEW new \in RecoveryKeys, RecoveryBegin(p, new) PROVE TypeOK'
    BY <1>0, <1>1 DEF RecoveryBegin, JournalKey, Desk, Places, Keys
  <1>2. CASE RecoveryCommit(p)
    <2>1. chain' \in [Keys -> Status] /\ seq' \in Nat
      <3>1. chain' = [chain EXCEPT ![desk[p].key] = "active"] /\ seq' = seq + 1
        BY <1>2, Zenon DEF RecoveryCommit
      <3>2. "active" \in Status
        BY DEF Status
      <3>3. chain' \in [Keys -> Status]
        BY <3>1, <3>2, ExceptType, Zenon
      <3>4. seq' \in Nat
        BY <3>1
      <3> QED
        BY <3>3, <3>4
    <2>2. desk' \in [Consoles -> Desk]
      BY <1>0, <1>2 DEF RecoveryCommit, Goto, Desk, Places
    <2> QED
      BY <1>2, <2>1, <2>2, Zenon DEF RecoveryCommit
  <1>3. CASE RecoveryClear(p)
    BY <1>0, <1>3, IdleType DEF RecoveryClear, Leave
  <1>4. ASSUME NEW new \in OtherKeys, PairCommit(p, new) PROVE TypeOK'
    <2>1. chain' \in [Keys -> Status] /\ seq' \in Nat
      <3>1. chain' = [chain EXCEPT ![new] = "active"] /\ seq' = seq + 1
        BY <1>4, Zenon DEF PairCommit
      <3>2. "active" \in Status
        BY DEF Status
      <3>3. chain' \in [Keys -> Status]
        BY <3>1, <3>2, ExceptType, Zenon
      <3>4. seq' \in Nat
        BY <3>1
      <3> QED
        BY <3>3, <3>4
    <2>2. desk' \in [Consoles -> Desk]
      BY <1>0, <1>4, IdleType DEF PairCommit, Leave
    <2> QED
      BY <1>4, <2>1, <2>2, Zenon DEF PairCommit
  <1>5. CASE StateCommit(p)
    <2>1. chain' \in [Keys -> Status] /\ seq' \in Nat
      BY <1>0, <1>5 DEF StateCommit, Status
    <2>2. desk' \in [Consoles -> Desk]
      BY <1>0, <1>5, IdleType DEF StateCommit, Leave
    <2>3. proofs' \in [Keys -> {"none", "pending", "adjudicated"}]
      BY <1>5 DEF StateCommit
    <2> QED
      BY <1>5, <2>1, <2>2, <2>3, Zenon DEF StateCommit
  <1>6. CASE AdjudicateCommit(p)
    <2>1. seq' \in Nat /\ proofs' \in [Keys -> {"none", "pending", "adjudicated"}]
      <3>1. proofs' = [proofs EXCEPT ![desk[p].key] = "adjudicated"] /\ seq' = seq + 1
        BY <1>6, Zenon DEF AdjudicateCommit
      <3>2. proofs' \in [Keys -> {"none", "pending", "adjudicated"}]
        BY <3>1, ExceptType, Zenon
      <3>3. seq' \in Nat
        BY <3>1
      <3> QED
        BY <3>2, <3>3
    <2>2. desk' \in [Consoles -> Desk]
      BY <1>6, IdleType DEF AdjudicateCommit, Leave
    <2> QED
      BY <1>6, <2>1, <2>2, Zenon DEF AdjudicateCommit
  <1> QED
    BY <1>1, <1>2, <1>3, <1>4, <1>5, <1>6, Zenon DEF Other

\* The initial state is typed.
LEMMA InitType ==
    ASSUME Init
    PROVE  TypeOK
  <1>1. chain \in [Keys -> Status] /\ seq \in Nat /\ blocked \in BOOLEAN
    BY DEF Init, LedgerInit, Status
  <1>2. /\ bound \in [LocalKeys -> Nat]
        /\ blobs \in [LocalKeys -> [at : {"none", "staged", "published"}, aad : Nat]]
        /\ proofs \in [Keys -> {"none", "pending", "adjudicated"}]
    BY DEF Init, NoFile
  <1>3. desk \in [Consoles -> Desk] /\ journal = None /\ writer = None /\ crossed = {}
    BY IdleType DEF Init
  <1> QED
    BY <1>1, <1>2, <1>3 DEF TypeOK

\* Every step keeps the types.
LEMMA NextType ==
    ASSUME TypeOK, [Next]_vars
    PROVE  TypeOK' /\ crossed' \subseteq LocalKeys
  <1> USE DEF TypeOK, ledgerVars
  <1>c. crossed' \subseteq LocalKeys
    BY DEF Next, NoteCrossings, vars
  <1>1. ASSUME NEW p \in Consoles, Begin(p) PROVE TypeOK'
    BY <1>c, <1>1, BeginType, Zenon
  <1>2. ASSUME NEW p \in Consoles, Rotate(p) PROVE TypeOK'
    BY <1>c, <1>2, RotateType, Zenon
  <1>3. ASSUME NEW p \in Consoles, Other(p) PROVE TypeOK'
    BY <1>c, <1>3, OtherType, Zenon
  <1>4. ASSUME NEW p \in Consoles, Abort(p) PROVE TypeOK'
    BY <1>c, <1>4, IdleType DEF Abort, Leave, Released, NoFile
  <1>5. ASSUME NEW p \in Consoles, Crash(p) PROVE TypeOK'
    BY <1>c, <1>5, IdleType DEF Crash, Leave, Released
  <1>6. CASE AbandonInterruptedRecovery
    BY <1>c, <1>6 DEF AbandonInterruptedRecovery
  <1>7. CASE UNCHANGED vars
    BY <1>7 DEF vars, custodyVars
  <1> QED
    BY <1>1, <1>2, <1>3, <1>4, <1>5, <1>6, <1>7, <1>c, Zenon DEF Next, Step

\* Every variable keeps its type, whatever ceremonies overlap, fail and die.
THEOREM TypeCorrect == Spec => []TypeOK
  BY InitType, NextType, PTL DEF Spec

-----------------------------------------------------------------------------
(* The inductive invariant of the ledger.                                  *)

Writing(p) == desk[p].pc \in {"publish", "check", "commit"}

\* What a console knows at each place of its ceremony.
Fits(p) ==
    /\ desk[p].rite = "adjudicate" => desk[p].pc = "ready"
    /\ desk[p].pc = "ready" => desk[p].signer \in Keys
    /\ desk[p].pc = "ready" /\ desk[p].rite \in LocalRites => desk[p].signer \in LocalKeys
    /\ desk[p].pc = "ready" /\ desk[p].rite = "adjudicate" => desk[p].signer \in RecoveryKeys
    /\ desk[p].rite \in {"revoke", "compromise", "adjudicate"} =>
          desk[p].key \in Keys /\ chain[desk[p].key] # "unknown"
    /\ Rotating(p) => /\ desk[p].signer \in LocalKeys
                      /\ desk[p].key \in LocalKeys
                      /\ chain[desk[p].key] = "unknown"
    /\ Writing(p) => writer = p /\ Active(desk[p].signer)
    /\ desk[p].pc = "bundle" => /\ writer = p
                                /\ ~blocked
                                /\ desk[p].signer \in LocalKeys
                                /\ Active(desk[p].signer)
                                /\ desk[p].key \in RecoveryKeys
                                /\ chain[desk[p].key] = "unknown"

\* The fresh key of a rotation is on no other desk.
Apart(p, q) == Rotating(p) => desk[q].key # desk[p].key

\* A retained proof is about a key the ledger knows.
ProofsAreKnown == \A k \in Keys : proofs[k] # "none" => chain[k] # "unknown"

CustodyInv ==
    /\ TypeOK
    /\ \A p \in Consoles : Fits(p)
    /\ \A p, q \in Consoles : p # q => Apart(p, q)
    /\ ProofsAreKnown
    /\ OneActiveKey

\* A step of one console that leaves the ledger as it is.
LEMMA QuietStep ==
    ASSUME CustodyInv, TypeOK', NEW p \in Consoles,
           UNCHANGED <<ledgerVars, proofs>>,
           \A q \in Consoles \ {p} : desk'[q] = desk[q],
           writer' = writer \/ writer = None \/ writer = p,
           Fits(p)',
           \A q \in Consoles \ {p} : Apart(p, q)' /\ Apart(q, p)'
    PROVE  CustodyInv'
  <1> USE DEF CustodyInv
  <1>1. ASSUME NEW q \in Consoles, q # p PROVE Fits(q)'
    <2>1. Fits(q) /\ desk'[q] = desk[q] /\ chain' = chain /\ blocked' = blocked
      BY <1>1 DEF ledgerVars
    <2>2. writer = q => writer' = q
      BY <1>1, ConsoleAssumption
    <2> QED
      BY <2>1, <2>2 DEF Fits, Rotating, Writing, Active
  <1>2. ASSUME NEW a \in Consoles, NEW b \in Consoles, a # b PROVE Apart(a, b)'
    <2>1. CASE a = p \/ b = p
      BY <1>2, <2>1
    <2>2. CASE a # p /\ b # p
      BY <1>2, <2>2 DEF Apart, Rotating
    <2> QED
      BY <2>1, <2>2, Zenon
  <1>3. ProofsAreKnown' /\ OneActiveKey'
    BY DEF ProofsAreKnown, OneActiveKey, Active, ledgerVars
  <1> QED
    BY <1>1, <1>2, <1>3, Zenon

\* A step that appends an event, made while no other console is writing.
LEMMA CommitStep ==
    ASSUME CustodyInv, TypeOK', NEW p \in Consoles,
           writer \in {None, p},
           \A k \in Keys : chain[k] # "unknown" => chain'[k] # "unknown",
           \A q \in Consoles \ {p} : Rotating(q) => chain'[desk[q].key] = "unknown",
           \A q \in Consoles \ {p} : desk'[q] = desk[q],
           Fits(p)', ~Rotating(p)',
           \A q \in Consoles \ {p} : Apart(q, p)',
           ProofsAreKnown', OneActiveKey'
    PROVE  CustodyInv'
  <1> USE DEF CustodyInv
  <1>1. ASSUME NEW q \in Consoles, q # p PROVE Fits(q)'
    <2>1. Fits(q) /\ desk'[q] = desk[q]
      BY <1>1
    <2>2. writer # q
      BY <1>1, ConsoleAssumption
    <2>3. Rotating(q) => chain'[desk[q].key] = "unknown"
      BY <1>1
    <2> QED
      BY <2>1, <2>2, <2>3 DEF Fits, Rotating, Writing
  <1>2. ASSUME NEW a \in Consoles, NEW b \in Consoles, a # b PROVE Apart(a, b)'
    <2>1. CASE a = p
      BY <2>1 DEF Apart
    <2>2. CASE b = p
      BY <1>2, <2>2
    <2>3. CASE a # p /\ b # p
      BY <1>2, <2>3 DEF Apart, Rotating
    <2> QED
      BY <2>1, <2>2, <2>3, Zenon
  <1> QED
    BY <1>1, <1>2, Zenon

\* A console that leaves its ceremony without an event.
LEMMA LeaveStep ==
    ASSUME CustodyInv, TypeOK', NEW p \in Consoles, Leave(p),
           UNCHANGED <<ledgerVars, proofs>>,
           writer' = writer \/ writer = p
    PROVE  CustodyInv'
  <1>1. desk'[p] = Idle /\ \A q \in Consoles \ {p} : desk'[q] = desk[q]
    BY DEF Leave, CustodyInv, TypeOK
  <1>2. Fits(p)'
    BY <1>1 DEF Fits, Rotating, Writing, Idle, LocalRites
  <1>3. ASSUME NEW q \in Consoles \ {p} PROVE Apart(p, q)' /\ Apart(q, p)'
    <2>1. Fits(q)
      BY DEF CustodyInv
    <2>2. Rotating(q) => desk[q].key # None
      BY <2>1, ConsoleAssumption DEF Fits, Keys
    <2> QED
      BY <1>1, <2>2 DEF Apart, Rotating, Idle
  <1> QED
    BY <1>1, <1>2, <1>3, QuietStep

\* Steps that begin a ceremony keep the invariant.
LEMMA BeginStep ==
    ASSUME CustodyInv, NEW p \in Consoles, Begin(p), crossed' \subseteq LocalKeys
    PROVE  CustodyInv'
  <1> USE DEF CustodyInv
  <1>t. TypeOK'
    BY BeginType, Zenon
  <1>0. desk \in [Consoles -> Desk] /\ Fits(p)
    BY DEF TypeOK
  <1>f. \A q \in Consoles : Rotating(q) => desk[q].key # None /\ chain[desk[q].key] = "unknown"
    BY ConsoleAssumption DEF Fits, Keys
  <1>1. ASSUME NEW rite \in LocalRites, Start(p, rite) PROVE CustodyInv'
    <2>1. /\ UNCHANGED <<ledgerVars, proofs>> /\ writer' = writer
          /\ desk'[p] = [Idle EXCEPT !.pc = "sweep", !.rite = rite, !.refs = Bound]
          /\ \A q \in Consoles \ {p} : desk'[q] = desk[q]
      BY <1>0, <1>1 DEF Start
    <2>2. desk'[p].pc = "sweep" /\ desk'[p].rite = rite /\ desk'[p].key = None
      BY <2>1 DEF Idle
    <2>3. Fits(p)'
      BY <2>2 DEF Fits, Rotating, Writing, LocalRites
    <2>4. ASSUME NEW q \in Consoles \ {p} PROVE Apart(p, q)' /\ Apart(q, p)'
      BY <2>1, <2>2, <1>f DEF Apart, Rotating
    <2> QED
      BY <1>t, <2>1, <2>3, <2>4, QuietStep
  <1>2. ASSUME NEW target \in Keys, NEW rite \in {"revoke", "compromise"},
               StartState(p, rite, target)
        PROVE  CustodyInv'
    <2>1. /\ UNCHANGED <<ledgerVars, proofs>> /\ writer' = writer /\ Active(target)
          /\ desk'[p] = [Idle EXCEPT !.pc = "reconcile", !.rite = rite, !.key = target]
          /\ \A q \in Consoles \ {p} : desk'[q] = desk[q]
      BY <1>0, <1>2 DEF StartState
    <2>2. desk'[p].pc = "reconcile" /\ desk'[p].rite = rite /\ desk'[p].key = target
      BY <2>1 DEF Idle
    <2>3. Fits(p)'
      BY <2>1, <2>2 DEF Fits, Rotating, Writing, Active, ledgerVars
    <2>4. ASSUME NEW q \in Consoles \ {p} PROVE Apart(p, q)' /\ Apart(q, p)'
      BY <2>1, <2>2, <1>f DEF Apart, Rotating, Active
    <2> QED
      BY <1>t, <2>1, <2>3, <2>4, QuietStep
  <1>3. ASSUME NEW target \in Keys, NEW rite \in {"revoke", "compromise"},
               NEW r \in RecoveryKeys, StartRecoveryState(p, rite, target, r)
        PROVE  CustodyInv'
    <2>1. /\ UNCHANGED <<ledgerVars, proofs>> /\ writer' = writer /\ Active(target)
          /\ desk'[p] = [Idle EXCEPT !.pc = "ready", !.rite = rite, !.key = target, !.signer = r]
          /\ \A q \in Consoles \ {p} : desk'[q] = desk[q]
      BY <1>0, <1>3 DEF StartRecoveryState
    <2>2. /\ desk'[p].pc = "ready" /\ desk'[p].rite = rite
          /\ desk'[p].key = target /\ desk'[p].signer = r
      BY <2>1 DEF Idle
    <2>3. Fits(p)'
      BY <2>1, <2>2 DEF Fits, Rotating, Writing, Active, ledgerVars, Keys, LocalRites
    <2>4. ASSUME NEW q \in Consoles \ {p} PROVE Apart(p, q)' /\ Apart(q, p)'
      BY <2>1, <2>2, <1>f DEF Apart, Rotating, Active
    <2> QED
      BY <1>t, <2>1, <2>3, <2>4, QuietStep
  <1>4. ASSUME NEW proof \in Keys, NEW r \in RecoveryKeys, StartAdjudication(p, proof, r)
        PROVE  CustodyInv'
    <2>1. /\ UNCHANGED <<ledgerVars, proofs>> /\ writer' = writer /\ proofs[proof] = "pending"
          /\ desk'[p] = [Idle EXCEPT !.pc = "ready", !.rite = "adjudicate",
                                     !.key = proof, !.signer = r]
          /\ \A q \in Consoles \ {p} : desk'[q] = desk[q]
      BY <1>0, <1>4 DEF StartAdjudication
    <2>2. /\ desk'[p].pc = "ready" /\ desk'[p].rite = "adjudicate"
          /\ desk'[p].key = proof /\ desk'[p].signer = r
      BY <2>1 DEF Idle
    <2>3. chain[proof] # "unknown"
      BY <2>1 DEF ProofsAreKnown
    <2>4. Fits(p)'
      BY <2>1, <2>2, <2>3 DEF Fits, Rotating, Writing, ledgerVars, Keys, LocalRites
    <2>5. ASSUME NEW q \in Consoles \ {p} PROVE Apart(p, q)' /\ Apart(q, p)'
      BY <2>1, <2>2, <2>3, <1>f DEF Apart, Rotating
    <2> QED
      BY <1>t, <2>1, <2>4, <2>5, QuietStep
  <1>5. CASE ReconcileRead(p)
    <2>1. UNCHANGED <<ledgerVars, proofs>> /\ writer' = writer /\ desk[p].pc = "reconcile"
      BY <1>5 DEF ReconcileRead
    <2>2. CASE Leave(p)
      BY <1>t, <2>1, <2>2, LeaveStep
    <2>3. CASE desk' = [desk EXCEPT ![p] = [@ EXCEPT !.pc = "sweep", !.refs = Bound]]
      <3>1. /\ desk'[p].pc = "sweep" /\ desk'[p].rite = desk[p].rite
            /\ desk'[p].key = desk[p].key
            /\ \A q \in Consoles \ {p} : desk'[q] = desk[q]
        BY <1>0, <2>3 DEF Desk
      <3>2. Fits(p)'
        BY <1>0, <2>1, <3>1 DEF Fits, Rotating, Writing, ledgerVars
      <3>3. ASSUME NEW q \in Consoles \ {p} PROVE Apart(p, q)' /\ Apart(q, p)'
        BY <3>1 DEF Apart, Rotating
      <3> QED
        BY <1>t, <2>1, <3>1, <3>2, <3>3, QuietStep
    <2> QED
      <3>1. CASE Reconcilable
        BY <1>5, <3>1, <2>3 DEF ReconcileRead
      <3>2. CASE ~Reconcilable
        BY <1>5, <3>2, <2>2 DEF ReconcileRead, Leave
      <3> QED
        BY <3>1, <3>2
  <1>6. CASE ReconcileSweep(p)
    <2>1. UNCHANGED <<ledgerVars, proofs>> /\ writer' = writer /\ desk[p].pc = "sweep"
      BY <1>6 DEF ReconcileSweep
    <2>2. CASE Leave(p)
      BY <1>t, <2>1, <2>2, LeaveStep
    <2>3. CASE desk' = [desk EXCEPT ![p].pc = "signer", ![p].refs = {}]
      <3>1. /\ desk'[p].pc = "signer" /\ desk'[p].rite = desk[p].rite
            /\ desk'[p].key = desk[p].key
            /\ \A q \in Consoles \ {p} : desk'[q] = desk[q]
        BY <1>0, <2>3 DEF Desk
      <3>2. Fits(p)'
        BY <1>0, <2>1, <3>1 DEF Fits, Rotating, Writing, ledgerVars
      <3>3. ASSUME NEW q \in Consoles \ {p} PROVE Apart(p, q)' /\ Apart(q, p)'
        BY <3>1 DEF Apart, Rotating
      <3> QED
        BY <1>t, <2>1, <3>1, <3>2, <3>3, QuietStep
    <2> QED
      BY <1>6, <2>2, <2>3 DEF ReconcileSweep
  <1>7. CASE ReadSigner(p)
    <2>1. UNCHANGED <<ledgerVars, proofs>> /\ writer' = writer /\ desk[p].pc = "signer"
      BY <1>7 DEF ReadSigner
    <2>2. CASE Leave(p)
      BY <1>t, <2>1, <2>2, LeaveStep
    <2>3. ASSUME NEW k \in LocalKeys,
                 desk' = [desk EXCEPT ![p].pc = "ready", ![p].signer = k]
          PROVE  CustodyInv'
      <3>1. /\ desk'[p].pc = "ready" /\ desk'[p].rite = desk[p].rite
            /\ desk'[p].key = desk[p].key /\ desk'[p].signer = k
            /\ \A q \in Consoles \ {p} : desk'[q] = desk[q]
        BY <1>0, <2>3 DEF Desk
      <3>2. desk[p].rite # "adjudicate"
        BY <1>0, <2>1 DEF Fits
      <3>3. Fits(p)'
        BY <1>0, <2>1, <3>1, <3>2 DEF Fits, Rotating, Writing, ledgerVars, Keys
      <3>4. ASSUME NEW q \in Consoles \ {p} PROVE Apart(p, q)' /\ Apart(q, p)'
        BY <3>1 DEF Apart, Rotating
      <3> QED
        BY <1>t, <2>1, <3>1, <3>3, <3>4, QuietStep
    <2> QED
      BY <1>7, <2>2, <2>3 DEF ReadSigner
  <1> QED
    BY <1>1, <1>2, <1>3, <1>4, <1>5, <1>6, <1>7, Zenon DEF Begin

\* Steps of rotate_key keep the invariant.
LEMMA RotateStep ==
    ASSUME CustodyInv, NEW p \in Consoles, Rotate(p), crossed' \subseteq LocalKeys
    PROVE  CustodyInv'
  <1> USE DEF CustodyInv
  <1>t. TypeOK'
    BY RotateType, Zenon
  <1>0. desk \in [Consoles -> Desk] /\ Fits(p) /\ chain \in [Keys -> Status]
    BY DEF TypeOK
  <1>f. \A q \in Consoles : Rotating(q) =>
           desk[q].key \in LocalKeys /\ chain[desk[q].key] = "unknown"
    BY DEF Fits
  <1>1. ASSUME NEW new \in LocalKeys, RotateSeal(p, new) PROVE CustodyInv'
    <2>1. /\ UNCHANGED <<ledgerVars, proofs>> /\ writer' = writer
          /\ desk[p].pc = "ready" /\ desk[p].rite = "rotate"
          /\ chain[new] = "unknown" /\ \A q \in Consoles : desk[q].key # new
          /\ desk' = [desk EXCEPT ![p].pc = "staged", ![p].key = new]
      BY <1>1 DEF RotateSeal
    <2>2. /\ desk'[p].pc = "staged" /\ desk'[p].rite = "rotate"
          /\ desk'[p].key = new /\ desk'[p].signer = desk[p].signer
          /\ \A q \in Consoles \ {p} : desk'[q] = desk[q]
      BY <1>0, <2>1 DEF Desk
    <2>3. Fits(p)'
      BY <1>0, <2>1, <2>2 DEF Fits, Rotating, Writing, ledgerVars, LocalRites
    <2>4. ASSUME NEW q \in Consoles \ {p} PROVE Apart(p, q)' /\ Apart(q, p)'
      BY <2>1, <2>2 DEF Apart, Rotating
    <2> QED
      BY <1>t, <2>1, <2>2, <2>3, <2>4, QuietStep
  <1>2. ASSUME NEW place \in {"publish", "check", "commit"}, Goto(p, place),
               Rotating(p), UNCHANGED <<ledgerVars, proofs>>,
               writer' = p, writer \in {None, p}, Active(desk[p].signer)
        PROVE  CustodyInv'
    <2>1. /\ desk'[p].pc = place /\ desk'[p].rite = desk[p].rite
          /\ desk'[p].key = desk[p].key /\ desk'[p].signer = desk[p].signer
          /\ \A q \in Consoles \ {p} : desk'[q] = desk[q]
      BY <1>0, <1>2 DEF Goto, Desk
    <2>2. Fits(p)'
      BY <1>0, <1>2, <2>1 DEF Fits, Rotating, Writing, Active, ledgerVars
    <2>3. ASSUME NEW q \in Consoles \ {p} PROVE Apart(p, q)' /\ Apart(q, p)'
      BY <1>2, <2>1 DEF Apart, Rotating
    <2> QED
      BY <1>t, <1>2, <2>1, <2>2, <2>3, QuietStep
  <1>3. CASE RotateBegin(p)
    <2>1. Active(desk[p].signer)
      BY <1>3 DEF RotateBegin, SameKey, ActiveLocal
    <2> QED
      BY <1>2, <1>3, <2>1 DEF RotateBegin, Rotating
  <1>4. CASE RotatePublish(p)
    <2>1. writer = p /\ Active(desk[p].signer)
      BY <1>0, <1>4 DEF RotatePublish, Fits, Writing
    <2> QED
      BY <1>2, <1>4, <2>1 DEF RotatePublish, Rotating
  <1>5. CASE RotateCheck(p)
    <2>1. writer = p /\ Active(desk[p].signer)
      BY <1>0, <1>5 DEF RotateCheck, Fits, Writing
    <2> QED
      BY <1>2, <1>5, <2>1 DEF RotateCheck, Rotating
  <1>6. CASE RotateCommit(p)
    <2>1. /\ Rotating(p) /\ writer = p /\ Active(desk[p].signer)
          /\ desk[p].signer \in LocalKeys /\ desk[p].key \in LocalKeys
          /\ chain[desk[p].key] = "unknown"
      BY <1>0, <1>6 DEF RotateCommit, Fits, Writing, Rotating
    <2>2. /\ chain' = [chain EXCEPT ![desk[p].signer] = "retired", ![desk[p].key] = "active"]
          /\ Leave(p) /\ proofs' = proofs
      BY <1>6 DEF RotateCommit
    <2>3. desk'[p] = Idle /\ \A q \in Consoles \ {p} : desk'[q] = desk[q]
      BY <1>0, <2>2 DEF Leave
    <2>4. \A k \in Keys :
             chain'[k] = IF k = desk[p].key THEN "active"
                         ELSE IF k = desk[p].signer THEN "retired" ELSE chain[k]
      BY <1>0, <2>1, <2>2 DEF Keys
    <2>5. \A k \in Keys : chain[k] # "unknown" => chain'[k] # "unknown"
      BY <2>4
    <2>6. ASSUME NEW q \in Consoles \ {p}, Rotating(q) PROVE chain'[desk[q].key] = "unknown"
      <3>1. desk[q].key # desk[p].key
        BY <2>1 DEF Apart
      <3> QED
        BY <1>f, <2>1, <2>4, <2>6, <3>1 DEF Keys, Active
    <2>7. Fits(p)' /\ ~Rotating(p)'
      BY <2>3 DEF Fits, Rotating, Writing, Idle, LocalRites
    <2>8. ASSUME NEW q \in Consoles \ {p} PROVE Apart(q, p)'
      BY <2>3, <1>f, ConsoleAssumption DEF Apart, Rotating, Idle, Keys
    <2>9. ProofsAreKnown' /\ OneActiveKey'
      <3>1. ProofsAreKnown'
        BY <2>2, <2>5 DEF ProofsAreKnown
      <3>2. \A k \in LocalKeys : Active(k)' => k = desk[p].key
        BY <2>1, <2>4 DEF Active, OneActiveKey, Keys
      <3> QED
        BY <3>1, <3>2 DEF OneActiveKey
    <2> QED
      BY <1>t, <2>1, <2>3, <2>5, <2>6, <2>7, <2>8, <2>9, CommitStep
  <1> QED
    BY <1>1, <1>3, <1>4, <1>5, <1>6, Zenon DEF Rotate

\* Steps of the other ceremonies keep the invariant.
LEMMA OtherStep ==
    ASSUME CustodyInv, NEW p \in Consoles, Other(p), crossed' \subseteq LocalKeys
    PROVE  CustodyInv'
  <1> USE DEF CustodyInv
  <1>t. TypeOK'
    BY OtherType, Zenon
  <1>0. desk \in [Consoles -> Desk] /\ Fits(p) /\ chain \in [Keys -> Status]
        /\ proofs \in [Keys -> {"none", "pending", "adjudicated"}]
    BY DEF TypeOK
  <1>f. \A q \in Consoles : Rotating(q) =>
           /\ desk[q].key \in LocalKeys /\ desk[q].key # None
           /\ chain[desk[q].key] = "unknown"
    BY ConsoleAssumption DEF Fits, Keys
  <1>k. /\ \A k \in RecoveryKeys \cup OtherKeys : k \in Keys /\ k \notin LocalKeys
        /\ \A k \in LocalKeys : k \in Keys
    BY KeysAssumption DEF Keys
  \* A commit after which the console is idle.
  <1>c. ASSUME writer = None, Leave(p),
               \A k \in Keys : chain[k] # "unknown" => chain'[k] # "unknown",
               \A k \in LocalKeys : chain[k] = "unknown" => chain'[k] = "unknown",
               \A k \in LocalKeys : chain'[k] = "active" => chain[k] = "active",
               ProofsAreKnown'
        PROVE  CustodyInv'
    <2>1. desk'[p] = Idle /\ \A q \in Consoles \ {p} : desk'[q] = desk[q]
      BY <1>0, <1>c DEF Leave
    <2>2. Fits(p)' /\ ~Rotating(p)'
      BY <2>1 DEF Fits, Rotating, Writing, Idle, LocalRites
    <2>3. ASSUME NEW q \in Consoles \ {p} PROVE Apart(q, p)'
      BY <2>1, <1>f DEF Apart, Rotating, Idle
    <2>4. OneActiveKey'
      BY <1>c DEF OneActiveKey, Active
    <2>5. \A q \in Consoles \ {p} : Rotating(q) => chain'[desk[q].key] = "unknown"
      BY <1>c, <1>f
    <2> QED
      BY <1>t, <1>c, <2>1, <2>2, <2>3, <2>4, <2>5, CommitStep
  <1>1. ASSUME NEW new \in RecoveryKeys, RecoveryBegin(p, new) PROVE CustodyInv'
    <2>1. /\ UNCHANGED <<ledgerVars, proofs>> /\ writer = None /\ writer' = p
          /\ desk[p].pc = "ready" /\ desk[p].rite = "recovery"
          /\ chain[new] = "unknown" /\ ~blocked /\ Active(desk[p].signer)
          /\ desk' = [desk EXCEPT ![p].pc = "bundle", ![p].key = new]
      BY <1>1 DEF RecoveryBegin, InForce
    <2>2. /\ desk'[p].pc = "bundle" /\ desk'[p].rite = "recovery"
          /\ desk'[p].key = new /\ desk'[p].signer = desk[p].signer
          /\ \A q \in Consoles \ {p} : desk'[q] = desk[q]
      BY <1>0, <2>1 DEF Desk
    <2>3. desk[p].signer \in LocalKeys
      BY <1>0, <2>1 DEF Fits, LocalRites
    <2>4. Fits(p)'
      BY <2>1, <2>2, <2>3 DEF Fits, Rotating, Writing, Active, ledgerVars
    <2>5. ASSUME NEW q \in Consoles \ {p} PROVE Apart(p, q)' /\ Apart(q, p)'
      BY <2>1, <2>2, <1>f, <1>k, ZenonT(40) DEF Apart, Rotating
    <2> QED
      BY <1>t, <2>1, <2>2, <2>4, <2>5, QuietStep
  <1>2. CASE RecoveryCommit(p)
    <2>1. /\ desk[p].pc = "bundle" /\ writer = p /\ desk[p].key \in RecoveryKeys
          /\ chain' = [chain EXCEPT ![desk[p].key] = "active"]
          /\ proofs' = proofs /\ Goto(p, "clear")
      BY <1>0, <1>2 DEF RecoveryCommit, Fits
    <2>2. /\ desk'[p].pc = "clear" /\ desk'[p].key = desk[p].key
          /\ desk'[p].rite = desk[p].rite
          /\ \A q \in Consoles \ {p} : desk'[q] = desk[q]
      BY <1>0, <2>1 DEF Goto, Desk
    <2>3. \A k \in Keys : chain'[k] = IF k = desk[p].key THEN "active" ELSE chain[k]
      BY <1>0, <1>k, <2>1
    <2>4. \A k \in Keys : chain[k] # "unknown" => chain'[k] # "unknown"
      BY <2>3
    <2>5. \A q \in Consoles \ {p} : Rotating(q) => chain'[desk[q].key] = "unknown"
      BY <2>1, <2>3, <1>f, <1>k
    <2>6. Fits(p)' /\ ~Rotating(p)'
      BY <1>0, <2>1, <2>2, <2>4 DEF Fits, Rotating, Writing
    <2>7. ASSUME NEW q \in Consoles \ {p} PROVE Apart(q, p)'
      BY <2>1, <2>2, <1>f, <1>k DEF Apart, Rotating
    <2>8. ProofsAreKnown' /\ OneActiveKey'
      BY <1>k, <2>1, <2>3, <2>4 DEF ProofsAreKnown, OneActiveKey, Active
    <2> QED
      BY <1>t, <2>1, <2>2, <2>4, <2>5, <2>6, <2>7, <2>8, CommitStep
  <1>3. CASE RecoveryClear(p)
    BY <1>t, <1>3, LeaveStep DEF RecoveryClear
  <1>4. ASSUME NEW new \in OtherKeys, PairCommit(p, new) PROVE CustodyInv'
    <2>1. /\ writer = None /\ Leave(p) /\ proofs' = proofs
          /\ chain' = [chain EXCEPT ![new] = "active"]
      BY <1>4 DEF PairCommit
    <2>2. \A k \in Keys : chain'[k] = IF k = new THEN "active" ELSE chain[k]
      BY <1>0, <1>k, <2>1
    <2>3. ProofsAreKnown'
      BY <2>1, <2>2 DEF ProofsAreKnown
    <2> QED
      BY <1>c, <1>k, <2>1, <2>2, <2>3
  <1>5. CASE StateCommit(p)
    <2>1. /\ writer = None /\ Leave(p)
          /\ desk[p].key \in Keys /\ chain[desk[p].key] # "unknown"
      BY <1>0, <1>5 DEF StateCommit, Fits
    <2>2. PICK state \in {"revoked", "compromised"} :
             chain' = [chain EXCEPT ![desk[p].key] = state]
      BY <1>5 DEF StateCommit
    <2>3. \A k \in Keys : chain'[k] = IF k = desk[p].key THEN state ELSE chain[k]
      BY <1>0, <2>1, <2>2
    <2>4. proofs' = proofs \/ proofs' = [proofs EXCEPT ![desk[p].key] = "pending"]
      BY <1>5 DEF StateCommit
    <2>5. ProofsAreKnown'
      BY <1>0, <2>1, <2>3, <2>4 DEF ProofsAreKnown
    <2> QED
      BY <1>c, <1>k, <2>1, <2>2, <2>3, <2>5
  <1>6. CASE AdjudicateCommit(p)
    <2>1. /\ writer = None /\ Leave(p) /\ chain' = chain
          /\ desk[p].key \in Keys /\ chain[desk[p].key] # "unknown"
          /\ proofs' = [proofs EXCEPT ![desk[p].key] = "adjudicated"]
      BY <1>0, <1>6 DEF AdjudicateCommit, Fits
    <2>2. ProofsAreKnown'
      BY <1>0, <2>1 DEF ProofsAreKnown
    <2> QED
      BY <1>c, <2>1, <2>2
  <1> QED
    BY <1>1, <1>2, <1>3, <1>4, <1>5, <1>6, Zenon DEF Other

\* CustodyInv is an invariant of every deployment.
LEMMA CustodyIsInvariant == Spec => []CustodyInv
<1>1. Init => CustodyInv
  <2> SUFFICES ASSUME Init PROVE CustodyInv
    OBVIOUS
  <2>1. TypeOK
    BY InitType
  <2>2. \A p \in Consoles : desk[p] = Idle
    BY DEF Init
  <2>3. \A p \in Consoles : Fits(p)
    BY <2>2 DEF Fits, Rotating, Writing, Idle, LocalRites
  <2>4. \A p, q \in Consoles : Apart(p, q)
    BY <2>2 DEF Apart, Rotating, Idle
  <2>5. ProofsAreKnown
    BY DEF Init, ProofsAreKnown
  <2>6. OneActiveKey
    BY KeysAssumption DEF Init, LedgerInit, OneActiveKey, Active, Keys
  <2> QED
    BY <2>1, <2>3, <2>4, <2>5, <2>6, Zenon DEF CustodyInv
<1>2. ASSUME CustodyInv, [Next]_vars PROVE CustodyInv'
  <2>0. crossed' \subseteq LocalKeys
    BY <1>2, NextType DEF CustodyInv
  <2>1. ASSUME NEW p \in Consoles, Abort(p) \/ Crash(p) PROVE CustodyInv'
    <3>1. TypeOK'
      BY <1>2, NextType, Zenon DEF CustodyInv
    <3>2. /\ Leave(p) /\ UNCHANGED <<ledgerVars, proofs>>
          /\ writer' = writer \/ writer = p
      BY <2>1 DEF Abort, Crash, Released
    <3> QED
      BY <1>2, <3>1, <3>2, LeaveStep
  <2>2. CASE UNCHANGED <<ledgerVars, proofs, writer, desk>>
    <3>1. TypeOK'
      BY <1>2, NextType, Zenon DEF CustodyInv
    <3> QED
      BY <1>2, <2>2, <3>1 DEF CustodyInv, Fits, Rotating, Writing, Active, Apart,
         ProofsAreKnown, OneActiveKey, ledgerVars
  <2>3. CASE AbandonInterruptedRecovery
    BY <2>2, <2>3 DEF AbandonInterruptedRecovery
  <2>4. CASE UNCHANGED vars
    BY <2>2, <2>4 DEF vars, custodyVars, ledgerVars
  <2> QED
    BY <1>2, <2>0, <2>1, <2>3, <2>4, BeginStep, RotateStep, OtherStep, Zenon DEF Next, Step
<1> QED
  BY <1>1, <1>2, PTL DEF Spec


-----------------------------------------------------------------------------
(* What the ledger promises.                                               *)

\* There are never two active local keys, whatever rotations and revocations
\* overlap: active_binding's "authority requires exactly one active local key".
THEOREM OneActiveLocalKey == Spec => []OneActiveKey
  BY CustodyIsInvariant, PTL DEF CustodyInv

\* Every event the ceremonies commit is an event AuthorityLedger allows.
LEMMA CommitIsAllowed ==
    ASSUME CustodyInv, NEW p \in Consoles, Rotate(p) \/ Other(p)
    PROVE  LedgerNext \/ UNCHANGED ledgerVars
  <1>0. Fits(p)
    BY DEF CustodyInv
  <1>1. ASSUME NEW new \in LocalKeys, RotateSeal(p, new) PROVE UNCHANGED ledgerVars
    BY <1>1 DEF RotateSeal
  <1>2. CASE RotateBegin(p) \/ RotatePublish(p) \/ RotateCheck(p)
    BY <1>2 DEF RotateBegin, RotatePublish, RotateCheck
  <1>3. CASE RotateCommit(p)
    <2>1. /\ desk[p].signer \in LocalKeys /\ desk[p].key \in LocalKeys
          /\ Active(desk[p].signer) /\ chain[desk[p].key] = "unknown"
      BY <1>0, <1>3 DEF RotateCommit, Fits, Rotating, Writing
    <2>2. Rotated(desk[p].signer, desk[p].key)
      BY <1>3, <2>1, Zenon DEF RotateCommit, Rotated, Append
    <2> QED
      BY <2>1, <2>2, Zenon DEF LedgerNext
  <1>4. ASSUME NEW new \in RecoveryKeys, RecoveryBegin(p, new) PROVE UNCHANGED ledgerVars
    BY <1>4 DEF RecoveryBegin
  <1>5. CASE RecoveryCommit(p)
    <2>1. /\ desk[p].signer \in LocalKeys /\ desk[p].key \in RecoveryKeys
          /\ Active(desk[p].signer) /\ chain[desk[p].key] = "unknown" /\ ~blocked
      BY <1>0, <1>5 DEF RecoveryCommit, Fits
    <2>2. Certified(desk[p].signer, desk[p].key)
      BY <1>5, <2>1, Zenon DEF RecoveryCommit, Certified, Append
    <2>3. desk[p].key \in RecoveryKeys \cup OtherKeys
      BY <2>1
    <2> QED
      BY <2>1, <2>2, <2>3, Zenon DEF LedgerNext
  <1>6. CASE RecoveryClear(p)
    BY <1>6 DEF RecoveryClear
  <1>7. ASSUME NEW new \in OtherKeys, PairCommit(p, new) PROVE LedgerNext
    <2>1. desk[p].signer \in LocalKeys
      BY <1>0, <1>7 DEF PairCommit, Fits, LocalRites
    <2>2. Certified(desk[p].signer, new)
      BY <1>7, Zenon DEF PairCommit, Certified, Append, InForce
    <2>3. new \in RecoveryKeys \cup OtherKeys
      OBVIOUS
    <2> QED
      BY <2>1, <2>2, <2>3, Zenon DEF LedgerNext
  <1>8. CASE StateCommit(p)
    <2>1. desk[p].signer \in Keys /\ desk[p].key \in Keys
      BY <1>0, <1>8 DEF StateCommit, Fits
    <2>2. \/ Revoked(desk[p].signer, desk[p].key)
          \/ Compromised(desk[p].signer, desk[p].key)
      BY <1>8, Zenon DEF StateCommit, Revoked, Compromised, Append, InForce,
         StillActive, WritesAllowed
    <2> QED
      BY <2>1, <2>2, Zenon DEF LedgerNext
  <1>9. CASE AdjudicateCommit(p)
    <2>1. desk[p].signer \in RecoveryKeys
      BY <1>0, <1>9 DEF AdjudicateCommit, Fits
    <2>2. Adjudicated(desk[p].signer)
      BY <1>9, <2>1, Zenon DEF AdjudicateCommit, Adjudicated, Append, InForce
    <2> QED
      BY <2>1, <2>2, Zenon DEF LedgerNext
  <1> QED
    BY <1>1, <1>2, <1>3, <1>4, <1>5, <1>6, <1>7, <1>8, <1>9, Zenon DEF Rotate, Other

\* The ceremonies of service.py implement the ledger of AuthorityLedger: every
\* event has a signer in force and certifies a key nobody has used, no key comes
\* back into force, and a hold admits no event but an adjudication.
THEOREM LedgerIsImplemented == Spec => LedgerIsKept
<1>1. Init => LedgerInit
  BY DEF Init
<1>2. ASSUME CustodyInv, [Next]_vars PROVE [LedgerNext]_ledgerVars
  <2>1. ASSUME NEW p \in Consoles, Begin(p) \/ Abort(p) \/ Crash(p)
        PROVE  UNCHANGED ledgerVars
    BY <2>1 DEF Begin, Start, StartState, StartRecoveryState, StartAdjudication,
       ReconcileRead, ReconcileSweep, ReadSigner, Abort, Crash
  <2>2. CASE AbandonInterruptedRecovery
    BY <2>2 DEF AbandonInterruptedRecovery
  <2>3. CASE UNCHANGED vars
    BY <2>3 DEF vars, ledgerVars
  <2> QED
    BY <1>2, <2>1, <2>2, <2>3, CommitIsAllowed, Zenon DEF Next, Step
<1> QED
  BY <1>1, <1>2, CustodyIsInvariant, PTL DEF Spec, LedgerIsKept, LedgerSpec


-----------------------------------------------------------------------------
(* The orderly deployment: one adjudication at a time.                     *)

OrderlyNext == Next /\ OneAdjudication'

\* What the deployment excludes never happens in it, and CustodyInv still holds.
LEMMA OrderlyIsInvariant ==
    OrderlySpec => [](CustodyInv /\ OneAdjudication)
<1>1. Init => OneAdjudication
  <2> SUFFICES ASSUME Init PROVE OneAdjudication
    OBVIOUS
  <2>1. \A p \in Consoles : desk[p] = Idle
    BY DEF Init
  <2> QED
    BY <2>1 DEF OneAdjudication, Idle
<1>2. ASSUME OneAdjudication, [OrderlyNext]_vars
      PROVE  OneAdjudication'
  <2>1. CASE OrderlyNext
    BY <2>1, Zenon DEF OrderlyNext
  <2>2. CASE UNCHANGED vars
    BY <1>2, <2>2 DEF OneAdjudication, vars, custodyVars
  <2> QED
    BY <1>2, <2>1, <2>2, Zenon
<1>3. [OrderlyNext]_vars => [Next]_vars
  BY Zenon DEF OrderlyNext
<1> QED
  BY <1>1, <1>2, <1>3, CustodyIsInvariant, PTL DEF Spec, OrderlySpec, OrderlyNext

\* At most one proof is pending, and an adjudication is about a pending one.
HoldInv ==
    /\ HoldIsKept
    /\ \A j, k \in Keys : proofs[j] = "pending" /\ proofs[k] = "pending" => j = k
    /\ \A p \in Consoles : desk[p].rite = "adjudicate" => proofs[desk[p].key] = "pending"

\* The step of a console that neither appends nor starts an adjudication.
LEMMA HoldQuietStep ==
    ASSUME HoldInv, NEW p \in Consoles, UNCHANGED <<blocked, proofs>>,
           \A q \in Consoles \ {p} : desk'[q] = desk[q],
           desk'[p].rite = "adjudicate" => proofs[desk'[p].key] = "pending"
    PROVE  HoldInv'
  <1>1. HoldIsKept'
    BY DEF HoldInv, HoldIsKept
  <1>2. \A j, k \in Keys : proofs'[j] = "pending" /\ proofs'[k] = "pending" => j = k
    BY DEF HoldInv
  <1>3. \A q \in Consoles : desk'[q].rite = "adjudicate" => proofs'[desk'[q].key] = "pending"
    BY DEF HoldInv
  <1> QED
    BY <1>1, <1>2, <1>3, Zenon DEF HoldInv

\* Every step of the orderly deployment keeps HoldInv.
LEMMA HoldStep ==
    ASSUME HoldInv, CustodyInv, OneAdjudication, [Next]_vars
    PROVE  HoldInv'
  <1>0. desk \in [Consoles -> Desk] /\ proofs \in [Keys -> {"none", "pending", "adjudicated"}]
        /\ \A p \in Consoles : Fits(p)
    BY DEF CustodyInv, TypeOK
  <1>l. ASSUME NEW p \in Consoles, Leave(p), UNCHANGED <<blocked, proofs>> PROVE HoldInv'
    <2>1. desk'[p] = Idle /\ \A q \in Consoles \ {p} : desk'[q] = desk[q]
      BY <1>0, <1>l DEF Leave
    <2> QED
      BY <1>l, <2>1, HoldQuietStep DEF Idle
  \* A step within a ceremony that is no adjudication.
  <1>w. ASSUME NEW p \in Consoles, UNCHANGED <<blocked, proofs>>, desk[p].rite # "adjudicate",
               desk'[p].rite = desk[p].rite,
               \A q \in Consoles \ {p} : desk'[q] = desk[q]
        PROVE  HoldInv'
    BY <1>w, HoldQuietStep
  <1>1. ASSUME NEW p \in Consoles, Begin(p) PROVE HoldInv'
    <2>0. UNCHANGED <<blocked, proofs>>
      BY <1>1 DEF Begin, Start, StartState, StartRecoveryState, StartAdjudication,
         ReconcileRead, ReconcileSweep, ReadSigner, ledgerVars
    <2>1. ASSUME NEW rite \in LocalRites, Start(p, rite) PROVE HoldInv'
      <3>1. desk'[p].rite = rite /\ \A q \in Consoles \ {p} : desk'[q] = desk[q]
        BY <1>0, <2>1 DEF Start, Idle
      <3> QED
        BY <2>0, <3>1, HoldQuietStep DEF LocalRites
    <2>2. ASSUME NEW target \in Keys, NEW rite \in {"revoke", "compromise"},
                 NEW r \in RecoveryKeys,
                 StartState(p, rite, target) \/ StartRecoveryState(p, rite, target, r)
          PROVE  HoldInv'
      <3>1. desk'[p].rite = rite /\ \A q \in Consoles \ {p} : desk'[q] = desk[q]
        BY <1>0, <2>2 DEF StartState, StartRecoveryState, Idle
      <3> QED
        BY <2>0, <3>1, HoldQuietStep
    <2>3. ASSUME NEW target \in Keys, NEW rite \in {"revoke", "compromise"},
                 StartState(p, rite, target)
          PROVE  HoldInv'
      <3>1. desk'[p].rite = rite /\ \A q \in Consoles \ {p} : desk'[q] = desk[q]
        BY <1>0, <2>3 DEF StartState, Idle
      <3> QED
        BY <2>0, <3>1, HoldQuietStep
    <2>4. ASSUME NEW proof \in Keys, NEW r \in RecoveryKeys, StartAdjudication(p, proof, r)
          PROVE  HoldInv'
      <3>1. /\ desk'[p].key = proof /\ proofs[proof] = "pending"
            /\ \A q \in Consoles \ {p} : desk'[q] = desk[q]
        BY <1>0, <2>4 DEF StartAdjudication, Idle
      <3> QED
        BY <2>0, <3>1, HoldQuietStep
    <2>5. CASE ReconcileRead(p) \/ ReconcileSweep(p) \/ ReadSigner(p)
      <3>1. desk[p].pc # "ready"
        BY <2>5 DEF ReconcileRead, ReconcileSweep, ReadSigner
      <3>2. desk[p].rite # "adjudicate"
        BY <1>0, <3>1 DEF Fits
      <3>3. CASE ReconcileRead(p)
        <4>1. CASE Leave(p)
          BY <1>l, <2>0, <4>1
        <4>2. CASE desk' = [desk EXCEPT ![p] = [@ EXCEPT !.pc = "sweep", !.refs = Bound]]
          BY <1>0, <1>w, <2>0, <3>2, <4>2 DEF Desk
        <4> QED
          BY <3>3, <4>1, <4>2 DEF ReconcileRead, Leave
      <3>4. CASE ReconcileSweep(p)
        <4>1. CASE Leave(p)
          BY <1>l, <2>0, <4>1
        <4>2. CASE desk' = [desk EXCEPT ![p].pc = "signer", ![p].refs = {}]
          BY <1>0, <1>w, <2>0, <3>2, <4>2 DEF Desk
        <4> QED
          BY <3>4, <4>1, <4>2 DEF ReconcileSweep
      <3>5. CASE ReadSigner(p)
        <4>1. CASE Leave(p)
          BY <1>l, <2>0, <4>1
        <4>2. ASSUME NEW k \in LocalKeys,
                     desk' = [desk EXCEPT ![p].pc = "ready", ![p].signer = k]
              PROVE  HoldInv'
          BY <1>0, <1>w, <2>0, <3>2, <4>2 DEF Desk
        <4> QED
          BY <3>5, <4>1, <4>2 DEF ReadSigner
      <3> QED
        BY <2>5, <3>3, <3>4, <3>5
    <2> QED
      BY <1>1, <2>1, <2>2, <2>3, <2>4, <2>5, Zenon DEF Begin
  <1>2. ASSUME NEW p \in Consoles, Rotate(p) PROVE HoldInv'
    <2>0. UNCHANGED <<blocked, proofs>>
      BY <1>2 DEF Rotate, RotateSeal, RotateBegin, RotatePublish, RotateCheck,
         RotateCommit, ledgerVars
    <2>1. CASE Leave(p)
      BY <1>l, <2>0, <2>1
    <2>2. ASSUME NEW place, Goto(p, place), desk[p].pc # "ready" PROVE HoldInv'
      <3>1. desk[p].rite # "adjudicate"
        BY <1>0, <2>2 DEF Fits
      <3> QED
        BY <1>0, <1>w, <2>0, <2>2, <3>1 DEF Desk, Goto
    <2>3. ASSUME NEW new \in LocalKeys, RotateSeal(p, new) PROVE HoldInv'
      BY <1>0, <1>w, <2>0, <2>3 DEF RotateSeal, Desk
    <2> QED
      BY <1>2, <2>1, <2>2, <2>3 DEF Rotate, RotateBegin, RotatePublish, RotateCheck,
         RotateCommit
  <1>3. ASSUME NEW p \in Consoles, Other(p) PROVE HoldInv'
    <2>1. ASSUME NEW new \in RecoveryKeys, RecoveryBegin(p, new) PROVE HoldInv'
      BY <1>0, <1>w, <2>1 DEF RecoveryBegin, Desk, ledgerVars
    <2>2. CASE RecoveryCommit(p)
      <3>1. desk[p].rite # "adjudicate"
        BY <1>0, <2>2 DEF Fits, RecoveryCommit
      <3> QED
        BY <1>0, <1>w, <2>2, <3>1 DEF RecoveryCommit, Goto, Desk
    <2>3. CASE RecoveryClear(p)
      BY <1>l, <2>3 DEF RecoveryClear, ledgerVars
    <2>4. ASSUME NEW new \in OtherKeys, PairCommit(p, new) PROVE HoldInv'
      BY <1>l, <2>4 DEF PairCommit
    <2>5. CASE StateCommit(p)
      <3>1. \A k \in Keys : proofs[k] # "pending"
        BY <2>5 DEF StateCommit, WritesAllowed, HoldInv, HoldIsKept
      <3>2. \A q \in Consoles : desk[q].rite # "adjudicate"
        BY <1>0, <3>1 DEF HoldInv, Fits
      <3>3. \A q \in Consoles : desk'[q].rite # "adjudicate"
        BY <1>0, <2>5, <3>2 DEF StateCommit, Leave, Idle
      <3>4. CASE UNCHANGED <<blocked, proofs>>
        BY <1>l, <2>5, <3>4 DEF StateCommit
      <3>5. CASE blocked' = TRUE /\ proofs' = [proofs EXCEPT ![desk[p].key] = "pending"]
        <4>1. \A k \in Keys : proofs'[k] = "pending" => k = desk[p].key
          BY <1>0, <3>1, <3>5
        <4> QED
          BY <3>3, <3>5, <4>1 DEF HoldInv, HoldIsKept
      <3> QED
        BY <2>5, <3>4, <3>5 DEF StateCommit
    <2>6. CASE AdjudicateCommit(p)
      <3>1. /\ desk[p].rite = "adjudicate" /\ desk[p].key \in Keys /\ Leave(p)
            /\ proofs' = [proofs EXCEPT ![desk[p].key] = "adjudicated"]
        BY <1>0, <2>6 DEF AdjudicateCommit, Fits
      <3>2. proofs[desk[p].key] = "pending"
        BY <3>1 DEF HoldInv
      <3>3. \A k \in Keys : proofs'[k] # "pending"
        BY <1>0, <3>1, <3>2 DEF HoldInv
      <3>4. \A q \in Consoles : desk'[q].rite # "adjudicate"
        BY <1>0, <3>1 DEF Leave, Idle, OneAdjudication
      <3> QED
        BY <3>3, <3>4 DEF HoldInv, HoldIsKept
    <2> QED
      BY <1>3, <2>1, <2>2, <2>3, <2>4, <2>5, <2>6, Zenon DEF Other
  <1>4. ASSUME NEW p \in Consoles, Abort(p) \/ Crash(p) PROVE HoldInv'
    BY <1>l, <1>4 DEF Abort, Crash, ledgerVars
  <1>5. CASE UNCHANGED <<blocked, proofs, desk>>
    BY <1>5 DEF HoldInv, HoldIsKept
  <1>6. CASE AbandonInterruptedRecovery
    BY <1>5, <1>6 DEF AbandonInterruptedRecovery, ledgerVars
  <1>7. CASE UNCHANGED vars
    BY <1>5, <1>7 DEF vars, custodyVars
  <1> QED
    BY <1>1, <1>2, <1>3, <1>4, <1>6, <1>7, Zenon DEF Next, Step

\* Without overlapping adjudications a compromise blocks every write until its
\* own proof is adjudicated (block_for_compromise, assert_authority_writes_allowed).
THEOREM HoldsAreKept == OrderlySpec => []HoldIsKept
<1>1. Init => HoldInv
  <2> SUFFICES ASSUME Init PROVE HoldInv
    OBVIOUS
  <2>1. (\A p \in Consoles : desk[p].rite = "none") /\ \A k \in Keys : proofs[k] = "none"
    BY DEF Init, Idle
  <2> QED
    BY <2>1 DEF HoldInv, HoldIsKept
<1>2. ASSUME HoldInv, CustodyInv, OneAdjudication, [OrderlyNext]_vars PROVE HoldInv'
  <2>1. [Next]_vars
    BY <1>2, Zenon DEF OrderlyNext
  <2> QED
    BY <1>2, <2>1, HoldStep
<1>3. HoldInv => HoldIsKept
  BY DEF HoldInv
<1> QED
  BY <1>1, <1>2, <1>3, OrderlyIsInvariant, PTL DEF OrderlySpec, OrderlyNext


\* Of the keys no rotation of which was crossed: an active one has a row and the blob
\* that opens with it, and every sweep spares it; a sealed one is sealed for the next
\* sequence, nobody is about to sweep, and its blob is published before its commit.
UsableInv ==
    /\ \A k \in LocalKeys : Active(k) /\ k \notin crossed => Opens(k) /\ bound[k] # 0
    /\ \A p \in Consoles, k \in LocalKeys :
          desk[p].pc = "sweep" /\ Active(k) /\ k \notin crossed => k \in desk[p].refs
    /\ \A p \in Consoles :
          desk[p].pc = "commit" /\ desk[p].key \notin crossed => Published(desk[p].key)
    /\ \A p \in Consoles :
          Rotating(p) /\ desk[p].key \notin crossed =>
             /\ blobs[desk[p].key].aad = seq + 1
             /\ \A q \in Consoles \ {p} : desk[q].pc # "sweep"

\* What the history says: a key that is not crossed now was not crossed before, and a
\* key sealed now is crossed by an event and by a console that is about to sweep.
LEMMA Uncrossed ==
    ASSUME NoteCrossings
    PROVE  /\ \A k \in LocalKeys : Active(k)' /\ k \notin crossed' => k \notin crossed
           /\ \A p \in Consoles :
                 Rotating(p)' /\ desk'[p].key \in LocalKeys /\ desk'[p].key \notin crossed' =>
                    /\ desk'[p].key \notin crossed
                    /\ seq' = seq
                    /\ \A q \in Consoles \ {p} : desk'[q].pc # "sweep"
  BY DEF NoteCrossings, Crosses, Sealed

\* The step of a console that leaves the rows alone, no uncrossed key in force
\* without its file and no uncrossed rotation without the file it made.
LEMMA UsableQuietStep ==
    ASSUME UsableInv, NoteCrossings, NEW p \in Consoles, bound' = bound,
           \A q \in Consoles : Rotating(q)' => desk'[q].key \in LocalKeys,
           \A k \in LocalKeys : Active(k)' => Active(k),
           \A k \in LocalKeys : Active(k) /\ k \notin crossed => blobs'[k] = blobs[k],
           \A q \in Consoles \ {p} : desk'[q] = desk[q],
           \A q \in Consoles \ {p} : Rotating(q) /\ desk[q].key \notin crossed =>
                                        blobs'[desk[q].key] = blobs[desk[q].key],
           desk'[p].pc = "sweep" => Bound \subseteq desk'[p].refs,
           desk'[p].pc = "commit" /\ desk'[p].key \notin crossed =>
              blobs'[desk'[p].key].at = "published",
           Rotating(p)' /\ desk'[p].key \notin crossed => blobs'[desk'[p].key].aad = seq + 1
    PROVE  UsableInv'
  <1>1. \A k \in LocalKeys : Active(k)' /\ k \notin crossed' => Opens(k)' /\ bound'[k] # 0
    BY Uncrossed DEF UsableInv, Opens, Published
  <1>2. ASSUME NEW q \in Consoles, NEW k \in LocalKeys,
               desk'[q].pc = "sweep", Active(k)', k \notin crossed'
        PROVE  k \in desk'[q].refs
    <2>1. Active(k) /\ k \notin crossed
      BY <1>2, Uncrossed
    <2>2. k \in Bound
      BY <2>1 DEF UsableInv, Bound
    <2> QED
      BY <1>2, <2>1, <2>2 DEF UsableInv
  <1>3. ASSUME NEW q \in Consoles, Rotating(q)', desk'[q].key \notin crossed'
        PROVE  /\ desk'[q].pc = "commit" => blobs'[desk'[q].key].at = "published"
               /\ blobs'[desk'[q].key].aad = seq' + 1
               /\ \A r \in Consoles \ {q} : desk'[r].pc # "sweep"
    <2>1. /\ desk'[q].key \notin crossed /\ seq' = seq
          /\ \A r \in Consoles \ {q} : desk'[r].pc # "sweep"
      BY <1>3, Uncrossed
    <2>2. CASE q = p
      BY <1>3, <2>1, <2>2
    <2>3. CASE q # p
      <3>1. desk'[q] = desk[q] /\ Rotating(q)
        BY <1>3, <2>3 DEF Rotating
      <3>2. blobs'[desk[q].key] = blobs[desk[q].key]
        BY <2>1, <2>3, <3>1
      <3>3. /\ desk[q].pc = "commit" => blobs[desk[q].key].at = "published"
            /\ blobs[desk[q].key].aad = seq + 1
        BY <2>1, <3>1 DEF UsableInv, Published
      <3> QED
        BY <2>1, <3>1, <3>2, <3>3
    <2> QED
      BY <2>2, <2>3
  <1>4. \A q \in Consoles : desk'[q].pc = "commit" => Rotating(q)'
    BY DEF Rotating
  <1> QED
    BY <1>1, <1>2, <1>3, <1>4, Zenon DEF UsableInv, Published

\* Every step of any ceremony keeps UsableInv.
LEMMA UsableStep ==
    ASSUME UsableInv, CustodyInv, CustodyInv', Step, NoteCrossings
    PROVE  UsableInv'
  <1>0. /\ desk \in [Consoles -> Desk] /\ chain \in [Keys -> Status]
        /\ bound \in [LocalKeys -> Nat] /\ seq \in Nat
        /\ blobs \in [LocalKeys -> [at : {"none", "staged", "published"}, aad : Nat]]
        /\ \A p \in Consoles : Fits(p)
    BY DEF CustodyInv, TypeOK
  <1>k. /\ \A k \in RecoveryKeys \cup OtherKeys : k \in Keys /\ k \notin LocalKeys
        /\ \A k \in LocalKeys : k \in Keys
    BY KeysAssumption DEF Keys
  <1>r. \A p \in Consoles : Rotating(p) => desk[p].key \in LocalKeys /\ ~Active(desk[p].key)
    BY <1>0 DEF Fits, Active
  <1>s. \A p \in Consoles : Rotating(p)' => desk'[p].key \in LocalKeys
    BY DEF CustodyInv, Fits
  \* Steps that touch neither rows nor files and leave rotations where they are.
  <1>w. ASSUME NEW p \in Consoles, UNCHANGED <<bound, blobs>>,
               \A k \in LocalKeys : Active(k)' => Active(k),
               \A q \in Consoles \ {p} : desk'[q] = desk[q],
               desk'[p].pc # "sweep", ~Rotating(p)'
        PROVE  UsableInv'
    BY <1>s, <1>w, UsableQuietStep DEF Rotating
  <1>l. ASSUME NEW p \in Consoles, Leave(p), UNCHANGED <<bound, blobs>>,
               \A k \in LocalKeys : Active(k)' => Active(k)
        PROVE  UsableInv'
    <2>1. desk'[p].pc = "idle" /\ \A q \in Consoles \ {p} : desk'[q] = desk[q]
      BY <1>0, <1>l DEF Leave, Idle
    <2> QED
      BY <1>l, <1>w, <2>1 DEF Rotating
  <1>1. ASSUME NEW p \in Consoles, Begin(p) PROVE UsableInv'
    <2>0. \A k \in LocalKeys : Active(k)' => Active(k)
      BY <1>1 DEF Begin, Start, StartState, StartRecoveryState, StartAdjudication,
         ReconcileRead, ReconcileSweep, ReadSigner, ledgerVars, Active
    <2>1. ASSUME NEW rite \in LocalRites, Start(p, rite) PROVE UsableInv'
      <3>1. /\ UNCHANGED <<bound, blobs>> /\ desk'[p].pc = "sweep" /\ desk'[p].refs = Bound
            /\ \A q \in Consoles \ {p} : desk'[q] = desk[q]
        BY <1>0, <2>1 DEF Start, Idle
      <3> QED
        BY <1>s, <2>0, <3>1, UsableQuietStep DEF Rotating
    <2>2. ASSUME NEW target \in Keys, NEW rite \in {"revoke", "compromise"},
                 StartState(p, rite, target)
          PROVE  UsableInv'
      BY <1>0, <1>w, <2>0, <2>2 DEF StartState, Idle, Rotating
    <2>3. ASSUME NEW target \in Keys, NEW rite \in {"revoke", "compromise"},
                 NEW r \in RecoveryKeys, StartRecoveryState(p, rite, target, r)
          PROVE  UsableInv'
      BY <1>0, <1>w, <2>0, <2>3 DEF StartRecoveryState, Idle, Rotating
    <2>4. ASSUME NEW proof \in Keys, NEW r \in RecoveryKeys, StartAdjudication(p, proof, r)
          PROVE  UsableInv'
      BY <1>0, <1>w, <2>0, <2>4 DEF StartAdjudication, Idle, Rotating
    <2>5. CASE ReconcileRead(p)
      <3>1. CASE Leave(p)
        BY <1>l, <2>0, <2>5, <3>1 DEF ReconcileRead
      <3>2. CASE desk' = [desk EXCEPT ![p] = [@ EXCEPT !.pc = "sweep", !.refs = Bound]]
        <4>1. /\ UNCHANGED <<bound, blobs>> /\ desk'[p].pc = "sweep" /\ desk'[p].refs = Bound
              /\ \A q \in Consoles \ {p} : desk'[q] = desk[q]
          BY <1>0, <2>5, <3>2 DEF ReconcileRead, Desk
        <4> QED
          BY <1>s, <2>0, <4>1, UsableQuietStep DEF Rotating
      <3> QED
        BY <2>5, <3>1, <3>2 DEF ReconcileRead, Leave
    <2>6. CASE ReconcileSweep(p)
      <3>1. /\ desk[p].pc = "sweep" /\ bound' = bound
            /\ blobs' = [k \in LocalKeys |-> IF k \in desk[p].refs THEN blobs[k] ELSE NoFile]
        BY <2>6 DEF ReconcileSweep
      <3>2. \A k \in LocalKeys : Active(k) /\ k \notin crossed => blobs'[k] = blobs[k]
        BY <3>1 DEF UsableInv
      <3>3. \A q \in Consoles \ {p} : Rotating(q) => desk[q].key \in crossed
        BY <3>1 DEF UsableInv
      <3>4. desk'[p].pc \in {"idle", "signer"} /\ \A q \in Consoles \ {p} : desk'[q] = desk[q]
        BY <1>0, <2>6 DEF ReconcileSweep, Leave, Idle, Desk
      <3> QED
        BY <1>s, <2>0, <3>1, <3>2, <3>3, <3>4, UsableQuietStep DEF Rotating
    <2>7. CASE ReadSigner(p)
      <3>1. CASE Leave(p)
        BY <1>l, <2>0, <2>7, <3>1 DEF ReadSigner
      <3>2. ASSUME NEW k \in LocalKeys,
                   desk' = [desk EXCEPT ![p].pc = "ready", ![p].signer = k]
            PROVE  UsableInv'
        <4>1. desk'[p].pc = "ready" /\ \A q \in Consoles \ {p} : desk'[q] = desk[q]
          BY <1>0, <3>2 DEF Desk
        <4> QED
          BY <1>w, <2>0, <2>7, <4>1 DEF ReadSigner, Rotating
      <3> QED
        BY <2>7, <3>1, <3>2 DEF ReadSigner
    <2> QED
      BY <1>1, <2>1, <2>2, <2>3, <2>4, <2>5, <2>6, <2>7, Zenon DEF Begin
  <1>2. ASSUME NEW p \in Consoles, Rotate(p) PROVE UsableInv'
    <2>1. ASSUME NEW new \in LocalKeys, RotateSeal(p, new) PROVE UsableInv'
      <3>1. /\ chain[new] = "unknown" /\ bound' = bound /\ chain' = chain
            /\ \A q \in Consoles : desk[q].key # new
            /\ blobs' = [blobs EXCEPT ![new] = [at |-> "staged", aad |-> seq + 1]]
            /\ desk'[p].pc = "staged" /\ desk'[p].key = new
            /\ \A q \in Consoles \ {p} : desk'[q] = desk[q]
        BY <1>0, <2>1 DEF RotateSeal, Desk, ledgerVars
      <3>2. /\ \A k \in LocalKeys : k # new => blobs'[k] = blobs[k]
            /\ blobs'[new].aad = seq + 1
        BY <1>0, <3>1
      <3>3. \A k \in LocalKeys : Active(k)' => Active(k)
        BY <3>1 DEF Active
      <3>4. \A k \in LocalKeys : Active(k) => blobs'[k] = blobs[k]
        BY <3>1, <3>2 DEF Active
      <3>5. \A q \in Consoles : Rotating(q) => blobs'[desk[q].key] = blobs[desk[q].key]
        BY <1>r, <3>1, <3>2
      <3> QED
        BY <1>s, <3>1, <3>2, <3>3, <3>4, <3>5, UsableQuietStep
    <2>2. CASE RotateBegin(p)
      <3>1. /\ desk'[p].pc = "publish" /\ desk'[p].key = desk[p].key /\ Rotating(p)
            /\ UNCHANGED <<bound, blobs, chain, seq>>
            /\ \A q \in Consoles \ {p} : desk'[q] = desk[q]
        BY <1>0, <2>2 DEF RotateBegin, Goto, Desk, Rotating, ledgerVars
      <3>2. desk[p].key \notin crossed => blobs[desk[p].key].aad = seq + 1
        BY <3>1 DEF UsableInv
      <3> QED
        BY <1>s, <3>1, <3>2, UsableQuietStep DEF Active
    <2>3. CASE RotatePublish(p)
      <3>1. /\ desk[p].key \in LocalKeys /\ ~Active(desk[p].key) /\ bound' = bound
            /\ chain' = chain /\ Rotating(p)
            /\ blobs' = [blobs EXCEPT ![desk[p].key].at = "published"]
        BY <1>r, <2>3 DEF RotatePublish, Rotating, ledgerVars
      <3>2. /\ desk'[p].pc = "check" /\ desk'[p].key = desk[p].key
            /\ \A q \in Consoles \ {p} : desk'[q] = desk[q]
        BY <1>0, <2>3 DEF RotatePublish, Goto, Desk
      <3>3. /\ \A k \in LocalKeys : k # desk[p].key => blobs'[k] = blobs[k]
            /\ blobs'[desk[p].key].aad = blobs[desk[p].key].aad
        BY <1>0, <3>1
      <3>4. \A q \in Consoles \ {p} : Rotating(q) => blobs'[desk[q].key] = blobs[desk[q].key]
        BY <1>r, <3>1, <3>3 DEF CustodyInv, Apart
      <3>5. \A k \in LocalKeys : /\ Active(k)' => Active(k)
                                 /\ Active(k) => blobs'[k] = blobs[k]
        BY <3>1, <3>3 DEF Active
      <3>6. desk[p].key \notin crossed => blobs[desk[p].key].aad = seq + 1
        BY <3>1 DEF UsableInv
      <3> QED
        BY <1>s, <3>1, <3>2, <3>3, <3>4, <3>5, <3>6, UsableQuietStep
    <2>4. CASE RotateCheck(p)
      <3>1. /\ desk'[p].pc = "commit" /\ desk'[p].key = desk[p].key /\ Rotating(p)
            /\ \A q \in Consoles \ {p} : desk'[q] = desk[q]
        BY <1>0, <2>4 DEF RotateCheck, Goto, Desk, Rotating
      <3>2. UNCHANGED <<bound, blobs, chain>> /\ blobs[desk[p].key].at = "published"
        BY <2>4 DEF RotateCheck, ledgerVars, Published
      <3>3. desk[p].key \notin crossed => blobs[desk[p].key].aad = seq + 1
        BY <3>1 DEF UsableInv
      <3> QED
        BY <1>s, <3>1, <3>2, <3>3, UsableQuietStep DEF Active
    <2>5. CASE RotateCommit(p)
      <3>0. PICK new \in LocalKeys : new = desk[p].key
        BY <1>r, <2>5 DEF RotateCommit, Rotating
      <3>1. /\ Rotating(p) /\ desk[p].pc = "commit" /\ desk[p].key = new
            /\ desk[p].signer \in LocalKeys /\ Active(desk[p].signer)
            /\ chain' = [chain EXCEPT ![desk[p].signer] = "retired", ![new] = "active"]
            /\ bound' = [bound EXCEPT ![new] = seq + 1] /\ blobs' = blobs /\ seq' = seq + 1
        BY <1>0, <2>5, <3>0 DEF RotateCommit, Rotating, Fits, Writing, BoundAt
      <3>2. new \notin crossed =>
              /\ Published(new) /\ blobs[new].aad = seq + 1
              /\ \A q \in Consoles \ {p} : desk[q].pc # "sweep"
        BY <3>1 DEF UsableInv
      <3>3. \A k \in LocalKeys : Active(k)' => k = new
        BY <1>0, <1>k, <3>1 DEF Active, CustodyInv, OneActiveKey
      <3>4. bound'[new] = seq + 1 /\ bound'[new] # 0
        BY <1>0, <3>1
      <3>5. Active(new)' /\ new \notin crossed' => new \notin crossed
        BY Uncrossed
      <3>6. desk'[p].pc = "idle" /\ \A q \in Consoles \ {p} : desk'[q] = desk[q]
        BY <1>0, <2>5 DEF RotateCommit, Leave, Idle
      <3>7. \A k \in LocalKeys : Active(k)' /\ k \notin crossed' => Opens(k)' /\ bound'[k] # 0
        <4>1. new \notin crossed => blobs'[new].at = "published" /\ blobs'[new].aad = bound'[new]
          BY <3>1, <3>2, <3>4 DEF Published
        <4> QED
          BY <3>3, <3>4, <3>5, <4>1, Zenon DEF Opens, Published
      <3>8. \A q \in Consoles, k \in LocalKeys :
              desk'[q].pc = "sweep" /\ Active(k)' /\ k \notin crossed' => k \in desk'[q].refs
        BY <3>2, <3>3, <3>5, <3>6
      <3>9. seq' # seq
        BY <1>0, <3>1
      <3>10. \A q \in Consoles : Rotating(q)' => desk'[q].key \in crossed'
        BY <1>s, <3>9, Uncrossed
      <3>11. \A q \in Consoles : desk'[q].pc = "commit" => Rotating(q)'
        BY DEF Rotating
      <3> QED
        BY <3>7, <3>8, <3>10, <3>11, Zenon DEF UsableInv
    <2> QED
      BY <1>2, <2>1, <2>2, <2>3, <2>4, <2>5, Zenon DEF Rotate
  <1>3. ASSUME NEW p \in Consoles, Other(p) PROVE UsableInv'
    <2>1. ASSUME NEW new \in RecoveryKeys, RecoveryBegin(p, new) PROVE UsableInv'
      <3>1. desk'[p].pc = "bundle" /\ \A q \in Consoles \ {p} : desk'[q] = desk[q]
        BY <1>0, <2>1 DEF RecoveryBegin, Desk
      <3> QED
        BY <1>w, <2>1, <3>1 DEF RecoveryBegin, Active, ledgerVars, Rotating
    <2>2. CASE RecoveryCommit(p)
      <3>1. desk'[p].pc = "clear" /\ \A q \in Consoles \ {p} : desk'[q] = desk[q]
        BY <1>0, <2>2 DEF RecoveryCommit, Goto, Desk
      <3>2. desk[p].key \in RecoveryKeys
        BY <1>0, <2>2 DEF RecoveryCommit, Fits
      <3>3. \A k \in LocalKeys : Active(k)' => Active(k)
        BY <1>0, <1>k, <2>2, <3>2 DEF RecoveryCommit, Active
      <3> QED
        BY <1>w, <2>2, <3>1, <3>3 DEF RecoveryCommit, Rotating
    <2>3. CASE RecoveryClear(p)
      BY <1>l, <2>3 DEF RecoveryClear, Active, ledgerVars
    <2>4. ASSUME NEW new \in OtherKeys, PairCommit(p, new) PROVE UsableInv'
      <3>1. \A k \in LocalKeys : Active(k)' => Active(k)
        BY <1>0, <1>k, <2>4 DEF PairCommit, Active
      <3> QED
        BY <1>l, <2>4, <3>1 DEF PairCommit
    <2>5. CASE StateCommit(p)
      <3>1. \A k \in LocalKeys : Active(k)' => Active(k)
        BY <1>0, <1>k, <2>5 DEF StateCommit, Active, Fits
      <3> QED
        BY <1>l, <2>5, <3>1 DEF StateCommit
    <2>6. CASE AdjudicateCommit(p)
      BY <1>l, <2>6 DEF AdjudicateCommit, Active
    <2> QED
      BY <1>3, <2>1, <2>2, <2>3, <2>4, <2>5, <2>6, Zenon DEF Other
  <1>4. ASSUME NEW p \in Consoles, Abort(p) PROVE UsableInv'
    <2>1. /\ bound' = bound /\ chain' = chain
          /\ blobs' = [k \in LocalKeys |->
                         IF Rotating(p) /\ k = desk[p].key THEN NoFile ELSE blobs[k]]
          /\ desk'[p].pc = "idle" /\ \A q \in Consoles \ {p} : desk'[q] = desk[q]
      BY <1>0, <1>4 DEF Abort, Leave, Idle, ledgerVars
    <2>2. \A k \in LocalKeys : /\ Active(k)' => Active(k)
                               /\ Active(k) => blobs'[k] = blobs[k]
      BY <1>r, <2>1 DEF Active
    <2>3. ASSUME NEW q \in Consoles \ {p}, Rotating(q)
          PROVE  blobs'[desk[q].key] = blobs[desk[q].key]
      <3>1. desk[q].key \in LocalKeys
        BY <1>r, <2>3
      <3>2. Rotating(p) => desk[q].key # desk[p].key
        BY DEF CustodyInv, Apart
      <3> QED
        BY <2>1, <3>1, <3>2
    <2> QED
      BY <1>s, <2>1, <2>2, <2>3, UsableQuietStep DEF Rotating
  <1>5. ASSUME NEW p \in Consoles, Crash(p) PROVE UsableInv'
    BY <1>l, <1>5 DEF Crash, Active, ledgerVars
  <1>6. CASE AbandonInterruptedRecovery
    <2>1. UNCHANGED <<chain, seq, bound, blobs, desk>>
      BY <1>6 DEF AbandonInterruptedRecovery, ledgerVars
    <2>2. \A k \in LocalKeys : Active(k)' = Active(k)
      BY <2>1 DEF Active
    <2>3. \A k \in LocalKeys : Active(k)' /\ k \notin crossed' => Opens(k)' /\ bound'[k] # 0
      BY <2>1, <2>2, Uncrossed DEF UsableInv, Opens, Published
    <2>4. \A p \in Consoles, k \in LocalKeys :
            desk'[p].pc = "sweep" /\ Active(k)' /\ k \notin crossed' => k \in desk'[p].refs
      BY <2>1, <2>2, Uncrossed DEF UsableInv
    <2>5. \A p \in Consoles : Rotating(p)' /\ desk'[p].key \notin crossed' =>
            /\ desk[p].key \notin crossed /\ Rotating(p) /\ desk'[p] = desk[p]
      BY <1>s, <2>1, Uncrossed DEF Rotating
    <2>6. \A p \in Consoles : desk'[p].pc = "commit" => Rotating(p)'
      BY DEF Rotating
    <2> QED
      BY <2>1, <2>3, <2>4, <2>5, <2>6 DEF UsableInv, Published
  <1> QED
    BY <1>1, <1>2, <1>3, <1>4, <1>5, <1>6, Zenon DEF Step

\* Whatever ceremonies overlap, fail and die, the active key has its file, sealed for the
\* binding it is opened with, unless another console appended an event or was reconciling
\* between the seal and the commit of that very key: rotate_key's "publish-before-commit
\* activation".
THEOREM ActiveKeysAreUsable == Spec => []ActiveKeyIsUsable
<1>1. Init => UsableInv
  <2> SUFFICES ASSUME Init PROVE UsableInv
    OBVIOUS
  <2>1. \A p \in Consoles : desk[p].pc = "idle"
    BY DEF Init, Idle
  <2>2. \A k \in LocalKeys : Active(k) => k \in Genesis
    BY DEF Init, LedgerInit, Active, Keys
  <2>3. ASSUME NEW k \in LocalKeys, k \in Genesis PROVE Opens(k) /\ bound[k] # 0
    <3>1. bound[k] = 1 /\ blobs[k] = [at |-> "published", aad |-> 1]
      BY <2>3 DEF Init
    <3> QED
      BY <3>1 DEF Opens, Published
  <2> QED
    BY <2>1, <2>2, <2>3 DEF UsableInv, Rotating
<1>2. ASSUME UsableInv, CustodyInv, CustodyInv', [Next]_vars PROVE UsableInv'
  <2>1. CASE Next
    BY <1>2, <2>1, UsableStep DEF Next
  <2>2. CASE UNCHANGED vars
    <3>1. UNCHANGED <<chain, seq, bound, blobs, desk, crossed>>
      BY <2>2 DEF vars, custodyVars
    <3> QED
      BY <1>2, <3>1 DEF UsableInv, Active, Opens, Published, Rotating
  <2> QED
    BY <1>2, <2>1, <2>2
<1>3. UsableInv => ActiveKeyIsUsable
  BY DEF UsableInv, ActiveKeyIsUsable
<1> QED
  BY <1>1, <1>2, <1>3, CustodyIsInvariant, PTL DEF Spec

=============================================================================
