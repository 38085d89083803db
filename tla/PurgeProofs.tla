---------------------------- MODULE PurgeProofs ----------------------------
(***************************************************************************)
(* Proofs about Purge, for any captures, proposals, items, passes and      *)
(* relations, and any number of purges, edits and faults.                  *)
(***************************************************************************)
EXTENDS Purge, TLAPS

-----------------------------------------------------------------------------
(* Nodes, what they mention, and files.                                    *)

LEMMA Bounds == MaxPurges \in Nat /\ MaxEdits \in Nat /\ MaxFaults \in Nat
  BY PurgeAssumption

LEMMA NodeSets ==
    /\ Captures \subseteq Nodes /\ Proposals \subseteq Nodes /\ Successors \subseteq Nodes
    /\ Items \subseteq Nodes /\ Business \subseteq Nodes
  BY DEF Nodes

LEMMA FileNames ==
    /\ \A c \in Captures : Spool(c) \in Files /\ Ack(c) \in Files
    /\ \A p \in Proposals : Pending(p) \in Files /\ Receipt(p) \in Files
    /\ Backup \in Files /\ Projection \in Files
  BY DEF Files

LEMMA MentionsType == \A n \in Nodes : Mentions(n) \subseteq Nodes /\ n \in Mentions(n)
  BY PurgeAssumption, NodeSets DEF Mentions

LEMMA IdSets == Nodes \subseteq Ids /\ Relations \subseteq Ids /\ Reviews \subseteq Ids /\ Scoping \subseteq Ids
                /\ Events \subseteq Ids
  BY DEF Ids, Events

LEMMA EnvelopeType == \A c \in Captures : Envelope(c) \in SUBSET (Ids \cup {None}) /\ c \in Envelope(c)
  <1> SUFFICES ASSUME NEW c \in Captures
               PROVE  Envelope(c) \in SUBSET (Ids \cup {None}) /\ c \in Envelope(c)
    OBVIOUS
  <1>1. c \in Ids /\ SessionOf[c] \in Scoping /\ Operator \in Scoping
    BY PurgeAssumption, NodeSets, IdSets DEF Scoping
  <1> QED
    BY <1>1, IdSets DEF Envelope

LEMMA CanonType ==
    ASSUME TypeOK
    PROVE  /\ canon.nodes \subseteq Nodes /\ canon.edges \subseteq Relations
           /\ canon.events \subseteq Events /\ canon.consumed \subseteq Captures
           /\ canon.dedup \subseteq Captures
           /\ canon.items \in [Items -> {"none", "unruled", "kept", "killed"}]
  BY DEF TypeOK, Canon

\* What the files that are made of the canon name.
LEMMA MadeOfCanon ==
    ASSUME TypeOK
    PROVE  /\ Projected(canon) \in SUBSET (Ids \cup {None})
           /\ Columns(canon) \in SUBSET (Ids \cup {None})
  <1>1. canon.nodes \subseteq Nodes /\ canon.edges \subseteq Relations /\ canon.events \subseteq Events
    BY CanonType
  <1>2. \A n \in canon.nodes : Mentions(n) \subseteq Ids
    BY <1>1, MentionsType, IdSets
  <1>3. \A i \in Items : ItemScope(i) \subseteq Ids \cup {None}
    BY PurgeAssumption, IdSets DEF ItemScope, Scoping
  <1>4. Operator \in Ids
    BY IdSets DEF Scoping
  <1>5. (UNION {Mentions(n) : n \in canon.nodes}) \subseteq Ids
    BY <1>2
  <1>6. (UNION {ItemScope(i) : i \in canon.nodes \cap Items}) \subseteq Ids \cup {None}
    BY <1>3
  <1>7. Projected(canon) \subseteq Ids \cup {None}
    BY <1>1, <1>4, <1>5, <1>6, IdSets DEF Projected
  <1>8. Columns(canon) \subseteq Ids \cup {None}
    BY <1>1, IdSets, NodeSets DEF Columns
  <1> QED
    BY <1>7, <1>8

\* A write keeps the tree a tree.
LEMMA WriteType ==
    ASSUME TypeOK, NEW f \in Files, NEW S \in SUBSET (Ids \cup {None}), Write(f, S)
    PROVE  tree' \in [Files -> SUBSET (Ids \cup {None})] /\ fresh' \subseteq Files \cup {Database}
  <1>1. tree' \in [Files -> SUBSET (Ids \cup {None})]
    BY DEF Write, TypeOK
  <1>2. fresh' \subseteq Files \cup {Database}
    BY DEF Write, TypeOK
  <1> QED
    BY <1>1, <1>2

\* And so does a transaction.
LEMMA CommitType ==
    ASSUME TypeOK, NEW d, Commit(d)
    PROVE  canon' = d /\ fresh' \subseteq Files \cup {Database}
  BY DEF Commit, TypeOK

-----------------------------------------------------------------------------
(* The closure.                                                            *)

LEMMA ClosureType ==
    ASSUME NEW d, NEW scope
    PROVE  Closure(d, scope) \subseteq Nodes
  BY DEF Closure

LEMMA SeedsInClosure ==
    ASSUME NEW d, NEW scope
    PROVE  /\ SeedNodes(d, scope) \cap Nodes \subseteq Closure(d, scope)
           /\ SeedItems(d, scope) \subseteq Closure(d, scope)
  BY NodeSets DEF Closure, SeedItems

LEMMA ErasedType ==
    ASSUME NEW d \in Canon, NEW S, NEW E
    PROVE  Erased(d, S, E) \in Canon
  <1>1. d.items \in [Items -> {"none", "unruled", "kept", "killed"}]
    BY DEF Canon
  <1>2. [i \in Items |-> IF i \in S THEN "none" ELSE d.items[i]]
            \in [Items -> {"none", "unruled", "kept", "killed"}]
    BY <1>1
  <1> QED
    BY <1>2 DEF Canon, Erased

-----------------------------------------------------------------------------
(* Type correctness.  The derive compiler has a proposal in hand whenever  *)
(* it is about to append one or to write its receipt.                      *)

Deriver == [pc : {"idle", "next", "append", "receipt", "aborted"},
            todo : SUBSET Proposals, cur : Proposals \cup {None}, accepted : BOOLEAN]

CurKnown == \A v \in Derivers : Working(v) => derive[v].cur \in Proposals

LEMMA InitType == Init => TypeOK /\ CurKnown
  <1> SUFFICES ASSUME Init PROVE TypeOK /\ CurKnown
    OBVIOUS
  <1>1. canon \in Canon
    BY DEF Init, EmptyCanon, Canon
  <1>2. /\ tree \in [Files -> SUBSET (Ids \cup {None})]
        /\ orphan \in BOOLEAN /\ overlap \subseteq Nodes /\ fresh \subseteq Files \cup {Database}
        /\ edits \in 0..MaxEdits /\ faults \in 0..MaxFaults
    <2>1. tree \in [Files -> SUBSET (Ids \cup {None})]
      BY DEF Init
    <2>2. edits \in 0..MaxEdits /\ faults \in 0..MaxFaults
      BY Bounds DEF Init
    <2> QED
      BY <2>1, <2>2 DEF Init
  <1>3. ops \in [1..MaxPurges -> [status : {"none", "incomplete", "complete"}, ids : SUBSET Ids]]
    BY DEF Init
  <1>4. purge \in [pc : {"idle", "failed", "project", "list", "remove", "database", "finish"},
                  op : 0..MaxPurges, ids : SUBSET Ids, todo : SUBSET Files,
                  remaining : SUBSET Residue]
    BY PurgeAssumption DEF Init, IdlePurge
  <1>5. pass \in [Passes -> [todo : SUBSET Captures, done : SUBSET Captures]]
    BY DEF Init, IdlePass
  <1>6. derive \in [Derivers -> Deriver]
    BY DEF Init, IdleDerive, Deriver
  <1>7. CurKnown
    BY DEF Init, IdleDerive, CurKnown, Working
  <1>8. twice \subseteq Proposals
    BY DEF Init
  <1> QED
    BY <1>1, <1>2, <1>3, <1>4, <1>5, <1>6, <1>7, <1>8 DEF TypeOK, Deriver

\* The markers of a purge of a scope.
Taken(scope) ==
    Identities(canon, Closure(canon, scope),
               ClosureEvents(canon, Closure(canon, scope), SeedEvents(canon, scope)), scope)

LEMMA TakenType ==
    ASSUME TypeOK, NEW scope \in Scopes
    PROVE  Taken(scope) \subseteq Ids
  <1> DEFINE S == Closure(canon, scope)
             seeds == SeedEvents(canon, scope)
  <1>1. S \subseteq Ids
    BY ClosureType, IdSets
  <1>2. seeds \subseteq Ids
    BY CanonType, IdSets, NodeSets DEF SeedEvents, Scopes
  <1> HIDE DEF S, seeds
  <1>3. ClosureEvents(canon, S, seeds) \subseteq Ids
    BY <1>2, CanonType, IdSets DEF ClosureEvents
  <1>4. {e \in canon.edges : e[1] \in S \/ e[2] \in S} \subseteq Ids
    BY CanonType, IdSets
  <1>5. scope[2] \in Ids
    BY IdSets, NodeSets DEF Scopes, Scoping
  <1> QED
    BY <1>1, <1>3, <1>4, <1>5 DEF Taken, Identities, S, seeds

LEMMA HardPurgeType ==
    ASSUME TypeOK, CurKnown, NEW scope \in Scopes, HardPurge(scope)
    PROVE  TypeOK' /\ CurKnown'
  <1> DEFINE ids == Taken(scope)
  <1>1. ids \subseteq Ids
    BY TakenType
  <1>2. PICK k \in 1..MaxPurges :
          /\ ops' = [ops EXCEPT ![k] = [status |-> "incomplete", ids |-> ids]]
          /\ purge' = [IdlePurge EXCEPT !.pc = "project", !.op = k, !.ids = ids]
    BY DEF HardPurge, Taken
  <1> HIDE DEF ids
  <1>3. canon' \in Canon
    BY ErasedType DEF HardPurge, TypeOK
  <1>4. overlap' \subseteq Nodes
    <2>1. Held \subseteq Nodes
      <3>1. \A q \in Passes : pass[q].todo \cup pass[q].done \subseteq Nodes
        BY NodeSets DEF TypeOK
      <3>2. \A v \in Derivers : Working(v) => derive[v].cur \in Nodes
        BY NodeSets DEF CurKnown
      <3> QED
        BY <3>1, <3>2 DEF Held
    <2> QED
      BY <2>1 DEF HardPurge, TypeOK
  <1>5. ops' \in [1..MaxPurges -> [status : {"none", "incomplete", "complete"}, ids : SUBSET Ids]]
    BY <1>1, <1>2 DEF TypeOK
  <1>6. purge' \in [pc : {"idle", "failed", "project", "list", "remove", "database", "finish"},
                  op : 0..MaxPurges, ids : SUBSET Ids, todo : SUBSET Files,
                  remaining : SUBSET Residue]
    <2>1. k \in 0..MaxPurges
      BY Bounds
    <2> QED
      BY <1>1, <1>2, <2>1 DEF IdlePurge
  <1> QED
    BY <1>3, <1>4, <1>5, <1>6 DEF HardPurge, TypeOK, CurKnown, Working

LEMMA PurgeStepType ==
    ASSUME TypeOK, CurKnown, PurgeStep
    PROVE  TypeOK' /\ CurKnown'
  <1>1. ASSUME NEW scope \in Scopes, HardPurge(scope) PROVE TypeOK' /\ CurKnown'
    BY <1>1, HardPurgeType
  <1> DEFINE Purger == [pc : {"idle", "failed", "project", "list", "remove", "database", "finish"},
                  op : 0..MaxPurges, ids : SUBSET Ids, todo : SUBSET Files,
                  remaining : SUBSET Residue]
  <1>0. purge \in Purger /\ IdlePurge \in Purger
    BY PurgeAssumption DEF TypeOK, IdlePurge
  <1>2. CASE RewriteProjections
    <2>1. purge' \in Purger
      BY <1>0, <1>2 DEF RewriteProjections
    <2>2. tree' \in [Files -> SUBSET (Ids \cup {None})]
      BY <1>2, MadeOfCanon DEF RewriteProjections, TypeOK
    <2> QED
      BY <1>2, <2>1, <2>2 DEF RewriteProjections, TypeOK, CurKnown, Working
  <1>3. CASE ListFiles
    <2>1. purge' \in Purger
      BY <1>0, <1>3 DEF ListFiles
    <2> QED
      BY <1>3, <2>1 DEF ListFiles, TypeOK, CurKnown, Working
  <1>4. CASE RemoveFile
    <2>1. purge' \in Purger
      BY <1>0, <1>4 DEF RemoveFile
    <2>2. tree' \in [Files -> SUBSET (Ids \cup {None})] /\ faults' \in 0..MaxFaults
      BY <1>4, Bounds DEF RemoveFile, TypeOK
    <2> QED
      BY <1>4, <2>1, <2>2 DEF RemoveFile, TypeOK, CurKnown, Working
  <1>5. CASE ScanActiveRoot
    <2>1. purge' \in Purger
      BY <1>0, <1>5 DEF ScanActiveRoot, Untrusted, Residue
    <2> QED
      BY <1>5, <2>1 DEF ScanActiveRoot, TypeOK, CurKnown, Working
  <1>6. CASE ScanDatabase
    <2>1. purge' \in Purger
      BY <1>0, <1>6 DEF ScanDatabase, Residue
    <2> QED
      BY <1>6, <2>1 DEF ScanDatabase, TypeOK, CurKnown, Working
  <1>7. CASE FinishPurge
    <2>1. purge' \in Purger
      BY <1>0, <1>7 DEF FinishPurge
    <2>2. ops' \in [1..MaxPurges -> [status : {"none", "incomplete", "complete"}, ids : SUBSET Ids]]
      <3>1. (IF purge.remaining = {} THEN "complete" ELSE "incomplete")
                \in {"none", "incomplete", "complete"}
        OBVIOUS
      <3> DEFINE Op == [status : {"none", "incomplete", "complete"}, ids : SUBSET Ids]
      <3>2. ops \in [1..MaxPurges -> Op]
        BY DEF TypeOK
      <3>3. ASSUME NEW k \in 1..MaxPurges
            PROVE  [ops[k] EXCEPT !.status = IF purge.remaining = {} THEN "complete" ELSE "incomplete"] \in Op
        BY <3>1, <3>2
      <3> HIDE DEF Op
      <3> QED
        BY <1>7, <3>2, <3>3 DEF FinishPurge, Op
    <2> QED
      BY <1>7, <2>1, <2>2 DEF FinishPurge, TypeOK, CurKnown, Working
  <1>8. CASE PurgeCrash
    <2>1. purge' \in Purger
      BY <1>0, <1>8 DEF PurgeCrash
    <2>2. faults' \in 0..MaxFaults
      BY <1>8, Bounds DEF PurgeCrash, TypeOK
    <2> QED
      BY <1>8, <2>1, <2>2 DEF PurgeCrash, TypeOK, CurKnown, Working
  <1>9. ASSUME NEW scope \in Scopes, PurgeFails(scope) PROVE TypeOK' /\ CurKnown'
    <2>1. purge' \in Purger
      BY <1>0, <1>9 DEF PurgeFails, IdlePurge
    <2> QED
      BY <1>9, <2>1 DEF PurgeFails, TypeOK, CurKnown, Working
  <1> QED
    BY <1>1, <1>2, <1>3, <1>4, <1>5, <1>6, <1>7, <1>8, <1>9 DEF PurgeStep

LEMMA CapturedType ==
    ASSUME NEW d \in Canon, NEW c \in Captures
    PROVE  Captured(d, c) \in Canon
  <1>1. c \in Nodes /\ c \in Events
    BY NodeSets DEF Events
  <1> QED
    BY <1>1 DEF Captured, Canon

LEMMA CaptureStepType ==
    ASSUME TypeOK, CurKnown, CaptureStep
    PROVE  TypeOK' /\ CurKnown'
  <1>0. pass \in [Passes -> [todo : SUBSET Captures, done : SUBSET Captures]]
    BY DEF TypeOK
  <1>1. ASSUME NEW c \in Captures, NewEnvelope(c) PROVE TypeOK' /\ CurKnown'
    <2>1. tree' \in [Files -> SUBSET (Ids \cup {None})] /\ fresh' \subseteq Files \cup {Database}
      BY <1>1, WriteType, FileNames, EnvelopeType DEF NewEnvelope
    <2> QED
      BY <1>1, <2>1 DEF NewEnvelope, TypeOK, CurKnown, Working
  <1>2. ASSUME NEW q \in Passes, ReadSpool(q) PROVE TypeOK' /\ CurKnown'
    <2>1. pass' \in [Passes -> [todo : SUBSET Captures, done : SUBSET Captures]]
      BY <1>0, <1>2 DEF ReadSpool
    <2>2. overlap' \subseteq Nodes
      BY <1>2, NodeSets DEF ReadSpool, TypeOK
    <2> QED
      BY <1>2, <2>1, <2>2 DEF ReadSpool, TypeOK, CurKnown, Working
  <1>3. ASSUME NEW q \in Passes, NEW c \in Captures, ApplyCapture(q, c) PROVE TypeOK' /\ CurKnown'
    <2>1. pass' \in [Passes -> [todo : SUBSET Captures, done : SUBSET Captures]]
      BY <1>0, <1>3 DEF ApplyCapture
    <2>2. canon' \in Canon /\ fresh' \subseteq Files \cup {Database}
      BY <1>3, CapturedType, CommitType DEF ApplyCapture, TypeOK
    <2> QED
      BY <1>3, <2>1, <2>2 DEF ApplyCapture, TypeOK, CurKnown, Working
  <1>4. ASSUME NEW q \in Passes, NEW c \in Captures, Acknowledge(q, c) PROVE TypeOK' /\ CurKnown'
    <2>1. pass' \in [Passes -> [todo : SUBSET Captures, done : SUBSET Captures]]
      BY <1>0, <1>4 DEF Acknowledge, IdlePass
    <2>2. Write(Ack(c), {c}) \/ UNCHANGED <<tree, fresh>>
      BY <1>4 DEF Acknowledge
    <2>3. tree' \in [Files -> SUBSET (Ids \cup {None})] /\ fresh' \subseteq Files \cup {Database}
      BY <2>2, WriteType, FileNames, NodeSets, IdSets DEF TypeOK
    <2> QED
      BY <1>4, <2>1, <2>3 DEF Acknowledge, TypeOK, CurKnown, Working
  <1> QED
    BY <1>1, <1>2, <1>3, <1>4 DEF CaptureStep

LEMMA DeriveStepType ==
    ASSUME TypeOK, CurKnown, DeriveStep
    PROVE  TypeOK' /\ CurKnown'
  <1>0. derive \in [Derivers -> Deriver] /\ IdleDerive \in Deriver
    BY DEF TypeOK, Deriver, IdleDerive
  <1>1. ASSUME NEW p \in Proposals, SubmitProposal(p) PROVE TypeOK' /\ CurKnown'
    <2>1. Mentions(p) \in SUBSET (Ids \cup {None})
      BY MentionsType, NodeSets, IdSets
    <2>2. tree' \in [Files -> SUBSET (Ids \cup {None})] /\ fresh' \subseteq Files \cup {Database}
      BY <1>1, <2>1, WriteType, FileNames DEF SubmitProposal
    <2> QED
      BY <1>1, <2>2 DEF SubmitProposal, TypeOK, CurKnown, Working
  <1>2. ASSUME NEW v \in Derivers, NEW p \in Proposals, SkipPending(v, p) PROVE TypeOK' /\ CurKnown'
    <2>1. derive' \in [Derivers -> Deriver] /\ CurKnown'
      BY <1>0, <1>2 DEF SkipPending, CurKnown, Working, Deriver
    <2> QED
      BY <1>2, <2>1 DEF SkipPending, TypeOK, Deriver
  <1>3. ASSUME NEW v \in Derivers, NEW p \in Proposals, ReadPending(v, p) PROVE TypeOK' /\ CurKnown'
    <2>1. derive' \in [Derivers -> Deriver] /\ CurKnown'
      BY <1>0, <1>3 DEF ReadPending, CurKnown, Working, Deriver
    <2>2. overlap' \subseteq Nodes /\ twice' \subseteq Proposals
      BY <1>3, NodeSets DEF ReadPending, TypeOK
    <2> QED
      BY <1>3, <2>1, <2>2 DEF ReadPending, TypeOK, Deriver
  <1>4. ASSUME NEW v \in Derivers, StartDerive(v) PROVE TypeOK' /\ CurKnown'
    <2>1. derive' \in [Derivers -> Deriver] /\ CurKnown'
      <3> DEFINE todo == {p \in Proposals : Exists(Pending(p))}
                 new == [IdleDerive EXCEPT !.pc = "next", !.todo = todo]
      <3>1. new \in Deriver /\ new.pc = "next"
        BY DEF IdleDerive, Deriver
      <3>2. derive' = [derive EXCEPT ![v] = new]
        BY <1>4 DEF StartDerive
      <3> HIDE DEF new
      <3> QED
        BY <1>0, <3>1, <3>2 DEF CurKnown, Working
    <2>2. edits' \in 0..MaxEdits
      BY <1>4, Bounds DEF StartDerive, Edit, TypeOK
    <2> QED
      BY <1>4, <2>1, <2>2 DEF StartDerive, TypeOK, Deriver
  <1>5. ASSUME NEW v \in Derivers, AppendProposal(v) PROVE TypeOK' /\ CurKnown'
    <2>0. derive[v].cur \in Proposals
      BY <1>5 DEF AppendProposal, CurKnown, Working
    <2>1. derive' \in [Derivers -> Deriver] /\ CurKnown'
      <3>1. PICK ok \in BOOLEAN : derive' = [derive EXCEPT ![v].pc = "receipt", ![v].accepted = ok]
        BY <1>5 DEF AppendProposal
      <3> DEFINE new == [derive[v] EXCEPT !.pc = "receipt", !.accepted = ok]
      <3>2. new \in Deriver /\ new.cur = derive[v].cur
        BY <1>0 DEF Deriver
      <3>3. derive' = [derive EXCEPT ![v] = new]
        BY <1>0, <3>1
      <3> HIDE DEF new
      <3> QED
        BY <1>0, <2>0, <3>2, <3>3 DEF CurKnown, Working
    <2>2. canon' \in Canon /\ fresh' \subseteq Files \cup {Database}
      <3>1. derive[v].cur \in Nodes /\ derive[v].cur \in Events
        BY <2>0, NodeSets DEF Events
      <3>2. canon \in Canon
        BY DEF TypeOK
      <3>3. \/ canon' = canon
            \/ canon' = [canon EXCEPT !.nodes = @ \cup {derive[v].cur}, !.events = @ \cup {derive[v].cur}]
        BY <1>5 DEF AppendProposal, Commit
      <3>4. \A n \in Nodes \cap Events :
                [canon EXCEPT !.nodes = @ \cup {n}, !.events = @ \cup {n}] \in Canon
        BY <3>2 DEF Canon
      <3>5. fresh' \subseteq Files \cup {Database}
        BY <1>5 DEF AppendProposal, Commit, TypeOK
      <3> QED
        BY <3>1, <3>2, <3>3, <3>4, <3>5
    <2> QED
      BY <1>5, <2>1, <2>2 DEF AppendProposal, TypeOK, Deriver
  <1>6. ASSUME NEW v \in Derivers, WriteReceipt(v) PROVE TypeOK' /\ CurKnown'
    <2>0. derive[v].cur \in Proposals
      BY <1>6 DEF WriteReceipt, CurKnown, Working
    <2>1. derive' \in [Derivers -> Deriver] /\ CurKnown'
      <3>1. \/ derive' = [derive EXCEPT ![v].pc = "next", ![v].cur = None, ![v].accepted = FALSE]
            \/ derive' = [derive EXCEPT ![v] = [IdleDerive EXCEPT !.pc = "aborted"]]
        BY <1>6 DEF WriteReceipt
      <3>2. CASE derive' = [derive EXCEPT ![v].pc = "next", ![v].cur = None, ![v].accepted = FALSE]
        BY <1>0, <3>2 DEF CurKnown, Working, Deriver
      <3>3. CASE derive' = [derive EXCEPT ![v] = [IdleDerive EXCEPT !.pc = "aborted"]]
        BY <1>0, <3>3 DEF CurKnown, Working, Deriver, IdleDerive
      <3> QED
        BY <3>1, <3>2, <3>3
    <2>2. \/ Write(Receipt(derive[v].cur), Accepted(derive[v].cur))
          \/ Write(Receipt(derive[v].cur), Rejected)
          \/ UNCHANGED <<tree, fresh>>
      BY <1>6 DEF WriteReceipt
    <2>3. /\ Accepted(derive[v].cur) \in SUBSET (Ids \cup {None})
          /\ Rejected \in SUBSET (Ids \cup {None})
      BY <2>0, NodeSets, IdSets DEF Accepted, Rejected
    <2>4. tree' \in [Files -> SUBSET (Ids \cup {None})] /\ fresh' \subseteq Files \cup {Database}
      BY <2>0, <2>2, <2>3, WriteType, FileNames DEF TypeOK
    <2> QED
      BY <1>6, <2>1, <2>4 DEF WriteReceipt, TypeOK, Deriver
  <1>7. ASSUME NEW v \in Derivers, EndDerive(v) PROVE TypeOK' /\ CurKnown'
    <2>1. derive' \in [Derivers -> Deriver] /\ CurKnown'
      BY <1>0, <1>7 DEF EndDerive, IdleDerive, CurKnown, Working
    <2> QED
      BY <1>7, <2>1 DEF EndDerive, TypeOK, Deriver
  <1> QED
    BY <1>1, <1>2, <1>3, <1>4, <1>5, <1>6, <1>7 DEF DeriveStep

\* The commands of the store change the canon and count themselves.
LEMMA EditType ==
    ASSUME TypeOK, CurKnown, NEW d \in Canon, Commit(d), Edit,
           UNCHANGED <<tree, orphan, ops, purge, pass, derive, overlap, twice, faults>>
    PROVE  TypeOK' /\ CurKnown'
  <1>1. edits' \in 0..MaxEdits
    BY Bounds DEF Edit, TypeOK
  <1>2. canon' \in Canon /\ fresh' \subseteq Files \cup {Database}
    BY CommitType
  <1> QED
    BY <1>1, <1>2 DEF TypeOK, CurKnown, Working

LEMMA StoreStepType ==
    ASSUME TypeOK, CurKnown, StoreStep
    PROVE  TypeOK' /\ CurKnown'
  <1>0. canon \in Canon
    BY DEF TypeOK
  <1>1. ASSUME NEW i \in Items, ScanItem(i) PROVE TypeOK' /\ CurKnown'
    <2>1. [canon EXCEPT !.items[i] = "unruled"] \in Canon
      BY <1>0 DEF Canon
    <2> QED
      BY <1>1, <2>1, EditType DEF ScanItem
  <1>2. ASSUME NEW i \in Items, NEW v \in {"kept", "killed"}, RuleItem(i, v) PROVE TypeOK' /\ CurKnown'
    <2> DEFINE d == [canon EXCEPT !.items[i] = v, !.events = @ \cup {i},
                                  !.nodes = IF v = "kept" THEN @ \cup {i} ELSE @]
    <2>1. i \in Nodes /\ i \in Events
      BY NodeSets DEF Events
    <2>2. d \in Canon
      BY <1>0, <2>1 DEF Canon
    <2>3. /\ Commit(d) /\ Edit
          /\ UNCHANGED <<tree, orphan, ops, purge, pass, derive, overlap, twice, faults>>
      BY <1>2 DEF RuleItem
    <2> HIDE DEF d
    <2> QED
      BY <2>2, <2>3, EditType
  <1>3. ASSUME NEW m \in Nodes, NEW n \in Nodes, Relate(m, n) PROVE TypeOK' /\ CurKnown'
    <2> DEFINE d == [canon EXCEPT !.edges = @ \cup {<<m, n>>}, !.events = @ \cup {<<m, n>>}]
    <2>1. <<m, n>> \in Relations /\ <<m, n>> \in Events
      BY DEF Events, Relations
    <2>2. d \in Canon
      BY <1>0, <2>1 DEF Canon
    <2>3. /\ Commit(d) /\ Edit
          /\ UNCHANGED <<tree, orphan, ops, purge, pass, derive, overlap, twice, faults>>
      BY <1>3 DEF Relate
    <2> HIDE DEF d
    <2> QED
      BY <2>2, <2>3, EditType
  <1>4. ASSUME NEW n \in Nodes, Review(n) PROVE TypeOK' /\ CurKnown'
    <2> DEFINE d == [canon EXCEPT !.events = @ \cup {<<n>>}]
    <2>1. <<n>> \in Events
      BY DEF Events, Reviews
    <2>2. d \in Canon
      BY <1>0, <2>1 DEF Canon
    <2>3. /\ Commit(d) /\ Edit
          /\ UNCHANGED <<tree, orphan, ops, purge, pass, derive, overlap, twice, faults>>
      BY <1>4 DEF Review
    <2> HIDE DEF d
    <2> QED
      BY <2>2, <2>3, EditType
  <1>5. ASSUME NEW p \in Proposals, AuthorizeSuccessor(p) PROVE TypeOK' /\ CurKnown'
    <2> DEFINE s == SuccessorOf[p]
               d == [canon EXCEPT !.nodes = @ \cup {s}, !.events = @ \cup {s},
                                  !.edges = @ \cup {<<p, s>>}]
    <2>1. s \in Nodes /\ s \in Events /\ <<p, s>> \in Relations
      BY PurgeAssumption, NodeSets DEF Events, Relations
    <2>2. d \in Canon
      BY <1>0, <2>1 DEF Canon
    <2>3. /\ Commit(d) /\ Edit
          /\ UNCHANGED <<tree, orphan, ops, purge, pass, derive, overlap, twice, faults>>
      BY <1>5 DEF AuthorizeSuccessor
    <2> HIDE DEF d
    <2> QED
      BY <2>2, <2>3, EditType
  <1>6. ASSUME NEW b \in Business, AppendBusiness(b) PROVE TypeOK' /\ CurKnown'
    <2> DEFINE d == [canon EXCEPT !.nodes = @ \cup {b}, !.events = @ \cup {b}]
    <2>1. b \in Nodes /\ b \in Events
      BY NodeSets DEF Events
    <2>2. d \in Canon
      BY <1>0, <2>1 DEF Canon
    <2>3. /\ Commit(d) /\ Edit
          /\ UNCHANGED <<tree, orphan, ops, purge, pass, derive, overlap, twice, faults>>
      BY <1>6 DEF AppendBusiness
    <2> HIDE DEF d
    <2> QED
      BY <2>2, <2>3, EditType
  <1>7. CASE TakeBackup
    <2>1. Columns(canon) \in SUBSET (Ids \cup {None})
      BY MadeOfCanon
    <2>2. tree' \in [Files -> SUBSET (Ids \cup {None})] /\ fresh' \subseteq Files \cup {Database}
      BY <1>7, <2>1, WriteType, FileNames DEF TakeBackup
    <2>3. edits' \in 0..MaxEdits
      BY <1>7, Bounds DEF TakeBackup, Edit, TypeOK
    <2> QED
      BY <1>7, <2>2, <2>3 DEF TakeBackup, TypeOK, CurKnown, Working
  <1>8. CASE LeaveOrphan
    <2>1. faults' \in 0..MaxFaults
      BY <1>8, Bounds DEF LeaveOrphan, TypeOK
    <2> QED
      BY <1>8, <2>1 DEF LeaveOrphan, TypeOK, CurKnown, Working
  <1> QED
    BY <1>1, <1>2, <1>3, <1>4, <1>5, <1>6, <1>7, <1>8 DEF StoreStep

LEMMA NextType == TypeOK /\ CurKnown /\ [Next]_vars => TypeOK' /\ CurKnown'
  <1> SUFFICES ASSUME TypeOK, CurKnown, [Next]_vars PROVE TypeOK' /\ CurKnown'
    OBVIOUS
  <1>1. CASE UNCHANGED vars
    BY <1>1 DEF vars, TypeOK, CurKnown, Working
  <1> QED
    BY <1>1, PurgeStepType, CaptureStepType, DeriveStepType, StoreStepType DEF Next

\* Whatever purges, passes, derives and edits do to each other, every variable keeps to
\* its domain; in particular the markers that hard_purge searches files and rows for are
\* identities of nodes, items, relations, events and scopes, whatever the closure reached.
THEOREM TypeCorrect == Spec => []TypeOK
  <1>1. Spec => [](TypeOK /\ CurKnown)
    BY InitType, NextType, PTL DEF Spec
  <1> QED
    BY <1>1, PTL

-----------------------------------------------------------------------------
(* What a purge takes: the closure is closed, it holds nothing but live    *)
(* nodes and items, and the seeds of every scope that are nodes or items   *)
(* lie in it.                                                              *)

\* Beside ForeignKeysHold: only an ingest item has an event without having a node.
EventsOfNodes == \A n \in Nodes \ Items : n \in canon.events => n \in canon.nodes

LEMMA ScopeKinds ==
    ASSUME NEW scope \in Scopes
    PROVE  /\ scope[1] \in {"node", "source", "session", "operator"}
           /\ scope[1] = "source" => scope[2] \in Captures \cup Items
  BY DEF Scopes

LEMMA ClosureClosed ==
    ASSUME NEW d, d.edges \subseteq Relations, NEW scope
    PROVE  Closed(d, Closure(d, scope))
  <1> DEFINE C == Closure(d, scope)
             seeds == SeedNodes(d, scope) \cup SeedItems(d, scope)
  <1>1. \A n \in Nodes : n \in C <=>
            \A S \in SUBSET Nodes : seeds \subseteq S /\ Closed(d, S) => n \in S
    BY DEF Closure
  <1> HIDE DEF C, seeds
  <1>2. \A e \in d.edges : e[1] \in Nodes /\ e[2] \in Nodes
    BY DEF Relations
  <1>3. ASSUME NEW e \in d.edges PROVE e[1] \in C <=> e[2] \in C
    <2>1. \A S \in SUBSET Nodes : Closed(d, S) => (e[1] \in S <=> e[2] \in S)
      BY DEF Closed
    <2> QED
      BY <1>1, <1>2, <2>1
  <1>4. ASSUME NEW i \in Items, ItemOf(d, i, C) PROVE i \in C
    <2>1. CASE i \in C
      BY <2>1
    <2>2. CASE ScopeNodeOf[i] \in C
      <3>1. ScopeNodeOf[i] \in Nodes
        BY <2>2, ClosureType DEF C
      <3>2. ASSUME NEW S \in SUBSET Nodes, seeds \subseteq S, Closed(d, S) PROVE i \in S
        <4>1. ScopeNodeOf[i] \in S
          BY <1>1, <2>2, <3>1, <3>2
        <4> QED
          BY <1>4, <3>2, <4>1 DEF Closed, ItemOf
      <3> QED
        BY <1>1, <3>2, NodeSets
    <2> QED
      BY <1>4, <2>1, <2>2 DEF ItemOf
  <1> QED
    BY <1>3, <1>4 DEF Closed, C

LEMMA ClosureLive ==
    ASSUME TypeOK, ForeignKeysHold, NEW scope \in Scopes
    PROVE  \A n \in Closure(canon, scope) :
                n \in canon.nodes \/ (n \in Items /\ canon.items[n] # "none")
  <1> DEFINE T == {n \in Nodes : n \in canon.nodes \/ (n \in Items /\ canon.items[n] # "none")}
  <1>1. \A e \in canon.edges : e[1] \in T /\ e[2] \in T
    BY CanonType DEF ForeignKeysHold
  <1>2. Closed(canon, T)
    BY <1>1, NodeSets DEF Closed, ItemOf
  <1>3. SeedItems(canon, scope) \subseteq T
    BY NodeSets DEF SeedItems
  <1>4. SeedNodes(canon, scope) \subseteq canon.nodes
    BY ScopeKinds DEF SeedNodes
  <1>5. SeedNodes(canon, scope) \subseteq T
    BY <1>4, CanonType
  <1> QED
    BY <1>2, <1>3, <1>5 DEF Closure

LEMMA SeedEventsType ==
    ASSUME TypeOK, NEW scope \in Scopes
    PROVE  /\ SeedEvents(canon, scope) \subseteq canon.events
           /\ scope[1] # "operator" => SeedEvents(canon, scope) \subseteq Nodes
  BY ScopeKinds, NodeSets DEF SeedEvents

LEMMA SeedsTaken ==
    ASSUME TypeOK, ForeignKeysHold, EventsOfNodes, NEW scope \in Scopes
    PROVE  /\ SeedEvents(canon, scope) \cap Nodes \subseteq Closure(canon, scope)
           /\ scope[1] = "operator" => canon.nodes \subseteq Closure(canon, scope)
  <1>1. SeedNodes(canon, scope) \subseteq Closure(canon, scope)
    <2>1. SeedNodes(canon, scope) \subseteq canon.nodes
      BY ScopeKinds DEF SeedNodes
    <2> QED
      BY <2>1, SeedsInClosure, CanonType
  <1>2. ASSUME NEW n \in SeedEvents(canon, scope), n \in Nodes
        PROVE  n \in Closure(canon, scope)
    <2>1. CASE scope[1] = "node"
      BY <1>2, <2>1 DEF SeedEvents
    <2>2. CASE scope[1] = "source"
      BY <1>1, <1>2, <2>2 DEF SeedEvents, SeedNodes
    <2>3. CASE scope[1] = "session"
      <3>1. n \in Captures /\ n \in canon.events
        BY <1>2, <2>3 DEF SeedEvents
      <3>2. n \in canon.nodes
        BY <3>1, PurgeAssumption, NodeSets DEF EventsOfNodes
      <3> QED
        BY <1>1, <1>2, <2>3, <3>2 DEF SeedNodes
    <2>4. CASE scope[1] = "operator"
      <3>1. n \in canon.events
        BY <1>2, <2>4 DEF SeedEvents
      <3>2. CASE n \in Items
        <4>1. n \in SeedItems(canon, scope)
          BY <2>4, <3>1, <3>2 DEF SeedItems, ForeignKeysHold
        <4> QED
          BY <4>1, SeedsInClosure
      <3>3. CASE n \notin Items
        <4>1. n \in canon.nodes
          BY <1>2, <3>1, <3>3 DEF EventsOfNodes
        <4> QED
          BY <1>1, <2>4, <4>1 DEF SeedNodes
      <3> QED
        BY <3>2, <3>3
    <2> QED
      BY <2>1, <2>2, <2>3, <2>4, ScopeKinds
  <1>3. scope[1] = "operator" => canon.nodes \subseteq Closure(canon, scope)
    BY <1>1 DEF SeedNodes
  <1> QED
    BY <1>2, <1>3

-----------------------------------------------------------------------------
(* The keys of the canon.                                                  *)

\* A successor hangs on a proposal, so that a closure with the one has the other.
SuccessorsHang ==
    \A s \in canon.nodes \cap Successors :
        \E p \in Proposals : SuccessorOf[p] = s /\ <<p, s>> \in canon.edges

CanonInv == ForeignKeysHold /\ EventsOfNodes /\ SuccessorsHang

LEMMA InitCanonInv == Init => CanonInv
  BY DEF Init, EmptyCanon, CanonInv, ForeignKeysHold, EventsOfNodes, SuccessorsHang

\* Names of nodes, relations and reviews do not meet.
LEMMA NameKinds == \A m, n, l \in Nodes : l # <<m, n>> /\ l # <<n>> /\ <<m, n>> # <<l>>
  <1> SUFFICES ASSUME NEW m \in Nodes, NEW n \in Nodes, NEW l \in Nodes
               PROVE  l # <<m, n>> /\ l # <<n>> /\ <<m, n>> # <<l>>
    OBVIOUS
  <1>1. <<m, n>> \in Relations /\ <<n>> \in Reviews
    BY DEF Relations, Reviews
  <1> QED
    BY <1>1, PurgeAssumption

LEMMA EventKinds ==
    ASSUME TypeOK
    PROVE  /\ \A n \in Nodes : n \notin canon.edges
           /\ \A m, n \in Nodes : m # <<n>>
           /\ \A e \in canon.edges : e \notin Nodes /\ e[1] \in Nodes /\ e[2] \in Nodes
           /\ \A e \in canon.edges : \A n \in Nodes : e # <<n>>
  <1>1. \A m, n, l \in Nodes : l # <<m, n>> /\ l # <<n>> /\ <<m, n>> # <<l>>
    BY NameKinds
  <1>2. \A e \in canon.edges : \E m, n \in Nodes : e = <<m, n>>
    BY CanonType DEF Relations
  <1> QED
    BY <1>1, <1>2

\* What the deletes of a purge leave of the canon.
LEMMA PurgedCanon ==
    ASSUME TypeOK, CanonInv, NEW scope \in Scopes, HardPurge(scope),
           NEW S, S = Closure(canon, scope)
    PROVE  /\ canon'.nodes = canon.nodes \ S
           /\ \A e : e \in canon'.edges <=> e \in canon.edges /\ e[1] \notin S /\ e[2] \notin S
           /\ \A n \in Nodes : n \in canon'.events <=> n \in canon.events /\ n \notin S
           /\ \A e \in canon'.edges : e \in canon.events => e \in canon'.events
           /\ \A n \in Nodes : <<n>> \in canon'.events => <<n>> \in canon.events /\ n \notin S
           /\ \A i \in Items : canon'.items[i] = IF i \in S THEN "none" ELSE canon.items[i]
           /\ canon'.consumed = canon.consumed \ S
           /\ canon'.dedup = canon.dedup \ S
  <1> DEFINE seeds == SeedEvents(canon, scope)
             E == ClosureEvents(canon, S, seeds)
  <1>1. canon' = Erased(canon, S, E)
    BY DEF HardPurge
  <1>2. /\ S \subseteq Nodes /\ seeds \subseteq canon.events /\ seeds \cap Nodes \subseteq S
        /\ scope[1] # "operator" => seeds \subseteq Nodes
        /\ scope[1] = "operator" => canon.nodes \subseteq S
    BY ClosureType, SeedEventsType, SeedsTaken DEF CanonInv
  <1> HIDE DEF seeds
  <1>3. \A n \in Nodes : n \in E <=> n \in canon.events /\ n \in S
    BY <1>2, EventKinds DEF ClosureEvents
  <1>4. \A e \in canon.edges : (e[1] \notin S /\ e[2] \notin S) => e \notin E
    <2>1. \A e \in canon.edges : (e[1] \notin S /\ e[2] \notin S) => e \notin seeds
      BY <1>2, EventKinds DEF CanonInv, ForeignKeysHold
    <2> QED
      BY <1>2, <2>1, EventKinds DEF ClosureEvents
  <1>5. \A n \in S : <<n>> \in canon.events => <<n>> \in E
    BY DEF ClosureEvents
  <1>6. /\ canon.consumed = canon.nodes \cap Captures /\ canon.dedup = canon.consumed
        /\ canon.nodes \subseteq canon.events
    BY DEF CanonInv, ForeignKeysHold
  <1> HIDE DEF E
  <1>7. /\ canon'.nodes = canon.nodes \ S
        /\ canon'.edges = {e \in canon.edges : e[1] \notin S /\ e[2] \notin S}
        /\ canon'.events = canon.events \ E
        /\ canon'.items = [i \in Items |-> IF i \in S THEN "none" ELSE canon.items[i]]
        /\ canon'.consumed = canon.consumed \ E
        /\ canon'.dedup = canon.dedup \ E
    BY <1>1 DEF Erased
  <1>8. canon.consumed \ E = canon.consumed \ S
    BY <1>3, <1>6, NodeSets
  <1> QED
    BY <1>3, <1>4, <1>5, <1>6, <1>7, <1>8

\* Of the markers, those that are nodes or items are the closure itself.
LEMMA TakenNodes ==
    ASSUME TypeOK, CanonInv, NEW scope \in Scopes, Resolves(canon, scope)
    PROVE  Taken(scope) \cap Nodes = Closure(canon, scope)
  <1> DEFINE S == Closure(canon, scope)
             seeds == SeedEvents(canon, scope)
             E == ClosureEvents(canon, S, seeds)
  <1>1. S \subseteq Nodes /\ seeds \cap Nodes \subseteq S
    BY ClosureType, SeedsTaken DEF CanonInv
  <1>2. scope[2] \in Nodes => scope[2] \in S
    <2> SUFFICES ASSUME scope[2] \in Nodes PROVE scope[2] \in S
      OBVIOUS
    <2>1. scope[2] \notin Scoping
      BY PurgeAssumption
    <2>2. scope[1] = "node" \/ (scope[1] = "source" /\ scope[2] \in Captures \cup Items)
      BY <2>1 DEF Scopes, Scoping
    <2>3. CASE scope[1] = "node"
      <3>1. SeedEvents(canon, scope) = {}
        BY <2>3 DEF SeedEvents
      <3>2. SeedItems(canon, scope) = {}
        BY <2>3 DEF SeedItems, Scopes
      <3>3. SeedNodes(canon, scope) = {scope[2]} \cap canon.nodes
        BY <2>3 DEF SeedNodes
      <3>4. scope[2] \in SeedNodes(canon, scope)
        BY <3>1, <3>2, <3>3 DEF Resolves
      <3> QED
        BY <3>4, SeedsInClosure
    <2>4. CASE scope[1] = "source"
      <3>1. SeedEvents(canon, scope) = {e \in {scope[2]} \cap canon.events : e \in canon.nodes}
        BY <2>4 DEF SeedEvents
      <3>2. SeedNodes(canon, scope) = {n \in canon.nodes : n \in SeedEvents(canon, scope)}
        BY <2>4 DEF SeedNodes
      <3>3. \A i \in SeedItems(canon, scope) : i = scope[2]
        BY <2>4 DEF SeedItems
      <3>4. scope[2] \in SeedNodes(canon, scope) \cup SeedItems(canon, scope)
        BY <3>1, <3>2, <3>3 DEF Resolves
      <3> QED
        BY <3>4, SeedsInClosure
    <2> QED
      BY <2>2, <2>3, <2>4
  <1> HIDE DEF seeds, S
  <1>3. E \cap Nodes \subseteq S
    BY <1>1, EventKinds DEF ClosureEvents
  <1>4. {e \in canon.edges : e[1] \in S \/ e[2] \in S} \cap Nodes = {}
    BY EventKinds
  <1>5. Taken(scope) = S \cup {e \in canon.edges : e[1] \in S \/ e[2] \in S} \cup E \cup {scope[2]}
    BY DEF Taken, Identities, S, seeds
  <1> HIDE DEF E
  <1> QED
    BY <1>1, <1>2, <1>3, <1>4, <1>5 DEF S

LEMMA HardPurgeCanonInv ==
    ASSUME TypeOK, CanonInv, NEW scope \in Scopes, HardPurge(scope)
    PROVE  CanonInv'
  <1> DEFINE S == Closure(canon, scope)
  <1>1. /\ canon'.nodes = canon.nodes \ S
        /\ \A e : e \in canon'.edges <=> e \in canon.edges /\ e[1] \notin S /\ e[2] \notin S
        /\ \A n \in Nodes : n \in canon'.events <=> n \in canon.events /\ n \notin S
        /\ \A e \in canon'.edges : e \in canon.events => e \in canon'.events
        /\ \A n \in Nodes : <<n>> \in canon'.events => <<n>> \in canon.events /\ n \notin S
        /\ \A i \in Items : canon'.items[i] = IF i \in S THEN "none" ELSE canon.items[i]
        /\ canon'.consumed = canon.consumed \ S
        /\ canon'.dedup = canon.dedup \ S
    BY PurgedCanon
  <1>2. Closed(canon, S)
    BY ClosureClosed, CanonType
  <1> HIDE DEF S
  <1>3. canon.nodes \subseteq Nodes
    BY CanonType
  <1>4. \A n \in canon'.nodes : n \in canon'.events
    BY <1>1, <1>3 DEF CanonInv, ForeignKeysHold
  <1>5. \A e \in canon'.edges : {e[1], e[2]} \subseteq canon'.nodes /\ EdgeEvent(e) \in canon'.events
    <2> SUFFICES ASSUME NEW e \in canon'.edges
                 PROVE  e[1] \in canon'.nodes /\ e[2] \in canon'.nodes /\ EdgeEvent(e) \in canon'.events
      OBVIOUS
    <2>1. e \in canon.edges /\ e[1] \notin S /\ e[2] \notin S
      BY <1>1
    <2>2. e[1] \in canon.nodes /\ e[2] \in canon.nodes /\ EdgeEvent(e) \in canon.events
      BY <2>1 DEF CanonInv, ForeignKeysHold
    <2>3. EdgeEvent(e) \in canon'.events
      BY <1>1, <1>3, <2>1, <2>2 DEF EdgeEvent
    <2> QED
      BY <1>1, <2>1, <2>2, <2>3
  <1>6. \A n \in Nodes : <<n>> \in canon'.events => n \in canon'.nodes
    BY <1>1 DEF CanonInv, ForeignKeysHold
  <1>7. /\ \A i \in Items : canon'.items[i] = "kept" <=> i \in canon'.nodes
        /\ \A i \in Items : i \in canon'.events => canon'.items[i] # "none"
    BY <1>1, NodeSets DEF CanonInv, ForeignKeysHold
  <1>8. canon'.consumed = canon'.nodes \cap Captures /\ canon'.dedup = canon'.consumed
    BY <1>1 DEF CanonInv, ForeignKeysHold
  <1>9. ForeignKeysHold'
    BY <1>4, <1>5, <1>6, <1>7, <1>8 DEF ForeignKeysHold
  <1>10. EventsOfNodes'
    BY <1>1 DEF CanonInv, EventsOfNodes
  <1>11. SuccessorsHang'
    <2> SUFFICES ASSUME NEW s \in canon'.nodes, s \in Successors
                 PROVE  \E p \in Proposals : SuccessorOf[p] = s /\ <<p, s>> \in canon'.edges
      BY DEF SuccessorsHang
    <2>1. PICK p \in Proposals : SuccessorOf[p] = s /\ <<p, s>> \in canon.edges
      BY <1>1 DEF CanonInv, SuccessorsHang
    <2>2. s \notin S /\ p \notin S
      BY <1>1, <1>2, <2>1 DEF Closed
    <2>3. <<p, s>> \in canon'.edges
      BY <1>1, <2>1, <2>2
    <2> QED
      BY <2>1, <2>3
  <1> QED
    BY <1>9, <1>10, <1>11 DEF CanonInv

LEMMA SameCanonInv ==
    ASSUME CanonInv, UNCHANGED canon
    PROVE  CanonInv'
  BY DEF CanonInv, ForeignKeysHold, EventsOfNodes, SuccessorsHang

\* A node that is no item, with its event, and with its edge if it is a successor.
LEMMA NodeKeepsCanonInv ==
    ASSUME TypeOK, CanonInv, NEW n \in Nodes, n \notin Items, NEW X \in SUBSET Relations,
           canon'.nodes = canon.nodes \cup {n}, canon'.events = canon.events \cup {n},
           canon'.edges = canon.edges \cup X, canon'.items = canon.items,
           canon'.consumed = canon'.nodes \cap Captures, canon'.dedup = canon'.consumed,
           \A e \in X : e[1] \in canon'.nodes /\ e[2] \in canon'.nodes /\ EdgeEvent(e) = n,
           n \in Successors => \E p \in Proposals : SuccessorOf[p] = n /\ <<p, n>> \in canon'.edges
    PROVE  CanonInv'
  <1>1. /\ \A m \in canon'.nodes : m \in canon'.events
        /\ \A i \in Items : canon'.items[i] = "kept" <=> i \in canon'.nodes
        /\ \A i \in Items : i \in canon'.events => canon'.items[i] # "none"
    BY DEF CanonInv, ForeignKeysHold
  <1>2. \A e \in canon'.edges : {e[1], e[2]} \subseteq canon'.nodes /\ EdgeEvent(e) \in canon'.events
    BY DEF CanonInv, ForeignKeysHold
  <1>3. \A m \in Nodes : <<m>> \in canon'.events => m \in canon'.nodes
    BY EventKinds DEF CanonInv, ForeignKeysHold
  <1>4. ForeignKeysHold'
    BY <1>1, <1>2, <1>3 DEF ForeignKeysHold
  <1>5. EventsOfNodes'
    BY DEF CanonInv, EventsOfNodes
  <1>6. SuccessorsHang'
    BY DEF CanonInv, SuccessorsHang
  <1> QED
    BY <1>4, <1>5, <1>6 DEF CanonInv

LEMMA ApplyCaptureCanonInv ==
    ASSUME TypeOK, CanonInv, NEW c \in Captures, canon' = Captured(canon, c)
    PROVE  CanonInv'
  <1>1. CASE canon' = canon
    BY <1>1, SameCanonInv
  <1>2. CASE canon' = [canon EXCEPT !.nodes = @ \cup {c}, !.events = @ \cup {c},
                                    !.consumed = @ \cup {c}, !.dedup = @ \cup {c}]
    <2>1. /\ canon'.nodes = canon.nodes \cup {c} /\ canon'.events = canon.events \cup {c}
          /\ canon'.edges = canon.edges /\ canon'.items = canon.items
          /\ canon'.consumed = canon.consumed \cup {c} /\ canon'.dedup = canon.dedup \cup {c}
      BY <1>2 DEF TypeOK, Canon
    <2>2. canon'.consumed = canon'.nodes \cap Captures /\ canon'.dedup = canon'.consumed
      BY <2>1 DEF CanonInv, ForeignKeysHold
    <2>3. c \in Nodes /\ c \notin Items /\ c \notin Successors
      BY PurgeAssumption, NodeSets
    <2>4. canon'.edges = canon.edges \cup {}
      BY <2>1
    <2>5. {} \in SUBSET Relations
      OBVIOUS
    <2> QED
      BY <2>1, <2>2, <2>3, <2>4, <2>5, NodeKeepsCanonInv
  <1> QED
    BY <1>1, <1>2 DEF Captured

LEMMA PlainNodeCanonInv ==
    ASSUME TypeOK, CanonInv, NEW n \in Proposals \cup Business,
           canon' = [canon EXCEPT !.nodes = @ \cup {n}, !.events = @ \cup {n}]
    PROVE  CanonInv'
  <1>1. /\ canon'.nodes = canon.nodes \cup {n} /\ canon'.events = canon.events \cup {n}
        /\ canon'.edges = canon.edges /\ canon'.items = canon.items
        /\ canon'.consumed = canon.consumed /\ canon'.dedup = canon.dedup
    BY DEF TypeOK, Canon
  <1>2. n \in Nodes /\ n \notin Items /\ n \notin Successors /\ n \notin Captures
    BY PurgeAssumption, NodeSets
  <1>3. canon'.consumed = canon'.nodes \cap Captures /\ canon'.dedup = canon'.consumed
    BY <1>1, <1>2 DEF CanonInv, ForeignKeysHold
  <1>4. canon'.edges = canon.edges \cup {}
    BY <1>1
  <1>5. {} \in SUBSET Relations
    OBVIOUS
  <1> QED
    BY <1>1, <1>2, <1>3, <1>4, <1>5, NodeKeepsCanonInv

LEMMA SuccessorCanonInv ==
    ASSUME TypeOK, CanonInv, NEW p \in Proposals, AuthorizeSuccessor(p)
    PROVE  CanonInv'
  <1> DEFINE s == SuccessorOf[p]
  <1>1. s \in Successors /\ s \in Nodes /\ s \notin Items /\ s \notin Captures
    BY PurgeAssumption, NodeSets
  <1>2. /\ canon'.nodes = canon.nodes \cup {s} /\ canon'.events = canon.events \cup {s}
        /\ canon'.edges = canon.edges \cup {<<p, s>>} /\ canon'.items = canon.items
        /\ canon'.consumed = canon.consumed /\ canon'.dedup = canon.dedup
        /\ p \in canon.nodes
    BY DEF AuthorizeSuccessor, Commit, TypeOK, Canon
  <1>3. EdgeEvent(<<p, s>>) = s
    BY DEF EdgeEvent
  <1> HIDE DEF s
  <1>4. canon'.consumed = canon'.nodes \cap Captures /\ canon'.dedup = canon'.consumed
    BY <1>1, <1>2 DEF CanonInv, ForeignKeysHold
  <1>5. {<<p, s>>} \in SUBSET Relations
    BY <1>1, NodeSets DEF Relations
  <1>6. \A e \in {<<p, s>>} : e[1] \in canon'.nodes /\ e[2] \in canon'.nodes /\ EdgeEvent(e) = s
    BY <1>2, <1>3
  <1>7. \E q \in Proposals : SuccessorOf[q] = s /\ <<q, s>> \in canon'.edges
    BY <1>2 DEF s
  <1> QED
    BY <1>1, <1>2, <1>4, <1>5, <1>6, <1>7, NodeKeepsCanonInv

LEMMA ItemCanonInv ==
    ASSUME TypeOK, CanonInv, NEW i \in Items,
           ScanItem(i) \/ \E v \in {"kept", "killed"} : RuleItem(i, v)
    PROVE  CanonInv'
  <1>0. i \in Nodes /\ i \notin Captures /\ i \notin Successors
    BY PurgeAssumption, NodeSets
  <1>1. CASE ScanItem(i)
    <2>1. /\ canon'.nodes = canon.nodes /\ canon'.events = canon.events /\ canon'.edges = canon.edges
          /\ canon'.consumed = canon.consumed /\ canon'.dedup = canon.dedup
          /\ canon.items[i] = "none" /\ canon'.items = [canon.items EXCEPT ![i] = "unruled"]
      BY <1>1 DEF ScanItem, Commit, TypeOK, Canon
    <2>2. \A j \in Items : canon'.items[j] = IF j = i THEN "unruled" ELSE canon.items[j]
      BY <2>1, CanonType
    <2> QED
      BY <2>1, <2>2 DEF CanonInv, ForeignKeysHold, EventsOfNodes, SuccessorsHang
  <1>2. ASSUME NEW v \in {"kept", "killed"}, RuleItem(i, v) PROVE CanonInv'
    <2>1. /\ canon'.events = canon.events \cup {i} /\ canon'.edges = canon.edges
          /\ canon'.nodes = IF v = "kept" THEN canon.nodes \cup {i} ELSE canon.nodes
          /\ canon'.consumed = canon.consumed /\ canon'.dedup = canon.dedup
          /\ canon.items[i] = "unruled" /\ canon'.items = [canon.items EXCEPT ![i] = v]
      BY <1>2 DEF RuleItem, Commit, TypeOK, Canon
    <2>2. \A j \in Items : canon'.items[j] = IF j = i THEN v ELSE canon.items[j]
      BY <2>1, CanonType
    <2>3. i \notin canon.nodes
      BY <2>1 DEF CanonInv, ForeignKeysHold
    <2>4. \A n \in Nodes : <<n>> \in canon'.events => n \in canon'.nodes
      BY <1>0, <2>1, EventKinds DEF CanonInv, ForeignKeysHold
    <2>5. /\ \A j \in Items : canon'.items[j] = "kept" <=> j \in canon'.nodes
          /\ \A j \in Items : j \in canon'.events => canon'.items[j] # "none"
      BY <2>1, <2>2, <2>3 DEF CanonInv, ForeignKeysHold
    <2>6. canon'.consumed = canon'.nodes \cap Captures /\ canon'.dedup = canon'.consumed
      BY <1>0, <2>1 DEF CanonInv, ForeignKeysHold
    <2>7. /\ \A n \in canon'.nodes : n \in canon'.events
          /\ \A e \in canon'.edges : {e[1], e[2]} \subseteq canon'.nodes /\ EdgeEvent(e) \in canon'.events
      BY <2>1 DEF CanonInv, ForeignKeysHold
    <2>8. ForeignKeysHold'
      BY <2>4, <2>5, <2>6, <2>7 DEF ForeignKeysHold
    <2>9. EventsOfNodes' /\ SuccessorsHang'
      BY <1>0, <2>1 DEF CanonInv, EventsOfNodes, SuccessorsHang
    <2> QED
      BY <2>8, <2>9 DEF CanonInv
  <1> QED
    BY <1>1, <1>2

LEMMA RelateCanonInv ==
    ASSUME TypeOK, CanonInv, NEW m \in Nodes, NEW n \in Nodes, Relate(m, n)
    PROVE  CanonInv'
  <1>1. /\ canon'.nodes = canon.nodes /\ canon'.events = canon.events \cup {<<m, n>>}
        /\ canon'.edges = canon.edges \cup {<<m, n>>} /\ canon'.items = canon.items
        /\ canon'.consumed = canon.consumed /\ canon'.dedup = canon.dedup
        /\ m \in canon.nodes /\ n \in canon.nodes
    BY DEF Relate, Commit, TypeOK, Canon
  <1>2. \A l \in Nodes : l # <<m, n>> /\ <<l>> # <<m, n>>
    BY NameKinds
  <1>3. /\ \A l \in canon'.nodes : l \in canon'.events
        /\ \A i \in Items : canon'.items[i] = "kept" <=> i \in canon'.nodes
        /\ canon'.consumed = canon'.nodes \cap Captures /\ canon'.dedup = canon'.consumed
    BY <1>1 DEF CanonInv, ForeignKeysHold
  <1>4. /\ \A i \in Items : i \in canon'.events => canon'.items[i] # "none"
        /\ \A l \in Nodes : <<l>> \in canon'.events => l \in canon'.nodes
    BY <1>1, <1>2, NodeSets DEF CanonInv, ForeignKeysHold
  <1>5. EdgeEvent(<<m, n>>) \in canon'.events
    BY <1>1, <1>3 DEF EdgeEvent
  <1>6. \A e \in canon'.edges : {e[1], e[2]} \subseteq canon'.nodes /\ EdgeEvent(e) \in canon'.events
    BY <1>1, <1>5 DEF CanonInv, ForeignKeysHold
  <1>7. ForeignKeysHold'
    BY <1>3, <1>4, <1>6 DEF ForeignKeysHold
  <1>8. EventsOfNodes' /\ SuccessorsHang'
    BY <1>1, <1>2 DEF CanonInv, EventsOfNodes, SuccessorsHang
  <1> QED
    BY <1>7, <1>8 DEF CanonInv

LEMMA ReviewCanonInv ==
    ASSUME TypeOK, CanonInv, NEW n \in Nodes, Review(n)
    PROVE  CanonInv'
  <1>1. /\ canon'.nodes = canon.nodes /\ canon'.events = canon.events \cup {<<n>>}
        /\ canon'.edges = canon.edges /\ canon'.items = canon.items
        /\ canon'.consumed = canon.consumed /\ canon'.dedup = canon.dedup
        /\ n \in canon.nodes
    BY DEF Review, Commit, TypeOK, Canon
  <1>2. \A l \in Nodes : l # <<n>> /\ (<<l>> = <<n>> => l = n)
    BY EventKinds
  <1>3. ForeignKeysHold'
    BY <1>1, <1>2, NodeSets DEF CanonInv, ForeignKeysHold
  <1>4. EventsOfNodes' /\ SuccessorsHang'
    BY <1>1, <1>2 DEF CanonInv, EventsOfNodes, SuccessorsHang
  <1> QED
    BY <1>3, <1>4 DEF CanonInv

\* The steps that change the canon
CanonStep ==
    \/ \E scope \in Scopes : HardPurge(scope)
    \/ \E q \in Passes, c \in Captures : ApplyCapture(q, c)
    \/ \E v \in Derivers : AppendProposal(v)
    \/ \E i \in Items : ScanItem(i) \/ RuleItem(i, "kept") \/ RuleItem(i, "killed")
    \/ \E m, n \in Nodes : Relate(m, n)
    \/ \E n \in Nodes : Review(n)
    \/ \E p \in Proposals : AuthorizeSuccessor(p)
    \/ \E b \in Business : AppendBusiness(b)

LEMMA CanonSteps == [Next]_vars => CanonStep \/ UNCHANGED canon
  <1> SUFFICES ASSUME [Next]_vars PROVE CanonStep \/ UNCHANGED canon
    OBVIOUS
  <1>1. CASE UNCHANGED vars
    BY <1>1 DEF vars
  <1>2. CASE PurgeStep
    BY <1>2 DEF PurgeStep, CanonStep, RewriteProjections, ListFiles, RemoveFile, ScanActiveRoot,
                ScanDatabase, FinishPurge, PurgeCrash, PurgeFails
  <1>3. CASE CaptureStep
    BY <1>3 DEF CaptureStep, CanonStep, NewEnvelope, ReadSpool, Acknowledge
  <1>4. CASE DeriveStep
    BY <1>4 DEF DeriveStep, CanonStep, SubmitProposal, SkipPending, ReadPending, StartDerive,
                WriteReceipt, EndDerive
  <1>5. CASE StoreStep
    BY <1>5 DEF StoreStep, CanonStep, TakeBackup, LeaveOrphan
  <1> QED
    BY <1>1, <1>2, <1>3, <1>4, <1>5 DEF Next

LEMMA NextCanonInv ==
    ASSUME TypeOK, CurKnown, CanonInv, [Next]_vars
    PROVE  CanonInv'
  <1>1. ASSUME NEW q \in Passes, NEW c \in Captures, ApplyCapture(q, c) PROVE CanonInv'
    BY <1>1, ApplyCaptureCanonInv DEF ApplyCapture, Commit
  <1>2. ASSUME NEW v \in Derivers, AppendProposal(v) PROVE CanonInv'
    <2> DEFINE p == derive[v].cur
    <2>1. p \in Proposals
      BY <1>2 DEF AppendProposal, CurKnown, Working
    <2>2. \/ canon' = canon
          \/ canon' = [canon EXCEPT !.nodes = @ \cup {p}, !.events = @ \cup {p}]
      BY <1>2 DEF AppendProposal, Commit
    <2> QED
      BY <2>1, <2>2, PlainNodeCanonInv, SameCanonInv
  <1>3. ASSUME NEW b \in Business, AppendBusiness(b) PROVE CanonInv'
    BY <1>3, PlainNodeCanonInv DEF AppendBusiness, Commit
  <1>4. ASSUME NEW i \in Items, ScanItem(i) \/ RuleItem(i, "kept") \/ RuleItem(i, "killed")
        PROVE  CanonInv'
    BY <1>4, ItemCanonInv
  <1> QED
    BY <1>1, <1>2, <1>3, <1>4, HardPurgeCanonInv, RelateCanonInv, ReviewCanonInv,
       SuccessorCanonInv, SameCanonInv, CanonSteps DEF CanonStep

\* Whatever scopes are purged in whatever order and beside whatever other writer, every
\* row that _closure and its deletes leave refers to rows that are there: no relation,
\* review, ruling or consumption outlives its node, and deduplication never answers for
\* a capture that is gone.
THEOREM KeysHold == Spec => []ForeignKeysHold
  <1>1. Init => TypeOK /\ CurKnown /\ CanonInv
    BY InitType, InitCanonInv
  <1>2. TypeOK /\ CurKnown /\ CanonInv /\ [Next]_vars => TypeOK' /\ CurKnown' /\ CanonInv'
    BY NextType, NextCanonInv
  <1>3. CanonInv => ForeignKeysHold
    BY DEF CanonInv
  <1> QED
    BY <1>1, <1>2, <1>3, PTL DEF Spec

-----------------------------------------------------------------------------
(* What a step that is not one of hard_purge does to what a purge relies   *)
(* on: the files, what the passes and the derive hold, and the history.    *)

OtherStep == CaptureStep \/ DeriveStep \/ StoreStep \/ UNCHANGED vars

\* The steps of hard_purge after its transaction, or without one
ScanStep ==
    \/ \E scope \in Scopes : PurgeFails(scope)
    \/ RewriteProjections \/ ListFiles \/ RemoveFile \/ ScanActiveRoot
    \/ ScanDatabase \/ FinishPurge \/ PurgeCrash

LEMMA StepKinds ==
    [Next]_vars => (\E scope \in Scopes : HardPurge(scope)) \/ ScanStep \/ OtherStep
  BY DEF Next, PurgeStep, ScanStep, OtherStep

LEMMA FileDistinct ==
    ASSUME NEW x, NEW y
    PROVE  /\ Spool(x) = Spool(y) => x = y
           /\ Receipt(x) = Receipt(y) => x = y
           /\ Spool(x) # Ack(y) /\ Spool(x) # Pending(y) /\ Spool(x) # Receipt(y)
           /\ Spool(x) # Backup /\ Spool(x) # Projection
           /\ Receipt(x) # Ack(y) /\ Receipt(x) # Pending(y)
           /\ Receipt(x) # Backup /\ Receipt(x) # Projection
  BY DEF Spool, Ack, Pending, Receipt, Backup, Projection

Scanning == purge.pc \in {"database", "finish"}

LEMMA WriteEffect ==
    ASSUME TypeOK, NEW f \in Files, NEW S, Write(f, S)
    PROVE  /\ \A g \in Files : tree'[g] = IF g = f THEN S ELSE tree[g]
           /\ fresh \subseteq fresh' /\ fresh' \subseteq fresh \cup {f}
           /\ Scanning /\ S \cap purge.ids # {} => f \in fresh'
           /\ ~Scanning => fresh' = fresh
  <1>1. tree \in [Files -> SUBSET (Ids \cup {None})]
    BY DEF TypeOK
  <1> QED
    BY <1>1 DEF Write, Scanning

LEMMA CommitEffect ==
    ASSUME NEW d, Commit(d)
    PROVE  /\ fresh \subseteq fresh' /\ fresh' \subseteq fresh \cup {Database}
           /\ ~Scanning => fresh' = fresh
  BY DEF Commit, Scanning

\* Nobody but hard_purge touches its operation, and the history only grows.
LEMMA OthersKeep ==
    ASSUME OtherStep
    PROVE  UNCHANGED <<purge, ops>> /\ overlap \subseteq overlap' /\ twice \subseteq twice'
  <1>1. CASE UNCHANGED vars
    BY <1>1 DEF vars
  <1>2. CASE CaptureStep
    BY <1>2 DEF CaptureStep, NewEnvelope, ReadSpool, ApplyCapture, Acknowledge
  <1>3. CASE DeriveStep
    BY <1>3 DEF DeriveStep, SubmitProposal, SkipPending, ReadPending, StartDerive, AppendProposal,
                WriteReceipt, EndDerive
  <1>4. CASE StoreStep
    BY <1>4 DEF StoreStep, ScanItem, RuleItem, Relate, Review, AuthorizeSuccessor, AppendBusiness,
                TakeBackup, LeaveOrphan
  <1> QED
    BY <1>1, <1>2, <1>3, <1>4 DEF OtherStep

\* How the others write files: a spool file for a capture that no purge took; the receipt
\* that a derive has in hand; a file of another kind; or none, but the database.
FileStep ==
    \/ /\ UNCHANGED tree
       /\ fresh \subseteq fresh' /\ fresh' \subseteq fresh \cup {Database}
       /\ ~Scanning => fresh' = fresh
    \/ \E c \in Captures : /\ Write(Spool(c), Envelope(c))
                           /\ \A k \in 1..MaxPurges : c \notin ops[k].ids
    \/ \E f \in Files, S \in SUBSET (Ids \cup {None}) :
           /\ Write(f, S)
           /\ \A c \in Captures : f # Spool(c)
           /\ \A p \in Proposals : f # Receipt(p)
    \/ \E v \in Derivers :
           /\ derive[v].pc = "receipt" /\ derive'[v].pc = "next"
           /\ Write(Receipt(derive[v].cur),
                    IF derive[v].accepted THEN Accepted(derive[v].cur) ELSE Rejected)

LEMMA OthersWrite ==
    ASSUME TypeOK, CurKnown, OtherStep
    PROVE  FileStep
  <1> DEFINE Plain(f, S) ==
        f \in Files /\ S \in SUBSET (Ids \cup {None}) /\ Write(f, S)
        /\ (\A c \in Captures : f # Spool(c)) /\ (\A p \in Proposals : f # Receipt(p))
  <1>0. \A f, S : Plain(f, S) => FileStep
    BY DEF FileStep
  <1>00. UNCHANGED <<tree, fresh>> => FileStep
    BY DEF FileStep
  <1>000. \A d : UNCHANGED tree /\ Commit(d) => FileStep
    BY CommitEffect DEF FileStep
  <1> HIDE DEF Plain
  <1>1. CASE UNCHANGED vars
    BY <1>00, <1>1 DEF vars
  <1>2. CASE CaptureStep
    <2>1. ASSUME NEW c \in Captures, NewEnvelope(c) PROVE FileStep
      BY <2>1 DEF NewEnvelope, FileStep
    <2>2. ASSUME NEW q \in Passes, ReadSpool(q) PROVE FileStep
      BY <1>00, <2>2 DEF ReadSpool
    <2>3. ASSUME NEW q \in Passes, NEW c \in Captures, ApplyCapture(q, c) PROVE FileStep
      BY <1>000, <2>3 DEF ApplyCapture
    <2>4. ASSUME NEW q \in Passes, NEW c \in Captures, Acknowledge(q, c) PROVE FileStep
      <3>1. Write(Ack(c), {c}) \/ UNCHANGED <<tree, fresh>>
        BY <2>4 DEF Acknowledge
      <3>2. Write(Ack(c), {c}) => Plain(Ack(c), {c})
        BY FileNames, FileDistinct, NodeSets, IdSets DEF Plain
      <3> QED
        BY <1>0, <1>00, <3>1, <3>2
    <2> QED
      BY <1>2, <2>1, <2>2, <2>3, <2>4 DEF CaptureStep
  <1>3. CASE DeriveStep
    <2>1. ASSUME NEW p \in Proposals, SubmitProposal(p) PROVE FileStep
      <3>1. Mentions(p) \in SUBSET (Ids \cup {None})
        BY MentionsType, NodeSets, IdSets
      <3>2. Plain(Pending(p), Mentions(p))
        BY <2>1, <3>1, FileNames, FileDistinct DEF Plain, SubmitProposal
      <3> QED
        BY <1>0, <3>2
    <2>2. ASSUME NEW v \in Derivers, WriteReceipt(v) PROVE FileStep
      <3>1. \/ UNCHANGED <<tree, fresh>>
            \/ /\ derive' = [derive EXCEPT ![v].pc = "next", ![v].cur = None, ![v].accepted = FALSE]
               /\ Write(Receipt(derive[v].cur),
                        IF derive[v].accepted THEN Accepted(derive[v].cur) ELSE Rejected)
        BY <2>2 DEF WriteReceipt
      <3>2. [derive EXCEPT ![v].pc = "next", ![v].cur = None, ![v].accepted = FALSE][v].pc = "next"
        BY DEF TypeOK
      <3>3. derive[v].pc = "receipt"
        BY <2>2 DEF WriteReceipt
      <3> QED
        BY <1>00, <3>1, <3>2, <3>3 DEF FileStep
    <2>3. ASSUME NEW v \in Derivers, AppendProposal(v) PROVE FileStep
      BY <1>000, <2>3 DEF AppendProposal
    <2>4. ASSUME NEW v \in Derivers, NEW p \in Proposals, SkipPending(v, p) \/ ReadPending(v, p)
          PROVE  FileStep
      BY <1>00, <2>4 DEF SkipPending, ReadPending
    <2>5. ASSUME NEW v \in Derivers, StartDerive(v) \/ EndDerive(v) PROVE FileStep
      BY <1>00, <2>5 DEF StartDerive, EndDerive
    <2> QED
      BY <1>3, <2>1, <2>2, <2>3, <2>4, <2>5 DEF DeriveStep
  <1>4. CASE StoreStep
    <2>1. CASE TakeBackup
      <3>1. Columns(canon) \in SUBSET (Ids \cup {None})
        BY MadeOfCanon
      <3>2. Plain(Backup, Columns(canon))
        BY <2>1, <3>1, FileNames, FileDistinct DEF Plain, TakeBackup
      <3> QED
        BY <1>0, <3>2
    <2>2. CASE LeaveOrphan
      BY <1>00, <2>2 DEF LeaveOrphan
    <2>3. ASSUME NEW i \in Items, NEW v, ScanItem(i) \/ RuleItem(i, v) PROVE FileStep
      BY <1>000, <2>3 DEF ScanItem, RuleItem
    <2>4. ASSUME NEW m, NEW n, Relate(m, n) \/ Review(n) PROVE FileStep
      BY <1>000, <2>4 DEF Relate, Review
    <2>5. ASSUME NEW p, AuthorizeSuccessor(p) \/ AppendBusiness(p) PROVE FileStep
      BY <1>000, <2>5 DEF AuthorizeSuccessor, AppendBusiness
    <2> QED
      BY <1>4, <2>1, <2>2, <2>3, <2>4, <2>5 DEF StoreStep
  <1> QED
    BY <1>1, <1>2, <1>3, <1>4 DEF OtherStep

\* A file is new to the scan only if it names an identity of the purge.
Noted(f) == tree'[f] = tree[f] \/ (Scanning /\ tree'[f] \cap purge.ids # {} => f \in fresh')

LEMMA FileEffect ==
    ASSUME TypeOK, CurKnown, FileStep
    PROVE  /\ \A f \in Files : Noted(f)
           /\ fresh \subseteq fresh'
           /\ ~Scanning => fresh' = fresh
           /\ \A c \in Captures :
                \/ tree'[Spool(c)] = tree[Spool(c)]
                \/ c \in tree'[Spool(c)] /\ \A k \in 1..MaxPurges : c \notin ops[k].ids
           /\ \A p \in Proposals :
                \/ /\ tree'[Receipt(p)] = tree[Receipt(p)]
                   /\ Receipt(p) \in fresh' => Receipt(p) \in fresh
                \/ \E v \in Derivers :
                     /\ derive[v].pc = "receipt" /\ derive'[v].pc = "next" /\ derive[v].cur = p
                     /\ tree'[Receipt(p)] = IF derive[v].accepted THEN Accepted(p) ELSE Rejected
  <1>0. \A p \in Proposals : Receipt(p) # Database
    BY DEF Receipt, Database
  <1>1. CASE /\ UNCHANGED tree
             /\ fresh \subseteq fresh' /\ fresh' \subseteq fresh \cup {Database}
             /\ ~Scanning => fresh' = fresh
    BY <1>0, <1>1 DEF Noted
  <1>2. ASSUME NEW c \in Captures, Write(Spool(c), Envelope(c)),
               \A k \in 1..MaxPurges : c \notin ops[k].ids
        PROVE  /\ \A f \in Files : Noted(f)
               /\ fresh \subseteq fresh' /\ (~Scanning => fresh' = fresh)
               /\ \A d \in Captures : \/ tree'[Spool(d)] = tree[Spool(d)]
                                      \/ d = c /\ c \in tree'[Spool(d)]
               /\ \A p \in Proposals : /\ tree'[Receipt(p)] = tree[Receipt(p)]
                                       /\ Receipt(p) \in fresh' => Receipt(p) \in fresh
    <2>1. /\ \A g \in Files : tree'[g] = IF g = Spool(c) THEN Envelope(c) ELSE tree[g]
          /\ fresh \subseteq fresh' /\ fresh' \subseteq fresh \cup {Spool(c)}
          /\ Scanning /\ Envelope(c) \cap purge.ids # {} => Spool(c) \in fresh'
          /\ ~Scanning => fresh' = fresh
      BY <1>2, WriteEffect, FileNames
    <2>2. c \in Envelope(c)
      BY EnvelopeType
    <2> QED
      BY <2>1, <2>2, FileNames, FileDistinct DEF Noted
  <1>3. ASSUME NEW f \in Files, NEW S \in SUBSET (Ids \cup {None}), Write(f, S),
               \A c \in Captures : f # Spool(c), \A p \in Proposals : f # Receipt(p)
        PROVE  /\ \A g \in Files : Noted(g)
               /\ fresh \subseteq fresh' /\ (~Scanning => fresh' = fresh)
               /\ \A c \in Captures : tree'[Spool(c)] = tree[Spool(c)]
               /\ \A p \in Proposals : /\ tree'[Receipt(p)] = tree[Receipt(p)]
                                       /\ Receipt(p) \in fresh' => Receipt(p) \in fresh
    <2>1. /\ \A g \in Files : tree'[g] = IF g = f THEN S ELSE tree[g]
          /\ fresh \subseteq fresh' /\ fresh' \subseteq fresh \cup {f}
          /\ Scanning /\ S \cap purge.ids # {} => f \in fresh'
          /\ ~Scanning => fresh' = fresh
      BY <1>3, WriteEffect
    <2> QED
      BY <1>3, <2>1, FileNames DEF Noted
  <1>4. ASSUME NEW v \in Derivers, derive[v].pc = "receipt", NEW S, Write(Receipt(derive[v].cur), S)
        PROVE  /\ \A g \in Files : Noted(g)
               /\ fresh \subseteq fresh' /\ (~Scanning => fresh' = fresh)
               /\ \A c \in Captures : tree'[Spool(c)] = tree[Spool(c)]
               /\ \A p \in Proposals :
                    \/ /\ tree'[Receipt(p)] = tree[Receipt(p)]
                       /\ Receipt(p) \in fresh' => Receipt(p) \in fresh
                    \/ derive[v].cur = p /\ tree'[Receipt(p)] = S
    <2> DEFINE cur == derive[v].cur
    <2>0. cur \in Proposals
      BY <1>4 DEF CurKnown, Working
    <2>1. /\ \A g \in Files : tree'[g] = IF g = Receipt(cur) THEN S ELSE tree[g]
          /\ fresh \subseteq fresh' /\ fresh' \subseteq fresh \cup {Receipt(cur)}
          /\ Scanning /\ S \cap purge.ids # {} => Receipt(cur) \in fresh'
          /\ ~Scanning => fresh' = fresh
      BY <1>4, <2>0, WriteEffect, FileNames
    <2> QED
      BY <2>0, <2>1, FileNames, FileDistinct DEF Noted
  <1>5. ASSUME NEW v \in Derivers, derive[v].pc = "receipt", derive'[v].pc = "next",
               Write(Receipt(derive[v].cur),
                     IF derive[v].accepted THEN Accepted(derive[v].cur) ELSE Rejected)
        PROVE  /\ \A g \in Files : Noted(g)
               /\ fresh \subseteq fresh' /\ (~Scanning => fresh' = fresh)
               /\ \A c \in Captures : tree'[Spool(c)] = tree[Spool(c)]
               /\ \A p \in Proposals :
                    \/ /\ tree'[Receipt(p)] = tree[Receipt(p)]
                       /\ Receipt(p) \in fresh' => Receipt(p) \in fresh
                    \/ /\ derive[v].cur = p
                       /\ tree'[Receipt(p)] = IF derive[v].accepted THEN Accepted(p) ELSE Rejected
    BY <1>4, <1>5
  <1>6. CASE \E c \in Captures : /\ Write(Spool(c), Envelope(c))
                                /\ \A k \in 1..MaxPurges : c \notin ops[k].ids
    BY <1>2, <1>6
  <1>7. CASE \E f \in Files, S \in SUBSET (Ids \cup {None}) :
                /\ Write(f, S)
                /\ \A c \in Captures : f # Spool(c)
                /\ \A p \in Proposals : f # Receipt(p)
    BY <1>3, <1>7
  <1>8. CASE \E v \in Derivers :
                /\ derive[v].pc = "receipt" /\ derive'[v].pc = "next"
                /\ Write(Receipt(derive[v].cur),
                         IF derive[v].accepted THEN Accepted(derive[v].cur) ELSE Rejected)
    BY <1>5, <1>8
  <1> QED
    BY <1>1, <1>6, <1>7, <1>8 DEF FileStep

\* What a pass holds it found in the spool, and the history notes it if a purge names it.
LEMMA OthersRead ==
    ASSUME TypeOK, OtherStep
    PROVE  \A q \in Passes : \A c \in pass'[q].todo :
                c \in pass[q].todo \/ (Exists(Spool(c)) /\ (c \in purge.ids => c \in overlap'))
  <1>0. pass \in [Passes -> [todo : SUBSET Captures, done : SUBSET Captures]]
    BY DEF TypeOK
  <1>1. CASE UNCHANGED pass
    BY <1>1
  <1>2. ASSUME NEW r \in Passes, ReadSpool(r), NEW q \in Passes, NEW c \in pass'[q].todo
        PROVE  c \in pass[q].todo \/ (Exists(Spool(c)) /\ (c \in purge.ids => c \in overlap'))
    <2> DEFINE read == {d \in Captures : Exists(Spool(d)) /\ ~Exists(Ack(d))}
    <2>1. pass'[q].todo = IF q = r THEN read ELSE pass[q].todo
      BY <1>0, <1>2 DEF ReadSpool
    <2>2. overlap' = overlap \cup (read \cap purge.ids)
      BY <1>2 DEF ReadSpool
    <2> QED
      BY <1>2, <2>1, <2>2
  <1>3. ASSUME NEW r \in Passes, NEW d \in Captures, ApplyCapture(r, d) \/ Acknowledge(r, d),
               NEW q \in Passes, NEW c \in pass'[q].todo
        PROVE  c \in pass[q].todo
    BY <1>0, <1>3 DEF ApplyCapture, Acknowledge, IdlePass
  <1>4. CASE CaptureStep
    <2>1. UNCHANGED pass \/ (\E r \in Passes : ReadSpool(r))
            \/ \E r \in Passes, d \in Captures : ApplyCapture(r, d) \/ Acknowledge(r, d)
      BY <1>4 DEF CaptureStep, NewEnvelope
    <2> QED
      BY <1>1, <1>2, <1>3, <2>1
  <1>5. CASE DeriveStep
    <2>1. UNCHANGED pass
      BY <1>5 DEF DeriveStep, SubmitProposal, SkipPending, ReadPending, StartDerive,
                  AppendProposal, WriteReceipt, EndDerive
    <2> QED
      BY <1>1, <2>1
  <1>6. CASE StoreStep
    <2>1. UNCHANGED pass
      BY <1>6 DEF StoreStep, ScanItem, RuleItem, Relate, Review, AuthorizeSuccessor,
                  AppendBusiness, TakeBackup, LeaveOrphan
    <2> QED
      BY <1>1, <2>1
  <1>7. CASE UNCHANGED vars
    BY <1>1, <1>7 DEF vars
  <1> QED
    BY <1>4, <1>5, <1>6, <1>7 DEF OtherStep

LEMMA OtherCanonSteps ==
    ASSUME OtherStep
    PROVE  \/ UNCHANGED canon
           \/ \E q \in Passes, c \in Captures : ApplyCapture(q, c)
           \/ \E v \in Derivers : AppendProposal(v)
           \/ \E i \in Items : ScanItem(i) \/ RuleItem(i, "kept") \/ RuleItem(i, "killed")
           \/ \E m, n \in Nodes : Relate(m, n)
           \/ \E n \in Nodes : Review(n)
           \/ \E p \in Proposals : AuthorizeSuccessor(p)
           \/ \E b \in Business : AppendBusiness(b)
  <1>1. CASE UNCHANGED vars
    BY <1>1 DEF vars
  <1>2. CASE CaptureStep
    BY <1>2 DEF CaptureStep, NewEnvelope, ReadSpool, Acknowledge
  <1>3. CASE DeriveStep
    BY <1>3 DEF DeriveStep, SubmitProposal, SkipPending, ReadPending, StartDerive, WriteReceipt,
                EndDerive
  <1>4. CASE StoreStep
    BY <1>4 DEF StoreStep, TakeBackup, LeaveOrphan
  <1> QED
    BY <1>1, <1>2, <1>3, <1>4 DEF OtherStep

\* What the others add to the canon: the capture of a pass, the proposal that a derive
\* has in hand, a successor of a proposal that is there, an item, or a business node.
NodeStep(n) ==
    \/ n \in Captures /\ \E q \in Passes : n \in pass[q].todo
    \/ /\ \E v \in Derivers : derive[v].pc = "append" /\ n = derive[v].cur
       /\ SourceOf[n] \in canon.nodes
    \/ \E p \in Proposals : n = SuccessorOf[p] /\ p \in canon.nodes /\ SourceOf[p] \in canon.nodes
    \/ n \in Items /\ canon.items[n] = "unruled"
    \/ n \in Business

LEMMA OthersAdd ==
    ASSUME TypeOK, CurKnown, CanonInv, OtherStep
    PROVE  \A n \in canon'.nodes : n \in canon.nodes \/ NodeStep(n)
  <1>1. CASE UNCHANGED canon
    BY <1>1
  <1>2. ASSUME NEW q \in Passes, NEW c \in Captures, ApplyCapture(q, c), NEW n \in canon'.nodes
        PROVE  n \in canon.nodes \/ NodeStep(n)
    <2>1. n \in canon.nodes \/ n = c
      BY <1>2 DEF ApplyCapture, Commit, Captured, TypeOK, Canon
    <2> QED
      BY <1>2, <2>1 DEF ApplyCapture, NodeStep
  <1>3. ASSUME NEW v \in Derivers, AppendProposal(v), NEW n \in canon'.nodes
        PROVE  n \in canon.nodes \/ NodeStep(n)
    <2>1. \/ n \in canon.nodes
          \/ n = derive[v].cur /\ (n \in canon.nodes \/ Derivable(canon, n))
      BY <1>3 DEF AppendProposal, Commit, TypeOK, Canon
    <2> QED
      BY <1>3, <2>1 DEF AppendProposal, Derivable, NodeStep
  <1>4. ASSUME NEW i \in Items, NEW v \in {"kept", "killed"}, RuleItem(i, v), NEW n \in canon'.nodes
        PROVE  n \in canon.nodes \/ NodeStep(n)
    <2>1. n \in canon.nodes \/ n = i
      BY <1>4 DEF RuleItem, Commit, TypeOK, Canon
    <2> QED
      BY <1>4, <2>1 DEF RuleItem, NodeStep
  <1>5. ASSUME NEW p \in Proposals, AuthorizeSuccessor(p), NEW n \in canon'.nodes
        PROVE  n \in canon.nodes \/ NodeStep(n)
    <2>1. n \in canon.nodes \/ n = SuccessorOf[p]
      BY <1>5 DEF AuthorizeSuccessor, Commit, TypeOK, Canon
    <2> QED
      BY <1>5, <2>1 DEF AuthorizeSuccessor, NodeStep
  <1>6. ASSUME NEW b \in Business, AppendBusiness(b), NEW n \in canon'.nodes
        PROVE  n \in canon.nodes \/ NodeStep(n)
    <2>1. n \in canon.nodes \/ n = b
      BY <1>6 DEF AppendBusiness, Commit, TypeOK, Canon
    <2> QED
      BY <2>1 DEF NodeStep
  <1>7. ASSUME \/ \E i \in Items : ScanItem(i)
               \/ \E m, n \in Nodes : Relate(m, n)
               \/ \E n \in Nodes : Review(n)
        PROVE  canon'.nodes = canon.nodes
    BY <1>7 DEF ScanItem, Relate, Review, Commit, TypeOK, Canon
  <1>8. \/ UNCHANGED canon
        \/ \E q \in Passes, c \in Captures : ApplyCapture(q, c)
        \/ \E v \in Derivers : AppendProposal(v)
        \/ \E i \in Items : ScanItem(i) \/ RuleItem(i, "kept") \/ RuleItem(i, "killed")
        \/ \E m, n \in Nodes : Relate(m, n)
        \/ \E n \in Nodes : Review(n)
        \/ \E p \in Proposals : AuthorizeSuccessor(p)
        \/ \E b \in Business : AppendBusiness(b)
    BY OtherCanonSteps
  <1> QED
    BY <1>1, <1>2, <1>3, <1>4, <1>5, <1>6, <1>7, <1>8

-----------------------------------------------------------------------------
(* The operation under way.                                                *)

Purging == ~Resting
Scanned == Scanning /\ purge.remaining = {}

\* An operation is incomplete as long as hard_purge is at work on it, and what the
\* history calls fresh was written since its scan.
OpKnown ==
    /\ Purging => /\ purge.op \in 1..MaxPurges
                  /\ ops[purge.op].status = "incomplete" /\ ops[purge.op].ids = purge.ids
    /\ ~Purging => purge.ids = {}
    /\ ~Scanning => fresh = {}

\* Only an operation that has not started gets its markers; one that finishes was scanned.
LEMMA HardPurgeOps ==
    ASSUME TypeOK, CanonInv, OpKnown, NEW scope \in Scopes, HardPurge(scope)
    PROVE  LET ids == Taken(scope) IN
           /\ OpKnown'
           /\ purge'.pc = "project" /\ purge'.ids = ids /\ purge'.remaining = {}
           /\ purge'.op \in 1..MaxPurges
           /\ ops'[purge'.op] = [status |-> "incomplete", ids |-> ids]
           /\ \A k \in 1..MaxPurges : k # purge'.op => ops'[k] = ops[k]
           /\ ops[purge'.op].status = "none"
           /\ overlap' = overlap \cup (Held \cap ids)
           /\ ids \cap Nodes = Closure(canon, scope)
  <1> DEFINE ids == Taken(scope)
  <1>1. ids \cap Nodes = Closure(canon, scope)
    BY TakenNodes DEF HardPurge
  <1>2. PICK k \in 1..MaxPurges :
          /\ ops[k].status = "none"
          /\ ops' = [ops EXCEPT ![k] = [status |-> "incomplete", ids |-> ids]]
          /\ purge' = [IdlePurge EXCEPT !.pc = "project", !.op = k, !.ids = ids]
    BY DEF HardPurge, Taken
  <1>3. overlap' = overlap \cup (Held \cap ids) /\ fresh' = fresh /\ Resting
    BY DEF HardPurge, Taken
  <1> HIDE DEF ids
  <1>4. /\ purge'.pc = "project" /\ purge'.ids = ids /\ purge'.op = k
        /\ purge'.remaining = {}
    BY <1>2 DEF IdlePurge
  <1>5. \A j \in 1..MaxPurges :
            ops'[j] = IF j = k THEN [status |-> "incomplete", ids |-> ids] ELSE ops[j]
    BY <1>2 DEF TypeOK
  <1>6. OpKnown'
    BY <1>3, <1>4, <1>5 DEF OpKnown, Purging, Resting, Scanning
  <1> QED
    BY <1>1, <1>2, <1>3, <1>4, <1>5, <1>6 DEF ids

LEMMA ScanKeeps ==
    ASSUME TypeOK, ScanStep
    PROVE  /\ UNCHANGED <<canon, pass, derive, overlap, twice>>
           /\ \A f \in Files : \/ tree'[f] = tree[f] \/ tree'[f] = {}
                               \/ f = Projection /\ purge.pc = "project"
  <1>0. tree \in [Files -> SUBSET (Ids \cup {None})]
    BY DEF TypeOK
  <1>1. UNCHANGED <<canon, pass, derive, overlap, twice>>
    BY DEF ScanStep, RewriteProjections, ListFiles, RemoveFile, ScanActiveRoot, ScanDatabase,
           FinishPurge, PurgeCrash, PurgeFails
  <1>2. CASE RewriteProjections
    BY <1>0, <1>1, <1>2 DEF RewriteProjections
  <1>3. CASE RemoveFile
    BY <1>0, <1>1, <1>3 DEF RemoveFile
  <1>4. CASE ~RewriteProjections /\ ~RemoveFile
    BY <1>1, <1>4 DEF ScanStep, ListFiles, ScanActiveRoot, ScanDatabase, FinishPurge, PurgeCrash,
                    PurgeFails
  <1> QED
    BY <1>2, <1>3, <1>4

\* The four ways in which hard_purge goes on after its transaction: it works on, it scans
\* the root and finds nothing, it completes an operation that it has scanned, or it ends;
\* a purge that a foreign key stops ends at once.
ScanCase ==
    \/ /\ UNCHANGED ops /\ purge'.op = purge.op /\ purge'.ids = purge.ids
       /\ Purging /\ Purging' /\ fresh' = fresh
       /\ \/ ~Scanning' /\ ~Scanning
          \/ Scanning /\ purge'.pc = "finish" /\ UNCHANGED tree
             /\ (Scanned' => Scanned /\ Named(canon) \cap purge.ids = {})
          \/ /\ ~Scanning /\ purge'.pc = "database" /\ UNCHANGED tree
             /\ Scanned' => \A f \in Files : tree[f] \cap purge.ids = {}
    \/ /\ purge.pc = "finish" /\ Scanned /\ purge' = IdlePurge /\ fresh' = {} /\ UNCHANGED tree
       /\ ops' = [ops EXCEPT ![purge.op].status = "complete"]
    \/ /\ purge' \in {IdlePurge, [IdlePurge EXCEPT !.pc = "failed"]}
       /\ fresh' = {} /\ UNCHANGED <<ops, tree>>

LEMMA ScanCases ==
    ASSUME TypeOK, OpKnown, ScanStep
    PROVE  ScanCase
  <1>0. /\ purge \in [pc : {"idle", "failed", "project", "list", "remove", "database", "finish"},
                  op : 0..MaxPurges, ids : SUBSET Ids, todo : SUBSET Files,
                  remaining : SUBSET Residue]
    BY DEF TypeOK
  <1>1. CASE RewriteProjections \/ ListFiles \/ RemoveFile
    <2>1. /\ purge'.op = purge.op /\ purge'.ids = purge.ids
          /\ purge.pc \in {"project", "list", "remove"} /\ purge'.pc \in {"list", "remove"}
      BY <1>0, <1>1 DEF RewriteProjections, ListFiles, RemoveFile
    <2>2. UNCHANGED <<ops, fresh>>
      BY <1>1 DEF RewriteProjections, ListFiles, RemoveFile
    <2> QED
      BY <2>1, <2>2 DEF ScanCase, Purging, Resting, Scanning
  <1>2. CASE ScanActiveRoot
    <2>1. /\ purge'.op = purge.op /\ purge'.ids = purge.ids
          /\ purge.pc = "remove" /\ purge'.pc = "database"
          /\ {f \in Files : Owned(f) /\ Marked(f, purge.ids)} \subseteq purge'.remaining
          /\ UNCHANGED <<ops, fresh, tree>>
      BY <1>0, <1>2 DEF ScanActiveRoot
    <2>2. Scanned' => \A f \in Files : tree[f] \cap purge.ids = {}
      BY <2>1 DEF Scanned, Owned, Marked
    <2> QED
      BY <2>1, <2>2 DEF ScanCase, Purging, Resting, Scanning
  <1>3. CASE ScanDatabase
    <2>1. /\ purge'.op = purge.op /\ purge'.ids = purge.ids
          /\ purge.pc = "database" /\ purge'.pc = "finish"
          /\ purge'.remaining = purge.remaining \cup (IF Named(canon) \cap purge.ids # {}
                                                      THEN {Database} ELSE {})
          /\ UNCHANGED <<ops, fresh, tree>>
      BY <1>0, <1>3 DEF ScanDatabase
    <2>2. Scanned' => Scanned /\ Named(canon) \cap purge.ids = {}
      BY <2>1 DEF Scanned, Scanning
    <2> QED
      BY <2>1, <2>2 DEF ScanCase, Purging, Resting, Scanning
  <1>4. CASE FinishPurge
    <2>1. CASE purge.remaining = {}
      BY <1>4, <2>1 DEF FinishPurge, ScanCase, Scanned, Scanning
    <2>2. CASE purge.remaining # {}
      <3>1. ops' = [ops EXCEPT ![purge.op].status = "incomplete"]
        BY <1>4, <2>2 DEF FinishPurge
      <3>2. ops[purge.op].status = "incomplete" /\ purge.op \in 1..MaxPurges
        BY <1>4 DEF FinishPurge, OpKnown, Purging, Resting
      <3>3. ops' = ops
        BY <3>1, <3>2 DEF TypeOK
      <3> QED
        BY <1>4, <3>3 DEF FinishPurge, ScanCase
    <2> QED
      BY <2>1, <2>2
  <1>5. CASE PurgeCrash
    BY <1>5 DEF PurgeCrash, ScanCase
  <1>6. ASSUME NEW scope \in Scopes, PurgeFails(scope) PROVE ScanCase
    <2>1. ~Scanning
      BY <1>6 DEF PurgeFails, Resting, Scanning
    <2> QED
      BY <1>6, <2>1 DEF PurgeFails, ScanCase, OpKnown
  <1> QED
    BY <1>1, <1>2, <1>3, <1>4, <1>5, <1>6 DEF ScanStep

LEMMA ScanOpKnown ==
    ASSUME TypeOK, OpKnown, ScanStep
    PROVE  OpKnown'
  <1>1. CASE /\ UNCHANGED ops /\ purge'.op = purge.op /\ purge'.ids = purge.ids
             /\ Purging /\ Purging' /\ fresh' = fresh
             /\ Scanning => Scanning'
    BY <1>1 DEF OpKnown
  <1>2. CASE purge' \in {IdlePurge, [IdlePurge EXCEPT !.pc = "failed"]} /\ fresh' = {}
    BY <1>2 DEF OpKnown, Purging, Resting, IdlePurge
  <1> QED
    BY <1>1, <1>2, ScanCases DEF ScanCase, Scanning

LEMMA OtherOpKnown ==
    ASSUME TypeOK, CurKnown, OpKnown, OtherStep
    PROVE  OpKnown'
  <1>1. UNCHANGED <<purge, ops>> /\ (~Scanning => fresh' = fresh)
    BY OthersKeep, OthersWrite, FileEffect
  <1> QED
    BY <1>1 DEF OpKnown, Purging, Resting, Scanning

\* The status of the operations after a step of the scan.
LEMMA ScanStatus ==
    ASSUME TypeOK, OpKnown, ScanStep
    PROVE  \A k \in 1..MaxPurges :
              /\ ops'[k].ids = ops[k].ids
              /\ \/ ops'[k].status = ops[k].status
                 \/ /\ k = purge.op /\ purge.pc = "finish" /\ Scanned /\ purge' = IdlePurge
                    /\ ops'[k].status = "complete"
  <1>1. CASE UNCHANGED ops
    BY <1>1
  <1>2. CASE /\ purge.pc = "finish" /\ Scanned /\ purge' = IdlePurge
             /\ ops' = [ops EXCEPT ![purge.op].status = "complete"]
    <2>1. \A k \in 1..MaxPurges : ops'[k] = IF k = purge.op THEN [ops[k] EXCEPT !.status = "complete"]
                                                             ELSE ops[k]
      BY <1>2 DEF TypeOK
    <2>2. \A k \in 1..MaxPurges : ops[k] \in [status : {"none", "incomplete", "complete"},
                                              ids : SUBSET Ids]
      BY DEF TypeOK
    <2> QED
      BY <1>2, <2>1, <2>2
  <1> QED
    BY <1>1, <1>2, ScanCases DEF ScanCase

-----------------------------------------------------------------------------
(* No return.  A capture that a purge took is neither in the canon nor in  *)
(* the hands of a pass unless the history says so, from the transaction    *)
(* on; and once the root was scanned and found clean it is not in the      *)
(* spool, where nobody puts it again.                                      *)

Active(k) == Purged(k) \/ (Purging /\ purge.op = k)

OffTheCanon ==
    \A k \in 1..MaxPurges : Active(k) =>
        \A c \in Captures \cap ops[k].ids : c \notin overlap =>
            c \notin canon.consumed /\ \A q \in Passes : c \notin pass[q].todo

SpoolGone ==
    \A k \in 1..MaxPurges : (Purged(k) \/ (Scanned /\ purge.op = k)) =>
        \A c \in Captures \cap ops[k].ids : tree[Spool(c)] = {}

SpoolNamed == \A c \in Captures : tree[Spool(c)] # {} => c \in tree[Spool(c)]

NoReturnInv == OffTheCanon /\ SpoolGone /\ SpoolNamed

LEMMA HeldByPass ==
    ASSUME NEW q \in Passes
    PROVE  pass[q].todo \subseteq Held
  <1>1. (pass[q].todo \cup pass[q].done) \in {pass[r].todo \cup pass[r].done : r \in Passes}
    BY Zenon
  <1>2. pass[q].todo \subseteq UNION {pass[r].todo \cup pass[r].done : r \in Passes}
    BY <1>1
  <1> QED
    BY <1>2 DEF Held

LEMMA HardPurgeNoReturn ==
    ASSUME TypeOK, CanonInv, OpKnown, NoReturnInv, NEW scope \in Scopes, HardPurge(scope)
    PROVE  NoReturnInv'
  <1> DEFINE ids == Taken(scope)
  <1>1. /\ purge'.pc = "project" /\ purge'.op \in 1..MaxPurges
        /\ ops'[purge'.op] = [status |-> "incomplete", ids |-> ids]
        /\ \A k \in 1..MaxPurges : k # purge'.op => ops'[k] = ops[k]
        /\ overlap' = overlap \cup (Held \cap ids)
        /\ ids \cap Nodes = Closure(canon, scope)
    BY HardPurgeOps
  <1>2. canon'.consumed = canon.consumed \ ids
    <2>1. canon'.consumed = canon.consumed \ Closure(canon, scope) /\ canon.consumed \subseteq Nodes
      BY PurgedCanon, CanonType, NodeSets
    <2> HIDE DEF ids
    <2> QED
      BY <1>1, <2>1
  <1>3. UNCHANGED <<tree, pass>> /\ Resting
    BY DEF HardPurge
  <1> HIDE DEF ids
  <1>4. OffTheCanon'
    <2> SUFFICES ASSUME NEW k \in 1..MaxPurges, Active(k)', NEW c \in Captures, c \in ops'[k].ids,
                        c \notin overlap'
                 PROVE  c \notin canon'.consumed /\ \A q \in Passes : c \notin pass'[q].todo
      BY DEF OffTheCanon
    <2>1. CASE k = purge'.op
      <3>1. c \in ids /\ c \notin Held
        BY <1>1, <2>1
      <3>2. \A q \in Passes : pass[q].todo \subseteq Held
        BY HeldByPass
      <3> QED
        BY <1>2, <1>3, <3>1, <3>2
    <2>2. CASE k # purge'.op
      <3>1. Active(k) /\ c \in ops[k].ids /\ c \notin overlap
        BY <1>1, <2>2 DEF Active, Purged
      <3> QED
        BY <1>2, <1>3, <3>1 DEF NoReturnInv, OffTheCanon
    <2> QED
      BY <2>1, <2>2
  <1>5. SpoolGone'
    <2> SUFFICES ASSUME NEW k \in 1..MaxPurges, Purged(k)' \/ (Scanned' /\ purge'.op = k),
                        NEW c \in Captures, c \in ops'[k].ids
                 PROVE  tree'[Spool(c)] = {}
      BY DEF SpoolGone
    <2>1. ~Scanned'
      BY <1>1 DEF Scanned, Scanning
    <2>2. k # purge'.op
      BY <1>1, <2>1 DEF Purged
    <2> QED
      BY <1>1, <1>3, <2>1, <2>2 DEF NoReturnInv, SpoolGone, Purged
  <1>6. SpoolNamed'
    BY <1>3 DEF NoReturnInv, SpoolNamed
  <1> QED
    BY <1>4, <1>5, <1>6 DEF NoReturnInv

LEMMA ScanNoReturn ==
    ASSUME TypeOK, OpKnown, NoReturnInv, ScanStep
    PROVE  NoReturnInv'
  <1>1. /\ UNCHANGED <<canon, pass, overlap>>
        /\ \A c \in Captures : tree'[Spool(c)] = tree[Spool(c)] \/ tree'[Spool(c)] = {}
    BY ScanKeeps, FileNames, FileDistinct
  <1>2. \A k \in 1..MaxPurges :
            /\ ops'[k].ids = ops[k].ids
            /\ \/ ops'[k].status = ops[k].status
               \/ /\ k = purge.op /\ purge.pc = "finish" /\ Scanned /\ purge' = IdlePurge
                  /\ ops'[k].status = "complete"
    BY ScanStatus
  <1>3. \A k \in 1..MaxPurges : Active(k)' => Active(k)
    <2>1. Purging' => Purging /\ purge'.op = purge.op
      BY ScanCases DEF ScanCase, Purging, Resting, IdlePurge
    <2>2. purge.pc = "finish" => Purging
      BY DEF Purging, Resting
    <2> QED
      BY <1>2, <2>1, <2>2 DEF Active, Purged
  <1>4. OffTheCanon'
    BY <1>1, <1>2, <1>3 DEF NoReturnInv, OffTheCanon
  <1>5. SpoolGone'
    <2> SUFFICES ASSUME NEW k \in 1..MaxPurges, Purged(k)' \/ (Scanned' /\ purge'.op = k),
                        NEW c \in Captures, c \in ops'[k].ids
                 PROVE  tree'[Spool(c)] = {}
      BY DEF SpoolGone
    <2>1. c \in ops[k].ids
      BY <1>2
    <2>2. CASE Purged(k)'
      BY <1>1, <1>2, <2>1, <2>2 DEF Purged, NoReturnInv, SpoolGone
    <2>3. CASE Scanned' /\ purge'.op = k /\ Scanned /\ purge.op = k
      BY <1>1, <2>1, <2>3 DEF NoReturnInv, SpoolGone
    <2>4. CASE /\ Scanned' /\ purge'.op = k /\ purge.op = k /\ Purging /\ UNCHANGED tree
               /\ \A f \in Files : tree[f] \cap purge.ids = {}
      <3>1. c \in purge.ids
        BY <2>1, <2>4 DEF OpKnown
      <3>2. tree[Spool(c)] \cap purge.ids = {}
        BY <2>4, FileNames
      <3>3. tree[Spool(c)] # {} => c \in tree[Spool(c)]
        BY DEF NoReturnInv, SpoolNamed
      <3> QED
        BY <2>4, <3>1, <3>2, <3>3
    <2>5. Scanned' => \/ Scanned /\ purge.op = purge'.op
                      \/ /\ purge'.op = purge.op /\ Purging /\ UNCHANGED tree
                         /\ \A f \in Files : tree[f] \cap purge.ids = {}
      BY ScanCases DEF ScanCase, Scanned, Scanning, IdlePurge
    <2> QED
      BY <2>2, <2>3, <2>4, <2>5
  <1>6. SpoolNamed'
    BY <1>1 DEF NoReturnInv, SpoolNamed
  <1> QED
    BY <1>4, <1>5, <1>6 DEF NoReturnInv

LEMMA OtherNoReturn ==
    ASSUME TypeOK, CurKnown, CanonInv, CanonInv', OpKnown, NoReturnInv, OtherStep
    PROVE  NoReturnInv'
  <1>1. UNCHANGED <<purge, ops>> /\ overlap \subseteq overlap'
    BY OthersKeep
  <1>2. \A c \in Captures :
            \/ tree'[Spool(c)] = tree[Spool(c)]
            \/ c \in tree'[Spool(c)] /\ \A k \in 1..MaxPurges : c \notin ops[k].ids
    BY OthersWrite, FileEffect
  <1>3. OffTheCanon'
    <2> SUFFICES ASSUME NEW k \in 1..MaxPurges, Active(k), NEW c \in Captures, c \in ops[k].ids,
                        c \notin overlap'
                 PROVE  c \notin canon'.consumed /\ \A q \in Passes : c \notin pass'[q].todo
      BY <1>1 DEF OffTheCanon, Active, Purged, Purging, Resting
    <2>1. c \notin canon.consumed /\ \A q \in Passes : c \notin pass[q].todo
      BY <1>1 DEF NoReturnInv, OffTheCanon
    <2>2. c \notin canon'.consumed
      <3>1. c \notin canon.nodes
        BY <2>1 DEF CanonInv, ForeignKeysHold
      <3>2. ~NodeStep(c)
        <4>1. /\ c \notin Proposals /\ c \notin Successors /\ c \notin Items /\ c \notin Business
          BY PurgeAssumption
        <4>2. \A p \in Proposals : SuccessorOf[p] \in Successors
          BY PurgeAssumption
        <4>3. \A v \in Derivers : derive[v].pc = "append" => derive[v].cur \in Proposals
          BY DEF CurKnown, Working
        <4> QED
          BY <2>1, <4>1, <4>2, <4>3 DEF NodeStep
      <3>3. c \notin canon'.nodes
        BY <3>1, <3>2, OthersAdd
      <3> QED
        BY <3>3 DEF CanonInv, ForeignKeysHold
    <2>3. \A q \in Passes : c \notin pass'[q].todo
      <3>1. Exists(Spool(c)) => c \in purge.ids
        BY DEF Active, NoReturnInv, SpoolGone, Exists, OpKnown
      <3> QED
        BY <2>1, <3>1, OthersRead
    <2> QED
      BY <2>2, <2>3
  <1>4. SpoolGone'
    BY <1>1, <1>2 DEF NoReturnInv, SpoolGone, Purged, Scanned, Scanning
  <1>5. SpoolNamed'
    BY <1>2 DEF NoReturnInv, SpoolNamed
  <1> QED
    BY <1>3, <1>4, <1>5 DEF NoReturnInv

\* The invariant that every further proof about the purge rests on.
BaseInv == TypeOK /\ CurKnown /\ CanonInv /\ OpKnown

LEMMA InitBase == Init => BaseInv
  <1>1. Init => OpKnown
    BY DEF Init, OpKnown, Purging, Resting, Scanning, IdlePurge
  <1> QED
    BY <1>1, InitType, InitCanonInv DEF BaseInv

LEMMA NextBase == BaseInv /\ [Next]_vars => BaseInv'
  <1> SUFFICES ASSUME BaseInv, [Next]_vars PROVE BaseInv'
    OBVIOUS
  <1>1. TypeOK' /\ CurKnown' /\ CanonInv'
    BY NextType, NextCanonInv DEF BaseInv
  <1>2. OpKnown'
    BY StepKinds, HardPurgeOps, ScanOpKnown, OtherOpKnown DEF BaseInv
  <1> QED
    BY <1>1, <1>2 DEF BaseInv

LEMMA NextNoReturn == BaseInv /\ BaseInv' /\ NoReturnInv /\ [Next]_vars => NoReturnInv'
  BY StepKinds, HardPurgeNoReturn, ScanNoReturn, OtherNoReturn DEF BaseInv

LEMMA InitNoReturn == Init => NoReturnInv
  BY FileNames DEF Init, NoReturnInv, OffTheCanon, SpoolGone, SpoolNamed, Active, Purged, Purging,
                  Resting, Scanned, Scanning, IdlePurge

\* A capture that a completed purge took is in the canon again only if a compiler pass
\* held it while the purge was under way: purge.py takes no lease, but its scan and the
\* identities it keeps leave a later pass nothing to find.
THEOREM PurgedStaysAway == Spec => []NoReturn
  <1>1. NoReturnInv => NoReturn
    BY DEF NoReturnInv, OffTheCanon, NoReturn, Active
  <1>2. Spec => []BaseInv
    BY InitBase, NextBase, PTL DEF Spec
  <1> QED
    BY <1>1, <1>2, InitNoReturn, NextNoReturn, PTL DEF Spec

-----------------------------------------------------------------------------
(* Receipts.  A receipt that says accepted stands beside its node, unless  *)
(* the proposal was purged by an operation that did not complete or while  *)
(* a derive had it in hand.  A derive that has a proposal in hand alone    *)
(* finds no receipt that says rejected, and rejects no proposal that has a *)
(* node.                                                                   *)

\* Once the root was found clean, what names an identity of the purge is fresh.
FilesClean == Scanned => \A f \in Files : tree[f] \cap purge.ids # {} => f \in fresh

\* The history notes a proposal in hand if the purge names it, or if two derives have it.
HeldNoted ==
    \A v \in Derivers : Working(v) /\ derive[v].cur \in purge.ids => derive[v].cur \in overlap

TwiceNoted ==
    \A v, w \in Derivers :
        v # w /\ Working(v) /\ Working(w) /\ derive[v].cur = derive[w].cur => derive[v].cur \in twice

ReceiptNamed == \A p \in Proposals : tree[Receipt(p)] \in {{}, Accepted(p), Rejected}

Lost(p) ==
    p \in overlap \/ \E k \in 1..MaxPurges : ops[k].status = "incomplete" /\ p \in ops[k].ids

ReceiptTrue ==
    \A p \in Proposals : tree[Receipt(p)] = Accepted(p) => p \in canon.nodes \/ Lost(p)

FreshReceipt == \A p \in Proposals \cap purge.ids : Receipt(p) \in fresh => p \in overlap

ToWrite ==
    \A v \in Derivers : derive[v].pc = "receipt" =>
        IF derive[v].accepted THEN derive[v].cur \in canon.nodes \/ derive[v].cur \in overlap
                              ELSE derive[v].cur \notin canon.nodes \/ derive[v].cur \in twice

NotRejected ==
    \A v \in Derivers : Working(v) =>
        tree[Receipt(derive[v].cur)] # Rejected \/ derive[v].cur \in twice

ReceiptInv ==
    /\ FilesClean /\ HeldNoted /\ TwiceNoted /\ ReceiptNamed /\ ReceiptTrue
    /\ FreshReceipt /\ ToWrite /\ NotRejected

LEMMA ReceiptValues ==
    ASSUME NEW p \in Proposals
    PROVE  /\ Accepted(p) # {} /\ Rejected # {} /\ Accepted(p) # Rejected /\ p \in Accepted(p)
  <1>1. p # None
    BY PurgeAssumption, NodeSets
  <1> QED
    BY <1>1 DEF Accepted, Rejected

\* At most one derive moves in a step.
DeriverStep(v) ==
    \/ \E p \in Proposals : SkipPending(v, p) \/ ReadPending(v, p)
    \/ StartDerive(v) \/ AppendProposal(v) \/ WriteReceipt(v) \/ EndDerive(v)

LEMMA OneDerives ==
    ASSUME TypeOK, OtherStep
    PROVE  \/ UNCHANGED derive
           \/ \E v \in Derivers :
                DeriverStep(v) /\ \A w \in Derivers : w # v => derive'[w] = derive[w]
  <1>0. derive \in [Derivers -> Deriver]
    BY DEF TypeOK, Deriver
  <1>1. CASE UNCHANGED vars \/ CaptureStep \/ StoreStep
    BY <1>1 DEF vars, CaptureStep, NewEnvelope, ReadSpool, ApplyCapture, Acknowledge, StoreStep,
                ScanItem, RuleItem, Relate, Review, AuthorizeSuccessor, AppendBusiness, TakeBackup,
                LeaveOrphan
  <1>2. ASSUME NEW p \in Proposals, SubmitProposal(p) PROVE UNCHANGED derive
    BY <1>2 DEF SubmitProposal
  <1>3. ASSUME NEW v \in Derivers, DeriverStep(v), NEW w \in Derivers, w # v
        PROVE  derive'[w] = derive[w]
    <2>1. \E new : derive' = [derive EXCEPT ![v] = new]
      <3>1. ASSUME NEW p \in Proposals, SkipPending(v, p) \/ ReadPending(v, p)
            PROVE  \E new : derive' = [derive EXCEPT ![v] = new]
        BY <3>1 DEF SkipPending, ReadPending
      <3>2. CASE StartDerive(v) \/ EndDerive(v)
        BY <3>2 DEF StartDerive, EndDerive
      <3>3. CASE AppendProposal(v)
        BY <3>3 DEF AppendProposal
      <3>4. CASE WriteReceipt(v)
        BY <3>4 DEF WriteReceipt
      <3> QED
        BY <1>3, <3>1, <3>2, <3>3, <3>4 DEF DeriverStep
    <2> QED
      BY <1>0, <1>3, <2>1
  <1> QED
    BY <1>1, <1>2, <1>3 DEF OtherStep, DeriveStep, DeriverStep

\* What a derive's step does to its place and to the proposal it has in hand.
LEMMA SkipMoves ==
    ASSUME TypeOK, NEW v \in Derivers, NEW p \in Proposals, SkipPending(v, p)
    PROVE  derive'[v].pc = "next"
  BY DEF SkipPending, TypeOK

LEMMA ReadMoves ==
    ASSUME TypeOK, NEW v \in Derivers, NEW p \in Proposals, ReadPending(v, p)
    PROVE  derive'[v].pc = "append" /\ derive'[v].cur = p
  BY DEF ReadPending, TypeOK

LEMMA StartMoves ==
    ASSUME TypeOK, NEW v \in Derivers, StartDerive(v)
    PROVE  derive'[v].pc = "next"
  <1> DEFINE todo == {p \in Proposals : Exists(Pending(p))}
             new == [IdleDerive EXCEPT !.pc = "next", !.todo = todo]
  <1>1. derive' = [derive EXCEPT ![v] = new]
    BY DEF StartDerive
  <1>2. new.pc = "next"
    BY DEF IdleDerive
  <1> HIDE DEF new
  <1> QED
    BY <1>1, <1>2 DEF TypeOK

LEMMA EndMoves ==
    ASSUME TypeOK, NEW v \in Derivers, EndDerive(v)
    PROVE  derive'[v].pc = "idle"
  BY DEF EndDerive, IdleDerive, TypeOK

LEMMA AppendMoves ==
    ASSUME TypeOK, NEW v \in Derivers, AppendProposal(v)
    PROVE  /\ derive[v].pc = "append" /\ derive'[v].pc = "receipt"
           /\ derive'[v].cur = derive[v].cur /\ UNCHANGED tree
           /\ IF derive'[v].accepted THEN derive[v].cur \in canon'.nodes
                                     ELSE derive[v].cur \notin canon'.nodes
  <1> DEFINE cur == derive[v].cur
             ok == cur \in canon.nodes \/ Derivable(canon, cur)
  <1>1. /\ derive[v].pc = "append" /\ UNCHANGED tree
        /\ derive' = [derive EXCEPT ![v].pc = "receipt", ![v].accepted = ok]
        /\ canon' = IF ok THEN [canon EXCEPT !.nodes = @ \cup {cur}, !.events = @ \cup {cur}]
                          ELSE canon
    BY DEF AppendProposal, Commit
  <1>2. derive'[v].pc = "receipt" /\ derive'[v].cur = cur /\ derive'[v].accepted = ok
    BY <1>1 DEF TypeOK
  <1>3. CASE ok
    <2>1. cur \in canon'.nodes
      BY <1>1, <1>3 DEF TypeOK, Canon
    <2> QED
      BY <1>1, <1>2, <1>3, <2>1
  <1>4. CASE ~ok
    BY <1>1, <1>2, <1>4
  <1> QED
    BY <1>3, <1>4

LEMMA ReceiptMoves ==
    ASSUME TypeOK, NEW v \in Derivers, WriteReceipt(v)
    PROVE  \/ derive'[v].pc = "next"
           \/ /\ derive'[v].pc = "aborted"
              /\ tree[Receipt(derive[v].cur)] \notin
                    {{}, IF derive[v].accepted THEN Accepted(derive[v].cur) ELSE Rejected}
  <1>1. CASE derive' = [derive EXCEPT ![v].pc = "next", ![v].cur = None, ![v].accepted = FALSE]
    BY <1>1 DEF TypeOK
  <1>2. ASSUME derive' = [derive EXCEPT ![v] = [IdleDerive EXCEPT !.pc = "aborted"]]
        PROVE  derive'[v].pc = "aborted"
    BY <1>2 DEF TypeOK, IdleDerive
  <1> QED
    BY <1>1, <1>2 DEF WriteReceipt

\* How a derive has a proposal in hand after a step: it had it before, it has settled
\* whether it is accepted, or it has just read it.
LEMMA OthersDerive ==
    ASSUME TypeOK, CurKnown, OtherStep, NEW v \in Derivers, Working(v)'
    PROVE  \/ derive'[v] = derive[v]
           \/ /\ derive[v].pc = "append" /\ derive'[v].pc = "receipt"
              /\ derive'[v].cur = derive[v].cur /\ UNCHANGED tree
              /\ IF derive'[v].accepted THEN derive[v].cur \in canon'.nodes
                                        ELSE derive[v].cur \notin canon'.nodes
           \/ /\ derive'[v].pc = "append" /\ derive'[v].cur \in Proposals
              /\ UNCHANGED tree /\ tree[Receipt(derive'[v].cur)] # Rejected
              /\ derive'[v].cur \in purge.ids => derive'[v].cur \in overlap'
              /\ \A w \in Derivers : w # v =>
                    /\ derive'[w] = derive[w]
                    /\ Working(w) /\ derive[w].cur = derive'[v].cur => derive'[v].cur \in twice'
  <1>1. CASE derive'[v] = derive[v]
    BY <1>1
  <1>2. CASE /\ DeriverStep(v) /\ \A w \in Derivers : w # v => derive'[w] = derive[w]
    <2>1. CASE AppendProposal(v)
      BY <2>1, AppendMoves
    <2>2. ASSUME NEW p \in Proposals, ReadPending(v, p)
          PROVE  /\ derive'[v].pc = "append" /\ derive'[v].cur \in Proposals
                 /\ UNCHANGED tree /\ tree[Receipt(derive'[v].cur)] # Rejected
                 /\ derive'[v].cur \in purge.ids => derive'[v].cur \in overlap'
                 /\ \A w \in Derivers :
                      (w # v /\ Working(w) /\ derive[w].cur = derive'[v].cur) =>
                        derive'[v].cur \in twice'
      <3>1. derive'[v].pc = "append" /\ derive'[v].cur = p
        BY <2>2, ReadMoves
      <3>2. /\ ~PassedOver(p) /\ UNCHANGED tree
            /\ overlap' = overlap \cup ({p} \cap purge.ids)
            /\ twice' = twice \cup {q \in {p} : \E w \in Derivers \ {v} :
                                                    Working(w) /\ derive[w].cur = q}
        BY <2>2 DEF ReadPending
      <3> QED
        BY <3>1, <3>2 DEF PassedOver
    <2>3. ASSUME NEW p \in Proposals PROVE ~SkipPending(v, p)
      BY SkipMoves DEF Working
    <2>4. ~StartDerive(v) /\ ~EndDerive(v) /\ ~WriteReceipt(v)
      BY StartMoves, EndMoves, ReceiptMoves DEF Working
    <2>5. AppendProposal(v) \/ \E p \in Proposals : ReadPending(v, p)
      BY <1>2, <2>3, <2>4 DEF DeriverStep
    <2> QED
      BY <1>2, <2>1, <2>2, <2>5
  <1> QED
    BY <1>1, <1>2, OneDerives

\* Only a purge takes nodes away.
LEMMA OthersKeepNodes ==
    ASSUME TypeOK, CurKnown, OtherStep
    PROVE  canon.nodes \subseteq canon'.nodes
  <1>0. canon \in Canon
    BY DEF TypeOK
  <1>1. ASSUME NEW q \in Passes, NEW c \in Captures, ApplyCapture(q, c)
        PROVE  canon.nodes \subseteq canon'.nodes
    BY <1>0, <1>1 DEF ApplyCapture, Commit, Captured, Canon
  <1>2. ASSUME NEW v \in Derivers, AppendProposal(v)
        PROVE  canon.nodes \subseteq canon'.nodes
    BY <1>0, <1>2 DEF AppendProposal, Commit, Canon
  <1>3. ASSUME NEW i \in Items, NEW v, ScanItem(i) \/ RuleItem(i, v)
        PROVE  canon.nodes \subseteq canon'.nodes
    BY <1>0, <1>3 DEF ScanItem, RuleItem, Commit, Canon
  <1>4. ASSUME NEW m \in Nodes, NEW n \in Nodes, Relate(m, n) \/ Review(n)
        PROVE  canon.nodes \subseteq canon'.nodes
    BY <1>0, <1>4 DEF Relate, Review, Commit, Canon
  <1>5. ASSUME NEW p \in Proposals, AuthorizeSuccessor(p)
        PROVE  canon.nodes \subseteq canon'.nodes
    BY <1>0, <1>5 DEF AuthorizeSuccessor, Commit, Canon
  <1>6. ASSUME NEW b \in Business, AppendBusiness(b)
        PROVE  canon.nodes \subseteq canon'.nodes
    BY <1>0, <1>6 DEF AppendBusiness, Commit, Canon
  <1> QED
    BY <1>1, <1>2, <1>3, <1>4, <1>5, <1>6, OtherCanonSteps

LEMMA HardPurgeReceipts ==
    ASSUME TypeOK, CurKnown, CanonInv, OpKnown, ReceiptInv, NEW scope \in Scopes, HardPurge(scope)
    PROVE  ReceiptInv'
  <1> DEFINE ids == Taken(scope)
  <1>1. /\ purge'.pc = "project" /\ purge'.op \in 1..MaxPurges /\ purge'.ids = ids
        /\ ops'[purge'.op] = [status |-> "incomplete", ids |-> ids]
        /\ \A k \in 1..MaxPurges : k # purge'.op => ops'[k] = ops[k]
        /\ ops[purge'.op].status = "none"
        /\ overlap' = overlap \cup (Held \cap ids)
        /\ ids \cap Nodes = Closure(canon, scope)
    BY HardPurgeOps
  <1>2. canon'.nodes = canon.nodes \ ids
    <2>1. canon'.nodes = canon.nodes \ Closure(canon, scope) /\ canon.nodes \subseteq Nodes
      BY PurgedCanon, CanonType
    <2> HIDE DEF ids
    <2> QED
      BY <1>1, <2>1
  <1>3. UNCHANGED <<tree, derive, fresh, twice>> /\ fresh = {}
    BY DEF HardPurge, OpKnown, Resting, Scanning
  <1> HIDE DEF ids
  <1>4. \A v \in Derivers : Working(v) => derive[v].cur \in Held
    BY DEF Held
  <1>5. FilesClean' /\ FreshReceipt'
    BY <1>1, <1>3 DEF FilesClean, Scanned, Scanning, FreshReceipt
  <1>6. HeldNoted'
    BY <1>1, <1>3, <1>4 DEF HeldNoted, Working
  <1>7. ReceiptNamed' /\ NotRejected' /\ TwiceNoted'
    BY <1>3 DEF ReceiptInv, ReceiptNamed, NotRejected, TwiceNoted, Working
  <1>8. ReceiptTrue'
    <2> SUFFICES ASSUME NEW p \in Proposals, tree[Receipt(p)] = Accepted(p)
                 PROVE  p \in canon'.nodes \/ Lost(p)'
      BY <1>3 DEF ReceiptTrue
    <2>1. p \in canon.nodes \/ Lost(p)
      BY DEF ReceiptInv, ReceiptTrue
    <2>2. Lost(p) => Lost(p)'
      BY <1>1 DEF Lost
    <2>3. p \in ids => Lost(p)'
      BY <1>1 DEF Lost
    <2> QED
      BY <1>2, <2>1, <2>2, <2>3
  <1>9. ToWrite'
    BY <1>1, <1>2, <1>3, <1>4 DEF ReceiptInv, ToWrite, Working
  <1> QED
    BY <1>5, <1>6, <1>7, <1>8, <1>9 DEF ReceiptInv

LEMMA ScanReceipts ==
    ASSUME TypeOK, CurKnown, OpKnown, ReceiptInv, ScanStep
    PROVE  ReceiptInv'
  <1>1. /\ UNCHANGED <<canon, pass, derive, overlap, twice>>
        /\ \A p \in Proposals : tree'[Receipt(p)] = tree[Receipt(p)] \/ tree'[Receipt(p)] = {}
    <2>1. \A p \in Proposals : Receipt(p) \in Files /\ Receipt(p) # Projection
      BY FileNames, FileDistinct
    <2> QED
      BY <2>1, ScanKeeps
  <1>2. \A k \in 1..MaxPurges :
            /\ ops'[k].ids = ops[k].ids
            /\ \/ ops'[k].status = ops[k].status
               \/ /\ k = purge.op /\ purge.pc = "finish" /\ Scanned /\ purge' = IdlePurge
                  /\ ops'[k].status = "complete"
    BY ScanStatus
  <1>3. (purge'.ids = purge.ids /\ fresh' = fresh) \/ (purge'.ids = {} /\ fresh' = {})
    BY ScanCases DEF ScanCase, IdlePurge
  <1>4. FilesClean'
    <2> SUFFICES ASSUME Scanned' PROVE \A f \in Files : tree'[f] \cap purge'.ids # {} => f \in fresh'
      BY DEF FilesClean
    <2>1. /\ UNCHANGED tree /\ purge'.ids = purge.ids /\ fresh' = fresh
          /\ Scanned \/ \A f \in Files : tree[f] \cap purge.ids = {}
      BY ScanCases DEF ScanCase, Scanned, Scanning, IdlePurge
    <2> QED
      BY <2>1 DEF ReceiptInv, FilesClean
  <1>5. HeldNoted' /\ FreshReceipt' /\ TwiceNoted'
    BY <1>1, <1>3 DEF ReceiptInv, HeldNoted, Working, FreshReceipt, TwiceNoted
  <1>6. ReceiptNamed'
    BY <1>1 DEF ReceiptInv, ReceiptNamed
  <1>7. ReceiptTrue'
    <2> SUFFICES ASSUME NEW p \in Proposals, tree'[Receipt(p)] = Accepted(p), p \notin canon.nodes
                 PROVE  Lost(p)'
      BY <1>1 DEF ReceiptTrue
    <2>1. tree[Receipt(p)] = Accepted(p)
      BY <1>1, ReceiptValues
    <2>2. Lost(p)
      BY <2>1 DEF ReceiptInv, ReceiptTrue
    <2>3. CASE p \in overlap
      BY <1>1, <2>3 DEF Lost
    <2>4. ASSUME NEW k \in 1..MaxPurges, ops[k].status = "incomplete", p \in ops[k].ids
          PROVE  Lost(p)'
      <3>1. CASE ops'[k].status = ops[k].status
        BY <1>2, <2>4, <3>1 DEF Lost
      <3>2. CASE k = purge.op /\ purge.pc = "finish" /\ Scanned
        <4>1. p \in purge.ids
          BY <2>4, <3>2 DEF OpKnown, Purging, Resting
        <4>2. Receipt(p) \in fresh
          <5>1. p \in tree[Receipt(p)] \cap purge.ids
            BY <2>1, <4>1, ReceiptValues
          <5> QED
            BY <3>2, <5>1, FileNames DEF ReceiptInv, FilesClean
        <4>3. p \in overlap
          BY <4>1, <4>2 DEF ReceiptInv, FreshReceipt
        <4> QED
          BY <1>1, <4>3 DEF Lost
      <3> QED
        BY <1>2, <3>1, <3>2
    <2> QED
      BY <2>2, <2>3, <2>4 DEF Lost
  <1>8. ToWrite'
    BY <1>1 DEF ReceiptInv, ToWrite
  <1>9. NotRejected'
    BY <1>1, ReceiptValues DEF ReceiptInv, NotRejected, Working, CurKnown
  <1> QED
    BY <1>4, <1>5, <1>6, <1>7, <1>8, <1>9 DEF ReceiptInv

LEMMA OtherReceipts ==
    ASSUME TypeOK, CurKnown, CurKnown', CanonInv, OpKnown, ReceiptInv, OtherStep
    PROVE  ReceiptInv'
  <1>1. /\ UNCHANGED <<purge, ops>> /\ overlap \subseteq overlap' /\ twice \subseteq twice'
        /\ canon.nodes \subseteq canon'.nodes
    BY OthersKeep, OthersKeepNodes
  <1>2. /\ \A f \in Files : Noted(f)
        /\ fresh \subseteq fresh'
        /\ \A p \in Proposals :
             \/ /\ tree'[Receipt(p)] = tree[Receipt(p)]
                /\ Receipt(p) \in fresh' => Receipt(p) \in fresh
             \/ \E v \in Derivers :
                  /\ derive[v].pc = "receipt" /\ derive'[v].pc = "next" /\ derive[v].cur = p
                  /\ tree'[Receipt(p)] = IF derive[v].accepted THEN Accepted(p) ELSE Rejected
    BY OthersWrite, FileEffect
  <1>3. FilesClean'
    BY <1>1, <1>2 DEF ReceiptInv, FilesClean, Scanned, Scanning, Noted
  <1>4. HeldNoted'
    <2> SUFFICES ASSUME NEW v \in Derivers, Working(v)', derive'[v].cur \in purge.ids
                 PROVE  derive'[v].cur \in overlap'
      BY <1>1 DEF HeldNoted
    <2>1. HeldNoted
      BY DEF ReceiptInv
    <2> QED
      BY <1>1, <2>1, OthersDerive DEF HeldNoted, Working
  <1>5. TwiceNoted'
    <2>0. ASSUME NEW v \in Derivers, Working(v)'
          PROVE  \/ Working(v) /\ derive'[v].cur = derive[v].cur
                 \/ \A w \in Derivers : w # v =>
                      /\ derive'[w] = derive[w]
                      /\ Working(w) /\ derive[w].cur = derive'[v].cur => derive'[v].cur \in twice'
      BY <2>0, OthersDerive DEF Working
    <2> SUFFICES ASSUME NEW v \in Derivers, NEW w \in Derivers, v # w, Working(v)', Working(w)',
                        derive'[v].cur = derive'[w].cur
                 PROVE  derive'[v].cur \in twice'
      BY DEF TwiceNoted
    <2>1. CASE /\ Working(v) /\ derive'[v].cur = derive[v].cur
               /\ Working(w) /\ derive'[w].cur = derive[w].cur
      BY <1>1, <2>1 DEF ReceiptInv, TwiceNoted
    <2>2. CASE /\ derive'[w] = derive[w]
               /\ Working(w) /\ derive[w].cur = derive'[v].cur => derive'[v].cur \in twice'
      BY <2>2 DEF Working
    <2>3. CASE /\ derive'[v] = derive[v]
               /\ Working(v) /\ derive[v].cur = derive'[w].cur => derive'[w].cur \in twice'
      BY <2>3 DEF Working
    <2> QED
      BY <2>0, <2>1, <2>2, <2>3
  <1>6. ReceiptNamed'
    BY <1>2 DEF ReceiptInv, ReceiptNamed
  <1>7. ReceiptTrue'
    <2> SUFFICES ASSUME NEW p \in Proposals, tree'[Receipt(p)] = Accepted(p)
                 PROVE  p \in canon'.nodes \/ Lost(p)'
      BY DEF ReceiptTrue
    <2>1. Lost(p) => Lost(p)'
      BY <1>1 DEF Lost
    <2>2. CASE tree'[Receipt(p)] = tree[Receipt(p)]
      BY <1>1, <2>1, <2>2 DEF ReceiptInv, ReceiptTrue
    <2>3. ASSUME NEW v \in Derivers, derive[v].pc = "receipt", derive[v].cur = p,
                 tree'[Receipt(p)] = IF derive[v].accepted THEN Accepted(p) ELSE Rejected
          PROVE  p \in canon'.nodes \/ Lost(p)'
      <3>1. derive[v].accepted
        BY <2>3, ReceiptValues
      <3>2. p \in canon.nodes \/ p \in overlap
        BY <2>3, <3>1 DEF ReceiptInv, ToWrite
      <3> QED
        BY <1>1, <3>2 DEF Lost
    <2> QED
      BY <1>2, <2>2, <2>3
  <1>8. FreshReceipt'
    <2> SUFFICES ASSUME NEW p \in Proposals, p \in purge.ids, Receipt(p) \in fresh'
                 PROVE  p \in overlap'
      BY <1>1 DEF FreshReceipt
    <2>1. CASE Receipt(p) \in fresh
      BY <1>1, <2>1 DEF ReceiptInv, FreshReceipt
    <2>2. ASSUME NEW v \in Derivers, derive[v].pc = "receipt", derive[v].cur = p
          PROVE  p \in overlap'
      BY <1>1, <2>2 DEF ReceiptInv, HeldNoted, Working
    <2> QED
      BY <1>2, <2>1, <2>2
  <1>9. ToWrite'
    <2> SUFFICES ASSUME NEW v \in Derivers, derive'[v].pc = "receipt"
                 PROVE  IF derive'[v].accepted
                        THEN derive'[v].cur \in canon'.nodes \/ derive'[v].cur \in overlap'
                        ELSE derive'[v].cur \notin canon'.nodes \/ derive'[v].cur \in twice'
      BY DEF ToWrite
    <2> DEFINE cur == derive[v].cur
    <2>1. Working(v)'
      BY DEF Working
    <2>2. CASE derive'[v] = derive[v]
      <3>1. ToWrite /\ derive[v].pc = "receipt" /\ Working(v) /\ cur \in Proposals
        BY <2>2 DEF ReceiptInv, CurKnown, Working
      <3>2. CASE derive[v].accepted
        BY <1>1, <2>2, <3>1, <3>2 DEF ToWrite
      <3>3. CASE ~derive[v].accepted /\ cur \in twice
        BY <1>1, <2>2, <3>3
      <3>4. CASE ~derive[v].accepted /\ cur \notin twice
        <4>1. cur \notin canon.nodes
          BY <3>1, <3>4 DEF ToWrite
        <4>2. ~NodeStep(cur)
          <5>1. /\ cur \notin Captures /\ cur \notin Successors
                /\ cur \notin Items /\ cur \notin Business
            BY <3>1, PurgeAssumption
          <5>2. \A p \in Proposals : SuccessorOf[p] \in Successors
            BY PurgeAssumption
          <5>3. \A w \in Derivers : ~(derive[w].pc = "append" /\ cur = derive[w].cur)
            <6> SUFFICES ASSUME NEW w \in Derivers, derive[w].pc = "append", cur = derive[w].cur
                         PROVE  FALSE
              OBVIOUS
            <6>1. v # w /\ Working(w)
              BY <3>1 DEF Working
            <6> QED
              BY <3>1, <3>4, <6>1 DEF ReceiptInv, TwiceNoted
          <5> QED
            BY <5>1, <5>2, <5>3 DEF NodeStep
        <4>3. cur \notin canon'.nodes
          BY <4>1, <4>2, OthersAdd
        <4> QED
          BY <2>2, <3>4, <4>3
      <3> QED
        BY <3>2, <3>3, <3>4
    <2>3. CASE /\ derive'[v].cur = cur
               /\ IF derive'[v].accepted THEN cur \in canon'.nodes ELSE cur \notin canon'.nodes
      BY <2>3
    <2> QED
      BY <2>1, <2>2, <2>3, OthersDerive
  <1>10. NotRejected'
    <2> SUFFICES ASSUME NEW v \in Derivers, Working(v)'
                 PROVE  tree'[Receipt(derive'[v].cur)] # Rejected \/ derive'[v].cur \in twice'
      BY DEF NotRejected
    <2> DEFINE cur == derive[v].cur
    <2>1. CASE derive'[v] = derive[v]
      <3>1. /\ Working(v) /\ cur \in Proposals
            /\ tree[Receipt(cur)] # Rejected \/ cur \in twice
        BY <2>1 DEF CurKnown, Working, ReceiptInv, NotRejected
      <3>2. CASE tree'[Receipt(cur)] = tree[Receipt(cur)]
        BY <1>1, <2>1, <3>1, <3>2
      <3>3. ASSUME NEW w \in Derivers, derive[w].pc = "receipt", derive'[w].pc = "next",
                   derive[w].cur = cur
            PROVE  cur \in twice
        <4>1. v # w /\ Working(w)
          BY <3>3 DEF Working
        <4> QED
          BY <3>1, <3>3, <4>1 DEF ReceiptInv, TwiceNoted
      <3> QED
        BY <1>1, <1>2, <2>1, <3>1, <3>2, <3>3
    <2>2. CASE derive'[v].cur = cur /\ UNCHANGED tree /\ derive[v].pc = "append"
      BY <1>1, <2>2 DEF ReceiptInv, NotRejected, Working
    <2>3. CASE UNCHANGED tree /\ tree[Receipt(derive'[v].cur)] # Rejected
      BY <2>3
    <2> QED
      BY <2>1, <2>2, <2>3, OthersDerive
  <1> QED
    BY <1>3, <1>4, <1>5, <1>6, <1>7, <1>8, <1>9, <1>10 DEF ReceiptInv

LEMMA NextReceipts == BaseInv /\ BaseInv' /\ ReceiptInv /\ [Next]_vars => ReceiptInv'
  BY StepKinds, HardPurgeReceipts, ScanReceipts, OtherReceipts DEF BaseInv

LEMMA InitReceipts == Init => ReceiptInv
  <1> SUFFICES ASSUME Init PROVE ReceiptInv
    OBVIOUS
  <1>1. /\ \A v \in Derivers : derive[v].pc = "idle"
        /\ purge.pc = "idle" /\ purge.ids = {} /\ fresh = {}
    BY DEF Init, IdleDerive, IdlePurge
  <1>2. \A p \in Proposals : tree[Receipt(p)] = {}
    BY FileNames DEF Init
  <1>3. FilesClean /\ HeldNoted /\ TwiceNoted /\ FreshReceipt /\ ToWrite /\ NotRejected
    BY <1>1 DEF FilesClean, Scanned, Scanning, HeldNoted, TwiceNoted, Working, FreshReceipt, ToWrite,
                NotRejected
  <1>4. ReceiptNamed /\ ReceiptTrue
    BY <1>2, ReceiptValues DEF ReceiptNamed, ReceiptTrue
  <1> QED
    BY <1>3, <1>4 DEF ReceiptInv

\* Only WriteReceipt stops a derive.
LEMMA AbortIsWriteReceipt ==
    ASSUME TypeOK, CurKnown, [Next]_vars, NEW v \in Derivers, Aborts(v)
    PROVE  /\ derive[v].pc = "receipt" /\ derive[v].cur \in Proposals
           /\ tree[Receipt(derive[v].cur)] \notin
                {{}, IF derive[v].accepted THEN Accepted(derive[v].cur) ELSE Rejected}
  <1>1. derive'[v].pc = "aborted" /\ derive[v].pc # "aborted"
    BY DEF Aborts
  <1>2. ~ScanStep /\ \A scope \in Scopes : ~HardPurge(scope)
    BY <1>1, ScanKeeps DEF HardPurge
  <1>3. DeriverStep(v)
    BY <1>1, <1>2, StepKinds, OneDerives
  <1>4. \A p \in Proposals : ~SkipPending(v, p) /\ ~ReadPending(v, p)
    BY <1>1, SkipMoves, ReadMoves
  <1>5. ~StartDerive(v) /\ ~AppendProposal(v) /\ ~EndDerive(v)
    BY <1>1, StartMoves, AppendMoves, EndMoves
  <1>6. WriteReceipt(v)
    BY <1>3, <1>4, <1>5 DEF DeriverStep
  <1>7. derive[v].pc = "receipt" /\ derive[v].cur \in Proposals
    BY <1>6 DEF WriteReceipt, CurKnown, Working
  <1> QED
    BY <1>1, <1>6, <1>7, ReceiptMoves

\* compile_pending_proposals, which takes no lease, is stopped by a receipt it may not
\* overwrite only when two of its runs had the proposal in hand at once, or when the
\* proposal was purged by an operation that is not complete, or while a derive had it in
\* hand.
THEOREM LoneDeriveGoesOn == Spec => NoLoneAbort
  <1> DEFINE A == \A v \in Derivers : Aborts(v) =>
         \/ derive[v].cur \in twice \cup overlap
         \/ \E k \in 1..MaxPurges : ops[k].status = "incomplete" /\ derive[v].cur \in ops[k].ids
  <1>1. BaseInv /\ ReceiptInv /\ [Next]_vars => [A]_vars
    <2> SUFFICES ASSUME BaseInv, ReceiptInv, [Next]_vars, NEW v \in Derivers, Aborts(v),
                        derive[v].cur \notin twice
                 PROVE  Lost(derive[v].cur)
      BY DEF Lost
    <2> DEFINE cur == derive[v].cur
    <2>1. /\ derive[v].pc = "receipt" /\ cur \in Proposals
          /\ tree[Receipt(cur)] \notin {{}, IF derive[v].accepted THEN Accepted(cur) ELSE Rejected}
      BY AbortIsWriteReceipt DEF BaseInv
    <2>2. tree[Receipt(cur)] = Accepted(cur) /\ ~derive[v].accepted
      BY <2>1 DEF ReceiptInv, ReceiptNamed, NotRejected, Working
    <2>3. cur \notin canon.nodes
      BY <2>1, <2>2 DEF ReceiptInv, ToWrite
    <2> QED
      BY <2>1, <2>2, <2>3 DEF ReceiptInv, ReceiptTrue
  <1>2. Spec => [](BaseInv /\ ReceiptInv)
    <2>1. Init => BaseInv /\ ReceiptInv
      BY InitBase, InitReceipts
    <2>2. BaseInv /\ ReceiptInv /\ [Next]_vars => BaseInv' /\ ReceiptInv'
      BY NextBase, NextReceipts
    <2> QED
      BY <2>1, <2>2, PTL DEF Spec
  <1> QED
    BY <1>1, <1>2, PTL DEF Spec, NoLoneAbort

-----------------------------------------------------------------------------
(* Completion.  When the purge says "purged", the root and the canon are   *)
(* clean, but for what others wrote after the scan, and a node is back     *)
(* only if a pass or a derive had it, or what it comes from, in memory.    *)

\* The operator gives each proposal a successor of its own, so that what a successor names
\* is what its one proposal names.
SuccessorsDistinct == \A p, q \in Proposals : SuccessorOf[p] = SuccessorOf[q] => p = q

\* A node that is back although the purge under way took it owes that to the history.
Back == Purging => \A n \in purge.ids \cap canon.nodes : Mentions(n) \cap overlap # {}

ItemsGone == \A k \in 1..MaxPurges : \A i \in Items \cap ops[k].ids : canon.items[i] = "none"

NoBusiness == purge.ids \cap Business = {}

SuccessorsTaken == \A p \in Proposals : SuccessorOf[p] \in purge.ids => p \in purge.ids

\* Once the database was scanned and found clean, a row that names an identity of the
\* purge was written since.
CanonClean ==
    purge.pc = "finish" /\ purge.remaining = {} =>
        (Named(canon) \cap purge.ids # {} => Database \in fresh)

CleanInv == Back /\ ItemsGone /\ NoBusiness /\ SuccessorsTaken /\ CanonClean

\* What the payload of a node repeats, by the kind of the node.
LEMMA MentionKinds ==
    ASSUME SuccessorsDistinct
    PROVE  /\ \A n \in Captures \cup Items \cup Business : Mentions(n) = {n}
           /\ \A p \in Proposals : Mentions(p) = {p, SourceOf[p]}
           /\ \A p \in Proposals : Mentions(SuccessorOf[p]) = {SuccessorOf[p], p, SourceOf[p]}
  <1>1. \A p \in Proposals : SuccessorOf[p] \in Successors
    BY PurgeAssumption
  <1>2. ASSUME NEW n \in Captures \cup Items \cup Business PROVE Mentions(n) = {n}
    <2>1. \A q \in Proposals : q # n /\ SuccessorOf[q] # n
      BY <1>1, PurgeAssumption
    <2> QED
      BY <2>1 DEF Mentions
  <1>3. ASSUME NEW p \in Proposals PROVE Mentions(p) = {p, SourceOf[p]}
    <2>1. \A q \in Proposals : SuccessorOf[q] # p
      BY <1>1, PurgeAssumption
    <2> QED
      BY <2>1 DEF Mentions
  <1>4. ASSUME NEW p \in Proposals PROVE Mentions(SuccessorOf[p]) = {SuccessorOf[p], p, SourceOf[p]}
    <2>1. \A q \in Proposals : q # SuccessorOf[p] /\ (SuccessorOf[q] = SuccessorOf[p] <=> q = p)
      BY <1>1, PurgeAssumption DEF SuccessorsDistinct
    <2> QED
      BY <2>1 DEF Mentions
  <1> QED
    BY <1>2, <1>3, <1>4

LEMMA InitClean == Init => CleanInv
  <1> SUFFICES ASSUME Init PROVE CleanInv
    OBVIOUS
  <1>1. purge.pc = "idle" /\ purge.ids = {}
    BY DEF Init, IdlePurge
  <1>2. \A k \in 1..MaxPurges : ops[k].ids = {}
    BY DEF Init
  <1> QED
    BY <1>1, <1>2 DEF CleanInv, Back, Purging, Resting, ItemsGone, NoBusiness, SuccessorsTaken,
                     CanonClean

LEMMA HardPurgeClean ==
    ASSUME SuccessorsDistinct, TypeOK, CanonInv, OpKnown, CleanInv,
           NEW scope \in Scopes, HardPurge(scope)
    PROVE  CleanInv'
  <1> DEFINE ids == Taken(scope)
             S == Closure(canon, scope)
  <1>1. /\ purge'.pc = "project" /\ purge'.ids = ids
        /\ purge'.op \in 1..MaxPurges
        /\ ops'[purge'.op] = [status |-> "incomplete", ids |-> ids]
        /\ \A k \in 1..MaxPurges : k # purge'.op => ops'[k] = ops[k]
        /\ ids \cap Nodes = S
    BY HardPurgeOps
  <1>2. /\ canon'.nodes = canon.nodes \ S /\ canon.nodes \subseteq Nodes
        /\ \A i \in Items : canon'.items[i] = IF i \in S THEN "none" ELSE canon.items[i]
    BY PurgedCanon, CanonType
  <1>3. Closed(canon, S)
    BY ClosureClosed, CanonType
  <1>4. \A n \in S : n \in canon.nodes \/ n \in Items
    BY ClosureLive DEF CanonInv
  <1>5. S \cap Business = {}
    BY DEF HardPurge, KeptBack
  <1> HIDE DEF ids, S
  <1>6. SuccessorsTaken'
    <2> SUFFICES ASSUME NEW p \in Proposals, SuccessorOf[p] \in ids PROVE p \in ids
      BY <1>1 DEF SuccessorsTaken
    <2>0. SuccessorOf[p] \in Successors /\ SuccessorOf[p] \in S
      BY <1>1, NodeSets, PurgeAssumption
    <2>1. SuccessorOf[p] \in Successors \cap canon.nodes
      BY <1>4, <2>0, PurgeAssumption
    <2>2. <<p, SuccessorOf[p]>> \in canon.edges
      BY <2>1 DEF CanonInv, SuccessorsHang, SuccessorsDistinct
    <2>3. p \in S
      BY <1>3, <2>0, <2>2 DEF Closed
    <2> QED
      BY <1>1, <2>3
  <1>7. ItemsGone'
    BY <1>1, <1>2, NodeSets DEF CleanInv, ItemsGone
  <1>8. Back' /\ NoBusiness' /\ CanonClean'
    BY <1>1, <1>2, <1>5, NodeSets DEF Back, NoBusiness, CanonClean
  <1> QED
    BY <1>6, <1>7, <1>8 DEF CleanInv

LEMMA ScanClean ==
    ASSUME TypeOK, OpKnown, CleanInv, ScanStep
    PROVE  CleanInv'
  <1>1. UNCHANGED <<canon, overlap>> /\ \A k \in 1..MaxPurges : ops'[k].ids = ops[k].ids
    BY ScanKeeps, ScanStatus
  <1>2. \/ purge'.ids = purge.ids /\ Purging
        \/ purge'.ids = {}
    BY ScanCases DEF ScanCase, IdlePurge, Scanned
  <1>3. purge'.pc = "finish" /\ purge'.remaining = {} =>
            purge'.ids = purge.ids /\ Named(canon) \cap purge.ids = {}
    BY ScanCases DEF ScanCase, IdlePurge, Scanned, Scanning
  <1>4. Back' /\ ItemsGone' /\ NoBusiness' /\ SuccessorsTaken'
    BY <1>1, <1>2 DEF CleanInv, Back, ItemsGone, NoBusiness, SuccessorsTaken
  <1>5. CanonClean'
    BY <1>1, <1>3 DEF CanonClean
  <1> QED
    BY <1>4, <1>5 DEF CleanInv

\* An item that a purge took is not scanned again, and so not ruled on.
LEMMA OthersItems ==
    ASSUME TypeOK, CurKnown, OtherStep, NEW i \in Items
    PROVE  \/ canon'.items[i] = canon.items[i] \/ canon.items[i] # "none"
           \/ \A k \in 1..MaxPurges : i \notin ops[k].ids
  <1>0. canon \in Canon /\ canon.items \in [Items -> {"none", "unruled", "kept", "killed"}]
    BY CanonType DEF TypeOK
  <1>1. ASSUME NEW q \in Passes, NEW c \in Captures, ApplyCapture(q, c)
        PROVE  canon'.items = canon.items
    BY <1>0, <1>1 DEF ApplyCapture, Commit, Captured, Canon
  <1>2. ASSUME NEW v \in Derivers, AppendProposal(v)
        PROVE  canon'.items = canon.items
    BY <1>0, <1>2 DEF AppendProposal, Commit, Canon
  <1>3. ASSUME NEW j \in Items, ScanItem(j)
        PROVE  canon'.items[i] = canon.items[i] \/ \A k \in 1..MaxPurges : i \notin ops[k].ids
    <2>1. canon'.items = [canon.items EXCEPT ![j] = "unruled"]
      BY <1>0, <1>3 DEF ScanItem, Commit, Canon
    <2> QED
      BY <1>0, <1>3, <2>1 DEF ScanItem
  <1>4. ASSUME NEW j \in Items, NEW v, RuleItem(j, v)
        PROVE  canon'.items[i] = canon.items[i] \/ canon.items[i] # "none"
    <2>1. canon'.items = [canon.items EXCEPT ![j] = v]
      BY <1>0, <1>4 DEF RuleItem, Commit, Canon
    <2> QED
      BY <1>0, <1>4, <2>1 DEF RuleItem
  <1>5. ASSUME NEW m \in Nodes, NEW n \in Nodes, Relate(m, n) \/ Review(n)
        PROVE  canon'.items = canon.items
    BY <1>0, <1>5 DEF Relate, Review, Commit, Canon
  <1>6. ASSUME NEW p \in Proposals, AuthorizeSuccessor(p)
        PROVE  canon'.items = canon.items
    BY <1>0, <1>6 DEF AuthorizeSuccessor, Commit, Canon
  <1>7. ASSUME NEW b \in Business, AppendBusiness(b)
        PROVE  canon'.items = canon.items
    BY <1>0, <1>7 DEF AppendBusiness, Commit, Canon
  <1> QED
    BY <1>1, <1>2, <1>3, <1>4, <1>5, <1>6, <1>7, OtherCanonSteps

\* A transaction that changes the canon of a purge that is about to finish, so that it
\* names one of its identities, is noted.
LEMMA OthersCommit ==
    ASSUME TypeOK, CurKnown, OtherStep, purge.pc = "finish", Named(canon') \cap purge.ids # {}
    PROVE  canon' = canon \/ Database \in fresh'
  <1>0. \A d : Commit(d) => canon' = canon \/ Database \in fresh'
    BY DEF Commit
  <1>1. ASSUME NEW q \in Passes, NEW c \in Captures, ApplyCapture(q, c)
        PROVE  canon' = canon \/ Database \in fresh'
    BY <1>0, <1>1 DEF ApplyCapture
  <1>2. ASSUME NEW v \in Derivers, AppendProposal(v)
        PROVE  canon' = canon \/ Database \in fresh'
    BY <1>0, <1>2 DEF AppendProposal
  <1>3. ASSUME NEW i, NEW v, ScanItem(i) \/ RuleItem(i, v)
        PROVE  canon' = canon \/ Database \in fresh'
    BY <1>0, <1>3 DEF ScanItem, RuleItem
  <1>4. ASSUME NEW m, NEW n, Relate(m, n) \/ Review(n)
        PROVE  canon' = canon \/ Database \in fresh'
    BY <1>0, <1>4 DEF Relate, Review
  <1>5. ASSUME NEW p, AuthorizeSuccessor(p) \/ AppendBusiness(p)
        PROVE  canon' = canon \/ Database \in fresh'
    BY <1>0, <1>5 DEF AuthorizeSuccessor, AppendBusiness
  <1> QED
    BY <1>1, <1>2, <1>3, <1>4, <1>5, OtherCanonSteps

LEMMA OtherClean ==
    ASSUME SuccessorsDistinct, TypeOK, CurKnown, CanonInv, OpKnown, OffTheCanon, HeldNoted,
           CleanInv, OtherStep, TypeOK'
    PROVE  CleanInv'
  <1>1. UNCHANGED <<purge, ops>> /\ overlap \subseteq overlap'
    BY OthersKeep
  <1>2. \A n \in canon'.nodes : n \in canon.nodes \/ NodeStep(n)
    BY OthersAdd
  <1>3. canon'.nodes \subseteq Nodes
    BY DEF TypeOK, Canon
  <1>4. Back'
    <2> SUFFICES ASSUME Purging, NEW n \in purge.ids, n \in canon'.nodes
                 PROVE  Mentions(n) \cap overlap' # {}
      BY <1>1 DEF Back, Purging, Resting
    <2>1. purge.op \in 1..MaxPurges /\ ops[purge.op].ids = purge.ids /\ n \in Mentions(n)
      BY <1>3, MentionsType DEF OpKnown
    <2>2. CASE n \in canon.nodes
      BY <1>1, <2>2 DEF CleanInv, Back
    <2>3. CASE n \in Captures /\ \E q \in Passes : n \in pass[q].todo
      BY <1>1, <2>1, <2>3 DEF OffTheCanon, Active
    <2>4. ASSUME NEW v \in Derivers, derive[v].pc = "append", n = derive[v].cur
          PROVE  Mentions(n) \cap overlap' # {}
      BY <1>1, <2>1, <2>4 DEF HeldNoted, Working
    <2>5. ASSUME NEW p \in Proposals, n = SuccessorOf[p], p \in canon.nodes
          PROVE  Mentions(n) \cap overlap' # {}
      <3>1. Mentions(p) \cap overlap # {}
        BY <2>5 DEF CleanInv, SuccessorsTaken, Back
      <3>2. Mentions(p) \subseteq Mentions(n)
        BY <2>5, MentionKinds
      <3> QED
        BY <1>1, <3>1, <3>2
    <2>6. ~(n \in Items /\ canon.items[n] = "unruled") /\ n \notin Business
      BY <2>1 DEF CleanInv, ItemsGone, NoBusiness
    <2> QED
      BY <1>2, <2>2, <2>3, <2>4, <2>5, <2>6 DEF NodeStep
  <1>5. ItemsGone'
    BY <1>1, OthersItems DEF CleanInv, ItemsGone
  <1>6. NoBusiness' /\ SuccessorsTaken'
    BY <1>1 DEF CleanInv, NoBusiness, SuccessorsTaken
  <1>7. CanonClean'
    <2> SUFFICES ASSUME purge.pc = "finish", purge.remaining = {}, Named(canon') \cap purge.ids # {}
                 PROVE  Database \in fresh'
      BY <1>1 DEF CanonClean, Named
    <2>1. CASE canon' = canon
      <3>1. Named(canon) \cap purge.ids # {}
        BY <2>1
      <3>2. fresh \subseteq fresh'
        BY OthersWrite, FileEffect
      <3> QED
        BY <3>1, <3>2 DEF CleanInv, CanonClean
    <2> QED
      BY <2>1, OthersCommit
  <1> QED
    BY <1>4, <1>5, <1>6, <1>7 DEF CleanInv

\* hard_purge completes an operation only when no file below the root and no row of the
\* canon repeats an identity of its closure, but for what others wrote after the scan; and
\* a node of the closure is back only if a pass or a derive had it, or what it comes from,
\* in memory.
THEOREM CompletesClean == ASSUME SuccessorsDistinct PROVE Spec => CompletionClean
  <1> DEFINE I == BaseInv /\ NoReturnInv /\ ReceiptInv /\ CleanInv
             A == \A k \in 1..MaxPurges : Completes(k) =>
                     /\ \A n \in ops[k].ids :
                           /\ \A f \in Files : n \in tree[f] => f \in fresh
                           /\ n \in Named(canon) => Database \in fresh
                     /\ \A n \in ops[k].ids \cap canon.nodes : Mentions(n) \cap overlap # {}
  <1>1. Init => I
    BY InitBase, InitReceipts, InitClean, InitNoReturn
  <1>2. I /\ [Next]_vars => I'
    <2> SUFFICES ASSUME I, [Next]_vars PROVE I'
      OBVIOUS
    <2>1. BaseInv' /\ NoReturnInv' /\ ReceiptInv'
      BY NextBase, NextNoReturn, NextReceipts
    <2>2. CleanInv'
      BY <2>1, StepKinds, HardPurgeClean, ScanClean, OtherClean DEF BaseInv, NoReturnInv, ReceiptInv
    <2> QED
      BY <2>1, <2>2
  <1>3. I /\ [Next]_vars => [A]_vars
    <2> SUFFICES ASSUME I, [Next]_vars, NEW k \in 1..MaxPurges, Completes(k)
                 PROVE  /\ \A n \in ops[k].ids :
                              /\ \A f \in Files : n \in tree[f] => f \in fresh
                              /\ n \in Named(canon) => Database \in fresh
                        /\ \A n \in ops[k].ids \cap canon.nodes : Mentions(n) \cap overlap # {}
      OBVIOUS
    <2>1. ~OtherStep
      BY OthersKeep DEF Completes
    <2>2. \A scope \in Scopes : ~HardPurge(scope)
      BY HardPurgeOps DEF Completes, BaseInv
    <2>3. ScanStep
      BY <2>1, <2>2, StepKinds
    <2>4. k = purge.op /\ purge.pc = "finish" /\ Scanned
      BY <2>3, ScanStatus DEF Completes, BaseInv
    <2>5. ops[k].ids = purge.ids /\ Purging
      BY <2>4 DEF BaseInv, OpKnown, Purging, Resting
    <2>6. \A n \in purge.ids : \A f \in Files : n \in tree[f] => f \in fresh
      BY <2>4 DEF ReceiptInv, FilesClean
    <2>7. \A n \in purge.ids : n \in Named(canon) => Database \in fresh
      BY <2>4 DEF CleanInv, CanonClean, Scanned
    <2>8. \A n \in purge.ids \cap canon.nodes : Mentions(n) \cap overlap # {}
      BY <2>5 DEF CleanInv, Back
    <2> QED
      BY <2>5, <2>6, <2>7, <2>8
  <1> QED
    BY <1>1, <1>2, <1>3, PTL DEF Spec, CompletionClean

=============================================================================
