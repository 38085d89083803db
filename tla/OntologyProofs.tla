--------------------------- MODULE OntologyProofs ---------------------------
(***************************************************************************)
(* Proofs about Ontology, for any records, grants, times and commands.     *)
(* They rest on OntologyAssumption alone.                                  *)
(***************************************************************************)
EXTENDS Ontology, TLAPS

-----------------------------------------------------------------------------
(* What a command and a call are made of.                                  *)

LEMMA TimesAreEnds == Times \subseteq Ends /\ Forever \in Ends /\ Forever \notin Times
  BY OntologyAssumption DEF Times, Ends, Forever

\* The names of stored versions are names of versions.
LEMMA IdTypes ==
    ASSUME TypeOK
    PROVE  /\ \A w \in rows : IdOf(w) \in RowIds /\ IdOf(w)[1] = w.rec /\ IdOf(w)[2] = w.sf
           /\ \A v \in grants : GrantId(v) \in GrantIds
  <1>1. \A w \in rows : w.rec \in Records /\ w.sf \in Times /\ w.n \in Numbers
    BY DEF TypeOK, Row
  <1>2. \A v \in grants : v.grant \in Grants /\ v.sf \in Times
    BY DEF TypeOK, Grant
  <1> QED
    BY <1>1, <1>2 DEF IdOf, GrantId, RowIds, GrantIds

\* What the caller gives with each kind of command.
CommandFields(c) ==
    /\ c.kind = "bundle" => /\ c.recs \subseteq Records /\ c.from \in Times /\ c.to \in Ends
                            /\ c.under \in GrantIds \cup {None}
    /\ c.kind = "node" => c.rec \in Records /\ c.from \in Times
    /\ c.kind = "derived" => c.rec \in Records /\ c.from \in Times
    /\ c.kind = "grant" => c.grant \in Grants /\ c.from \in Times /\ c.to \in Ends
    /\ c.kind = "revoke" => c.grant \in Grants /\ c.revoked \in Times \cup {None}
    /\ c.kind = "correct" => c.rec \in Records /\ c.eff \in Times
    /\ c.kind \in {"contest"} \cup ReviewKinds => c.rec \in Records
    /\ c.kind = "end" => c.grant \in Grants
    /\ c.kind \in RelationKinds => /\ c.src \in RowIds /\ c.tgt \in RowIds
                                   /\ c.under \in GrantIds \cup {None}

LEMMA CommandType ==
    ASSUME TypeOK, NEW c \in Command
    PROVE  CommandFields(c)
  <1> USE OntologyAssumption, TimesAreEnds DEF CommandFields, RelationKinds, ReviewKinds
  <1>0. ValidTimes \subseteq Times /\ ValidEnds \subseteq Ends /\ Effective \subseteq Times
    BY DEF Times, Ends, Forever
  <1>1. CASE c \in Bundles
    <2>1. PICK S \in Batches, from \in ValidTimes, to \in ValidEnds \cup {Forever},
               under \in KnownGrants : c = Bundle(S, from, to, under)
      BY <1>1 DEF Bundles
    <2>2. S \subseteq Records
      BY DEF Batches
    <2>3. under \in GrantIds \cup {None}
      BY IdTypes DEF KnownGrants
    <2> QED
      BY <1>0, <2>1, <2>2, <2>3 DEF Bundle
  <1>2. CASE c \in {SemanticNode(r, from, g) : r \in Plain, from \in ValidTimes, g \in Grants \cup {None}}
    BY <1>0, <1>2 DEF SemanticNode
  <1>3. CASE c \in {DerivedNode(r, from) : r \in Plain \ Judged, from \in ValidTimes}
    BY <1>0, <1>3 DEF DerivedNode
  <1>4. CASE c \in {ConsentGrant(g, term[1], term[2]) : g \in Grants, term \in Terms}
    <2>1. \A term \in Terms : term[1] \in Times /\ term[2] \in Ends
      BY DEF Times, Ends, Forever
    <2> QED
      BY <1>4, <2>1 DEF ConsentGrant
  <1>5. CASE c \in {Revoke(g, at) : g \in Grants, at \in ValidTimes \cup {None}}
    BY <1>0, <1>5 DEF Revoke
  <1>6. CASE c \in {Correct(r, eff) : r \in Revised, eff \in Effective}
    BY <1>0, <1>6 DEF Correct
  <1>7. CASE c \in {Contest(r) : r \in Revised}
    BY <1>7 DEF Contest
  <1>7a. CASE c \in {Review(kind, r) : kind \in ReviewKinds, r \in Reviewed \cap Records}
    BY <1>7a DEF Review
  <1>7b. CASE c \in {EndGrant(g) : g \in Reviewed \cap Grants}
    BY <1>7b DEF EndGrant
  <1>8. CASE c \in {Transition(kind, p[1], p[2]) : kind \in {"supersedes", "contradicts"}, p \in Pairs}
    BY <1>8 DEF Transition
  <1>9. CASE c \in Relates
    <2>1. PICK kind \in RelationKinds, p \in KnownPairs, under \in KnownGrants, judged \in BOOLEAN :
               c = Relate(kind, IdOf(p[1]), IdOf(p[2]), under, judged)
      BY <1>9 DEF Relates
    <2>2. IdOf(p[1]) \in RowIds /\ IdOf(p[2]) \in RowIds
      BY IdTypes DEF KnownPairs
    <2>3. under \in GrantIds \cup {None}
      BY IdTypes DEF KnownGrants
    <2> QED
      BY <2>1, <2>2, <2>3 DEF Relate
  <1> QED
    BY <1>1, <1>2, <1>3, <1>4, <1>5, <1>6, <1>7, <1>7a, <1>7b, <1>8, <1>9 DEF Command

\* What a call knows when it writes: its request holds in the present state, and if it
\* was approved it was prepared before.
Writes(c, x) ==
    /\ x.bound \in Requests(c)
    /\ x.at \in Times
    /\ x.left \subseteq ops
    /\ \/ /\ ~NeedsApproval(c)
          /\ x.at = now /\ x.left = ops
       \/ /\ NeedsApproval(c)
          /\ \E o \in ops : /\ o.cmd = c /\ o.bound = x.bound /\ o.at = x.at
                            /\ x.left = ops \ {o}

LEMMA GrantedWrites ==
    ASSUME TypeOK, now <= MaxTime, NEW c, NEW x \in Granted(c)
    PROVE  Writes(c, x)
  <1>1. CASE NeedsApproval(c)
    <2>1. PICK o \in ops : \E b \in Approved(o) :
            o.cmd = c /\ x = [bound |-> b, at |-> o.at, left |-> ops \ {o}]
      <3>1. x \in UNION {{[bound |-> b, at |-> o.at, left |-> ops \ {o}] : b \in Approved(o)} :
                    o \in {o \in ops : o.cmd = c}}
        BY <1>1 DEF Granted
      <3> QED
        BY <3>1
    <2>2. x.bound \in Requests(c) /\ x.bound = o.bound
      BY <2>1 DEF Approved
    <2>3. o.at \in Times
      BY DEF TypeOK
    <2>4. o.cmd = c /\ x.at = o.at /\ x.left = ops \ {o}
      BY <2>1
    <2> QED
      BY <1>1, <2>2, <2>3, <2>4 DEF Writes
  <1>2. CASE ~NeedsApproval(c)
    <2>1. x \in {[bound |-> b, at |-> now, left |-> ops] : b \in Requests(c)}
      BY <1>2, Zenon DEF Granted
    <2>2. now \in Times
      BY OntologyAssumption DEF TypeOK, Ends, Times, Forever
    <2> QED
      BY <1>2, <2>1, <2>2 DEF Writes
  <1> QED
    BY <1>1, <1>2, Zenon

\* An approved call executes a mutation that was prepared at an earlier instant.
LEMMA WritesBefore ==
    ASSUME TypeOK, NEW c, NEW x, Writes(c, x), NeedsApproval(c)
    PROVE  x.at < now
  BY DEF Writes, TypeOK

-----------------------------------------------------------------------------
(* Type correctness.                                                       *)

LEMMA InitType == Init => TypeOK
  <1> SUFFICES ASSUME Init PROVE TypeOK
    OBVIOUS
  <1>1. \A r \in Roles : Version(r, 1, 1, 1, Forever, None, None) \in Row
    BY OntologyAssumption DEF Version, Row, Times, Ends, Forever, Numbers
  <1>2. rows \subseteq Row
    BY <1>1 DEF Init
  <1>3. now \in Ends
    BY OntologyAssumption DEF Init, Ends, Forever
  <1>4. grants \subseteq Grant
    BY OntologyAssumption DEF Init, Grant, Times, Ends, Forever
  <1> QED
    BY <1>2, <1>3, <1>4 DEF Init, TypeOK

LEMMA NumberTypes == 0 \in Numbers /\ 1 \in Numbers /\ 2 \in Numbers /\ 3 \in Numbers
  BY DEF Numbers

\* A version that is opened at a time of the clock is a row.
LEMMA VersionType ==
    ASSUME NEW r \in Records, NEW at \in Times, NEW n \in Numbers, NEW vf \in Ends, NEW vt \in Ends,
           NEW set \in Times \cup {None}, NEW under \in GrantIds \cup {None}
    PROVE  Version(r, at, n, vf, vt, set, under) \in Row
  BY TimesAreEnds DEF Version, Row, Numbers

\* So is one that is closed, with or without its valid interval.
LEMMA ClosedType ==
    ASSUME NEW w \in Row, NEW at \in Times
    PROVE  [w EXCEPT !.st = at] \in Row /\ [w EXCEPT !.vt = at, !.st = at] \in Row
  BY TimesAreEnds DEF Row

\* The pending mutations that a step leaves were prepared before the next one.
LEMMA OpsType ==
    ASSUME TypeOK, now <= MaxTime, now' = now + 1, ops' \subseteq ops
    PROVE  (\A o \in ops' : o.at \in Times /\ o.at < now') /\ now' \in Ends
  <1>1. now \in Nat /\ now' \in Ends
    BY OntologyAssumption DEF TypeOK, Ends, Forever
  <1>2. \A o \in ops : o.at \in Times /\ o.at < now
    BY DEF TypeOK
  <1>3. \A o \in ops : o.at \in Times /\ o.at < now'
    BY <1>1, <1>2 DEF Times
  <1> QED
    BY <1>1, <1>3

LEMMA PrepareType ==
    ASSUME TypeOK, now <= MaxTime, now' = now + 1, NEW c, Prepare(c)
    PROVE  TypeOK'
  <1>1. PICK b \in Requests(c) : ops' = ops \cup {[cmd |-> c, bound |-> b, at |-> now]}
    BY DEF Prepare
  <1>2. now \in Times /\ now' \in Ends /\ now < now'
    BY OntologyAssumption DEF TypeOK, Ends, Forever, Times
  <1>3. \A o \in ops : o.at \in Times /\ o.at < now
    BY DEF TypeOK
  <1>4. \A o \in ops' : o.at \in Times /\ o.at < now'
    BY <1>1, <1>2, <1>3 DEF Times
  <1>5. /\ rows' \subseteq Row /\ grants' \subseteq Grant /\ rels' \subseteq Relation
        /\ lengthened' \subseteq RowIds
    BY DEF Prepare, TypeOK
  <1> QED
    BY <1>2, <1>4, <1>5 DEF TypeOK

LEMMA BundleType ==
    ASSUME TypeOK, now <= MaxTime, now' = now + 1, NEW c \in Command, AppendOntologyBundle(c)
    PROVE  TypeOK'
  <1>1. PICK x \in Granted(c) :
        /\ rows' = rows \cup {Version(r, x.at, 1, c.from, c.to, None, c.under) : r \in c.recs}
        /\ ops' = x.left
    BY DEF AppendOntologyBundle
  <1>2. x.at \in Times /\ x.left \subseteq ops
    BY GrantedWrites DEF Writes
  <1>3. c.recs \subseteq Records /\ c.from \in Ends /\ c.to \in Ends /\ c.under \in GrantIds \cup {None}
    BY CommandType, TimesAreEnds DEF CommandFields, AppendOntologyBundle
  <1>4. rows' \subseteq Row
    <2>1. \A r \in c.recs : Version(r, x.at, 1, c.from, c.to, None, c.under) \in Row
      BY <1>2, <1>3, VersionType, NumberTypes
    <2> QED
      BY <1>1, <2>1 DEF TypeOK
  <1>5. grants' \subseteq Grant /\ rels' \subseteq Relation /\ lengthened' \subseteq RowIds
    BY DEF AppendOntologyBundle, TypeOK
  <1> QED
    BY <1>1, <1>2, <1>4, <1>5, OpsType DEF TypeOK

LEMMA NodeType ==
    ASSUME TypeOK, now <= MaxTime, now' = now + 1, NEW c \in Command, AppendSemanticNode(c)
    PROVE  TypeOK'
  <1>1. PICK x \in Granted(c), under \in {GrantId(v) : v \in CurrentGrant(c.under)} \cup {None} :
        /\ rows' = rows \cup {Version(c.rec, x.at, 0, c.from, Forever, None, under)}
        /\ ops' = x.left
    BY DEF AppendSemanticNode
  <1>2. x.at \in Times /\ x.left \subseteq ops
    BY GrantedWrites DEF Writes
  <1>3. c.rec \in Records /\ c.from \in Ends /\ under \in GrantIds \cup {None}
    BY CommandType, TimesAreEnds, IdTypes DEF CommandFields, AppendSemanticNode, CurrentGrant
  <1>4. rows' \subseteq Row
    <2>1. Version(c.rec, x.at, 0, c.from, Forever, None, under) \in Row
      BY <1>2, <1>3, VersionType, NumberTypes, TimesAreEnds
    <2> QED
      BY <1>1, <2>1 DEF TypeOK
  <1>5. grants' \subseteq Grant /\ rels' \subseteq Relation /\ lengthened' \subseteq RowIds
    BY DEF AppendSemanticNode, TypeOK
  <1> QED
    BY <1>1, <1>2, <1>4, <1>5, OpsType DEF TypeOK

LEMMA DerivedType ==
    ASSUME TypeOK, now <= MaxTime, now' = now + 1, NEW c \in Command, AppendDerivedNode(c)
    PROVE  TypeOK'
  <1>1. PICK x \in Granted(c) :
        /\ rows' = rows \cup {Version(c.rec, x.at, 0, c.from, Forever, None, None)}
        /\ ops' = x.left
    BY DEF AppendDerivedNode
  <1>2. x.at \in Times /\ x.left \subseteq ops
    BY GrantedWrites DEF Writes
  <1>3. c.rec \in Records /\ c.from \in Ends
    BY CommandType, TimesAreEnds DEF CommandFields, AppendDerivedNode
  <1>4. rows' \subseteq Row
    <2>1. Version(c.rec, x.at, 0, c.from, Forever, None, None) \in Row
      BY <1>2, <1>3, VersionType, NumberTypes, TimesAreEnds
    <2> QED
      BY <1>1, <2>1 DEF TypeOK
  <1>5. grants' \subseteq Grant /\ rels' \subseteq Relation /\ lengthened' \subseteq RowIds
    BY DEF AppendDerivedNode, TypeOK
  <1> QED
    BY <1>1, <1>2, <1>4, <1>5, OpsType DEF TypeOK

LEMMA GrantType ==
    ASSUME TypeOK, now <= MaxTime, now' = now + 1, NEW c \in Command, GrantConsent(c)
    PROVE  TypeOK'
  <1>1. PICK x \in Granted(c) :
        /\ grants' = grants \cup {[grant |-> c.grant, sf |-> x.at, st |-> Forever,
                                   vf |-> c.from, until |-> c.to, revoked |-> None]}
        /\ ops' = x.left
    BY DEF GrantConsent
  <1>2. x.at \in Times /\ x.left \subseteq ops
    BY GrantedWrites DEF Writes
  <1>3. c.grant \in Grants /\ c.from \in Times /\ c.to \in Ends
    BY CommandType DEF CommandFields, GrantConsent
  <1>4. grants' \subseteq Grant
    BY <1>1, <1>2, <1>3, TimesAreEnds DEF TypeOK, Grant
  <1>5. rows' \subseteq Row /\ rels' \subseteq Relation /\ lengthened' \subseteq RowIds
    BY DEF GrantConsent, TypeOK
  <1> QED
    BY <1>1, <1>2, <1>4, <1>5, OpsType DEF TypeOK

LEMMA RevokeType ==
    ASSUME TypeOK, now <= MaxTime, now' = now + 1, NEW c \in Command, RevokeConsent(c)
    PROVE  TypeOK'
  <1>1. PICK x \in Granted(c), v \in CurrentGrant(c.grant) :
        /\ grants' = (grants \ {v}) \cup {[v EXCEPT !.st = x.at],
                                          [v EXCEPT !.sf = x.at, !.revoked = x.bound[2]]}
        /\ ops' = x.left
    BY DEF RevokeConsent
  <1>2. x.at \in Times /\ x.left \subseteq ops /\ x.bound \in RevokeRequests(c)
    BY GrantedWrites DEF Writes, Requests, ReviewKinds, RevokeConsent
  <1>3. c.revoked \in Times \cup {None} /\ now \in Times
    BY CommandType, OntologyAssumption DEF CommandFields, RevokeConsent, TypeOK, Times, Ends, Forever
  <1>4. x.bound[2] \in Times
    BY <1>2, <1>3 DEF RevokeRequests, Revocable
  <1>5. v \in Grant
    BY DEF CurrentGrant, TypeOK
  <1>6. [v EXCEPT !.st = x.at] \in Grant /\ [v EXCEPT !.sf = x.at, !.revoked = x.bound[2]] \in Grant
    BY <1>2, <1>4, <1>5, TimesAreEnds DEF Grant
  <1>7. grants' \subseteq Grant
    BY <1>1, <1>6 DEF TypeOK
  <1>8. rows' \subseteq Row /\ rels' \subseteq Relation /\ lengthened' \subseteq RowIds
    BY DEF RevokeConsent, TypeOK
  <1> QED
    BY <1>1, <1>2, <1>7, <1>8, OpsType DEF TypeOK

LEMMA CorrectType ==
    ASSUME TypeOK, now <= MaxTime, now' = now + 1, NEW c \in Command, CorrectOntologyVersion(c)
    PROVE  TypeOK'
  <1>1. PICK x \in Granted(c), w \in Current(c.rec) :
        /\ rows' = (rows \ {w}) \cup {[w EXCEPT !.st = x.at],
                                      Version(c.rec, x.at, 1, w.vf, c.eff, None, w.under),
                                      Version(c.rec, x.at, 2, c.eff, w.vt, None, w.under)}
        /\ ops' = x.left
    BY DEF CorrectOntologyVersion
  <1>2. x.at \in Times /\ x.left \subseteq ops
    BY GrantedWrites DEF Writes
  <1>3. c.rec \in Records /\ c.eff \in Ends
    BY CommandType, TimesAreEnds DEF CommandFields, CorrectOntologyVersion
  <1>4. w \in Row /\ w.vf \in Ends /\ w.vt \in Ends /\ w.under \in GrantIds \cup {None}
    BY DEF Current, TypeOK, Row
  <1>5. Version(c.rec, x.at, 1, w.vf, c.eff, None, w.under) \in Row
    BY <1>2, <1>3, <1>4, VersionType, NumberTypes
  <1>6. Version(c.rec, x.at, 2, c.eff, w.vt, None, w.under) \in Row
    BY <1>2, <1>3, <1>4, VersionType, NumberTypes
  <1>7. rows' \subseteq Row
    BY <1>1, <1>2, <1>4, <1>5, <1>6, ClosedType DEF TypeOK
  <1>8. grants' \subseteq Grant /\ rels' \subseteq Relation /\ lengthened' \subseteq RowIds
    BY DEF CorrectOntologyVersion, TypeOK
  <1> QED
    BY <1>1, <1>2, <1>7, <1>8, OpsType DEF TypeOK

LEMMA ContestType ==
    ASSUME TypeOK, now <= MaxTime, now' = now + 1, NEW c \in Command, ContestOntologyVersion(c)
    PROVE  TypeOK'
  <1>1. PICK x \in Granted(c), w \in Current(c.rec) :
        /\ rows' = (rows \ {w}) \cup {[w EXCEPT !.st = x.at],
                                      Version(c.rec, x.at, 1, w.vf, w.vt, x.at, w.under),
                                      Version(c.rec, x.at, 2, w.vf, w.vt, x.at, w.under)}
        /\ ops' = x.left
    BY DEF ContestOntologyVersion
  <1>2. x.at \in Times /\ x.left \subseteq ops
    BY GrantedWrites DEF Writes
  <1>3. c.rec \in Records
    BY CommandType DEF CommandFields, ContestOntologyVersion
  <1>4. w \in Row /\ w.vf \in Ends /\ w.vt \in Ends /\ w.under \in GrantIds \cup {None}
    BY DEF Current, TypeOK, Row
  <1>5. Version(c.rec, x.at, 1, w.vf, w.vt, x.at, w.under) \in Row
    BY <1>2, <1>3, <1>4, VersionType, NumberTypes
  <1>6. Version(c.rec, x.at, 2, w.vf, w.vt, x.at, w.under) \in Row
    BY <1>2, <1>3, <1>4, VersionType, NumberTypes
  <1>7. rows' \subseteq Row
    BY <1>1, <1>2, <1>4, <1>5, <1>6, ClosedType DEF TypeOK
  <1>8. grants' \subseteq Grant /\ rels' \subseteq Relation /\ lengthened' \subseteq RowIds
    BY DEF ContestOntologyVersion, TypeOK
  <1> QED
    BY <1>1, <1>2, <1>7, <1>8, OpsType DEF TypeOK

\* An edge between the versions that a transition binds is a relation.
LEMMA TransitionType ==
    ASSUME TypeOK, NEW c, NEW b \in TransitionRequests(c), NEW at \in Times
    PROVE  Edge(b[1], b[2], None, at) \in Relation
  <1>1. b[1] \in RowIds /\ b[2] \in RowIds
    BY IdTypes DEF TransitionRequests, Current
  <1> QED
    BY <1>1, TimesAreEnds DEF Edge, Relation

LEMMA ContradictType ==
    ASSUME TypeOK, now <= MaxTime, now' = now + 1, NEW c \in Command, Contradict(c)
    PROVE  TypeOK'
  <1>1. PICK x \in Granted(c) :
        /\ rels' = rels \cup {Edge(x.bound[1], x.bound[2], None, x.at)}
        /\ ops' = x.left
    BY DEF Contradict
  <1>2. x.at \in Times /\ x.left \subseteq ops /\ x.bound \in TransitionRequests(c)
    BY GrantedWrites DEF Writes, Requests, ReviewKinds, Contradict
  <1>3. rels' \subseteq Relation
    BY <1>1, <1>2, TransitionType DEF TypeOK
  <1>4. rows' \subseteq Row /\ grants' \subseteq Grant /\ lengthened' \subseteq RowIds
    BY DEF Contradict, TypeOK
  <1> QED
    BY <1>1, <1>2, <1>3, <1>4, OpsType DEF TypeOK

\* The edges that a record's end closes are relations.
LEMMA EdgesType ==
    ASSUME TypeOK, NEW r, NEW at \in Times
    PROVE  EdgesClosed(r, at) \subseteq Relation
  <1>1. \A e \in rels : e \in Relation /\ [e EXCEPT !.st = at] \in Relation
    BY TimesAreEnds DEF TypeOK, Relation
  <1> QED
    BY <1>1 DEF EdgesClosed

LEMMA SupersedeType ==
    ASSUME TypeOK, now <= MaxTime, now' = now + 1, NEW c \in Command, Supersede(c)
    PROVE  TypeOK'
  <1>1. PICK x \in Granted(c), w \in Current(c.tgt) :
        /\ rows' = (rows \ {w}) \cup {[w EXCEPT !.vt = x.at, !.st = x.at]}
        /\ lengthened' = lengthened \cup (IF w.vt < x.at THEN {IdOf(w)} ELSE {})
        /\ rels' = EdgesClosed(c.tgt, x.at) \cup {Edge(x.bound[1], x.bound[2], None, x.at)}
        /\ ops' = x.left
    BY DEF Supersede
  <1>2. x.at \in Times /\ x.left \subseteq ops /\ x.bound \in TransitionRequests(c)
    BY GrantedWrites DEF Writes, Requests, ReviewKinds, Supersede
  <1>3. rows' \subseteq Row
    BY <1>1, <1>2, ClosedType DEF TypeOK, Current
  <1>4. lengthened' \subseteq RowIds
    <2>1. IdOf(w) \in RowIds
      BY IdTypes DEF Current
    <2> QED
      BY <1>1, <2>1 DEF TypeOK
  <1>5. rels' \subseteq Relation
    BY <1>1, <1>2, EdgesType, TransitionType
  <1>6. grants' \subseteq Grant
    BY DEF Supersede, TypeOK
  <1> QED
    BY <1>1, <1>2, <1>3, <1>4, <1>5, <1>6, OpsType DEF TypeOK

LEMMA TombstoneType ==
    ASSUME TypeOK, now <= MaxTime, now' = now + 1, NEW c \in Command,
           TombstoneNode(c) \/ RejectNode(c)
    PROVE  TypeOK'
  <1>1. PICK x \in Granted(c), w \in Current(c.rec) :
        /\ rows' = (rows \ {w}) \cup {[w EXCEPT !.st = x.at]}
        /\ rels' = EdgesClosed(c.rec, x.at) \/ rels' = rels
        /\ ops' = x.left
    BY DEF TombstoneNode, RejectNode
  <1>2. x.at \in Times /\ x.left \subseteq ops
    BY GrantedWrites DEF Writes
  <1>3. rows' \subseteq Row
    BY <1>1, <1>2, ClosedType DEF TypeOK, Current
  <1>4. rels' \subseteq Relation
    BY <1>1, <1>2, EdgesType DEF TypeOK
  <1>5. grants' \subseteq Grant /\ lengthened' \subseteq RowIds
    BY DEF TombstoneNode, RejectNode, TypeOK
  <1> QED
    BY <1>1, <1>2, <1>3, <1>4, <1>5, OpsType DEF TypeOK

LEMMA RatifyType ==
    ASSUME TypeOK, now <= MaxTime, now' = now + 1, NEW c \in Command, RatifyNode(c)
    PROVE  TypeOK'
  <1>1. PICK x \in Granted(c), w \in Current(c.rec) :
        /\ rows' = (rows \ {w}) \cup {[w EXCEPT !.st = x.at],
                                      Version(c.rec, x.at, 3, w.vf, w.vt, None, None)}
        /\ ops' = x.left
    BY DEF RatifyNode
  <1>2. x.at \in Times /\ x.left \subseteq ops
    BY GrantedWrites DEF Writes
  <1>3. c.rec \in Records
    BY CommandType DEF CommandFields, RatifyNode, ReviewKinds
  <1>4. w \in Row /\ w.vf \in Ends /\ w.vt \in Ends
    BY DEF Current, TypeOK, Row
  <1>5. Version(c.rec, x.at, 3, w.vf, w.vt, None, None) \in Row
    BY <1>2, <1>3, <1>4, VersionType, NumberTypes
  <1>6. rows' \subseteq Row
    BY <1>1, <1>2, <1>4, <1>5, ClosedType DEF TypeOK
  <1>7. grants' \subseteq Grant /\ rels' \subseteq Relation /\ lengthened' \subseteq RowIds
    BY DEF RatifyNode, TypeOK
  <1> QED
    BY <1>1, <1>2, <1>6, <1>7, OpsType DEF TypeOK

LEMMA TombstoneGrantType ==
    ASSUME TypeOK, now <= MaxTime, now' = now + 1, NEW c \in Command, TombstoneGrant(c)
    PROVE  TypeOK'
  <1>1. PICK x \in Granted(c), v \in CurrentGrant(c.grant) :
        /\ grants' = (grants \ {v}) \cup {[v EXCEPT !.st = x.at]}
        /\ ops' = x.left
    BY DEF TombstoneGrant
  <1>2. x.at \in Times /\ x.left \subseteq ops
    BY GrantedWrites DEF Writes
  <1>3. v \in Grant
    BY DEF CurrentGrant, TypeOK
  <1>4. [v EXCEPT !.st = x.at] \in Grant
    BY <1>2, <1>3, TimesAreEnds DEF Grant
  <1>5. grants' \subseteq Grant
    BY <1>1, <1>4 DEF TypeOK
  <1>6. rows' \subseteq Row /\ rels' \subseteq Relation /\ lengthened' \subseteq RowIds
    BY DEF TombstoneGrant, TypeOK
  <1> QED
    BY <1>1, <1>2, <1>5, <1>6, OpsType DEF TypeOK

LEMMA InsertType ==
    ASSUME TypeOK, now <= MaxTime, now' = now + 1, NEW c \in Command, c.kind \in RelationKinds,
           InsertRelation(c)
    PROVE  TypeOK'
  <1>1. PICK x \in Granted(c) :
        /\ rels' = rels \cup {Edge(c.src, c.tgt, c.under, x.at)}
        /\ ops' = x.left
    BY DEF InsertRelation
  <1>2. x.at \in Times /\ x.left \subseteq ops
    BY GrantedWrites DEF Writes
  <1>3. c.src \in RowIds /\ c.tgt \in RowIds /\ c.under \in GrantIds \cup {None}
    BY CommandType DEF CommandFields
  <1>4. rels' \subseteq Relation
    BY <1>1, <1>2, <1>3, TimesAreEnds DEF TypeOK, Edge, Relation
  <1>5. rows' \subseteq Row /\ grants' \subseteq Grant /\ lengthened' \subseteq RowIds
    BY DEF InsertRelation, TypeOK
  <1> QED
    BY <1>1, <1>2, <1>4, <1>5, OpsType DEF TypeOK

LEMMA NextType == TypeOK /\ [Next]_vars => TypeOK'
  <1> SUFFICES ASSUME TypeOK, [Next]_vars PROVE TypeOK'
    OBVIOUS
  <1>1. CASE UNCHANGED vars
    BY <1>1 DEF vars, TypeOK
  <1>2. CASE Next
    <2>1. now <= MaxTime /\ now' = now + 1
      BY <1>2 DEF Next
    <2>2. PICK c \in Command :
        \/ Prepare(c) \/ AppendOntologyBundle(c) \/ AppendSemanticNode(c)
        \/ AppendDerivedNode(c) \/ GrantConsent(c) \/ RevokeConsent(c)
        \/ CorrectOntologyVersion(c) \/ ContestOntologyVersion(c) \/ TombstoneNode(c)
        \/ RatifyNode(c) \/ RejectNode(c) \/ TombstoneGrant(c) \/ Contradict(c)
        \/ Supersede(c) \/ AppendBusinessRelation(c) \/ AppendOntologyContradiction(c)
        \/ AppendSemanticRelation(c)
      BY <1>2 DEF Next
    <2>3. CASE AppendBusinessRelation(c) \/ AppendOntologyContradiction(c) \/ AppendSemanticRelation(c)
      <3>1. InsertRelation(c) /\ c.kind \in RelationKinds
        BY <2>3 DEF AppendBusinessRelation, AppendOntologyContradiction, AppendSemanticRelation,
                    RelationKinds
      <3> QED
        BY <2>1, <3>1, InsertType
    <2> QED
      BY <2>1, <2>2, <2>3, PrepareType, BundleType, NodeType, DerivedType, GrantType, RevokeType,
         CorrectType, ContestType, ContradictType, SupersedeType, TombstoneType, RatifyType,
         TombstoneGrantType
  <1> QED
    BY <1>1, <1>2

\* Whatever is prepared, approved and executed, every version, grant, relation and
\* pending mutation of the store has its type: in particular a revocation always has a
\* definite time (revoke_consent lets the clock stand in), and the time frozen with a
\* mutation is before the call that executes it.
THEOREM TypeCorrect == Spec => []TypeOK
  BY InitType, NextType, PTL DEF Spec

-----------------------------------------------------------------------------
(* Consent.  A grant has at most one current version, and one that was     *)
(* closed was closed before the present call: so the version that allows a *)
(* record at the clock's time is the one that stands.                      *)

GrantInv ==
    /\ \A v \in grants : v.st = Forever \/ v.st < now
    /\ \A u, v \in grants : (u.grant = v.grant /\ u.st = Forever /\ v.st = Forever) => u = v

LEMMA GrantConsentInv ==
    ASSUME TypeOK, GrantInv, now <= MaxTime, now' = now + 1, NEW c \in Command, GrantConsent(c)
    PROVE  GrantInv'
  <1>1. PICK x \in Granted(c) :
        grants' = grants \cup {[grant |-> c.grant, sf |-> x.at, st |-> Forever,
                                vf |-> c.from, until |-> c.to, revoked |-> None]}
    BY DEF GrantConsent
  <1>2. \A v \in grants : v.grant # c.grant
    <2>1. x.bound \in GrantRequests(c)
      BY GrantedWrites DEF Writes, Requests, ReviewKinds, GrantConsent
    <2> QED
      BY <2>1 DEF GrantRequests, OnlyIf
  <1>3. \A v \in grants : v.st \in Nat
    BY OntologyAssumption DEF TypeOK, Grant, Ends, Forever
  <1>4. now \in Nat
    BY OntologyAssumption DEF TypeOK, Ends, Forever
  <1>5. \A v \in grants' : v.st = Forever \/ v.st < now'
    BY <1>1, <1>3, <1>4 DEF GrantInv
  <1>6. \A u, v \in grants' : (u.grant = v.grant /\ u.st = Forever /\ v.st = Forever) => u = v
    BY <1>1, <1>2 DEF GrantInv
  <1> QED
    BY <1>5, <1>6 DEF GrantInv, Forever

LEMMA RevokeConsentInv ==
    ASSUME TypeOK, GrantInv, now <= MaxTime, now' = now + 1, NEW c \in Command, RevokeConsent(c)
    PROVE  GrantInv'
  <1>1. PICK x \in Granted(c), v \in CurrentGrant(c.grant) :
        grants' = (grants \ {v}) \cup {[v EXCEPT !.st = x.at],
                                       [v EXCEPT !.sf = x.at, !.revoked = x.bound[2]]}
    BY DEF RevokeConsent
  <1>2. x.at \in Times /\ x.at < now
    BY GrantedWrites, WritesBefore DEF Writes, NeedsApproval, RevokeConsent, RelationKinds
  <1>3. v \in grants /\ v \in Grant /\ v.st = Forever
    BY DEF CurrentGrant, TypeOK
  <1> DEFINE closed == [v EXCEPT !.st = x.at]
             opened == [v EXCEPT !.sf = x.at, !.revoked = x.bound[2]]
  <1>4. /\ closed.st = x.at
        /\ opened.st = Forever /\ opened.grant = v.grant
    BY <1>3 DEF Grant
  <1>5. now \in Nat /\ x.at \in Nat /\ x.at # Forever
    BY <1>2, OntologyAssumption DEF TypeOK, Ends, Forever, Times
  <1>6. \A u \in grants : u.st \in Nat
    BY OntologyAssumption DEF TypeOK, Grant, Ends, Forever
  <1>7. \A u \in grants' : u \in grants \ {v} \/ u = closed \/ u = opened
    BY <1>1
  <1> HIDE DEF closed, opened
  <1>8. \A u \in grants' : u.st = Forever \/ u.st < now'
    BY <1>2, <1>4, <1>5, <1>6, <1>7 DEF GrantInv
  <1>9. \A u \in grants' : u.st = Forever => u = opened \/ (u \in grants \ {v})
    BY <1>4, <1>5, <1>7
  <1>10. \A u \in grants \ {v} : u.st = Forever => u.grant # v.grant
    BY <1>3 DEF GrantInv
  <1>11. \A t, u \in grants' : (t.grant = u.grant /\ t.st = Forever /\ u.st = Forever) => t = u
    BY <1>4, <1>9, <1>10 DEF GrantInv
  <1> QED
    BY <1>8, <1>11 DEF GrantInv, Forever

LEMMA TombstoneGrantInv ==
    ASSUME TypeOK, GrantInv, now <= MaxTime, now' = now + 1, NEW c \in Command, TombstoneGrant(c)
    PROVE  GrantInv'
  <1>1. PICK x \in Granted(c), v \in CurrentGrant(c.grant) :
        grants' = (grants \ {v}) \cup {[v EXCEPT !.st = x.at]}
    BY DEF TombstoneGrant
  <1>2. x.at \in Times /\ x.at < now
    BY GrantedWrites, WritesBefore DEF Writes, NeedsApproval, TombstoneGrant, RelationKinds
  <1> DEFINE closed == [v EXCEPT !.st = x.at]
  <1>3. closed.st = x.at
    BY DEF CurrentGrant, TypeOK, Grant
  <1>4. now \in Nat /\ x.at \in Nat /\ x.at # Forever
    BY <1>2, OntologyAssumption DEF TypeOK, Ends, Forever, Times
  <1>5. \A u \in grants : u.st \in Nat
    BY OntologyAssumption DEF TypeOK, Grant, Ends, Forever
  <1>6. \A u \in grants' : u \in grants \/ u = closed
    BY <1>1
  <1> HIDE DEF closed
  <1>7. \A u \in grants' : u.st = Forever \/ u.st < now'
    BY <1>2, <1>3, <1>4, <1>5, <1>6 DEF GrantInv
  <1>8. \A t, u \in grants' : (t.grant = u.grant /\ t.st = Forever /\ u.st = Forever) => t = u
    BY <1>3, <1>4, <1>6 DEF GrantInv
  <1> QED
    BY <1>7, <1>8 DEF GrantInv, Forever

LEMMA NextGrantInv == TypeOK /\ GrantInv /\ [Next]_vars => GrantInv'
  <1> SUFFICES ASSUME TypeOK, GrantInv, [Next]_vars PROVE GrantInv'
    OBVIOUS
  <1>1. CASE UNCHANGED vars
    BY <1>1 DEF vars, GrantInv, Forever
  <1>2. CASE Next
    <2>1. now <= MaxTime /\ now' = now + 1 /\ now \in Nat
      BY <1>2, OntologyAssumption DEF Next, TypeOK, Ends, Forever
    <2>2. PICK c \in Command :
            GrantConsent(c) \/ RevokeConsent(c) \/ TombstoneGrant(c) \/ UNCHANGED grants
      BY <1>2 DEF Next, Prepare, AppendOntologyBundle, AppendSemanticNode, AppendDerivedNode,
                  CorrectOntologyVersion, ContestOntologyVersion, Contradict, Supersede,
                  TombstoneNode, RatifyNode, RejectNode,
                  AppendBusinessRelation, AppendOntologyContradiction, AppendSemanticRelation,
                  InsertRelation
    <2>3. CASE UNCHANGED grants
      <3>1. \A v \in grants : v.st \in Nat
        BY OntologyAssumption DEF TypeOK, Grant, Ends, Forever
      <3> QED
        BY <2>1, <2>3, <3>1 DEF GrantInv, Forever
    <2> QED
      BY <2>1, <2>2, <2>3, GrantConsentInv, RevokeConsentInv, TombstoneGrantInv
  <1> QED
    BY <1>1, <1>2

\* The grant v stands for a record that begins at valid: it is current, it has not ended
\* by then, and it is not revoked by the present call.
Stands(v, valid) ==
    v.st = Forever /\ valid < v.until /\ (v.revoked = None \/ now < v.revoked)

LEMMA AllowedStands ==
    ASSUME TypeOK, GrantInv, NEW v \in grants, NEW valid, ConsentAllows(v, valid, now)
    PROVE  Stands(v, valid)
  <1>1. v.st \in Nat /\ now \in Nat
    BY OntologyAssumption DEF TypeOK, Grant, Ends, Forever
  <1> QED
    BY <1>1 DEF GrantInv, ConsentAllows, Stands

LEMMA BundleStands ==
    ASSUME TypeOK, GrantInv, now <= MaxTime, NEW c \in Command, AppendOntologyBundle(c),
           NEW w \in rows', w.under # None, ~Exists(w.rec)
    PROVE  \E v \in grants : GrantId(v) = w.under /\ (v.grant \in Legacy \/ Stands(v, w.vf))
  <1>1. PICK x \in Granted(c) :
        rows' = rows \cup {Version(r, x.at, 1, c.from, c.to, None, c.under) : r \in c.recs}
    BY DEF AppendOntologyBundle
  <1>2. w \notin rows
    BY DEF Exists
  <1>3. w.under = c.under /\ w.vf = c.from
    BY <1>1, <1>2 DEF Version
  <1>4. x.bound \in BundleRequests(c)
    BY GrantedWrites DEF Writes, Requests, ReviewKinds, AppendOntologyBundle
  <1>5. PICK v \in grants : /\ GrantId(v) = c.under
                            /\ v.grant \in Legacy \/ ConsentAllows(v, c.from, now)
    BY <1>3, <1>4 DEF BundleRequests, OnlyIf
  <1> QED
    BY <1>3, <1>5, AllowedStands

LEMMA NodeStands ==
    ASSUME TypeOK, GrantInv, now <= MaxTime, NEW c \in Command, AppendSemanticNode(c),
           NEW w \in rows', w.under # None, ~Exists(w.rec)
    PROVE  \E v \in grants : GrantId(v) = w.under /\ Stands(v, w.vf)
  <1>1. PICK x \in Granted(c), under \in {GrantId(v) : v \in CurrentGrant(c.under)} \cup {None} :
        /\ (under = None) = (c.under = None)
        /\ rows' = rows \cup {Version(c.rec, x.at, 0, c.from, Forever, None, under)}
    BY DEF AppendSemanticNode
  <1>2. w \notin rows
    BY DEF Exists
  <1>3. w.under = under /\ under # None /\ c.under # None /\ w.vf = c.from
    BY <1>1, <1>2 DEF Version
  <1>4. PICK u \in CurrentGrant(c.under) : under = GrantId(u)
    BY <1>1, <1>3
  <1>5. x.bound \in NodeRequests(c)
    BY GrantedWrites DEF Writes, Requests, ReviewKinds, AppendSemanticNode
  <1>6. PICK v \in CurrentGrant(c.under) : ConsentAllows(v, c.from, now)
    BY <1>3, <1>5 DEF NodeRequests, OnlyIf
  <1>7. u = v /\ v \in grants
    BY <1>4, <1>6 DEF CurrentGrant, GrantInv
  <1> QED
    BY <1>3, <1>4, <1>6, <1>7, AllowedStands

\* The other steps store no record under a grant that is not stored already.
LEMMA RevisionStands ==
    ASSUME TypeOK, NEW c \in Command,
           \/ CorrectOntologyVersion(c) \/ ContestOntologyVersion(c) \/ Supersede(c)
           \/ TombstoneNode(c) \/ RatifyNode(c) \/ RejectNode(c)
           \/ AppendDerivedNode(c) \/ UNCHANGED rows
    PROVE  \A w \in rows' : w.under = None \/ Exists(w.rec)
  <1> DEFINE Old(w) == w.under = None \/ Exists(w.rec)
  <1>0. \A w \in rows : Old(w)
    BY DEF Exists
  <1>1. \A r : \A w \in Current(r) : w \in Row /\ w.rec = r /\ Exists(r)
    BY DEF Current, TypeOK, Exists
  <1>4. CASE CorrectOntologyVersion(c)
    <2>1. PICK x \in Granted(c), w \in Current(c.rec) :
            rows' = (rows \ {w}) \cup {[w EXCEPT !.st = x.at],
                                       Version(c.rec, x.at, 1, w.vf, c.eff, None, w.under),
                                       Version(c.rec, x.at, 2, c.eff, w.vt, None, w.under)}
      BY <1>4 DEF CorrectOntologyVersion
    <2>2. [w EXCEPT !.st = x.at].rec = c.rec
      BY <1>1 DEF Row
    <2>3. /\ Version(c.rec, x.at, 1, w.vf, c.eff, None, w.under).rec = c.rec
          /\ Version(c.rec, x.at, 2, c.eff, w.vt, None, w.under).rec = c.rec
      BY DEF Version
    <2>4. \A y \in rows' : y \in rows \/ y.rec = c.rec
      BY <2>1, <2>2, <2>3
    <2> QED
      BY <1>0, <1>1, <2>4
  <1>5. CASE ContestOntologyVersion(c)
    <2>1. PICK x \in Granted(c), w \in Current(c.rec) :
            rows' = (rows \ {w}) \cup {[w EXCEPT !.st = x.at],
                                       Version(c.rec, x.at, 1, w.vf, w.vt, x.at, w.under),
                                       Version(c.rec, x.at, 2, w.vf, w.vt, x.at, w.under)}
      BY <1>5 DEF ContestOntologyVersion
    <2>2. [w EXCEPT !.st = x.at].rec = c.rec
      BY <1>1 DEF Row
    <2>3. /\ Version(c.rec, x.at, 1, w.vf, w.vt, x.at, w.under).rec = c.rec
          /\ Version(c.rec, x.at, 2, w.vf, w.vt, x.at, w.under).rec = c.rec
      BY DEF Version
    <2>4. \A y \in rows' : y \in rows \/ y.rec = c.rec
      BY <2>1, <2>2, <2>3
    <2> QED
      BY <1>0, <1>1, <2>4
  <1>6. CASE Supersede(c)
    <2>1. PICK x \in Granted(c), w \in Current(c.tgt) :
            rows' = (rows \ {w}) \cup {[w EXCEPT !.vt = x.at, !.st = x.at]}
      BY <1>6 DEF Supersede
    <2>2. [w EXCEPT !.vt = x.at, !.st = x.at].rec = c.tgt
      BY <1>1 DEF Row
    <2>3. \A y \in rows' : y \in rows \/ y.rec = c.tgt
      BY <2>1, <2>2
    <2> QED
      BY <1>0, <1>1, <2>3
  <1>7. CASE TombstoneNode(c) \/ RejectNode(c)
    <2>1. PICK x \in Granted(c), w \in Current(c.rec) :
            rows' = (rows \ {w}) \cup {[w EXCEPT !.st = x.at]}
      BY <1>7 DEF TombstoneNode, RejectNode
    <2>2. [w EXCEPT !.st = x.at].rec = c.rec
      BY <1>1 DEF Row
    <2>3. \A y \in rows' : y \in rows \/ y.rec = c.rec
      BY <2>1, <2>2
    <2> QED
      BY <1>0, <1>1, <2>3
  <1>8. CASE RatifyNode(c)
    <2>1. PICK x \in Granted(c), w \in Current(c.rec) :
            rows' = (rows \ {w}) \cup {[w EXCEPT !.st = x.at],
                                       Version(c.rec, x.at, 3, w.vf, w.vt, None, None)}
      BY <1>8 DEF RatifyNode
    <2>2. [w EXCEPT !.st = x.at].rec = c.rec
      BY <1>1 DEF Row
    <2>3. Version(c.rec, x.at, 3, w.vf, w.vt, None, None).rec = c.rec
      BY DEF Version
    <2>4. \A y \in rows' : y \in rows \/ y.rec = c.rec
      BY <2>1, <2>2, <2>3
    <2> QED
      BY <1>0, <1>1, <2>4
  <1>9. CASE AppendDerivedNode(c)
    BY <1>0, <1>9 DEF AppendDerivedNode, Version
  <1>10. CASE UNCHANGED rows
    BY <1>0, <1>10
  <1> QED
    BY <1>4, <1>5, <1>6, <1>7, <1>8, <1>9, <1>10

LEMMA NextStands ==
    TypeOK /\ GrantInv /\ [Next]_vars =>
        [\A w \in rows' : (w.under # None /\ ~Exists(w.rec)) =>
            \E v \in grants : /\ GrantId(v) = w.under
                              /\ v.grant \in Legacy \/
                                    /\ v.st = Forever /\ w.vf < v.until
                                    /\ v.revoked = None \/ now < v.revoked]_vars
  <1> SUFFICES ASSUME TypeOK, GrantInv, Next,
                      NEW w \in rows', w.under # None, ~Exists(w.rec)
               PROVE  \E v \in grants : /\ GrantId(v) = w.under
                                        /\ v.grant \in Legacy \/ Stands(v, w.vf)
    BY DEF Stands
  <1>1. now <= MaxTime
    BY DEF Next
  <1>2. PICK c \in Command :
        \/ AppendOntologyBundle(c) \/ AppendSemanticNode(c)
        \/ CorrectOntologyVersion(c) \/ ContestOntologyVersion(c) \/ Supersede(c)
        \/ TombstoneNode(c) \/ RatifyNode(c) \/ RejectNode(c)
        \/ AppendDerivedNode(c) \/ UNCHANGED rows
    BY DEF Next, Prepare, GrantConsent, RevokeConsent, TombstoneGrant, Contradict,
           AppendBusinessRelation, AppendOntologyContradiction, AppendSemanticRelation,
           InsertRelation
  <1> QED
    BY <1>1, <1>2, BundleStands, NodeStands, RevisionStands

\* A bundle or a node that names a grant is stored only while that grant is current, has
\* not ended by the time the record begins and is not revoked, however long before it was
\* prepared and approved: append_ontology_bundle and append_semantic_node ask for consent
\* at the clock's time and not at the one frozen with the mutation.  Legacy grants are
\* excepted, because append_ontology_bundle does not check them.
THEOREM ConsentStandsAtExecution == Spec => StoredUnderStandingGrant
  <1>1. Init => GrantInv
    BY DEF Init, GrantInv
  <1>2. Spec => [](TypeOK /\ GrantInv)
    BY <1>1, InitType, NextType, NextGrantInv, PTL DEF Spec
  <1> QED
    BY <1>2, NextStands, PTL DEF Spec, StoredUnderStandingGrant

-----------------------------------------------------------------------------
(* The versions of a record.  That two versions never overlap unless they  *)
(* contest each other is not inductive by itself: a correction or contest  *)
(* is written at a FROZEN time, so that the version it replaces has to be  *)
(* older than the mutation, no other version may share its instant, and it *)
(* must not be one whose valid time was made longer.                       *)

\* Versions, and those that corrections and contests bind, are older than the clock and
\* the mutation.
Clocked ==
    /\ \A w \in rows : w.sf < now
    /\ \A o \in ops : o.cmd.kind \in {"correct", "contest"} => o.bound[2] < o.at

\* A frozen time belongs to one mutation, and no version carries it yet.
OwnInstant ==
    /\ \A o, p \in ops : o.at = p.at => o = p
    /\ \A o \in ops, w \in rows : w.sf # o.at

\* A version is named by its record, its instant and its number.
Named == \A w, x \in rows : IdOf(w) = IdOf(x) => w = x

\* The members of a contest are semantic versions of one record, one instant and one
\* beginning of valid time.
Contested ==
    \A w \in rows : w.set # None =>
        /\ Semantic(w) /\ w.set = w.sf
        /\ \A x \in rows : x.set = w.set => x.rec = w.rec /\ x.vf = w.vf

\* What was made longer was closed by the same supersession.
LengthenedClosed == \A i \in lengthened : \E w \in rows : IdOf(w) = i /\ w.st # Forever

\* One ends, in valid or in system time, before the other begins.
Disjoint(w, x) ==
    \/ w.vt <= x.vf \/ x.vt <= w.vf
    \/ w.st <= x.sf \/ x.st <= w.sf

\* A version that ontology_as_of can find, with the valid time it was given
Regular(w) == Semantic(w) /\ IdOf(w) \notin lengthened

Apart ==
    \A w, x \in rows : (w.rec = x.rec /\ w # x /\ Regular(w) /\ Regular(x)) =>
        Disjoint(w, x) \/ (w.set # None /\ w.set = x.set)

VersionInv == Named /\ Contested /\ LengthenedClosed /\ Apart

RowInv == Clocked /\ OwnInstant /\ VersionInv

LEMMA InitRowInv == Init => RowInv
  <1> SUFFICES ASSUME Init PROVE RowInv
    OBVIOUS
  <1>1. \A w \in rows : w.sf = 1 /\ w.set = None /\ w = Version(w.rec, 1, 1, 1, Forever, None, None)
    BY DEF Init, Version
  <1>2. \A w, x \in rows : w.rec = x.rec => w = x
    BY <1>1
  <1>3. Clocked /\ OwnInstant /\ Contested
    BY <1>1 DEF Init, Clocked, OwnInstant, Contested
  <1>4. Named /\ LengthenedClosed /\ Apart
    BY <1>2 DEF Init, Named, IdOf, LengthenedClosed, Apart
  <1> QED
    BY <1>3, <1>4 DEF RowInv, VersionInv

\* VersionInv says why ontology_as_of is decided.
LEMMA VersionInvDecides ==
    ASSUME TypeOK, VersionInv
    PROVE  AsOfIsDecided
  <1> SUFFICES ASSUME NEW r \in Records, NEW valid \in Times, NEW system \in Times,
                      \A w \in AsOf(r, valid, system) : IdOf(w) \notin lengthened,
                      NEW w \in AsOf(r, valid, system)
               PROVE  /\ w.set = None => AsOf(r, valid, system) = {w}
                      /\ w.set # None =>
                          /\ \A x \in AsOf(r, valid, system) : x.set = w.set
                          /\ \A x \in rows : x.set = w.set =>
                                x \in AsOf(r, valid, system) \/ x.st <= system \/ x.vt < w.vt
    BY DEF AsOfIsDecided, Decided
  <1>1. \A x \in rows : x.sf \in Nat /\ x.st \in Nat /\ x.vf \in Nat /\ x.vt \in Nat
    BY OntologyAssumption DEF TypeOK, Row, Ends, Forever, Times
  <1>2. valid \in Nat /\ system \in Nat
    BY DEF Times
  <1>3. ASSUME NEW x \in AsOf(r, valid, system), x # w
        PROVE  w.set # None /\ w.set = x.set
    <2>1. w \in rows /\ x \in rows /\ w.rec = x.rec /\ Regular(w) /\ Regular(x)
      BY DEF AsOf, Regular
    <2>2. ~Disjoint(w, x)
      BY <1>1, <1>2, <2>1 DEF AsOf, ValidAt, Disjoint
    <2> QED
      BY <1>3, <2>1, <2>2 DEF VersionInv, Apart
  <1>4. ASSUME w.set # None, NEW x \in rows, x.set = w.set, ~(x.st <= system), ~(x.vt < w.vt)
        PROVE  x \in AsOf(r, valid, system)
    <2>1. w \in rows /\ w.rec = r /\ w.vf <= valid /\ valid < w.vt /\ w.sf <= system
      BY DEF AsOf, ValidAt
    <2>2. x.rec = w.rec /\ x.vf = w.vf /\ x.sf = w.sf /\ Semantic(x)
      BY <1>4, <2>1 DEF VersionInv, Contested
    <2>3. x.vf <= valid /\ valid < x.vt /\ x.sf <= system /\ system < x.st
      BY <1>1, <1>2, <1>4, <2>1, <2>2
    <2> QED
      BY <2>1, <2>2, <2>3 DEF AsOf, ValidAt
  <1> QED
    BY <1>3, <1>4

\* The instants of the clock: what a call writes carries its time, or a time that was there.
Dated(x) ==
    /\ ops' = x.left
    /\ \A y \in rows' : y.sf = x.at \/ \E z \in rows : y.sf = z.sf

LEMMA DatedKeepsTime ==
    ASSUME TypeOK, TypeOK', RowInv, now <= MaxTime, now' = now + 1, NEW c, NEW x, Writes(c, x), Dated(x)
    PROVE  Clocked' /\ OwnInstant'
  <1>1. now \in Nat /\ x.at \in Nat /\ x.at <= now
    BY WritesBefore, OntologyAssumption DEF TypeOK, Ends, Forever, Writes, Times
  <1>2. \A w \in rows : w.sf \in Nat
    BY DEF TypeOK, Row, Times
  <1>3. \A o \in ops : o.at \in Nat /\ o.at < now
    BY DEF TypeOK, Times
  <1>4. \A w \in rows' : w.sf < now'
    <2>1. \A w \in rows : w.sf < now
      BY DEF RowInv, Clocked
    <2> QED
      BY <1>1, <1>2, <2>1 DEF Dated
  <1>5. x.left \subseteq ops
    BY DEF Writes
  <1>6. \A o \in x.left : o.at # x.at
    BY <1>1, <1>3, <1>5 DEF Writes, RowInv, OwnInstant
  <1>7. \A o \in ops', w \in rows' : w.sf # o.at
    BY <1>5, <1>6 DEF Dated, RowInv, OwnInstant
  <1> QED
    BY <1>4, <1>5, <1>7 DEF Dated, Clocked, OwnInstant, RowInv

LEMMA PrepareKeepsTime ==
    ASSUME TypeOK, RowInv, now <= MaxTime, now' = now + 1, NEW c, Prepare(c)
    PROVE  Clocked' /\ OwnInstant'
  <1>1. PICK b \in Requests(c) : ops' = ops \cup {[cmd |-> c, bound |-> b, at |-> now]}
    BY DEF Prepare
  <1>2. rows' = rows /\ now \in Nat
    BY OntologyAssumption DEF Prepare, TypeOK, Ends, Forever
  <1>3. \A w \in rows : w.sf \in Nat /\ w.sf < now
    BY DEF TypeOK, Row, Times, RowInv, Clocked
  <1>4. \A o \in ops : o.at \in Nat /\ o.at < now
    BY DEF TypeOK, Times
  <1>5. ASSUME c.kind \in {"correct", "contest"} PROVE b[2] < now
    <2>1. b \in CorrectRequests(c) \/ b \in ContestRequests(c)
      BY <1>5 DEF Requests, ReviewKinds
    <2>2. PICK w \in rows : b = IdOf(w)
      BY <2>1 DEF CorrectRequests, ContestRequests, CurrentSemantic, Current
    <2> QED
      BY <1>3, <2>2 DEF IdOf
  <1>6. Clocked'
    BY <1>1, <1>2, <1>3, <1>5 DEF Clocked, RowInv
  <1>7. OwnInstant'
    BY <1>1, <1>2, <1>3, <1>4 DEF OwnInstant, RowInv
  <1> QED
    BY <1>6, <1>7

\* What is said of rows alone stays where rows do.
LEMMA SameRows ==
    ASSUME VersionInv, UNCHANGED <<rows, lengthened>>
    PROVE  VersionInv'
  BY DEF VersionInv, Named, IdOf, Contested, Semantic, LengthenedClosed, Apart, Regular, Disjoint,
         Forever

\* Records that were not stored before, each in one version.
Opened(N) ==
    /\ rows' = rows \cup N /\ lengthened' = lengthened
    /\ \A y \in N : y.set = None /\ \A w \in rows : w.rec # y.rec
    /\ \A y, z \in N : y.rec = z.rec => y = z

LEMMA OpenedKeeps ==
    ASSUME VersionInv, NEW N, Opened(N)
    PROVE  VersionInv'
  <1>1. Contested'
    BY DEF Opened, VersionInv, Contested, Semantic
  <1>2. LengthenedClosed'
    BY DEF Opened, VersionInv, LengthenedClosed, IdOf, Forever
  <1>3. Apart'
    BY DEF Opened, VersionInv, Apart, Regular, Semantic, IdOf, Disjoint
  <1>4. Named'
    BY DEF Opened, VersionInv, Named, IdOf
  <1> QED
    BY <1>1, <1>2, <1>3, <1>4 DEF VersionInv

\* A current version w is closed at a time that no version carries, and the versions of N
\* are opened in its place.
Replaced(w, closed, N, at) ==
    /\ w \in rows /\ w.st = Forever
    /\ at \in Times /\ \A x \in rows : x.sf # at
    /\ rows' = (rows \ {w}) \cup {closed} \cup N
    /\ closed.rec = w.rec /\ closed.sf = w.sf /\ closed.n = w.n
    /\ closed.vf = w.vf /\ closed.set = w.set /\ closed.st = at
    /\ \A y \in N : y.rec = w.rec /\ y.sf = at
    /\ \A y, z \in N : y.n = z.n => y = z

\* It was made longer if its valid time ends later, and only then counts as such.
Bounded(w, closed) ==
    /\ closed.vt \in Nat
    /\ \/ lengthened' = lengthened /\ closed.vt <= w.vt
       \/ lengthened' = lengthened \cup {IdOf(w)}

\* What is opened lies in the interval of w, unless ontology_as_of does not see it; two
\* versions that are opened are apart or the two members of one new contest.
Within(w, N, at) ==
    /\ \A y \in N : Semantic(y) =>
        /\ Semantic(w) /\ w.set = None /\ w.sf < at
        /\ y.vf \in Nat /\ y.vt \in Nat /\ w.vf <= y.vf /\ y.vt <= w.vt
    /\ \/ \A y \in N : y.set = None
       \/ \A y \in N : y.set = at /\ Semantic(y) /\ y.vf = w.vf
    /\ \A y, z \in N : (y # z /\ Semantic(y) /\ Semantic(z)) =>
        Disjoint(y, z) \/ (y.set # None /\ y.set = z.set)

LEMMA ReplacedNamed ==
    ASSUME Named, NEW w, NEW closed, NEW N, NEW at, Replaced(w, closed, N, at)
    PROVE  Named'
  <1> SUFFICES ASSUME NEW y \in rows', NEW x \in rows', y.rec = x.rec, y.sf = x.sf, y.n = x.n
               PROVE  y = x
    BY DEF Named, IdOf
  <1>1. \A u, v \in rows : (u.rec = v.rec /\ u.sf = v.sf /\ u.n = v.n) => u = v
    BY DEF Named, IdOf
  <1>2. \A u \in rows' : u \in rows \ {w} \/ u = closed \/ u \in N
    BY DEF Replaced
  <1>3. w \in rows /\ closed.rec = w.rec /\ closed.sf = w.sf /\ closed.n = w.n
    BY DEF Replaced
  <1>4. \A u \in N : u.sf = at /\ u.sf # closed.sf /\ \A v \in rows : v.sf # u.sf
    BY DEF Replaced
  <1>5. \A u, v \in N : u.n = v.n => u = v
    BY DEF Replaced
  <1>6. CASE y \in rows \ {w}
    <2>1. x # closed
      BY <1>1, <1>3, <1>6
    <2>2. x \notin N
      BY <1>4, <1>6
    <2> QED
      BY <1>1, <1>2, <1>6, <2>1, <2>2
  <1>7. CASE y = closed
    <2>1. x \notin rows \ {w}
      BY <1>1, <1>3, <1>7
    <2>2. x \notin N
      BY <1>4, <1>7
    <2> QED
      BY <1>2, <1>7, <2>1, <2>2
  <1>8. CASE y \in N
    <2>1. x \in N
      BY <1>2, <1>4, <1>8
    <2> QED
      BY <1>5, <1>8, <2>1
  <1> QED
    BY <1>2, <1>6, <1>7, <1>8

LEMMA ReplacedContested ==
    ASSUME Contested, NEW w, NEW closed, NEW N, NEW at, Replaced(w, closed, N, at), Within(w, N, at)
    PROVE  Contested'
  <1>1. \A u \in rows' : u \in rows \ {w} \/ u = closed \/ u \in N
    BY DEF Replaced
  <1>2. /\ w \in rows /\ closed.rec = w.rec /\ closed.sf = w.sf /\ closed.n = w.n
        /\ closed.vf = w.vf /\ closed.set = w.set
    BY DEF Replaced
  <1>3. at # None
    BY OntologyAssumption DEF Replaced, Times
  <1>4. \A x \in rows : x.set # at
    BY <1>3 DEF Contested, Replaced
  <1>5. \A u \in rows' \ N : \E v \in rows : /\ v.rec = u.rec /\ v.sf = u.sf /\ v.n = u.n
                                             /\ v.vf = u.vf /\ v.set = u.set
    BY <1>1, <1>2
  <1>6. ASSUME NEW y \in rows', y.set # None
        PROVE  /\ Semantic(y) /\ y.set = y.sf
               /\ \A x \in rows' : x.set = y.set => x.rec = y.rec /\ x.vf = y.vf
    <2>1. CASE y \in N
      <3>1. \A z \in N : z.set = at /\ Semantic(z) /\ z.vf = w.vf
        BY <1>6, <2>1 DEF Within
      <3>2. \A x \in rows' : x.set = at => x \in N
        BY <1>4, <1>5
      <3>3. \A z \in N : z.rec = w.rec /\ z.sf = at
        BY DEF Replaced
      <3> QED
        BY <2>1, <3>1, <3>2, <3>3
    <2>2. CASE y \notin N
      <3>1. PICK v \in rows : /\ v.rec = y.rec /\ v.sf = y.sf /\ v.n = y.n
                              /\ v.vf = y.vf /\ v.set = y.set
        BY <1>5, <2>2
      <3>2. \A x \in rows' : x.set = y.set => x \notin N
        BY <1>4, <1>6, <3>1 DEF Within
      <3>3. Semantic(v) /\ v.set = v.sf /\ \A x \in rows : x.set = v.set => x.rec = v.rec /\ x.vf = v.vf
        BY <1>6, <3>1 DEF Contested
      <3>4. \A x \in rows' : x.set = y.set => x.rec = y.rec /\ x.vf = y.vf
        <4> SUFFICES ASSUME NEW x \in rows', x.set = y.set PROVE x.rec = y.rec /\ x.vf = y.vf
          OBVIOUS
        <4>1. PICK u \in rows : u.rec = x.rec /\ u.vf = x.vf /\ u.set = x.set
          BY <1>5, <3>2
        <4> QED
          BY <3>1, <3>3, <4>1
      <3> QED
        BY <3>1, <3>3, <3>4 DEF Semantic
    <2> QED
      BY <2>1, <2>2
  <1> QED
    BY <1>6 DEF Contested, Semantic

LEMMA ReplacedLengthened ==
    ASSUME LengthenedClosed, NEW w, NEW closed, NEW N, NEW at, Replaced(w, closed, N, at),
           Bounded(w, closed)
    PROVE  LengthenedClosed'
  <1> SUFFICES ASSUME NEW i \in lengthened' PROVE \E y \in rows' : IdOf(y) = i /\ y.st # Forever
    BY DEF LengthenedClosed, IdOf, Forever
  <1>1. closed \in rows' /\ IdOf(closed) = IdOf(w) /\ closed.st # Forever
    BY TimesAreEnds DEF Replaced, IdOf
  <1>2. CASE i \in lengthened
    <2>1. PICK y \in rows : IdOf(y) = i /\ y.st # Forever
      BY <1>2 DEF LengthenedClosed
    <2>2. y \in rows'
      BY <2>1 DEF Replaced
    <2> QED
      BY <2>1, <2>2
  <1>3. CASE i \notin lengthened
    BY <1>1, <1>3 DEF Bounded
  <1> QED
    BY <1>2, <1>3

\* A version that is current was not made longer, and nothing that is opened was.
LEMMA CurrentIsRegular ==
    ASSUME Named, LengthenedClosed, NEW w \in rows, w.st = Forever
    PROVE  IdOf(w) \notin lengthened
  BY DEF Named, LengthenedClosed

LEMMA ReplacedApart ==
    ASSUME TypeOK, VersionInv, NEW w, NEW closed, NEW N, NEW at, Replaced(w, closed, N, at),
           Bounded(w, closed), Within(w, N, at)
    PROVE  Apart'
  <1>1. \A u \in rows' : u \in rows \ {w} \/ u = closed \/ u \in N
    BY DEF Replaced
  <1>2. /\ w \in rows /\ w.st = Forever /\ closed.rec = w.rec /\ closed.sf = w.sf
        /\ closed.n = w.n /\ closed.vf = w.vf /\ closed.set = w.set /\ closed.st = at
    BY DEF Replaced
  <1>3. \A x \in rows : /\ x.sf \in Nat /\ x.st \in Nat /\ x.vf \in Nat /\ x.vt \in Nat
                        /\ x.sf < Forever
    BY OntologyAssumption DEF TypeOK, Row, Ends, Forever, Times
  <1>4. at \in Nat /\ Forever \in Nat /\ at < Forever
    BY OntologyAssumption DEF Replaced, Times, Forever
  <1>5. IdOf(w) \notin lengthened /\ IdOf(closed) = IdOf(w) /\ lengthened \subseteq lengthened'
    BY <1>2, CurrentIsRegular DEF VersionInv, IdOf, Bounded
  <1> DEFINE Seen(u) == Semantic(u) /\ IdOf(u) \notin lengthened'
             Fine(u, v) == Disjoint(u, v) \/ (u.set # None /\ u.set = v.set)
  <1>6. \A x \in rows \ {w} : (x.rec = w.rec /\ Seen(x) /\ Semantic(w)) => Fine(w, x)
    BY <1>2, <1>5 DEF VersionInv, Apart, Regular
  <1>7. ASSUME NEW x \in rows \ {w}, x.rec = w.rec, Seen(x), Seen(closed)
        PROVE  Fine(closed, x) /\ Fine(x, closed)
    <2>1. closed.vt <= w.vt /\ closed.vt \in Nat
      BY <1>5, <1>7 DEF Bounded
    <2>2. Fine(w, x)
      BY <1>2, <1>6, <1>7 DEF Semantic
    <2> QED
      BY <1>2, <1>3, <1>4, <2>1, <2>2 DEF Disjoint
  <1>8. ASSUME NEW x \in rows \ {w}, x.rec = w.rec, Seen(x), NEW y \in N, Semantic(y)
        PROVE  Fine(y, x) /\ Fine(x, y)
    <2>1. /\ Semantic(w) /\ w.set = None /\ w.sf < at /\ y.sf = at
          /\ y.vf \in Nat /\ y.vt \in Nat /\ w.vf <= y.vf /\ y.vt <= w.vt
      BY <1>8 DEF Within, Replaced
    <2>2. Disjoint(w, x)
      BY <1>6, <1>8, <2>1
    <2> QED
      BY <1>2, <1>3, <1>4, <2>1, <2>2 DEF Disjoint
  <1>9. ASSUME NEW y \in N PROVE Fine(y, closed) /\ Fine(closed, y)
    BY <1>2, <1>4, <1>9 DEF Disjoint, Replaced
  <1>10. \A y, z \in N : (y # z /\ Semantic(y) /\ Semantic(z)) => Fine(y, z)
    BY DEF Within
  <1>11. \A x, y \in rows \ {w} : (x.rec = y.rec /\ x # y /\ Seen(x) /\ Seen(y)) => Fine(x, y)
    BY <1>5 DEF VersionInv, Apart, Regular
  <1>12. \A y \in N : y.rec = w.rec
    BY DEF Replaced
  <1>13. ASSUME NEW y \in rows', NEW x \in rows', y.rec = x.rec, y # x, Seen(y), Seen(x)
         PROVE  Fine(y, x)
    <2> HIDE DEF Fine
    <2>1. CASE y \in rows \ {w}
      BY <1>1, <1>2, <1>7, <1>8, <1>11, <1>12, <1>13, <2>1
    <2>2. CASE y = closed
      BY <1>1, <1>2, <1>7, <1>9, <1>13, <2>2
    <2>3. CASE y \in N
      BY <1>1, <1>8, <1>9, <1>10, <1>12, <1>13, <2>3
    <2> QED
      BY <1>1, <2>1, <2>2, <2>3
  <1> QED
    BY <1>13 DEF Apart, Regular, Semantic, IdOf, Disjoint

LEMMA ReplacedKeeps ==
    ASSUME TypeOK, VersionInv, NEW w, NEW closed, NEW N, NEW at, Replaced(w, closed, N, at),
           Bounded(w, closed), Within(w, N, at)
    PROVE  VersionInv'
  BY ReplacedNamed, ReplacedContested, ReplacedLengthened, ReplacedApart DEF VersionInv

\* A call on an approval writes at the instant of a mutation that was prepared: no version
\* carries it, and of a correction or contest the version that is bound is older.
LEMMA ApprovedInstant ==
    ASSUME TypeOK, RowInv, NEW c, NEW x, Writes(c, x), NeedsApproval(c)
    PROVE  /\ x.at \in Times /\ \A y \in rows : y.sf # x.at
           /\ c.kind \in {"correct", "contest"} => x.bound[2] < x.at
  <1>1. PICK o \in ops : o.cmd = c /\ o.bound = x.bound /\ o.at = x.at
    BY DEF Writes
  <1> QED
    BY <1>1 DEF Writes, RowInv, Clocked, OwnInstant

LEMMA BundleRows ==
    ASSUME TypeOK, RowInv, now <= MaxTime, NEW c \in Command, AppendOntologyBundle(c)
    PROVE  (\E x : Writes(c, x) /\ Dated(x)) /\ VersionInv'
  <1>1. PICK x \in Granted(c) :
        /\ rows' = rows \cup {Version(r, x.at, 1, c.from, c.to, None, c.under) : r \in c.recs}
        /\ ops' = x.left
    BY DEF AppendOntologyBundle
  <1> DEFINE N == {Version(r, x.at, 1, c.from, c.to, None, c.under) : r \in c.recs}
  <1>2. Writes(c, x)
    BY GrantedWrites
  <1>3. \A r \in c.recs : ~Exists(r)
    <2>1. x.bound \in BundleRequests(c)
      BY <1>2 DEF Writes, Requests, ReviewKinds, AppendOntologyBundle
    <2> QED
      BY <2>1 DEF BundleRequests, OnlyIf
  <1>4. \A y \in N : /\ y.rec \in c.recs /\ y.set = None /\ y.sf = x.at
                     /\ y = Version(y.rec, x.at, 1, c.from, c.to, None, c.under)
    BY DEF Version
  <1>5. Opened(N)
    BY <1>1, <1>3, <1>4 DEF Opened, Exists, AppendOntologyBundle
  <1>6. Dated(x)
    BY <1>1, <1>4 DEF Dated
  <1> QED
    BY <1>2, <1>5, <1>6, OpenedKeeps DEF RowInv

LEMMA NodeRows ==
    ASSUME TypeOK, RowInv, now <= MaxTime, NEW c \in Command, AppendSemanticNode(c)
    PROVE  (\E x : Writes(c, x) /\ Dated(x)) /\ VersionInv'
  <1>1. PICK x \in Granted(c), under \in {GrantId(v) : v \in CurrentGrant(c.under)} \cup {None} :
        /\ rows' = rows \cup {Version(c.rec, x.at, 0, c.from, Forever, None, under)}
        /\ ops' = x.left
    BY DEF AppendSemanticNode
  <1>2. Writes(c, x)
    BY GrantedWrites
  <1>3. ~Exists(c.rec)
    BY <1>2 DEF Writes, Requests, ReviewKinds, AppendSemanticNode, NodeRequests, OnlyIf
  <1>4. Opened({Version(c.rec, x.at, 0, c.from, Forever, None, under)})
    BY <1>1, <1>3 DEF Opened, Exists, Version, AppendSemanticNode
  <1>5. Dated(x)
    BY <1>1 DEF Dated, Version
  <1> QED
    BY <1>2, <1>4, <1>5, OpenedKeeps DEF RowInv

LEMMA DerivedRows ==
    ASSUME TypeOK, RowInv, now <= MaxTime, NEW c \in Command, AppendDerivedNode(c)
    PROVE  (\E x : Writes(c, x) /\ Dated(x)) /\ VersionInv'
  <1>1. PICK x \in Granted(c) :
        /\ rows' = rows \cup {Version(c.rec, x.at, 0, c.from, Forever, None, None)}
        /\ ops' = x.left
    BY DEF AppendDerivedNode
  <1>2. Writes(c, x)
    BY GrantedWrites
  <1>3. ~Exists(c.rec)
    BY <1>2 DEF Writes, Requests, ReviewKinds, AppendDerivedNode, DerivedRequests, OnlyIf
  <1>4. Opened({Version(c.rec, x.at, 0, c.from, Forever, None, None)})
    BY <1>1, <1>3 DEF Opened, Exists, Version, AppendDerivedNode
  <1>5. Dated(x)
    BY <1>1 DEF Dated, Version
  <1> QED
    BY <1>2, <1>4, <1>5, OpenedKeeps DEF RowInv

\* The request of an approved correction is that of a mutation that was prepared later
\* than the version it names.
LEMMA CorrectRows ==
    ASSUME TypeOK, RowInv, now <= MaxTime, NEW c \in Command, CorrectOntologyVersion(c)
    PROVE  (\E x : Writes(c, x) /\ Dated(x)) /\ VersionInv'
  <1>1. PICK x \in Granted(c), w \in Current(c.rec) :
        /\ IdOf(w) = x.bound
        /\ rows' = (rows \ {w}) \cup {[w EXCEPT !.st = x.at],
                                      Version(c.rec, x.at, 1, w.vf, c.eff, None, w.under),
                                      Version(c.rec, x.at, 2, c.eff, w.vt, None, w.under)}
        /\ ops' = x.left
    BY DEF CorrectOntologyVersion
  <1> DEFINE closed == [w EXCEPT !.st = x.at]
             a == Version(c.rec, x.at, 1, w.vf, c.eff, None, w.under)
             b == Version(c.rec, x.at, 2, c.eff, w.vt, None, w.under)
  <1>2. Writes(c, x) /\ NeedsApproval(c) /\ lengthened' = lengthened
    BY GrantedWrites DEF NeedsApproval, CorrectOntologyVersion, RelationKinds
  <1>3. w \in rows /\ w.rec = c.rec /\ w.st = Forever /\ w \in Row
    BY DEF Current, TypeOK
  <1>4. x.at \in Times /\ (\A y \in rows : y.sf # x.at) /\ w.sf < x.at
    BY <1>1, <1>2, <1>3, ApprovedInstant, IdTypes DEF CorrectOntologyVersion
  <1>5. /\ w.vf \in Nat /\ w.vt \in Nat /\ c.eff \in Nat
    BY <1>3, CommandType DEF Row, Ends, Times, CommandFields, CorrectOntologyVersion
  <1>6. Semantic(w) /\ w.set = None /\ w.vf < c.eff /\ c.eff < w.vt
    <2>1. x.bound \in CorrectRequests(c)
      BY <1>2 DEF Writes, Requests, ReviewKinds, CorrectOntologyVersion
    <2>2. PICK u \in CurrentSemantic(c.rec) :
            /\ IdOf(u) = x.bound /\ u.set = None /\ u.vf < c.eff
            /\ {y \in CurrentSemantic(c.rec) : ValidAt(y, c.eff)} = {u}
      BY <2>1 DEF CorrectRequests
    <2>3. u = w
      BY <1>1, <1>3, <2>2 DEF RowInv, VersionInv, Named, CurrentSemantic, Current
    <2>4. c.eff < u.vt
      BY <2>2 DEF ValidAt
    <2> QED
      BY <2>2, <2>3, <2>4 DEF CurrentSemantic
  <1>7. /\ closed.rec = w.rec /\ closed.sf = w.sf /\ closed.n = w.n
        /\ closed.vf = w.vf /\ closed.vt = w.vt /\ closed.st = x.at /\ closed.set = w.set
    BY <1>3 DEF Row
  <1>8. /\ a.rec = w.rec /\ a.sf = x.at /\ a.vf = w.vf /\ a.vt = c.eff /\ a.set = None /\ a.n = 1
        /\ b.rec = w.rec /\ b.sf = x.at /\ b.vf = c.eff /\ b.vt = w.vt /\ b.set = None /\ b.n = 2
    BY <1>3 DEF Version
  <1>9. rows' = (rows \ {w}) \cup {closed} \cup {a, b}
    BY <1>1
  <1> HIDE DEF closed, a, b
  <1>10. Replaced(w, closed, {a, b}, x.at)
    BY <1>3, <1>4, <1>7, <1>8, <1>9 DEF Replaced
  <1>11. Bounded(w, closed)
    BY <1>2, <1>5, <1>7 DEF Bounded
  <1>12. Within(w, {a, b}, x.at)
    <2>1. Disjoint(a, b) /\ Disjoint(b, a)
      BY <1>5, <1>8 DEF Disjoint
    <2> QED
      BY <1>4, <1>5, <1>6, <1>8, <2>1 DEF Within
  <1>13. Dated(x)
    BY <1>1, <1>3, <1>7, <1>8, <1>9 DEF Dated
  <1> QED
    BY <1>2, <1>10, <1>11, <1>12, <1>13, ReplacedKeeps DEF RowInv

LEMMA ContestRows ==
    ASSUME TypeOK, RowInv, now <= MaxTime, NEW c \in Command, ContestOntologyVersion(c)
    PROVE  (\E x : Writes(c, x) /\ Dated(x)) /\ VersionInv'
  <1>1. PICK x \in Granted(c), w \in Current(c.rec) :
        /\ IdOf(w) = x.bound
        /\ rows' = (rows \ {w}) \cup {[w EXCEPT !.st = x.at],
                                      Version(c.rec, x.at, 1, w.vf, w.vt, x.at, w.under),
                                      Version(c.rec, x.at, 2, w.vf, w.vt, x.at, w.under)}
        /\ ops' = x.left
    BY DEF ContestOntologyVersion
  <1> DEFINE closed == [w EXCEPT !.st = x.at]
             a == Version(c.rec, x.at, 1, w.vf, w.vt, x.at, w.under)
             b == Version(c.rec, x.at, 2, w.vf, w.vt, x.at, w.under)
  <1>2. Writes(c, x) /\ NeedsApproval(c) /\ lengthened' = lengthened
    BY GrantedWrites DEF NeedsApproval, ContestOntologyVersion, RelationKinds
  <1>3. w \in rows /\ w.rec = c.rec /\ w.st = Forever /\ w \in Row
    BY DEF Current, TypeOK
  <1>4. x.at \in Times /\ (\A y \in rows : y.sf # x.at) /\ w.sf < x.at
    BY <1>1, <1>2, <1>3, ApprovedInstant, IdTypes DEF ContestOntologyVersion
  <1>5. w.vf \in Nat /\ w.vt \in Nat /\ x.at # None
    BY <1>3, <1>4, OntologyAssumption DEF Row, Ends, Times
  <1>6. Semantic(w) /\ w.set = None
    <2>1. x.bound \in ContestRequests(c)
      BY <1>2 DEF Writes, Requests, ReviewKinds, ContestOntologyVersion
    <2>2. PICK u \in CurrentSemantic(c.rec) : IdOf(u) = x.bound /\ u.set = None
      BY <2>1 DEF ContestRequests
    <2>3. u = w
      BY <1>1, <1>3, <2>2 DEF RowInv, VersionInv, Named, CurrentSemantic, Current
    <2> QED
      BY <2>2, <2>3 DEF CurrentSemantic
  <1>7. /\ closed.rec = w.rec /\ closed.sf = w.sf /\ closed.n = w.n
        /\ closed.vf = w.vf /\ closed.vt = w.vt /\ closed.st = x.at /\ closed.set = w.set
    BY <1>3 DEF Row
  <1>8. /\ a.rec = w.rec /\ a.sf = x.at /\ a.vf = w.vf /\ a.vt = w.vt /\ a.set = x.at /\ a.n = 1
        /\ b.rec = w.rec /\ b.sf = x.at /\ b.vf = w.vf /\ b.vt = w.vt /\ b.set = x.at /\ b.n = 2
    BY <1>3 DEF Version
  <1>9. rows' = (rows \ {w}) \cup {closed} \cup {a, b}
    BY <1>1
  <1> HIDE DEF closed, a, b
  <1>10. Replaced(w, closed, {a, b}, x.at)
    BY <1>3, <1>4, <1>7, <1>8, <1>9 DEF Replaced
  <1>11. Bounded(w, closed)
    BY <1>2, <1>5, <1>7 DEF Bounded
  <1>12. Within(w, {a, b}, x.at)
    <2>1. Semantic(a) /\ Semantic(b)
      BY <1>8 DEF Semantic
    <2> QED
      BY <1>4, <1>5, <1>6, <1>8, <2>1 DEF Within
  <1>13. Dated(x)
    BY <1>1, <1>3, <1>7, <1>8, <1>9 DEF Dated
  <1> QED
    BY <1>2, <1>10, <1>11, <1>12, <1>13, ReplacedKeeps DEF RowInv

\* A review ends a version, or replaces it by one that ontology_as_of does not see.
LEMMA ReviewRows ==
    ASSUME TypeOK, RowInv, now <= MaxTime, NEW c \in Command,
           TombstoneNode(c) \/ RatifyNode(c) \/ RejectNode(c)
    PROVE  (\E x : Writes(c, x) /\ Dated(x)) /\ VersionInv'
  <1>1. PICK x \in Granted(c), w \in Current(c.rec) :
        /\ \/ rows' = (rows \ {w}) \cup {[w EXCEPT !.st = x.at]}
           \/ rows' = (rows \ {w}) \cup {[w EXCEPT !.st = x.at],
                                         Version(c.rec, x.at, 3, w.vf, w.vt, None, None)}
        /\ ops' = x.left
    BY DEF TombstoneNode, RatifyNode, RejectNode
  <1> DEFINE closed == [w EXCEPT !.st = x.at]
             a == Version(c.rec, x.at, 3, w.vf, w.vt, None, None)
  <1>2. Writes(c, x) /\ NeedsApproval(c) /\ lengthened' = lengthened
    BY GrantedWrites DEF NeedsApproval, TombstoneNode, RatifyNode, RejectNode, RelationKinds
  <1>3. w \in rows /\ w.rec = c.rec /\ w.st = Forever /\ w \in Row /\ w.vt \in Nat
    BY DEF Current, TypeOK, Row, Ends
  <1>4. x.at \in Times /\ \A y \in rows : y.sf # x.at
    BY <1>2, ApprovedInstant
  <1>5. /\ closed.rec = w.rec /\ closed.sf = w.sf /\ closed.n = w.n
        /\ closed.vf = w.vf /\ closed.vt = w.vt /\ closed.st = x.at /\ closed.set = w.set
    BY <1>3 DEF Row
  <1>6. a.rec = w.rec /\ a.sf = x.at /\ a.set = None /\ ~Semantic(a)
    BY <1>3 DEF Version, Semantic
  <1>7. PICK N \in SUBSET {a} : rows' = (rows \ {w}) \cup {closed} \cup N
    <2> HIDE DEF closed, a
    <2>1. CASE rows' = (rows \ {w}) \cup {closed}
      <3>1. {} \in SUBSET {a} /\ rows' = (rows \ {w}) \cup {closed} \cup {}
        BY <2>1
      <3> QED
        BY <3>1
    <2>2. CASE rows' = (rows \ {w}) \cup {closed, a}
      <3>1. {a} \in SUBSET {a} /\ rows' = (rows \ {w}) \cup {closed} \cup {a}
        BY <2>2
      <3> QED
        BY <3>1
    <2> USE DEF closed, a
    <2> QED
      BY <1>1, <2>1, <2>2
  <1> HIDE DEF closed, a
  <1>8. Replaced(w, closed, N, x.at)
    BY <1>3, <1>4, <1>5, <1>6, <1>7 DEF Replaced
  <1>9. Bounded(w, closed)
    BY <1>2, <1>3, <1>5 DEF Bounded
  <1>10. Within(w, N, x.at)
    BY <1>6, <1>7 DEF Within
  <1>11. Dated(x)
    BY <1>1, <1>3, <1>5, <1>6, <1>7 DEF Dated
  <1> QED
    BY <1>2, <1>8, <1>9, <1>10, <1>11, ReplacedKeeps DEF RowInv

LEMMA SupersedeRows ==
    ASSUME TypeOK, RowInv, now <= MaxTime, NEW c \in Command, Supersede(c)
    PROVE  (\E x : Writes(c, x) /\ Dated(x)) /\ VersionInv'
  <1>1. PICK x \in Granted(c), w \in Current(c.tgt) :
        /\ rows' = (rows \ {w}) \cup {[w EXCEPT !.vt = x.at, !.st = x.at]}
        /\ lengthened' = lengthened \cup (IF w.vt < x.at THEN {IdOf(w)} ELSE {})
        /\ ops' = x.left
    BY DEF Supersede
  <1> DEFINE closed == [w EXCEPT !.vt = x.at, !.st = x.at]
  <1>2. Writes(c, x) /\ NeedsApproval(c)
    BY GrantedWrites DEF NeedsApproval, Supersede, RelationKinds
  <1>3. w \in rows /\ w.rec = c.tgt /\ w.st = Forever /\ w \in Row /\ w.vt \in Nat
    BY DEF Current, TypeOK, Row, Ends
  <1>4. x.at \in Times /\ x.at \in Nat /\ \A y \in rows : y.sf # x.at
    BY <1>2, ApprovedInstant DEF Times
  <1>5. /\ closed.rec = w.rec /\ closed.sf = w.sf /\ closed.n = w.n
        /\ closed.vf = w.vf /\ closed.vt = x.at /\ closed.st = x.at /\ closed.set = w.set
    BY <1>3 DEF Row
  <1>6. rows' = (rows \ {w}) \cup {closed} \cup {}
    BY <1>1
  <1> HIDE DEF closed
  <1>7. Replaced(w, closed, {}, x.at)
    BY <1>3, <1>4, <1>5, <1>6 DEF Replaced
  <1>8. Bounded(w, closed)
    <2>1. CASE w.vt < x.at
      BY <1>1, <1>4, <1>5, <2>1 DEF Bounded
    <2>2. CASE ~(w.vt < x.at)
      BY <1>1, <1>3, <1>4, <1>5, <2>2 DEF Bounded
    <2> QED
      BY <2>1, <2>2
  <1>9. Within(w, {}, x.at)
    BY DEF Within
  <1>10. Dated(x)
    BY <1>1, <1>3, <1>5, <1>6 DEF Dated
  <1> QED
    BY <1>2, <1>7, <1>8, <1>9, <1>10, ReplacedKeeps DEF RowInv

\* The calls that leave the versions alone
LEMMA OtherRows ==
    ASSUME TypeOK, RowInv, now <= MaxTime, NEW c \in Command,
           \/ GrantConsent(c) \/ RevokeConsent(c) \/ TombstoneGrant(c)
           \/ Contradict(c) \/ InsertRelation(c)
    PROVE  (\E x : Writes(c, x) /\ Dated(x)) /\ VersionInv'
  <1>1. rows' = rows /\ lengthened' = lengthened /\ \E x \in Granted(c) : ops' = x.left
    BY DEF GrantConsent, RevokeConsent, TombstoneGrant, Contradict, InsertRelation
  <1>2. PICK x \in Granted(c) : ops' = x.left
    BY <1>1
  <1>3. Writes(c, x) /\ Dated(x)
    BY <1>1, <1>2, GrantedWrites DEF Dated
  <1> QED
    BY <1>1, <1>3, SameRows DEF RowInv

LEMMA NextRowInv == TypeOK /\ RowInv /\ [Next]_vars => RowInv'
  <1> SUFFICES ASSUME TypeOK, RowInv, [Next]_vars PROVE RowInv'
    OBVIOUS
  <1>1. CASE UNCHANGED vars
    <2>1. UNCHANGED <<rows, ops, now, lengthened>>
      BY <1>1 DEF vars
    <2>2. Clocked' /\ OwnInstant'
      BY <2>1 DEF RowInv, Clocked, OwnInstant
    <2> QED
      BY <2>1, <2>2, SameRows DEF RowInv
  <1>2. CASE Next
    <2>0. TypeOK'
      BY <1>2, NextType
    <2>1. now <= MaxTime /\ now' = now + 1
      BY <1>2 DEF Next
    <2>2. PICK c \in Command :
        \/ Prepare(c) \/ AppendOntologyBundle(c) \/ AppendSemanticNode(c)
        \/ AppendDerivedNode(c) \/ CorrectOntologyVersion(c) \/ ContestOntologyVersion(c)
        \/ TombstoneNode(c) \/ RatifyNode(c) \/ RejectNode(c) \/ Supersede(c)
        \/ GrantConsent(c) \/ RevokeConsent(c) \/ TombstoneGrant(c)
        \/ Contradict(c) \/ InsertRelation(c)
      BY <1>2 DEF Next, AppendBusinessRelation, AppendOntologyContradiction, AppendSemanticRelation
    <2>3. CASE Prepare(c)
      <3>1. UNCHANGED <<rows, lengthened>>
        BY <2>3 DEF Prepare
      <3> QED
        BY <2>1, <2>3, <3>1, PrepareKeepsTime, SameRows DEF RowInv
    <2>4. ASSUME ~Prepare(c)
          PROVE  (\E x : Writes(c, x) /\ Dated(x)) /\ VersionInv'
      BY <1>2, <2>1, <2>2, <2>4, BundleRows, NodeRows, DerivedRows, CorrectRows, ContestRows,
         ReviewRows, SupersedeRows, OtherRows
    <2> QED
      BY <2>0, <2>1, <2>3, <2>4, DatedKeepsTime DEF RowInv
  <1> QED
    BY <1>1, <1>2

\* Whatever was prepared, approved and executed in whatever order, ontology_as_of finds
\* no version of a record, one, or the members of one contest that nobody ended, at every
\* coordinate at which it finds no version whose valid time add_transition made longer.
\* (There it does not: the companion instance MCOntology_supersede shows the overlap.)
THEOREM AsOfDecided == Spec => []AsOfIsDecided
  <1>1. Spec => [](TypeOK /\ RowInv)
    <2>1. Init => TypeOK /\ RowInv
      BY InitType, InitRowInv
    <2>2. TypeOK /\ RowInv /\ [Next]_vars => TypeOK' /\ RowInv'
      BY NextType, NextRowInv
    <2> QED
      BY <2>1, <2>2, PTL DEF Spec
  <1>2. TypeOK /\ RowInv => AsOfIsDecided
    BY VersionInvDecides DEF RowInv
  <1> QED
    BY <1>1, <1>2, PTL

=============================================================================
