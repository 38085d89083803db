------------------------------ MODULE Ontology ------------------------------
(***************************************************************************)
(* The bitemporal ontology of the canonical store: records and their       *)
(* versions, relations between versions, consent grants, and the commands  *)
(* that append, correct, contest, supersede, review and revoke them        *)
(* (imprint/store/service.py).                                             *)
(*                                                                         *)
(* A command that raises authority is given twice.  The first call stores  *)
(* a prepared mutation, with the system time and the version ids of that   *)
(* moment; the second, with an approval token, works its request out again *)
(* and must come to the one that was prepared, and writes with the FROZEN  *)
(* time.  How approvals are issued and consumed is in Approval.            *)
(*                                                                         *)
(* Every call has an instant of its own: utc_now counts microseconds and a *)
(* person approves between the calls.  The clock does not step back.       *)
(* Payloads, schemas, actors, evidence, sensitivity and confidence         *)
(* assessments are left out: no command here looks at them again.  So are  *)
(* the commands that replace versions of Plain records only (deferrals,    *)
(* evidence of verdicts, typed corrections and contests): ontology_as_of   *)
(* never sees those versions; Approval has them.                           *)
(***************************************************************************)
EXTENDS Naturals, FiniteSets

CONSTANTS
    Records,      \* record_id: what ontology versions are versions of
    Roles,        \* those that are RoleAssignments, with the policy that names them
    Plain,        \* those of append_semantic_node and append_derived_node
    Judged,       \* those whose authority tier needs an approval
    Inferred,     \* those whose provenance is inferred or extracted
    Grants,       \* ConsentGrants
    Legacy,       \* those of release 3.0, whose payload has no source_class
    ValidTimes,   \* the valid times that callers give,
    ValidEnds,    \* the ends they give in a bundle, beside none,
    Effective,    \* the times from which they correct,
    Terms,        \* and the intervals they give to grants
    Revised,      \* the records that callers correct and contest
    Reviewed,     \* the records and grants that callers review
    Pairs,        \* the records that callers relate, and let supersede or contradict
    MaxTime,      \* bound on calls
    MaxPrepared,  \* bound on prepared mutations that wait
    MaxRelations, \* bound on relations
    None

ASSUME OntologyAssumption ==
    /\ MaxTime \in Nat \ {0} /\ MaxPrepared \in Nat /\ MaxRelations \in Nat
    /\ ValidTimes \cup ValidEnds \cup Effective \subseteq 1..MaxTime
    /\ Terms \subseteq (1..MaxTime) \X (1..(MaxTime + 1))
    /\ Revised \subseteq Records \ Plain /\ Pairs \subseteq Records \X Records
    /\ Roles \subseteq Records /\ Plain \subseteq Records /\ Judged \subseteq Records
    /\ Roles \cap Plain = {} /\ Roles \subseteq Judged
    /\ Inferred \subseteq Records \ Judged /\ Legacy \subseteq Grants
    /\ None \notin Records \cup Grants \cup Nat

Times == 1..MaxTime
Forever == MaxTime + 1   \* a NULL valid_to or system_to
Ends == 1..Forever

VARIABLES
    rows,     \* node_versions of records, joined with semantic_node_versions
    grants,   \* node_versions of ConsentGrants
    rels,     \* edge_versions; semantic_relation_versions beside them are never closed
    ops,      \* authority_prepared_mutations that are pending
    now,      \* utc_now
    lengthened  \* history: the versions whose valid time a supersession made longer

vars == <<rows, grants, rels, ops, now, lengthened>>

-----------------------------------------------------------------------------
(* Versions.  A version is named by its record, its system_from, and a     *)
(* number that tells the two versions of one correction or contest apart   *)
(* (1, 2), and both from the versions without a semantic_node_versions row *)
(* that append_semantic_node, append_derived_node (0) and ratify_node (3)  *)
(* write.                                                                  *)

Numbers == 0..3
RowIds == Records \X Times \X Numbers
GrantIds == Grants \X Times

Row == [rec : Records, sf : Times, n : Numbers, vf : Ends, vt : Ends, st : Ends,
        set : Times \cup {None}, under : GrantIds \cup {None}]
Grant == [grant : Grants, sf : Times, st : Ends, vf : Times, until : Ends,
          revoked : Times \cup {None}]
Relation == [src : RowIds, tgt : RowIds, sf : Times, st : Ends, under : GrantIds \cup {None}]

IdOf(w) == <<w.rec, w.sf, w.n>>
GrantId(v) == <<v.grant, v.sf>>

Exists(r) == \E w \in rows : w.rec = r
Current(r) == {w \in rows : w.rec = r /\ w.st = Forever}
Semantic(w) == w.n \in {1, 2}
CurrentSemantic(r) == {w \in Current(r) : Semantic(w)}
CurrentGrant(g) == {v \in grants : v.grant = g /\ v.st = Forever}

ValidAt(w, t) == w.vf <= t /\ t < w.vt

\* ontology_as_of, before it looks for an overlap
AsOf(r, valid, system) ==
    {w \in rows : /\ w.rec = r /\ Semantic(w)
                  /\ ValidAt(w, valid) /\ w.sf <= system /\ system < w.st}

Version(r, at, n, vf, vt, set, under) ==
    [rec |-> r, sf |-> at, n |-> n, vf |-> vf, vt |-> vt, st |-> Forever,
     set |-> set, under |-> under]

-----------------------------------------------------------------------------
(* The commands, as the caller gives them.                                 *)

Bundle(S, from, to, under) ==
    [kind |-> "bundle", recs |-> S, from |-> from, to |-> to, under |-> under]
SemanticNode(r, from, g) == [kind |-> "node", rec |-> r, from |-> from, under |-> g]
DerivedNode(r, from) == [kind |-> "derived", rec |-> r, from |-> from]
ConsentGrant(g, from, to) == [kind |-> "grant", grant |-> g, from |-> from, to |-> to]
Revoke(g, at) == [kind |-> "revoke", grant |-> g, revoked |-> at]
Correct(r, eff) == [kind |-> "correct", rec |-> r, eff |-> eff]
Contest(r) == [kind |-> "contest", rec |-> r]
Review(kind, r) == [kind |-> kind, rec |-> r]
EndGrant(g) == [kind |-> "end", grant |-> g]
Transition(kind, r, s) == [kind |-> kind, src |-> r, tgt |-> s]
Relate(kind, a, b, under, judged) ==
    [kind |-> kind, src |-> a, tgt |-> b, under |-> under, judged |-> judged]

RelationKinds == {"business", "contradiction", "semantic"}
ReviewKinds == {"tombstone", "ratify", "reject"}

\* Callers know the versions that are stored.
KnownGrants == {GrantId(v) : v \in grants} \cup {None}
KnownPairs == {q \in rows \X rows : <<q[1].rec, q[2].rec>> \in Pairs}

\* The records of a bundle
Batches == {{r, s} : r, s \in Records \ Plain}

Bundles == {Bundle(S, from, to, under) :
    S \in Batches, from \in ValidTimes, to \in ValidEnds \cup {Forever}, under \in KnownGrants}
Relates == {Relate(kind, IdOf(p[1]), IdOf(p[2]), under, judged) :
    kind \in RelationKinds, p \in KnownPairs, under \in KnownGrants, judged \in BOOLEAN}

\* The commands that callers can give
Command ==
    Bundles
    \cup {SemanticNode(r, from, g) : r \in Plain, from \in ValidTimes, g \in Grants \cup {None}}
    \cup {DerivedNode(r, from) : r \in Plain \ Judged, from \in ValidTimes}
    \cup {ConsentGrant(g, term[1], term[2]) : g \in Grants, term \in Terms}
    \cup {Revoke(g, at) : g \in Grants, at \in ValidTimes \cup {None}}
    \cup {Correct(r, eff) : r \in Revised, eff \in Effective}
    \cup {Contest(r) : r \in Revised}
    \cup {Review(kind, r) : kind \in ReviewKinds, r \in Reviewed \cap Records}
    \cup {EndGrant(g) : g \in Reviewed \cap Grants}
    \cup {Transition(kind, p[1], p[2]) : kind \in {"supersedes", "contradicts"}, p \in Pairs}
    \cup Relates

NeedsApproval(c) ==
    CASE c.kind = "bundle" -> c.recs \cap Judged # {}
      [] c.kind = "node" -> c.rec \in Judged
      [] c.kind = "derived" -> FALSE
      [] c.kind \in RelationKinds -> c.judged
      [] OTHER -> TRUE

-----------------------------------------------------------------------------
(* Consent.                                                                *)

\* Mutant of ConsentAllows: the grant's system interval is not looked at.
ConsentAllowsValid(v, valid, system) ==
    /\ v.vf <= valid /\ valid < v.until /\ valid <= system
    /\ v.revoked = None \/ (valid < v.revoked /\ system < v.revoked)

\* authorize_consent_version, for a grant of the right source class, purpose and
\* operation; until is the earlier of effective_to and the end of the retention days.
\* The 120 seconds of skew are less than an instant.
ConsentAllows(v, valid, system) ==
    /\ v.vf <= valid /\ valid < v.until /\ valid <= system
    /\ v.sf <= system /\ system < v.st
    /\ v.revoked = None \/ (valid < v.revoked /\ system < v.revoked)

\* _require_v31_ref of the governing role and policy at the semantic time: a version
\* that is valid then, whether or not it is current, or one in the same bundle.
Governed(S, at) ==
    S \cap Roles # {} \/ \E w \in rows : w.rec \in Roles /\ ValidAt(w, at)

-----------------------------------------------------------------------------
(* Requests: what a command binds, in the state in which it is called: the *)
(* prior version, and what the intent holds beside the caller's words.     *)
(* There is none where the command is refused, and there are several where *)
(* the code takes one of several rows that no ORDER BY arranges.           *)

OnlyIf(condition) == IF condition THEN {None} ELSE {}

\* append_ontology_bundle: consent is asked at the clock's time, not the frozen one; of
\* a legacy grant it is asked only that the version began before the record.
BundleRequests(c) ==
    OnlyIf(/\ c.from < c.to
           /\ \A r \in c.recs : ~Exists(r)
           /\ Governed(c.recs, c.from)
           /\ c.under # None =>
                \E v \in grants : /\ GrantId(v) = c.under
                                  /\ IF v.grant \in Legacy THEN v.vf <= c.from
                                     ELSE ConsentAllows(v, c.from, now))

\* append_semantic_node of an Observation or Outcome names a grant, not a version, and
\* authorizes it, so that a legacy one is refused; of other types it names none.
NodeRequests(c) ==
    OnlyIf(/\ ~Exists(c.rec)
           /\ c.under # None => /\ c.under \notin Legacy
                                /\ \E v \in CurrentGrant(c.under) : ConsentAllows(v, c.from, now))

\* append_derived_node makes the record's id itself.
DerivedRequests(c) == OnlyIf(~Exists(c.rec))

\* append_semantic_node of a ConsentGrant
GrantRequests(c) == OnlyIf(c.from < c.to /\ \A v \in grants : v.grant # c.grant)

\* The payload is validated again, which a legacy grant's does not pass.
Revocable(g) == {v \in CurrentGrant(g) : v.revoked = None /\ g \notin Legacy}

\* Mutant of RevokeRequests: a revoked_at that the caller leaves out stays open.
RevokeRequestsOpen(c) ==
    {<<GrantId(v), IF c.revoked = None THEN Forever ELSE c.revoked>> : v \in Revocable(c.grant)}

\* revoke_consent: the clock stands in for a revoked_at that the caller leaves out.
RevokeRequests(c) ==
    {<<GrantId(v), IF c.revoked = None THEN now ELSE c.revoked>> : v \in Revocable(c.grant)}

\* correct_ontology_version: one uncontested current version, which the correction splits
CorrectRequests(c) ==
    {IdOf(w) : w \in {w \in CurrentSemantic(c.rec) :
        /\ {x \in CurrentSemantic(c.rec) : ValidAt(x, c.eff)} = {w}
        /\ w.set = None /\ w.vf < c.eff}}

\* contest_ontology_version: one current version, and no contest of it
ContestRequests(c) ==
    {IdOf(w) : w \in {w \in CurrentSemantic(c.rec) :
        CurrentSemantic(c.rec) = {w} /\ w.set = None}}

\* tombstone_node, ratify_node and reject_node take one current version, whichever comes
\* first.  A version that was ratified has neither the tier nor the provenance to be
\* ratified or rejected again.
Reviewable(kind, w) ==
    CASE kind = "tombstone" -> TRUE
      [] kind = "ratify" -> w.rec \notin Judged /\ w.n # 3
      [] kind = "reject" -> w.rec \in Inferred /\ w.n # 3

ReviewRequests(c) == {IdOf(w) : w \in {w \in Current(c.rec) : Reviewable(c.kind, w)}}

EndGrantRequests(c) == {GrantId(v) : v \in CurrentGrant(c.grant)}

SameType(r, s) == (r \in Roles <=> s \in Roles) /\ (r \in Plain <=> s \in Plain)

\* add_transition: of the current versions of an endpoint the last one fetched
TransitionRequests(c) ==
    {<<IdOf(w), IdOf(x)>> : w \in Current(c.src), x \in {x \in Current(c.tgt) :
        c.src # c.tgt /\ (c.kind = "supersedes" => SameType(c.src, c.tgt))}}

EndpointsExist(c) ==
    /\ Cardinality(rels) < MaxRelations
    /\ \E w \in rows : IdOf(w) = c.src
    /\ \E w \in rows : IdOf(w) = c.tgt

\* append_business_relation requires a grant, and that it exists;
BusinessRequests(c) ==
    OnlyIf(EndpointsExist(c) /\ \E v \in grants : GrantId(v) = c.under)

\* append_ontology_contradiction does not look the grant up that it names;
ContradictionRequests(c) == OnlyIf(EndpointsExist(c))

\* append_semantic_relation names none.
SemanticRequests(c) == OnlyIf(EndpointsExist(c) /\ c.under = None)

Requests(c) ==
    CASE c.kind = "bundle" -> BundleRequests(c)
      [] c.kind = "node" -> NodeRequests(c)
      [] c.kind = "grant" -> GrantRequests(c)
      [] c.kind = "revoke" -> RevokeRequests(c)
      [] c.kind = "correct" -> CorrectRequests(c)
      [] c.kind = "contest" -> ContestRequests(c)
      [] c.kind \in ReviewKinds -> ReviewRequests(c)
      [] c.kind = "end" -> EndGrantRequests(c)
      [] c.kind = "derived" -> DerivedRequests(c)
      [] c.kind = "business" -> BusinessRequests(c)
      [] c.kind = "contradiction" -> ContradictionRequests(c)
      [] c.kind = "semantic" -> SemanticRequests(c)
      [] OTHER -> TransitionRequests(c)

-----------------------------------------------------------------------------
(* Calls.                                                                  *)

\* Mutant of Approved: the prior state of the prepared mutation is not compared.
ApprovedByName(o) == Requests(o.cmd)

\* load_prepared_mutation: the request that the command comes to, if it is the one that
\* was prepared.
Approved(o) == Requests(o.cmd) \cap {o.bound}

\* What a call of c may write on: a candidate's own request at the clock's time, or an
\* approved one at the time that was frozen with it, which is then no longer pending.
Granted(c) ==
    IF NeedsApproval(c)
    THEN UNION {{[bound |-> b, at |-> o.at, left |-> ops \ {o}] : b \in Approved(o)} :
                    o \in {o \in ops : o.cmd = c}}
    ELSE {[bound |-> b, at |-> now, left |-> ops] : b \in Requests(c)}

\* _consume_authority without a token: the request is stored and the call refused.
Prepare(c) ==
    /\ NeedsApproval(c)
    /\ Cardinality(ops) < MaxPrepared
    /\ \E b \in Requests(c) : ops' = ops \cup {[cmd |-> c, bound |-> b, at |-> now]}
    /\ UNCHANGED <<rows, grants, rels, lengthened>>

AppendOntologyBundle(c) ==
    /\ c.kind = "bundle"
    /\ \E x \in Granted(c) :
        /\ rows' = rows \cup {Version(r, x.at, 1, c.from, c.to, None, c.under) : r \in c.recs}
        /\ ops' = x.left
    /\ UNCHANGED <<grants, rels, lengthened>>

AppendSemanticNode(c) ==
    /\ c.kind = "node"
    /\ \E x \in Granted(c), under \in {GrantId(v) : v \in CurrentGrant(c.under)} \cup {None} :
        /\ (under = None) = (c.under = None)
        /\ rows' = rows \cup {Version(c.rec, x.at, 0, c.from, Forever, None, under)}
        /\ ops' = x.left
    /\ UNCHANGED <<grants, rels, lengthened>>

AppendDerivedNode(c) ==
    /\ c.kind = "derived"
    /\ \E x \in Granted(c) :
        /\ rows' = rows \cup {Version(c.rec, x.at, 0, c.from, Forever, None, None)}
        /\ ops' = x.left
    /\ UNCHANGED <<grants, rels, lengthened>>

GrantConsent(c) ==
    /\ c.kind = "grant"
    /\ \E x \in Granted(c) :
        /\ grants' = grants \cup {[grant |-> c.grant, sf |-> x.at, st |-> Forever,
                                   vf |-> c.from, until |-> c.to, revoked |-> None]}
        /\ ops' = x.left
    /\ UNCHANGED <<rows, rels, lengthened>>

\* The current version is closed and a revoked one opened.
RevokeConsent(c) ==
    /\ c.kind = "revoke"
    /\ \E x \in Granted(c), v \in CurrentGrant(c.grant) :
        /\ grants' = (grants \ {v}) \cup {[v EXCEPT !.st = x.at],
                                          [v EXCEPT !.sf = x.at, !.revoked = x.bound[2]]}
        /\ ops' = x.left
    /\ UNCHANGED <<rows, rels, lengthened>>

\* R1 is closed; R2 carries it forward up to the effective time, R3 is the correction.
CorrectOntologyVersion(c) ==
    /\ c.kind = "correct"
    /\ \E x \in Granted(c), w \in Current(c.rec) :
        /\ IdOf(w) = x.bound
        /\ rows' = (rows \ {w}) \cup {[w EXCEPT !.st = x.at],
                                      Version(c.rec, x.at, 1, w.vf, c.eff, None, w.under),
                                      Version(c.rec, x.at, 2, c.eff, w.vt, None, w.under)}
        /\ ops' = x.left
    /\ UNCHANGED <<grants, rels, lengthened>>

\* Both members of the contest have the interval of the version that is contested.
ContestOntologyVersion(c) ==
    /\ c.kind = "contest"
    /\ \E x \in Granted(c), w \in Current(c.rec) :
        /\ IdOf(w) = x.bound
        /\ rows' = (rows \ {w}) \cup {[w EXCEPT !.st = x.at],
                                      Version(c.rec, x.at, 1, w.vf, w.vt, x.at, w.under),
                                      Version(c.rec, x.at, 2, w.vf, w.vt, x.at, w.under)}
        /\ ops' = x.left
    /\ UNCHANGED <<grants, rels, lengthened>>

\* The version is closed, and every current edge at the record.
EdgesClosed(r, at) ==
    {IF r \in {e.src[1], e.tgt[1]} /\ e.st = Forever THEN [e EXCEPT !.st = at] ELSE e : e \in rels}

TombstoneNode(c) ==
    /\ c.kind = "tombstone"
    /\ \E x \in Granted(c), w \in Current(c.rec) :
        /\ IdOf(w) = x.bound
        /\ rows' = (rows \ {w}) \cup {[w EXCEPT !.st = x.at]}
        /\ rels' = EdgesClosed(c.rec, x.at)
        /\ ops' = x.left
    /\ UNCHANGED <<grants, lengthened>>

\* The ratified version has the interval of the one that is closed, and no
\* semantic_node_versions row.
RatifyNode(c) ==
    /\ c.kind = "ratify"
    /\ \E x \in Granted(c), w \in Current(c.rec) :
        /\ IdOf(w) = x.bound
        /\ rows' = (rows \ {w}) \cup {[w EXCEPT !.st = x.at],
                                      Version(c.rec, x.at, 3, w.vf, w.vt, None, None)}
        /\ ops' = x.left
    /\ UNCHANGED <<grants, rels, lengthened>>

RejectNode(c) ==
    /\ c.kind = "reject"
    /\ \E x \in Granted(c), w \in Current(c.rec) :
        /\ IdOf(w) = x.bound
        /\ rows' = (rows \ {w}) \cup {[w EXCEPT !.st = x.at]}
        /\ ops' = x.left
    /\ UNCHANGED <<grants, rels, lengthened>>

\* tombstone_node of a ConsentGrant
TombstoneGrant(c) ==
    /\ c.kind = "end"
    /\ \E x \in Granted(c), v \in CurrentGrant(c.grant) :
        /\ grants' = (grants \ {v}) \cup {[v EXCEPT !.st = x.at]}
        /\ ops' = x.left
    /\ UNCHANGED <<rows, rels, lengthened>>

Edge(a, b, under, at) == [src |-> a, tgt |-> b, sf |-> at, st |-> Forever, under |-> under]

\* add_transition("contradicts") adds the edge alone.
Contradict(c) ==
    /\ c.kind = "contradicts"
    /\ \E x \in Granted(c) :
        /\ rels' = rels \cup {Edge(x.bound[1], x.bound[2], None, x.at)}
        /\ ops' = x.left
    /\ UNCHANGED <<rows, grants, lengthened>>

\* add_transition("supersedes") closes one version of the target, in both times, and the
\* current edges at the target.  A version whose valid time had ended gets a longer one.
Supersede(c) ==
    /\ c.kind = "supersedes"
    /\ \E x \in Granted(c), w \in Current(c.tgt) :
        /\ IdOf(w) = x.bound[2]
        /\ rows' = (rows \ {w}) \cup {[w EXCEPT !.vt = x.at, !.st = x.at]}
        /\ lengthened' = lengthened \cup (IF w.vt < x.at THEN {IdOf(w)} ELSE {})
        /\ rels' = EdgesClosed(c.tgt, x.at) \cup {Edge(x.bound[1], x.bound[2], None, x.at)}
        /\ ops' = x.left
    /\ UNCHANGED grants

InsertRelation(c) ==
    /\ \E x \in Granted(c) :
        /\ rels' = rels \cup {Edge(c.src, c.tgt, c.under, x.at)}
        /\ ops' = x.left
    /\ UNCHANGED <<rows, grants, lengthened>>

AppendBusinessRelation(c) == c.kind = "business" /\ InsertRelation(c)
AppendOntologyContradiction(c) == c.kind = "contradiction" /\ InsertRelation(c)
AppendSemanticRelation(c) == c.kind = "semantic" /\ InsertRelation(c)

\* The first call stored the roles and policies that everything else refers to; legacy
\* grants were stored by a release that nothing stores them with any more.
Init ==
    /\ rows = {Version(r, 1, 1, 1, Forever, None, None) : r \in Roles}
    /\ grants = {[grant |-> g, sf |-> 1, st |-> Forever, vf |-> 1, until |-> Forever,
                  revoked |-> None] : g \in Legacy}
    /\ rels = {} /\ ops = {}
    /\ now = 2 /\ lengthened = {}

Next ==
    /\ now <= MaxTime
    /\ now' = now + 1
    /\ \E c \in Command :
        \/ Prepare(c)
        \/ AppendOntologyBundle(c)
        \/ AppendSemanticNode(c)
        \/ AppendDerivedNode(c)
        \/ GrantConsent(c)
        \/ RevokeConsent(c)
        \/ CorrectOntologyVersion(c)
        \/ ContestOntologyVersion(c)
        \/ TombstoneNode(c)
        \/ RatifyNode(c)
        \/ RejectNode(c)
        \/ TombstoneGrant(c)
        \/ Contradict(c)
        \/ Supersede(c)
        \/ AppendBusinessRelation(c)
        \/ AppendOntologyContradiction(c)
        \/ AppendSemanticRelation(c)

Spec == Init /\ [][Next]_vars

-----------------------------------------------------------------------------
(* What is required.                                                       *)

\* Every variable keeps its type; in particular a revocation has a definite time whoever
\* gave it, and a pending mutation was prepared before the present call, so that the
\* time frozen in it never lies ahead of the clock.
TypeOK ==
    /\ rows \subseteq Row
    /\ grants \subseteq Grant
    /\ rels \subseteq Relation
    /\ \A o \in ops : o.at \in Times /\ o.at < now
    /\ now \in Ends
    /\ lengthened \subseteq RowIds

\* ontology_as_of answers A with neither E_TEMPORAL_INTERVAL_OVERLAP nor a silent winner.
\* A member of a contest that is missing was ended itself: it was closed by then, or its
\* supersession moved the end of its valid time.
Decided(A, system) ==
    \A w \in A :
        /\ w.set = None => A = {w}
        /\ w.set # None =>
            /\ \A x \in A : x.set = w.set
            /\ \A x \in rows : x.set = w.set => x \in A \/ x.st <= system \/ x.vt < w.vt

\* Whatever was prepared, approved and executed in whatever order, corrections, contests,
\* reviews and supersessions of one record alike, ontology_as_of finds at every valid and
\* system time no version, one that nobody contests, or the members of one contest that
\* nobody ended.  The exception is a coordinate of a version whose valid time had ended
\* when add_transition superseded it, which sets the end to the later time.
AsOfIsDecided ==
    \A r \in Records, valid, system \in Times :
        LET A == AsOf(r, valid, system)
        IN  (\A w \in A : IdOf(w) \notin lengthened) => Decided(A, system)

\* A record is first stored under a grant only while that grant stands: a bundle that was
\* prepared and approved before the grant was revoked or tombstoned is refused when it is
\* executed.  Only legacy grants, which the code leaves unchecked, are excepted.
StoredUnderStandingGrant ==
    [][\A w \in rows' : (w.under # None /\ ~Exists(w.rec)) =>
            \E v \in grants : /\ GrantId(v) = w.under
                              /\ v.grant \in Legacy \/
                                    /\ v.st = Forever /\ w.vf < v.until
                                    /\ v.revoked = None \/ now < v.revoked]_vars

\* ontology_as_of, "returning no silent contest winner": both members of a contest are
\* found, whatever was done to them since.
NoSilentWinner ==
    \A r \in Records, valid, system \in Times :
        \A w \in AsOf(r, valid, system) :
            w.set # None => \E x \in AsOf(r, valid, system) : x.set = w.set /\ x # w

\* ontology_as_of finds no two versions that do not contest each other, superseded ones
\* included.
NoOverlap ==
    \A r \in Records, valid, system \in Times :
        \A w, x \in AsOf(r, valid, system) : w = x \/ (w.set # None /\ w.set = x.set)

\* docs/ontology-contracts.md: a field that merely names a grant is insufficient.  A
\* relation, a correction or a contest is stored under a standing grant as well.
GrantIsNotJustNamed ==
    [][\A w \in (rows' \ rows) \cup (rels' \ rels) : (w.under # None /\ w.st = Forever) =>
            \E v \in grants : /\ GrantId(v) = w.under
                              /\ v.st = Forever
                              /\ v.revoked = None \/ now < v.revoked]_vars

\* _consume_authority stores the request so that "the caller can sign and retry": while
\* the prior state is unchanged the command comes to the request that was approved.
RetryIsExact ==
    \A o \in ops :
        (o.cmd.kind = "revoke" /\ Revocable(o.cmd.grant) # {}) => Approved(o) # {}
=============================================================================
