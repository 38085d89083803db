------------------------------- MODULE Purge -------------------------------
(***************************************************************************)
(* Irreversible purge of one scope, beside everything that writes what a   *)
(* purge has to find again: the compiler pass, the proposal spool and its  *)
(* compiler, the ingest rulings, the relations and reviews of the store,   *)
(* backups and projections below the data root.                            *)
(*                                                                         *)
(* A node stands for itself, for its versions and for the event that       *)
(* created it; the Case, Verdict, Call, Evidence and Alternative nodes of  *)
(* one capture, which that capture joins by edges, are one node.  A file   *)
(* is the set of identities that _file_has_identity would find in it, None *)
(* when it finds none of ours; the empty set is an absent file.  A version *)
(* of a node, of an edge or of a relation is found wherever the node or    *)
(* the edge is, so that its own identity is not kept apart.                *)
(***************************************************************************)
EXTENDS Naturals, FiniteSets

CONSTANTS
    Captures,    \* input_event_id of the envelopes
    Proposals,   \* proposal_id
    Successors,  \* node_id of the typed successors
    Items,       \* ingest item_id, and the node a KEEP creates
    Business,    \* nodes with a semantic_business_node_versions row
    Words, Sessions,
    Operator,    \* operator_id
    Passes,      \* runs of the spool compiler
    Derivers,    \* runs of compile_pending_proposals
    WordsOf,     \* hash of a capture's raw_operator_text
    SessionOf,   \* session of a capture or an ingest item
    SourceOf,    \* a proposal's source_input_event_id
    SuccessorOf, \* the successor the operator would authorize
    ScopeNodeOf, \* imprint_scope.node_id of an ingest item, or None
    Relatable,   \* pairs of nodes a relation may be drawn between
    Reviewable,  \* nodes that reviews are made of
    MaxPurges,   \* bound on purge operations
    MaxEdits,    \* bound on derives, on other commands of the store, and on backups
    MaxFaults,   \* bound on crashes and failing unlinks
    None

Nodes == Captures \cup Proposals \cup Successors \cup Items \cup Business

\* What identities are made of beside the nodes: relations, reviews, and the scopes.
Relations == Nodes \X Nodes
Reviews == {<<n>> : n \in Nodes}
Scoping == Sessions \cup {Operator}

ASSUME PurgeAssumption ==
    /\ MaxPurges \in Nat /\ MaxEdits \in Nat /\ MaxFaults \in Nat
    /\ WordsOf \in [Captures -> Words]
    /\ SessionOf \in [Captures \cup Items -> Sessions]
    /\ SourceOf \in [Proposals -> Captures]
    /\ SuccessorOf \in [Proposals -> Successors]
    /\ ScopeNodeOf \in [Items -> Nodes \cup {None}]
    /\ Relatable \subseteq Nodes \X Nodes
    /\ Reviewable \subseteq Nodes
    /\ None \notin Nodes
    /\ Nodes \cap (Relations \cup Reviews \cup Scoping) = {}
    /\ Captures \cap (Proposals \cup Successors \cup Items \cup Business) = {}
    /\ Proposals \cap (Successors \cup Items \cup Business) = {}
    /\ Successors \cap (Items \cup Business) = {}
    /\ Items \cap Business = {}

VARIABLES
    canon,    \* the committed rows of the store
    tree,     \* the files below the data root, and what each one names
    orphan,   \* an unbound file lies under authority/
    ops,      \* purge_operations
    purge,    \* the place and the locals of hard_purge
    pass,     \* per compiler pass: what it has read and still has to settle
    derive,   \* per run: the place and the locals of compile_pending_proposals
    overlap,  \* history: what a pass or a derive held while a purge named it
    twice,    \* history: proposals that two derives had in hand at once
    fresh,    \* history: what was written since this purge scanned it
    edits, faults

vars == <<canon, tree, orphan, ops, purge, pass, derive, overlap, twice, fresh, edits, faults>>

-----------------------------------------------------------------------------
(* The canon.  An event is named by the node it creates, by the relation   *)
(* <<m, n>> it draws or by the node <<n>> it reviews; the event of an      *)
(* ingest ruling is named by its item.                                     *)

Events == Nodes \cup Relations \cup Reviews
Ids == Events \cup Scoping

Canon == [nodes : SUBSET Nodes, edges : SUBSET Relations, events : SUBSET Events,
          items : [Items -> {"none", "unruled", "kept", "killed"}],
          consumed : SUBSET Captures, dedup : SUBSET Captures]

EmptyCanon == [nodes |-> {}, edges |-> {}, events |-> {},
               items |-> [i \in Items |-> "none"], consumed |-> {}, dedup |-> {}]

\* The identities that the payload of a node repeats.
Mentions(n) ==
    {n} \cup {SourceOf[p] : p \in {q \in Proposals : q = n \/ SuccessorOf[q] = n}}
        \cup {p \in Proposals : SuccessorOf[p] = n}

\* The session and the scope that the payload of an ingest item repeats.
ItemScope(i) == {SessionOf[i], ScopeNodeOf[i]}

\* What the payload of some row repeats.  The event of a capture is its envelope,
\* with its session and its operator; every other command names the operator who
\* acts, but for the proposals and for the KILL of an item.
Named(d) ==
    (UNION {Mentions(n) : n \in d.nodes})
    \cup {SessionOf[c] : c \in d.nodes \cap Captures}
    \cup (UNION {ItemScope(i) : i \in {j \in Items : d.items[j] # "none"}})
    \cup (IF d.events \subseteq Proposals \cup (Items \ d.nodes) THEN {} ELSE {Operator})

\* The nodes and edges of a snapshot, with their payloads and provenance.
Projected(d) ==
    d.edges \cup (UNION {Mentions(n) : n \in d.nodes})
    \cup (UNION {ItemScope(i) : i \in d.nodes \cap Items})
    \cup (IF d.nodes \subseteq Captures \cup Proposals THEN {} ELSE {Operator})

\* Of a database file only the columns with identities are looked at.
Columns(d) ==
    d.nodes \cup d.edges \cup d.events \cup {i \in Items : d.items[i] # "none"}

-----------------------------------------------------------------------------
(* The data root: CONTENT_LOCATION_REGISTRY, reduced to the directories    *)
(* that hold something, in the order of sorted().                          *)

Rank(f) == CASE f[1] = "backups"     -> 1
             [] f[1] = "projections" -> 2
             [] f[1] = "pending"     -> 3
             [] f[1] = "receipts"    -> 4
             [] f[1] = "runtime"     -> 5
             [] f[1] = "spool"       -> 6

Spool(c) == <<"spool", c>>
Ack(c) == <<"runtime", c>>
Pending(p) == <<"pending", p>>
Receipt(p) == <<"receipts", p>>
Backup == <<"backups", None>>
Projection == <<"projections", None>>

Files == {Spool(c) : c \in Captures} \cup {Ack(c) : c \in Captures}
         \cup {Pending(p) : p \in Proposals} \cup {Receipt(p) : p \in Proposals}
         \cup {Backup, Projection}

Exists(f) == tree[f] # {}

\* What a proposal's receipt names: a rejected one has only the file's name.
Accepted(p) == {p}
Rejected == {None}

\* Mutants of Owned: the registry lacks a directory.
OwnedButSpool(f) == f[1] # "spool"
OwnedButReceipts(f) == f[1] # "receipts"

\* The registry covers every directory that content is written to.
Owned(f) == f \in Files

Database == <<"imprint.db", None>>
Residue == Files \cup {<<"authority", None>>, Database}

\* The file f now names S.  What names an identity of the purge is fresh when it is
\* written once the scan is over.
Write(f, S) ==
    /\ tree' = [tree EXCEPT ![f] = S]
    /\ fresh' = IF purge.pc \in {"database", "finish"} /\ S \cap purge.ids # {}
                THEN fresh \cup {f} ELSE fresh

\* A transaction of another command makes d of the canon.
Commit(d) ==
    /\ canon' = d
    /\ fresh' = IF purge.pc = "finish" /\ d # canon /\ Named(d) \cap purge.ids # {}
                THEN fresh \cup {Database} ELSE fresh

-----------------------------------------------------------------------------
(* _closure.                                                               *)

Scopes == ({"node"} \X Nodes) \cup ({"source"} \X (Captures \cup Items))
          \cup ({"session"} \X Sessions) \cup {<<"operator", Operator>>}

SeedEvents(d, scope) ==
    CASE scope[1] = "node"     -> {}
      [] scope[1] = "source"   -> {e \in {scope[2]} \cap d.events : e \in d.nodes}
      [] scope[1] = "session"  -> {c \in Captures \cap d.events : SessionOf[c] = scope[2]}
      [] scope[1] = "operator" -> d.events

SeedItems(d, scope) ==
    {i \in Items : /\ d.items[i] # "none"
                   /\ \/ scope = <<"source", i>>
                      \/ scope[1] = "session" /\ SessionOf[i] = scope[2]
                      \/ scope[1] = "operator"}

SeedNodes(d, scope) ==
    CASE scope[1] = "node"     -> {scope[2]} \cap d.nodes
      [] scope[1] = "operator" -> d.nodes
      [] OTHER                 -> {n \in d.nodes : n \in SeedEvents(d, scope)}

\* The scope must name an existing node, operator, session or source.
Resolves(d, scope) ==
    SeedNodes(d, scope) \cup SeedEvents(d, scope) \cup SeedItems(d, scope) # {}

ItemOf(d, i, S) == d.items[i] # "none" /\ (i \in S \/ ScopeNodeOf[i] \in S)

\* S is closed under edges, and under kept and scoped ingest items.
Closed(d, S) ==
    /\ \A e \in d.edges : e[1] \in S <=> e[2] \in S
    /\ \A i \in Items : ItemOf(d, i, S) => i \in S

\* The nodes and items of the loop: the least closed set over the seeds.
Closure(d, scope) ==
    LET seeds == SeedNodes(d, scope) \cup SeedItems(d, scope)
    IN {n \in Nodes : \A S \in SUBSET Nodes : seeds \subseteq S /\ Closed(d, S) => n \in S}

\* Mutant of ClosureEvents: the events of the nodes' dispositions are not looked up.
ClosureEventsOfNodes(d, S, seeds) == seeds \cup {e \in d.events : e \in S \/ e \in d.edges}

ClosureEvents(d, S, seeds) ==
    seeds \cup {e \in d.events : \/ e \in S
                                 \/ e \in d.edges /\ (e[1] \in S \/ e[2] \in S)
                                 \/ \E n \in S : e = <<n>>}

\* identity_ids: the nodes, items, edges and events of the closure, and the scope.
Identities(d, S, E, scope) ==
    S \cup {e \in d.edges : e[1] \in S \/ e[2] \in S} \cup E \cup {scope[2]}

\* The deletes of the transaction, for the closure S and its events E.
Erased(d, S, E) ==
    [nodes |-> d.nodes \ S,
     edges |-> {e \in d.edges : e[1] \notin S /\ e[2] \notin S},
     events |-> d.events \ E,
     items |-> [i \in Items |-> IF i \in S THEN "none" ELSE d.items[i]],
     consumed |-> d.consumed \ E,
     dedup |-> d.dedup \ E]

-----------------------------------------------------------------------------
(* hard_purge.                                                             *)

IdlePurge == [pc |-> "idle", op |-> 0, ids |-> {}, todo |-> {}, remaining |-> {}]

Resting == purge.pc \in {"idle", "failed"}

Working(v) == derive[v].pc \in {"append", "receipt"}

Held == (UNION {pass[q].todo \cup pass[q].done : q \in Passes})
        \cup {derive[v].cur : v \in {w \in Derivers : Working(w)}}

\* Rows of semantic_business_node_versions refer to the versions of a business node
\* and are not among the deletes.
KeptBack(S) == S \cap Business # {}

\* The transaction: the operation is recorded as incomplete and the rows of the
\* closure are deleted.
HardPurge(scope) ==
    /\ Resting
    /\ Resolves(canon, scope)
    /\ LET S == Closure(canon, scope)
           E == ClosureEvents(canon, S, SeedEvents(canon, scope))
           ids == Identities(canon, S, E, scope)
       IN /\ ~KeptBack(S)
          /\ \E k \in 1..MaxPurges :
               /\ ops[k].status = "none" /\ \A j \in 1..(k - 1) : ops[j].status # "none"
               /\ ops' = [ops EXCEPT ![k] = [status |-> "incomplete", ids |-> ids]]
               /\ purge' = [IdlePurge EXCEPT !.pc = "project", !.op = k, !.ids = ids]
          /\ canon' = Erased(canon, S, E)
          /\ overlap' = overlap \cup (Held \cap ids)
    /\ UNCHANGED <<tree, orphan, pass, derive, twice, fresh, edits, faults>>

\* A delete that breaks a foreign key raises IntegrityError: the transaction is rolled
\* back, the operation's row with it, and the command fails.
PurgeFails(scope) ==
    /\ Resting
    /\ Resolves(canon, scope)
    /\ KeptBack(Closure(canon, scope))
    /\ purge' = [IdlePurge EXCEPT !.pc = "failed"]
    /\ UNCHANGED <<canon, tree, orphan, ops, pass, derive, overlap, twice, fresh, edits, faults>>

\* VACUUM, then both projections are rendered from a new snapshot.
RewriteProjections ==
    /\ purge.pc = "project"
    /\ purge' = [purge EXCEPT !.pc = "list"]
    /\ tree' = [tree EXCEPT ![Projection] = Projected(canon)]
    /\ UNCHANGED <<canon, orphan, ops, pass, derive, overlap, twice, fresh, edits, faults>>

\* sorted(_iter_location_files)
ListFiles ==
    /\ purge.pc = "list"
    /\ purge' = [purge EXCEPT !.pc = "remove", !.todo = {f \in Files : Owned(f) /\ Exists(f)}]
    /\ UNCHANGED <<canon, tree, orphan, ops, pass, derive, overlap, twice, fresh, edits, faults>>

\* Mutant of Marked: only a file that is named for a purged node is looked at.
MarkedByName(f, ids) == f[2] \in ids

Marked(f, ids) == tree[f] \cap ids # {}

\* _remove_owned_files_with_markers, one file: an unlink that fails is passed over.
RemoveFile ==
    /\ purge.pc = "remove"
    /\ \E f \in purge.todo :
         /\ \A g \in purge.todo : Rank(f) <= Rank(g)
         /\ purge' = [purge EXCEPT !.todo = @ \ {f}]
         /\ \/ /\ Marked(f, purge.ids)
               /\ tree' = [tree EXCEPT ![f] = {}]
               /\ UNCHANGED faults
            \/ /\ Marked(f, purge.ids)
               /\ faults < MaxFaults
               /\ faults' = faults + 1
               /\ UNCHANGED tree
            \/ /\ ~Marked(f, purge.ids)
               /\ UNCHANGED <<tree, faults>>
    /\ UNCHANGED <<canon, orphan, ops, pass, derive, overlap, twice, fresh, edits>>

\* _trusted_authority_paths: of the files under authority/ only those that a key's
\* row and its ledger event bind are trusted; a key that waits for its pairing is not.
Untrusted == IF orphan THEN {<<"authority", None>>} ELSE {}

\* _scan_active_root: a new listing; an untrusted authority file is residue too.
ScanActiveRoot ==
    /\ purge.pc = "remove"
    /\ purge.todo = {}
    /\ purge' = [purge EXCEPT !.pc = "database",
                   !.remaining = {f \in Files : Owned(f) /\ Marked(f, purge.ids)}
                                 \cup Untrusted]
    /\ UNCHANGED <<canon, tree, orphan, ops, pass, derive, overlap, twice, fresh, edits, faults>>

\* _database_content_has_markers
ScanDatabase ==
    /\ purge.pc = "database"
    /\ purge' = [purge EXCEPT !.pc = "finish",
                   !.remaining = @ \cup (IF Named(canon) \cap purge.ids # {}
                                         THEN {Database} ELSE {})]
    /\ UNCHANGED <<canon, tree, orphan, ops, pass, derive, overlap, twice, fresh, edits, faults>>

\* Mutant of FinishPurge: what hard_purge returns is stored for the state of the row.
FinishPurgeAsReturned ==
    /\ purge.pc = "finish"
    /\ ops' = [ops EXCEPT ![purge.op].status =
                 IF purge.remaining = {} THEN "purged" ELSE "purged_with_residue"]
    /\ purge' = IdlePurge
    /\ fresh' = {}
    /\ UNCHANGED <<canon, tree, orphan, pass, derive, overlap, twice, edits, faults>>

\* Residue leaves the operation incomplete; otherwise its receipt is written.
FinishPurge ==
    /\ purge.pc = "finish"
    /\ ops' = [ops EXCEPT ![purge.op].status =
                 IF purge.remaining = {} THEN "complete" ELSE "incomplete"]
    /\ purge' = IdlePurge
    /\ fresh' = {}
    /\ UNCHANGED <<canon, tree, orphan, pass, derive, overlap, twice, edits, faults>>

\* The process dies after its commit.  No command resumes an operation.
PurgeCrash ==
    /\ ~Resting
    /\ faults < MaxFaults
    /\ faults' = faults + 1
    /\ purge' = IdlePurge
    /\ fresh' = {}
    /\ UNCHANGED <<canon, tree, orphan, ops, pass, derive, overlap, twice, edits>>

-----------------------------------------------------------------------------
(* The compiler pass, reduced to what a purge can meet: an input is read,  *)
(* captured in a transaction of its own, and then acknowledged.            *)

IdlePass == [todo |-> {}, done |-> {}]

\* What a spooled envelope names; its acknowledgement names the input alone.
Envelope(c) == {c, SessionOf[c], Operator}

NewEnvelope(c) ==
    /\ \A k \in 1..MaxPurges : c \notin ops[k].ids
    /\ ~Exists(Spool(c)) /\ ~Exists(Ack(c))
    /\ c \notin canon.consumed \cup Held
    /\ Write(Spool(c), Envelope(c))
    /\ UNCHANGED <<canon, orphan, ops, purge, pass, derive, overlap, twice, edits, faults>>

ReadSpool(q) ==
    LET read == {c \in Captures : Exists(Spool(c)) /\ ~Exists(Ack(c))}
    IN /\ pass[q] = IdlePass
       /\ read # {}
       /\ pass' = [pass EXCEPT ![q].todo = read]
       /\ overlap' = overlap \cup (read \cap purge.ids)
       /\ UNCHANGED <<canon, tree, orphan, ops, purge, derive, twice, fresh, edits, faults>>

\* _apply_capture_on_connection
Captured(d, c) ==
    IF c \in d.consumed \/ \E b \in d.dedup : WordsOf[b] = WordsOf[c]
    THEN d
    ELSE [d EXCEPT !.nodes = @ \cup {c}, !.events = @ \cup {c},
                   !.consumed = @ \cup {c}, !.dedup = @ \cup {c}]

ApplyCapture(q, c) ==
    /\ c \in pass[q].todo
    /\ Commit(Captured(canon, c))
    /\ pass' = [pass EXCEPT ![q] = [todo |-> @.todo \ {c}, done |-> @.done \cup {c}]]
    /\ UNCHANGED <<tree, orphan, ops, purge, derive, overlap, twice, edits, faults>>

\* The acknowledgement hashes its source again: a source that is gone ends the pass.
Acknowledge(q, c) ==
    /\ pass[q].todo = {} /\ c \in pass[q].done
    /\ \/ /\ Exists(Spool(c))
          /\ Write(Ack(c), {c})
          /\ pass' = [pass EXCEPT ![q].done = @ \ {c}]
       \/ /\ ~Exists(Spool(c))
          /\ pass' = [pass EXCEPT ![q] = IdlePass]
          /\ UNCHANGED <<tree, fresh>>
    /\ UNCHANGED <<canon, orphan, ops, purge, derive, overlap, twice, edits, faults>>

\* One more command that is bounded.
Edit == edits < MaxEdits /\ edits' = edits + 1

-----------------------------------------------------------------------------
(* The proposal spool: submit_proposal, compile_pending_proposals and      *)
(* append_proposal.                                                        *)

IdleDerive == [pc |-> "idle", todo |-> {}, cur |-> None, accepted |-> FALSE]

\* Published create-new; the same bytes again are accepted.
SubmitProposal(p) ==
    /\ ~Exists(Pending(p))
    /\ Write(Pending(p), Mentions(p))
    /\ UNCHANGED <<canon, orphan, ops, purge, pass, derive, overlap, twice, edits, faults>>

StartDerive(v) ==
    /\ Edit
    /\ derive[v].pc = "idle"
    /\ \E p \in Proposals : Exists(Pending(p))
    /\ derive' = [derive EXCEPT ![v] =
          [IdleDerive EXCEPT !.pc = "next", !.todo = {p \in Proposals : Exists(Pending(p))}]]
    /\ UNCHANGED <<canon, tree, orphan, ops, purge, pass, overlap, twice, fresh, faults>>

\* _receipt_is_current.  For a rejected receipt it raises, and the file is passed
\* over for good as well.
ReceiptIsCurrent(p) == tree[Receipt(p)] = Accepted(p) /\ p \in canon.nodes

PassedOver(p) == ReceiptIsCurrent(p) \/ tree[Receipt(p)] = Rejected

\* One source file that is settled by its receipt, or that is gone and counted as
\* rejected.
SkipPending(v, p) ==
    /\ derive[v].pc = "next"
    /\ p \in derive[v].todo
    /\ Exists(Pending(p)) => PassedOver(p)
    /\ derive' = [derive EXCEPT ![v].todo = @ \ {p}]
    /\ UNCHANGED <<canon, tree, orphan, ops, purge, pass, overlap, twice, fresh, edits, faults>>

\* One source file to append.  Nothing keeps another run from having it in hand too.
ReadPending(v, p) ==
    /\ derive[v].pc = "next"
    /\ p \in derive[v].todo
    /\ Exists(Pending(p)) /\ ~PassedOver(p)
    /\ derive' = [derive EXCEPT ![v].todo = @ \ {p}, ![v].pc = "append", ![v].cur = p]
    /\ overlap' = overlap \cup ({p} \cap purge.ids)
    /\ twice' = twice \cup {q \in {p} : \E w \in Derivers \ {v} : Working(w) /\ derive[w].cur = q}
    /\ UNCHANGED <<canon, tree, orphan, ops, purge, pass, fresh, edits, faults>>

\* The source is a captured event, and the references are its nodes.
Derivable(d, p) == SourceOf[p] \in d.nodes \cap d.events

\* append_proposal: applied, a duplicate, or a ValidationError.
AppendProposal(v) ==
    /\ derive[v].pc = "append"
    /\ LET p == derive[v].cur
           ok == p \in canon.nodes \/ Derivable(canon, p)
       IN /\ derive' = [derive EXCEPT ![v].pc = "receipt", ![v].accepted = ok]
          /\ Commit(IF ok THEN [canon EXCEPT !.nodes = @ \cup {p}, !.events = @ \cup {p}]
                          ELSE canon)
    /\ UNCHANGED <<tree, orphan, ops, purge, pass, overlap, twice, edits, faults>>

\* _immutable_write: a receipt with other bytes is a ConflictError, and nothing
\* in compile_pending_proposals catches it.
WriteReceipt(v) ==
    /\ derive[v].pc = "receipt"
    /\ LET p == derive[v].cur
           receipt == IF derive[v].accepted THEN Accepted(p) ELSE Rejected
           onward == [derive EXCEPT ![v].pc = "next", ![v].cur = None, ![v].accepted = FALSE]
       IN \/ /\ ~Exists(Receipt(p))
             /\ Write(Receipt(p), receipt)
             /\ derive' = onward
          \/ /\ tree[Receipt(p)] = receipt
             /\ derive' = onward
             /\ UNCHANGED <<tree, fresh>>
          \/ /\ tree[Receipt(p)] \notin {{}, receipt}
             /\ derive' = [derive EXCEPT ![v] = [IdleDerive EXCEPT !.pc = "aborted"]]
             /\ UNCHANGED <<tree, fresh>>
    /\ UNCHANGED <<canon, orphan, ops, purge, pass, overlap, twice, edits, faults>>

\* The run is over, stopped by the conflict, or stopped because a source file that
\* it has just seen is gone when it reads it.
EndDerive(v) ==
    /\ \/ derive[v].pc = "next" /\ derive[v].todo = {}
       \/ derive[v].pc = "aborted"
       \/ derive[v].pc = "next" /\ \E p \in derive[v].todo : ~Exists(Pending(p))
    /\ derive' = [derive EXCEPT ![v] = IdleDerive]
    /\ UNCHANGED <<canon, tree, orphan, ops, purge, pass, overlap, twice, fresh, edits, faults>>

-----------------------------------------------------------------------------
(* IngestService, and the commands of the store that draw the graph.       *)

\* scan: the item gets identities of its own.
ScanItem(i) ==
    /\ Edit
    /\ canon.items[i] = "none"
    /\ \A k \in 1..MaxPurges : i \notin ops[k].ids
    /\ Commit([canon EXCEPT !.items[i] = "unruled"])
    /\ UNCHANGED <<tree, orphan, ops, purge, pass, derive, overlap, twice, faults>>

\* KEEP creates one node with its source receipt; KILL only the ruling's event.
RuleItem(i, verdict) ==
    /\ Edit
    /\ canon.items[i] = "unruled"
    /\ Commit([canon EXCEPT !.items[i] = verdict, !.events = @ \cup {i},
                    !.nodes = IF verdict = "kept" THEN @ \cup {i} ELSE @])
    /\ UNCHANGED <<tree, orphan, ops, purge, pass, derive, overlap, twice, faults>>

\* append_semantic_relation, add_transition; append_business_relation between business nodes
Relate(m, n) ==
    /\ Edit
    /\ <<m, n>> \in Relatable
    /\ {m, n} \subseteq canon.nodes
    /\ Commit([canon EXCEPT !.edges = @ \cup {<<m, n>>}, !.events = @ \cup {<<m, n>>}])
    /\ UNCHANGED <<tree, orphan, ops, purge, pass, derive, overlap, twice, faults>>

\* A disposition or a new version of a node.
Review(n) ==
    /\ Edit
    /\ n \in Reviewable \cap canon.nodes
    /\ Commit([canon EXCEPT !.events = @ \cup {<<n>>}])
    /\ UNCHANGED <<tree, orphan, ops, purge, pass, derive, overlap, twice, faults>>

\* authorize_proposal_successor: the evidence it retains must be in the canon.
AuthorizeSuccessor(p) ==
    LET s == SuccessorOf[p]
    IN /\ Edit
       /\ {p, SourceOf[p]} \subseteq canon.nodes
       /\ s \notin canon.nodes
       /\ Commit([canon EXCEPT !.nodes = @ \cup {s}, !.events = @ \cup {s},
                                 !.edges = @ \cup {<<p, s>>}])
       /\ UNCHANGED <<tree, orphan, ops, purge, pass, derive, overlap, twice, faults>>

\* append_ontology_bundle with a business payload
AppendBusiness(b) ==
    /\ Edit
    /\ b \in Business \ canon.nodes
    /\ Commit([canon EXCEPT !.nodes = @ \cup {b}, !.events = @ \cup {b}])
    /\ UNCHANGED <<tree, orphan, ops, purge, pass, derive, overlap, twice, faults>>

\* create_backup below the data root
TakeBackup ==
    /\ Edit
    /\ ~Exists(Backup)
    /\ canon.nodes # {}
    /\ Write(Backup, Columns(canon))
    /\ UNCHANGED <<canon, orphan, ops, purge, pass, derive, overlap, twice, faults>>

\* An interrupted key operation leaves a blob that no ledger row binds.
LeaveOrphan ==
    /\ ~orphan
    /\ faults < MaxFaults
    /\ faults' = faults + 1
    /\ orphan' = TRUE
    /\ UNCHANGED <<canon, tree, ops, purge, pass, derive, overlap, twice, fresh, edits>>

-----------------------------------------------------------------------------

Init ==
    /\ canon = EmptyCanon
    /\ tree = [f \in Files |-> {}]
    /\ orphan = FALSE
    /\ ops = [k \in 1..MaxPurges |-> [status |-> "none", ids |-> {}]]
    /\ purge = IdlePurge
    /\ pass = [q \in Passes |-> IdlePass]
    /\ derive = [v \in Derivers |-> IdleDerive]
    /\ overlap = {} /\ twice = {} /\ fresh = {}
    /\ edits = 0 /\ faults = 0

PurgeStep ==
    \/ \E scope \in Scopes : HardPurge(scope) \/ PurgeFails(scope)
    \/ RewriteProjections \/ ListFiles \/ RemoveFile \/ ScanActiveRoot
    \/ ScanDatabase \/ FinishPurge \/ PurgeCrash

CaptureStep ==
    \/ \E c \in Captures : NewEnvelope(c)
    \/ \E q \in Passes : ReadSpool(q)
    \/ \E q \in Passes, c \in Captures : ApplyCapture(q, c) \/ Acknowledge(q, c)

DeriveStep ==
    \/ \E p \in Proposals : SubmitProposal(p)
    \/ \E v \in Derivers, p \in Proposals : SkipPending(v, p) \/ ReadPending(v, p)
    \/ \E v \in Derivers : StartDerive(v) \/ AppendProposal(v) \/ WriteReceipt(v) \/ EndDerive(v)

StoreStep ==
    \/ \E i \in Items : ScanItem(i) \/ RuleItem(i, "kept") \/ RuleItem(i, "killed")
    \/ \E m, n \in Nodes : Relate(m, n)
    \/ \E n \in Nodes : Review(n)
    \/ \E p \in Proposals : AuthorizeSuccessor(p)
    \/ \E b \in Business : AppendBusiness(b)
    \/ TakeBackup \/ LeaveOrphan

Next == PurgeStep \/ CaptureStep \/ DeriveStep \/ StoreStep

Spec == Init /\ [][Next]_vars

-----------------------------------------------------------------------------
(* Properties.                                                             *)

\* Every variable keeps to its domain: in particular the markers of a purge are
\* identities of nodes, items, relations, events and scopes, whatever the closure
\* reached, and an operation is in one of the states that later commands know.
TypeOK ==
    /\ canon \in Canon
    /\ tree \in [Files -> SUBSET (Ids \cup {None})]
    /\ orphan \in BOOLEAN
    /\ ops \in [1..MaxPurges -> [status : {"none", "incomplete", "complete"},
                                 ids : SUBSET Ids]]
    /\ purge \in [pc : {"idle", "failed", "project", "list", "remove", "database", "finish"},
                  op : 0..MaxPurges, ids : SUBSET Ids, todo : SUBSET Files,
                  remaining : SUBSET Residue]
    /\ pass \in [Passes -> [todo : SUBSET Captures, done : SUBSET Captures]]
    /\ derive \in [Derivers -> [pc : {"idle", "next", "append", "receipt", "aborted"},
                                todo : SUBSET Proposals, cur : Proposals \cup {None},
                                accepted : BOOLEAN]]
    /\ overlap \subseteq Nodes
    /\ twice \subseteq Proposals
    /\ fresh \subseteq Files \cup {Database}
    /\ edits \in 0..MaxEdits
    /\ faults \in 0..MaxFaults

\* The event that drew an edge: a successor's edge belongs to its own event.
EdgeEvent(e) == IF \E p \in Proposals : e = <<p, SuccessorOf[p]>> THEN e[2] ELSE e

\* No purge that commits leaves a row that refers to a deleted one: _closure reaches
\* every row that refers to an event, node or item it deletes, and deduplication never
\* answers for a capture that is gone.  The rows of business versions, which it does
\* not reach, stop the purge instead (PurgeFails).
ForeignKeysHold ==
    /\ \A n \in canon.nodes : n \in canon.events
    /\ \A e \in canon.edges : {e[1], e[2]} \subseteq canon.nodes /\ EdgeEvent(e) \in canon.events
    /\ \A n \in Nodes : <<n>> \in canon.events => n \in canon.nodes
    /\ \A i \in Items : canon.items[i] = "kept" <=> i \in canon.nodes
    /\ \A i \in Items : i \in canon.events => canon.items[i] # "none"
    /\ canon.consumed = canon.nodes \cap Captures
    /\ canon.dedup = canon.consumed

Purged(k) == ops[k].status = "complete"

\* A capture that a completed purge took comes back into the canon only if a
\* compiler pass held it while the purge was under way (purge.py takes no lease):
\* completion means that no later pass can find it in the spool.
NoReturn ==
    \A k \in 1..MaxPurges : \A c \in Captures :
        Purged(k) /\ c \in ops[k].ids /\ c \in canon.consumed => c \in overlap

Completes(k) == ops[k].status = "incomplete" /\ ops'[k].status = "complete"

\* hard_purge says "purged" only when no file below the root and no row of the
\* canon repeats an identity of the closure, but for what others wrote after the
\* scan; and a node of the closure is back only if a pass or a derive had it, or what
\* it comes from, in memory.
CompletionClean ==
    [][\A k \in 1..MaxPurges : Completes(k) =>
         /\ \A n \in ops[k].ids :
               /\ \A f \in Files : n \in tree[f] => f \in fresh
               /\ n \in Named(canon) => Database \in fresh
         /\ \A n \in ops[k].ids \cap canon.nodes : Mentions(n) \cap overlap # {}]_vars

Aborts(v) == derive[v].pc # "aborted" /\ derive'[v].pc = "aborted"

\* compile_pending_proposals is stopped by a receipt it may not overwrite only when
\* two runs had the proposal in hand at once, when the proposal was purged by an
\* operation that is not complete, or while this compiler was at work on it; a
\* completed purge leaves no such receipt.
NoLoneAbort ==
    [][\A v \in Derivers : Aborts(v) =>
         \/ derive[v].cur \in twice \cup overlap
         \/ \E k \in 1..MaxPurges :
               ops[k].status = "incomplete" /\ derive[v].cur \in ops[k].ids]_vars

\* "imprint delete purge --scope EXACT_NODE_OPERATOR_SESSION_OR_SOURCE_ID"
\* (docs/privacy-and-recovery.md): a confirmed purge of a scope that exists is carried
\* out.
PurgeCommits == purge.pc # "failed"

\* "The second command is irreversible" (docs/privacy-and-recovery.md): a capture
\* in the closure of a committed purge is not in the canon again.
Irreversible ==
    [][\A k \in 1..MaxPurges : \A c \in Captures \cap ops[k].ids :
         c \notin canon.consumed => c \notin canon'.consumed]_vars

=============================================================================
