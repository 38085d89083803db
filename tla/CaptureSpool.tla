---------------------------- MODULE CaptureSpool ----------------------------
(***************************************************************************)
(* The capture path of Imprint, from the immutable spool to the canonical  *)
(* store: write_envelope, the body of compile_spools, apply_capture_batch, *)
(* the acknowledgements, the quarantine receipts and                       *)
(* prune_acknowledged_spools, which also runs as `imprint spool prune`     *)
(* outside the compiler lease.                                             *)
(*                                                                         *)
(* The lease is CompilerLock's subject.  Here any number of passes may run *)
(* at once: what is shown of the canon does not rest on the lease.         *)
(*                                                                         *)
(* An envelope is a model value; payload_sha256 and the file bytes tell    *)
(* two envelopes apart exactly when they differ.                           *)
(***************************************************************************)
EXTENDS Naturals

CONSTANTS
    Passes,       \* the processes that run compile_spools
    Pruners,      \* the processes that run `imprint spool prune`
    Paths,        \* spool/<node>/<event>.json, in the order of sorted()
    Envelopes,    \* the contents a spool file can have
    EventIds, Texts, Nodes,
    Valid,        \* the envelopes validate_capture_envelope accepts
    PathOf,       \* where write_envelope puts an envelope
    EventOf,      \* its input_event_id
    TextOf,       \* the hash of its raw_operator_text
    StampOf,      \* its captured_at
    NodeOf,       \* the node of a path
    SharesNode,   \* <<e, f>> whose case, verdict or other node ids collide
    ForeignFiles, \* <<path, content>> that may arrive from elsewhere
    HomeNode,     \* config node_id: what `spool prune` prunes
    ExpectedNode, \* store.expected_node_id, or None
    BatchSize,    \* CAPTURE_BATCH_SIZE
    MaxFaults,    \* bound on crashes and I/O failures
    None

ASSUME SpoolAssumption ==
    /\ Paths \subseteq Nat /\ EventIds \subseteq Nat
    /\ None \notin Envelopes \cup Passes \cup Paths
    /\ Passes \cap Pruners = {}
    /\ Valid \subseteq Envelopes
    /\ PathOf \in [Envelopes -> Paths]
    /\ EventOf \in [Envelopes -> EventIds]
    /\ TextOf \in [Envelopes -> Texts]
    /\ StampOf \in [Envelopes -> Nat]
    /\ NodeOf \in [Paths -> Nodes]
    /\ SharesNode \subseteq Envelopes \X Envelopes
    /\ ForeignFiles \subseteq Paths \X Envelopes
    /\ BatchSize \in Nat \ {0}
    /\ MaxFaults \in Nat

VARIABLES
    spool,     \* the spool files
    acks,      \* runtime/acknowledgements, keyed like the spool
    receipts,  \* quarantine receipts, one per spool path
    db,        \* the committed canon
    txn,       \* the write transaction: who holds it, its uncommitted canon
    run,       \* per pass: its place and locals in compile_spools
    job,       \* per pass and pruner: its place in prune_acknowledged_spools
    faults

vars == <<spool, acks, receipts, db, txn, run, job, faults>>

Actors == Passes \cup Pruners
File == Envelopes \cup {None}

-----------------------------------------------------------------------------
(* The canon: consumed_inputs, with the event, nodes and edges a capture   *)
(* inserts, and captured_feedback_dedup.                                   *)

Canon == [consumed : [EventIds -> File], dedup : SUBSET Texts]

EmptyCanon == [consumed |-> [i \in EventIds |-> None], dedup |-> {}]

\* The canon holds this envelope, or the same operator words from another one.
Accounted(d, e) == d.consumed[EventOf[e]] = e \/ TextOf[e] \in d.dedup

\* Another producer's node, or another payload under the same event id.
Conflicts(d, e) ==
    \/ ExpectedNode # None /\ NodeOf[PathOf[e]] # ExpectedNode
    \/ d.consumed[EventOf[e]] \notin {None, e}

\* The inserts meet an identity that is taken: rolled back to the savepoint.
Collides(d, e) ==
    \E f \in Envelopes : <<e, f>> \in SharesNode /\ d.consumed[EventOf[f]] = f

\* Mutant of Result: the operator words are not looked up.
ResultByEvent(d, e) ==
    IF Conflicts(d, e) THEN "rejected"
    ELSE IF d.consumed[EventOf[e]] = e THEN "duplicate"
    ELSE "captured"

\* The result of _apply_capture_on_connection on the canon d.
Result(d, e) ==
    IF Conflicts(d, e) THEN "rejected"
    ELSE IF Accounted(d, e) THEN "duplicate"
    ELSE IF Collides(d, e) THEN "rejected"
    ELSE "captured"

Rejects(d, e) == Result(d, e) = "rejected"

\* The canon after it.
Applied(d, e) ==
    IF Result(d, e) = "captured"
    THEN [consumed |-> [d.consumed EXCEPT ![EventOf[e]] = e],
          dedup |-> d.dedup \cup {TextOf[e]}]
    ELSE d

-----------------------------------------------------------------------------
(* Acknowledgements: payload hash, file hash, source path, retention age.  *)

NoAck == [env |-> None, src |-> None, path |-> None, old |-> FALSE]

Ack == [env : File, src : File, path : Paths \cup {None}, old : BOOLEAN]

\* acknowledgement_committed for the envelope e read from path p.
AcknowledgementCommitted(p, e) ==
    LET ack == acks[PathOf[e]] IN ack.env = e /\ ack.src = spool[p] /\ ack.path = p

-----------------------------------------------------------------------------
(* Producers.                                                              *)

\* write_envelope publishes create-new.  The same bytes are accepted again,
\* different bytes at the path are a ConflictError: both change nothing.
WriteEnvelope(e) ==
    /\ e \in Valid
    /\ spool[PathOf[e]] = None
    /\ spool' = [spool EXCEPT ![PathOf[e]] = e]
    /\ UNCHANGED <<acks, receipts, db, txn, run, job, faults>>

\* A file that no write_envelope of this installation put there.
ForeignFile(p, e) ==
    /\ <<p, e>> \in ForeignFiles
    /\ spool[p] = None
    /\ spool' = [spool EXCEPT ![p] = e]
    /\ UNCHANGED <<acks, receipts, db, txn, run, job, faults>>

-----------------------------------------------------------------------------
(* compile_spools.                                                         *)

IdleRun == [pc |-> "idle", todo |-> {}, inputs |-> [p \in Paths |-> None],
            results |-> [p \in Paths |-> "none"], acked |-> {}, size |-> 0,
            seen |-> {}]

Set(c, r) == run' = [run EXCEPT ![c] = r]

FreeTxn == [by |-> None, draft |-> EmptyCanon]

IdleJob == [todo |-> {}, aged |-> {}, cut |-> None, stage |-> "off"]

\* A prune lists the acknowledgements of these nodes; its threshold, fixed when
\* it starts, is past the aged ones.  (The nodes of a pass are pruned in turn.)
PruneJob(nodes) ==
    [todo |-> {k \in Paths : acks[k] # NoAck /\ NodeOf[k] \in nodes},
     aged |-> {k \in Paths : acks[k].old /\ NodeOf[k] \in nodes},
     cut |-> None, stage |-> "look"]

\* The pass raises: the open batch is rolled back, its locals are gone.
Raise(c) ==
    /\ Set(c, IdleRun)
    /\ txn' = IF txn.by = c THEN FreeTxn ELSE txn

\* sorted(glob("*/*.json"))
StartPass(c) ==
    /\ run[c].pc = "idle"
    /\ Set(c, [IdleRun EXCEPT !.pc = "scan", !.todo = {p \in Paths : spool[p] # None}])
    /\ UNCHANGED <<spool, acks, receipts, db, txn, job, faults>>

\* _quarantine_receipt: create-new, one per path.
Receipt(p) == [receipts EXCEPT ![p] = IF @ = "none" THEN "new" ELSE @]

\* Mutant of QuarantineInput: malformed content ends the pass.
AbortOnInput(c, p, rest) == Raise(c) /\ UNCHANGED receipts

\* Malformed content: a receipt, and on with the next file.
QuarantineInput(c, p, rest) ==
    /\ receipts' = Receipt(p)
    /\ Set(c, rest)
    /\ UNCHANGED txn

\* One file of the listing: gone, malformed, acknowledged, or an input.
ReadInput(c) ==
    /\ run[c].pc = "scan"
    /\ \E p \in run[c].todo :
         LET e == spool[p]
             rest == [run[c] EXCEPT !.todo = @ \ {p}]
         IN /\ \A q \in run[c].todo : p <= q
            /\ \/ /\ e = None
                  /\ Raise(c) /\ UNCHANGED receipts
               \/ /\ e \in Envelopes \ Valid
                  /\ QuarantineInput(c, p, rest)
               \/ /\ e \in Valid /\ AcknowledgementCommitted(p, e)
                  /\ Set(c, [rest EXCEPT !.seen = @ \cup {NodeOf[PathOf[e]]}])
                  /\ UNCHANGED <<receipts, txn>>
               \/ /\ e \in Valid /\ ~AcknowledgementCommitted(p, e)
                  /\ Set(c, [rest EXCEPT !.seen = @ \cup {NodeOf[PathOf[e]]},
                                         !.inputs[p] = e])
                  /\ UNCHANGED <<receipts, txn>>
    /\ UNCHANGED <<spool, acks, db, job, faults>>

EndScan(c) ==
    /\ run[c].pc = "scan"
    /\ run[c].todo = {}
    /\ Set(c, [run[c] EXCEPT !.pc = "apply"])
    /\ UNCHANGED <<spool, acks, receipts, db, txn, job, faults>>

Inputs(c) == {p \in Paths : run[c].inputs[p] # None}
Pending(c) == {p \in Inputs(c) : run[c].results[p] = "none"}

\* sorted(inputs): by captured_at, input_event_id and path.
Precedes(c, p, q) ==
    LET e == run[c].inputs[p]
        f == run[c].inputs[q]
    IN \/ StampOf[e] < StampOf[f]
       \/ StampOf[e] = StampOf[f] /\ EventOf[e] < EventOf[f]
       \/ StampOf[e] = StampOf[f] /\ EventOf[e] = EventOf[f] /\ p < q

First(c, p, S) == p \in S /\ \A q \in S \ {p} : Precedes(c, p, q)

\* Mutant of BeginBatch: the group does not wait for the write lock.
BeginBatchAnyway(c) ==
    /\ run[c].pc = "apply"
    /\ Pending(c) # {}
    /\ txn' = [by |-> c, draft |-> db]
    /\ Set(c, [run[c] EXCEPT !.size = 0])
    /\ UNCHANGED <<spool, acks, receipts, db, job, faults>>

\* BEGIN IMMEDIATE: one write transaction at a time.
BeginBatch(c) ==
    /\ run[c].pc = "apply"
    /\ Pending(c) # {}
    /\ txn.by = None
    /\ txn' = [by |-> c, draft |-> db]
    /\ Set(c, [run[c] EXCEPT !.size = 0])
    /\ UNCHANGED <<spool, acks, receipts, db, job, faults>>

\* Mutant of InBatch: one capture more than the group holds.
InLongBatch(c) == run[c].size <= BatchSize

InBatch(c) == run[c].size < BatchSize

\* One savepoint of the batch.
ApplyOne(c) ==
    /\ txn.by = c
    /\ InBatch(c)
    /\ \E p \in Paths :
         LET e == run[c].inputs[p]
         IN /\ First(c, p, Pending(c))
            /\ txn' = [txn EXCEPT !.draft = Applied(@, e)]
            /\ Set(c, [run[c] EXCEPT !.results[p] = Result(txn.draft, e),
                                     !.size = @ + 1])
    /\ UNCHANGED <<spool, acks, receipts, db, job, faults>>

\* conn.commit(): the durability boundary of the group.
CommitBatch(c) ==
    /\ txn.by = c
    /\ ~InBatch(c) \/ Pending(c) = {}
    /\ db' = txn.draft
    /\ txn' = FreeTxn
    /\ UNCHANGED <<spool, acks, receipts, run, job, faults>>

\* apply_capture_batch returns: every group is committed.
EndApply(c) ==
    /\ run[c].pc = "apply"
    /\ txn.by # c
    /\ Pending(c) = {}
    /\ Set(c, [run[c] EXCEPT !.pc = "ack"])
    /\ UNCHANGED <<spool, acks, receipts, db, txn, job, faults>>

\* Mutant of Settles: a duplicate gets no acknowledgement.
SettlesCaptured(result) == result = "captured"

Settles(result) == result \in {"captured", "duplicate"}

\* One result: quarantine it, or _write_acknowledgement.  An acknowledgement
\* with another identity, or a source that is gone, ends the pass.
AcknowledgeOne(c) ==
    /\ run[c].pc = "ack"
    /\ \E p \in Paths :
         LET e == run[c].inputs[p]
             k == PathOf[e]
             done == [run[c] EXCEPT !.acked = @ \cup {p}]
         IN /\ First(c, p, Inputs(c) \ run[c].acked)
            /\ \/ /\ ~Settles(run[c].results[p])
                  /\ receipts' = Receipt(p)
                  /\ Set(c, done) /\ UNCHANGED <<acks, txn>>
               \/ /\ Settles(run[c].results[p])
                  /\ spool[p] # None
                  /\ acks[k] = NoAck
                  /\ acks' = [acks EXCEPT ![k] =
                                [env |-> e, src |-> spool[p], path |-> p, old |-> FALSE]]
                  /\ Set(c, done) /\ UNCHANGED <<receipts, txn>>
               \/ /\ Settles(run[c].results[p])
                  /\ AcknowledgementCommitted(p, e) /\ spool[p] # None
                  /\ Set(c, done) /\ UNCHANGED <<acks, receipts, txn>>
               \/ /\ Settles(run[c].results[p])
                  /\ \/ spool[p] = None
                     \/ acks[k] # NoAck /\ ~AcknowledgementCommitted(p, e)
                  /\ Raise(c) /\ UNCHANGED <<acks, receipts>>
    /\ UNCHANGED <<spool, db, job, faults>>

\* Then prune every producer node that was seen.
EndAcks(c) ==
    /\ run[c].pc = "ack"
    /\ run[c].acked = Inputs(c)
    /\ Set(c, [run[c] EXCEPT !.pc = "prune"])
    /\ job' = [job EXCEPT ![c] = IF run[c].seen = {} THEN IdleJob ELSE PruneJob(run[c].seen)]
    /\ UNCHANGED <<spool, acks, receipts, db, txn, faults>>

\* The pass returns its counts.
EndPass(c) ==
    /\ run[c].pc = "prune"
    /\ job[c].stage = "off"
    /\ Set(c, IdleRun)
    /\ UNCHANGED <<spool, acks, receipts, db, txn, job, faults>>

\* A crash, a full disk, a busy database: the pass ends wherever it is.
PassFails(c) ==
    /\ faults < MaxFaults
    /\ run[c].pc # "idle"
    /\ faults' = faults + 1
    /\ Raise(c)
    /\ job' = [job EXCEPT ![c] = IdleJob]
    /\ UNCHANGED <<spool, acks, receipts, db>>

-----------------------------------------------------------------------------
(* prune_acknowledged_spools, in a pass or as a command of its own.        *)

StartPrune(a) ==
    /\ job[a].stage = "off"
    /\ job' = [job EXCEPT ![a] = PruneJob({HomeNode})]
    /\ UNCHANGED <<spool, acks, receipts, db, txn, run, faults>>

\* Mutant of Provable: the hashes are not compared with the source.
ProvableByPath(a, k) == acks[k].path = k /\ k \in job[a].aged /\ acks[k].old

\* The exact commit proof, and its age.
Provable(a, k) ==
    /\ acks[k].path = k
    /\ acks[k].env = spool[k]
    /\ acks[k].src = spool[k]
    /\ k \in job[a].aged /\ acks[k].old

\* One acknowledgement: its source is gone already, it proves the commit of an
\* aged source, or it is retained (or counted invalid).
PruneLook(a) ==
    /\ job[a].stage = "look"
    /\ \E k \in job[a].todo :
         LET next == [job[a] EXCEPT !.todo = @ \ {k}, !.aged = @ \ {k}]
         IN /\ \A q \in job[a].todo : k <= q
            /\ \/ /\ acks[k].path = k /\ spool[k] = None
                  /\ acks' = [acks EXCEPT ![k] = NoAck]
                  /\ job' = [job EXCEPT ![a] = next]
               \/ /\ spool[k] # None /\ Provable(a, k)
                  /\ job' = [job EXCEPT ![a] = [next EXCEPT !.cut = k, !.stage = "source"]]
                  /\ UNCHANGED acks
               \/ /\ acks[k].path # k \/ (spool[k] # None /\ ~Provable(a, k))
                  /\ job' = [job EXCEPT ![a] = next]
                  /\ UNCHANGED acks
    /\ UNCHANGED <<spool, receipts, db, txn, run, faults>>

\* source.unlink(): whatever file is at the path now.
PruneSource(a) ==
    /\ job[a].stage = "source"
    /\ spool' = [spool EXCEPT ![job[a].cut] = None]
    /\ job' = [job EXCEPT ![a] =
                 IF spool[job[a].cut] = None
                 THEN [@ EXCEPT !.cut = None, !.stage = "look"]
                 ELSE [@ EXCEPT !.stage = "ack"]]
    /\ UNCHANGED <<acks, receipts, db, txn, run, faults>>

\* ack_path.unlink()
PruneAck(a) ==
    /\ job[a].stage = "ack"
    /\ acks' = [acks EXCEPT ![job[a].cut] = NoAck]
    /\ job' = [job EXCEPT ![a].cut = None, ![a].stage = "look"]
    /\ UNCHANGED <<spool, receipts, db, txn, run, faults>>

\* At last the aged quarantine receipts go.
PruneReceipts(a) ==
    /\ job[a].stage = "look"
    /\ job[a].todo = {}
    /\ receipts' = [p \in Paths |-> IF receipts[p] = "old" THEN "none" ELSE receipts[p]]
    /\ job' = [job EXCEPT ![a] = IdleJob]
    /\ UNCHANGED <<spool, acks, db, txn, run, faults>>

\* A crash of the command (a pass's is PassFails), also between the unlinks.
PruneFails(a) ==
    /\ faults < MaxFaults
    /\ job[a].stage # "off"
    /\ faults' = faults + 1
    /\ job' = [job EXCEPT ![a] = IdleJob]
    /\ UNCHANGED <<spool, acks, receipts, db, txn, run>>

\* The retention period goes by.
RetentionPasses ==
    /\ acks' = [k \in Paths |-> IF acks[k] = NoAck THEN NoAck
                                 ELSE [acks[k] EXCEPT !.old = TRUE]]
    /\ receipts' = [p \in Paths |-> IF receipts[p] = "none" THEN "none" ELSE "old"]
    /\ UNCHANGED <<spool, db, txn, run, job, faults>>

-----------------------------------------------------------------------------

Init ==
    /\ spool = [p \in Paths |-> None]
    /\ acks = [k \in Paths |-> NoAck]
    /\ receipts = [p \in Paths |-> "none"]
    /\ db = EmptyCanon
    /\ txn = FreeTxn
    /\ run = [c \in Passes |-> IdleRun]
    /\ job = [a \in Actors |-> IdleJob]
    /\ faults = 0

Compile(c) ==
    \/ ReadInput(c) \/ EndScan(c) \/ BeginBatch(c) \/ ApplyOne(c)
    \/ CommitBatch(c) \/ EndApply(c) \/ AcknowledgeOne(c) \/ EndAcks(c) \/ EndPass(c)

Prune(a) == PruneLook(a) \/ PruneSource(a) \/ PruneAck(a) \/ PruneReceipts(a)

Next ==
    \/ \E e \in Envelopes : WriteEnvelope(e)
    \/ \E p \in Paths, e \in Envelopes : ForeignFile(p, e)
    \/ \E c \in Passes : StartPass(c) \/ Compile(c) \/ PassFails(c)
    \/ \E a \in Actors : Prune(a)
    \/ \E a \in Pruners : StartPrune(a) \/ PruneFails(a)
    \/ RetentionPasses

Spec == Init /\ [][Next]_vars

\* Two prunes (of a pass, of the command) do not run at the same time.
PrunesDoNotOverlap ==
    \A a, b \in Actors : job[a].stage # "off" /\ job[b].stage # "off" => a = b

SerialPruneSpec == Init /\ [][Next /\ PrunesDoNotOverlap']_vars

\* A started pass or prune goes on, and there is always another pass: the Stop
\* hook compiles at every turn.
Fairness ==
    /\ \A c \in Passes : WF_vars(StartPass(c) \/ Compile(c) \/ Prune(c))
    /\ \A a \in Pruners : WF_vars(Prune(a))

FairSpec == Spec /\ Fairness

-----------------------------------------------------------------------------
(* Properties.                                                             *)

Run == [pc : {"idle", "scan", "apply", "ack", "prune"}, todo : SUBSET Paths,
        inputs : [Paths -> File],
        results : [Paths -> {"none", "captured", "duplicate", "rejected"}],
        acked : SUBSET Paths, size : 0..BatchSize, seen : SUBSET Nodes]

Job == [todo : SUBSET Paths, aged : SUBSET Paths, cut : Paths \cup {None},
        stage : {"off", "look", "source", "ack"}]

\* Every variable has its type.
TypeOK ==
    /\ spool \in [Paths -> File]
    /\ acks \in [Paths -> Ack]
    /\ receipts \in [Paths -> {"none", "new", "old"}]
    /\ db \in Canon
    /\ txn \in [by : Passes \cup {None}, draft : Canon]
    /\ run \in [Passes -> Run]
    /\ job \in [Actors -> Job]
    /\ faults \in 0..MaxFaults

\* An acknowledgement proves a durable commit: whatever crashed, the canon
\* holds the envelope it names, or the same operator words.
AckedIsCommitted ==
    \A k \in Paths : acks[k] # NoAck => Accounted(db, acks[k].env)

\* "Delete only this producer's old spool inputs after exact commit proof": a
\* spool file goes away only when the canon has what is in it.
DeletesOnlyCommitted ==
    [][\A p \in Paths :
         spool[p] # None /\ spool'[p] # spool[p] => Accounted(db, spool[p])]_vars

\* The canon refines CanonOnce: captures are appended, once per event and once
\* per operator words, a batch at a time.
Captured == {e \in Envelopes : db.consumed[EventOf[e]] = e}
Once == INSTANCE CanonOnce WITH captured <- Captured
CanonIsExactlyOnce == Once!Spec

\* Every valid input is settled: its words reach the canon, or it is refused.
EventuallySettled ==
    \A p \in Paths, e \in Valid :
        spool[p] = e ~> Accounted(db, e) \/ Rejects(db, e) \/ spool[p] # e

\* And the commit of a settled input is eventually acknowledged.
EventuallyAcknowledged ==
    \A e \in Valid :
        spool[PathOf[e]] = e ~>
            \/ AcknowledgementCommitted(PathOf[e], e)
            \/ Rejects(db, e)
            \/ spool[PathOf[e]] # e

-----------------------------------------------------------------------------
(* The inductive invariants behind AckedIsCommitted, DeletesOnlyCommitted  *)
(* and CanonIsExactlyOnce.                                                 *)

\* f holds everything d holds.
Extends(d, f) ==
    /\ d.dedup \subseteq f.dedup
    /\ \A i \in EventIds : d.consumed[i] # None => f.consumed[i] = d.consumed[i]

\* The words of every captured envelope are in the dedup table, and only once.
WordsOnce(d) ==
    /\ \A e \in Envelopes : d.consumed[EventOf[e]] = e => TextOf[e] \in d.dedup
    /\ \A e, f \in Envelopes :
          /\ d.consumed[EventOf[e]] = e
          /\ d.consumed[EventOf[f]] = f
          /\ TextOf[e] = TextOf[f]
          => e = f

\* The open group belongs to a pass inside apply_capture_batch and only adds.
BatchHolds ==
    /\ WordsOnce(db)
    /\ txn.by # None =>
          /\ run[txn.by].pc = "apply"
          /\ Extends(db, txn.draft)
          /\ WordsOnce(txn.draft)

\* The canon as a pass sees it: its own open group, or what is committed.
View(c) == IF txn.by = c THEN txn.draft ELSE db

\* Every result a pass holds is true of the canon it sees.
ResultsHold ==
    \A c \in Passes : \A p \in Paths :
        /\ run[c].pc = "scan" => run[c].results[p] = "none"
        /\ Settles(run[c].results[p]) =>
              /\ run[c].inputs[p] \in Envelopes
              /\ Accounted(View(c), run[c].inputs[p])

AcksHold ==
    \A k \in Paths :
        acks[k] # NoAck => acks[k].env \in Envelopes /\ Accounted(db, acks[k].env)

CanonInv == TypeOK /\ BatchHolds /\ ResultsHold /\ AcksHold

\* A prune that is about to unlink its source still holds the proof of it.
ProofHolds ==
    \A a \in Actors :
        job[a].stage = "source" =>
            /\ job[a].cut \in Paths
            /\ acks[job[a].cut] # NoAck
            /\ spool[job[a].cut] = acks[job[a].cut].env

PruneInv == CanonInv /\ PrunesDoNotOverlap /\ ProofHolds

=============================================================================
