# Verification of Imprint

TLA+ models of Imprint, checked with TLC on small instances and, for the results
listed under *Proofs*, proved with TLAPS for every value of the constants. Paths are
relative to the repository; `spool.py` is `src/imprint/compiler/spool.py` and
`service.py` is `src/imprint/store/service.py` unless said otherwise.

## The system

Imprint keeps an operator's judgments. A hook writes every captured judgment as an
immutable file into a spool; a compiler pass moves spool files into a SQLite canon;
everything that changes the meaning of the canon afterwards is a prepared mutation
that the operator approves at a terminal with a signed, single-use token. Several
short-lived processes (hook, CLI, cron) share the operator root. There is no daemon:
every guarantee rests on file-system calls, on SQLite transactions and on what a
process that died in between leaves behind.

| Component | State | Operations | Meets |
|---|---|---|---|
| Compiler lease (`spool.py:25-232, 415-500`) | directory `compiler.lock`, `owner.json`, staged temporaries | take, heartbeat, release, inspect, recover | every pass; `secure_tree` |
| Capture spool and pass (`spool.py`, `capture/schema.py`, `service.py:669-930`) | spool files, acknowledgements, quarantine receipts, `consumed_inputs`, `captured_feedback_dedup` | `write_envelope`, `compile_spools`, `apply_capture_batch`, `prune_acknowledged_spools` | hook, lease, canon, purge |
| Durable publication (`durable_io.py`), permissions (`permissions.py`) | files and directories | create-new, staged replace, harden | all of the above |
| Operator authority (`authority/`) | ledger, keys and their blobs, challenges, provenance, prepared mutations, external anchor | prepare, approve, execute, rotate, change key state, adjudicate, recover | every reviewed mutation of the canon |
| Node life cycle (`service.py:3233-4010`) | node versions, edges, events | ratify, correct, contest, reject, defer, tombstone, ... | authority, retrieval |
| Ontology (`service.py:1029-2430, 2515-2920`) | record and relation versions in two times, grants | append, correct, contest, supersede, relate, grant, revoke | authority, `ontology_as_of` |
| Proposal spool (`derive/`) | proposal files, receipts, cold-start state | write, compile | captures that arrive later |
| Purge (`purge.py`) | `purge_operations`, files below the data root | purge | a pass, the proposal compiler, ingest, backups |
| Store file, backup, migrations (`service.py:470-668`, `backup.py`, `portability/`) | the database file, its log, backups and receipts | open, commit, back up, restore, migrate, recover | every session |
| Trust between machines (`authority/`) | anchors, pins, tickets, carried files | enroll, bundle, export, bootstrap, pair, restore, transfer | the ledgers of other machines |
| Retrieval, domains (`retrieve/`, `domains/`) | read model, receipts | select, rank, record | canon generations |
| Hook bridge (`hooks/_bridge.py`, `capture/`) | deadline, spool writes | stop capture | spool |
| Ingest (`ingest/`) | sources, items | resume | authority, canon |
| Health, CLI, adapters | none of their own | report, dispatch | everything |

What is hard here: processes that meet only in the file system; crashes between two
file-system calls, or between a commit and the file that acknowledges it; leases that
are judged by age; values read in one transaction and used in the next; approvals
that arrive after the state they approve has changed. `PROJECT.json` lists these
hazards at their lines, with the properties that would catch them.

What makes each part correct:

- lease: one writer, and a lease is never taken from a process that still holds it;
- spool: an input is captured once, acknowledged only after its commit, deleted only
  after its acknowledgement, and never forgotten;
- authority: an approval is used once, for exactly the state that was shown to the
  operator, under the key and the ledger head that were current;
- life cycle: no update is lost and the version history stays a chain;
- ontology: every pair of times has one answer or an open contest, and consent is asked
  when a write happens, not when it is prepared;
- proposals: a receipt stops the compiler only where two runs met or a purge is unfinished;
- store file: what was reported committed is in the store or in a backup, and a log is
  replayed only into the file it belongs to;
- trust: a machine never contradicts a checkpoint it has pinned;
- purge: what was purged does not come back.

## Modules

### CompilerLock

The lease. `lock` is the directory at the path `compiler.lock`: inode, owner,
staged temporaries and whether its age test fires. `claimed[r]` is the directory a
recovery renamed aside; `pc`, `saw` and `left` are the place and the locals of
`compile_spools` in each process, `rec` those of `recover_stale_compiler_lock`. Each
file-system call that another process can observe is one action: `Mkdir`,
`SecureLock`, `StageOwner`/`CommitOwner` (the two halves of `replace_private`),
`ReadOwner`/`UnlinkOwner`/`RmdirLock` (the `finally` block), `SweepList`/`SweepSecure`
(`secure_tree`), and `Inspect`, `StatLock`, `Recheck`, `Claim`, `Verify`,
`RemoveClaimed`, `RestoreCheck`, `RestoreMove`, `RestoreSecure` for a recovery. Any
process may crash anywhere; calls may fail where the code has an error path; inode
numbers are reused; time passes in one step that makes every directory old.

The `except` clause of a recovery (`spool.py:183-190`) is modelled in full: a failing
`secure_tree`, `stat` or read (`VerifyFails`), a failing `unlink` or `rmdir` or residue
that is not owned, before or after `owner.json` was unlinked (`RemoveStops`), lead to the
look whether the path is free and then to `os.replace`, which also replaces an empty
directory made since (`RestoreMove`) or fails (`RestoreMoveFails`).

Abstracted: the heartbeat's clock (one Boolean, `old`), the nonce (it identifies the
process), the body of the pass (only its heartbeats are visible in the lease).

### CaptureSpool and CanonOnce

The path from `write_envelope` to the canon and back to the deletion of the spool
file. State: `spool`, `acks` and `receipts` by path, the committed canon `db`, the one
open write transaction `txn`, the locals of every pass (`run`) and of every prune
(`job`). `ReadInput` is one turn of the scan loop, `ApplyOne` one savepoint of
`apply_capture_batch`, `CommitBatch` its `conn.commit()`, `AcknowledgeOne` one turn of
the acknowledgement loop; `PruneLook`, `PruneSource` and `PruneAck` are the check and
the two unlinks of `prune_acknowledged_spools`. `Result` is the decision of
`_apply_capture_on_connection`: rejected, duplicate or captured.

The module does not use the lease: any number of passes may run at once, and what is
shown of the canon does not depend on `CompilerLock`.

An envelope is a model value; functions give its event id, words, timestamp and path.
Its hash is the envelope itself. `SharesNode` says which envelopes collide on a node
id, so that a group can be partly refused.

`CanonOnce` is the abstract specification: a set of captured envelopes that only
grows, with no two of one event or of the same operator words. `CaptureSpool`
implements it with `captured <- Captured`.

### AuthorityLedger

The abstract specification of `authority/ledger.py`: `chain` is the status of every key
as `verify_authority_chain` computes it, `seq` the sequence of the head, `blocked` the
anchor's `writes_blocked`. One action per kind of event: `Rotated`, `Certified`
(recovery and pairing), `Revoked`, `Compromised`, `Adjudicated`. Hashes and signatures
are left out: an event has a signer that is active when it is appended.

### KeyCustody

The ceremonies of `authority/service.py` that write this ledger: `rotate_key`,
`create_recovery_bundle`, `authorize_pairing_request`, `change_key_state` (with the
local key or a recovery bundle), `adjudicate_authority_conflict`, and `reconcile`, with
which the local ones start. Beside the ledger the state is what the ceremonies can
leave behind: the rows of `authority_keys` (`bound`, with the sequence they are bound
to), the key files (`blobs`, with the sequence in the AAD they are sealed with),
`proofs`, the recovery-publication `journal`, the write transaction (`writer`) and the
locals of each console (`desk`). What happens between two reads or writes of different
transactions, or between a transaction and a file operation, is a separate action;
what happens inside one transaction that reads and writes nothing else is one action.
`Abort` is every refusal and error (`rotate_key` takes its file away again), `Crash` a
process that dies. `KeyCustody` implements `AuthorityLedger` (`LedgerIsKept`), with the
variables of the ledger as they are.

`Spec` lets ceremonies overlap in any way; `OrderlySpec` only keeps adjudications apart
(`OneAdjudication`). `crossed` is a history variable: the keys during whose own rotation,
from the seal to the commit, another console appended an event or stood between the two
parts of `reconcile`. It records steps of the other console and not whether the seal came
to fit; the code has no defence there (`MCKeyCustody_seal.cfg`), and `ActiveKeyIsUsable`
excepts these keys and requires the file of every other active key to open, whatever
rotations, sweeps, aborts and crashes came before and come after.

### Approval

`ImprintStore._consume_authority` and the commands that go through it to review nodes
and edges. `Prepare` is a command without a token, `Approve` the operator's approval,
`Execute` the command with the signed token: `load_prepared_mutation`,
`verify_and_consume`, `mark_prepared_executed` and the change of the canon, which are
one transaction. `RatifyNode`, `CorrectTypedNode`, `ContestTypedNode`, `RejectNode`,
`DeferNode`, `TombstoneNode` and `ReviewEdge` say which heads a command accepts and
what becomes of them. The ledger moves beside it by `AuthorityLedger`'s actions.

A refused command changes nothing: `connect()` rolls back, the `expired` status
included. The signature reads and writes nothing, so it is part of `Approve`, and a
challenge that is never signed is one that is never executed. The version an operation
creates is named by the operation, because its id is frozen in the prepared row. Times
are not modelled: expiry is a step that may happen at any moment and only takes away
what may be executed. An intent is the command and the item; the wording of a reason
is left out, and a retry with other words is one of the refusals.

`held` is a history variable: the challenges that were outstanding when a compromise put
the store on hold. A compromise names one key, but `verify_and_consume` compares the
ledger head an approval was given at, so that no approval survives a hold, even one
signed by a key that stays active (`HoldVoidsApprovals`).

### Purge

`hard_purge` and everything that writes what it has to find again. `canon` is the
committed store reduced to nodes, edges, events, ingest items, `consumed_inputs` and
`captured_feedback_dedup`; `tree` maps every file of `CONTENT_LOCATION_REGISTRY` to the
identities `_file_has_identity` would find in it; `ops` is `purge_operations`. `Closure`
and `ClosureEvents` are `_closure`: from the node, source, session or operator that the
scope names, the least set that is closed under edges and under kept and scoped ingest
items (so that it may reach into another session), and the events of what is in it.
`HardPurge` is the transaction, `RewriteProjections`, `ListFiles`, `RemoveFile`,
`ScanActiveRoot`, `ScanDatabase` and `FinishPurge` what follows it, with `PurgeCrash`
anywhere; no step of the code resumes an incomplete operation, so neither does the model.
Beside it run the compiler pass (`ReadSpool`, `ApplyCapture`, `Acknowledge`), the proposal
spool (`SubmitProposal`), any number of runs of `compile_pending_proposals`, which takes
no lease (`SkipPending`, `ReadPending`, `AppendProposal`, `WriteReceipt`), ingest
(`ScanItem`, `RuleItem`), relations, reviews, successors, business nodes and backups. The
pass is coarser here than in `CaptureSpool`: between the read and the commit only what it
holds matters to a purge.

`Identities` is `identity_ids`: the nodes, items, edges and events of the closure and the
scope itself. Files are searched for all of them, and what a file names differs by kind: a
spooled envelope names its session and its operator, a projection the payloads of nodes and
edges (`Projected`), a SQLite backup only what its identity columns hold (`Columns`), so
that a purge by session or operator does not find a backup by the scope alone.

A purge whose closure reaches a node with `semantic_business_*` rows fails (`PurgeFails`):
no statement deletes these rows, the foreign keys of the schema refuse the transaction and
everything is rolled back. `ForeignKeysHold` is about the purges that commit, and the run
`purge_business` about this one.

`overlap`, `twice` and `fresh` are history variables: what a pass or a derive held while a
purge named it, the proposals that two derives had in hand at once, and what was written
after the scan. They are what the code cannot see, since neither `hard_purge` nor
`compile_pending_proposals` takes a lease, and `NoReturn`, `CompletionClean` and
`NoLoneAbort` except exactly them.

Abstracted: a node stands for its versions and the event that created it, the nodes of one
capture are one node, and the id of a version is found wherever that of its node or edge
is; a relation of the business graph is between business nodes, so that it is held back
with them; a scan of the tree is one step, where `purge.py:397-413` goes file by file (what
is written during it is written before or after it). `MaxEdits` bounds the derives, the
scans and rulings of items, the commands of the store and the backups.

### StoreFile

The canonical database as a file. `live` is the inode at the path, `file` what each inode
holds, `wal` the log beside the path, which SQLite finds by name. A session of `connect()`
is `Preflight`, `Open`, `VerifyHandle`, `CommitGroup`/`EndGroup` (the compiler, which
commits several times in one session) or `Recheck`/`CommitCommand` (the check of the inode
and the commit of every other command), `Close`. A maintenance command is `StartBackup`,
`Snapshot`, `Seal`; `StartRestore`, `Stage`, the safety backup, `Link`, `Replace`,
`InspectReplaced` with its rollback; `StartMigration`, `PinLive`, `RecheckLive`, `Swap`;
`ApplyMigration`; `Recover` (which replays the log and leaves write-ahead mode) and
`RetireSidecars` (which unlinks the sidecars by name after its connection is closed). A
restore rolls back (`RollBack`) when it finds sidecars beside the replaced file and when
its inspection fails for any other reason. Each file-system call that a session can
observe is a step of its own, and any process may be killed between two.

Content is the set of captures and authority events, and the pair of schema versions as
far as the code tells it apart. `raced` and `torn` are history variables: a commit between
a replacement's last look and the replacement, and a log that two inodes shared or that
`RetireSidecars` took from a session that had opened meanwhile. SQLite
(log, checkpoint on last close, replay on open) is external and modelled from its
documented behaviour. `Exclusive` says that maintenance commands do not overlap: they are
an operator's commands, and nothing in the code keeps them apart. That an inode number is
not used again while a session remembers it is an assumption (`Held`).

### Trust

Several machines of one operator, which share nothing but files that are carried.
Each has its `ledger`, `pins`, `anchor`, `keys` row, key files (`blobs`), pending pairing
requests and transfer tickets; `files` is everything that was ever written for another
machine, readable in any order and any number of times. The actions are the ceremonies
of `authority/service.py`: `Enroll`, `EnrollWithRecovery`, `CreateRecoveryBundle` (which
publishes before it commits, and may die before the commit or between it and the clearing
of its journal, `Cleared`), `AbandonInterruptedRecovery`,
`Revoke`, `CreateCheckpoint`, `ExportAuthorityTransport` (which pins in one transaction
and reads the ledger in another), `BootstrapRecoveryTrust`, `CreatePairingRequest`,
`AuthorizePairingRequest`, `FinalizePairing`, `RestoreRecoveryBundle`,
`PrepareCheckpointAdvance`, `FinalizeAnchorAdvance`. `Sign` is what a ceremony with the
local key asks first, `reconcile` included. A ceremony has one stamp that names the event,
key and checkpoint it makes; hashes are the things they are hashes of. A request is
authorized by the identity of the store alone and finalized by its whole genesis, as in the
code (`StoreIdentity`); the identity is read off the genesis, also for a machine that was
bootstrapped from the bundle of an enrollment that never committed. `KeyCustody` has
the other side: how the ceremonies of one machine interleave.

### Ontology

Records and relations in valid and system time. `rows` is `node_versions` joined with
`semantic_node_versions`, `grants` the versions of consent grants, `rels` the edge
versions, `ops` the pending prepared mutations. Every call takes the next instant `now`. A
command is a record of what the caller gives; `Requests` is the request it comes to in the
present state (nothing where it is refused, several where the code takes one of several
rows without an ORDER BY); `Prepare` stores it with the time; `Granted` is the second
call, which must come to the stored request (`Approved`, the comparison in
`load_prepared_mutation`) and writes with the frozen time. Records whose authority tier
needs no approval are written in one call. `AsOf` is the query of `ontology_as_of`.

`TombstoneNode`, `RatifyNode` and `RejectNode` are the reviews of `service.py` as far as
they write the same versions: each takes one current version, whichever the query returns
first, and of a contested record with two it closes one member. A ratified version has no
`semantic_node_versions` row, so that `ontology_as_of` does not find it. Deferrals,
evidence of verdicts, typed corrections and typed contests replace versions of `Plain`
records only and are in `Approval`. `TombstoneGrant` ends a consent grant; the supersession
of a grant closes it in the same way and is not modelled apart.

`ConsentAllows` has the interval of the grant, the earlier of `effective_to` and the end of
its retention days, its system interval and its revocation. A grant of release 3.0
(`Legacy`), whose payload has no `source_class`, is stored by no command of this release:
it is there from `Init` on, a bundle under it is asked only that it had begun
(`service.py:1121-1135`), it cannot be revoked, and a tombstone does not stop bundles under
it. `StoredUnderStandingGrant` excepts these grants.

`lengthened` is a history variable: the versions whose valid time had ended and was moved
to a later end by `add_transition`. `AsOfIsDecided` excepts the coordinates of these
versions and covers supersessions of records with any number of current versions.
Payloads, evidence, sensitivity and assessments are left out. Each call has an instant of
its own and the clock does not step back: `utc_now` counts microseconds, and a person
approves between two calls.

## Runs

| Run | Shows |
|---|---|
| `lease_supported` | Two compilers and two recoveries that do not overlap, on one host, with crashes and I/O errors of both: `MutualExclusion`, `WriterIsOwner`, `ClaimsOnlyDead`, `LeaseKept`, and `CompilerEnds` under weak fairness. |
| `spool_serial` | Two passes, one prune command, reused event ids, repeated words, one crash: `AckedIsCommitted`, `CanonIsExactlyOnce`, `DeletesOnlyCommitted`. |
| `spool_liveness` | Every valid input is settled and acknowledged, with one crash. |
| `custody_orderly` | Two consoles, two rotations that overlap freely, a recovery key, a paired key, aborts and crashes: `OneActiveKey`, `ActiveKeyIsUsable`, `HoldIsKept`, and the refinement of `AuthorityLedger` (`LedgerIsKept`). |
| `approval_review` | Two operations and two challenges on a typed proposal, a candidate and their relation, while keys move: `ApprovedOnce`, `HistoryIsChain`, `HoldVoidsApprovals`, `TombstoneIsFinal`. |
| `purge_closure` | One purge of any scope, one crash or failing unlink, beside a pass, two runs of the proposal compiler, ingest, relations, reviews, successors, business nodes and backups: `ForeignKeysHold`, `NoReturn`, `CompletionClean`, `NoLoneAbort`. |
| `store_maintenance` | Two sessions beside one backup, restore, migration or recovery at a time, one killed process or failing inspection: `NothingLost`, `LogIsOfLive`, `LedgerKept`. |
| `trust_transfer` | Two machines, three ceremonies each, files that arrive in any order: `LedgerKeepsPins`, `KeyIsSealedForItsCertificate`, `OnlyCommitted`, `AnchorMovesForward`. |
| `ontology_asof` | Six calls on four records, a grant and a grant of the last release, with corrections, contests, reviews, tombstones and supersessions, two mutations prepared at a time: `AsOfIsDecided`, `StoredUnderStandingGrant`. |
| `trust_key_file`, `ontology_retry`, `purge_business` | Violations; see *Findings*. |

Bounds. Two compilers are enough for one to hold and one to intrude; two recoveries for
one to act on what the other has changed; two inodes for one to be reused (three where
three directories exist at a time). `Inputs = 1` gives each pass a first `owner.json`
and a heartbeat. In the spool two paths hold an event id that is used twice (`a`, `a2`),
words that are used twice (`a`, `b`) and a colliding node id (`a2`, `b`); `BatchSize =
1` makes two groups, so a crash can fall between them; the liveness run has groups of
two. `MaxFaults` bounds crashes because every crash returns the pass to the start: one
is enough to fall at every place of a pass. In `KeyCustody` two consoles are enough for
one ceremony to act on what another read; the finite sets of keys bound the ceremonies
(three local keys for a rotation after a rotation), and crashes are not bounded.
`Approval` starts from a ledger that has enrolled with recovery and paired a machine,
counts its sequence from there and bounds it by `MaxSeq = 3`, enough to record a
compromise and adjudicate it, or to rotate, revoke or certify twice; two operations and
two challenges allow two reviews of one version and two approvals of one review. In
`Purge` one capture, its proposal and successor, an item scoped to the capture and a
business node are enough for every kind of edge that `_closure` follows; two edits let
two derives run beside each other, a derive precede a review, a successor or a backup,
or a business node be related to the capture, all before or after the purge, and one
fault falls at every step of it. In `StoreFile` two sessions are needed for one to be
open while the other commits, three inodes for the live file, its replacement and a
rollback, two backups for a safety backup beside the one that is restored. In `Trust`
three ceremonies allow enrollment, a recovery bundle and a revocation or a pairing; two
tickets are needed for one to go stale. In `Ontology` seven instants allow a grant, its
revocation and a bundle prepared between them, or two corrections prepared against one
version, or a contest and a review of one of its members. Deadlock is not checked: all
processes of the lease may have ended, a spool with nothing to do is at rest, and so is
an authority whose keys are all out of force, a store nobody opens, or an ontology at
its last instant.

Fairness. `compile_spools` and a recovery are straight-line code of a live process, so
a started one has weak fairness on its steps; starting one, crashing and the passage
of time have none. In `CaptureSpool` a new pass always starts eventually, because the
Stop hook of a compiler-authorized installation runs one at every turn
(`README.md:213`). No strong fairness is assumed. `FairSpec` of the lease
conjoins fairness with the supported deployment (`Supported` inside the fair actions,
so that fairness never asks for a step the deployment excludes).

The supported deployment of the lease: one host, one recovery at a time (it is an
operator's command with a typed confirmation), no live compiler stuck for
`LOCK_STALE_SECONDS` between `mkdir` and its first `owner.json` or between the last
`unlink` and `rmdir` (`Prompt`), and no compiler that starts between the two calls with
which a failed recovery undoes its claim (`UndoApart`). All four restrict the schedule, not
the state. What fails outside of it is what `MCCompilerLock_two_recoveries.cfg` and
`MCCompilerLock_undo.cfg` show; what still holds, `MCCompilerLock_contended.cfg`.

The four modules of the store and of trust between machines state no fairness: what they
claim is safety.

## Findings

1. `trust_key_file`. `reconcile` quarantines every key file that no row of `authority_keys`
   names. A key that waits for its pairing is named only by `authority_pairing_requests`,
   so any ceremony tried with the local key before `finalize_pairing` takes its file away.
   `finalize_pairing` does not look for the file: the machine is paired, and every later
   `reconcile`, with which the ceremonies start, fails.
2. `ontology_retry`. `revoke_consent` puts the time of the call into the intent when the
   caller leaves `revoked_at` out. The call with the signed token has another time, hence
   another intent, and is refused. The command that `docs/ontology-contracts.md:138` gives
   leaves it out.
3. `purge_business`. `hard_purge` deletes the closure's rows of `semantic_node_versions` and
   `semantic_relation_versions` but not the rows of `semantic_business_node_versions` and
   `semantic_business_relation_versions` that refer to them (`store/schema.py:361-371`). With
   foreign keys on, the delete raises `sqlite3.IntegrityError` and the whole purge is rolled
   back: neither a business node nor anything connected to one can be purged, although
   `docs/privacy-and-recovery.md:150-159` gives the command for any exact id.

### Companion configurations

These configurations are not among the runs of `PROJECT.json`. All but the first check one
property that the code does not keep, or keeps only in the deployment or with the exceptions
that its module's run has, and TLC finds it violated
(`tlc -config MCCompilerLock_sweep.cfg MCCompilerLock`).

- `MCCompilerLock_contended.cfg`, `DeletesOnlyDead`, which holds: with overlapping recoveries
  and compilers that stall for longer than the stale age a recovery still deletes only a
  directory whose owner it found dead after the claim. It is proved as
  `RecoveryDeletesOnlyDead`.
- `MCCompilerLock_undo.cfg`, `LeaseKept`. A recovery that an I/O error stops after its claim
  looks whether the path is free and then renames what it claimed onto it; a compiler that
  made its lease in between, still empty, loses the directory.

- `MCCompilerLock_residue.cfg`, `HeartbeatResidueIsOwned`. `replace_private` stages
  `owner.json` as `.owner.json.<random>`, and `owned_temporary` accepts only
  `.owner-<nonce>...`. A crash in the middle of a heartbeat leaves a lease that no recovery
  accepts.
- `MCCompilerLock_sweep.cfg`, `AbsentBetweenCompiles`. The closing `secure_tree` of one
  pass lists the lease another pass then releases, and `secure_directory` makes it again:
  compile is refused although nobody compiles, until the directory is old enough to
  recover (`README.md:146` calls `absent` "the normal state between compiles").
- `MCCompilerLock_two_recoveries.cfg`, `OneWriter`. The claim renames by path; of two
  recoveries of one dead lease the later can take away a new, live one, and a second
  writer gets in. `DeletesOnlyDead` still holds.
- `MCCaptureSpool_prune_race.cfg`, `DeletesOnlyCommitted`. `source.unlink()` acts by path
  after the check. When the prune of a pass and `imprint spool prune` overlap and an event
  id is reused with other bytes, an input that was never captured is deleted.
- `MCKeyCustody_seal.cfg`, `SealFits`. `rotate_key` seals the new key for the sequence
  after the head it read before the write lock. An event that commits in between makes
  the rotation succeed with a key that cannot be decrypted. An unlucky `reconcile` does
  the same harm: it lists the referenced blobs, a rotation publishes and commits, and the
  sweep quarantines the file of the active key.
- `MCKeyCustody_hold.cfg`, `HoldIsKept`. The second transaction of
  `adjudicate_authority_conflict` reads neither the proof nor the block again. Of two
  adjudications of one proof the later lifts the hold of a compromise recorded after the
  first.
- `MCPurge_irreversible.cfg`, `Irreversible`. A pass that has read an input captures it
  again after the purge: `hard_purge` takes no lease. `docs/privacy-and-recovery.md:159`
  calls the command irreversible.
- `MCOntology_winner.cfg`, `NoSilentWinner`. A contested record has two current versions;
  `tombstone_node`, `ratify_node`, `reject_node` and a supersession close one, and the other
  answers alone, although the docstring of `ontology_as_of` (`service.py:2129`) says
  "returning no silent contest winner".
- `MCOntology_supersede.cfg`, `NoOverlap`. A version that a correction ended in valid time is
  superseded, `add_transition` sets its `valid_to` to the later time, and two versions overlap
  at past system times.
- `MCOntology_named.cfg`, `GrantIsNotJustNamed`. `append_business_relation` looks only
  whether the grant exists, `append_ontology_contradiction` not even that, and corrections
  and contests carry the grant over; `docs/ontology-contracts.md:129` says that a field
  that merely names a grant is insufficient.

Seen without a configuration: a crash between the commit of `create_recovery_bundle` and
the removal of its journal leads `abandon_interrupted_recovery` to report that the bundle
"is not active authority" although its key is active in the ledger; a machine that was
bootstrapped from the bundle of an interrupted publication can never follow the ledger
that went on without it; the safety backup of an enrolled store is unsigned, so a later
restore of it is refused; an incomplete purge can never be resumed; `domain.select` raises
`KeyError` when another selection was executed after it was prepared.

Two statements of the documentation disagree with the code without a run being spent
on them: `docs/configuration.md:18` says pruning is never automatic, and
`compile_spools` prunes every node it saw (`spool.py:485`); `docs/configuration.md:54-56`
says the configured compiler consumes every machine's files, and the CLI sets
`expected_node_id` (`cli.py:649`), so that another node's inputs are quarantined
(`service.py:790`).

## Proofs

`CompilerLockProofs` assumes only `LockAssumption` (the names `None` stands for are
not processes or inodes, `Inputs` is a natural number, faults are of the two kinds).

- `TypeCorrect`: `Spec => []TypeOK`.
- `LeaseIsExclusive`, `WritersOwnTheLease`, `RecoveryClaimsOnlyDead`, `LeaseIsKept`,
  under `SupportedSpec`. Mutual exclusion is not inductive: a recovery between its
  inspection and its rename could claim a live lease if nothing were known of what it
  has seen. `LeaseInv` adds that a holder's ownerless directory is there and recent
  (`OwnerlessIsRecent`), that from the inspection to the rename the lease stays what
  was inspected (`InspectionHolds`), and that what was renamed is dead, and that nobody
  holds the lease while a failed recovery is about to put it back (`ClaimHolds`): the
  restore path is entered on I/O errors only, and restores a dead lease to a free path.
- `RecoveryDeletesOnlyDead`, for any number of overlapping recoveries on one host:
  `ClaimIsExact` is evaluated on the directory aside, where a compiler that ended
  stays ended.

`CaptureSpoolProofs` assumes only `SpoolAssumption` (types of the constants).

- `TypeCorrect`.
- `AcknowledgedIsCommitted` and `CapturedExactlyOnce` (the refinement of `CanonOnce`),
  under `Spec`, with any number of concurrent passes. `CanonInv` adds that the open
  group extends the committed canon (`BatchHolds`), and that every result a pass holds
  is true of the canon it sees, its own draft or the committed one (`ResultsHold`).
- `PruneDeletesOnlyCommitted`, under `SerialPruneSpec`. `PruneInv` adds that a prune
  about to unlink still holds the proof of its source (`ProofHolds`), which is what
  an overlapping prune destroys.

`KeyCustodyProofs` assumes `KeysAssumption` (the three kinds of keys are disjoint, the
genesis event binds at most one local key) and `ConsoleAssumption`.

- `TypeCorrect`, `OneActiveLocalKey` and `LedgerIsImplemented` (the refinement of
  `AuthorityLedger`) under `Spec`, whatever overlaps, aborts or dies. `CustodyInv` adds
  what a console knows at each place of its ceremony (`Fits`: inside the write
  transaction the signer is still active, the fresh key is still unknown), that a
  fresh key is on one desk only (`Apart`) and that proofs are about known keys.
- `HoldsAreKept` under `OrderlySpec`: `HoldInv` adds that at most one proof is pending
  and that an adjudication under way is about a pending one, which is what a second
  adjudication destroys.
- `ActiveKeysAreUsable` under `Spec`: `UsableInv` adds, of the keys no rotation of which
  was crossed, that every sweep spares the active one, and that a sealed one is sealed for
  the sequence after the head and published before its commit. That the seal fits is proved
  from the history and not assumed: a step that moves the head crosses every rotation under
  way (`Uncrossed`).

`ApprovalProofs` assumes `KeysAssumption` and `ReviewAssumption`.

- `TypeCorrect`, `ApprovalsAreSingle`, `HoldsVoidApprovals`, `HistoryIsKept` and
  `TombstonesAreFinal`. That histories are chains is inductive only with `VersionIsNew`:
  the version an operation will create does not exist before the operation is executed.
  `HoldsVoidApprovals` is not about one step: `HeldInv` says that a challenge that met a
  hold lies behind the head for ever (`Behind`) and that none lies ahead of it
  (`NotAhead`).

`PurgeProofs` assumes `PurgeAssumption`: the kinds of nodes are disjoint, every proposal
has a source and a successor, and a node is neither a pair nor a singleton of nodes, so
that the names of events do not meet. `BaseInv` is what every argument starts from.

- `TypeCorrect`; beside `TypeOK` a run of the proposal compiler has a proposal in hand
  whenever it is about to append one (`CurKnown`).
- `KeysHold`, with `CanonInv`: only an ingest item has an event without a node, and a
  successor hangs on its proposal, so that a closure that takes the one takes the other.
  The argument is about `Closure`: nothing that is left refers into it (`TakenNodes` says
  what the closure takes of each kind). A closure with a business node is not committed.
- `PurgedStaysAway`: from the transaction on a capture of the purge is neither in the
  canon nor in the hands of a pass unless `overlap` says so, and once the root was found
  clean it is not in the spool, where nobody puts it again (`NoReturnInv`).
- `LoneDeriveGoesOn`: `ReceiptInv` says what a receipt proves at each place of the proposal
  compiler; an accepted one is of a proposal in the canon, or of one that a purge took, and
  a rejected one meets a run that has the proposal in hand only if another run had it too
  (`TwiceNoted`, `NotRejected`).
- `CompletesClean`, with the hypothesis `SuccessorsDistinct`: each proposal has a
  successor id of its own, as the caller of `authorize_typed_successor` gives it
  (`service.py:3060`). `Mentions` reads what a successor names from `SuccessorOf`, so that a
  shared successor would name the sources of both proposals, and TLC then finds a purge
  that completes although such a successor of the other proposal is there. `CleanInv`
  carries what the two scans have found to the end of the operation: a node of the closure
  that is back is owed to the history (`Back`), items do not come back (`ItemsGone`), a
  successor is taken with its proposal (`SuccessorsTaken`), and a row that names an identity
  is fresh (`CanonClean`).

`StoreFileProofs` assumes `StoreFileAssumption` and, in every theorem, `Exclusive`.

- `TypeCorrect`: `ShapeInv` says which inode a session has and which backups a command
  has, and in what state, at each of its places.
- `LogOwned`: `LogInv` adds that every session in the store sees the log, that one that may
  write has the inode it checked, and that this inode is at the path unless a restore has
  still to inspect; and that the file which a migration replaces is of the old version, so
  that no session gets to write it. `RecoveryStep` says that neither half of
  `recover()` drops a frame: the frames it takes from the log are in the file (`Emptied`), and
  a log that has frames again is not unlinked.
- `NoReportedRowLost`: what is owed is what was reported and what a session has committed
  without reporting it yet (`KeptRows`); from the safety backup to the replacement whatever
  the store holds is in a backup, and after it whatever is owed (`Secured`).
- `AuthorityKept`: any two ledgers agree up to an event that both have (`Chained`), so a
  backup that holds the local head holds all that is local (`Followed`). The attempt to
  prove an earlier form of `LedgerKept` failed: a restore that was still inspecting could
  take events of its own backup away with its rollback, which TLC confirmed on an instance
  with more events. `LedgerKept` now says so.

`TrustProofs` assumes `TrustAssumption`, for any number of machines, ceremonies, tickets
and files.

- `TypeCorrect`: `TypeInv` adds the types of everything that is carried. A ledger that is
  read from a file may be longer than what its reader has made, so the sequences have no
  bound in the ceremonies of a machine.
- `KeysOpen`: a step only prolongs a ledger, or takes one that certifies the new key at
  the sequence it is sealed for.
- `AuthorsCommit`: `CommitInv` says the same of every transport and package, which are
  written after their commit; a recovery bundle, which is not, is never taken as a ledger.
- `PinsKept` and `AnchorsForward`, with `PinInv`. What matters is that a machine may pin a
  checkpoint without having the checkpoints before it, and later reads a history that goes
  through it. `HistOK`: no checkpoint is made twice, none is twice in a history, and a
  history without gaps holds, up to any checkpoint, whatever any other history holds up to
  it (`Through`). Hence what a machine has pinned is in every history that goes through its
  last pin, and agrees with the ledger that comes with it. `AgreeOK` says how the ledger,
  the pins and the anchor of one machine fit together; `TicketsOK`, that a ticket's
  checkpoint ends a history through the anchor it was prepared against.

`OntologyProofs` assumes `OntologyAssumption`.

- `TypeCorrect` and `ConsentStandsAtExecution`. `GrantInv`: a grant has at most one current
  version, and one that was closed, by a revocation or a tombstone, was closed before the
  present call.
- `AsOfDecided`. `RowInv` has six parts. The clock is ahead of every version, and a correction
  or a contest was prepared after the version it is bound to (`Clocked`); a frozen time
  belongs to one mutation, and no version carries it yet (`OwnInstant`); a version has its
  own name (`Named`); the members of a contest are of one record and one instant and begin
  together (`Contested`); what was lengthened is closed (`LengthenedClosed`); and any two
  versions that were not lengthened are apart in one of the two times or members of one
  contest (`Apart`). `ReplacedKeeps` is the common argument of corrections, contests, reviews
  and supersessions: one current version is closed and others are opened within its interval.

Only model-checked: the liveness properties `CompilerEnds`, `EventuallySettled` and
`EventuallyAcknowledged` (fairness and ENABLED are outside the prover's reach), and the
violations. Every invariant and every action property that a passing run checks is also
proved, under the specification of its run or a weaker one.

## Not modelled

File modes, ACLs and the Windows branch of `permissions.py`; cryptography (a signature
is valid or not); text processing (transcripts, phrase detection, JSON-LD, Markdown);
ranking scores; argument parsing; the wording of reports; times as strings. The domain
commands go through the gate of `Approval`, but what they bind is not modelled. The
components of the table that have no module are `not_modelled` in `PROJECT.json`, with the
reason.

## Plan

`CompilerLock`, `CaptureSpool`, `KeyCustody` and `Approval` came first, then `Purge` (with
the proposal spool and ingest), `StoreFile` (with backups and migrations), `Trust` and
`Ontology`. What is left, in this order:

1. Domain selection with the prior state it binds, and retrieval receipts against canon
   generations.
2. The hook deadline against the durable write.
