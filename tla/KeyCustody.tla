----------------------------- MODULE KeyCustody -----------------------------
(***************************************************************************)
(* The ceremonies of imprint/authority/service.py that write the authority *)
(* ledger and keep the local key files: rotate_key, create_recovery_bundle,*)
(* authorize_pairing_request, change_key_state,                            *)
(* adjudicate_authority_conflict and reconcile.                            *)
(*                                                                         *)
(* Each one reads the store, lets the operator type, and writes in a later *)
(* transaction (BEGIN IMMEDIATE).  Key files are published and quarantined *)
(* outside of any transaction.                                             *)
(***************************************************************************)
EXTENDS AuthorityLedger

CONSTANTS
    Consoles,  \* the processes that run ceremonies
    Crashes,   \* whether a process may die
    None

ASSUME ConsoleAssumption ==
    /\ None \notin Keys \cup Consoles
    /\ Crashes \in BOOLEAN

VARIABLES
    bound,    \* authority_keys.ledger_sequence of a local key, 0 without a row
    blobs,    \* the file of a local key in authority/keys, and the
              \* ledger_sequence in the AAD it is sealed with
    proofs,   \* authority_equivocation_proofs, by the compromised key
    journal,  \* the recovery-publication journal: the key it names, or None
    writer,   \* who holds the write transaction
    desk,     \* per console: the ceremony and its locals
    crossed   \* history: the keys whose rotation another ceremony crossed

custodyVars == <<bound, blobs, proofs, journal, writer, desk>>
vars == <<chain, seq, blocked, custodyVars, crossed>>

-----------------------------------------------------------------------------

Idle == [pc |-> "idle", rite |-> "none", signer |-> None, key |-> None, refs |-> {}]

Busy(p) == desk[p].pc # "idle"

Goto(p, place) == desk' = [desk EXCEPT ![p].pc = place]

Leave(p) == desk' = [desk EXCEPT ![p] = Idle]

ActiveLocal == {k \in LocalKeys : Active(k)}

Bound == {k \in LocalKeys : bound[k] # 0}

NoFile == [at |-> "none", aad |-> 0]

Published(k) == blobs[k].at = "published"

\* read_verified_blob and decrypt_private_key with key_aad(binding).
Opens(k) == Published(k) /\ blobs[k].aad = bound[k]

InForce(p) == Active(desk[p].signer)

-----------------------------------------------------------------------------
(* The start of a ceremony.                                                *)

\* reconcile, its reading part: no unfinished recovery publication, and every
\* key of authority_keys still has its blob.
Reconcilable == journal = None /\ \A k \in Bound : Published(k)

LocalRites == {"reconcile", "rotate", "recovery", "pair"}

Start(p, rite) ==
    /\ ~Busy(p)
    /\ rite \in LocalRites
    /\ Reconcilable
    /\ desk' = [desk EXCEPT ![p] =
                  [Idle EXCEPT !.pc = "sweep", !.rite = rite, !.refs = Bound]]
    /\ UNCHANGED <<ledgerVars, bound, blobs, proofs, journal, writer>>

\* change_key_state without a recovery bundle: the target is active, and the
\* active key does not mark itself compromised.
StartState(p, rite, target) ==
    /\ ~Busy(p)
    /\ rite \in {"revoke", "compromise"}
    /\ Active(target)
    /\ \E k \in LocalKeys : ActiveLocal = {k} /\ (rite = "compromise" => k # target)
    /\ desk' = [desk EXCEPT ![p] =
                  [Idle EXCEPT !.pc = "reconcile", !.rite = rite, !.key = target]]
    /\ UNCHANGED <<ledgerVars, bound, blobs, proofs, journal, writer>>

\* change_key_state with the key of a recovery bundle.
StartRecoveryState(p, rite, target, r) ==
    /\ ~Busy(p)
    /\ rite \in {"revoke", "compromise"}
    /\ Active(target) /\ Active(r)
    /\ desk' = [desk EXCEPT ![p] =
                  [Idle EXCEPT !.pc = "ready", !.rite = rite, !.key = target, !.signer = r]]
    /\ UNCHANGED <<ledgerVars, bound, blobs, proofs, journal, writer>>

\* adjudicate_authority_conflict, its first transaction.
StartAdjudication(p, proof, r) ==
    /\ ~Busy(p)
    /\ blocked
    /\ proofs[proof] = "pending"
    /\ Active(r)
    /\ desk' = [desk EXCEPT ![p] =
                  [Idle EXCEPT !.pc = "ready", !.rite = "adjudicate",
                               !.key = proof, !.signer = r]]
    /\ UNCHANGED <<ledgerVars, bound, blobs, proofs, journal, writer>>

\* reconcile as change_key_state comes to it, after its own first reading.
ReconcileRead(p) ==
    /\ desk[p].pc = "reconcile"
    /\ desk' = [desk EXCEPT ![p] = IF Reconcilable
                                   THEN [@ EXCEPT !.pc = "sweep", !.refs = Bound]
                                   ELSE Idle]
    /\ UNCHANGED <<ledgerVars, bound, blobs, proofs, journal, writer>>

\* Then every file that was not referenced goes to quarantine.
ReconcileSweep(p) ==
    /\ desk[p].pc = "sweep"
    /\ blobs' = [k \in LocalKeys |-> IF k \in desk[p].refs THEN blobs[k] ELSE NoFile]
    /\ IF desk[p].rite = "reconcile" THEN Leave(p)
       ELSE desk' = [desk EXCEPT ![p].pc = "signer", ![p].refs = {}]
    /\ UNCHANGED <<ledgerVars, bound, proofs, journal, writer>>

\* _active_private_key: the active key and its blob.
ReadSigner(p) ==
    /\ desk[p].pc = "signer"
    /\ \/ \E k \in LocalKeys :
             /\ ~blocked /\ ActiveLocal = {k} /\ Opens(k)
             /\ desk' = [desk EXCEPT ![p].pc = "ready", ![p].signer = k]
       \/ /\ ~\E k \in LocalKeys : ~blocked /\ ActiveLocal = {k} /\ Opens(k)
          /\ Leave(p)
    /\ UNCHANGED <<ledgerVars, bound, blobs, proofs, journal, writer>>

-----------------------------------------------------------------------------
(* rotate_key.                                                             *)

\* A fresh key for the sequence after the head as it is now; its blob
\* is staged.
RotateSeal(p, new) ==
    /\ desk[p].pc = "ready" /\ desk[p].rite = "rotate"
    /\ chain[new] = "unknown" /\ blobs[new] = NoFile
    /\ \A q \in Consoles : desk[q].key # new
    /\ blobs' = [blobs EXCEPT ![new] = [at |-> "staged", aad |-> seq + 1]]
    /\ desk' = [desk EXCEPT ![p].pc = "staged", ![p].key = new]
    /\ UNCHANGED <<ledgerVars, bound, proofs, journal, writer>>

\* Mutant of SameKey: the active key is not read again under the write lock.
AnyKey(p) == TRUE

\* The signer is still the active key: active_binding under the write lock, and
\* verify_authority_chain of the appended event.
SameKey(p) == ActiveLocal = {desk[p].signer}

\* BEGIN IMMEDIATE, the active key again, and the event.
RotateBegin(p) ==
    /\ desk[p].pc = "staged"
    /\ writer = None
    /\ SameKey(p)
    /\ writer' = p
    /\ Goto(p, "publish")
    /\ UNCHANGED <<ledgerVars, bound, blobs, proofs, journal>>

\* _publish_stage
RotatePublish(p) ==
    /\ desk[p].pc = "publish"
    /\ blobs[desk[p].key].at = "staged"
    /\ blobs' = [blobs EXCEPT ![desk[p].key].at = "published"]
    /\ Goto(p, "check")
    /\ UNCHANGED <<ledgerVars, bound, proofs, journal, writer>>

\* "rotated authority key failed publication verification"
RotateCheck(p) ==
    /\ desk[p].pc = "check"
    /\ Published(desk[p].key)
    /\ Goto(p, "commit")
    /\ UNCHANGED <<ledgerVars, bound, blobs, proofs, journal, writer>>

\* Mutant of BoundAt: the row keeps the sequence of the head before the event.
BoundAtHead == seq

\* authority_keys.ledger_sequence: the sequence of the appended event.
BoundAt == seq + 1

\* The rows, verify_authority_chain, advance_anchor_to_local_head, the commit.
RotateCommit(p) ==
    /\ desk[p].pc = "commit"
    /\ ~blocked
    /\ chain' = [chain EXCEPT ![desk[p].signer] = "retired", ![desk[p].key] = "active"]
    /\ bound' = [bound EXCEPT ![desk[p].key] = BoundAt]
    /\ seq' = seq + 1
    /\ writer' = None
    /\ Leave(p)
    /\ UNCHANGED <<blocked, blobs, proofs, journal>>

-----------------------------------------------------------------------------
(* create_recovery_bundle.                                                 *)

\* Mutant of JournalKey: the journal names the signing key.
JournalSigner(p, new) == desk[p].signer

\* recovery_key_id of _create_recovery_journal
JournalKey(p, new) == new

\* BEGIN IMMEDIATE, the event, and the journal before the bundle is published.
RecoveryBegin(p, new) ==
    /\ desk[p].pc = "ready" /\ desk[p].rite = "recovery"
    /\ writer = None
    /\ ~blocked
    /\ InForce(p)
    /\ chain[new] = "unknown"
    /\ journal = None
    /\ writer' = p
    /\ journal' = JournalKey(p, new)
    /\ desk' = [desk EXCEPT ![p].pc = "bundle", ![p].key = new]
    /\ UNCHANGED <<ledgerVars, bound, blobs, proofs>>

RecoveryCommit(p) ==
    /\ desk[p].pc = "bundle"
    /\ chain' = [chain EXCEPT ![desk[p].key] = "active"]
    /\ seq' = seq + 1
    /\ writer' = None
    /\ Goto(p, "clear")
    /\ UNCHANGED <<blocked, bound, blobs, proofs, journal>>

\* _clear_recovery_journal
RecoveryClear(p) ==
    /\ desk[p].pc = "clear"
    /\ journal' = None
    /\ Leave(p)
    /\ UNCHANGED <<ledgerVars, bound, blobs, proofs, writer>>

\* abandon_interrupted_recovery
AbandonInterruptedRecovery ==
    /\ journal # None
    /\ journal' = None
    /\ UNCHANGED <<ledgerVars, bound, blobs, proofs, writer, desk>>

-----------------------------------------------------------------------------
(* The ceremonies that write in one transaction.                           *)

\* authorize_pairing_request, for a request that expects the next sequence.
PairCommit(p, new) ==
    /\ desk[p].pc = "ready" /\ desk[p].rite = "pair"
    /\ writer = None
    /\ ~blocked
    /\ InForce(p)
    /\ chain[new] = "unknown"
    /\ chain' = [chain EXCEPT ![new] = "active"]
    /\ seq' = seq + 1
    /\ Leave(p)
    /\ UNCHANGED <<blocked, bound, blobs, proofs, journal, writer>>

\* Mutant of StillActive: the target's status is the one read before.
WasActive(p) == TRUE

\* verify_authority_chain, "authority key-state equivocation".
StillActive(p) == Active(desk[p].key)

\* Mutant of WritesAllowed: the transaction does not read the hold.
WritesUnchecked == TRUE

\* advance_anchor_to_local_head: assert_authority_writes_allowed.
WritesAllowed == ~blocked

\* change_key_state, its second transaction; a compromise retains its proof
\* and blocks every later write.
StateCommit(p) ==
    /\ desk[p].pc = "ready" /\ desk[p].rite \in {"revoke", "compromise"}
    /\ writer = None
    /\ InForce(p)
    /\ StillActive(p)
    /\ WritesAllowed
    /\ seq' = seq + 1
    /\ \/ /\ desk[p].rite = "revoke"
          /\ chain' = [chain EXCEPT ![desk[p].key] = "revoked"]
          /\ UNCHANGED <<blocked, proofs>>
       \/ /\ desk[p].rite = "compromise"
          /\ desk[p].signer # desk[p].key
          /\ chain' = [chain EXCEPT ![desk[p].key] = "compromised"]
          /\ blocked' = TRUE
          /\ proofs' = [proofs EXCEPT ![desk[p].key] = "pending"]
    /\ Leave(p)
    /\ UNCHANGED <<bound, blobs, journal, writer>>

\* adjudicate_authority_conflict, its second transaction: neither the proof nor
\* the block is read again.
AdjudicateCommit(p) ==
    /\ desk[p].pc = "ready" /\ desk[p].rite = "adjudicate"
    /\ writer = None
    /\ InForce(p)
    /\ seq' = seq + 1
    /\ proofs' = [proofs EXCEPT ![desk[p].key] = "adjudicated"]
    /\ blocked' = FALSE
    /\ Leave(p)
    /\ UNCHANGED <<chain, bound, blobs, journal, writer>>

-----------------------------------------------------------------------------
(* Failures.                                                               *)

Rotating(p) == desk[p].pc \in {"staged", "publish", "check", "commit"}

Released(p) == IF writer = p THEN None ELSE writer

\* A refusal, a wrong passphrase, an error: the transaction is rolled back and
\* rotate_key takes its file away again.  A recovery journal is retained.
Abort(p) ==
    /\ Busy(p)
    /\ blobs' = [k \in LocalKeys |-> IF Rotating(p) /\ k = desk[p].key THEN NoFile ELSE blobs[k]]
    /\ writer' = Released(p)
    /\ Leave(p)
    /\ UNCHANGED <<ledgerVars, bound, proofs, journal>>

\* The process dies: its files stay.
Crash(p) ==
    /\ Crashes
    /\ Busy(p)
    /\ writer' = Released(p)
    /\ Leave(p)
    /\ UNCHANGED <<ledgerVars, bound, blobs, proofs, journal>>

-----------------------------------------------------------------------------

Init ==
    /\ LedgerInit
    /\ bound = [k \in LocalKeys |-> IF k \in Genesis THEN 1 ELSE 0]
    /\ blobs = [k \in LocalKeys |-> IF k \in Genesis THEN [at |-> "published", aad |-> 1]
                                      ELSE NoFile]
    /\ proofs = [k \in Keys |-> "none"]
    /\ journal = None
    /\ writer = None
    /\ desk = [p \in Consoles |-> Idle]
    /\ crossed = {}

Begin(p) ==
    \/ \E rite \in LocalRites : Start(p, rite)
    \/ \E target \in Keys, rite \in {"revoke", "compromise"} :
          \/ StartState(p, rite, target)
          \/ \E r \in RecoveryKeys : StartRecoveryState(p, rite, target, r)
    \/ \E proof \in Keys, r \in RecoveryKeys : StartAdjudication(p, proof, r)
    \/ ReconcileRead(p) \/ ReconcileSweep(p) \/ ReadSigner(p)

Rotate(p) ==
    \/ \E new \in LocalKeys : RotateSeal(p, new)
    \/ RotateBegin(p) \/ RotatePublish(p) \/ RotateCheck(p) \/ RotateCommit(p)

Other(p) ==
    \/ \E new \in RecoveryKeys : RecoveryBegin(p, new)
    \/ RecoveryCommit(p) \/ RecoveryClear(p)
    \/ \E new \in OtherKeys : PairCommit(p, new)
    \/ StateCommit(p) \/ AdjudicateCommit(p)

Step ==
    \/ \E p \in Consoles : Begin(p) \/ Rotate(p) \/ Other(p) \/ Abort(p) \/ Crash(p)
    \/ AbandonInterruptedRecovery

\* p holds k, sealed and not yet committed.
Sealed(p, k) == Rotating(p) /\ desk[p].key = k

\* Another console appends to the ledger, or stands between the two parts of
\* reconcile, while p holds k.
Crosses(p, k) ==
    /\ Sealed(p, k)'
    /\ seq' # seq \/ \E q \in Consoles \ {p} : desk'[q].pc = "sweep"

\* A crossed key is remembered as long as it is sealed or active.
NoteCrossings ==
    crossed' = {k \in LocalKeys :
                  \/ \E p \in Consoles : Crosses(p, k)
                  \/ k \in crossed /\ (Active(k)' \/ \E p \in Consoles : Sealed(p, k)')}

Next == Step /\ NoteCrossings

Spec == Init /\ [][Next]_vars

\* The deployment adjudications are built for: one at a time.
OneAdjudication ==
    \A p, q \in Consoles :
        desk[p].rite = "adjudicate" /\ desk[q].rite = "adjudicate" => p = q

OrderlySpec == Init /\ [][Next /\ OneAdjudication']_vars

-----------------------------------------------------------------------------
(* Properties.                                                             *)

Places == {"idle", "reconcile", "sweep", "signer", "ready", "staged", "publish",
           "check", "commit", "bundle", "clear"}

Rites == LocalRites \cup {"none", "revoke", "compromise", "adjudicate"}

Desk == [pc : Places, rite : Rites, signer : Keys \cup {None},
         key : Keys \cup {None}, refs : SUBSET LocalKeys]

\* Every variable has its type.
TypeOK ==
    /\ chain \in [Keys -> Status]
    /\ seq \in Nat
    /\ blocked \in BOOLEAN
    /\ bound \in [LocalKeys -> Nat]
    /\ blobs \in [LocalKeys -> [at : {"none", "staged", "published"}, aad : Nat]]
    /\ proofs \in [Keys -> {"none", "pending", "adjudicated"}]
    /\ journal \in RecoveryKeys \cup {None}
    /\ writer \in Consoles \cup {None}
    /\ desk \in [Consoles -> Desk]
    /\ crossed \subseteq LocalKeys

\* "authority requires exactly one active local key": whatever rotations and
\* revocations overlap, there are never two.
OneActiveKey == \A j, k \in LocalKeys : Active(j) /\ Active(k) => j = k

\* The ceremonies write the ledger AuthorityLedger describes: every event has a
\* signer in force when it is appended, keys taken out of force stay out of it,
\* and while writes are blocked only an adjudication is appended.
LedgerIsKept == LedgerSpec

\* "publish-before-commit activation": the active key has its blob, sealed for the
\* binding it is opened with, whatever other ceremonies run, abort or die; except a key
\* whose own rotation another console crossed with an event or with a reconciliation.
ActiveKeyIsUsable == \A k \in LocalKeys : Active(k) /\ k \notin crossed => Opens(k)

\* The same of the seal alone, without the exception.
SealFits == \A k \in LocalKeys : Active(k) /\ Published(k) => blobs[k].aad = bound[k]

\* "They install a persistent write block until a retained proof is reviewed":
\* a proof that nobody has adjudicated still blocks.
HoldIsKept == \A k \in Keys : proofs[k] = "pending" => blocked

=============================================================================
