------------------------------- MODULE Trust -------------------------------
(***************************************************************************)
(* One operator's trust on several machines: enrollment, the recovery      *)
(* bundle, the transport, the bootstrap of a new machine, pairing,         *)
(* recovery restore, and the transfer of a checkpoint to a machine that    *)
(* already trusts (imprint/authority/service.py, trust.py, recovery.py).   *)
(*                                                                         *)
(* Machines share nothing but files that the operator carries.  A file is  *)
(* read any number of times, in any order, long after it was written; one  *)
(* that is lost, late, past its expiry, or never written since its author  *)
(* died, is a file that no step reads.  Signatures are not forged: every   *)
(* file here was written by a ceremony.  What a compromise blocks, and     *)
(* rotation, are in KeyCustody.                                            *)
(*                                                                         *)
(* A ceremony has one stamp, and it names the event, the key, the          *)
(* installation and the checkpoint that the ceremony makes.                *)
(***************************************************************************)
EXTENDS Naturals, Sequences, SequencesExt

CONSTANTS
    Machines,
    MaxMade,     \* bound on ceremonies of a machine
    MaxTickets,  \* bound on open transfer tickets of a machine
    None

Stamps == Machines \X (1..MaxMade)

Sequence == Nat \ {0}

Anchor == [genesis : Stamps, rec : Stamps \cup {None}, seq : Sequence,
           head : Stamps, cp : Stamps]

ASSUME TrustAssumption ==
    /\ MaxMade \in Nat /\ MaxTickets \in Nat
    /\ None \notin Machines \cup Stamps \cup Anchor

VARIABLES
    ledger,     \* authority_ledger
    pins,       \* authority_checkpoint_pins, in the order they were accepted
    anchor,     \* authority_trust_anchor, or None
    keys,       \* the row of authority_keys, or None
    blobs,      \* the keys with a file in authority/keys
    pending,    \* authority_pairing_requests that are pending
    tickets,    \* authority_transfer_intents that are prepared
    exporting,  \* the checkpoint of an export that has still to read the ledger
    journal,    \* a recovery publication is unfinished
    made,       \* ceremonies so far
    files       \* what the operator carries

vars == <<ledger, pins, anchor, keys, blobs, pending, tickets, exporting, journal, made, files>>

-----------------------------------------------------------------------------
(* Events, checkpoints and anchors.                                        *)

EventTypes == {"enrollment", "recovery_created", "installation_paired",
               "installation_rebound", "key_revoked", "recovery_revoked"}

\* key and rec are certified, as an installation's and as a recovery key; old and
\* oldrec go out of force.
Event == [id : Stamps, type : EventTypes, key : Stamps \cup {None}, rec : Stamps \cup {None},
          old : Stamps \cup {None}, oldrec : Stamps \cup {None}]

NewEvent(s, type) ==
    [id |-> s, type |-> type, key |-> None, rec |-> None, old |-> None, oldrec |-> None]

\* The key state that verify_authority_chain replays.
Active(l, k) ==
    /\ \E i \in DOMAIN l : l[i].key = k
    /\ \A i \in DOMAIN l : l[i].old # k

ActiveRecovery(l, r) ==
    /\ \E i \in DOMAIN l : l[i].rec = r
    /\ \A i \in DOMAIN l : l[i].oldrec # r

Checkpoint == [id : Stamps, prior : Stamps \cup {None}, seq : Sequence, ev : Stamps]

\* Mutant of NewCheckpoint: the checkpoint names the sequence before the head.
CheckpointBeforeHead(s, prior, l) ==
    [id |-> s, prior |-> prior, seq |-> Len(l) - 1, ev |-> l[Len(l)].id]

\* create_checkpoint of the ledger
NewCheckpoint(s, prior, l) ==
    [id |-> s, prior |-> prior, seq |-> Len(l), ev |-> l[Len(l)].id]

\* verify_authority_chain of a checkpoint: it names an event of the ledger.
Consistent(l, cp) == cp.seq \in DOMAIN l /\ l[cp.seq].id = cp.ev

\* Every checkpoint but the first names the one before it.
ClosedHistory(h) ==
    /\ h # <<>>
    /\ h[1].prior = None
    /\ \A i \in 2..Len(h) : h[i].prior = h[i - 1].id

AnchorAt(l, cp, rec) ==
    [genesis |-> l[1].id, rec |-> rec, seq |-> Len(l), head |-> l[Len(l)].id, cp |-> cp]

-----------------------------------------------------------------------------
(* The files.                                                              *)

Bundle(l, h, rec) == [kind |-> "bundle", ledger |-> l, history |-> h, rec |-> rec]
Transport(l, h, cp) == [kind |-> "transport", ledger |-> l, history |-> h, cp |-> cp]
Request(key, genesis, seq) == [kind |-> "request", key |-> key, genesis |-> genesis, seq |-> seq]
Package(r, l, h, cp) ==
    [kind |-> "package", request |-> r, ledger |-> l, history |-> h, cp |-> cp]

Carried(kind) == {f \in files : f.kind = kind}

\* verify_recovery_bundle
VerifiedBundle(b) ==
    /\ ClosedHistory(b.history)
    /\ \A i \in DOMAIN b.history : Consistent(b.ledger, b.history[i])

\* verify_authority_transport
VerifiedTransport(t) ==
    /\ ClosedHistory(t.history)
    /\ \A i \in DOMAIN t.history : Consistent(t.ledger, t.history[i])
    /\ Last(t.history) = t.cp

-----------------------------------------------------------------------------
(* A ceremony with the local key: reconcile, and _active_private_key.      *)

Stamp(m) == <<m, made[m] + 1>>

Make(m) == made[m] < MaxMade /\ made' = [made EXCEPT ![m] = @ + 1]

CanSign(m) ==
    /\ ~journal[m]
    /\ keys[m] # None
    /\ keys[m].key \in blobs[m] /\ keys[m].aad = keys[m].seq
    /\ Active(ledger[m], keys[m].key)

\* Files without a row of authority_keys go to quarantine.
Sign(m) ==
    /\ CanSign(m)
    /\ Make(m)
    /\ blobs' = [blobs EXCEPT ![m] = {keys[m].key}]

\* The same on a machine that has no key yet: reconcile is done before the ceremony
\* finds that there is none.
Reconcile(m) ==
    /\ ~journal[m]
    /\ keys[m] = None
    /\ blobs[m] # {}
    /\ blobs' = [blobs EXCEPT ![m] = {}]
    /\ UNCHANGED <<ledger, pins, anchor, keys, pending, tickets, exporting, journal, made, files>>

\* Mutant of ExtendsPin: only the sequence is compared.
ExtendsPinSequence(m, l) == anchor[m].seq \in DOMAIN l

\* advance_anchor_to_local_head: the ledger holds the event that is pinned.
ExtendsPin(m, l) == anchor[m].seq \in DOMAIN l /\ l[anchor[m].seq].id = anchor[m].head

\* pin_local_checkpoint of a new checkpoint.
MayPin(m, cp) ==
    /\ cp.seq >= anchor[m].seq
    /\ cp.seq = anchor[m].seq => cp.ev = anchor[m].head

Pinned(m, l, cp) ==
    /\ ledger' = [ledger EXCEPT ![m] = l]
    /\ pins' = [pins EXCEPT ![m] = Append(@, cp)]
    /\ anchor' = [anchor EXCEPT ![m] = AnchorAt(l, cp.id, anchor[m].rec)]

-----------------------------------------------------------------------------
(* Ceremonies of a machine that is in force.                               *)

\* enroll, with recovery declined
Enroll(m) ==
    LET s == Stamp(m)
        l == <<[NewEvent(s, "enrollment") EXCEPT !.key = s]>>
        cp == NewCheckpoint(s, None, l)
    IN /\ ledger[m] = <<>> /\ anchor[m] = None
       /\ Make(m)
       /\ ledger' = [ledger EXCEPT ![m] = l]
       /\ pins' = [pins EXCEPT ![m] = <<cp>>]
       /\ anchor' = [anchor EXCEPT ![m] = AnchorAt(l, s, None)]
       /\ keys' = [keys EXCEPT ![m] = [key |-> s, seq |-> 1, aad |-> 1]]
       /\ blobs' = [blobs EXCEPT ![m] = @ \cup {s}]
       /\ UNCHANGED <<pending, tickets, exporting, journal, files>>

\* The journal of a publication is cleared after the commit, if that is reached.
Cleared(m) == journal' \in {journal, [journal EXCEPT ![m] = TRUE]}

\* _enroll_with_recovery: the bundle is published first.  What comes after it may
\* not be reached, and is refused on a machine that has an anchor.
EnrollWithRecovery(m) ==
    LET s == Stamp(m)
        l == <<[NewEvent(s, "enrollment") EXCEPT !.key = s, !.rec = s]>>
        cp == NewCheckpoint(s, None, l)
    IN /\ ledger[m] = <<>> /\ ~journal[m]
       /\ Make(m)
       /\ files' = files \cup {Bundle(l, <<cp>>, s)}
       /\ \/ /\ anchor[m] = None
             /\ ledger' = [ledger EXCEPT ![m] = l]
             /\ pins' = [pins EXCEPT ![m] = <<cp>>]
             /\ anchor' = [anchor EXCEPT ![m] = AnchorAt(l, s, s)]
             /\ keys' = [keys EXCEPT ![m] = [key |-> s, seq |-> 1, aad |-> 1]]
             /\ blobs' = [blobs EXCEPT ![m] = @ \cup {s}]
             /\ Cleared(m)
          \/ /\ journal' = [journal EXCEPT ![m] = TRUE]
             /\ UNCHANGED <<ledger, pins, anchor, keys, blobs>>
       /\ UNCHANGED <<pending, tickets, exporting>>

\* create_recovery_bundle: published, then pinned, committed, and the journal cleared.
CreateRecoveryBundle(m) ==
    LET s == Stamp(m)
        l == Append(ledger[m], [NewEvent(s, "recovery_created") EXCEPT !.rec = s])
        cp == NewCheckpoint(s, anchor[m].cp, l)
    IN /\ Sign(m)
       /\ files' = files \cup {Bundle(l, Append(pins[m], cp), s)}
       /\ \/ /\ MayPin(m, cp)
             /\ ledger' = [ledger EXCEPT ![m] = l]
             /\ pins' = [pins EXCEPT ![m] = Append(@, cp)]
             /\ anchor' = [anchor EXCEPT ![m] = AnchorAt(l, s, s)]
             /\ Cleared(m)
          \/ /\ journal' = [journal EXCEPT ![m] = TRUE]
             /\ UNCHANGED <<ledger, pins, anchor>>
       /\ UNCHANGED <<keys, pending, tickets, exporting>>

\* abandon_interrupted_recovery
AbandonInterruptedRecovery(m) ==
    /\ journal[m]
    /\ journal' = [journal EXCEPT ![m] = FALSE]
    /\ UNCHANGED <<ledger, pins, anchor, keys, blobs, pending, tickets, exporting, made, files>>

\* The key of a bundle signs; there is no reconcile.
SignWithRecovery(m) ==
    /\ \E b \in Carried("bundle") : VerifiedBundle(b) /\ ActiveRecovery(ledger[m], b.rec)
    /\ Make(m)
    /\ UNCHANGED blobs

\* change_key_state: any installation's key, its own too, or a recovery key.
Revoke(m, old, oldrec) ==
    LET type == IF old # None THEN "key_revoked" ELSE "recovery_revoked"
        l == Append(ledger[m], [NewEvent(Stamp(m), type) EXCEPT !.old = old, !.oldrec = oldrec])
    IN /\ \/ oldrec = None /\ Active(ledger[m], old)
          \/ old = None /\ ActiveRecovery(ledger[m], oldrec)
       /\ Sign(m) \/ SignWithRecovery(m)
       /\ ExtendsPin(m, l)
       /\ ledger' = [ledger EXCEPT ![m] = l]
       /\ anchor' = [anchor EXCEPT ![m] = AnchorAt(l, @.cp, @.rec)]
       /\ UNCHANGED <<pins, keys, pending, tickets, exporting, journal, files>>

\* create_checkpoint, and the checkpoints of sign_portable_payload and
\* sign_backup_snapshot; the first half of export_authority_transport.
CreateCheckpoint(m, export) ==
    LET cp == NewCheckpoint(Stamp(m), anchor[m].cp, ledger[m])
    IN /\ Sign(m)
       /\ MayPin(m, cp)
       /\ Pinned(m, ledger[m], cp)
       /\ export => exporting[m] = None
       /\ exporting' = IF export THEN [exporting EXCEPT ![m] = cp] ELSE exporting
       /\ UNCHANGED <<keys, pending, tickets, journal, files>>

\* Then the ledger and the pins are read, whatever they are by now.
ExportAuthorityTransport(m) ==
    /\ exporting[m] # None
    /\ exporting' = [exporting EXCEPT ![m] = None]
    /\ files' = files \cup {Transport(ledger[m], pins[m], exporting[m])}
    /\ UNCHANGED <<ledger, pins, anchor, keys, blobs, pending, tickets, journal, made>>

-----------------------------------------------------------------------------
(* A new machine: bootstrap, then pairing or recovery restore.             *)

\* bootstrap_recovery_trust
BootstrapRecoveryTrust(m, b) ==
    /\ ledger[m] = <<>> /\ anchor[m] = None
    /\ VerifiedBundle(b)
    /\ pins' = [pins EXCEPT ![m] = b.history]
    /\ anchor' = [anchor EXCEPT ![m] = AnchorAt(b.ledger, Last(b.history).id, b.rec)]
    /\ UNCHANGED <<ledger, keys, blobs, pending, tickets, exporting, journal, made, files>>

\* create_pairing_request: the new key is sealed for the sequence it expects.
CreatePairingRequest(m) ==
    LET r == Request(Stamp(m), anchor[m].genesis, anchor[m].seq + 1)
    IN /\ ledger[m] = <<>> /\ anchor[m] # None
       /\ anchor[m].rec # None
       /\ Make(m)
       /\ blobs' = [blobs EXCEPT ![m] = @ \cup {Stamp(m)}]
       /\ pending' = [pending EXCEPT ![m] = @ \cup {r}]
       /\ files' = files \cup {r}
       /\ UNCHANGED <<ledger, pins, anchor, keys, tickets, exporting, journal>>

\* Mutant of CommitAuthorization: the package is published before the commit, which
\* then may not happen.
PublishAuthorization(m, l, cp) == Pinned(m, l, cp) \/ UNCHANGED <<ledger, pins, anchor>>

\* The event, the anchor and the checkpoint are committed before the package is written.
CommitAuthorization(m, l, cp) == Pinned(m, l, cp)

\* A store keeps its identity over enrollments that were not committed.
StoreIdentity(genesis) == genesis[1]

\* authorize_pairing_request compares the identities of the stores; the genesis is
\* compared by finalize_pairing.
AuthorizePairingRequest(m, r) ==
    LET s == Stamp(m)
        l == Append(ledger[m], [NewEvent(s, "installation_paired")
                                  EXCEPT !.key = r.key])
        cp == NewCheckpoint(s, anchor[m].cp, l)
    IN /\ Sign(m)
       /\ StoreIdentity(r.genesis) = StoreIdentity(anchor[m].genesis)
       /\ r.seq = anchor[m].seq + 1
       /\ \A i \in DOMAIN ledger[m] : ledger[m][i].key # r.key
       /\ ExtendsPin(m, l)
       /\ CommitAuthorization(m, l, cp)
       /\ files' = files \cup {Package(r, l, Append(pins[m], cp), cp)}
       /\ UNCHANGED <<keys, pending, tickets, exporting, journal>>

\* The history goes through the checkpoint that the anchor pins, and what follows
\* it may be pinned one after the other.
Follows(m, l, h) ==
    \E start \in DOMAIN h :
        /\ h[start].id = anchor[m].cp
        /\ \A i \in (start + 1)..Len(h) :
             /\ Consistent(l, h[i])
             /\ h[i].seq >= anchor[m].seq /\ h[i].seq >= h[i - 1].seq
             /\ h[i].seq = anchor[m].seq => h[i].ev = anchor[m].head

\* The pins with what h has after the anchor's checkpoint.
Replayed(m, h) ==
    LET start == CHOOSE i \in DOMAIN h : h[i].id = anchor[m].cp
    IN pins[m] \o SubSeq(h, start + 1, Len(h))

\* finalize_pairing: it does not look for the key's file.
FinalizePairing(m, p) ==
    /\ p.request \in pending[m]
    /\ VerifiedTransport(p)
    /\ p.ledger[1].id = anchor[m].genesis
    /\ ledger[m] = <<>>
    /\ Follows(m, p.ledger, p.history)
    /\ p.request.seq \in DOMAIN p.ledger
    /\ p.ledger[p.request.seq].key = p.request.key
    /\ ledger' = [ledger EXCEPT ![m] = p.ledger]
    /\ pins' = [pins EXCEPT ![m] = Replayed(m, p.history)]
    /\ anchor' = [anchor EXCEPT ![m] = AnchorAt(p.ledger, p.cp.id, @.rec)]
    /\ keys' = [keys EXCEPT ![m] =
                  [key |-> p.request.key, seq |-> p.request.seq, aad |-> p.request.seq]]
    /\ pending' = [pending EXCEPT ![m] = @ \ {p.request}]
    /\ UNCHANGED <<blobs, tickets, exporting, journal, made, files>>

\* Mutant of SealedFor: the sequence after the checkpoint.
SealedForCheckpoint(t) == t.cp.seq + 1

\* The sequence that the new key is sealed for.
SealedFor(t) == Len(t.ledger) + 1

\* restore_recovery_bundle; old is the installation it replaces, or None.
RestoreRecoveryBundle(m, b, t, old) ==
    LET s == Stamp(m)
        type == IF old = None THEN "installation_paired" ELSE "installation_rebound"
        l == Append(t.ledger, [NewEvent(s, type) EXCEPT !.key = s, !.old = old])
    IN /\ ledger[m] = <<>> /\ anchor[m] # None
       /\ VerifiedBundle(b) /\ VerifiedTransport(t)
       /\ t.ledger[1].id = b.ledger[1].id
       /\ ActiveRecovery(t.ledger, b.rec)
       /\ anchor[m].genesis = b.ledger[1].id /\ anchor[m].rec = b.rec
       /\ anchor[m].cp = Last(b.history).id
       /\ old # None => Active(t.ledger, old)
       /\ Follows(m, l, t.history)
       /\ Make(m)
       /\ ledger' = [ledger EXCEPT ![m] = l]
       /\ pins' = [pins EXCEPT ![m] = Replayed(m, t.history)]
       /\ anchor' = [anchor EXCEPT ![m] = AnchorAt(l, t.cp.id, @.rec)]
       /\ keys' = [keys EXCEPT ![m] = [key |-> s, seq |-> Len(l), aad |-> SealedFor(t)]]
       /\ blobs' = [blobs EXCEPT ![m] = @ \cup {s}]
       /\ UNCHANGED <<pending, tickets, exporting, journal, files>>

-----------------------------------------------------------------------------
(* verify_authority_transfer, and the ticket by which a machine advances   *)
(* its anchor over a checkpoint of another.                                *)

PrepareCheckpointAdvance(m, t) ==
    /\ anchor[m] # None
    /\ Len(tickets[m]) < MaxTickets
    /\ VerifiedTransport(t)
    /\ t.ledger[1].id = anchor[m].genesis
    /\ ExtendsPin(m, t.ledger)
    /\ Follows(m, t.ledger, t.history)
    /\ t.cp.seq >= anchor[m].seq
    /\ tickets' = [tickets EXCEPT ![m] = Append(@, [cp |-> t.cp, prior |-> anchor[m]])]
    /\ UNCHANGED <<ledger, pins, anchor, keys, blobs, pending, exporting, journal, made, files>>

\* Mutant of AnchorUnchanged: the anchor is not read again.
AnchorAssumed(m, ticket) == TRUE

\* "authority trust anchor changed before transfer finalization"
AnchorUnchanged(m, ticket) == anchor[m] = ticket.prior

\* finalize_anchor_advance: of the checkpoints in between, none is pinned.
FinalizeAnchorAdvance(m, i) ==
    LET cp == tickets[m][i].cp
    IN /\ AnchorUnchanged(m, tickets[m][i])
       /\ anchor' = [anchor EXCEPT ![m] =
                       [@ EXCEPT !.seq = cp.seq, !.head = cp.ev, !.cp = cp.id]]
       /\ pins' = IF \E j \in DOMAIN pins[m] : pins[m][j].id = cp.id THEN pins
                  ELSE [pins EXCEPT ![m] = Append(@, cp)]
       /\ tickets' = [tickets EXCEPT ![m] = RemoveAt(@, i)]
       /\ UNCHANGED <<ledger, keys, blobs, pending, exporting, journal, made, files>>

-----------------------------------------------------------------------------

Init ==
    /\ ledger = [m \in Machines |-> <<>>]
    /\ pins = [m \in Machines |-> <<>>]
    /\ anchor = [m \in Machines |-> None]
    /\ keys = [m \in Machines |-> None]
    /\ blobs = [m \in Machines |-> {}]
    /\ pending = [m \in Machines |-> {}]
    /\ tickets = [m \in Machines |-> <<>>]
    /\ exporting = [m \in Machines |-> None]
    /\ journal = [m \in Machines |-> FALSE]
    /\ made = [m \in Machines |-> 0]
    /\ files = {}

Ceremony(m) ==
    \/ Enroll(m) \/ EnrollWithRecovery(m) \/ CreateRecoveryBundle(m)
    \/ AbandonInterruptedRecovery(m) \/ Reconcile(m)
    \/ \E k \in Stamps : Revoke(m, k, None) \/ Revoke(m, None, k)
    \/ CreateCheckpoint(m, FALSE) \/ CreateCheckpoint(m, TRUE)
    \/ ExportAuthorityTransport(m)
    \/ CreatePairingRequest(m)
    \/ \E r \in Carried("request") : AuthorizePairingRequest(m, r)

Join(m) ==
    \/ \E b \in Carried("bundle") : BootstrapRecoveryTrust(m, b)
    \/ \E p \in Carried("package") : FinalizePairing(m, p)
    \/ \E b \in Carried("bundle"), t \in Carried("transport"), old \in Stamps \cup {None} :
          RestoreRecoveryBundle(m, b, t, old)

Transfer(m) ==
    \/ \E t \in Carried("transport") : PrepareCheckpointAdvance(m, t)
    \/ \E i \in DOMAIN tickets[m] : FinalizeAnchorAdvance(m, i)

Next == \E m \in Machines : Ceremony(m) \/ Join(m) \/ Transfer(m)

Spec == Init /\ [][Next]_vars

-----------------------------------------------------------------------------
(* Properties.                                                             *)

\* Every variable keeps to its domain: in particular a checkpoint names a sequence
\* that exists.
TypeOK ==
    /\ ledger \in [Machines -> Seq(Event)]
    /\ pins \in [Machines -> Seq(Checkpoint)]
    /\ anchor \in [Machines -> Anchor \cup {None}]
    /\ keys \in [Machines -> [key : Stamps, seq : Sequence, aad : Sequence]
                              \cup {None}]
    /\ blobs \in [Machines -> SUBSET Stamps]
    /\ \A m \in Machines : pending[m] \subseteq Carried("request")
    /\ \A m \in Machines : tickets[m] \in Seq([cp : Checkpoint, prior : Anchor])
    /\ exporting \in [Machines -> Checkpoint \cup {None}]
    /\ journal \in [Machines -> BOOLEAN]
    /\ made \in [Machines -> 0..MaxMade]

\* Whatever a machine has pinned, its own ledger agrees with: a machine that has
\* accepted a checkpoint of another one's ledger never commits another event at a
\* sequence that the checkpoint covers.  So a machine that pinned its own
\* revocation does not sign again, and two ledgers that forked stay apart.
LedgerKeepsPins ==
    \A m \in Machines : ledger[m] # <<>> =>
        /\ \A i \in DOMAIN pins[m] :
             pins[m][i].seq \in DOMAIN ledger[m] => Consistent(ledger[m], pins[m][i])
        /\ anchor[m].seq \in DOMAIN ledger[m] =>
             ledger[m][anchor[m].seq].id = anchor[m].head

\* The key of a machine, whether enrolled, paired or restored, is sealed for the
\* sequence of its certificate, so that decrypt_private_key can open it.
KeyIsSealedForItsCertificate ==
    \A m \in Machines : keys[m] # None =>
        /\ keys[m].aad = keys[m].seq
        /\ keys[m].seq \in DOMAIN ledger[m]
        /\ ledger[m][keys[m].seq].key = keys[m].key

\* An event is in a ledger only if the machine that made it has committed it, at
\* the same sequence: the event of a recovery publication that was interrupted is
\* in the published bundle, and comes into no ledger.
OnlyCommitted ==
    \A m \in Machines : \A i \in DOMAIN ledger[m] :
        LET e == ledger[m][i]
        IN i \in DOMAIN ledger[e.id[1]] /\ ledger[e.id[1]][i] = e

\* A trust anchor is never taken away, moved to another genesis, moved back, or
\* changed to another event of the same sequence: of two tickets that were
\* prepared against one anchor, one is finalized.
AnchorMovesForward ==
    [][\A m \in Machines : anchor[m] # None =>
         /\ anchor'[m] # None
         /\ anchor'[m].genesis = anchor[m].genesis
         /\ anchor'[m].seq >= anchor[m].seq
         /\ anchor'[m].seq = anchor[m].seq => anchor'[m].head = anchor[m].head]_vars

\* reconcile takes "unbound key files" into quarantine (imprint/authority/service.py):
\* a machine that has a key has its file.
KeyHasFile == \A m \in Machines : keys[m] # None => keys[m].key \in blobs[m]

=============================================================================
