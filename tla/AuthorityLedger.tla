--------------------------- MODULE AuthorityLedger ---------------------------
(***************************************************************************)
(* What the authority ledger of imprint/authority/ledger.py promises: a    *)
(* chain of events, each signed by a key that is active when it is         *)
(* appended, which certify keys and take them out of force.                *)
(* verify_authority_chain replays it; `chain` is the key state it computes *)
(* and `seq` the sequence of the head.                                     *)
(*                                                                         *)
(* KeyCustody implements this specification with the ceremonies that write *)
(* the events; Approval uses it.                                           *)
(***************************************************************************)
EXTENDS Naturals

CONSTANTS
    LocalKeys,     \* keys of this installation
    OtherKeys,     \* keys of installations paired with it
    RecoveryKeys,  \* offline recovery keys
    Genesis        \* the keys the genesis event binds

Keys == LocalKeys \cup OtherKeys \cup RecoveryKeys

ASSUME KeysAssumption ==
    /\ LocalKeys \cap OtherKeys = {}
    /\ RecoveryKeys \cap (LocalKeys \cup OtherKeys) = {}
    /\ Genesis \subseteq Keys
    /\ \A j, k \in Genesis \cap LocalKeys : j = k

VARIABLES
    chain,   \* the status of every key
    seq,     \* the sequence of the ledger's head
    blocked  \* the trust anchor's writes_blocked

ledgerVars == <<chain, seq, blocked>>

Status == {"unknown", "active", "retired", "revoked", "compromised"}

Active(k) == chain[k] = "active"

LedgerInit ==
    /\ chain = [k \in Keys |-> IF k \in Genesis THEN "active" ELSE "unknown"]
    /\ seq = 1
    /\ blocked = FALSE

\* append_ledger_event: the next sequence, signed by a key in force.
Append(signer) == Active(signer) /\ seq' = seq + 1

\* key_rotated: signed by the key it retires.
Rotated(old, new) ==
    /\ Append(old)
    /\ ~blocked
    /\ chain[new] = "unknown"
    /\ chain' = [chain EXCEPT ![old] = "retired", ![new] = "active"]
    /\ UNCHANGED blocked

\* recovery_created and installation_paired.
Certified(signer, new) ==
    /\ Append(signer)
    /\ ~blocked
    /\ chain[new] = "unknown"
    /\ chain' = [chain EXCEPT ![new] = "active"]
    /\ UNCHANGED blocked

\* key_revoked and recovery_revoked.
Revoked(signer, target) ==
    /\ Append(signer)
    /\ ~blocked
    /\ Active(target)
    /\ chain' = [chain EXCEPT ![target] = "revoked"]
    /\ UNCHANGED blocked

\* key_compromised: never signed by the key itself, and it blocks all writes.
Compromised(signer, target) ==
    /\ Append(signer)
    /\ ~blocked
    /\ Active(target)
    /\ signer # target
    /\ chain' = [chain EXCEPT ![target] = "compromised"]
    /\ blocked' = TRUE

\* authority_conflict_adjudicated: signed by a recovery key.
Adjudicated(signer) ==
    /\ signer \in RecoveryKeys
    /\ Append(signer)
    /\ blocked' = FALSE
    /\ UNCHANGED chain

LedgerNext ==
    \/ \E old, new \in LocalKeys : Rotated(old, new)
    \/ \E signer \in LocalKeys, new \in RecoveryKeys \cup OtherKeys : Certified(signer, new)
    \/ \E signer, target \in Keys : Revoked(signer, target) \/ Compromised(signer, target)
    \/ \E signer \in RecoveryKeys : Adjudicated(signer)

LedgerSpec == LedgerInit /\ [][LedgerNext]_ledgerVars

=============================================================================
