------------------------------ MODULE Approval ------------------------------
(***************************************************************************)
(* Reviewed mutations of the canon: a command without a token prepares the *)
(* mutation and stops; the operator approves the stored request, which     *)
(* issues a challenge and signs it; the same command with the signed token *)
(* consumes the challenge and changes the canon, in one transaction        *)
(* (ImprintStore._consume_authority).                                      *)
(*                                                                         *)
(* The commands are the reviews of imprint/store/service.py: of a node     *)
(* ratify, correct, contest, reject, defer and tombstone, of an edge       *)
(* ratify, defer and reject.  Keys and holds move as AuthorityLedger says. *)
(*                                                                         *)
(* A refused command changes nothing (connect() rolls back, the 'expired'  *)
(* status included), so refusals are not actions.                          *)
(***************************************************************************)
EXTENDS AuthorityLedger

CONSTANTS
    Nodes, Edges,
    EndsOf,        \* the two nodes of an edge
    Typed,         \* semantic SelfModelAssertion and InterventionRule proposals
    Unratifiable,  \* Proposal, FeedbackProfile and IngestedItem nodes
    FirstStatus,   \* provenance status and tier of an item's first version
    Ops,           \* operation ids
    Nonces,        \* challenges
    MaxSeq,        \* bound: the ledger's last sequence
    None

Items == Nodes \cup Edges

\* make_urn("node-version"): the version an operation creates is named by it,
\* the first version of an item by the item.
VersionIds == Items \cup Ops

\* captured / observed_candidate, captured / captured_judgment, inferred or
\* extracted, ratified / ratified_knowledge.
Tiers == {"candidate", "judgment", "proposed", "ratified"}

ASSUME ReviewAssumption ==
    /\ Nodes \cap Edges = {}
    /\ Items \cap Ops = {}
    /\ None \notin Items \cup Ops \cup Keys
    /\ EndsOf \in [Edges -> SUBSET Nodes]
    /\ Typed \subseteq Nodes
    /\ Unratifiable \subseteq Nodes
    /\ FirstStatus \in [Items -> Tiers]
    /\ MaxSeq \in Nat

VARIABLES
    versions,  \* node_versions and edge_versions
    prepared,  \* authority_prepared_mutations
    nonces,    \* authority_challenges and the tokens signed for them
    held       \* history: challenges that were outstanding during a hold

reviewVars == <<versions, prepared, nonces>>
vars == <<ledgerVars, reviewVars, held>>

-----------------------------------------------------------------------------

NoRow == [item |-> None, status |-> "none", prior |-> None, open |-> FALSE]

NoOp == [cmd |-> "none", item |-> None, prior |-> None,
         status |-> "none", late |-> FALSE]

NoNonce == [op |-> None, key |-> None, seq |-> 0, status |-> "none"]

\* SELECT ... WHERE system_to IS NULL
Head(i, v) == versions[v].item = i /\ versions[v].open

Commands == {"ratify", "correct", "contest", "reject", "defer", "tombstone"}

(* What each command makes of a head of this status: the status of the     *)
(* next version, "closed" when there is none, "kept" when the head stays,  *)
(* "refused" when the command raises before it asks for authority.         *)

RatifyNode(i, status) ==
    IF i \in Unratifiable \/ status \notin {"candidate", "proposed"} THEN "refused"
    ELSE IF status = "candidate" THEN "judgment" ELSE "ratified"

CorrectTypedNode(i, status) ==
    IF i \in Typed /\ status = "proposed" THEN "ratified" ELSE "refused"

ContestTypedNode(i, status) ==
    IF i \in Typed /\ status = "proposed" THEN "closed" ELSE "refused"

RejectNode(i, status) ==
    IF status = "proposed" THEN "closed" ELSE "refused"

\* Mutant of DeferNode: the deferral is written as a provenance status.
DeferNodeAsStatus(i, status) ==
    IF status # "proposed" THEN "refused"
    ELSE IF i \in Typed THEN "deferred" ELSE "kept"

\* A typed node gets a version whose payload says it is deferred.
DeferNode(i, status) ==
    IF status # "proposed" THEN "refused"
    ELSE IF i \in Typed THEN status ELSE "kept"

TombstoneNode(i, status) == "closed"

ReviewEdge(cmd, status) ==
    IF status # "proposed" THEN "refused"
    ELSE CASE cmd = "ratify" -> "ratified"
           [] cmd = "defer" -> "kept"
           [] cmd = "reject" -> "closed"
           [] OTHER -> "refused"

Outcome(cmd, i, status) ==
    IF i \in Edges THEN ReviewEdge(cmd, status)
    ELSE CASE cmd = "ratify" -> RatifyNode(i, status)
           [] cmd = "correct" -> CorrectTypedNode(i, status)
           [] cmd = "contest" -> ContestTypedNode(i, status)
           [] cmd = "reject" -> RejectNode(i, status)
           [] cmd = "defer" -> DeferNode(i, status)
           [] OTHER -> TombstoneNode(i, status)

Allowed(cmd, i, status) == Outcome(cmd, i, status) # "refused"

-----------------------------------------------------------------------------
(* Without a token: prepare_mutation, committed before the refusal.  The   *)
(* generated version id is frozen in it.                                   *)

Prepare(o, cmd, i) ==
    /\ prepared[o] = NoOp
    /\ \E v \in VersionIds :
          /\ Head(i, v)
          /\ Allowed(cmd, i, versions[v].status)
          /\ prepared' = [prepared EXCEPT ![o] =
                [cmd |-> cmd, item |-> i, prior |-> v,
                 status |-> "pending", late |-> FALSE]]
    /\ UNCHANGED <<ledgerVars, versions, nonces>>

\* AuthorityService.approve: issue_challenge commits, for the active key and the
\* head of the ledger.  The operator then types APPROVE and the passphrase of
\* that key; the signature reads and writes nothing here, and a challenge that
\* stays unsigned is one nobody executes.  Any number of challenges may be
\* issued for one operation.
Approve(n, o) ==
    /\ nonces[n] = NoNonce
    /\ ~blocked
    /\ prepared[o].status = "pending"
    /\ ~prepared[o].late
    /\ \E k \in LocalKeys :
          /\ Active(k)
          /\ nonces' = [nonces EXCEPT ![n] =
                [op |-> o, key |-> k, seq |-> seq, status |-> "issued"]]
    /\ UNCHANGED <<ledgerVars, versions, prepared>>

-----------------------------------------------------------------------------
(* With a token.                                                           *)

\* Mutant of LoadPrepared: the prior state is not compared.
LoadPreparedAnyState(o, cmd, i, v) ==
    /\ prepared[o].status = "pending"
    /\ prepared[o].cmd = cmd
    /\ ~prepared[o].late
    /\ prepared[o].item = i

\* load_prepared_mutation: pending, the same command, not expired, and the
\* intent and prior state of the node as it is now are the stored ones.
LoadPrepared(o, cmd, i, v) ==
    /\ prepared[o].status = "pending"
    /\ prepared[o].cmd = cmd
    /\ ~prepared[o].late
    /\ prepared[o].item = i
    /\ prepared[o].prior = v

\* Mutant of InForce: the head is not compared.
KeyInForce(n) == Active(nonces[n].key)

\* verify_and_consume: the active key, and the head the challenge was made for.
InForce(n) == Active(nonces[n].key) /\ nonces[n].seq = seq

\* Issued, not consumed, not expired.
TokenHolds(n) == nonces[n].status = "issued"

\* Mutant of Touches: a tombstone leaves the edges of its node.
TouchesPrior(o, v) == v = prepared[o].prior

\* The rows a mutation closes: the prior version, and with a tombstone the open
\* versions of every edge at the node.
Touches(o, v) ==
    \/ v = prepared[o].prior
    \/ /\ prepared[o].cmd = "tombstone"
       /\ versions[v].open
       /\ versions[v].item \in Edges
       /\ prepared[o].item \in EndsOf[versions[v].item]

\* The closed rows and the next version.
Mutated(o) ==
    LET m == prepared[o]
        next == Outcome(m.cmd, m.item, versions[m.prior].status)
    IN [v \in VersionIds |->
          IF next = "kept" THEN versions[v]
          ELSE IF v = o /\ next # "closed"
          THEN [item |-> m.item, status |-> next, prior |-> m.prior, open |-> TRUE]
          ELSE IF Touches(o, v)
          THEN [versions[v] EXCEPT !.open = FALSE]
          ELSE versions[v]]

\* Mutant of Consumed: the prepared operation stays pending.
ConsumedNonce(n, o) ==
    /\ nonces' = [nonces EXCEPT ![n].status = "used"]
    /\ UNCHANGED prepared

\* The provenance, the nonce, and mark_prepared_executed.
Consumed(n, o) ==
    /\ nonces' = [nonces EXCEPT ![n].status = "used"]
    /\ prepared' = [prepared EXCEPT ![o].status = "executed"]

Execute(n, cmd, i) ==
    /\ TokenHolds(n)
    /\ \E o \in Ops, v \in VersionIds :
          /\ o = nonces[n].op
          /\ Head(i, v)
          /\ Allowed(cmd, i, versions[v].status)
          /\ LoadPrepared(o, cmd, i, v)
          /\ ~blocked
          /\ InForce(n)
          /\ Consumed(n, o)
          /\ versions' = Mutated(o)
    /\ UNCHANGED <<ledgerVars>>

-----------------------------------------------------------------------------
(* Time.                                                                   *)

\* PREPARED_TTL_SECONDS
PreparedExpires(o) ==
    /\ prepared[o].status = "pending" /\ ~prepared[o].late
    /\ prepared' = [prepared EXCEPT ![o].late = TRUE]
    /\ UNCHANGED <<ledgerVars, versions, nonces>>

\* expires_at of the challenge, at most MAX_TTL_SECONDS after its issue.
ChallengeExpires(n) ==
    /\ nonces[n].status = "issued"
    /\ nonces' = [nonces EXCEPT ![n].status = "late"]
    /\ UNCHANGED <<ledgerVars, versions, prepared>>

-----------------------------------------------------------------------------

Init ==
    /\ LedgerInit
    /\ versions = [v \in VersionIds |->
                     IF v \in Items
                     THEN [NoRow EXCEPT !.item = v, !.status = FirstStatus[v], !.open = TRUE]
                     ELSE NoRow]
    /\ prepared = [o \in Ops |-> NoOp]
    /\ nonces = [n \in Nonces |-> NoNonce]
    /\ held = {}

Review ==
    \/ \E o \in Ops, cmd \in Commands, i \in Items : Prepare(o, cmd, i)
    \/ \E n \in Nonces, o \in Ops : Approve(n, o)
    \/ \E n \in Nonces : ChallengeExpires(n)
    \/ \E n \in Nonces, cmd \in Commands, i \in Items : Execute(n, cmd, i)
    \/ \E o \in Ops : PreparedExpires(o)

Ledger ==
    /\ LedgerNext
    /\ seq < MaxSeq
    /\ held' = IF blocked' THEN held \cup {n \in Nonces : TokenHolds(n)} ELSE held
    /\ UNCHANGED reviewVars

Next == (Review /\ UNCHANGED held) \/ Ledger

Spec == Init /\ [][Next]_vars

-----------------------------------------------------------------------------
(* Properties.                                                             *)

Row == [item : Items \cup {None}, status : Tiers \cup {"none"},
        prior : VersionIds \cup {None}, open : BOOLEAN]

Prepared == [cmd : Commands \cup {"none"}, item : Items \cup {None},
             prior : VersionIds \cup {None},
             status : {"none", "pending", "executed"}, late : BOOLEAN]

Challenge == [op : Ops \cup {None}, key : Keys \cup {None}, seq : Nat,
              status : {"none", "issued", "used", "late"}]

\* Every variable has its type.
TypeOK ==
    /\ chain \in [Keys -> Status]
    /\ seq \in Nat
    /\ blocked \in BOOLEAN
    /\ versions \in [VersionIds -> Row]
    /\ prepared \in [Ops -> Prepared]
    /\ nonces \in [Nonces -> Challenge]
    /\ held \subseteq Nonces

Used(n) == nonces[n].status = "used"

\* One mutation, one approval: of all the challenges issued for an operation at
\* most one is ever consumed, and an operation is executed exactly when one is.
ApprovedOnce ==
    /\ \A m, n \in Nonces :
          Used(m) /\ Used(n) /\ nonces[m].op = nonces[n].op => m = n
    /\ \A o \in Ops : prepared[o].status = "executed" <=>
                         \E n \in Nonces : Used(n) /\ nonces[n].op = o

\* No update is lost: a version has at most one successor, which is of the same
\* item and was decided on that version, and an item has at most one head.
HistoryIsChain ==
    \A v, w \in VersionIds :
        /\ versions[v].prior # None /\ versions[v].prior = versions[w].prior => v = w
        /\ versions[v].prior = w =>
              versions[w].item = versions[v].item /\ ~versions[w].open
        /\ versions[v].open /\ versions[w].open
              /\ versions[v].item = versions[w].item => v = w

\* A hold voids the approvals on the table: a challenge that was outstanding when a key
\* was reported compromised, whoever signed it, is executed neither during the hold nor
\* after its adjudication, however active its own key still is.
HoldVoidsApprovals == \A n \in held : ~Used(n)

\* A tombstone is final: of the reviews prepared or approved before it, none
\* gives the node or an edge at it a current version again.
TombstoneIsFinal ==
    \A o \in Ops, v \in VersionIds :
        prepared[o].cmd = "tombstone" /\ prepared[o].status = "executed" =>
            /\ ~Head(prepared[o].item, v)
            /\ versions[v].item \in Edges /\ prepared[o].item \in EndsOf[versions[v].item]
                  => ~versions[v].open

=============================================================================
