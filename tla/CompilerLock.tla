---------------------------- MODULE CompilerLock ----------------------------
(***************************************************************************)
(* The exclusive compiler lease of imprint/compiler/spool.py: the          *)
(* directory <operator root>/compiler.lock, taken by compile_spools with   *)
(* mkdir, marked with owner.json, refreshed by rewriting owner.json,       *)
(* released by unlink + rmdir, and recovered by                            *)
(* recover_stale_compiler_lock.  Every file-system call that another       *)
(* process can observe is one step.                                        *)
(*                                                                         *)
(* A compiler is one process running compile_spools once, so its nonce,    *)
(* its pid and the process are one identity: the member of Compilers.      *)
(***************************************************************************)
EXTENDS Naturals

CONSTANTS
    Compilers,   \* the compile_spools processes
    Recoverers,  \* the recover_stale_compiler_lock callers
    Inos,        \* inode numbers the file system hands out (and reuses)
    HostOf,      \* the host of every process
    Inputs,      \* results one pass acknowledges; each one is a heartbeat
    Faults,      \* which faults may happen: a subset of {"crash", "io"}
    None         \* no owner, no inode

ASSUME LockAssumption ==
    /\ None \notin Compilers
    /\ None \notin Inos
    /\ Inputs \in Nat
    /\ Faults \subseteq {"crash", "io"}

VARIABLES
    lock,     \* the directory at the path compiler.lock
    claimed,  \* per recoverer: the directory it renamed aside
    pc,       \* per compiler: the next file-system call of compile_spools
    saw,      \* per compiler: replace_private's parent_before inode
    left,     \* per compiler: results still to acknowledge
    rec       \* per recoverer: its next call and what it read before

vars == <<lock, claimed, pc, saw, left, rec>>

-----------------------------------------------------------------------------
(* Directories.  `old` is the age test of _compiler_lock_directory_state:  *)
(* the heartbeat when there is an owner.json, the directory's mtime when   *)
(* there is none, is LOCK_STALE_SECONDS or more in the past.               *)

Dir == [ino : Inos \cup {None}, owner : Compilers \cup {None},
        temps : SUBSET Compilers, old : BOOLEAN]

Absent == [ino |-> None, owner |-> None, temps |-> {}, old |-> FALSE]

Fresh(i) == [ino |-> i, owner |-> None, temps |-> {}, old |-> FALSE]

Exists(d) == d.ino # None

\* An entry was added or removed: the mtime, which only an ownerless
\* directory is judged by, is now.
Touched(d) == d.old /\ d.owner # None

FreeInos == Inos \ ({lock.ino} \cup {claimed[r].ino : r \in Recoverers})

\* secure_directory on the lock path: mkdir(exist_ok=True), then chmod.
MakeIfMissing ==
    \/ Exists(lock) /\ lock' = lock
    \/ ~Exists(lock) /\ \E i \in FreeInos : lock' = Fresh(i)

Ended == {"refused", "ended", "crashed"}

\* _local_pid_alive.
Alive(c) == pc[c] \notin Ended

\* Mutant of Stale: age alone, no test of the owner's process.
StaleByAge(d, r) == Exists(d) /\ d.old

\* The "stale" verdict of _compiler_lock_directory_state, read on r's host.
Stale(d, r) ==
    /\ Exists(d)
    /\ d.old
    /\ \/ d.owner = None
       \/ HostOf[d.owner] # HostOf[r]
       \/ ~Alive(d.owner)

\* The name replace_private gives the file it stages: mkstemp with the prefix
\* "." + target.name + "." in the target's directory.
StagedPrefix == ".owner.json."

\* owned_temporary: the residue a recovery accepts is named .owner-<nonce>...
OwnedTemporary(prefix) == prefix = ".owner-"

UnownedResidue(d) == {c \in d.temps : ~OwnedTemporary(StagedPrefix)}

-----------------------------------------------------------------------------
(* compile_spools.                                                         *)

Goto(c, place) == pc' = [pc EXCEPT ![c] = place]

\* lock.mkdir()
Mkdir(c) ==
    /\ pc[c] = "idle"
    /\ ~Exists(lock)
    /\ \E i \in FreeInos : lock' = Fresh(i)
    /\ Goto(c, "made")
    /\ UNCHANGED <<claimed, saw, left, rec>>

\* FileExistsError: "refusing a second writer", outside the try block.
MkdirRefused(c) ==
    /\ pc[c] = "idle"
    /\ Exists(lock)
    /\ Goto(c, "refused")
    /\ UNCHANGED <<lock, claimed, saw, left, rec>>

\* secure_directory(lock), still outside the try block: when it raises, no
\* finally runs and the lease stays.
SecureLock(c) ==
    /\ pc[c] = "made"
    /\ MakeIfMissing
    /\ Goto(c, "secured")
    /\ UNCHANGED <<claimed, saw, left, rec>>

SecureLockFails(c) ==
    /\ "io" \in Faults
    /\ pc[c] = "made"
    /\ Goto(c, "ended")
    /\ UNCHANGED <<lock, claimed, saw, left, rec>>

\* Mutant of WritesOwner: one heartbeat more than there are results.
BeatsOnceMore(c) == pc[c] \in {"secured", "body"}

\* _write_lock_owner for the first time ("secured") or as the heartbeat that
\* follows one result ("body").
WritesOwner(c) == pc[c] = "secured" \/ (pc[c] = "body" /\ left[c] > 0)

\* Mutant of StageOwner: the result a heartbeat stands for is not consumed.
StageOwnerAgain(c) ==
    /\ WritesOwner(c)
    /\ Exists(lock)
    /\ saw' = [saw EXCEPT ![c] = lock.ino]
    /\ lock' = [lock EXCEPT !.temps = @ \cup {c}, !.old = Touched(lock)]
    /\ Goto(c, IF pc[c] = "body" THEN "beat" ELSE "staged")
    /\ UNCHANGED <<claimed, left, rec>>

\* replace_private up to the staged temporary.
StageOwner(c) ==
    /\ WritesOwner(c)
    /\ Exists(lock)
    /\ saw' = [saw EXCEPT ![c] = lock.ino]
    /\ lock' = [lock EXCEPT !.temps = @ \cup {c}, !.old = Touched(lock)]
    /\ Goto(c, IF pc[c] = "body" THEN "beat" ELSE "staged")
    /\ left' = [left EXCEPT ![c] = IF pc[c] = "body" THEN @ - 1 ELSE @]
    /\ UNCHANGED <<claimed, rec>>

StageFails(c) ==
    /\ WritesOwner(c)
    /\ ~Exists(lock) \/ "io" \in Faults
    /\ Goto(c, "finally")
    /\ UNCHANGED <<lock, claimed, saw, left, rec>>

\* The parent is still the directory the temporary was staged in.
SameParent(c) == Exists(lock) /\ lock.ino = saw[c] /\ c \in lock.temps

\* os.replace(temporary, owner.json).  There is no test of the nonce that is
\* there.  The heartbeat was read from the clock before staging, so it can be
\* old already.
CommitOwner(c) ==
    /\ pc[c] \in {"staged", "beat"}
    /\ SameParent(c)
    /\ \E late \in BOOLEAN :
          lock' = [lock EXCEPT !.owner = c, !.temps = @ \ {c}, !.old = late]
    /\ saw' = [saw EXCEPT ![c] = None]
    /\ Goto(c, "body")
    /\ UNCHANGED <<claimed, left, rec>>

\* The parent changed, or the replace failed: the temporary is unlinked from
\* the path (if it is there) and the exception reaches finally.
CommitFails(c) ==
    /\ pc[c] \in {"staged", "beat"}
    /\ ~SameParent(c) \/ "io" \in Faults
    /\ lock' = IF c \in lock.temps
               THEN [lock EXCEPT !.temps = @ \ {c}, !.old = Touched(lock)]
               ELSE lock
    /\ saw' = [saw EXCEPT ![c] = None]
    /\ Goto(c, "finally")
    /\ UNCHANGED <<claimed, left, rec>>

\* The try block returns its counts, or an infrastructure error leaves it.
BodyEnds(c) ==
    /\ pc[c] = "body"
    /\ left[c] = 0 \/ "io" \in Faults
    /\ Goto(c, "finally")
    /\ UNCHANGED <<lock, claimed, saw, left, rec>>

\* Mutant of ReadOwner: release without comparing the nonce.
ReadOwnerUnchecked(c) ==
    /\ pc[c] = "finally"
    /\ Goto(c, IF Exists(lock) THEN "unlink" ELSE "sweep")
    /\ UNCHANGED <<lock, claimed, saw, left, rec>>

\* finally: read owner.json and compare its nonce.
ReadOwner(c) ==
    /\ pc[c] = "finally"
    /\ Goto(c, IF Exists(lock) /\ lock.owner = c THEN "unlink" ELSE "sweep")
    /\ UNCHANGED <<lock, claimed, saw, left, rec>>

\* owner_path.unlink(): whatever owner.json is at the path now.
UnlinkOwner(c) ==
    /\ pc[c] = "unlink"
    /\ IF lock.owner # None
       THEN /\ lock' = [lock EXCEPT !.owner = None, !.old = FALSE]
            /\ Goto(c, "rmdir")
       ELSE lock' = lock /\ Goto(c, "sweep")
    /\ UNCHANGED <<claimed, saw, left, rec>>

\* lock.rmdir(): whatever directory is at the path now, if it is empty.
Empty(d) == d.owner = None /\ d.temps = {}

RmdirLock(c) ==
    /\ pc[c] = "rmdir"
    /\ lock' = IF Empty(lock) THEN Absent ELSE lock
    /\ Goto(c, "sweep")
    /\ UNCHANGED <<claimed, saw, left, rec>>

\* The finally block swallows OSError and goes on to secure_tree.
FinallyFails(c) ==
    /\ "io" \in Faults
    /\ pc[c] \in {"finally", "unlink", "rmdir"}
    /\ Goto(c, "sweep")
    /\ UNCHANGED <<lock, claimed, saw, left, rec>>

\* secure_tree(operator_root): os.walk lists the root ("sweep") and then the
\* directories it found ("walk"); every directory listed is secured in a later
\* call, and secure_directory makes the ones that are gone.
SweepList(c) ==
    /\ pc[c] \in {"sweep", "walk"}
    /\ Goto(c, IF ~Exists(lock) THEN "ended"
               ELSE IF pc[c] = "sweep" THEN "harden" ELSE "rewalk")
    /\ UNCHANGED <<lock, claimed, saw, left, rec>>

SweepSecure(c) ==
    /\ pc[c] \in {"harden", "rewalk"}
    /\ MakeIfMissing
    /\ Goto(c, IF pc[c] = "harden" THEN "walk" ELSE "ended")
    /\ UNCHANGED <<claimed, saw, left, rec>>

Crash(c) ==
    /\ "crash" \in Faults
    /\ pc[c] \notin {"idle"} \cup Ended
    /\ Goto(c, "crashed")
    /\ UNCHANGED <<lock, claimed, saw, left, rec>>

Compile(c) ==
    \/ Mkdir(c) \/ MkdirRefused(c) \/ SecureLock(c) \/ SecureLockFails(c)
    \/ StageOwner(c) \/ StageFails(c) \/ CommitOwner(c) \/ CommitFails(c)
    \/ BodyEnds(c) \/ ReadOwner(c) \/ UnlinkOwner(c) \/ RmdirLock(c)
    \/ FinallyFails(c) \/ SweepList(c) \/ SweepSecure(c)

-----------------------------------------------------------------------------
(* recover_stale_compiler_lock.                                            *)

\* Between calls a recoverer's pc is the outcome of the last one.
Resting == {"idle", "absent", "refused", "residue", "recovered"}

Recovering(r) == rec[r].pc \notin Resting

AtRest(place) == [pc |-> place, nonce |-> None, ino |-> None, owner |-> None]

Step(r, place) ==
    rec' = [rec EXCEPT ![r] = IF place \in Resting THEN AtRest(place)
                              ELSE [@ EXCEPT !.pc = place]]

\* compiler_lock_state and the confirmation: the exact nonce, or (None) the
\* phrase RECOVER-INVALID-LOCK for a directory without a usable owner.
Inspect(r, confirmation) ==
    /\ ~Recovering(r)
    /\ rec' = [rec EXCEPT ![r] =
                 IF ~Exists(lock) THEN AtRest("absent")
                 ELSE IF Stale(lock, r) /\ confirmation = lock.owner
                 THEN [AtRest("stat") EXCEPT !.nonce = lock.owner]
                 ELSE AtRest("refused")]
    /\ UNCHANGED <<lock, claimed, pc, saw, left>>

\* before, owner_before and names; residue that is not owned is refused.
StatLock(r) ==
    /\ rec[r].pc = "stat"
    /\ rec' = [rec EXCEPT ![r] =
                 IF ~Exists(lock) THEN AtRest("refused")
                 ELSE IF UnownedResidue(lock) # {} THEN AtRest("residue")
                 ELSE [@ EXCEPT !.pc = "recheck", !.ino = lock.ino,
                                !.owner = lock.owner]]
    /\ UNCHANGED <<lock, claimed, pc, saw, left>>

Recheck(r) ==
    /\ rec[r].pc = "recheck"
    /\ Step(r, IF /\ Stale(lock, r)
                  /\ lock.owner = rec[r].nonce
                  /\ lock.ino = rec[r].ino
               THEN "claim" ELSE "refused")
    /\ UNCHANGED <<lock, claimed, pc, saw, left>>

\* os.replace(lock, claimed): whatever directory is at the path now.
Claim(r) ==
    /\ rec[r].pc = "claim"
    /\ claimed' = [claimed EXCEPT ![r] = lock]
    /\ lock' = Absent
    /\ Step(r, IF Exists(lock) THEN "verify" ELSE "refused")
    /\ UNCHANGED <<pc, saw, left>>

\* Mutant of ClaimIsExact: the claimed directory is not looked at again.
ClaimIsTrusted(r) == Exists(claimed[r])

\* Nothing changed between the first inspection and the claim.
ClaimIsExact(r) ==
    /\ Stale(claimed[r], r)
    /\ claimed[r].owner = rec[r].nonce
    /\ claimed[r].ino = rec[r].ino
    /\ claimed[r].owner = rec[r].owner

Verify(r) ==
    /\ rec[r].pc = "verify"
    /\ Step(r, IF ClaimIsExact(r) THEN "remove" ELSE "restore")
    /\ UNCHANGED <<lock, claimed, pc, saw, left>>

\* secure_tree, stat or a read of the claimed directory fails.
VerifyFails(r) ==
    /\ "io" \in Faults
    /\ rec[r].pc = "verify"
    /\ Step(r, "restore")
    /\ UNCHANGED <<lock, claimed, pc, saw, left>>

\* The claimed directory is emptied in listing order and removed.
RemoveClaimed(r) ==
    /\ rec[r].pc = "remove"
    /\ UnownedResidue(claimed[r]) = {}
    /\ claimed' = [claimed EXCEPT ![r] = Absent]
    /\ Step(r, "recovered")
    /\ UNCHANGED <<lock, pc, saw, left>>

\* Residue that is not owned, a failing unlink or a failing rmdir stops it,
\* before or after owner.json was unlinked.
RemoveStops(r) ==
    /\ rec[r].pc = "remove"
    /\ UnownedResidue(claimed[r]) # {} \/ "io" \in Faults
    /\ \/ claimed' = claimed
       \/ /\ claimed[r].owner # None
          /\ claimed' = [claimed EXCEPT ![r].owner = None, ![r].old = FALSE]
    /\ Step(r, "restore")
    /\ UNCHANGED <<lock, pc, saw, left>>

\* except: `if claimed.exists() and not lock.exists()`.  Otherwise the claimed
\* directory is left aside for good.
RestoreCheck(r) ==
    /\ rec[r].pc = "restore"
    /\ IF Exists(lock)
       THEN /\ claimed' = [claimed EXCEPT ![r] = Absent]
            /\ Step(r, "refused")
       ELSE claimed' = claimed /\ Step(r, "move")
    /\ UNCHANGED <<lock, pc, saw, left>>

Replaceable(d) == ~Exists(d) \/ Empty(d)

\* os.replace(claimed, lock): it also replaces an empty directory that was
\* made since the check.
RestoreMove(r) ==
    /\ rec[r].pc = "move"
    /\ Replaceable(lock)
    /\ lock' = claimed[r]
    /\ claimed' = [claimed EXCEPT ![r] = Absent]
    /\ Step(r, "resecure")
    /\ UNCHANGED <<pc, saw, left>>

\* It fails on a directory that is not empty, and OSError is swallowed.
RestoreMoveFails(r) ==
    /\ rec[r].pc = "move"
    /\ ~Replaceable(lock) \/ "io" \in Faults
    /\ claimed' = [claimed EXCEPT ![r] = Absent]
    /\ Step(r, "refused")
    /\ UNCHANGED <<lock, pc, saw, left>>

\* secure_tree(lock) on the restored path; OSError is swallowed here, too.
RestoreSecure(r) ==
    /\ rec[r].pc = "resecure"
    /\ MakeIfMissing \/ ("io" \in Faults /\ lock' = lock)
    /\ Step(r, "refused")
    /\ UNCHANGED <<claimed, pc, saw, left>>

\* The process that recovers dies: what it claimed stays aside for good.
RecoveryCrash(r) ==
    /\ "crash" \in Faults
    /\ Recovering(r)
    /\ claimed' = [claimed EXCEPT ![r] = Absent]
    /\ Step(r, "refused")
    /\ UNCHANGED <<lock, pc, saw, left>>

Recover(r) ==
    \/ \E confirmation \in Compilers \cup {None} : Inspect(r, confirmation)
    \/ StatLock(r) \/ Recheck(r) \/ Claim(r) \/ Verify(r) \/ VerifyFails(r)
    \/ RemoveClaimed(r) \/ RemoveStops(r)
    \/ RestoreCheck(r) \/ RestoreMove(r) \/ RestoreMoveFails(r) \/ RestoreSecure(r)

\* LOCK_STALE_SECONDS go by without a heartbeat.
Aged(d) == [d EXCEPT !.old = Exists(d)]

TimePasses ==
    /\ lock' = Aged(lock)
    /\ claimed' = [r \in Recoverers |-> Aged(claimed[r])]
    /\ UNCHANGED <<pc, saw, left, rec>>

-----------------------------------------------------------------------------

Init ==
    /\ lock = Absent
    /\ claimed = [r \in Recoverers |-> Absent]
    /\ pc = [c \in Compilers |-> "idle"]
    /\ saw = [c \in Compilers |-> None]
    /\ left = [c \in Compilers |-> Inputs]
    /\ rec = [r \in Recoverers |-> AtRest("idle")]

Next ==
    \/ \E c \in Compilers : Compile(c)
    \/ \E c \in Compilers : Crash(c)
    \/ \E r \in Recoverers : Recover(r)
    \/ \E r \in Recoverers : RecoveryCrash(r)
    \/ TimePasses

Spec == Init /\ [][Next]_vars

(* The deployment the lease is built for: one host, one recovery at a      *)
(* time, no live compiler stuck for LOCK_STALE_SECONDS between mkdir and   *)
(* its first owner.json or between unlink and rmdir, and no compiler that  *)
(* starts between the two calls with which a failed recovery undoes its    *)
(* claim (`not lock.exists()` and os.replace).  All of it is scheduling.   *)

OwnerlessSteps == {"made", "secured", "staged", "rmdir"}

OneHost == \A p, q \in Compilers \cup Recoverers : HostOf[p] = HostOf[q]

OneRecovery == \A r, s \in Recoverers : Recovering(r) /\ Recovering(s) => r = s

Prompt == TimePasses => \A c \in Compilers : pc[c] \notin OwnerlessSteps

UndoApart ==
    (\E r \in Recoverers : rec[r].pc = "move") =>
        \A c \in Compilers : pc'[c] = "made" => pc[c] = "made"

Supported == OneHost /\ OneRecovery' /\ Prompt /\ UndoApart

SupportedSpec == Init /\ [][Next /\ Supported]_vars

\* The same deployment, except that any number of recoveries may run at once.
ManyRecoveriesSpec == Init /\ [][Next /\ OneHost /\ Prompt /\ UndoApart]_vars

\* The same deployment, except that a compiler may start during an undo.
UndoRaceSpec == Init /\ [][Next /\ OneHost /\ OneRecovery' /\ Prompt]_vars

\* A process that is not stopped goes on: every step of a started
\* compile_spools is its own code, and so is every step of a recovery.
Started(c) == pc[c] # "idle" /\ Compile(c)

Fairness ==
    /\ \A c \in Compilers : WF_vars(Started(c) /\ Supported)
    /\ \A r \in Recoverers : WF_vars(Recovering(r) /\ Recover(r) /\ Supported)

FairSpec == SupportedSpec /\ Fairness

-----------------------------------------------------------------------------
(* Properties.                                                             *)

CompilerSteps ==
    {"idle", "made", "secured", "staged", "body", "beat", "finally", "unlink",
     "rmdir", "sweep", "harden", "walk", "rewalk"} \cup Ended

RecoverySteps ==
    {"stat", "recheck", "claim", "verify", "remove", "restore", "move",
     "resecure"} \cup Resting

Recovery == [pc : RecoverySteps, nonce : Compilers \cup {None},
             ino : Inos \cup {None}, owner : Compilers \cup {None}]

\* Every variable has its type.
TypeOK ==
    /\ lock \in Dir
    /\ claimed \in [Recoverers -> Dir]
    /\ pc \in [Compilers -> CompilerSteps]
    /\ saw \in [Compilers -> Inos \cup {None}]
    /\ left \in [Compilers -> 0..Inputs]
    /\ rec \in [Recoverers -> Recovery]

\* A compiler owns the directory "from mkdir onward" (the comment in
\* recover_stale_compiler_lock) until its rmdir.
OwnedSteps == {"body", "beat", "unlink"}
HoldsLease(c) == pc[c] \in OwnerlessSteps \cup OwnedSteps

\* compile_spools refuses a second writer: no two compilers hold the lease at
\* once, whatever crashes, I/O errors and recoveries happen in between.
MutualExclusion ==
    \A c, d \in Compilers : HoldsLease(c) /\ HoldsLease(d) => c = d

\* A compiler that writes the canon still has its own owner.json in the lease
\* directory: no recovery and no other compiler's finally took it away.
WriterIsOwner ==
    \A c \in Compilers : pc[c] \in OwnedSteps => Exists(lock) /\ lock.owner = c

\* recover_stale_compiler_lock claims only a lease nobody holds any more.
ClaimsOnlyDead ==
    \A r \in Recoverers :
        rec[r].pc \in {"verify", "remove"} =>
            claimed[r].owner = None \/ ~Alive(claimed[r].owner)

\* Whatever it claimed, a recovery deletes only what it found dead after the
\* rename ("revalidates live owner after atomic claim" in the tests); this one
\* holds for any number of recoveries at once and without Prompt.
DeletesOnlyDead ==
    \A r \in Recoverers :
        rec[r].pc = "remove" => claimed[r].owner = None \/ ~Alive(claimed[r].owner)

\* The lease directory leaves its path only with its holder's rmdir or with a
\* recovery that had found it stale; no live holder ever sees it disappear.
LeaseKept ==
    [][\A c \in Compilers :
         HoldsLease(c) /\ HoldsLease(c)' => lock'.ino = lock.ino]_vars

\* A started compiler comes to an end, whatever the others do.
CompilerEnds == \A c \in Compilers : pc[c] = "made" ~> pc[c] \in Ended

\* "refusing a second writer": at most one compiler is in the try block's body.
OneWriter ==
    \A c, d \in Compilers :
        pc[c] \in {"body", "beat"} /\ pc[d] \in {"body", "beat"} => c = d

\* README.md, "Reading compiler_state": absent is "the normal state between
\* compiles".  Without faults no lease directory is left when nobody compiles.
AbsentBetweenCompiles ==
    (\A c \in Compilers : pc[c] \in {"idle", "refused", "ended"}) => ~Exists(lock)

\* test_stale_lock_recovery_removes_only_owned_heartbeat_residue: what a
\* crashed heartbeat leaves is owned residue.  Nobody but compilers writes into
\* the lease, so no recovery may refuse it as unowned.
HeartbeatResidueIsOwned == \A r \in Recoverers : rec[r].pc # "residue"

-----------------------------------------------------------------------------
(* The inductive invariant behind MutualExclusion.                         *)

\* Between mkdir and the first owner.json, and between unlink and rmdir, the
\* holder's directory is there, ownerless and recent.
OwnerlessIsRecent ==
    \A c \in Compilers :
        pc[c] \in OwnerlessSteps => Exists(lock) /\ lock.owner = None /\ ~lock.old

\* From the first inspection to the rename the lease stays what was inspected.
InspectionHolds ==
    \A r \in Recoverers :
        /\ rec[r].pc \in {"stat", "recheck", "claim"} =>
              /\ Exists(lock)
              /\ lock.old
              /\ lock.owner = rec[r].nonce
              /\ lock.owner # None => ~Alive(lock.owner)
        /\ rec[r].pc \in {"recheck", "claim"} =>
              /\ lock.ino = rec[r].ino
              /\ lock.owner = rec[r].owner
              /\ UnownedResidue(lock) = {}

\* What was renamed is what was inspected.  A claim that an I/O error undoes
\* is of a dead owner or of nobody, and nobody holds the lease while it is put
\* back.
ClaimHolds ==
    \A r \in Recoverers :
        /\ rec[r].pc \in {"verify", "remove"} =>
              /\ Exists(claimed[r])
              /\ claimed[r].old
              /\ claimed[r].owner = rec[r].nonce
              /\ claimed[r].owner # None => ~Alive(claimed[r].owner)
              /\ claimed[r].ino = rec[r].ino
              /\ claimed[r].owner = rec[r].owner
              /\ UnownedResidue(claimed[r]) = {}
        /\ rec[r].pc \in {"restore", "move"} =>
              /\ Exists(claimed[r])
              /\ claimed[r].owner # None => ~Alive(claimed[r].owner)
        /\ rec[r].pc = "move" =>
              /\ Replaceable(lock)
              /\ \A c \in Compilers : ~HoldsLease(c)

LeaseInv ==
    /\ TypeOK
    /\ MutualExclusion
    /\ WriterIsOwner
    /\ OwnerlessIsRecent
    /\ OneRecovery
    /\ InspectionHolds
    /\ ClaimHolds

=============================================================================
