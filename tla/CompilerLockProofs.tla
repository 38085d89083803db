------------------------- MODULE CompilerLockProofs -------------------------
(* Theorems about CompilerLock, for any number of compilers, recoverers,   *)
(* inputs and faults.                                                      *)
EXTENDS CompilerLock, TLAPS

USE DEF Exists, Fresh, Absent, Touched

\* Making a missing directory yields a directory and never changes one.
LEMMA MakeIfMissingType ==
    ASSUME TypeOK, MakeIfMissing
    PROVE  /\ lock' \in Dir
           /\ Exists(lock)'
           /\ Exists(lock) => lock' = lock
  <1>1. CASE Exists(lock)
    BY <1>1 DEF TypeOK, MakeIfMissing
  <1>2. CASE ~Exists(lock)
    <2>1. PICK i \in FreeInos : lock' = Fresh(i)
      BY <1>2 DEF MakeIfMissing
    <2>2. i \in Inos /\ i # None
      BY LockAssumption DEF FreeInos
    <2> QED BY <1>2, <2>1, <2>2 DEF Dir
  <1> QED BY <1>1, <1>2

\* A step of compile_spools keeps every variable in its type.
LEMMA CompileType ==
    ASSUME TypeOK, NEW c \in Compilers, Compile(c)
    PROVE  TypeOK'
  <1> USE LockAssumption DEF TypeOK, Dir, CompilerSteps, Ended, Goto
  <1>1. CASE Mkdir(c)
    BY <1>1 DEF Mkdir, FreeInos
  <1>2. CASE MkdirRefused(c)
    BY <1>2 DEF MkdirRefused
  <1>3. CASE SecureLock(c)
    BY <1>3, MakeIfMissingType DEF SecureLock
  <1>4. CASE SecureLockFails(c)
    BY <1>4 DEF SecureLockFails
  <1>5. CASE StageOwner(c)
    <2>1. lock' \in Dir
      BY <1>5 DEF StageOwner
    <2>2. left' \in [Compilers -> 0..Inputs]
      BY <1>5 DEF StageOwner, WritesOwner
    <2>3. pc' \in [Compilers -> CompilerSteps]
      BY <1>5 DEF StageOwner
    <2> QED BY <1>5, <2>1, <2>2, <2>3 DEF StageOwner
  <1>6. CASE StageFails(c)
    BY <1>6 DEF StageFails
  <1>7. CASE CommitOwner(c)
    <2>1. lock' \in Dir
      <3>1. PICK late \in BOOLEAN :
              lock' = [lock EXCEPT !.owner = c, !.temps = @ \ {c}, !.old = late]
        BY <1>7 DEF CommitOwner
      <3>2. lock.temps \ {c} \in SUBSET Compilers
        OBVIOUS
      <3> QED BY <3>1, <3>2
    <2> QED BY <1>7, <2>1 DEF CommitOwner
  <1>8. CASE CommitFails(c)
    BY <1>8 DEF CommitFails
  <1>9. CASE BodyEnds(c)
    BY <1>9 DEF BodyEnds
  <1>10. CASE ReadOwner(c)
    BY <1>10 DEF ReadOwner
  <1>11. CASE UnlinkOwner(c)
    <2>1. [lock EXCEPT !.owner = None, !.old = FALSE] \in Dir
      OBVIOUS
    <2> QED BY <1>11, <2>1 DEF UnlinkOwner
  <1>12. CASE RmdirLock(c)
    BY <1>12 DEF RmdirLock
  <1>13. CASE FinallyFails(c)
    BY <1>13 DEF FinallyFails
  <1>14. CASE SweepList(c)
    BY <1>14 DEF SweepList
  <1>15. CASE SweepSecure(c)
    BY <1>15, MakeIfMissingType DEF SweepSecure
  <1> QED
    BY <1>1, <1>2, <1>3, <1>4, <1>5, <1>6, <1>7, <1>8, <1>9, <1>10, <1>11,
       <1>12, <1>13, <1>14, <1>15 DEF Compile

\* Moving a recoverer to another step keeps its record in its type.
LEMMA StepType ==
    ASSUME TypeOK, NEW r \in Recoverers, NEW place \in RecoverySteps, Step(r, place)
    PROVE  rec' \in [Recoverers -> Recovery]
  <1>1. AtRest(place) \in Recovery
    BY DEF AtRest, Recovery
  <1>2. [rec[r] EXCEPT !.pc = place] \in Recovery
    BY DEF TypeOK, Recovery
  <1> QED BY <1>1, <1>2 DEF Step, TypeOK

\* A step of recover_stale_compiler_lock keeps every variable in its type.
LEMMA RecoverType ==
    ASSUME TypeOK, NEW r \in Recoverers, Recover(r) \/ RecoveryCrash(r)
    PROVE  TypeOK'
  <1>1. Absent \in Dir /\ claimed[r] \in Dir /\ lock \in Dir
    BY LockAssumption DEF Dir, TypeOK
  <1>2. \A place \in {"absent", "refused", "residue", "stat", "recheck", "claim",
                      "verify", "remove", "restore", "move", "resecure", "recovered"} :
           place \in RecoverySteps /\ AtRest(place) \in Recovery
    BY DEF RecoverySteps, Resting, AtRest, Recovery
  <1>3. ASSUME NEW confirmation \in Compilers \cup {None}, Inspect(r, confirmation)
        PROVE  TypeOK'
    <2>1. [AtRest("stat") EXCEPT !.nonce = lock.owner] \in Recovery
      BY <1>1, <1>2 DEF AtRest, Recovery, Dir
    <2>2. rec' \in [Recoverers -> Recovery]
      BY <1>2, <1>3, <2>1 DEF Inspect, TypeOK
    <2> QED BY <1>3, <2>2 DEF Inspect, TypeOK
  <1>4. CASE StatLock(r)
    <2>1. [rec[r] EXCEPT !.pc = "recheck", !.ino = lock.ino, !.owner = lock.owner]
             \in Recovery
      BY <1>1, <1>2 DEF TypeOK, Recovery, Dir
    <2>2. rec' \in [Recoverers -> Recovery]
      BY <1>2, <1>4, <2>1 DEF StatLock, TypeOK
    <2> QED BY <1>4, <2>2 DEF StatLock, TypeOK
  <1>5. CASE Recheck(r)
    <2>1. rec' \in [Recoverers -> Recovery]
      BY <1>2, <1>5, StepType DEF Recheck
    <2> QED BY <1>5, <2>1 DEF Recheck, TypeOK
  <1>6. CASE Claim(r)
    <2>1. rec' \in [Recoverers -> Recovery]
      BY <1>2, <1>6, StepType DEF Claim
    <2> QED BY <1>1, <1>6, <2>1 DEF Claim, TypeOK
  <1>7. CASE Verify(r)
    <2>1. rec' \in [Recoverers -> Recovery]
      BY <1>2, <1>7, StepType DEF Verify
    <2> QED BY <1>7, <2>1 DEF Verify, TypeOK
  <1>7a. CASE VerifyFails(r)
    <2>1. rec' \in [Recoverers -> Recovery]
      BY <1>2, <1>7a, StepType DEF VerifyFails
    <2> QED BY <1>7a, <2>1 DEF VerifyFails, TypeOK
  <1>8. CASE RemoveClaimed(r)
    <2>1. rec' \in [Recoverers -> Recovery]
      BY <1>2, <1>8, StepType DEF RemoveClaimed
    <2> QED BY <1>1, <1>8, <2>1 DEF RemoveClaimed, TypeOK
  <1>8a. CASE RemoveStops(r)
    <2>1. rec' \in [Recoverers -> Recovery]
      BY <1>2, <1>8a, StepType DEF RemoveStops
    <2>2. [claimed[r] EXCEPT !.owner = None, !.old = FALSE] \in Dir
      BY <1>1 DEF Dir
    <2>3. claimed' \in [Recoverers -> Dir]
      <3>1. \/ claimed' = claimed
            \/ claimed' = [claimed EXCEPT ![r] =
                             [claimed[r] EXCEPT !.owner = None, !.old = FALSE]]
        BY <1>8a DEF RemoveStops, TypeOK
      <3> QED BY <1>1, <2>2, <3>1 DEF TypeOK
    <2> QED BY <1>8a, <2>1, <2>3 DEF RemoveStops, TypeOK
  <1>9. CASE RestoreCheck(r)
    <2>1. rec' \in [Recoverers -> Recovery]
      BY <1>2, <1>9, StepType DEF RestoreCheck
    <2> QED BY <1>1, <1>9, <2>1 DEF RestoreCheck, TypeOK
  <1>10. CASE RestoreMove(r)
    <2>1. rec' \in [Recoverers -> Recovery]
      BY <1>2, <1>10, StepType DEF RestoreMove
    <2> QED BY <1>1, <1>10, <2>1 DEF RestoreMove, TypeOK
  <1>10a. CASE RestoreMoveFails(r)
    <2>1. rec' \in [Recoverers -> Recovery]
      BY <1>2, <1>10a, StepType DEF RestoreMoveFails
    <2> QED BY <1>1, <1>10a, <2>1 DEF RestoreMoveFails, TypeOK
  <1>11. CASE RestoreSecure(r)
    <2>1. rec' \in [Recoverers -> Recovery]
      BY <1>2, <1>11, StepType DEF RestoreSecure
    <2> QED BY <1>11, <2>1, MakeIfMissingType DEF RestoreSecure, TypeOK
  <1>12. CASE RecoveryCrash(r)
    <2>1. rec' \in [Recoverers -> Recovery]
      BY <1>2, <1>12, StepType DEF RecoveryCrash
    <2> QED BY <1>1, <1>12, <2>1 DEF RecoveryCrash, TypeOK
  <1> QED
    BY <1>3, <1>4, <1>5, <1>6, <1>7, <1>7a, <1>8, <1>8a, <1>9, <1>10, <1>10a, <1>11,
       <1>12 DEF Recover

\* Every step of the lease keeps every variable in its type.
LEMMA NextType == TypeOK /\ [Next]_vars => TypeOK'
  <1> SUFFICES ASSUME TypeOK, [Next]_vars PROVE TypeOK'
    OBVIOUS
  <1>1. ASSUME NEW c \in Compilers, Crash(c) PROVE TypeOK'
    BY <1>1 DEF Crash, Goto, TypeOK, CompilerSteps, Ended
  <1>2. CASE TimePasses
    BY <1>2 DEF TimePasses, Aged, TypeOK, Dir
  <1>3. CASE UNCHANGED vars
    BY <1>3 DEF vars, TypeOK
  <1> QED BY <1>1, <1>2, <1>3, CompileType, RecoverType DEF Next

\* Nobody compiles or recovers yet: every variable has its type.
LEMMA InitType == Init => TypeOK
  BY LockAssumption
  DEF Init, TypeOK, Dir, CompilerSteps, Recovery, RecoverySteps, Resting, Ended, AtRest

\* The variables keep their types in every deployment.
THEOREM TypeCorrect == Spec => []TypeOK
  BY InitType, NextType, PTL DEF Spec

-----------------------------------------------------------------------------
(* The lease invariant.  Every case below first asks who holds the lease:  *)
(* a step that changes the lock directory is its only holder's, or finds   *)
(* that it has none.                                                       *)

\* A lease that a recovery inspects or has found stale has no holder.
LEMMA InspectedHasNoHolder ==
    ASSUME LeaseInv, NEW r \in Recoverers, rec[r].pc \in {"stat", "recheck", "claim"}
    PROVE  \A c \in Compilers : ~HoldsLease(c)
  <1> SUFFICES ASSUME NEW c \in Compilers, HoldsLease(c) PROVE FALSE
    OBVIOUS
  <1>1. lock.old /\ (lock.owner # None => ~Alive(lock.owner))
    BY DEF LeaseInv, InspectionHolds
  <1>2. CASE pc[c] \in OwnerlessSteps
    BY <1>1, <1>2 DEF LeaseInv, OwnerlessIsRecent
  <1>3. CASE pc[c] \in OwnedSteps
    <2>1. lock.owner = c /\ c # None
      BY <1>3, LockAssumption DEF LeaseInv, WriterIsOwner
    <2> QED BY <1>1, <1>3, <2>1 DEF Alive, Ended, OwnedSteps
  <1> QED BY <1>2, <1>3 DEF HoldsLease

\* No directory at the lock path: nobody holds the lease.
LEMMA AbsentHasNoHolder ==
    ASSUME LeaseInv, ~Exists(lock)
    PROVE  \A c \in Compilers : ~HoldsLease(c)
  BY DEF LeaseInv, OwnerlessIsRecent, WriterIsOwner, HoldsLease

\* A step of a living compiler that leaves every directory under inspection
\* alone keeps what the recoveries rely on: the dead stay dead.
LEMMA RecoveriesKept ==
    ASSUME LeaseInv, NEW c \in Compilers, NEW place \in CompilerSteps,
           Alive(c), Goto(c, place), UNCHANGED <<claimed, rec>>,
           \/ lock' = lock
           \/ \A r \in Recoverers : rec[r].pc \notin {"stat", "recheck", "claim"},
           \A r \in Recoverers :
              rec[r].pc = "move" => Replaceable(lock)' /\ ~HoldsLease(c)'
    PROVE  /\ OneRecovery'
           /\ InspectionHolds'
           /\ ClaimHolds'
  <1>1. \A d \in Compilers : ~Alive(d) => ~Alive(d)'
    BY DEF Alive, Goto, LeaseInv, TypeOK
  <1>2. \A r \in Recoverers : claimed[r].owner \in Compilers \cup {None}
    BY DEF LeaseInv, TypeOK, Dir
  <1>3. lock.owner \in Compilers \cup {None}
    BY DEF LeaseInv, TypeOK, Dir
  <1>4. OneRecovery'
    BY DEF LeaseInv, OneRecovery, Recovering
  <1>5. InspectionHolds'
    BY <1>1, <1>3 DEF LeaseInv, InspectionHolds, UnownedResidue
  <1>6. ASSUME NEW r \in Recoverers, rec[r].pc = "move", NEW d \in Compilers
        PROVE  ~HoldsLease(d)'
    BY <1>6 DEF LeaseInv, ClaimHolds, TypeOK, Goto, HoldsLease
  <1>7. ClaimHolds'
    BY <1>1, <1>2, <1>6 DEF LeaseInv, ClaimHolds, UnownedResidue
  <1> QED BY <1>4, <1>5, <1>7

\* What the holders rely on.
Holders == MutualExclusion /\ WriterIsOwner /\ OwnerlessIsRecent

\* A step that leaves the lock directory alone and does not make c a holder.
LEMMA LeavesLock ==
    ASSUME LeaseInv, NEW c \in Compilers, NEW place \in CompilerSteps,
           Alive(c), Goto(c, place), lock' = lock, UNCHANGED <<claimed, rec>>,
           place \notin OwnerlessSteps \cup OwnedSteps
    PROVE  Holders' /\ OneRecovery' /\ InspectionHolds' /\ ClaimHolds'
  <1>1. Holders'
    BY DEF LeaseInv, TypeOK, Holders, MutualExclusion, WriterIsOwner,
           OwnerlessIsRecent, HoldsLease, Goto
  <1>2. ~HoldsLease(c)'
    BY DEF LeaseInv, TypeOK, HoldsLease, Goto
  <1>3. \A r \in Recoverers : rec[r].pc = "move" => Replaceable(lock)'
    BY DEF LeaseInv, ClaimHolds, Replaceable, Empty
  <1> QED BY <1>1, <1>2, <1>3, RecoveriesKept

\* A step of the only holder c, which holds the lease afterwards as well or
\* gives it up: nobody else has a say in it.
LEMMA HolderMoves ==
    ASSUME LeaseInv, NEW c \in Compilers, NEW place \in CompilerSteps,
           HoldsLease(c), Goto(c, place), UNCHANGED <<claimed, rec>>,
           place \in OwnedSteps => Exists(lock)' /\ lock'.owner = c,
           place \in OwnerlessSteps => Exists(lock)' /\ lock'.owner = None /\ ~lock'.old
    PROVE  Holders' /\ OneRecovery' /\ InspectionHolds' /\ ClaimHolds'
  <1>1. Alive(c)
    BY DEF HoldsLease, OwnerlessSteps, OwnedSteps, Alive, Ended
  <1>2. \A r \in Recoverers : rec[r].pc \notin {"stat", "recheck", "claim"}
                              /\ rec[r].pc # "move"
    BY InspectedHasNoHolder DEF LeaseInv, ClaimHolds
  <1>3. \A d \in Compilers \ {c} : pc'[d] = pc[d] /\ ~HoldsLease(d)
    BY DEF LeaseInv, TypeOK, MutualExclusion, Goto
  <1>4. pc'[c] = place
    BY DEF LeaseInv, TypeOK, Goto
  <1>5. Holders'
    BY <1>3, <1>4
    DEF Holders, MutualExclusion, WriterIsOwner, OwnerlessIsRecent, HoldsLease
  <1> QED BY <1>1, <1>2, <1>5, RecoveriesKept

\* A step of compile_spools keeps the invariant.
LEMMA CompileKeeps ==
    ASSUME LeaseInv, NEW c \in Compilers, Compile(c), Supported
    PROVE  LeaseInv'
  <1> DEFINE Kept == Holders' /\ OneRecovery' /\ InspectionHolds' /\ ClaimHolds'
  <1> USE DEF OwnerlessSteps, OwnedSteps, CompilerSteps, Ended, Alive, HoldsLease
  <1>a. TypeOK /\ TypeOK'
    BY CompileType DEF LeaseInv
  <1> SUFFICES Kept
    BY <1>a DEF LeaseInv, Holders
  <1>o. pc[c] \in OwnedSteps => Exists(lock) /\ lock.owner = c
    BY DEF LeaseInv, WriterIsOwner
  <1>n. pc[c] \in OwnerlessSteps => Exists(lock) /\ lock.owner = None /\ ~lock.old
    BY DEF LeaseInv, OwnerlessIsRecent
  <1>m. \A place : Goto(c, place) => pc'[c] = place
    BY <1>a DEF Goto, TypeOK
  <1>1. CASE Mkdir(c)
    <2>1. \A d \in Compilers : ~HoldsLease(d)
      BY <1>1, AbsentHasNoHolder DEF Mkdir
    <2>2. \A d \in Compilers \ {c} : pc'[d] = pc[d]
      BY <1>1, <1>a DEF Mkdir, Goto, TypeOK
    <2>3. Exists(lock)' /\ lock'.owner = None /\ ~lock'.old
      BY <1>1, LockAssumption DEF Mkdir, FreeInos
    <2>4. Holders'
      BY <1>1, <1>m, <2>1, <2>2, <2>3
      DEF Mkdir, Holders, MutualExclusion, WriterIsOwner, OwnerlessIsRecent
    <2>5. \A r \in Recoverers : rec[r].pc \notin {"stat", "recheck", "claim"}
                                /\ rec[r].pc # "move"
      <3>1. pc'[c] = "made" /\ pc[c] # "made"
        BY <1>1, <1>m DEF Mkdir
      <3> QED BY <1>1, <3>1 DEF Mkdir, LeaseInv, InspectionHolds, Supported, UndoApart
    <2>6. OneRecovery' /\ InspectionHolds' /\ ClaimHolds'
      BY <1>1, <2>5, RecoveriesKept DEF Mkdir
    <2> QED BY <2>4, <2>6
  <1>2. CASE MkdirRefused(c)
    BY <1>2, LeavesLock DEF MkdirRefused
  <1>3. CASE SecureLock(c)
    <2>1. lock' = lock
      BY <1>3, <1>n DEF SecureLock, MakeIfMissing
    <2> QED BY <1>3, <1>m, <1>n, <2>1, HolderMoves DEF SecureLock
  <1>4. CASE SecureLockFails(c)
    BY <1>4, LeavesLock DEF SecureLockFails
  <1>5. CASE StageOwner(c)
    <2>1. lock'.owner = lock.owner /\ Exists(lock)'
      BY <1>5, <1>a DEF StageOwner, TypeOK, Dir
    <2>2. CASE pc[c] = "body"
      BY <1>5, <1>o, <2>1, <2>2, HolderMoves DEF StageOwner
    <2>3. CASE pc[c] = "secured"
      <3>1. ~lock'.old
        BY <1>5, <1>a, <1>n, <2>3 DEF StageOwner, TypeOK, Dir
      <3> QED BY <1>5, <1>m, <1>n, <2>1, <2>3, <3>1, HolderMoves DEF StageOwner
    <2> QED BY <1>5, <2>2, <2>3 DEF StageOwner, WritesOwner
  <1>6. CASE StageFails(c)
    BY <1>6, LeavesLock DEF StageFails, WritesOwner
  <1>7. CASE CommitOwner(c)
    <2>1. lock'.owner = c /\ Exists(lock)'
      BY <1>7, <1>a DEF CommitOwner, SameParent, TypeOK, Dir
    <2> QED BY <1>7, <2>1, HolderMoves DEF CommitOwner
  <1>8. CASE CommitFails(c)
    BY <1>8, HolderMoves DEF CommitFails
  <1>9. CASE BodyEnds(c)
    BY <1>9, LeavesLock DEF BodyEnds
  <1>10. CASE ReadOwner(c)
    <2>1. CASE Exists(lock) /\ lock.owner = c
      <3>1. \A d \in Compilers \ {c} : ~HoldsLease(d)
        BY <2>1, LockAssumption DEF LeaseInv, WriterIsOwner, OwnerlessIsRecent
      <3>2. \A d \in Compilers \ {c} : pc'[d] = pc[d]
        BY <1>10, <1>a DEF ReadOwner, Goto, TypeOK
      <3>3. Holders'
        BY <1>10, <1>m, <2>1, <3>1, <3>2
        DEF ReadOwner, Holders, MutualExclusion, WriterIsOwner, OwnerlessIsRecent
      <3>4. \A r \in Recoverers : rec[r].pc # "move"
        BY <2>1, LockAssumption DEF LeaseInv, ClaimHolds, Replaceable, Empty
      <3> QED BY <1>10, <3>3, <3>4, <2>1, RecoveriesKept DEF ReadOwner
    <2>2. CASE ~(Exists(lock) /\ lock.owner = c)
      BY <1>10, <2>2, LeavesLock DEF ReadOwner
    <2> QED BY <2>1, <2>2
  <1>11. CASE UnlinkOwner(c)
    <2>1. lock.owner = c /\ Exists(lock) /\ c # None
      BY <1>11, <1>o, LockAssumption DEF UnlinkOwner
    <2>2. lock'.owner = None /\ ~lock'.old /\ Exists(lock)' /\ Goto(c, "rmdir")
      BY <1>11, <1>a, <2>1 DEF UnlinkOwner, TypeOK, Dir
    <2> QED BY <1>11, <2>2, HolderMoves DEF UnlinkOwner
  <1>12. CASE RmdirLock(c)
    BY <1>12, HolderMoves DEF RmdirLock
  <1>13. CASE FinallyFails(c)
    BY <1>13, LeavesLock DEF FinallyFails
  <1>14. CASE SweepList(c)
    BY <1>14, LeavesLock DEF SweepList
  <1>15. CASE SweepSecure(c)
    <2>1. CASE Exists(lock)
      BY <1>15, <2>1, LeavesLock DEF SweepSecure, MakeIfMissing
    <2>2. CASE ~Exists(lock)
      <3>1. \A d \in Compilers : ~HoldsLease(d)
        BY <2>2, AbsentHasNoHolder
      <3>2. \A d \in Compilers \ {c} : pc'[d] = pc[d]
        BY <1>15, <1>a DEF SweepSecure, Goto, TypeOK
      <3>3. Holders'
        BY <1>15, <1>m, <3>1, <3>2
        DEF SweepSecure, Holders, MutualExclusion, WriterIsOwner, OwnerlessIsRecent
      <3>4. \A r \in Recoverers : rec[r].pc \notin {"stat", "recheck", "claim"}
        BY <2>2 DEF LeaseInv, InspectionHolds
      <3>6. Replaceable(lock)' /\ ~HoldsLease(c)'
        BY <1>15, <1>m, <2>2 DEF SweepSecure, MakeIfMissing, Replaceable, Empty
      <3>5. OneRecovery' /\ InspectionHolds' /\ ClaimHolds'
        BY <1>15, <3>4, <3>6, RecoveriesKept DEF SweepSecure
      <3> QED BY <3>3, <3>5
    <2> QED BY <2>1, <2>2
  <1> QED
    BY <1>1, <1>2, <1>3, <1>4, <1>5, <1>6, <1>7, <1>8, <1>9, <1>10, <1>11,
       <1>12, <1>13, <1>14, <1>15 DEF Compile

\* A recoverer's record after a step of r.
LEMMA StepSets ==
    ASSUME TypeOK, NEW r \in Recoverers, NEW place, Step(r, place)
    PROVE  /\ rec'[r].pc = place
           /\ place \notin Resting =>
                 /\ rec'[r].nonce = rec[r].nonce
                 /\ rec'[r].ino = rec[r].ino
                 /\ rec'[r].owner = rec[r].owner
           /\ \A s \in Recoverers \ {r} : rec'[s] = rec[s]
  BY DEF TypeOK, Recovery, Step, AtRest

\* A step of recover_stale_compiler_lock keeps the invariant.  While r is
\* recovering no other recovery is, so only r's own record matters.
LEMMA RecoverKeeps ==
    ASSUME LeaseInv, NEW r \in Recoverers, Recover(r) \/ RecoveryCrash(r), Supported
    PROVE  LeaseInv'
  <1> DEFINE Mine ==
        /\ rec[r].pc \in {"stat", "recheck", "claim"} =>
              /\ Exists(lock)
              /\ lock.old
              /\ lock.owner = rec[r].nonce
              /\ lock.owner # None => ~Alive(lock.owner)
        /\ rec[r].pc \in {"recheck", "claim"} =>
              /\ lock.ino = rec[r].ino
              /\ lock.owner = rec[r].owner
              /\ UnownedResidue(lock) = {}
        /\ rec[r].pc \in {"verify", "remove"} =>
              /\ Exists(claimed[r])
              /\ claimed[r].old
              /\ claimed[r].owner = rec[r].nonce
              /\ claimed[r].owner # None => ~Alive(claimed[r].owner)
              /\ claimed[r].ino = rec[r].ino
              /\ claimed[r].owner = rec[r].owner
              /\ UnownedResidue(claimed[r]) = {}
        /\ rec[r].pc \in {"restore", "move"} =>
              /\ Exists(claimed[r])
              /\ claimed[r].owner # None => ~Alive(claimed[r].owner)
        /\ rec[r].pc = "move" =>
              /\ Replaceable(lock)
              /\ \A c \in Compilers : ~HoldsLease(c)
  <1>a. TypeOK /\ TypeOK'
    BY RecoverType DEF LeaseInv
  <1>b. OneHost /\ OneRecovery'
    BY DEF Supported, OneHost
  <1>c. pc' = pc
    BY DEF Recover, Inspect, StatLock, Recheck, Claim, Verify, VerifyFails,
           RemoveClaimed, RemoveStops, RestoreCheck, RestoreMove, RestoreMoveFails,
           RestoreSecure, RecoveryCrash
  <1>d. \A s \in Recoverers \ {r} : rec'[s] = rec[s] /\ claimed'[s] = claimed[s]
    BY <1>a DEF Recover, Inspect, StatLock, Recheck, Claim, Verify, VerifyFails,
       RemoveClaimed, RemoveStops, RestoreCheck, RestoreMove, RestoreMoveFails,
       RestoreSecure, RecoveryCrash, Step, TypeOK
  <1>e. lock' = lock \/ rec[r].pc \in {"claim", "move"} \/ ~Exists(lock)
    BY DEF Recover, Inspect, StatLock, Recheck, Claim, Verify, VerifyFails,
       RemoveClaimed, RemoveStops, RestoreCheck, RestoreMove, RestoreMoveFails,
       RestoreSecure, RecoveryCrash, MakeIfMissing
  <1>f. Holders'
    <2>1. rec[r].pc \in {"claim", "move"} \/ ~Exists(lock) =>
             \A c \in Compilers : ~HoldsLease(c)
      BY InspectedHasNoHolder, AbsentHasNoHolder DEF LeaseInv, ClaimHolds
    <2> QED BY <1>c, <1>e, <2>1
      DEF LeaseInv, Holders, MutualExclusion, WriterIsOwner, OwnerlessIsRecent,
          HoldsLease
  <1>g. Mine'
    <2> USE <1>a, <1>c DEF Alive, Resting
    <2>1. ASSUME NEW confirmation \in Compilers \cup {None}, Inspect(r, confirmation)
          PROVE  Mine'
      <3>1. CASE Exists(lock) /\ Stale(lock, r) /\ confirmation = lock.owner
        <4>1. rec'[r].pc = "stat" /\ rec'[r].nonce = lock.owner /\ lock' = lock
          BY <2>1, <3>1 DEF Inspect, AtRest, TypeOK
        <4>2. lock.old /\ (lock.owner # None => ~Alive(lock.owner))
          BY <1>b, <3>1 DEF Stale, OneHost, TypeOK, Dir
        <4> QED BY <3>1, <4>1, <4>2
      <3>2. CASE ~(Exists(lock) /\ Stale(lock, r) /\ confirmation = lock.owner)
        BY <2>1, <3>2 DEF Inspect, AtRest, TypeOK
      <3> QED BY <3>1, <3>2
    <2>2. CASE StatLock(r)
      <3>1. CASE Exists(lock) /\ UnownedResidue(lock) = {}
        <4>1. rec' = [rec EXCEPT ![r] = [@ EXCEPT !.pc = "recheck", !.ino = lock.ino,
                                                  !.owner = lock.owner]]
          BY <2>2, <3>1 DEF StatLock
        <4>2. rec'[r].pc = "recheck" /\ rec'[r].nonce = rec[r].nonce
              /\ rec'[r].ino = lock.ino /\ rec'[r].owner = lock.owner
          BY <4>1 DEF TypeOK, Recovery
        <4> QED BY <2>2, <3>1, <4>2
          DEF StatLock, LeaseInv, InspectionHolds, UnownedResidue
      <3>2. CASE ~(Exists(lock) /\ UnownedResidue(lock) = {})
        BY <2>2, <3>2 DEF StatLock, AtRest, TypeOK
      <3> QED BY <3>1, <3>2
    <2>3. CASE Recheck(r)
      <3>1. PICK place \in {"claim", "refused"} : Step(r, place)
        BY <2>3 DEF Recheck
      <3> QED BY <2>3, <3>1, StepSets
        DEF Recheck, LeaseInv, InspectionHolds, UnownedResidue
    <2>4. CASE Claim(r)
      <3>1. Step(r, "verify")
        BY <2>4 DEF Claim, LeaseInv, InspectionHolds
      <3>2. claimed'[r] = lock
        BY <2>4 DEF Claim, TypeOK
      <3> QED BY <2>4, <3>1, <3>2, StepSets
        DEF Claim, LeaseInv, InspectionHolds, UnownedResidue
    <2>5. CASE Verify(r)
      <3>1. ClaimIsExact(r)
        BY <2>5 DEF Verify, ClaimIsExact, Stale, LeaseInv, ClaimHolds
      <3>2. Step(r, "remove")
        BY <2>5, <3>1 DEF Verify
      <3> QED BY <2>5, <3>2, StepSets
        DEF Verify, LeaseInv, ClaimHolds, UnownedResidue
    <2>6. CASE VerifyFails(r)
      <3>1. Step(r, "restore") /\ claimed' = claimed
        BY <2>6 DEF VerifyFails
      <3> QED BY <2>6, <3>1, StepSets DEF VerifyFails, LeaseInv, ClaimHolds
    <2>7. CASE RemoveClaimed(r)
      BY <2>7, StepSets DEF RemoveClaimed
    <2>8. CASE RemoveStops(r)
      <3>1. Step(r, "restore")
        BY <2>8 DEF RemoveStops
      <3>2. Exists(claimed[r]) /\ (claimed[r].owner # None => ~Alive(claimed[r].owner))
        BY <2>8 DEF RemoveStops, LeaseInv, ClaimHolds
      <3>3. claimed[r] \in Dir
        BY DEF TypeOK
      <3>4. \/ claimed'[r] = claimed[r]
            \/ claimed'[r] = [claimed[r] EXCEPT !.owner = None, !.old = FALSE]
        BY <2>8 DEF RemoveStops, TypeOK
      <3>5. claimed'[r].ino = claimed[r].ino /\ claimed'[r].owner \in {None, claimed[r].owner}
        BY <3>3, <3>4 DEF Dir
      <3> QED BY <3>1, <3>2, <3>5, StepSets
    <2>9. CASE RestoreCheck(r)
      <3>1. CASE Exists(lock)
        BY <2>9, <3>1, StepSets DEF RestoreCheck
      <3>2. CASE ~Exists(lock)
        <4>1. Step(r, "move") /\ UNCHANGED <<lock, claimed>>
          BY <2>9, <3>2 DEF RestoreCheck
        <4>2. \A c \in Compilers : ~HoldsLease(c)'
          BY <3>2, AbsentHasNoHolder DEF HoldsLease
        <4> QED BY <2>9, <3>2, <4>1, <4>2, StepSets
          DEF RestoreCheck, LeaseInv, ClaimHolds, Replaceable
      <3> QED BY <3>1, <3>2
    <2>10. CASE RestoreMove(r)
      BY <2>10, StepSets DEF RestoreMove
    <2>11. CASE RestoreMoveFails(r)
      BY <2>11, StepSets DEF RestoreMoveFails
    <2>12. CASE RestoreSecure(r)
      BY <2>12, StepSets DEF RestoreSecure
    <2>13. CASE RecoveryCrash(r)
      BY <2>13, StepSets DEF RecoveryCrash
    <2> QED BY <2>1, <2>2, <2>3, <2>4, <2>5, <2>6, <2>7, <2>8, <2>9, <2>10, <2>11,
               <2>12, <2>13 DEF Recover
  <1>h. ASSUME NEW s \in Recoverers, s # r,
               rec[s].pc \in {"stat", "recheck", "claim", "move"}
        PROVE  lock' = lock
    <2>1. ~Recovering(r)
      BY <1>h DEF LeaseInv, OneRecovery, Recovering, Resting
    <2>2. CASE RecoveryCrash(r)
      BY <2>1, <2>2 DEF RecoveryCrash
    <2>3. CASE Recover(r)
      BY <2>1, <2>3 DEF Recover, Inspect, StatLock, Recheck, Claim, Verify, VerifyFails,
         RemoveClaimed, RemoveStops, RestoreCheck, RestoreMove, RestoreMoveFails,
         RestoreSecure, Recovering, Resting
    <2> QED BY <2>2, <2>3
  <1>i. InspectionHolds'
    BY <1>c, <1>d, <1>g, <1>h DEF LeaseInv, InspectionHolds, Alive, UnownedResidue
  <1>j. ClaimHolds'
    BY <1>c, <1>d, <1>g, <1>h
    DEF LeaseInv, ClaimHolds, Alive, UnownedResidue, HoldsLease, Replaceable, Empty
  <1> QED BY <1>a, <1>b, <1>f, <1>i, <1>j DEF LeaseInv, Holders

\* A crash only takes a compiler away.
LEMMA CrashKeeps ==
    ASSUME LeaseInv, NEW c \in Compilers, Crash(c)
    PROVE  LeaseInv'
  <1>1. TypeOK'
    BY NextType DEF LeaseInv, Next
  <1>2. Holders' /\ OneRecovery' /\ InspectionHolds' /\ ClaimHolds'
    BY LeavesLock DEF Crash, Alive, CompilerSteps, Ended, OwnerlessSteps, OwnedSteps
  <1> QED BY <1>1, <1>2 DEF LeaseInv, Holders

\* Time only ages directories, and Prompt says whose it does not.
LEMMA TimeKeeps ==
    ASSUME LeaseInv, TimePasses, Supported
    PROVE  LeaseInv'
  <1>1. TypeOK /\ TypeOK'
    BY NextType DEF LeaseInv, Next
  <1>2. lock'.ino = lock.ino /\ lock'.owner = lock.owner /\ lock'.temps = lock.temps
        /\ lock'.old = Exists(lock)
    BY <1>1 DEF TimePasses, Aged, TypeOK, Dir
  <1>3. \A r \in Recoverers :
           /\ claimed'[r].ino = claimed[r].ino /\ claimed'[r].owner = claimed[r].owner
           /\ claimed'[r].temps = claimed[r].temps /\ claimed'[r].old = Exists(claimed[r])
    BY <1>1 DEF TimePasses, Aged, TypeOK, Dir
  <1>4. pc' = pc /\ rec' = rec
    BY DEF TimePasses
  <1>5. \A c \in Compilers : pc'[c] \notin OwnerlessSteps
    BY <1>4 DEF Supported, Prompt
  <1>6. Holders'
    BY <1>2, <1>4, <1>5
    DEF LeaseInv, Holders, MutualExclusion, WriterIsOwner, OwnerlessIsRecent, HoldsLease
  <1>7. OneRecovery'
    BY DEF Supported
  <1>8. InspectionHolds'
    BY <1>2, <1>4 DEF LeaseInv, InspectionHolds, UnownedResidue, Alive
  <1>9. ClaimHolds'
    BY <1>2, <1>3, <1>4, ZenonT(40)
    DEF LeaseInv, ClaimHolds, UnownedResidue, Alive, HoldsLease, Replaceable, Empty
  <1> QED BY <1>1, <1>6, <1>7, <1>8, <1>9 DEF LeaseInv, Holders

\* Every supported step of the lease keeps the invariant.
LEMMA LeaseInvInductive == LeaseInv /\ [Next /\ Supported]_vars => LeaseInv'
  <1> SUFFICES ASSUME LeaseInv, [Next /\ Supported]_vars PROVE LeaseInv'
    OBVIOUS
  <1>1. CASE UNCHANGED vars
    BY <1>1 DEF vars, LeaseInv, TypeOK, MutualExclusion, WriterIsOwner,
       OwnerlessIsRecent, HoldsLease, OneRecovery, Recovering, InspectionHolds,
       ClaimHolds, UnownedResidue, Alive, Replaceable, Empty
  <1> QED BY <1>1, CompileKeeps, CrashKeeps, RecoverKeeps, TimeKeeps DEF Next

\* It holds of an installation without a lease.
LEMMA LeaseInvInit == Init => LeaseInv
  BY InitType DEF Init, LeaseInv, MutualExclusion, WriterIsOwner, OwnerlessIsRecent,
     HoldsLease, OwnerlessSteps, OwnedSteps, OneRecovery, Recovering, Resting,
     InspectionHolds, ClaimHolds, AtRest

\* In the supported deployment (one host, one recovery at a time, prompt
\* ownerless windows, no compiler started inside an undo), whatever I/O errors
\* compilers and recoveries meet, no two compile_spools ever hold the lease together.
THEOREM LeaseIsExclusive == SupportedSpec => []MutualExclusion
  <1>1. LeaseInv => MutualExclusion
    BY DEF LeaseInv
  <1> QED BY LeaseInvInit, LeaseInvInductive, <1>1, PTL DEF SupportedSpec

\* There, too, a compiler that writes the canon is the one owner.json names.
THEOREM WritersOwnTheLease == SupportedSpec => []WriterIsOwner
  <1>1. LeaseInv => WriterIsOwner
    BY DEF LeaseInv
  <1> QED BY LeaseInvInit, LeaseInvInductive, <1>1, PTL DEF SupportedSpec

\* And recover_stale_compiler_lock claims only leases of the dead.
THEOREM RecoveryClaimsOnlyDead == SupportedSpec => []ClaimsOnlyDead
  <1>1. LeaseInv => ClaimsOnlyDead
    BY DEF LeaseInv, ClaimHolds, ClaimsOnlyDead
  <1> QED BY LeaseInvInit, LeaseInvInductive, <1>1, PTL DEF SupportedSpec

\* A step that changes which directory is at the lock path has no holder that
\* holds on.
LEMMA LeaseKeptStep ==
    ASSUME LeaseInv, Next, NEW c \in Compilers, HoldsLease(c), HoldsLease(c)'
    PROVE  lock'.ino = lock.ino
  <1> USE DEF HoldsLease, OwnerlessSteps, OwnedSteps
  <1>a. TypeOK /\ Exists(lock)
    BY AbsentHasNoHolder DEF LeaseInv
  <1>b. \A r \in Recoverers : rec[r].pc \notin {"claim", "move"}
    BY InspectedHasNoHolder DEF LeaseInv, ClaimHolds
  <1>1. ASSUME NEW d \in Compilers, Compile(d)
        PROVE  lock'.ino = lock.ino
    <2>1. CASE RmdirLock(d)
      <3>1. d # c
        BY <2>1, <1>a DEF RmdirLock, Goto, TypeOK
      <3> QED BY <2>1, <3>1 DEF RmdirLock, LeaseInv, MutualExclusion
    <2>2. CASE ~RmdirLock(d)
      BY <1>1, <1>a, <2>2
      DEF Compile, Mkdir, MkdirRefused, SecureLock, SecureLockFails, MakeIfMissing,
          StageOwner, StageFails, CommitOwner, CommitFails, BodyEnds, ReadOwner,
          UnlinkOwner, FinallyFails, SweepList, SweepSecure, TypeOK, Dir
    <2> QED BY <2>1, <2>2
  <1>2. ASSUME NEW d \in Compilers, Crash(d)
        PROVE  lock'.ino = lock.ino
    BY <1>2 DEF Crash
  <1>3. ASSUME NEW r \in Recoverers, Recover(r) \/ RecoveryCrash(r)
        PROVE  lock'.ino = lock.ino
    BY <1>3, <1>a, <1>b DEF Recover, Inspect, StatLock, Recheck, Claim, Verify,
       VerifyFails, RemoveClaimed, RemoveStops, RestoreCheck, RestoreMove,
       RestoreMoveFails, RestoreSecure, RecoveryCrash, MakeIfMissing
  <1>4. CASE TimePasses
    BY <1>4, <1>a DEF TimePasses, Aged, TypeOK, Dir
  <1> QED BY <1>1, <1>2, <1>3, <1>4 DEF Next

\* The lease directory is never taken from under a compiler that holds it.
THEOREM LeaseIsKept == SupportedSpec => LeaseKept
  <1>1. LeaseInv /\ [Next /\ Supported]_vars =>
          [\A c \in Compilers :
             HoldsLease(c) /\ HoldsLease(c)' => lock'.ino = lock.ino]_vars
    BY LeaseKeptStep
  <1> QED BY LeaseInvInit, LeaseInvInductive, <1>1, PTL DEF SupportedSpec, LeaseKept

\* On one host, and whatever else goes wrong (several recoveries at once,
\* compilers stopped in their ownerless windows), a recovery deletes a lease
\* only after it found its owner dead in the directory it had claimed.
THEOREM RecoveryDeletesOnlyDead ==
    ASSUME OneHost
    PROVE  Spec => []DeletesOnlyDead
  <1> DEFINE Inv == TypeOK /\ DeletesOnlyDead
  <1>1. Init => Inv
    BY InitType DEF Init, DeletesOnlyDead, AtRest
  <1>2. Inv /\ [Next]_vars => Inv'
    <2> SUFFICES ASSUME Inv, [Next]_vars PROVE DeletesOnlyDead'
      BY NextType
    <2> SUFFICES ASSUME NEW s \in Recoverers, rec'[s].pc = "remove",
                        claimed'[s].owner # None
                 PROVE  ~Alive(claimed[s].owner)'
      BY DEF DeletesOnlyDead
    <2>a. TypeOK /\ TypeOK'
      BY NextType
    <2>b. claimed'[s].owner \in Compilers
      BY <2>a DEF TypeOK, Dir
    <2>c. ASSUME claimed'[s].owner = claimed[s].owner, rec'[s] = rec[s],
                 NEW c \in Compilers, Alive(c), NEW place, Goto(c, place)
          PROVE  ~Alive(claimed[s].owner)'
      BY <2>a, <2>b, <2>c DEF DeletesOnlyDead, Alive, Goto, TypeOK
    <2>1. ASSUME NEW c \in Compilers, Compile(c)
          PROVE  ~Alive(claimed[s].owner)'
      <3>1. UNCHANGED <<claimed, rec>> /\ Alive(c) /\ \E place : Goto(c, place)
        BY <2>1 DEF Compile, Mkdir, MkdirRefused, SecureLock, SecureLockFails,
           StageOwner, WritesOwner, StageFails, CommitOwner, CommitFails, BodyEnds,
           ReadOwner, UnlinkOwner, RmdirLock, FinallyFails, SweepList, SweepSecure,
           Alive, Ended
      <3> QED BY <2>c, <3>1
    <2>2. ASSUME NEW c \in Compilers, Crash(c)
          PROVE  ~Alive(claimed[s].owner)'
      BY <2>2, <2>c DEF Crash, Alive
    <2>3. ASSUME NEW r \in Recoverers, Recover(r) \/ RecoveryCrash(r)
          PROVE  ~Alive(claimed[s].owner)'
      <3>1. pc' = pc
        BY <2>3 DEF Recover, Inspect, StatLock, Recheck, Claim, Verify, VerifyFails,
           RemoveClaimed, RemoveStops, RestoreCheck, RestoreMove, RestoreMoveFails,
           RestoreSecure, RecoveryCrash
      <3>2. CASE s # r
        <4>1. claimed'[s] = claimed[s] /\ rec'[s] = rec[s]
          BY <2>3, <2>a, <3>2 DEF Recover, Inspect, StatLock, Recheck, Claim, Verify,
             VerifyFails, RemoveClaimed, RemoveStops, RestoreCheck, RestoreMove,
             RestoreMoveFails, RestoreSecure, RecoveryCrash, Step, TypeOK
        <4> QED BY <3>1, <4>1 DEF DeletesOnlyDead, Alive
      <3>3. CASE s = r
        <4>1. CASE Verify(r)
          <5>1. ClaimIsExact(r) /\ claimed' = claimed
            BY <4>1, <3>3, <2>a, StepSets DEF Verify
          <5> QED BY <5>1, <3>1, <3>3, <2>b
            DEF ClaimIsExact, Stale, OneHost, Alive
        <4>2. rec'[r].pc = "remove" => Verify(r)
          <5>1. ASSUME NEW confirmation, Inspect(r, confirmation)
                PROVE  rec'[r].pc # "remove"
            BY <5>1, <2>a DEF Inspect, AtRest, TypeOK
          <5>2. CASE StatLock(r)
            BY <5>2, <2>a DEF StatLock, AtRest, TypeOK, Recovery
          <5>3. CASE Recheck(r) \/ Claim(r)
            BY <5>3, <2>a, StepSets DEF Recheck, Claim
          <5>4. CASE VerifyFails(r) \/ RemoveClaimed(r) \/ RemoveStops(r)
            BY <5>4, <2>a, StepSets DEF VerifyFails, RemoveClaimed, RemoveStops
          <5>5. CASE \/ RestoreCheck(r) \/ RestoreMove(r) \/ RestoreMoveFails(r)
                     \/ RestoreSecure(r) \/ RecoveryCrash(r)
            BY <5>5, <2>a, StepSets DEF RestoreCheck, RestoreMove, RestoreMoveFails,
               RestoreSecure, RecoveryCrash
          <5> QED BY <2>3, <5>1, <5>2, <5>3, <5>4, <5>5 DEF Recover
        <4> QED BY <3>3, <4>1, <4>2
      <3> QED BY <3>2, <3>3
    <2>4. CASE TimePasses
      <3>1. claimed'[s].owner = claimed[s].owner /\ UNCHANGED <<pc, rec>>
        BY <2>4, <2>a DEF TimePasses, Aged, TypeOK, Dir
      <3> QED BY <3>1 DEF DeletesOnlyDead, Alive
    <2>5. CASE UNCHANGED vars
      BY <2>5 DEF vars, DeletesOnlyDead, Alive
    <2> QED BY <2>1, <2>2, <2>3, <2>4, <2>5 DEF Next
  <1>3. Inv => DeletesOnlyDead
    OBVIOUS
  <1> QED BY <1>1, <1>2, <1>3, PTL DEF Spec

=============================================================================
