----------------------------- MODULE StoreFile -----------------------------
(***************************************************************************)
(* The canonical database as a file: the sessions that write it, and the   *)
(* maintenance commands that copy, replace, migrate and recover it.        *)
(*                                                                         *)
(* The path holds one inode.  A commit goes to the write-ahead log beside  *)
(* the path and reaches the inode when the last connection closes, or when *)
(* somebody opens the store after a crash.  SQLite finds the log by the    *)
(* name of the path, whatever inode the path holds, which is what makes    *)
(* replacing the file under a running session delicate.                    *)
(***************************************************************************)
EXTENDS Naturals, FiniteSets

CONSTANTS
    Writers, Jobs, Backups,
    MaxInodes,     \* bound on inodes in use at once
    Captures,      \* spool inputs, committed by apply_capture_batch
    MaxEvents,     \* bound on events of the authority ledger
    MaxFaults,     \* bound on killed processes and failing inspections
    Exclusive,     \* maintenance commands do not overlap
    None

Inodes == 1..MaxInodes
Events == 1..MaxEvents
Rows == Captures \cup Events

\* meta is the pair of schema versions, as far as the code tells it apart: an ontology
\* of 3.0.x, the current pair, or a store schema that a migration moved past the
\* version this build is pinned to.
Content == [rows : SUBSET Captures, ledger : SUBSET Events, meta : {"old", "current", "next"}]

ASSUME StoreFileAssumption ==
    /\ MaxInodes \in Nat \ {0} /\ MaxEvents \in Nat /\ MaxFaults \in Nat /\ Exclusive \in BOOLEAN
    /\ None \notin Inodes \cup Writers \cup Jobs \cup Backups \cup Rows
    /\ None \notin Content
    /\ Captures \cap Events = {}
    /\ Backups # {}

VARIABLES
    file,      \* what each inode holds
    live,      \* the inode at the store's path, or None
    wal,       \* the -wal and -shm files: absent, without frames, or the image of an inode
    ws,        \* the sessions
    jobs,      \* the maintenance commands
    backups,   \* backup files with their receipts
    stale,     \* backups whose authority checkpoint is over its age
    issued,    \* authority events that were ever committed
    reported,  \* rows whose writer was told that they are committed
    raced,     \* history: committed while the file was being replaced
    torn,      \* history: two inodes shared one log, since a restore died before it
               \* inspected the new file, took the new file away from a session that
               \* had found it meanwhile, or passed a session that was opening; or a
               \* recovery unlinked the log of a session
    faults

vars == <<file, live, wal, ws, jobs, backups, stale, issued, reported, raced, torn, faults>>

-----------------------------------------------------------------------------
(* What a connection reads.                                                *)

All(c) == c.rows \cup c.ledger

Empty == [rows |-> {}, ledger |-> {}, meta |-> "current"]

NoWal == [present |-> FALSE, of |-> None, img |-> None]
Frames == wal.img # None

\* What a connection to inode i reads: frames take precedence.
View(i) == IF Frames THEN wal.img ELSE file[i]

Live == IF live = None THEN Empty ELSE View(live)

Head(c) == CHOOSE e \in c.ledger : \A d \in c.ledger : d <= e

\* _require_connection_compatible, as connect() calls it
Pinned(c) == c.meta = "current"

\* Mutant of Inspected: the version is not looked at.
InspectedAnyVersion(c) == TRUE

\* _inspect_database
Inspected(c) == c.meta \in {"old", "current"}

-----------------------------------------------------------------------------
(* Sessions: connect() around one command or one capture batch.            *)

IdleWriter == [pc |-> "idle", id |-> None, conn |-> None, wrote |-> None, ok |-> FALSE]

\* A connection that has read has opened, or made, the sidecar files.
Reading(w) == ws[w].pc \in {"ready", "commit", "exit", "close"}

\* The file may be replaced with no further look at what it holds.
Window(j) ==
    \/ jobs[j].pc \in {"link", "replace", "inspect", "swap"}
    \/ jobs[j].pc = "seal" /\ jobs[j].safety # None

Restoring(j) == jobs[j].pc \in {"stage", "replace"} \/ jobs[j].safety # None

\* _require_existing_store_compatible: sidecars are tolerated without frames only.
\* What a session finds in a torn log is undefined, and not followed any further.
Preflight(w) ==
    /\ ~torn
    /\ ws[w].pc = "idle"
    /\ live # None
    /\ ~Frames
    /\ Pinned(View(live))
    /\ ws' = [ws EXCEPT ![w] = [IdleWriter EXCEPT !.pc = "checked", !.id = live]]
    /\ UNCHANGED <<file, live, wal, jobs, backups, stale, issued, reported, raced, torn, faults>>

Open(w) ==
    /\ ws[w].pc = "checked"
    /\ ws' = [ws EXCEPT ![w] = IF live = None THEN IdleWriter
                               ELSE [@ EXCEPT !.pc = "opened", !.conn = live]]
    /\ UNCHANGED <<file, live, wal, jobs, backups, stale, issued, reported, raced, torn, faults>>

\* Mutant of SamePath: the path is not looked at again.
SamePathAssumed(w) == TRUE

\* The path still holds the inode that was checked.
SamePath(w) == ws[w].id = live

VerifyHandle(w) ==
    /\ ws[w].pc = "opened"
    /\ wal' = [wal EXCEPT !.present = TRUE]
    /\ ws' = [ws EXCEPT ![w].pc = IF Pinned(View(ws[w].conn)) /\ SamePath(w)
                                  THEN "ready" ELSE "close"]
    /\ UNCHANGED <<file, live, jobs, backups, stale, issued, reported, raced, torn, faults>>

Locked == \E w \in Writers : ws[w].pc = "commit"

\* A transaction of w appends to the log.  An authority event races a restore
\* from when the local head was read.
Commit(w, img, row) ==
    /\ wal' = [present |-> TRUE, of |-> ws[w].conn, img |-> img]
    /\ raced' = IF \E j \in Jobs : Window(j) \/ (row \in Events /\ Restoring(j))
                THEN raced \cup {row} ELSE raced

\* apply_capture_batch commits a group without looking at the path again; the
\* end of connect() looks, and then raises after the fact.
CommitGroup(w) ==
    /\ ws[w].pc = "ready" /\ ~Locked
    /\ \E c \in Captures \ reported :
         /\ Commit(w, [View(ws[w].conn) EXCEPT !.rows = @ \cup {c}], c)
         /\ ws' = [ws EXCEPT ![w].pc = "exit", ![w].wrote = c]
    /\ UNCHANGED <<file, live, jobs, backups, stale, issued, reported, torn, faults>>

EndGroup(w) ==
    /\ ws[w].pc = "exit"
    /\ ws' = [ws EXCEPT ![w].pc = "close", ![w].ok = SamePath(w)]
    /\ UNCHANGED <<file, live, wal, jobs, backups, stale, issued, reported, raced, torn, faults>>

\* Any other command holds the write lock, looks at the path, and commits: here an
\* event of the authority ledger, or nothing.
Recheck(w) ==
    /\ ws[w].pc = "ready" /\ ~Locked
    /\ ws' = [ws EXCEPT ![w].pc = IF SamePath(w) THEN "commit" ELSE "close"]
    /\ UNCHANGED <<file, live, wal, jobs, backups, stale, issued, reported, raced, torn, faults>>

CommitCommand(w) ==
    /\ ws[w].pc = "commit"
    /\ LET img == View(ws[w].conn)
       IN \/ \E e \in Events \ issued :
               /\ \A d \in Events : d < e => d \in issued
               /\ Commit(w, [img EXCEPT !.ledger = @ \cup {e}], e)
               /\ issued' = issued \cup {e}
               /\ ws' = [ws EXCEPT ![w].pc = "close", ![w].wrote = e, ![w].ok = TRUE]
          \/ /\ ws' = [ws EXCEPT ![w].pc = "close"]
             /\ UNCHANGED <<wal, raced, issued>>
    /\ UNCHANGED <<file, live, jobs, backups, stale, reported, torn, faults>>

Checkpoint(i) ==
    /\ file' = IF Frames THEN [file EXCEPT ![i] = wal.img] ELSE file
    /\ wal' = NoWal

\* A connection to i closes, beside the sessions in S: the last one that holds the
\* inode checkpoints the log into it and removes it.  SQLite leaves undefined what
\* becomes of a log that sessions on two inodes share.
CloseLast(i, S) ==
    LET readers == {v \in S : Reading(v)}
    IN /\ IF \E v \in readers : ws[v].conn = i THEN UNCHANGED <<file, wal>> ELSE Checkpoint(i)
       /\ torn' = (torn \/ wal.of \notin {i, None} \/ \E v \in readers : ws[v].conn # i)

Close(w) ==
    /\ ws[w].pc = "close"
    /\ CloseLast(ws[w].conn, Writers \ {w})
    /\ reported' = IF ws[w].ok /\ ws[w].wrote # None THEN reported \cup {ws[w].wrote} ELSE reported
    /\ ws' = [ws EXCEPT ![w] = IdleWriter]
    /\ UNCHANGED <<live, jobs, backups, stale, issued, raced, faults>>

\* A killed session leaves its sidecars.
WriterCrash(w) ==
    /\ ws[w].pc # "idle"
    /\ faults < MaxFaults
    /\ faults' = faults + 1
    /\ ws' = [ws EXCEPT ![w] = IdleWriter]
    /\ UNCHANGED <<file, live, wal, jobs, backups, stale, issued, reported, raced, torn>>

-----------------------------------------------------------------------------
(* Inodes that nobody holds.  That a number is not given out again while a *)
(* session remembers it is an assumption: connect() compares numbers that  *)
(* it read before it had the file open.                                    *)

Held == ({live} \cup {ws[w].conn : w \in Writers} \cup {ws[w].id : w \in Writers}
         \cup {jobs[j].rollback : j \in Jobs}) \ {None}

\* A new file with content c takes the path; a file that nobody holds is gone.
Put(c) ==
    \E i \in Inodes \ Held :
        /\ \A n \in Inodes \ Held : i <= n
        /\ live' = i
        /\ file' = [n \in Inodes |-> IF n = i THEN c ELSE IF n \in Held THEN file[n] ELSE Empty]

\* initialize, of a store that is not there
Initialize ==
    /\ live = None
    /\ Put(Empty)
    /\ UNCHANGED <<wal, ws, jobs, backups, stale, issued, reported, raced, torn, faults>>

-----------------------------------------------------------------------------
(* create_backup.                                                          *)

NoBackup == [state |-> "none", img |-> Empty, signed |-> FALSE]

IdleJob == [pc |-> "idle", src |-> None, safety |-> None, rollback |-> None,
            signed |-> FALSE, pinned |-> None]

MayStart(j) == ~torn /\ jobs[j].pc = "idle" /\ (Exclusive => \A i \in Jobs : jobs[i].pc = "idle")

\* The command signs when the ledger has rows as it starts.
StartBackup(j) ==
    /\ MayStart(j)
    /\ live # None
    /\ \E k \in Backups :
         /\ backups[k].state = "none"
         /\ jobs' = [jobs EXCEPT ![j] = [IdleJob EXCEPT !.pc = "snapshot", !.src = k,
                                           !.signed = (Live.ledger # {})]]
    /\ UNCHANGED <<file, live, wal, ws, backups, stale, issued, reported, raced, torn, faults>>

\* Mutant of SnapshotOf: the database file is copied without its log.
SnapshotOfFile(i) == file[i]

\* SQLite's backup interface reads through the log.
SnapshotOf(i) == View(i)

Target(j) == IF jobs[j].safety # None THEN jobs[j].safety ELSE jobs[j].src

\* snapshot_payload: a plain connection replays what a crash left, the copy is
\* inspected and then published create-new.
Snapshot(j) ==
    /\ jobs[j].pc = "snapshot"
    /\ live # None
    /\ LET img == SnapshotOf(live)
       IN IF Inspected(img)
          THEN /\ backups' = [backups EXCEPT ![Target(j)] =
                                [state |-> "bare", img |-> img, signed |-> jobs[j].signed]]
               /\ jobs' = [jobs EXCEPT ![j].pc = "seal"]
          ELSE /\ jobs' = [jobs EXCEPT ![j] = IdleJob]
               /\ UNCHANGED backups
    /\ CloseLast(live, Writers)
    /\ UNCHANGED <<live, ws, stale, issued, reported, raced, faults>>

\* The receipt makes the copy a backup; a restore goes on.
Seal(j) ==
    /\ jobs[j].pc = "seal"
    /\ backups' = [backups EXCEPT ![Target(j)].state = "sealed"]
    /\ jobs' = [jobs EXCEPT ![j] = IF jobs[j].safety = None THEN IdleJob
                                   ELSE [@ EXCEPT !.pc = "link"]]
    /\ UNCHANGED <<file, live, wal, ws, stale, issued, reported, raced, torn, faults>>

\* The operator does not sign, or the receipt cannot be written.
SealFails(j) ==
    /\ jobs[j].pc = "seal"
    /\ backups' = [backups EXCEPT ![Target(j)] = NoBackup]
    /\ jobs' = [jobs EXCEPT ![j] = IdleJob]
    /\ UNCHANGED <<file, live, wal, ws, stale, issued, reported, raced, torn, faults>>

Expire(k) ==
    /\ ~torn
    /\ backups[k].state = "sealed" /\ backups[k].signed
    /\ k \notin stale
    /\ stale' = stale \cup {k}
    /\ UNCHANGED <<file, live, wal, ws, jobs, backups, issued, reported, raced, torn, faults>>

-----------------------------------------------------------------------------
(* restore_backup.                                                         *)

\* connect() succeeds: sidecars without frames, and the pinned versions.
Connectable == live # None /\ ~Frames /\ Pinned(View(live))

\* Mutant of HeadIsKept: the local head is not passed to the verification.
HeadIsAssumed(img) == TRUE

\* verify_authority_chain against the local head
HeadIsKept(img) == Live.ledger # {} => Head(Live) \in img.ledger

\* _verify_backup_authority: the checkpoint beside the copy is not too old, and its
\* chain holds the local head, if a store is there to have one.
AuthorityVerified(k) ==
    /\ k \notin stale
    /\ live # None => Connectable /\ HeadIsKept(backups[k].img)

\* A copy that carries authority is signed, one that carries none is not.
Verified(k) ==
    /\ backups[k].state = "sealed"
    /\ backups[k].signed <=> backups[k].img.ledger # {}
    /\ backups[k].signed => AuthorityVerified(k)

\* _logical_digest: the copy is an exact snapshot of the store.
ExactSnapshot(k, c) == backups[k].img = c

StartRestore(j) ==
    /\ MayStart(j)
    /\ \E k \in Backups :
         /\ Verified(k)
         /\ jobs' = [jobs EXCEPT ![j] = [IdleJob EXCEPT !.pc = "stage", !.src = k]]
    /\ UNCHANGED <<file, live, wal, ws, backups, stale, issued, reported, raced, torn, faults>>

\* The private copy is made and compared; a store with sidecars is left alone.
Stage(j) ==
    /\ jobs[j].pc = "stage"
    /\ \/ /\ live = None
          /\ jobs' = [jobs EXCEPT ![j].pc = "replace"]
       \/ /\ live # None /\ wal.present
          /\ jobs' = [jobs EXCEPT ![j] = IdleJob]
       \/ /\ live # None /\ ~wal.present
          /\ \E k \in Backups :
               /\ backups[k].state = "none"
               /\ jobs' = [jobs EXCEPT ![j].pc = "snapshot", ![j].safety = k]
    /\ UNCHANGED <<file, live, wal, ws, backups, stale, issued, reported, raced, torn, faults>>

\* The way back is a hard link.  The copy that the code falls back to where links
\* are refused is not reached on one file system: the safety backup has just been
\* published with a link of its own.
Link(j) ==
    /\ jobs[j].pc = "link"
    /\ jobs' = [jobs EXCEPT ![j].pc = "replace", ![j].rollback = live]
    /\ UNCHANGED <<file, live, wal, ws, backups, stale, issued, reported, raced, torn, faults>>

Replace(j) ==
    /\ jobs[j].pc = "replace"
    /\ Put(backups[jobs[j].src].img)
    /\ jobs' = [jobs EXCEPT ![j].pc = "inspect"]
    /\ UNCHANGED <<wal, ws, backups, stale, issued, reported, raced, torn, faults>>

\* Back to the old file, from under whatever session has found the new one.
RollBack(j) ==
    /\ live' = jobs[j].rollback
    /\ torn' = (torn \/ ~({wal.of} \cup {ws[w].conn : w \in Writers}
                          \subseteq {None, jobs[j].rollback}))

\* Sidecars beside the new file, whoever made them, or an inspection that fails for
\* any other reason.
InspectReplaced(j) ==
    /\ jobs[j].pc = "inspect"
    /\ \/ wal.present /\ RollBack(j) /\ UNCHANGED faults
       \/ ~wal.present /\ UNCHANGED <<live, torn, faults>>
       \/ ~wal.present /\ faults < MaxFaults /\ faults' = faults + 1 /\ RollBack(j)
    /\ jobs' = [jobs EXCEPT ![j] = IdleJob]
    /\ UNCHANGED <<file, wal, ws, backups, stale, issued, reported, raced>>

-----------------------------------------------------------------------------
(* Migrations and recovery.                                                *)

\* The gate, the verified backup and the comparison of logical digests of
\* apply_semantic_migration.
StartMigration(j) ==
    /\ MayStart(j)
    /\ live # None /\ ~wal.present
    /\ file[live].meta = "old"
    /\ \E k \in Backups :
         /\ Verified(k)
         /\ ExactSnapshot(k, file[live])
         /\ jobs' = [jobs EXCEPT ![j] = [IdleJob EXCEPT !.pc = "pin", !.src = k]]
    /\ UNCHANGED <<file, live, wal, ws, backups, stale, issued, reported, raced, torn, faults>>

\* original_physical_sha, and the candidate made from the backup
PinLive(j) ==
    /\ jobs[j].pc = "pin"
    /\ jobs' = [jobs EXCEPT ![j].pc = "recheck", ![j].pinned = file[live]]
    /\ UNCHANGED <<file, live, wal, ws, backups, stale, issued, reported, raced, torn, faults>>

RecheckLive(j) ==
    /\ jobs[j].pc = "recheck"
    /\ jobs' = [jobs EXCEPT ![j] = IF file[live] = jobs[j].pinned
                                   THEN [@ EXCEPT !.pc = "swap", !.pinned = None] ELSE IdleJob]
    /\ UNCHANGED <<file, live, wal, ws, backups, stale, issued, reported, raced, torn, faults>>

\* replace_private: no look at sidecars, before or after.
Swap(j) ==
    /\ jobs[j].pc = "swap"
    /\ Put([backups[jobs[j].src].img EXCEPT !.meta = "current"])
    /\ jobs' = [jobs EXCEPT ![j] = IdleJob]
    /\ UNCHANGED <<wal, ws, backups, stale, issued, reported, raced, torn, faults>>

\* MigrationRunner.apply: one transaction of the live store, against a backup
\* that is its exact logical snapshot.
ApplyMigration(j) ==
    /\ MayStart(j)
    /\ Connectable /\ ~Locked
    /\ \E k \in Backups : Verified(k) /\ ExactSnapshot(k, View(live))
    /\ LET img == [View(live) EXCEPT !.meta = "next"]
       IN IF \E w \in Writers : Reading(w)
          THEN wal' = [present |-> TRUE, of |-> live, img |-> img] /\ UNCHANGED file
          ELSE wal' = NoWal /\ file' = [file EXCEPT ![live] = img]
    /\ UNCHANGED <<live, ws, jobs, backups, stale, issued, reported, raced, torn, faults>>

\* recover: with every other connection closed, the log is replayed and the database
\* leaves WAL mode.  Some builds of SQLite leave a sidecar behind, as here; a crash
\* where none is left is one after the sidecars were retired.
Recover(j) ==
    /\ MayStart(j)
    /\ live # None /\ wal.present
    /\ ~\E w \in Writers : Reading(w)
    /\ Pinned(View(live))
    /\ file' = [file EXCEPT ![live] = View(live)]
    /\ wal' = [NoWal EXCEPT !.present = TRUE]
    /\ jobs' = [jobs EXCEPT ![j].pc = "retire"]
    /\ UNCHANGED <<live, ws, backups, stale, issued, reported, raced, torn, faults>>

\* Its connection is closed by now: what is left beside the path is unlinked if it has
\* no frames, be it of a session that has opened the store meanwhile, whose log then
\* has no name that the next one could find it by.
RetireSidecars(j) ==
    /\ jobs[j].pc = "retire"
    /\ jobs' = [jobs EXCEPT ![j] = IdleJob]
    /\ IF Frames THEN UNCHANGED <<wal, torn>>
       ELSE /\ wal' = NoWal
            /\ torn' = (torn \/ \E w \in Writers : Reading(w))
    /\ UNCHANGED <<file, live, ws, backups, stale, issued, reported, raced, faults>>

JobCrash(j) ==
    /\ jobs[j].pc # "idle"
    /\ faults < MaxFaults
    /\ faults' = faults + 1
    /\ torn' = (torn \/ jobs[j].pc = "inspect")
    /\ jobs' = [jobs EXCEPT ![j] = IdleJob]
    /\ UNCHANGED <<file, live, wal, ws, backups, stale, issued, reported, raced>>

-----------------------------------------------------------------------------

\* A store of this version, one of an earlier version with its rows, or a new
\* machine with the backups of a lost one.
Init ==
    /\ \E c \in {Empty} \cup {[Empty EXCEPT !.rows = {r}, !.meta = "old"] : r \in Captures} :
         /\ file = [n \in Inodes |-> IF n = 1 THEN c ELSE Empty]
         /\ reported = c.rows
         /\ \/ live = 1 /\ backups = [k \in Backups |-> NoBackup]
            \/ /\ live = None
               /\ backups = [k \in Backups |-> [NoBackup EXCEPT !.state = "sealed", !.img = c]]
    /\ wal = NoWal
    /\ ws = [w \in Writers |-> IdleWriter]
    /\ jobs = [j \in Jobs |-> IdleJob]
    /\ stale = {} /\ issued = {} /\ raced = {}
    /\ torn = FALSE
    /\ faults = 0

Session(w) ==
    \/ Preflight(w) \/ Open(w) \/ VerifyHandle(w) \/ CommitGroup(w) \/ EndGroup(w)
    \/ Recheck(w) \/ CommitCommand(w) \/ Close(w) \/ WriterCrash(w)

Maintenance(j) ==
    \/ StartBackup(j) \/ Snapshot(j) \/ Seal(j) \/ SealFails(j)
    \/ StartRestore(j) \/ Stage(j) \/ Link(j) \/ Replace(j) \/ InspectReplaced(j)
    \/ StartMigration(j) \/ PinLive(j) \/ RecheckLive(j) \/ Swap(j)
    \/ ApplyMigration(j) \/ Recover(j) \/ RetireSidecars(j) \/ JobCrash(j)

Next ==
    \/ \E w \in Writers : Session(w)
    \/ \E j \in Jobs : Maintenance(j)
    \/ \E k \in Backups : Expire(k)
    \/ Initialize

Spec == Init /\ [][Next]_vars

-----------------------------------------------------------------------------
(* Properties.                                                             *)

\* Every variable keeps to its domain: in particular no copy of a version that
\* restore_backup would refuse is ever published as a backup.
TypeOK ==
    /\ file \in [Inodes -> Content]
    /\ live \in Inodes \cup {None}
    /\ wal \in [present : BOOLEAN, of : Inodes \cup {None}, img : Content \cup {None}]
    /\ ws \in [Writers -> [pc : {"idle", "checked", "opened", "ready", "commit", "exit", "close"},
                           id : Inodes \cup {None}, conn : Inodes \cup {None},
                           wrote : Rows \cup {None}, ok : BOOLEAN]]
    /\ jobs \in [Jobs -> [pc : {"idle", "snapshot", "seal", "stage", "link", "replace", "inspect",
                                "pin", "recheck", "swap", "retire"},
                          src : Backups \cup {None}, safety : Backups \cup {None},
                          rollback : Inodes \cup {None}, signed : BOOLEAN,
                          pinned : Content \cup {None}]]
    /\ backups \in [Backups -> [state : {"none", "bare", "sealed"},
                                img : {c \in Content : c.meta # "next"}, signed : BOOLEAN]]
    /\ stale \subseteq Backups
    /\ issued \subseteq Events
    /\ reported \subseteq Rows
    /\ raced \subseteq Rows
    /\ torn \in BOOLEAN
    /\ faults \in 0..MaxFaults

Copies == {backups[k].img : k \in {b \in Backups : backups[b].state = "sealed"}}

\* A row whose writer was told that it is committed is in the store or in a backup
\* with its receipt, however sessions, crashes, restores and migrations follow
\* each other: what a restore or a migration takes away is in a backup first.
\* The exceptions are a commit between a replacement's last look and the
\* replacement, and a log that two inodes shared.
NothingLost ==
    torn \/ reported \subseteq All(Live) \cup (UNION {All(c) : c \in Copies}) \cup raced

\* Frames in the log are those of a session on the inode at the path, so that no
\* later open replays them into another database: but while a restore has still
\* to inspect what it replaced, died before it could, or rolled back a file that a
\* session had opened in between.
LogIsOfLive ==
    Frames /\ ~torn /\ (\A j \in Jobs : jobs[j].pc # "inspect") => wal.of = live

Without(c, d) == c.ledger \ d.ledger

\* No restore, migration or recovery takes an authority event out of the store:
\* but one that was committed after the verification had read the local head, or into
\* a log that two inodes shared; all of them when the backup has no ledger of its own,
\* where nothing is compared; and, until a restore has inspected what it replaced, those
\* that it has brought itself, which its way back takes along.
LedgerKept ==
    [][\A e \in Without(Live, Live') :
         \/ torn' \/ e \in raced
         \/ \E j \in Jobs : /\ jobs[j].pc \in {"replace", "inspect"}
                            /\ backups[jobs[j].src].img.ledger = {}
         \/ \E j \in Jobs : jobs[j].pc = "inspect" /\ e \in backups[jobs[j].src].img.ledger]_vars

=============================================================================
