-------------------------- MODULE StoreFileProofs --------------------------
(***************************************************************************)
(* Proofs about StoreFile, for maintenance commands that do not overlap:   *)
(* what a session was told is committed survives every restore, migration  *)
(* and recovery, the log belongs to the file at the path, and the          *)
(* authority ledger only grows.                                            *)
(***************************************************************************)
EXTENDS StoreFile, TLAPS

Logs == [present : BOOLEAN, of : Inodes \cup {None}, img : Content \cup {None}]

Sessions == [pc : {"idle", "checked", "opened", "ready", "commit", "exit", "close"},
             id : Inodes \cup {None}, conn : Inodes \cup {None},
             wrote : Rows \cup {None}, ok : BOOLEAN]

Commands == [pc : {"idle", "snapshot", "seal", "stage", "link", "replace", "inspect",
                   "pin", "recheck", "swap", "retire"},
             src : Backups \cup {None}, safety : Backups \cup {None},
             rollback : Inodes \cup {None}, signed : BOOLEAN,
             pinned : Content \cup {None}]

Images == {c \in Content : c.meta # "next"}
Archive == [state : {"none", "bare", "sealed"}, img : Images, signed : BOOLEAN]

Typed ==
    /\ file \in [Inodes -> Content] /\ live \in Inodes \cup {None} /\ wal \in Logs
    /\ ws \in [Writers -> Sessions] /\ jobs \in [Jobs -> Commands]
    /\ backups \in [Backups -> Archive]
    /\ stale \subseteq Backups /\ issued \subseteq Events /\ reported \subseteq Rows
    /\ raced \subseteq Rows /\ torn \in BOOLEAN /\ faults \in 0..MaxFaults

LEMMA TypesAgree == (TypeOK <=> Typed) /\ (TypeOK' <=> Typed')
  BY DEF TypeOK, Typed, Logs, Sessions, Commands, Archive, Images

LEMMA Types ==
    ASSUME TypeOK
    PROVE  /\ file \in [Inodes -> Content] /\ live \in Inodes \cup {None} /\ wal \in Logs
           /\ ws \in [Writers -> Sessions] /\ jobs \in [Jobs -> Commands]
           /\ backups \in [Backups -> Archive]
           /\ stale \subseteq Backups /\ issued \subseteq Events /\ reported \subseteq Rows
           /\ raced \subseteq Rows /\ torn \in BOOLEAN /\ faults \in 0..MaxFaults
  BY TypesAgree DEF Typed

LEMMA Named ==
    /\ None \notin Inodes /\ None \notin Backups /\ None \notin Rows /\ None \notin Content
    /\ None \notin Writers /\ None \notin Jobs /\ 1 \in Inodes
    /\ Events \subseteq Nat
    /\ Captures \subseteq Rows /\ Events \subseteq Rows
  BY StoreFileAssumption DEF Inodes, Events, Rows

LEMMA Bounds == MaxFaults \in Nat /\ 0 \in 0..MaxFaults
  <1>1. MaxFaults \in Nat
    BY StoreFileAssumption
  <1> QED
    BY <1>1

LEMMA EmptyType == Empty \in Images /\ Empty.rows = {} /\ Empty.ledger = {} /\ Empty.meta = "current"
  BY DEF Empty, Images, Content

LEMMA IdleTypes ==
    /\ IdleWriter \in Sessions /\ IdleJob \in Commands /\ NoBackup \in Archive /\ NoWal \in Logs
  BY EmptyType DEF IdleWriter, IdleJob, NoBackup, NoWal, Sessions, Commands, Archive, Logs

\* What a connection to an inode reads, and what the path holds, is content.
LEMMA ViewType ==
    ASSUME TypeOK
    PROVE  /\ \A i \in Inodes : View(i) \in Content
           /\ Live \in Content
  <1>1. \A i \in Inodes : View(i) \in Content
    BY Types DEF View, Frames, Logs
  <1>2. Live \in Content
    BY <1>1, Types, EmptyType DEF Live, Images
  <1> QED
    BY <1>1, <1>2

-----------------------------------------------------------------------------
(* Shapes.  A session that is open has its inode; a command has its        *)
(* backups, in the state that its place implies, and is the only one.      *)

Shaped(r) ==
    /\ r.pc \in {"idle", "checked"} => r.conn = None /\ r.wrote = None
    /\ r.pc \notin {"idle", "checked"} => r.conn \in Inodes
    /\ r.pc # "idle" => r.id \in Inodes

SessionShape == \A w \in Writers : Shaped(ws[w])

TargetOf(r) == IF r.safety # None THEN r.safety ELSE r.src

\* For the record r of a command, the backups b and the path l.
CommandShape(r, b, l) ==
    /\ r.pc = "idle" => r = IdleJob
    /\ r.pc \notin {"idle", "retire"} => r.src \in Backups
    /\ r.pc = "snapshot" => b[TargetOf(r)].state = "none"
    /\ r.pc = "seal" => b[TargetOf(r)].state = "bare"
    /\ r.pc \notin {"idle", "retire", "snapshot", "seal"} \/ r.safety # None => b[r.src].state = "sealed"
    /\ r.safety # None => r.pc \in {"snapshot", "seal", "link", "replace", "inspect"}
    /\ r.pc = "link" => r.safety # None
    /\ r.pc \in {"pin", "recheck", "swap", "inspect"} => l # None

JobShape == \A j \in Jobs : CommandShape(jobs[j], backups, live)

OneCommand == \A i, j \in Jobs : jobs[i].pc # "idle" /\ jobs[j].pc # "idle" => i = j

ShapeInv == TypeOK /\ SessionShape /\ JobShape /\ OneCommand

LEMMA InitShape == Init => ShapeInv
  <1> SUFFICES ASSUME Init PROVE ShapeInv
    OBVIOUS
  <1>1. PICK c \in {Empty} \cup {[Empty EXCEPT !.rows = {r}, !.meta = "old"] : r \in Captures} :
         /\ file = [n \in Inodes |-> IF n = 1 THEN c ELSE Empty]
         /\ reported = c.rows
         /\ \/ live = 1 /\ backups = [k \in Backups |-> NoBackup]
            \/ /\ live = None
               /\ backups = [k \in Backups |-> [NoBackup EXCEPT !.state = "sealed", !.img = c]]
    BY DEF Init
  <1>2. c \in Images /\ c.rows \subseteq Captures
    <2>1. CASE c = Empty
      BY <2>1, EmptyType
    <2>2. ASSUME NEW r \in Captures, c = [Empty EXCEPT !.rows = {r}, !.meta = "old"]
          PROVE  c \in Images /\ c.rows \subseteq Captures
      <3>1. c = [rows |-> {r}, ledger |-> {}, meta |-> "old"]
        BY <2>2 DEF Empty
      <3> QED
        BY <3>1 DEF Images, Content
    <2> QED
      BY <2>1, <2>2
  <1>3. backups \in [Backups -> Archive]
    <2>1. [NoBackup EXCEPT !.state = "sealed", !.img = c] \in Archive
      BY <1>2, IdleTypes DEF Archive
    <2> QED
      BY <1>1, <2>1, IdleTypes
  <1>4. file \in [Inodes -> Content]
    BY <1>1, <1>2, EmptyType DEF Images
  <1>5. /\ wal = NoWal /\ ws = [w \in Writers |-> IdleWriter] /\ jobs = [j \in Jobs |-> IdleJob]
        /\ stale = {} /\ issued = {} /\ raced = {} /\ torn = FALSE /\ faults = 0
    BY DEF Init
  <1>6. live \in Inodes \cup {None} /\ reported \subseteq Rows
    BY <1>1, <1>2, Named
  <1>7. TypeOK
    <2>1. ws \in [Writers -> Sessions] /\ jobs \in [Jobs -> Commands] /\ wal \in Logs
      BY <1>5, IdleTypes
    <2>2. faults \in 0..MaxFaults
      <3>1. faults = 0
        BY <1>5
      <3> QED
        BY <3>1, Bounds
    <2>3. /\ stale \subseteq Backups /\ issued \subseteq Events /\ raced \subseteq Rows
          /\ torn \in BOOLEAN
      BY <1>5
    <2> QED
      BY <1>3, <1>4, <1>6, <2>1, <2>2, <2>3, TypesAgree DEF Typed
  <1>8. SessionShape
    BY <1>5 DEF SessionShape, Shaped, IdleWriter
  <1>9. JobShape /\ OneCommand
    BY <1>5 DEF JobShape, CommandShape, OneCommand, IdleJob
  <1> QED
    BY <1>7, <1>8, <1>9 DEF ShapeInv

LEMMA SetSession ==
    ASSUME TypeOK, SessionShape, NEW w \in Writers, NEW r \in Sessions, Shaped(r),
           ws' = [ws EXCEPT ![w] = r]
    PROVE  /\ ws' \in [Writers -> Sessions] /\ SessionShape'
           /\ \A v \in Writers : ws'[v] = IF v = w THEN r ELSE ws[v]
  <1>1. ws \in [Writers -> Sessions]
    BY Types
  <1>2. \A v \in Writers : ws'[v] = IF v = w THEN r ELSE ws[v]
    BY <1>1
  <1> QED
    BY <1>1, <1>2 DEF SessionShape

\* The record of the session that moves, for each of its steps.
Moved(w, r) ==
    \/ Preflight(w) /\ r = [IdleWriter EXCEPT !.pc = "checked", !.id = live]
    \/ Open(w) /\ r = IF live = None THEN IdleWriter ELSE [ws[w] EXCEPT !.pc = "opened", !.conn = live]
    \/ VerifyHandle(w) /\ r = [ws[w] EXCEPT !.pc = IF Pinned(View(ws[w].conn)) /\ SamePath(w)
                                                   THEN "ready" ELSE "close"]
    \/ CommitGroup(w) /\ \E c \in Captures : r = [ws[w] EXCEPT !.pc = "exit", !.wrote = c]
    \/ EndGroup(w) /\ r = [ws[w] EXCEPT !.pc = "close", !.ok = SamePath(w)]
    \/ Recheck(w) /\ r = [ws[w] EXCEPT !.pc = IF SamePath(w) THEN "commit" ELSE "close"]
    \/ /\ CommitCommand(w)
       /\ \/ \E e \in Events : r = [ws[w] EXCEPT !.pc = "close", !.wrote = e, !.ok = TRUE]
          \/ r = [ws[w] EXCEPT !.pc = "close"]
    \/ (Close(w) \/ WriterCrash(w)) /\ r = IdleWriter

LEMMA SessionMoves ==
    ASSUME TypeOK, NEW w \in Writers, Session(w)
    PROVE  \E r : Moved(w, r) /\ ws' = [ws EXCEPT ![w] = r]
  <1>1. CASE Preflight(w)
    BY <1>1 DEF Preflight, Moved
  <1>2. CASE Open(w)
    BY <1>2 DEF Open, Moved
  <1>3. CASE VerifyHandle(w)
    BY <1>3 DEF VerifyHandle, Moved
  <1>4. CASE CommitGroup(w)
    <2>1. PICK c \in Captures : ws' = [ws EXCEPT ![w].pc = "exit", ![w].wrote = c]
      BY <1>4 DEF CommitGroup
    <2>2. ws' = [ws EXCEPT ![w] = [ws[w] EXCEPT !.pc = "exit", !.wrote = c]]
      BY <2>1, Types
    <2> QED
      BY <1>4, <2>2 DEF Moved
  <1>5. CASE EndGroup(w)
    <2>1. ws' = [ws EXCEPT ![w] = [ws[w] EXCEPT !.pc = "close", !.ok = SamePath(w)]]
      BY <1>5, Types DEF EndGroup
    <2> QED
      BY <1>5, <2>1 DEF Moved
  <1>6. CASE Recheck(w)
    BY <1>6 DEF Recheck, Moved
  <1>7. CASE CommitCommand(w)
    <2>1. ASSUME NEW e \in Events,
                 ws' = [ws EXCEPT ![w].pc = "close", ![w].wrote = e, ![w].ok = TRUE]
          PROVE  \E r : Moved(w, r) /\ ws' = [ws EXCEPT ![w] = r]
      <3>1. ws' = [ws EXCEPT ![w] = [ws[w] EXCEPT !.pc = "close", !.wrote = e, !.ok = TRUE]]
        BY <2>1, Types
      <3> QED
        BY <1>7, <3>1 DEF Moved
    <2>2. CASE ws' = [ws EXCEPT ![w].pc = "close"]
      BY <1>7, <2>2 DEF Moved
    <2> QED
      BY <1>7, <2>1, <2>2 DEF CommitCommand
  <1>8. CASE Close(w) \/ WriterCrash(w)
    BY <1>8 DEF Close, WriterCrash, Moved
  <1> QED
    BY <1>1, <1>2, <1>3, <1>4, <1>5, <1>6, <1>7, <1>8 DEF Session

LEMMA MovedType ==
    ASSUME TypeOK, SessionShape, NEW w \in Writers, NEW r, Moved(w, r)
    PROVE  r \in Sessions /\ Shaped(r)
  <1>0. ws[w] \in Sessions /\ Shaped(ws[w]) /\ live \in Inodes \cup {None}
    BY Types DEF SessionShape
  <1>1. CASE Preflight(w) /\ r = [IdleWriter EXCEPT !.pc = "checked", !.id = live]
    <2>1. live \in Inodes
      BY <1>0, <1>1 DEF Preflight
    <2>2. r.pc = "checked" /\ r.id = live /\ r.conn = None /\ r.wrote = None
      BY <1>1 DEF IdleWriter
    <2> QED
      BY <1>1, <2>1, <2>2, IdleTypes DEF Sessions, Shaped
  <1>2. CASE r = IdleWriter
    BY <1>2, IdleTypes DEF IdleWriter, Shaped
  <1>3. CASE Open(w) /\ live # None /\ r = [ws[w] EXCEPT !.pc = "opened", !.conn = live]
    <2>1. live \in Inodes /\ ws[w].pc = "checked"
      BY <1>0, <1>3 DEF Open
    <2>2. r.pc = "opened" /\ r.id = ws[w].id /\ r.conn = live
      BY <1>0, <1>3 DEF Sessions
    <2> QED
      BY <1>0, <1>3, <2>1, <2>2 DEF Sessions, Shaped
  <1>4. ASSUME ws[w].pc \notin {"idle", "checked"}, NEW p \in {"ready", "commit", "close"},
               r = [ws[w] EXCEPT !.pc = p]
        PROVE  r \in Sessions /\ Shaped(r)
    <2>1. r.pc = p /\ r.id = ws[w].id /\ r.conn = ws[w].conn
      BY <1>0, <1>4 DEF Sessions
    <2> QED
      BY <1>0, <1>4, <2>1 DEF Sessions, Shaped
  <1>5. ASSUME CommitGroup(w), NEW c \in Captures, r = [ws[w] EXCEPT !.pc = "exit", !.wrote = c]
        PROVE  r \in Sessions /\ Shaped(r)
    <2>1. r.pc = "exit" /\ r.id = ws[w].id /\ r.conn = ws[w].conn /\ r.wrote = c
      BY <1>0, <1>5 DEF Sessions
    <2>2. ws[w].pc = "ready"
      BY <1>5 DEF CommitGroup
    <2>3. r \in Sessions
      BY <1>0, <1>5, Named DEF Sessions
    <2> QED
      BY <1>0, <2>1, <2>2, <2>3 DEF Shaped
  <1>6. ASSUME EndGroup(w), r = [ws[w] EXCEPT !.pc = "close", !.ok = SamePath(w)]
        PROVE  r \in Sessions /\ Shaped(r)
    <2>1. r.pc = "close" /\ r.id = ws[w].id /\ r.conn = ws[w].conn
      BY <1>0, <1>6 DEF Sessions
    <2>2. ws[w].pc = "exit" /\ SamePath(w) \in BOOLEAN
      BY <1>6 DEF EndGroup, SamePath
    <2>3. r \in Sessions
      BY <1>0, <1>6, <2>2 DEF Sessions
    <2> QED
      BY <1>0, <2>1, <2>2, <2>3 DEF Shaped
  <1>7. ASSUME CommitCommand(w), NEW e \in Events,
               r = [ws[w] EXCEPT !.pc = "close", !.wrote = e, !.ok = TRUE]
        PROVE  r \in Sessions /\ Shaped(r)
    <2>1. r.pc = "close" /\ r.id = ws[w].id /\ r.conn = ws[w].conn
      BY <1>0, <1>7 DEF Sessions
    <2>2. ws[w].pc = "commit"
      BY <1>7 DEF CommitCommand
    <2>3. r \in Sessions
      BY <1>0, <1>7, Named DEF Sessions
    <2> QED
      BY <1>0, <2>1, <2>2, <2>3 DEF Shaped
  <1>8. VerifyHandle(w) \/ Recheck(w) \/ CommitCommand(w) => ws[w].pc \in {"opened", "ready", "commit"}
    BY DEF VerifyHandle, Recheck, CommitCommand
  <1> QED
    BY <1>1, <1>2, <1>3, <1>4, <1>5, <1>6, <1>7, <1>8 DEF Moved

LEMMA SessionKeeps ==
    ASSUME NEW w \in Writers, Session(w)
    PROVE  UNCHANGED <<live, jobs, backups, stale>>
  BY DEF Session, Preflight, Open, VerifyHandle, CommitGroup, EndGroup, Recheck, CommitCommand,
         Close, WriterCrash

\* The image that a transaction of w appends, and the row it adds.
Appended(w, img, row) ==
    /\ Commit(w, img, row) /\ ws[w].pc \in {"ready", "commit"}
    /\ \/ /\ row \in Captures /\ img = [View(ws[w].conn) EXCEPT !.rows = @ \cup {row}]
          /\ UNCHANGED issued
       \/ /\ row \in Events \ issued /\ \A d \in Events : d < row => d \in issued
          /\ img = [View(ws[w].conn) EXCEPT !.ledger = @ \cup {row}]
          /\ issued' = issued \cup {row}

LEMMA AppendedType ==
    ASSUME TypeOK, SessionShape, NEW w \in Writers, NEW img, NEW row, Appended(w, img, row)
    PROVE  LET c == View(ws[w].conn) IN
           /\ ws[w].conn \in Inodes /\ img \in Content /\ row \in Rows
           /\ All(img) = All(c) \cup {row} /\ img.meta = c.meta
           /\ img.ledger = c.ledger \/ (row \in Events /\ img.ledger = c.ledger \cup {row})
           /\ issued \subseteq issued' /\ issued' \subseteq Events
  <1> DEFINE c == View(ws[w].conn)
  <1>1. ws[w].conn \in Inodes
    BY DEF SessionShape, Shaped, Appended
  <1>2. c \in Content /\ issued \subseteq Events
    BY <1>1, ViewType, Types
  <1>3. \/ row \in Captures /\ img = [c EXCEPT !.rows = @ \cup {row}] /\ UNCHANGED issued
        \/ /\ row \in Events /\ img = [c EXCEPT !.ledger = @ \cup {row}]
           /\ issued' = issued \cup {row}
    BY DEF Appended
  <1> HIDE DEF c
  <1>4. CASE row \in Captures /\ img = [c EXCEPT !.rows = @ \cup {row}] /\ UNCHANGED issued
    <2>1. img.rows = c.rows \cup {row} /\ img.ledger = c.ledger /\ img.meta = c.meta /\ img \in Content
      BY <1>2, <1>4 DEF Content
    <2> QED
      BY <1>1, <1>2, <1>4, <2>1, Named DEF All, c
  <1>5. CASE row \in Events /\ img = [c EXCEPT !.ledger = @ \cup {row}] /\ issued' = issued \cup {row}
    <2>1. img.rows = c.rows /\ img.ledger = c.ledger \cup {row} /\ img.meta = c.meta /\ img \in Content
      BY <1>2, <1>5 DEF Content
    <2> QED
      BY <1>1, <1>2, <1>5, <2>1, Named DEF All, c
  <1> QED
    BY <1>3, <1>4, <1>5

LEMMA AppendedLog ==
    ASSUME TypeOK, SessionShape, NEW w \in Writers, NEW img, NEW row, Appended(w, img, row)
    PROVE  /\ wal' \in Logs /\ wal'.present /\ wal'.of = ws[w].conn /\ wal'.img = img /\ Frames'
           /\ raced \subseteq raced' /\ raced' \subseteq Rows
           /\ row \in raced' \/ \A j \in Jobs : ~Window(j) /\ (row \in Events => ~Restoring(j))
  <1>1. ws[w].conn \in Inodes /\ img \in Content /\ row \in Rows
    BY AppendedType
  <1>2. /\ wal' = [present |-> TRUE, of |-> ws[w].conn, img |-> img]
        /\ raced' = IF \E j \in Jobs : Window(j) \/ (row \in Events /\ Restoring(j))
                    THEN raced \cup {row} ELSE raced
    BY DEF Appended, Commit
  <1>3. wal' \in Logs /\ wal'.present /\ wal'.of = ws[w].conn /\ wal'.img = img
    BY <1>1, <1>2 DEF Logs
  <1>4. Frames'
    BY <1>1, <1>3, Named DEF Frames
  <1>5. raced \subseteq Rows
    BY Types
  <1> QED
    BY <1>1, <1>2, <1>3, <1>4, <1>5

\* What a session does to the log: nothing, it makes sure that it is there, a transaction
\* appends to it, or the session closes.
LEMMA SessionLog ==
    ASSUME TypeOK, NEW w \in Writers, Session(w)
    PROVE  \/ /\ UNCHANGED <<file, wal, torn, raced, issued, reported>>
              /\ ws'[w].wrote \in {ws[w].wrote, None}
           \/ VerifyHandle(w)
           \/ \E img, row : /\ Appended(w, img, row) /\ ws'[w].wrote = row
                            /\ UNCHANGED <<file, torn, reported>>
           \/ Close(w)
  <1>0. ws \in [Writers -> Sessions] /\ IdleWriter.wrote = None
    BY Types DEF IdleWriter
  <1>1. CASE CommitGroup(w)
    <2>1. PICK c \in Captures : /\ Commit(w, [View(ws[w].conn) EXCEPT !.rows = @ \cup {c}], c)
                                /\ ws' = [ws EXCEPT ![w].pc = "exit", ![w].wrote = c]
      BY <1>1 DEF CommitGroup
    <2>2. Appended(w, [View(ws[w].conn) EXCEPT !.rows = @ \cup {c}], c)
      BY <1>1, <2>1 DEF CommitGroup, Appended
    <2>3. ws'[w].wrote = c
      BY <1>0, <2>1 DEF Sessions
    <2>4. UNCHANGED <<file, torn, reported>>
      BY <1>1 DEF CommitGroup
    <2> QED
      BY <2>2, <2>3, <2>4
  <1>2. CASE CommitCommand(w)
    <2>1. UNCHANGED <<file, torn, reported>> /\ ws[w].pc = "commit"
      BY <1>2 DEF CommitCommand
    <2>2. ASSUME NEW e \in Events, e \notin issued, \A d \in Events : d < e => d \in issued,
                 Commit(w, [View(ws[w].conn) EXCEPT !.ledger = @ \cup {e}], e),
                 issued' = issued \cup {e},
                 ws' = [ws EXCEPT ![w].pc = "close", ![w].wrote = e, ![w].ok = TRUE]
          PROVE  \E img, row : /\ Appended(w, img, row) /\ ws'[w].wrote = row
                               /\ UNCHANGED <<file, torn, reported>>
      <3>1. Appended(w, [View(ws[w].conn) EXCEPT !.ledger = @ \cup {e}], e)
        BY <2>1, <2>2 DEF Appended
      <3>2. ws'[w].wrote = e
        BY <1>0, <2>2 DEF Sessions
      <3> QED
        BY <2>1, <3>1, <3>2
    <2>3. CASE UNCHANGED <<wal, raced, issued>> /\ ws' = [ws EXCEPT ![w].pc = "close"]
      <3>1. ws'[w].wrote = ws[w].wrote
        BY <1>0, <2>3 DEF Sessions
      <3> QED
        BY <2>1, <2>3, <3>1
    <2> QED
      BY <1>2, <2>2, <2>3 DEF CommitCommand
  <1>3. CASE Preflight(w) \/ Open(w) \/ EndGroup(w) \/ Recheck(w) \/ WriterCrash(w)
    <2>1. UNCHANGED <<file, wal, torn, raced, issued, reported>>
      BY <1>3 DEF Preflight, Open, EndGroup, Recheck, WriterCrash
    <2>2. CASE Preflight(w) \/ WriterCrash(w)
      <3>1. \E r \in {IdleWriter, [IdleWriter EXCEPT !.pc = "checked", !.id = live]} :
               ws' = [ws EXCEPT ![w] = r]
        BY <2>2 DEF Preflight, WriterCrash
      <3>2. \A r \in {IdleWriter, [IdleWriter EXCEPT !.pc = "checked", !.id = live]} : r.wrote = None
        BY <1>0, IdleTypes DEF Sessions
      <3>3. ws'[w].wrote = None
        BY <1>0, <3>1, <3>2
      <3> QED
        BY <2>1, <3>3
    <2>3. CASE Open(w)
      <3>1. ws'[w] = IdleWriter \/ ws'[w] = [ws[w] EXCEPT !.pc = "opened", !.conn = live]
        BY <1>0, <2>3 DEF Open
      <3>2. [ws[w] EXCEPT !.pc = "opened", !.conn = live].wrote = ws[w].wrote
        BY <1>0 DEF Sessions
      <3> QED
        BY <1>0, <2>1, <3>1, <3>2
    <2>4. CASE EndGroup(w)
      <3>1. ws'[w] = [ws[w] EXCEPT !.pc = "close", !.ok = SamePath(w)]
        BY <1>0, <2>4 DEF EndGroup
      <3>2. ws'[w].wrote = ws[w].wrote
        BY <1>0, <3>1 DEF Sessions
      <3> QED
        BY <2>1, <3>2
    <2>5. CASE Recheck(w)
      <3>1. ws'[w].wrote = ws[w].wrote
        BY <1>0, <2>5 DEF Recheck, Sessions
      <3> QED
        BY <2>1, <3>1
    <2> QED
      BY <1>3, <2>2, <2>3, <2>4, <2>5
  <1> QED
    BY <1>1, <1>2, <1>3 DEF Session

LEMMA CloseType ==
    ASSUME TypeOK, NEW i \in Inodes, NEW S, CloseLast(i, S)
    PROVE  file' \in [Inodes -> Content] /\ wal' \in Logs /\ torn' \in BOOLEAN
  <1>1. file \in [Inodes -> Content] /\ wal \in Logs
    BY Types
  <1>2. (file' = file /\ wal' = wal) \/ (wal' = NoWal /\ file' = IF Frames THEN [file EXCEPT ![i] = wal.img] ELSE file)
    BY DEF CloseLast, Checkpoint
  <1>3. torn' \in BOOLEAN
    BY DEF CloseLast
  <1>4. Frames => wal.img \in Content
    BY <1>1 DEF Frames, Logs
  <1> QED
    BY <1>1, <1>2, <1>3, <1>4, IdleTypes

LEMMA SessionType ==
    ASSUME TypeOK, SessionShape, NEW w \in Writers, Session(w)
    PROVE  TypeOK' /\ SessionShape'
  <1>0. UNCHANGED <<live, jobs, backups, stale>>
    BY SessionKeeps
  <1>1. ws' \in [Writers -> Sessions] /\ SessionShape'
    BY SessionMoves, MovedType, SetSession
  <1>2. faults' \in 0..MaxFaults
    <2>1. faults' = faults \/ (faults < MaxFaults /\ faults' = faults + 1)
      BY DEF Session, Preflight, Open, VerifyHandle, CommitGroup, EndGroup, Recheck, CommitCommand,
             Close, WriterCrash
    <2> QED
      BY <2>1, Types, Bounds
  <1>3. CASE UNCHANGED <<file, wal, torn, raced, issued, reported>>
    BY <1>0, <1>1, <1>2, <1>3, Types, TypesAgree DEF Typed
  <1>4. CASE VerifyHandle(w)
    <2>1. UNCHANGED <<file, torn, raced, issued, reported>> /\ wal' = [wal EXCEPT !.present = TRUE]
      BY <1>4 DEF VerifyHandle
    <2>2. wal' \in Logs
      BY <2>1, Types DEF Logs
    <2> QED
      BY <1>0, <1>1, <1>2, <2>1, <2>2, Types, TypesAgree DEF Typed
  <1>5. ASSUME NEW img, NEW row, Appended(w, img, row), UNCHANGED <<file, torn, reported>>
        PROVE  TypeOK'
    BY <1>0, <1>1, <1>2, <1>5, AppendedType, AppendedLog, Types, TypesAgree DEF Typed
  <1>6. CASE Close(w)
    <2>1. ws[w].conn \in Inodes /\ ws[w].wrote \in Rows \cup {None}
      BY <1>6, Types DEF Close, SessionShape, Shaped, Sessions
    <2>2. file' \in [Inodes -> Content] /\ wal' \in Logs /\ torn' \in BOOLEAN
      BY <1>6, <2>1, CloseType DEF Close
    <2>3. UNCHANGED <<issued, raced>> /\ reported' \subseteq Rows
      BY <1>6, <2>1, Types DEF Close
    <2> QED
      BY <1>0, <1>1, <1>2, <2>2, <2>3, Types, TypesAgree DEF Typed
  <1> QED
    BY <1>1, <1>3, <1>4, <1>5, <1>6, SessionLog

LEMMA IdleShape ==
    ASSUME NEW b, NEW l
    PROVE  CommandShape(IdleJob, b, l) /\ IdleJob.pc = "idle" /\ IdleJob.safety = None
  <1>1. IdleJob.pc = "idle" /\ IdleJob.safety = None
    BY DEF IdleJob
  <1> QED
    BY <1>1 DEF CommandShape

LEMMA NoWalEmpty == NoWal.img = None /\ NoWal.of = None /\ ~NoWal.present
  BY DEF NoWal

LEMMA SetJob ==
    ASSUME TypeOK, NEW j \in Jobs, NEW r \in Commands, jobs' = [jobs EXCEPT ![j] = r]
    PROVE  /\ jobs' \in [Jobs -> Commands]
           /\ \A i \in Jobs : jobs'[i] = IF i = j THEN r ELSE jobs[i]
  BY Types

\* While a command moves, every other one is idle.
LEMMA OthersIdle ==
    ASSUME Exclusive, ShapeInv, NEW j \in Jobs, Maintenance(j), NEW i \in Jobs, i # j
    PROVE  jobs[i] = IdleJob
  <1>1. jobs[j].pc # "idle" \/ MayStart(j)
    BY DEF Maintenance, StartBackup, Snapshot, Seal, SealFails, StartRestore, Stage, Link, Replace,
           InspectReplaced, StartMigration, PinLive, RecheckLive, Swap, ApplyMigration, Recover, RetireSidecars, JobCrash
  <1>2. jobs[i].pc = "idle"
    BY <1>1 DEF MayStart, ShapeInv, OneCommand
  <1> QED
    BY <1>2 DEF ShapeInv, JobShape, CommandShape

LEMMA MaintenanceKeeps ==
    ASSUME NEW j \in Jobs, Maintenance(j)
    PROVE  UNCHANGED <<ws, stale, issued, reported, raced>>
  BY DEF Maintenance, StartBackup, Snapshot, Seal, SealFails, StartRestore, Stage, Link, Replace,
         InspectReplaced, StartMigration, PinLive, RecheckLive, Swap, ApplyMigration, Recover, RetireSidecars, JobCrash

LEMMA TargetIs == \A j \in Jobs : Target(j) = TargetOf(jobs[j])
  BY DEF Target, TargetOf

\* The commands that only move on: the file, its path and its log stay as they are.
QuietStep(j) ==
    \/ StartBackup(j) \/ Seal(j) \/ SealFails(j) \/ StartRestore(j) \/ Stage(j) \/ Link(j)
    \/ StartMigration(j) \/ PinLive(j) \/ RecheckLive(j) \/ JobCrash(j)

\* What a command leaves of its own record and of the backups.
Advanced(j, r) ==
    r \in Commands /\ CommandShape(r, backups', live') /\ jobs' = [jobs EXCEPT ![j] = r]

LEMMA StartAdvances ==
    ASSUME ShapeInv, NEW j \in Jobs, NEW k \in Backups, NEW r \in Commands, UNCHANGED <<backups, live>>,
           jobs' = [jobs EXCEPT ![j] = r], r.src = k, r.safety = None,
           \/ r.pc = "snapshot" /\ backups[k].state = "none"
           \/ r.pc = "stage" /\ backups[k].state = "sealed"
           \/ r.pc = "pin" /\ backups[k].state = "sealed" /\ live # None
    PROVE  Advanced(j, r)
  BY DEF Advanced, CommandShape, TargetOf

LEMMA QuietAdvances ==
    ASSUME ShapeInv, NEW j \in Jobs, QuietStep(j)
    PROVE  (\E r : Advanced(j, r)) /\ backups' \in [Backups -> Archive]
  <1>0. /\ jobs \in [Jobs -> Commands] /\ backups \in [Backups -> Archive]
        /\ live \in Inodes \cup {None} /\ file \in [Inodes -> Content]
        /\ CommandShape(jobs[j], backups, live) /\ jobs[j] \in Commands
    BY Types DEF ShapeInv, JobShape
  <1>1. CASE StartBackup(j)
    <2>1. PICK k \in Backups :
            /\ backups[k].state = "none"
            /\ jobs' = [jobs EXCEPT ![j] = [IdleJob EXCEPT !.pc = "snapshot", !.src = k,
                                              !.signed = (Live.ledger # {})]]
      BY <1>1 DEF StartBackup
    <2> DEFINE r == [IdleJob EXCEPT !.pc = "snapshot", !.src = k, !.signed = (Live.ledger # {})]
    <2>2. r \in Commands
      BY IdleTypes DEF Commands
    <2>3. r.pc = "snapshot" /\ r.src = k /\ r.safety = None
      BY DEF IdleJob
    <2>4. UNCHANGED <<backups, live>>
      BY <1>1 DEF StartBackup
    <2> HIDE DEF r
    <2>5. Advanced(j, r)
      BY <2>1, <2>2, <2>3, <2>4, StartAdvances DEF r
    <2> QED
      BY <1>0, <2>4, <2>5
  <1>2. CASE StartRestore(j)
    <2>1. PICK k \in Backups :
            /\ Verified(k) /\ jobs' = [jobs EXCEPT ![j] = [IdleJob EXCEPT !.pc = "stage", !.src = k]]
      BY <1>2 DEF StartRestore
    <2> DEFINE r == [IdleJob EXCEPT !.pc = "stage", !.src = k]
    <2>2. r \in Commands
      BY IdleTypes DEF Commands
    <2>3. r.pc = "stage" /\ r.src = k /\ r.safety = None
      BY DEF IdleJob
    <2>4. UNCHANGED <<backups, live>> /\ backups[k].state = "sealed"
      BY <1>2, <2>1 DEF StartRestore, Verified
    <2> HIDE DEF r
    <2>5. Advanced(j, r)
      BY <2>1, <2>2, <2>3, <2>4, StartAdvances DEF r
    <2> QED
      BY <1>0, <2>4, <2>5
  <1>3. CASE StartMigration(j)
    <2>1. PICK k \in Backups :
            /\ Verified(k) /\ jobs' = [jobs EXCEPT ![j] = [IdleJob EXCEPT !.pc = "pin", !.src = k]]
      BY <1>3 DEF StartMigration
    <2> DEFINE r == [IdleJob EXCEPT !.pc = "pin", !.src = k]
    <2>2. r \in Commands
      BY IdleTypes DEF Commands
    <2>3. r.pc = "pin" /\ r.src = k /\ r.safety = None
      BY DEF IdleJob
    <2>4. UNCHANGED <<backups, live>> /\ backups[k].state = "sealed" /\ live # None
      BY <1>3, <2>1 DEF StartMigration, Verified
    <2> HIDE DEF r
    <2>5. Advanced(j, r)
      BY <2>1, <2>2, <2>3, <2>4, StartAdvances DEF r
    <2> QED
      BY <1>0, <2>4, <2>5
  <1>4. ASSUME jobs' = [jobs EXCEPT ![j] = IdleJob] PROVE Advanced(j, IdleJob)
    BY <1>4, IdleShape, IdleTypes DEF Advanced
  <1>5. CASE JobCrash(j)
    BY <1>0, <1>4, <1>5 DEF JobCrash
  <1>6. CASE Seal(j)
    <2>1. /\ jobs[j].pc = "seal" /\ Target(j) \in Backups /\ backups[Target(j)].state = "bare"
      BY <1>0, <1>6, TargetIs DEF Seal, CommandShape, TargetOf, Commands
    <2>2. backups' = [backups EXCEPT ![Target(j)].state = "sealed"] /\ live' = live
      BY <1>6 DEF Seal
    <2>3. /\ backups' \in [Backups -> Archive]
          /\ \A k \in Backups : backups'[k].state = IF k = Target(j) THEN "sealed" ELSE backups[k].state
      BY <1>0, <2>1, <2>2 DEF Archive
    <2>4. CASE jobs[j].safety = None
      BY <1>4, <1>6, <2>3, <2>4 DEF Seal
    <2>5. CASE jobs[j].safety # None
      <3> DEFINE r == [jobs[j] EXCEPT !.pc = "link"]
      <3>1. jobs' = [jobs EXCEPT ![j] = r]
        BY <1>6, <2>5 DEF Seal
      <3>2. r \in Commands /\ r.pc = "link" /\ r.src = jobs[j].src /\ r.safety = jobs[j].safety
        BY <1>0 DEF Commands
      <3> HIDE DEF r
      <3>3. jobs[j].src \in Backups /\ backups[jobs[j].src].state = "sealed"
        BY <1>0, <2>1, <2>5 DEF CommandShape
      <3>4. CommandShape(r, backups', live')
        BY <2>3, <2>5, <3>2, <3>3 DEF CommandShape
      <3> QED
        BY <2>3, <3>1, <3>2, <3>4 DEF Advanced
    <2> QED
      BY <2>4, <2>5
  <1>7. CASE SealFails(j)
    <2>1. Target(j) \in Backups
      BY <1>0, <1>7, TargetIs DEF SealFails, CommandShape, TargetOf, Commands
    <2>2. backups' \in [Backups -> Archive]
      BY <1>0, <1>7, <2>1, IdleTypes DEF SealFails
    <2> QED
      BY <1>4, <1>7, <2>2 DEF SealFails
  <1>8. CASE Stage(j)
    <2>1. /\ UNCHANGED <<backups, live>> /\ jobs[j].pc = "stage"
          /\ jobs[j].src \in Backups /\ backups[jobs[j].src].state = "sealed" /\ jobs[j].safety = None
      BY <1>0, <1>8 DEF Stage, CommandShape
    <2>2. CASE jobs' = [jobs EXCEPT ![j].pc = "replace"]
      <3> DEFINE r == [jobs[j] EXCEPT !.pc = "replace"]
      <3>1. jobs' = [jobs EXCEPT ![j] = r]
        BY <2>2
      <3>2. r \in Commands /\ r.pc = "replace" /\ r.src = jobs[j].src /\ r.safety = jobs[j].safety
        BY <1>0 DEF Commands
      <3> HIDE DEF r
      <3>3. CommandShape(r, backups', live')
        BY <2>1, <3>2 DEF CommandShape
      <3> QED
        BY <1>0, <2>1, <3>1, <3>2, <3>3 DEF Advanced
    <2>3. CASE jobs' = [jobs EXCEPT ![j] = IdleJob]
      BY <1>0, <1>4, <2>1, <2>3
    <2>4. ASSUME NEW k \in Backups, backups[k].state = "none",
                 jobs' = [jobs EXCEPT ![j].pc = "snapshot", ![j].safety = k]
          PROVE  \E r : Advanced(j, r)
      <3> DEFINE r == [jobs[j] EXCEPT !.pc = "snapshot", !.safety = k]
      <3>1. jobs' = [jobs EXCEPT ![j] = r]
        BY <1>0, <2>4
      <3>2. r \in Commands /\ r.pc = "snapshot" /\ r.src = jobs[j].src /\ r.safety = k
        BY <1>0 DEF Commands
      <3> HIDE DEF r
      <3>3. CommandShape(r, backups', live')
        BY <2>1, <2>4, <3>2, Named DEF CommandShape, TargetOf
      <3> QED
        BY <3>1, <3>2, <3>3 DEF Advanced
    <2> QED
      BY <1>0, <1>8, <2>1, <2>2, <2>3, <2>4 DEF Stage
  <1>9. CASE Link(j)
    <2> DEFINE r == [jobs[j] EXCEPT !.pc = "replace", !.rollback = live]
    <2>1. UNCHANGED <<backups, live>> /\ jobs[j].pc = "link"
      BY <1>9 DEF Link
    <2>2. jobs' = [jobs EXCEPT ![j] = r]
      BY <1>0, <1>9 DEF Link
    <2>3. r \in Commands /\ r.pc = "replace" /\ r.src = jobs[j].src /\ r.safety = jobs[j].safety
      BY <1>0 DEF Commands
    <2> HIDE DEF r
    <2>4. CommandShape(r, backups', live')
      BY <1>0, <2>1, <2>3 DEF CommandShape
    <2> QED
      BY <1>0, <2>1, <2>2, <2>3, <2>4 DEF Advanced
  <1>10. CASE PinLive(j)
    <2> DEFINE r == [jobs[j] EXCEPT !.pc = "recheck", !.pinned = file[live]]
    <2>1. UNCHANGED <<backups, live>> /\ jobs[j].pc = "pin"
      BY <1>10 DEF PinLive
    <2>2. jobs' = [jobs EXCEPT ![j] = r]
      BY <1>0, <1>10 DEF PinLive
    <2>3. live \in Inodes
      BY <1>0, <2>1 DEF CommandShape
    <2>4. r \in Commands /\ r.pc = "recheck" /\ r.src = jobs[j].src /\ r.safety = jobs[j].safety
      BY <1>0, <2>3 DEF Commands
    <2> HIDE DEF r
    <2>5. CommandShape(r, backups', live')
      BY <1>0, <2>1, <2>4 DEF CommandShape
    <2> QED
      BY <1>0, <2>1, <2>2, <2>4, <2>5 DEF Advanced
  <1>11. CASE RecheckLive(j)
    <2>1. UNCHANGED <<backups, live>> /\ jobs[j].pc = "recheck"
      BY <1>11 DEF RecheckLive
    <2>2. CASE file[live] = jobs[j].pinned
      <3> DEFINE r == [jobs[j] EXCEPT !.pc = "swap", !.pinned = None]
      <3>1. jobs' = [jobs EXCEPT ![j] = r]
        BY <1>11, <2>2 DEF RecheckLive
      <3>2. r \in Commands /\ r.pc = "swap" /\ r.src = jobs[j].src /\ r.safety = jobs[j].safety
        BY <1>0 DEF Commands
      <3> HIDE DEF r
      <3>3. CommandShape(r, backups', live')
        BY <1>0, <2>1, <3>2 DEF CommandShape
      <3> QED
        BY <1>0, <2>1, <3>1, <3>2, <3>3 DEF Advanced
    <2>3. CASE file[live] # jobs[j].pinned
      BY <1>0, <1>4, <1>11, <2>1, <2>3 DEF RecheckLive
    <2> QED
      BY <2>2, <2>3
  <1> QED
    BY <1>1, <1>2, <1>3, <1>5, <1>6, <1>7, <1>8, <1>9, <1>10, <1>11 DEF QuietStep

\* A file that takes the path has a number that nobody holds.
LEMMA PutEffect ==
    ASSUME TypeOK, NEW c \in Content, Put(c)
    PROVE  /\ live' \in Inodes /\ file' \in [Inodes -> Content] /\ file'[live'] = c
           /\ live' # live /\ \A w \in Writers : live' # ws[w].id /\ live' # ws[w].conn
           /\ \A w \in Writers : ws[w].conn \in Inodes => file'[ws[w].conn] = file[ws[w].conn]
           /\ \A i \in Inodes : i # live' => file'[i] \in {file[i], Empty}
  <1>1. PICK i \in Inodes \ Held :
            /\ live' = i
            /\ file' = [n \in Inodes |-> IF n = i THEN c ELSE IF n \in Held THEN file[n] ELSE Empty]
    BY DEF Put
  <1>2. i # live /\ \A w \in Writers : i # ws[w].id /\ i # ws[w].conn
    BY <1>1, Named DEF Held
  <1>3. \A w \in Writers : ws[w].conn \in Inodes => ws[w].conn \in Held
    BY Named DEF Held
  <1>4. file \in [Inodes -> Content] /\ Empty \in Content
    BY Types, EmptyType DEF Images
  <1> QED
    BY <1>1, <1>2, <1>3, <1>4

LEMMA LoudAdvances ==
    ASSUME ShapeInv, NEW j \in Jobs,
           Snapshot(j) \/ Replace(j) \/ InspectReplaced(j) \/ Swap(j)
    PROVE  /\ \E r : Advanced(j, r)
           /\ backups' \in [Backups -> Archive] /\ file' \in [Inodes -> Content] /\ wal' \in Logs
           /\ live' \in Inodes \cup {None} /\ torn' \in BOOLEAN /\ faults' \in 0..MaxFaults
  <1>0. /\ jobs \in [Jobs -> Commands] /\ backups \in [Backups -> Archive]
        /\ live \in Inodes \cup {None} /\ file \in [Inodes -> Content] /\ wal \in Logs
        /\ CommandShape(jobs[j], backups, live) /\ jobs[j] \in Commands /\ torn \in BOOLEAN
        /\ TypeOK /\ faults \in 0..MaxFaults
    BY Types DEF ShapeInv, JobShape
  <1>1. ASSUME jobs' = [jobs EXCEPT ![j] = IdleJob] PROVE Advanced(j, IdleJob)
    BY <1>1, IdleShape, IdleTypes DEF Advanced
  <1>2. CASE Snapshot(j)
    <2> DEFINE img == SnapshotOf(live)
    <2>1. /\ jobs[j].pc = "snapshot" /\ live \in Inodes /\ live' = live /\ faults' = faults
          /\ CloseLast(live, Writers)
      BY <1>0, <1>2 DEF Snapshot
    <2>2. file' \in [Inodes -> Content] /\ wal' \in Logs /\ torn' \in BOOLEAN
      BY <1>0, <2>1, CloseType
    <2>3. Target(j) \in Backups /\ Target(j) = TargetOf(jobs[j]) /\ img \in Content
      BY <1>0, <2>1, TargetIs, ViewType DEF CommandShape, TargetOf, Commands, SnapshotOf
    <2>4. \/ /\ Inspected(img)
             /\ backups' = [backups EXCEPT ![Target(j)] =
                                [state |-> "bare", img |-> img, signed |-> jobs[j].signed]]
             /\ jobs' = [jobs EXCEPT ![j].pc = "seal"]
          \/ jobs' = [jobs EXCEPT ![j] = IdleJob] /\ backups' = backups
      BY <1>2 DEF Snapshot
    <2> HIDE DEF img
    <2>5. CASE jobs' = [jobs EXCEPT ![j] = IdleJob] /\ backups' = backups
      BY <1>0, <1>1, <2>1, <2>2, <2>5
    <2>6. CASE /\ Inspected(img)
               /\ backups' = [backups EXCEPT ![Target(j)] =
                                [state |-> "bare", img |-> img, signed |-> jobs[j].signed]]
               /\ jobs' = [jobs EXCEPT ![j].pc = "seal"]
      <3> DEFINE r == [jobs[j] EXCEPT !.pc = "seal"]
                 b == [state |-> "bare", img |-> img, signed |-> jobs[j].signed]
      <3>1. b \in Archive /\ b.state = "bare"
        BY <1>0, <2>3, <2>6 DEF Archive, Images, Inspected, Commands
      <3> HIDE DEF b
      <3>2. /\ backups' \in [Backups -> Archive]
            /\ \A k \in Backups : backups'[k] = IF k = Target(j) THEN b ELSE backups[k]
        BY <1>0, <2>3, <2>6, <3>1 DEF b
      <3>3. jobs' = [jobs EXCEPT ![j] = r]
        BY <2>6
      <3>4. r \in Commands /\ r.pc = "seal" /\ r.src = jobs[j].src /\ r.safety = jobs[j].safety
        BY <1>0 DEF Commands
      <3> HIDE DEF r
      <3>5. TargetOf(r) = Target(j)
        BY <2>3, <3>4 DEF TargetOf
      <3>6. CommandShape(r, backups', live')
        <4>1. r.safety # None => backups'[r.src].state = "sealed"
          <5> SUFFICES ASSUME r.safety # None PROVE backups'[r.src].state = "sealed"
            OBVIOUS
          <5>1. backups[r.src].state = "sealed" /\ r.src \in Backups
            BY <1>0, <2>1, <3>4 DEF CommandShape
          <5>2. backups[Target(j)].state = "none"
            BY <1>0, <2>1, <2>3 DEF CommandShape
          <5> QED
            BY <3>2, <5>1, <5>2
        <4> QED
          BY <1>0, <2>1, <2>3, <3>1, <3>2, <3>4, <3>5, <4>1 DEF CommandShape
      <3> QED
        <4>1. Advanced(j, r)
          BY <3>3, <3>4, <3>6 DEF Advanced
        <4> QED
          BY <1>0, <2>1, <2>2, <3>2, <4>1
    <2> QED
      BY <2>4, <2>5, <2>6
  <1>3. CASE Replace(j)
    <2>1. /\ jobs[j].pc = "replace" /\ jobs[j].src \in Backups
          /\ UNCHANGED <<wal, backups, torn, faults>>
      BY <1>0, <1>3 DEF Replace, CommandShape
    <2>2. backups[jobs[j].src].img \in Content
      BY <1>0, <2>1 DEF Archive, Images
    <2>3. live' \in Inodes /\ file' \in [Inodes -> Content]
      BY <1>0, <1>3, <2>2, PutEffect DEF Replace
    <2> DEFINE r == [jobs[j] EXCEPT !.pc = "inspect"]
    <2>4. jobs' = [jobs EXCEPT ![j] = r]
      BY <1>3 DEF Replace
    <2>5. r \in Commands /\ r.pc = "inspect" /\ r.src = jobs[j].src /\ r.safety = jobs[j].safety
      BY <1>0 DEF Commands
    <2> HIDE DEF r
    <2>6. CommandShape(r, backups', live')
      BY <1>0, <2>1, <2>3, <2>5, Named DEF CommandShape
    <2> QED
      BY <1>0, <2>1, <2>3, <2>4, <2>5, <2>6 DEF Advanced
  <1>4. CASE InspectReplaced(j)
    <2>1. UNCHANGED <<file, wal, backups>> /\ torn' \in BOOLEAN
      BY <1>0, <1>4 DEF InspectReplaced, RollBack
    <2>2. live' \in Inodes \cup {None}
      BY <1>0, <1>4 DEF InspectReplaced, RollBack, Commands
    <2>3. faults' = faults \/ (faults < MaxFaults /\ faults' = faults + 1)
      BY <1>4 DEF InspectReplaced
    <2>4. faults' \in 0..MaxFaults
      BY <1>0, <2>3, Bounds
    <2> QED
      BY <1>0, <1>1, <1>4, <2>1, <2>2, <2>4 DEF InspectReplaced
  <1>5. CASE Swap(j)
    <2> DEFINE c == [backups[jobs[j].src].img EXCEPT !.meta = "current"]
    <2>1. jobs[j].src \in Backups /\ UNCHANGED <<wal, backups, torn, faults>> /\ Put(c)
      BY <1>0, <1>5 DEF Swap, CommandShape
    <2>2. backups[jobs[j].src].img \in Content
      BY <1>0, <2>1 DEF Archive, Images
    <2>3. c \in Content
      BY <2>2 DEF Content
    <2> HIDE DEF c
    <2>4. live' \in Inodes /\ file' \in [Inodes -> Content]
      BY <1>0, <2>1, <2>3, PutEffect
    <2> QED
      BY <1>0, <1>1, <1>5, <2>1, <2>4 DEF Swap
  <1> QED
    BY <1>2, <1>3, <1>4, <1>5

LEMMA StoreType ==
    ASSUME ShapeInv, NEW j \in Jobs, ApplyMigration(j)
    PROVE  /\ file' \in [Inodes -> Content] /\ wal' \in Logs
           /\ UNCHANGED <<live, jobs, backups, torn, faults>>
  <1>0. /\ live \in Inodes /\ file \in [Inodes -> Content] /\ wal \in Logs /\ TypeOK
    BY Types DEF ShapeInv, ApplyMigration, Connectable
  <1> DEFINE img == [View(live) EXCEPT !.meta = "next"]
  <1>1. View(live) \in Content
    BY <1>0, ViewType
  <1>2. img \in Content
    BY <1>1 DEF Content
  <1>3. /\ \/ wal' = [present |-> TRUE, of |-> live, img |-> img] /\ file' = file
           \/ wal' = NoWal /\ file' = [file EXCEPT ![live] = img]
        /\ UNCHANGED <<live, jobs, backups, torn, faults>>
    BY DEF ApplyMigration
  <1> HIDE DEF img
  <1>4. [present |-> TRUE, of |-> live, img |-> img] \in Logs
    BY <1>0, <1>2 DEF Logs
  <1> QED
    BY <1>0, <1>2, <1>3, <1>4, IdleTypes

Recovers(j) == Recover(j) \/ RetireSidecars(j)

\* The log has no frames any more; if it had, they are in the file at the path.
Emptied ==
    /\ wal'.img = None /\ wal'.of = None
    /\ \A i \in Inodes : file'[i] = file[i] \/ (Frames /\ file'[i] = wal.img)
    /\ live # None => file'[live] = View(live)

LEMMA RecoveryStep ==
    ASSUME ShapeInv, NEW j \in Jobs, Recovers(j)
    PROVE  /\ UNCHANGED <<live, ws, backups, reported, raced, faults>>
           /\ file' \in [Inodes -> Content] /\ wal' \in Logs /\ torn' \in BOOLEAN
           /\ (\E r : Advanced(j, r)) /\ jobs'[j].pc \in {"idle", "retire"}
           /\ UNCHANGED <<file, wal>> \/ Emptied
           /\ torn' \/ (UNCHANGED <<file, wal>> \/ \A w \in Writers : ~Reading(w))
  <1>0. /\ live \in Inodes \cup {None} /\ file \in [Inodes -> Content] /\ wal \in Logs /\ TypeOK
        /\ jobs \in [Jobs -> Commands] /\ jobs[j] \in Commands /\ torn \in BOOLEAN
        /\ CommandShape(jobs[j], backups, live)
    BY Types DEF ShapeInv, JobShape
  <1>1. CASE Recover(j)
    <2>1. /\ live \in Inodes /\ file' = [file EXCEPT ![live] = View(live)]
          /\ wal' = [NoWal EXCEPT !.present = TRUE] /\ \A w \in Writers : ~Reading(w)
          /\ jobs' = [jobs EXCEPT ![j].pc = "retire"] /\ jobs[j].pc = "idle"
          /\ UNCHANGED <<live, ws, backups, reported, raced, torn, faults>>
      BY <1>0, <1>1 DEF Recover, MayStart
    <2>2. View(live) \in Content
      BY <1>0, <2>1, ViewType
    <2>3. wal' \in Logs /\ wal'.img = None /\ wal'.of = None
      BY <2>1 DEF Logs, NoWal
    <2>4. Emptied
      BY <1>0, <2>1, <2>3 DEF Emptied, View
    <2> DEFINE r == [jobs[j] EXCEPT !.pc = "retire"]
    <2>5. jobs[j] = IdleJob
      BY <1>0, <2>1 DEF CommandShape
    <2>6. r \in Commands /\ r.pc = "retire" /\ r.safety = None /\ jobs' = [jobs EXCEPT ![j] = r]
      BY <1>0, <2>1, <2>5, IdleShape DEF Commands
    <2> HIDE DEF r
    <2>7. Advanced(j, r)
      BY <2>6 DEF Advanced, CommandShape
    <2> QED
      BY <1>0, <2>1, <2>2, <2>3, <2>4, <2>6, <2>7
  <1>2. CASE RetireSidecars(j)
    <2>1. /\ jobs' = [jobs EXCEPT ![j] = IdleJob] /\ file' = file
          /\ UNCHANGED <<live, ws, backups, reported, raced, faults>>
          /\ \/ UNCHANGED <<wal, torn>>
             \/ ~Frames /\ wal' = NoWal /\ torn' = (torn \/ \E w \in Writers : Reading(w))
      BY <1>2 DEF RetireSidecars
    <2>2. Advanced(j, IdleJob) /\ jobs'[j].pc = "idle"
      BY <1>0, <2>1, IdleShape, IdleTypes DEF Advanced
    <2>3. UNCHANGED <<file, wal>> \/ Emptied
      BY <2>1, NoWalEmpty DEF Emptied, View
    <2>4. wal' \in Logs /\ torn' \in BOOLEAN
      BY <1>0, <2>1, IdleTypes
    <2> QED
      BY <1>0, <2>1, <2>2, <2>3, <2>4
  <1> QED
    BY <1>1, <1>2 DEF Recovers

LEMMA NextShape == Exclusive /\ ShapeInv /\ [Next]_vars => ShapeInv'
  <1> SUFFICES ASSUME Exclusive, ShapeInv, [Next]_vars PROVE ShapeInv'
    OBVIOUS
  <1>0. TypeOK /\ SessionShape /\ JobShape /\ OneCommand
    BY DEF ShapeInv
  <1>1. ASSUME UNCHANGED <<jobs, backups>>, live # None => live' # None
        PROVE  JobShape' /\ OneCommand'
    <2>1. \A j \in Jobs : CommandShape(jobs[j], backups, live) => CommandShape(jobs[j], backups, live')
      BY <1>1 DEF CommandShape
    <2> QED
      BY <1>0, <1>1, <2>1 DEF JobShape, OneCommand
  <1>2. CASE UNCHANGED vars
    BY <1>0, <1>1, <1>2, Types, TypesAgree DEF vars, Typed, SessionShape, ShapeInv
  <1>3. ASSUME NEW w \in Writers, Session(w) PROVE ShapeInv'
    BY <1>0, <1>1, <1>3, SessionType, SessionKeeps DEF ShapeInv
  <1>4. ASSUME NEW j \in Jobs, Maintenance(j) PROVE ShapeInv'
    <2>1. UNCHANGED <<ws, stale, issued, reported, raced>> /\ SessionShape'
      BY <1>0, <1>4, MaintenanceKeeps DEF SessionShape
    <2>2. ASSUME NEW r, Advanced(j, r) PROVE JobShape' /\ OneCommand' /\ jobs' \in [Jobs -> Commands]
      <3>1. /\ jobs' \in [Jobs -> Commands]
            /\ \A i \in Jobs : jobs'[i] = IF i = j THEN r ELSE IdleJob
        BY <1>0, <1>4, <2>2, SetJob, OthersIdle DEF Advanced
      <3>2. JobShape'
        BY <2>2, <3>1, IdleShape DEF Advanced, JobShape
      <3>3. OneCommand'
        BY <3>1, IdleShape DEF OneCommand
      <3> QED
        BY <3>1, <3>2, <3>3
    <2>3. CASE QuietStep(j)
      <3>1. UNCHANGED <<file, live, wal>> /\ torn' \in BOOLEAN
        BY <1>0, <2>3, Types DEF QuietStep, StartBackup, Seal, SealFails, StartRestore, Stage, Link,
                     StartMigration, PinLive, RecheckLive, JobCrash
      <3>2. faults' = faults \/ (faults < MaxFaults /\ faults' = faults + 1)
        BY <2>3 DEF QuietStep, StartBackup, Seal, SealFails, StartRestore, Stage, Link,
                     StartMigration, PinLive, RecheckLive, JobCrash
      <3>3. faults' \in 0..MaxFaults
        BY <1>0, <3>2, Types, Bounds
      <3> QED
        BY <1>0, <2>1, <2>2, <2>3, <3>1, <3>3, QuietAdvances, Types, TypesAgree DEF Typed, ShapeInv
    <2>4. CASE Snapshot(j) \/ Replace(j) \/ InspectReplaced(j) \/ Swap(j)
      BY <1>0, <2>1, <2>2, <2>4, LoudAdvances, Types, TypesAgree DEF Typed, ShapeInv
    <2>5. CASE ApplyMigration(j)
      BY <1>0, <1>1, <2>1, <2>5, StoreType, Types, TypesAgree DEF Typed, ShapeInv
    <2>6. CASE Recovers(j)
      BY <1>0, <2>1, <2>2, <2>6, RecoveryStep, Types, TypesAgree DEF Typed, ShapeInv
    <2> QED
      BY <1>4, <2>3, <2>4, <2>5, <2>6 DEF Maintenance, QuietStep, Recovers
  <1>5. ASSUME NEW k \in Backups, Expire(k) PROVE ShapeInv'
    <2>1. /\ stale' = stale \cup {k}
          /\ UNCHANGED <<file, live, wal, ws, jobs, backups, issued, reported, raced, torn, faults>>
      BY <1>5 DEF Expire
    <2> QED
      BY <1>0, <1>1, <2>1, Types, TypesAgree DEF Typed, SessionShape, ShapeInv
  <1>6. CASE Initialize
    <2>1. UNCHANGED <<wal, ws, jobs, backups, stale, issued, reported, raced, torn, faults>>
      BY <1>6 DEF Initialize
    <2>2. live' \in Inodes /\ file' \in [Inodes -> Content]
      BY <1>0, <1>6, PutEffect, EmptyType DEF Initialize, Images
    <2> QED
      BY <1>0, <1>1, <2>1, <2>2, Named, Types, TypesAgree DEF Typed, SessionShape, ShapeInv
  <1> QED
    BY <1>2, <1>3, <1>4, <1>5, <1>6 DEF Next

\* Every variable of the store file keeps to its domain, while maintenance commands do not
\* overlap: in particular no copy that restore_backup would refuse is published.
THEOREM TypeCorrect == ASSUME Exclusive PROVE Spec => []TypeOK
  <1>1. ShapeInv => TypeOK
    BY DEF ShapeInv
  <1>2. ShapeInv /\ [Next]_vars => ShapeInv'
    BY NextShape
  <1> QED
    BY <1>1, <1>2, InitShape, PTL DEF Spec

-----------------------------------------------------------------------------
(* The log.  As long as no log was shared, a session that may write has    *)
(* the inode that it checked, and that one is at the path unless a restore *)
(* has still to inspect what it put there; a file that a migration will    *)
(* replace is of the old version, so that no session gets to write it.     *)

Inspecting == \E j \in Jobs : jobs[j].pc = "inspect"
Ready(w) == ws[w].pc \in {"ready", "commit"}
Migrating(j) == jobs[j].pc \in {"pin", "recheck", "swap"}

LogShape == (wal.img = None <=> wal.of = None) /\ (Frames => wal.present)

ReadersSeen == \A w \in Writers : Reading(w) => wal.present

SamePlace == \A w \in Writers : ws[w].id = live /\ ws[w].conn # None => ws[w].conn = live

ReadyOnPath ==
    \A w \in Writers : Ready(w) => ws[w].conn = ws[w].id /\ (Inspecting \/ ws[w].id = live)

OldFile ==
    \A j \in Jobs : Migrating(j) =>
        /\ ~Frames /\ \A w \in Writers : ~Ready(w)
        /\ file[live].meta = "old" /\ file[live] = backups[jobs[j].src].img

LogOfPath == Frames => Inspecting \/ wal.of = live

Untorn == ReadersSeen /\ SamePlace /\ ReadyOnPath /\ OldFile /\ LogOfPath

LogInv == LogShape /\ (torn \/ Untorn)

LEMMA InitLog == Init => LogInv
  <1> SUFFICES ASSUME Init PROVE LogInv
    OBVIOUS
  <1>1. wal = NoWal /\ ws = [w \in Writers |-> IdleWriter] /\ jobs = [j \in Jobs |-> IdleJob]
    BY DEF Init
  <1>2. wal.img = None /\ wal.of = None
    BY <1>1 DEF NoWal
  <1>3. \A w \in Writers : ws[w].pc = "idle" /\ ws[w].conn = None
    BY <1>1 DEF IdleWriter
  <1>4. \A j \in Jobs : jobs[j].pc = "idle"
    BY <1>1 DEF IdleJob
  <1> QED
    BY <1>2, <1>3, <1>4 DEF LogInv, LogShape, Untorn, Frames, ReadersSeen, SamePlace, ReadyOnPath, Ready,
                            OldFile, Migrating, LogOfPath, Reading

\* What a move of a session makes of its record: the session is none, it has the path at
\* hand, or it keeps what it had; only VerifyHandle lets it write.
LEMMA MovedFields ==
    ASSUME TypeOK, SessionShape, NEW w \in Writers, NEW r, Moved(w, r)
    PROVE  /\ \/ r.conn = None /\ r.pc \in {"idle", "checked"}
              \/ r.conn = live /\ r.id = ws[w].id /\ r.pc = "opened"
              \/ r.conn = ws[w].conn /\ r.id = ws[w].id /\ Reading(w)
              \/ r.conn = ws[w].conn /\ r.id = ws[w].id /\ VerifyHandle(w)
           /\ r.pc = "ready" => VerifyHandle(w) /\ ws[w].id = live /\ Pinned(View(ws[w].conn))
           /\ r.pc = "commit" => ws[w].pc = "ready"
  <1>0. ws[w] \in Sessions /\ Shaped(ws[w])
    BY Types DEF SessionShape
  <1>1. CASE Preflight(w) /\ r = [IdleWriter EXCEPT !.pc = "checked", !.id = live]
    <2>1. r.pc = "checked" /\ r.conn = None
      BY <1>1 DEF IdleWriter
    <2> QED
      BY <2>1
  <1>2. CASE r = IdleWriter
    BY <1>2 DEF IdleWriter
  <1>3. CASE Open(w) /\ live # None /\ r = [ws[w] EXCEPT !.pc = "opened", !.conn = live]
    <2>1. r.pc = "opened" /\ r.id = ws[w].id /\ r.conn = live
      BY <1>0, <1>3 DEF Sessions
    <2> QED
      BY <2>1
  <1>4. CASE VerifyHandle(w) /\ r = [ws[w] EXCEPT !.pc = IF Pinned(View(ws[w].conn)) /\ SamePath(w)
                                                   THEN "ready" ELSE "close"]
    <2>1. /\ r.pc = IF Pinned(View(ws[w].conn)) /\ SamePath(w) THEN "ready" ELSE "close"
          /\ r.id = ws[w].id /\ r.conn = ws[w].conn
      BY <1>0, <1>4 DEF Sessions
    <2> QED
      BY <1>4, <2>1 DEF SamePath
  <1>5. ASSUME CommitGroup(w), NEW c \in Captures, r = [ws[w] EXCEPT !.pc = "exit", !.wrote = c]
        PROVE  r.pc = "exit" /\ r.id = ws[w].id /\ r.conn = ws[w].conn /\ Reading(w)
    BY <1>0, <1>5 DEF Sessions, CommitGroup, Reading
  <1>6. ASSUME EndGroup(w), r = [ws[w] EXCEPT !.pc = "close", !.ok = SamePath(w)]
        PROVE  r.pc = "close" /\ r.id = ws[w].id /\ r.conn = ws[w].conn /\ Reading(w)
    BY <1>0, <1>6 DEF Sessions, EndGroup, Reading
  <1>7. ASSUME Recheck(w), r = [ws[w] EXCEPT !.pc = IF SamePath(w) THEN "commit" ELSE "close"]
        PROVE  /\ r.pc \in {"commit", "close"} /\ r.id = ws[w].id /\ r.conn = ws[w].conn
               /\ ws[w].pc = "ready" /\ Reading(w)
    BY <1>0, <1>7 DEF Sessions, Recheck, Reading
  <1>8. ASSUME CommitCommand(w), r = [ws[w] EXCEPT !.pc = "close"]
        PROVE  r.pc = "close" /\ r.id = ws[w].id /\ r.conn = ws[w].conn /\ Reading(w)
    BY <1>0, <1>8 DEF Sessions, CommitCommand, Reading
  <1>9. ASSUME CommitCommand(w), NEW e \in Events,
               r = [ws[w] EXCEPT !.pc = "close", !.wrote = e, !.ok = TRUE]
        PROVE  r.pc = "close" /\ r.id = ws[w].id /\ r.conn = ws[w].conn /\ Reading(w)
    BY <1>0, <1>9 DEF Sessions, CommitCommand, Reading
  <1> QED
    BY <1>1, <1>2, <1>3, <1>4, <1>5, <1>6, <1>7, <1>8, <1>9 DEF Moved

\* The last to close checkpoints, and nobody is left who reads: or a log was shared.
LEMMA CloseAlone ==
    ASSUME NEW i, NEW S, CloseLast(i, S), ~torn'
    PROVE  /\ ~torn /\ wal.of \in {i, None}
           /\ \/ UNCHANGED <<file, wal>>
              \/ /\ wal' = NoWal /\ file' = IF Frames THEN [file EXCEPT ![i] = wal.img] ELSE file
                 /\ \A v \in S : ~Reading(v)
  BY DEF CloseLast, Checkpoint

LEMMA TornStays ==
    ASSUME [Next]_vars, torn
    PROVE  torn'
  BY DEF Next, vars, Session, Preflight, Open, VerifyHandle, CommitGroup, EndGroup, Recheck,
         CommitCommand, Close, CloseLast, WriterCrash, Maintenance, StartBackup, Snapshot, Seal,
         SealFails, StartRestore, Stage, Link, Replace, InspectReplaced, RollBack, StartMigration,
         PinLive, RecheckLive, Swap, ApplyMigration, Recover, RetireSidecars, JobCrash, Expire, Initialize

LEMMA SessionLogInv ==
    ASSUME ShapeInv, LogInv, NEW w \in Writers, Session(w)
    PROVE  LogInv'
  <1>0. /\ TypeOK /\ SessionShape /\ UNCHANGED <<live, jobs, backups>>
        /\ ws \in [Writers -> Sessions] /\ wal \in Logs
    BY SessionKeeps, Types DEF ShapeInv
  <1>1. PICK r : Moved(w, r) /\ ws' = [ws EXCEPT ![w] = r]
    BY <1>0, SessionMoves
  <1>2. \A v \in Writers : ws'[v] = IF v = w THEN r ELSE ws[v]
    BY <1>0, <1>1
  <1>3. LogShape'
    <2>1. CASE UNCHANGED wal
      BY <2>1 DEF LogInv, LogShape, Frames
    <2>2. CASE VerifyHandle(w)
      <3>1. wal'.img = wal.img /\ wal'.of = wal.of /\ wal'.present
        BY <1>0, <2>2 DEF VerifyHandle, Logs
      <3> QED
        BY <3>1 DEF LogInv, LogShape, Frames
    <2>3. ASSUME NEW img, NEW row, Appended(w, img, row) PROVE LogShape'
      <3>1. wal'.of \in Inodes /\ wal'.img \in Content /\ wal'.present
        BY <1>0, <2>3, AppendedType, AppendedLog
      <3> QED
        BY <3>1, Named DEF LogShape
    <2>4. CASE Close(w)
      <3>1. UNCHANGED wal \/ wal' = NoWal
        BY <2>4 DEF Close, CloseLast, Checkpoint
      <3> QED
        BY <2>1, <3>1, NoWalEmpty DEF LogShape, Frames
    <2> QED
      BY <1>0, <2>1, <2>2, <2>3, <2>4, SessionLog
  <1>4. ASSUME ~torn' PROVE Untorn'
    <2>0. ~torn /\ Untorn
      BY <1>4, TornStays DEF LogInv, Next
    <2>1. Inspecting' <=> Inspecting
      BY <1>0 DEF Inspecting
    <2>2. SamePlace'
      BY <1>0, <1>1, <1>2, <2>0, MovedFields DEF Untorn, SamePlace
    <2>3. ReadyOnPath'
      <3>1. ASSUME r.pc \in {"ready", "commit"}
            PROVE  r.conn = r.id /\ (Inspecting \/ r.id = live)
        <4>1. r.conn = ws[w].conn /\ r.id = ws[w].id
          BY <1>0, <1>1, <3>1, MovedFields
        <4>2. CASE r.pc = "commit"
          BY <1>0, <1>1, <2>0, <4>1, <4>2, MovedFields DEF Untorn, ReadyOnPath, Ready
        <4>3. CASE r.pc = "ready"
          <5>1. ws[w].id = live /\ ws[w].pc = "opened"
            BY <1>0, <1>1, <4>3, MovedFields DEF VerifyHandle
          <5>2. ws[w].conn \in Inodes
            BY <1>0, <5>1 DEF SessionShape, Shaped
          <5> QED
            BY <2>0, <4>1, <5>1, <5>2, Named DEF Untorn, SamePlace
        <4> QED
          BY <3>1, <4>2, <4>3
      <3> QED
        BY <1>0, <1>2, <2>0, <2>1, <3>1 DEF Untorn, ReadyOnPath, Ready
    <2>4. ReadersSeen'
      <3>1. CASE wal' = wal \/ wal'.present
        <4>1. r.pc \in {"ready", "commit", "exit", "close"} => Reading(w) \/ VerifyHandle(w)
          BY <1>0, <1>1, MovedFields
        <4>2. VerifyHandle(w) => wal'.present
          BY <1>0 DEF VerifyHandle, Logs
        <4> QED
          BY <1>2, <2>0, <3>1, <4>1, <4>2 DEF Untorn, ReadersSeen, Reading
      <3>2. CASE Close(w) /\ wal' = NoWal
        <4>1. CloseLast(ws[w].conn, Writers \ {w}) /\ ws' = [ws EXCEPT ![w] = IdleWriter]
          BY <3>2 DEF Close
        <4>2. wal' = wal \/ \A v \in Writers \ {w} : ~Reading(v)
          BY <1>4, <4>1, CloseAlone
        <4>3. \A v \in Writers : ws'[v] = IF v = w THEN IdleWriter ELSE ws[v]
          BY <1>0, <4>1
        <4>4. (\A v \in Writers \ {w} : ~Reading(v)) => ReadersSeen'
          BY <4>3 DEF Reading, ReadersSeen, IdleWriter
        <4> QED
          BY <3>1, <4>2, <4>4
      <3>3. \A img, row : Appended(w, img, row) => wal'.present
        BY <1>0, AppendedLog
      <3>4. VerifyHandle(w) => wal'.present
        BY <1>0 DEF VerifyHandle, Logs
      <3>5. Close(w) => wal' = wal \/ wal' = NoWal
        BY DEF Close, CloseLast, Checkpoint
      <3> QED
        BY <1>0, <3>1, <3>2, <3>3, <3>4, <3>5, SessionLog
    <2>5. OldFile'
      <3> SUFFICES ASSUME NEW j \in Jobs, Migrating(j)
                   PROVE  /\ ~Frames' /\ \A v \in Writers : ~Ready(v)'
                          /\ file'[live].meta = "old" /\ file'[live] = backups[jobs[j].src].img
        BY <1>0 DEF OldFile, Migrating
      <3>1. /\ ~Frames /\ \A v \in Writers : ~Ready(v)
            /\ file[live].meta = "old" /\ file[live] = backups[jobs[j].src].img
        BY <2>0 DEF Untorn, OldFile
      <3>2. r.pc \notin {"ready", "commit"}
        <4>1. r.pc # "commit"
          BY <1>0, <1>1, <3>1, MovedFields DEF Ready
        <4>2. ASSUME r.pc = "ready" PROVE FALSE
          <5>1. ws[w].id = live /\ Pinned(View(ws[w].conn)) /\ ws[w].pc = "opened"
            BY <1>0, <1>1, <4>2, MovedFields DEF VerifyHandle
          <5>2. ws[w].conn = live
            BY <1>0, <2>0, <5>1, Named DEF SessionShape, Shaped, Untorn, SamePlace
          <5> QED
            BY <3>1, <5>1, <5>2 DEF Pinned, View
        <4> QED
          BY <4>1, <4>2
      <3>3. \A v \in Writers : ~Ready(v)'
        BY <1>2, <3>1, <3>2 DEF Ready
      <3>4. \A img, row : ~Appended(w, img, row)
        BY <3>1 DEF Appended, Ready
      <3>5. file' = file /\ ~Frames'
        <4>1. CASE UNCHANGED <<file, wal>>
          BY <3>1, <4>1 DEF Frames
        <4>2. CASE VerifyHandle(w)
          <5>1. file' = file /\ wal'.img = wal.img
            BY <1>0, <4>2 DEF VerifyHandle, Logs
          <5> QED
            BY <3>1, <5>1 DEF Frames
        <4>3. CASE Close(w)
          BY <3>1, <4>1, <4>3, NoWalEmpty DEF Close, CloseLast, Checkpoint, Frames
        <4> QED
          BY <1>0, <3>4, <4>1, <4>2, <4>3, SessionLog
      <3> QED
        BY <3>1, <3>3, <3>5
    <2>6. LogOfPath'
      <3>1. CASE wal'.img = wal.img /\ wal'.of = wal.of
        BY <1>0, <2>0, <2>1, <3>1 DEF Untorn, LogOfPath, Frames
      <3>2. VerifyHandle(w) => wal'.img = wal.img /\ wal'.of = wal.of
        BY <1>0 DEF VerifyHandle, Logs
      <3>3. ASSUME NEW img, NEW row, Appended(w, img, row) PROVE LogOfPath'
        <4>1. wal'.of = ws[w].conn /\ Ready(w)
          BY <1>0, <3>3, AppendedLog DEF Appended, Ready
        <4> QED
          BY <1>0, <2>0, <2>1, <4>1 DEF Untorn, ReadyOnPath, LogOfPath
      <3>4. CASE Close(w) /\ wal' = NoWal
        BY <3>4, NoWalEmpty DEF LogOfPath, Frames
      <3>5. Close(w) => wal' = wal \/ wal' = NoWal
        BY DEF Close, CloseLast, Checkpoint
      <3> QED
        BY <1>0, <3>1, <3>2, <3>3, <3>4, <3>5, SessionLog
    <2> QED
      BY <2>2, <2>3, <2>4, <2>5, <2>6 DEF Untorn
  <1> QED
    BY <1>3, <1>4 DEF LogInv

LEMMA QuietLogInv ==
    ASSUME Exclusive, ShapeInv, LogInv, NEW j \in Jobs, QuietStep(j)
    PROVE  LogInv'
  <1>0. /\ TypeOK /\ SessionShape /\ jobs \in [Jobs -> Commands] /\ jobs[j] \in Commands
        /\ CommandShape(jobs[j], backups, live) /\ Maintenance(j)
    BY Types DEF ShapeInv, JobShape, QuietStep, Maintenance
  <1>1. UNCHANGED <<file, live, wal, ws>>
    BY DEF QuietStep, StartBackup, Seal, SealFails, StartRestore, Stage, Link, StartMigration, PinLive,
           RecheckLive, JobCrash
  <1>2. LogShape'
    BY <1>1 DEF LogInv, LogShape, Frames
  <1>3. ASSUME ~torn' PROVE Untorn'
    <2>0. ~torn /\ Untorn
      BY <1>0, <1>3, TornStays DEF LogInv, Next
    <2>1. \A i \in Jobs : i # j => jobs[i] = IdleJob /\ jobs'[i] = IdleJob
      <3>1. PICK r : jobs' = [jobs EXCEPT ![j] = r]
        BY QuietAdvances DEF Advanced
      <3> QED
        BY <1>0, <3>1, OthersIdle
    <2>2. ~Inspecting
      <3>1. jobs[j].pc # "inspect"
        BY <1>3 DEF QuietStep, StartBackup, Seal, SealFails, StartRestore, Stage, Link, StartMigration,
                    PinLive, RecheckLive, JobCrash, MayStart
      <3> QED
        BY <2>1, <3>1, IdleShape DEF Inspecting
    <2>3. SamePlace' /\ ReadersSeen' /\ ReadyOnPath' /\ LogOfPath'
      BY <1>1, <2>0, <2>2 DEF Untorn, SamePlace, ReadersSeen, Reading, ReadyOnPath, Ready, LogOfPath, Frames
    <2>4. OldFile'
      <3> SUFFICES ASSUME NEW i \in Jobs, Migrating(i)'
                   PROVE  /\ ~Frames /\ \A v \in Writers : ~Ready(v)
                          /\ file[live].meta = "old" /\ file[live] = backups'[jobs'[i].src].img
        BY <1>1 DEF OldFile, Frames, Ready
      <3>1. i = j
        BY <2>1, IdleShape DEF Migrating
      <3>2. CASE StartMigration(j)
        <4>1. PICK k \in Backups :
                 /\ ExactSnapshot(k, file[live])
                 /\ jobs' = [jobs EXCEPT ![j] = [IdleJob EXCEPT !.pc = "pin", !.src = k]]
          BY <3>2 DEF StartMigration
        <4>2. jobs'[j].src = k
          BY <1>0, <4>1 DEF IdleJob
        <4>3. ~wal.present /\ file[live].meta = "old" /\ backups' = backups
          BY <3>2 DEF StartMigration
        <4>4. ~Frames /\ \A v \in Writers : ~Ready(v)
          BY <2>0, <4>3 DEF LogInv, LogShape, Untorn, ReadersSeen, Reading, Ready
        <4> QED
          BY <3>1, <4>1, <4>2, <4>3, <4>4 DEF ExactSnapshot
      <3>3. CASE PinLive(j) \/ RecheckLive(j)
        <4>1. Migrating(j) /\ backups' = backups
          BY <3>3 DEF PinLive, RecheckLive, Migrating
        <4>2. jobs'[j].src = jobs[j].src
          <5>1. CASE PinLive(j)
            BY <1>0, <5>1 DEF PinLive, Commands
          <5>2. CASE RecheckLive(j)
            <6>1. jobs'[j] = IF file[live] = jobs[j].pinned
                             THEN [jobs[j] EXCEPT !.pc = "swap", !.pinned = None] ELSE IdleJob
              BY <1>0, <5>2 DEF RecheckLive
            <6>2. jobs'[j] # IdleJob
              BY <3>1, IdleShape DEF Migrating
            <6> QED
              BY <1>0, <6>1, <6>2 DEF Commands
          <5> QED
            BY <3>3, <5>1, <5>2
        <4> QED
          BY <2>0, <3>1, <4>1, <4>2 DEF Untorn, OldFile
      <3>4. CASE ~StartMigration(j) /\ ~PinLive(j) /\ ~RecheckLive(j)
        <4>1. jobs'[j].pc \notin {"pin", "recheck", "swap"}
          <5>1. CASE StartBackup(j)
            <6>1. \E k, s : jobs' = [jobs EXCEPT ![j] = [IdleJob EXCEPT !.pc = "snapshot", !.src = k,
                                                           !.signed = s]]
              BY <5>1 DEF StartBackup
            <6> QED
              BY <1>0, <6>1 DEF IdleJob
          <5>2. CASE StartRestore(j)
            <6>1. \E k : jobs' = [jobs EXCEPT ![j] = [IdleJob EXCEPT !.pc = "stage", !.src = k]]
              BY <5>2 DEF StartRestore
            <6> QED
              BY <1>0, <6>1 DEF IdleJob
          <5>3. CASE Seal(j)
            BY <1>0, <5>3, IdleShape DEF Seal, Commands
          <5>4. CASE SealFails(j) \/ JobCrash(j)
            BY <1>0, <5>4, IdleShape DEF SealFails, JobCrash
          <5>5. CASE Stage(j)
            <6>1. CASE jobs' = [jobs EXCEPT ![j].pc = "replace"]
              BY <1>0, <6>1 DEF Commands
            <6>2. CASE jobs' = [jobs EXCEPT ![j] = IdleJob]
              BY <1>0, <6>2, IdleShape
            <6>3. ASSUME NEW k \in Backups,
                         jobs' = [jobs EXCEPT ![j].pc = "snapshot", ![j].safety = k]
                  PROVE  jobs'[j].pc = "snapshot"
              BY <1>0, <6>3 DEF Commands
            <6> QED
              BY <5>5, <6>1, <6>2, <6>3 DEF Stage
          <5>6. CASE Link(j)
            BY <1>0, <5>6 DEF Link, Commands
          <5> QED
            BY <3>4, <5>1, <5>2, <5>3, <5>4, <5>5, <5>6 DEF QuietStep
        <4> QED
          BY <3>1, <4>1 DEF Migrating
      <3> QED
        BY <3>2, <3>3, <3>4
    <2> QED
      BY <2>3, <2>4 DEF Untorn
  <1> QED
    BY <1>2, <1>3 DEF LogInv

\* A command that has the file or its log in hand: it is the only one that moves, and ends
\* idle, sealing or inspecting.
LEMMA LoudJobs ==
    ASSUME Exclusive, ShapeInv, NEW j \in Jobs,
           Snapshot(j) \/ Replace(j) \/ InspectReplaced(j) \/ Swap(j)
    PROVE  /\ \A i \in Jobs : i # j => jobs[i] = IdleJob /\ jobs'[i] = IdleJob
           /\ \A i \in Jobs : jobs'[i].pc \in {"idle", "seal", "inspect"}
           /\ ~InspectReplaced(j) => ~Inspecting
           /\ ~Replace(j) => ~Inspecting'
  <1>0. jobs \in [Jobs -> Commands] /\ jobs[j] \in Commands /\ Maintenance(j)
    BY Types DEF ShapeInv, Maintenance
  <1>1. PICK r : jobs' = [jobs EXCEPT ![j] = r]
    BY LoudAdvances DEF Advanced
  <1>2. \A i \in Jobs : i # j => jobs[i] = IdleJob /\ jobs'[i] = IdleJob
    BY <1>0, <1>1, OthersIdle
  <1>3. CASE Snapshot(j)
    <2>1. jobs'[j].pc \in {"idle", "seal"}
      <3>1. jobs' = [jobs EXCEPT ![j].pc = "seal"] \/ jobs' = [jobs EXCEPT ![j] = IdleJob]
        BY <1>3 DEF Snapshot
      <3> QED
        BY <1>0, <3>1, IdleShape DEF Commands
    <2>2. jobs[j].pc = "snapshot"
      BY <1>3 DEF Snapshot
    <2> QED
      BY <1>2, <2>1, <2>2, IdleShape DEF Inspecting
  <1>4. CASE Replace(j)
    <2>1. jobs[j].pc = "replace" /\ jobs' = [jobs EXCEPT ![j].pc = "inspect"]
      BY <1>4 DEF Replace
    <2>2. jobs'[j].pc = "inspect"
      BY <1>0, <2>1 DEF Commands
    <2> QED
      BY <1>2, <1>4, <2>1, <2>2, IdleShape DEF Inspecting
  <1>5. CASE InspectReplaced(j)
    <2>1. jobs'[j] = IdleJob
      BY <1>0, <1>5 DEF InspectReplaced
    <2> QED
      BY <1>2, <1>5, <2>1, IdleShape DEF Inspecting
  <1>6. CASE Swap(j)
    <2>1. jobs'[j] = IdleJob /\ jobs[j].pc = "swap"
      BY <1>0, <1>6 DEF Swap
    <2> QED
      BY <1>2, <2>1, IdleShape DEF Inspecting
  <1> QED
    BY <1>3, <1>4, <1>5, <1>6

LEMMA LoudLogInv ==
    ASSUME Exclusive, ShapeInv, LogInv, NEW j \in Jobs,
           Snapshot(j) \/ Replace(j) \/ InspectReplaced(j) \/ Swap(j)
    PROVE  LogInv'
  <1>0. /\ TypeOK /\ SessionShape /\ jobs \in [Jobs -> Commands] /\ jobs[j] \in Commands
        /\ CommandShape(jobs[j], backups, live) /\ Maintenance(j) /\ wal \in Logs
        /\ backups \in [Backups -> Archive] /\ live \in Inodes \cup {None}
    BY Types DEF ShapeInv, JobShape, Maintenance
  <1>1. UNCHANGED ws
    BY <1>0, MaintenanceKeeps
  <1>2. LogShape'
    <2>1. UNCHANGED wal \/ wal' = NoWal
      BY DEF Snapshot, Replace, InspectReplaced, Swap, CloseLast, Checkpoint
    <2> QED
      BY <2>1, NoWalEmpty DEF LogInv, LogShape, Frames
  <1>3. ASSUME ~torn' PROVE Untorn'
    <2>0. ~torn /\ Untorn
      BY <1>0, <1>3, TornStays DEF LogInv, Next
    <2>1. OldFile'
      BY LoudJobs DEF OldFile, Migrating
    <2>2. CASE Snapshot(j)
      <3>1. live' = live /\ CloseLast(live, Writers) /\ ~Inspecting
        BY <2>2, LoudJobs, <1>0 DEF Snapshot, Replace, InspectReplaced
      <3>2. CASE UNCHANGED wal
        BY <1>1, <2>0, <2>1, <3>1, <3>2 DEF Untorn, SamePlace, ReadersSeen, Reading, ReadyOnPath, Ready,
                                            LogOfPath, Frames
      <3>3. CASE wal' = NoWal /\ \A v \in Writers : ~Reading(v)
        BY <1>1, <2>0, <2>1, <3>1, <3>3, NoWalEmpty
           DEF Untorn, SamePlace, ReadersSeen, Reading, ReadyOnPath, Ready, LogOfPath, Frames
      <3> QED
        BY <1>3, <3>1, <3>2, <3>3, CloseAlone
    <2>3. CASE Replace(j)
      <3>1. Inspecting'
        <4>1. jobs'[j].pc = "inspect"
          BY <1>0, <2>3 DEF Replace, Commands
        <4> QED
          BY <4>1 DEF Inspecting
      <3>2. wal' = wal /\ ~Inspecting
        BY <1>0, <2>3, LoudJobs DEF Replace, InspectReplaced
      <3>3. \A w \in Writers : live' # ws[w].id
        <4>1. backups[jobs[j].src].img \in Content
          BY <1>0, <2>3 DEF Archive, Images, CommandShape, Replace
        <4> QED
          BY <1>0, <2>3, <4>1, PutEffect DEF Replace
      <3> QED
        BY <1>1, <2>0, <2>1, <3>1, <3>2, <3>3
           DEF Untorn, SamePlace, ReadersSeen, Reading, ReadyOnPath, Ready, LogOfPath, Frames
    <2>4. CASE InspectReplaced(j)
      <3>1. wal' = wal
        BY <2>4 DEF InspectReplaced
      <3>2. CASE ~wal.present /\ live' = live
        <4>1. live' = live
          BY <3>2
        <4>2. ~Frames /\ \A w \in Writers : ~Reading(w)
          BY <2>0, <3>2 DEF LogInv, LogShape, Untorn, ReadersSeen
        <4> QED
          BY <1>1, <2>0, <2>1, <3>1, <4>1, <4>2
             DEF Untorn, SamePlace, ReadersSeen, Reading, ReadyOnPath, Ready, LogOfPath, Frames
      <3>3. CASE RollBack(j)
        <4>1. /\ live' = jobs[j].rollback /\ wal.of \in {None, live'}
              /\ \A w \in Writers : ws[w].conn \in {None, live'}
          <5>1. live' = jobs[j].rollback
            BY <3>3 DEF RollBack
          <5>2. {wal.of} \cup {ws[w].conn : w \in Writers} \subseteq {None, jobs[j].rollback}
            BY <1>3, <3>3 DEF RollBack
          <5> QED
            BY <5>1, <5>2
        <4>2. \A w \in Writers : Ready(w) => ws[w].conn \in Inodes /\ ws[w].id = ws[w].conn
          BY <1>0, <2>0 DEF Ready, SessionShape, Shaped, Untorn, ReadyOnPath
        <4>3. Frames => wal.of # None
          BY DEF LogInv, LogShape, Frames
        <4>4. SamePlace' /\ ReadersSeen'
          BY <1>1, <2>0, <3>1, <4>1 DEF SamePlace, Untorn, ReadersSeen, Reading
        <4>5. ReadyOnPath'
          BY <1>1, <4>1, <4>2, Named DEF ReadyOnPath, Ready
        <4>6. LogOfPath'
          BY <3>1, <4>1, <4>3 DEF LogOfPath, Frames
        <4> QED
          BY <2>1, <4>4, <4>5, <4>6 DEF Untorn
      <3> QED
        BY <2>4, <3>2, <3>3 DEF InspectReplaced
    <2>5. CASE Swap(j)
      <3>1. jobs[j].pc = "swap" /\ wal' = wal
        BY <2>5 DEF Swap
      <3>2. ~Frames /\ \A w \in Writers : ~Ready(w)
        BY <2>0, <3>1 DEF Untorn, OldFile, Migrating
      <3>3. \A w \in Writers : live' # ws[w].id
        <4>1. backups[jobs[j].src].img \in Content
          BY <1>0, <3>1 DEF Archive, Images, CommandShape
        <4> DEFINE c == [backups[jobs[j].src].img EXCEPT !.meta = "current"]
        <4>2. c \in Content /\ Put(c)
          BY <2>5, <4>1 DEF Content, Swap
        <4> HIDE DEF c
        <4> QED
          BY <1>0, <4>2, PutEffect
      <3> QED
        BY <1>1, <2>0, <2>1, <3>1, <3>2, <3>3
           DEF Untorn, SamePlace, ReadersSeen, Reading, ReadyOnPath, Ready, LogOfPath, Frames
    <2> QED
      BY <2>2, <2>3, <2>4, <2>5
  <1> QED
    BY <1>2, <1>3 DEF LogInv

\* A command that may start finds every other one idle, and itself.
LEMMA AllIdle ==
    ASSUME Exclusive, ShapeInv, NEW j \in Jobs, MayStart(j)
    PROVE  ~torn /\ \A i \in Jobs : jobs[i] = IdleJob
  BY DEF MayStart, ShapeInv, JobShape, CommandShape

LEMMA StoreLogInv ==
    ASSUME Exclusive, ShapeInv, LogInv, NEW j \in Jobs, ApplyMigration(j)
    PROVE  LogInv'
  <1>0. /\ TypeOK /\ UNCHANGED <<live, jobs, ws>> /\ ~torn /\ Untorn
        /\ \A i \in Jobs : jobs[i].pc = "idle"
    BY AllIdle, IdleShape DEF ShapeInv, ApplyMigration, LogInv
  <1>1. live \in Inodes
    BY <1>0, Types DEF ApplyMigration, Connectable
  <1>2. \/ wal' = NoWal /\ \A w \in Writers : ~Reading(w)
        \/ wal'.present /\ wal'.of = live /\ wal'.img \in Content
    <2>1. [View(live) EXCEPT !.meta = "next"] \in Content
      <3>1. View(live) \in Content
        BY <1>0, <1>1, ViewType
      <3> QED
        BY <3>1 DEF Content
    <2> QED
      BY <2>1 DEF ApplyMigration
  <1>3. LogShape'
    BY <1>1, <1>2, NoWalEmpty, Named DEF LogShape, Frames
  <1>4. OldFile' /\ ~Inspecting
    BY <1>0 DEF OldFile, Migrating, Inspecting
  <1>5. SamePlace' /\ ReadyOnPath' /\ ReadersSeen' /\ LogOfPath'
    BY <1>0, <1>2, <1>4, NoWalEmpty
       DEF Untorn, SamePlace, ReadersSeen, Reading, ReadyOnPath, Ready, LogOfPath, Frames
  <1> QED
    BY <1>3, <1>4, <1>5 DEF LogInv, Untorn

LEMMA RecoveryLogInv ==
    ASSUME Exclusive, ShapeInv, LogInv, NEW j \in Jobs, Recovers(j)
    PROVE  LogInv'
  <1>0. /\ Maintenance(j) /\ [Next]_vars /\ jobs \in [Jobs -> Commands]
    BY Types DEF Recovers, Maintenance, Next, ShapeInv
  <1>1. LogShape'
    BY RecoveryStep DEF Emptied, LogInv, LogShape, Frames
  <1>2. ASSUME ~torn' PROVE Untorn'
    <2>1. ~torn /\ Untorn
      BY <1>0, <1>2, TornStays DEF LogInv
    <2>2. ~Inspecting /\ ~Inspecting' /\ OldFile'
      <3>1. \A i \in Jobs : jobs[i].pc \in {"idle", "retire"} /\ jobs'[i].pc \in {"idle", "retire"}
        <4>1. PICK r : Advanced(j, r)
          BY RecoveryStep
        <4>2. \A i \in Jobs : i # j => jobs[i].pc = "idle" /\ jobs'[i] = jobs[i]
          BY <1>0, <4>1, OthersIdle, IdleShape DEF Advanced
        <4>3. jobs[j].pc \in {"idle", "retire"}
          BY DEF Recovers, Recover, RetireSidecars, MayStart
        <4> QED
          BY <4>2, <4>3, RecoveryStep
      <3> QED
        BY <3>1 DEF Inspecting, OldFile, Migrating
    <2>3. UNCHANGED <<live, ws>> /\ (UNCHANGED <<file, wal>> \/ \A w \in Writers : ~Reading(w))
          /\ (UNCHANGED <<file, wal>> \/ ~Frames')
      BY <1>2, RecoveryStep DEF Emptied, Frames
    <2> QED
      BY <2>1, <2>2, <2>3
         DEF Untorn, SamePlace, ReadersSeen, Reading, ReadyOnPath, Ready, LogOfPath, Frames
  <1> QED
    BY <1>1, <1>2 DEF LogInv

\* Where there is no store there is no log, and nobody who could write one.
LEMMA NoStoreNoLog ==
    ASSUME ShapeInv, LogInv, ~torn, live = None
    PROVE  ~Inspecting /\ ~Frames /\ \A w \in Writers : ~Ready(w)
  <1>1. ~Inspecting /\ Untorn
    BY DEF ShapeInv, JobShape, CommandShape, Inspecting, LogInv
  <1>2. \A w \in Writers : Ready(w) => ws[w].id \in Inodes /\ ws[w].id = live
    BY <1>1 DEF ShapeInv, SessionShape, Shaped, Ready, Untorn, ReadyOnPath
  <1> QED
    BY <1>1, <1>2, Named DEF Untorn, LogOfPath, LogInv, LogShape, Frames

LEMMA NextLog == Exclusive /\ ShapeInv /\ LogInv /\ [Next]_vars => LogInv'
  <1> SUFFICES ASSUME Exclusive, ShapeInv, LogInv, [Next]_vars PROVE LogInv'
    OBVIOUS
  <1>1. ASSUME UNCHANGED <<file, live, wal, ws, jobs, backups, torn>> PROVE LogInv'
    BY <1>1 DEF LogInv, LogShape, Untorn, SamePlace, ReadersSeen, Reading, ReadyOnPath, Ready, OldFile,
                Migrating, LogOfPath, Frames, Inspecting
  <1>2. ASSUME NEW j \in Jobs, Maintenance(j) PROVE LogInv'
    BY <1>2, QuietLogInv, LoudLogInv, StoreLogInv, RecoveryLogInv DEF Maintenance, QuietStep, Recovers
  <1>3. ASSUME NEW k \in Backups, Expire(k) PROVE LogInv'
    BY <1>1, <1>3 DEF Expire
  <1>4. CASE Initialize
    <2>0. TypeOK /\ JobShape /\ UNCHANGED <<wal, ws, jobs, torn>> /\ live = None
      BY <1>4 DEF ShapeInv, Initialize
    <2>1. \A w \in Writers : live' # ws[w].id
      BY <1>4, <2>0, PutEffect, EmptyType DEF Initialize, Images
    <2>2. ~Inspecting /\ ~Inspecting' /\ (\A j \in Jobs : ~Migrating(j)) /\ \A j \in Jobs : ~Migrating(j)'
      BY <2>0 DEF JobShape, CommandShape, Inspecting, Migrating
    <2>3. ~torn => ~Frames /\ \A w \in Writers : ~Ready(w)
      BY <2>0, NoStoreNoLog
    <2>4. LogShape'
      BY <2>0 DEF LogInv, LogShape, Frames
    <2>5. ASSUME ~torn, Untorn PROVE Untorn'
      BY <2>0, <2>1, <2>2, <2>3, <2>5
         DEF Untorn, SamePlace, ReadersSeen, Reading, ReadyOnPath, Ready, LogOfPath, Frames, OldFile
    <2> QED
      BY <2>0, <2>4, <2>5 DEF LogInv
  <1> QED
    BY <1>1, <1>2, <1>3, <1>4, SessionLogInv DEF Next, vars

\* The frames in the log are those of a session on the file at the path, so that no later
\* open replays them into another database, whatever sessions and killed processes do around
\* restores, migrations and recoveries that do not overlap.
THEOREM LogOwned == ASSUME Exclusive PROVE Spec => []LogIsOfLive
  <1>1. LogInv => LogIsOfLive
    BY DEF LogInv, Untorn, LogOfPath, LogIsOfLive, Inspecting
  <1>2. ShapeInv /\ [Next]_vars => ShapeInv'
    BY NextShape
  <1>3. ShapeInv /\ LogInv /\ [Next]_vars => LogInv'
    BY NextLog
  <1> QED
    BY <1>1, <1>2, <1>3, InitShape, InitLog, PTL DEF Spec

-----------------------------------------------------------------------------
(* What was reported.  Besides the rows that were reported, the store owes *)
(* those that a session has committed and not reported yet.  From when the *)
(* safety backup is made until the file is replaced, what the store holds  *)
(* is in a backup; once it is replaced, what is owed is in one.            *)

Owed(x) == x \in reported \/ \E w \in Writers : ws[w].wrote = x

InCopy(x) == \E k \in Backups : backups[k].state = "sealed" /\ x \in All(backups[k].img)

KeptRows == \A x \in Rows : Owed(x) => x \in All(Live) \/ InCopy(x) \/ x \in raced

Secured(j) ==
    /\ jobs[j].pc = "seal" /\ jobs[j].safety # None =>
          \A x \in Rows : x \in All(Live) => x \in All(backups[jobs[j].safety].img) \/ x \in raced
    /\ jobs[j].pc \in {"link", "replace"} =>
          \A x \in Rows : x \in All(Live) => InCopy(x) \/ x \in raced
    /\ jobs[j].pc = "inspect" => \A x \in Rows : Owed(x) => InCopy(x) \/ x \in raced

Safe == KeptRows /\ \A j \in Jobs : Secured(j)

LossInv == torn \/ Safe

LEMMA InitLoss == Init => LossInv
  <1> SUFFICES ASSUME Init PROVE LossInv
    OBVIOUS
  <1>1. PICK c \in {Empty} \cup {[Empty EXCEPT !.rows = {r}, !.meta = "old"] : r \in Captures} :
         /\ file = [n \in Inodes |-> IF n = 1 THEN c ELSE Empty]
         /\ reported = c.rows
         /\ \/ live = 1 /\ backups = [k \in Backups |-> NoBackup]
            \/ /\ live = None
               /\ backups = [k \in Backups |-> [NoBackup EXCEPT !.state = "sealed", !.img = c]]
    BY DEF Init
  <1>2. wal = NoWal /\ ws = [w \in Writers |-> IdleWriter] /\ jobs = [j \in Jobs |-> IdleJob]
    BY DEF Init
  <1>3. \A x \in Rows : Owed(x) => x \in c.rows
    BY <1>1, <1>2, Named DEF Owed, IdleWriter
  <1>4. \A j \in Jobs : Secured(j)
    BY <1>2, IdleShape DEF Secured
  <1>5. CASE live = 1
    <2>1. Live = c
      BY <1>1, <1>2, <1>5, Named, NoWalEmpty DEF Live, View, Frames
    <2> QED
      BY <1>3, <1>4, <2>1 DEF LossInv, Safe, KeptRows, All
  <1>6. CASE backups = [k \in Backups |-> [NoBackup EXCEPT !.state = "sealed", !.img = c]]
    <2>1. PICK k \in Backups : TRUE
      BY StoreFileAssumption
    <2>2. backups[k].state = "sealed" /\ backups[k].img = c
      BY <1>6 DEF NoBackup
    <2> QED
      BY <1>3, <1>4, <2>2 DEF LossInv, Safe, KeptRows, InCopy, All
  <1> QED
    BY <1>1, <1>5, <1>6

\* A backup with its receipt stays.
LEMMA CopiesStay ==
    ASSUME ShapeInv, [Next]_vars, NEW k \in Backups, backups[k].state = "sealed"
    PROVE  backups'[k].state = "sealed" /\ backups'[k].img = backups[k].img
  <1>0. TypeOK /\ backups \in [Backups -> Archive] /\ jobs \in [Jobs -> Commands]
    BY Types DEF ShapeInv
  <1>1. CASE UNCHANGED backups
    BY <1>1
  <1>2. ASSUME NEW j \in Jobs, Snapshot(j) \/ Seal(j) \/ SealFails(j), ~(UNCHANGED backups)
        PROVE  backups'[k].state = "sealed" /\ backups'[k].img = backups[k].img
    <2>1. backups[Target(j)].state \in {"none", "bare"} /\ Target(j) # k
      BY <1>2, TargetIs DEF ShapeInv, JobShape, CommandShape, Snapshot, Seal, SealFails
    <2>2. \A b : backups' = [backups EXCEPT ![Target(j)] = b] => backups'[k] = backups[k]
      BY <1>0, <2>1
    <2>3. CASE Snapshot(j) \/ SealFails(j)
      BY <1>2, <2>2, <2>3 DEF Snapshot, SealFails
    <2>4. CASE Seal(j)
      BY <2>2, <2>4 DEF Seal
    <2> QED
      BY <1>2, <2>3, <2>4
  <1>3. (UNCHANGED backups) \/ \E j \in Jobs : Snapshot(j) \/ Seal(j) \/ SealFails(j)
    <2>1. \A j \in Jobs : Maintenance(j) => UNCHANGED backups \/ Snapshot(j) \/ Seal(j) \/ SealFails(j)
      BY DEF Maintenance, StartBackup, StartRestore, Stage, Link, Replace, InspectReplaced,
             StartMigration, PinLive, RecheckLive, Swap, ApplyMigration, Recover, RetireSidecars, JobCrash
    <2> QED
      BY <2>1, SessionKeeps DEF Next, vars, Expire, Initialize
  <1> QED
    BY <1>1, <1>2, <1>3

LEMMA CopiesGrow ==
    ASSUME ShapeInv, [Next]_vars, NEW x, InCopy(x)
    PROVE  InCopy(x)'
  BY CopiesStay DEF InCopy

\* A step that leaves what the path holds: nobody loses anything.
LEMMA SameLive ==
    ASSUME ShapeInv, [Next]_vars, Safe, UNCHANGED <<jobs, backups>>, raced \subseteq raced',
           All(Live') = All(Live),
           \A x \in Rows : Owed(x)' => Owed(x)
    PROVE  Safe'
  <1>1. \A x \in Rows : InCopy(x) => InCopy(x)'
    BY CopiesGrow
  <1>2. KeptRows'
    BY <1>1 DEF Safe, KeptRows
  <1>3. ASSUME NEW j \in Jobs PROVE Secured(j)'
    <2>1. Secured(j)
      BY DEF Safe
    <2> QED
      BY <1>1, <2>1 DEF Secured
  <1> QED
    BY <1>2, <1>3 DEF Safe

\* While a restore has to inspect what it replaced, what is owed is in a backup.
LEMMA WhileInspecting ==
    ASSUME ShapeInv, [Next]_vars, Safe, UNCHANGED jobs, raced \subseteq raced', Inspecting,
           \A x \in Rows : Owed(x)' => Owed(x) \/ x \in raced'
    PROVE  Safe'
  <1>1. \A x \in Rows : InCopy(x) => InCopy(x)'
    BY CopiesGrow
  <1>2. \A x \in Rows : Owed(x) => InCopy(x) \/ x \in raced
    BY DEF Inspecting, Safe, Secured
  <1>3. KeptRows'
    BY <1>1, <1>2 DEF KeptRows
  <1>4. ASSUME NEW j \in Jobs PROVE Secured(j)'
    <2>1. jobs'[j].pc \in {"idle", "inspect"}
      BY DEF Inspecting, ShapeInv, OneCommand
    <2> QED
      BY <1>1, <1>2, <2>1 DEF Secured
  <1> QED
    BY <1>3, <1>4 DEF Safe

\* The last to close moves the log into the file that the log is of.
LEMMA CloseSame ==
    ASSUME TypeOK, LogInv, NEW i \in Inodes, NEW S, CloseLast(i, S), ~torn', UNCHANGED live,
           ~Inspecting
    PROVE  Live' = Live
  <1>0. /\ ~torn /\ wal.of \in {i, None} /\ file \in [Inodes -> Content]
        /\ live \in Inodes \cup {None}
        /\ \/ UNCHANGED <<file, wal>>
           \/ wal' = NoWal /\ file' = IF Frames THEN [file EXCEPT ![i] = wal.img] ELSE file
    BY CloseAlone, Types
  <1>1. CASE UNCHANGED <<file, wal>>
    BY <1>1 DEF Live, View, Frames
  <1>2. CASE wal' = NoWal /\ file' = (IF Frames THEN [file EXCEPT ![i] = wal.img] ELSE file)
    <2>1. ~Frames'
      BY <1>2, NoWalEmpty DEF Frames
    <2>2. CASE ~Frames
      BY <1>2, <2>1, <2>2 DEF Live, View
    <2>3. CASE Frames
      <3>1. i = live
        BY <1>0, <2>3 DEF LogInv, LogShape, Untorn, LogOfPath, Frames
      <3>2. file'[live] = wal.img
        BY <1>0, <1>2, <2>3, <3>1
      <3> QED
        BY <1>0, <2>1, <2>3, <3>1, <3>2, Named DEF Live, View
    <2> QED
      BY <2>2, <2>3
  <1> QED
    BY <1>0, <1>1, <1>2

LEMMA SessionLoss ==
    ASSUME ShapeInv, LogInv, LossInv, NEW w \in Writers, Session(w)
    PROVE  LossInv'
  <1> SUFFICES ASSUME ~torn' PROVE Safe'
    BY DEF LossInv
  <1>0. /\ TypeOK /\ SessionShape /\ UNCHANGED <<live, jobs, backups>> /\ [Next]_vars
        /\ ws \in [Writers -> Sessions] /\ wal \in Logs /\ live \in Inodes \cup {None}
    BY SessionKeeps, Types DEF ShapeInv, Next
  <1>1. ~torn /\ Untorn /\ Safe
    BY <1>0, TornStays DEF LogInv, LossInv
  <1>2. \A v \in Writers : v # w => ws'[v] = ws[v]
    <2>1. PICK r : ws' = [ws EXCEPT ![w] = r]
      BY <1>0, SessionMoves
    <2> QED
      BY <1>0, <2>1
  <1>3. CASE UNCHANGED <<file, wal, raced, reported>> /\ ws'[w].wrote \in {ws[w].wrote, None}
    <2>1. \A x \in Rows : Owed(x)' => Owed(x)
      BY <1>2, <1>3, Named DEF Owed
    <2>2. Live' = Live
      BY <1>0, <1>3 DEF Live, View, Frames
    <2> QED
      BY <1>0, <1>1, <1>3, <2>1, <2>2, SameLive
  <1>4. CASE VerifyHandle(w)
    <2>1. UNCHANGED <<file, raced, reported>> /\ wal'.img = wal.img /\ ws'[w].wrote = ws[w].wrote
      BY <1>0, <1>4 DEF VerifyHandle, Logs, Sessions
    <2>2. \A x \in Rows : Owed(x)' => Owed(x)
      BY <1>2, <2>1 DEF Owed
    <2>3. Live' = Live
      BY <1>0, <2>1 DEF Live, View, Frames
    <2> QED
      BY <1>0, <1>1, <2>1, <2>2, <2>3, SameLive
  <1>5. ASSUME NEW img, NEW row, Appended(w, img, row), ws'[w].wrote = row, UNCHANGED <<file, reported>>
        PROVE  Safe'
    <2>1. /\ ws[w].conn \in Inodes /\ All(img) = All(View(ws[w].conn)) \cup {row} /\ row \in Rows
          /\ wal'.img = img /\ Frames' /\ raced \subseteq raced'
          /\ row \in raced' \/ \A j \in Jobs : ~Window(j)
      BY <1>0, <1>5, AppendedType, AppendedLog
    <2>2. \A x \in Rows : Owed(x)' => Owed(x) \/ x = row
      BY <1>2, <1>5 DEF Owed
    <2>3. \A x \in Rows : InCopy(x) => InCopy(x)'
      BY <1>0, CopiesGrow
    <2>4. CASE Inspecting
      <3>1. row \in raced'
        BY <2>1, <2>4 DEF Inspecting, Window
      <3> QED
        BY <1>0, <1>1, <2>1, <2>2, <2>4, <3>1, WhileInspecting
    <2>5. CASE ~Inspecting
      <3>1. ws[w].conn = live
        BY <1>1, <1>5, <2>5 DEF Appended, Ready, Untorn, ReadyOnPath
      <3>2. Live = View(live) /\ Live' = img
        BY <1>0, <2>1, <3>1, Named DEF Live, View
      <3>3. All(Live') = All(Live) \cup {row}
        BY <2>1, <3>1, <3>2
      <3>4. KeptRows'
        BY <1>1, <2>1, <2>2, <2>3, <3>3 DEF Safe, KeptRows
      <3>5. ASSUME NEW j \in Jobs PROVE Secured(j)'
        <4>1. CASE Window(j)
          <5>1. row \in raced' /\ Secured(j)
            BY <1>1, <2>1, <4>1 DEF Safe
          <5> QED
            BY <1>0, <2>1, <2>2, <2>3, <3>3, <5>1 DEF Secured
        <4>2. CASE ~Window(j)
          BY <1>0, <4>2 DEF Secured, Window
        <4> QED
          BY <4>1, <4>2
      <3> QED
        BY <3>4, <3>5 DEF Safe
    <2> QED
      BY <2>4, <2>5
  <1>6. CASE Close(w)
    <2>1. /\ ws[w].conn \in Inodes /\ CloseLast(ws[w].conn, Writers \ {w}) /\ raced' = raced
          /\ reported' = IF ws[w].ok /\ ws[w].wrote # None THEN reported \cup {ws[w].wrote} ELSE reported
          /\ ws'[w].wrote = None
      <3>1. ws'[w] = IdleWriter
        BY <1>0, <1>6 DEF Close
      <3>2. ws[w].conn \in Inodes
        BY <1>0, <1>6 DEF Close, SessionShape, Shaped
      <3> QED
        BY <1>6, <3>1, <3>2 DEF Close, IdleWriter
    <2>2. \A x \in Rows : Owed(x)' => Owed(x)
      BY <1>2, <2>1, Named DEF Owed
    <2>3. CASE Inspecting
      BY <1>0, <1>1, <2>1, <2>2, <2>3, WhileInspecting
    <2>4. CASE ~Inspecting
      <3>1. Live' = Live
        BY <1>0, <2>1, <2>4, CloseSame
      <3> QED
        BY <1>0, <1>1, <2>1, <2>2, <3>1, SameLive
    <2> QED
      BY <2>3, <2>4
  <1> QED
    BY <1>0, <1>3, <1>4, <1>5, <1>6, SessionLog

LEMMA MaintenanceOwes ==
    ASSUME NEW j \in Jobs, Maintenance(j)
    PROVE  \A x : Owed(x)' <=> Owed(x)
  BY MaintenanceKeeps DEF Owed

LEMMA QuietLoss ==
    ASSUME Exclusive, ShapeInv, LogInv, LossInv, NEW j \in Jobs, QuietStep(j)
    PROVE  LossInv'
  <1> SUFFICES ASSUME ~torn' PROVE Safe'
    BY DEF LossInv
  <1>0. /\ TypeOK /\ jobs \in [Jobs -> Commands] /\ jobs[j] \in Commands /\ Maintenance(j)
        /\ CommandShape(jobs[j], backups, live) /\ [Next]_vars /\ backups \in [Backups -> Archive]
    BY Types DEF ShapeInv, JobShape, QuietStep, Maintenance, Next
  <1>1. ~torn /\ Safe
    BY <1>0, TornStays DEF LossInv
  <1>2. UNCHANGED <<file, live, wal, ws, raced, reported>> /\ Live' = Live
    <2>1. UNCHANGED <<file, live, wal, ws, raced, reported>>
      BY DEF QuietStep, StartBackup, Seal, SealFails, StartRestore, Stage, Link, StartMigration, PinLive,
             RecheckLive, JobCrash
    <2> QED
      BY <2>1 DEF Live, View, Frames
  <1>3. \A x \in Rows : (Owed(x)' <=> Owed(x)) /\ (InCopy(x) => InCopy(x)')
    BY <1>0, CopiesGrow, MaintenanceOwes
  <1>4. KeptRows'
    BY <1>1, <1>2, <1>3 DEF Safe, KeptRows
  <1>5. \A i \in Jobs : i # j => jobs'[i] = IdleJob
    <2>1. PICK r : jobs' = [jobs EXCEPT ![j] = r]
      BY QuietAdvances DEF Advanced
    <2> QED
      BY <1>0, <2>1, OthersIdle
  <1>6. Secured(j)'
    <2>0. ASSUME jobs'[j].pc \in {"idle", "snapshot", "stage", "pin", "recheck", "swap"} PROVE Secured(j)'
      BY <2>0 DEF Secured
    <2>1. CASE StartBackup(j)
      <3>1. \E k, s : jobs' = [jobs EXCEPT ![j] = [IdleJob EXCEPT !.pc = "snapshot", !.src = k,
                                                     !.signed = s]]
        BY <2>1 DEF StartBackup
      <3>2. jobs'[j].pc = "snapshot"
        BY <1>0, <3>1 DEF IdleJob
      <3> QED
        BY <2>0, <3>2
    <2>2. CASE StartRestore(j) \/ StartMigration(j)
      <3>1. \E k : \/ jobs' = [jobs EXCEPT ![j] = [IdleJob EXCEPT !.pc = "stage", !.src = k]]
                   \/ jobs' = [jobs EXCEPT ![j] = [IdleJob EXCEPT !.pc = "pin", !.src = k]]
        BY <2>2 DEF StartRestore, StartMigration
      <3>2. jobs'[j].pc \in {"stage", "pin"}
        BY <1>0, <3>1 DEF IdleJob
      <3> QED
        BY <2>0, <3>2
    <2>3. CASE SealFails(j) \/ JobCrash(j)
      BY <1>0, <2>0, <2>3, IdleShape DEF SealFails, JobCrash
    <2>4. CASE Seal(j)
      <3>1. CASE jobs[j].safety = None
        BY <1>0, <2>0, <2>4, <3>1, IdleShape DEF Seal
      <3>2. CASE jobs[j].safety # None
        <4>1. /\ jobs[j].pc = "seal" /\ jobs[j].safety \in Backups
              /\ backups' = [backups EXCEPT ![jobs[j].safety].state = "sealed"]
          BY <1>0, <2>4, <3>2 DEF Seal, Target, Commands
        <4>2. /\ backups'[jobs[j].safety].state = "sealed"
              /\ backups'[jobs[j].safety].img = backups[jobs[j].safety].img
          BY <1>0, <4>1 DEF Archive
        <4>3. \A x \in Rows : x \in All(Live) => InCopy(x)' \/ x \in raced
          BY <1>1, <3>2, <4>1, <4>2 DEF Safe, Secured, InCopy
        <4>4. jobs'[j].pc = "link"
          BY <1>0, <2>4, <3>2 DEF Seal, Commands
        <4> QED
          BY <1>2, <4>3, <4>4 DEF Secured
      <3> QED
        BY <3>1, <3>2
    <2>5. CASE Stage(j)
      <3>1. CASE live = None /\ jobs' = [jobs EXCEPT ![j].pc = "replace"]
        <4>1. jobs'[j].pc = "replace"
          BY <1>0, <3>1 DEF Commands
        <4>2. All(Live) = {}
          BY <3>1, EmptyType DEF Live, All
        <4> QED
          BY <1>2, <4>1, <4>2 DEF Secured
      <3>2. CASE jobs' = [jobs EXCEPT ![j] = IdleJob]
        BY <1>0, <2>0, <3>2, IdleShape
      <3>3. ASSUME NEW k \in Backups, jobs' = [jobs EXCEPT ![j].pc = "snapshot", ![j].safety = k]
            PROVE  jobs'[j].pc = "snapshot"
        BY <1>0, <3>3 DEF Commands
      <3> QED
        BY <2>0, <2>5, <3>1, <3>2, <3>3 DEF Stage
    <2>6. CASE Link(j)
      <3>1. jobs[j].pc = "link" /\ jobs'[j].pc = "replace"
        BY <1>0, <2>6 DEF Link, Commands
      <3>2. Secured(j)
        BY <1>1 DEF Safe
      <3> QED
        BY <1>2, <1>3, <3>1, <3>2 DEF Secured
    <2>7. CASE PinLive(j)
      <3>1. jobs'[j].pc = "recheck"
        BY <1>0, <2>7 DEF PinLive, Commands
      <3> QED
        BY <2>0, <3>1
    <2>8. CASE RecheckLive(j)
      <3>1. jobs'[j] = IdleJob \/ jobs'[j] = [jobs[j] EXCEPT !.pc = "swap", !.pinned = None]
        BY <1>0, <2>8 DEF RecheckLive
      <3>2. jobs'[j].pc \in {"idle", "swap"}
        BY <1>0, <3>1, IdleShape DEF Commands
      <3> QED
        BY <2>0, <3>2
    <2> QED
      BY <2>1, <2>2, <2>3, <2>4, <2>5, <2>6, <2>7, <2>8 DEF QuietStep
  <1>7. \A i \in Jobs : i # j => Secured(i)'
    BY <1>5, IdleShape DEF Secured
  <1> QED
    BY <1>4, <1>6, <1>7 DEF Safe

LEMMA LoudLoss ==
    ASSUME Exclusive, ShapeInv, LogInv, LossInv, NEW j \in Jobs,
           Snapshot(j) \/ Replace(j) \/ InspectReplaced(j) \/ Swap(j)
    PROVE  LossInv'
  <1> SUFFICES ASSUME ~torn' PROVE Safe'
    BY DEF LossInv
  <1>0. /\ TypeOK /\ jobs \in [Jobs -> Commands] /\ jobs[j] \in Commands /\ Maintenance(j)
        /\ CommandShape(jobs[j], backups, live) /\ [Next]_vars /\ backups \in [Backups -> Archive]
        /\ live \in Inodes \cup {None}
    BY Types DEF ShapeInv, JobShape, Maintenance, Next
  <1>1. ~torn /\ Safe /\ Untorn
    BY <1>0, TornStays DEF LossInv, LogInv
  <1>2. raced' = raced /\ \A x \in Rows : (Owed(x)' <=> Owed(x)) /\ (InCopy(x) => InCopy(x)')
    BY <1>0, CopiesGrow, MaintenanceOwes, MaintenanceKeeps
  <1>3. \A i \in Jobs : i # j => Secured(i)'
    BY LoudJobs, IdleShape DEF Secured
  <1>4. ASSUME \A x \in Rows : Owed(x) => InCopy(x) \/ x \in raced, jobs'[j].pc \in {"idle", "inspect"}
        PROVE  Safe'
    <2>1. KeptRows'
      BY <1>2, <1>4 DEF KeptRows
    <2>2. Secured(j)'
      BY <1>2, <1>4 DEF Secured
    <2> QED
      BY <1>3, <2>1, <2>2 DEF Safe
  <1>5. CASE Snapshot(j)
    <2>1. /\ live \in Inodes /\ live' = live /\ CloseLast(live, Writers) /\ ~Inspecting
          /\ jobs[j].pc = "snapshot"
      BY <1>0, <1>5, LoudJobs DEF Snapshot, InspectReplaced
    <2>2. Live' = Live /\ Live = View(live)
      BY <1>0, <2>1, CloseSame, Named DEF Live
    <2>3. KeptRows'
      BY <1>1, <1>2, <2>2 DEF Safe, KeptRows
    <2>4. \/ /\ backups' = [backups EXCEPT ![Target(j)] =
                                [state |-> "bare", img |-> View(live), signed |-> jobs[j].signed]]
             /\ jobs' = [jobs EXCEPT ![j].pc = "seal"]
          \/ jobs' = [jobs EXCEPT ![j] = IdleJob]
      BY <1>5 DEF Snapshot, SnapshotOf
    <2>5. CASE jobs' = [jobs EXCEPT ![j] = IdleJob]
      <3>1. Secured(j)'
        BY <1>0, <2>5, IdleShape DEF Secured
      <3> QED
        BY <1>3, <2>3, <3>1 DEF Safe
    <2>6. CASE /\ backups' = [backups EXCEPT ![Target(j)] =
                                [state |-> "bare", img |-> View(live), signed |-> jobs[j].signed]]
               /\ jobs' = [jobs EXCEPT ![j].pc = "seal"]
      <3>1. jobs'[j].pc = "seal" /\ jobs'[j].safety = jobs[j].safety
        BY <1>0, <2>6 DEF Commands
      <3>2. ASSUME jobs[j].safety # None PROVE backups'[jobs[j].safety].img = Live
        <4>1. Target(j) = jobs[j].safety /\ jobs[j].safety \in Backups
          BY <1>0, <3>2 DEF Target, Commands
        <4> QED
          BY <1>0, <2>2, <2>6, <4>1
      <3>3. Secured(j)'
        BY <2>2, <3>1, <3>2 DEF Secured
      <3> QED
        BY <1>3, <2>3, <3>3 DEF Safe
    <2> QED
      BY <2>4, <2>5, <2>6
  <1>6. CASE Replace(j)
    <2>1. jobs[j].pc = "replace" /\ jobs'[j].pc = "inspect"
      BY <1>0, <1>6 DEF Replace, Commands
    <2>2. \A x \in Rows : Owed(x) => InCopy(x) \/ x \in raced
      BY <1>1, <2>1 DEF Safe, KeptRows, Secured
    <2> QED
      BY <1>4, <2>1, <2>2
  <1>7. CASE InspectReplaced(j)
    <2>1. jobs[j].pc = "inspect" /\ jobs'[j].pc = "idle"
      BY <1>0, <1>7, IdleShape DEF InspectReplaced
    <2>2. \A x \in Rows : Owed(x) => InCopy(x) \/ x \in raced
      BY <1>1, <2>1 DEF Safe, Secured
    <2> QED
      BY <1>4, <2>1, <2>2
  <1>8. CASE Swap(j)
    <2>1. jobs[j].pc = "swap" /\ jobs'[j].pc = "idle"
      BY <1>0, <1>8, IdleShape DEF Swap
    <2>2. Live = backups[jobs[j].src].img
      BY <1>0, <1>1, <2>1 DEF Untorn, OldFile, Migrating, Live, View, CommandShape
    <2>3. jobs[j].src \in Backups /\ backups[jobs[j].src].state = "sealed"
      BY <1>0, <2>1 DEF CommandShape
    <2>4. \A x \in Rows : Owed(x) => InCopy(x) \/ x \in raced
      BY <1>1, <2>2, <2>3 DEF Safe, KeptRows, InCopy
    <2> QED
      BY <1>4, <2>1, <2>4
  <1> QED
    BY <1>5, <1>6, <1>7, <1>8

\* A migration in place keeps the rows, and a recovery keeps everything.
LEMMA StoreSame ==
    ASSUME ShapeInv, NEW j \in Jobs, ApplyMigration(j) \/ Recovers(j)
    PROVE  Live'.rows = Live.rows /\ Live'.ledger = Live.ledger
  <1>1. CASE ApplyMigration(j)
    <2>0. /\ TypeOK /\ live' = live /\ live \in Inodes /\ file \in [Inodes -> Content]
          /\ View(live) \in Content /\ live # None
      BY <1>1, Types, ViewType, Named DEF ShapeInv, ApplyMigration, Connectable
    <2> DEFINE img == [View(live) EXCEPT !.meta = "next"]
    <2>1. img \in Content /\ img.rows = View(live).rows /\ img.ledger = View(live).ledger
      BY <2>0 DEF Content
    <2>2. \/ wal' = [present |-> TRUE, of |-> live, img |-> img]
          \/ wal' = NoWal /\ file' = [file EXCEPT ![live] = img]
      BY <1>1 DEF ApplyMigration
    <2> HIDE DEF img
    <2>3. Live' = img
      BY <2>0, <2>1, <2>2, Named, NoWalEmpty DEF Live, View, Frames
    <2> QED
      BY <2>0, <2>1, <2>3 DEF Live
  <1>2. CASE Recovers(j)
    <2>1. live' = live /\ (UNCHANGED <<file, wal>> \/ Emptied)
      BY <1>2, RecoveryStep
    <2>2. Live' = Live
      BY <2>1 DEF Emptied, Live, View, Frames
    <2> QED
      BY <2>2
  <1> QED
    BY <1>1, <1>2

LEMMA InitializeSame ==
    ASSUME ShapeInv, LogInv, ~torn, Initialize
    PROVE  Live' = Empty /\ Live = Empty
  <1>0. TypeOK /\ wal' = wal /\ live = None /\ ~Frames
    BY NoStoreNoLog DEF ShapeInv, Initialize
  <1>1. live' \in Inodes /\ file'[live'] = Empty
    BY <1>0, PutEffect, EmptyType DEF Initialize, Images
  <1> QED
    BY <1>0, <1>1, Named DEF Live, View, Frames

LEMMA RecoveryLoss ==
    ASSUME Exclusive, ShapeInv, LogInv, LossInv, NEW j \in Jobs, Recovers(j)
    PROVE  LossInv'
  <1> SUFFICES ASSUME ~torn' PROVE Safe'
    BY DEF LossInv
  <1>0. /\ Maintenance(j) /\ [Next]_vars /\ jobs \in [Jobs -> Commands]
    BY Types DEF Recovers, Maintenance, Next, ShapeInv
  <1>1. Safe
    BY <1>0, TornStays DEF LossInv
  <1>2. raced' = raced /\ \A x \in Rows : (Owed(x)' <=> Owed(x)) /\ (InCopy(x) => InCopy(x)')
    BY <1>0, CopiesGrow, MaintenanceOwes, MaintenanceKeeps
  <1>3. All(Live') = All(Live)
    BY StoreSame DEF All
  <1>4. KeptRows'
    BY <1>1, <1>2, <1>3 DEF Safe, KeptRows
  <1>5. ASSUME NEW i \in Jobs PROVE Secured(i)'
    <2>1. jobs'[i].pc \in {"idle", "retire"}
      <3>1. PICK r : Advanced(j, r)
        BY RecoveryStep
      <3>2. i # j => jobs'[i].pc = "idle"
        BY <1>0, <3>1, OthersIdle, IdleShape DEF Advanced
      <3> QED
        BY <3>2, RecoveryStep
    <2> QED
      BY <2>1 DEF Secured
  <1> QED
    BY <1>4, <1>5 DEF Safe

LEMMA NextLoss == Exclusive /\ ShapeInv /\ LogInv /\ LossInv /\ [Next]_vars => LossInv'
  <1> SUFFICES ASSUME Exclusive, ShapeInv, LogInv, LossInv, [Next]_vars PROVE LossInv'
    OBVIOUS
  <1>1. ASSUME UNCHANGED <<jobs, backups, ws, reported, raced, torn>>, ~torn => All(Live') = All(Live)
        PROVE  LossInv'
    <2>1. \A x \in Rows : Owed(x)' => Owed(x)
      BY <1>1 DEF Owed
    <2> QED
      BY <1>1, <2>1, SameLive DEF LossInv
  <1>2. ASSUME NEW j \in Jobs, ApplyMigration(j) PROVE LossInv'
    <2>1. UNCHANGED <<jobs, backups, ws, reported, raced, torn>>
      BY <1>2 DEF ApplyMigration
    <2>2. All(Live') = All(Live)
      BY <1>2, StoreSame DEF All
    <2> QED
      BY <1>1, <2>1, <2>2
  <1>3. ASSUME NEW j \in Jobs, Maintenance(j) PROVE LossInv'
    BY <1>2, <1>3, QuietLoss, LoudLoss, RecoveryLoss DEF Maintenance, QuietStep, Recovers
  <1>4. ASSUME NEW k \in Backups, Expire(k) PROVE LossInv'
    <2>1. Live' = Live
      BY <1>4 DEF Expire, Live, View, Frames
    <2> QED
      BY <1>1, <1>4, <2>1 DEF Expire
  <1>5. CASE Initialize
    <2>1. UNCHANGED <<jobs, backups, ws, reported, raced, torn>>
      BY <1>5 DEF Initialize
    <2> QED
      BY <1>1, <1>5, <2>1, InitializeSame
  <1>6. CASE UNCHANGED vars
    <2>1. Live' = Live
      BY <1>6 DEF vars, Live, View, Frames
    <2> QED
      BY <1>1, <1>6, <2>1 DEF vars
  <1> QED
    BY <1>3, <1>4, <1>5, <1>6, SessionLoss DEF Next

\* What a writer was told is committed is in the store or in a backup with its receipt,
\* through every crash, restore, migration and recovery, for any number of sessions and
\* backups: connect(), create_backup, restore_backup and the migrations together.
THEOREM NoReportedRowLost == ASSUME Exclusive PROVE Spec => []NothingLost
  <1>1. ShapeInv /\ LossInv => NothingLost
    <2> SUFFICES ASSUME ShapeInv, LossInv, ~torn, NEW x \in reported
                 PROVE  x \in All(Live) \cup (UNION {All(c) : c \in Copies}) \cup raced
      BY DEF NothingLost
    <2>1. x \in Rows
      BY Types DEF ShapeInv
    <2>2. x \in All(Live) \/ InCopy(x) \/ x \in raced
      BY <2>1 DEF LossInv, Safe, KeptRows, Owed
    <2>3. InCopy(x) => x \in UNION {All(c) : c \in Copies}
      BY DEF InCopy, Copies
    <2> QED
      BY <2>2, <2>3
  <1>2. ShapeInv /\ [Next]_vars => ShapeInv'
    BY NextShape
  <1>3. ShapeInv /\ LogInv /\ [Next]_vars => LogInv'
    BY NextLog
  <1>4. ShapeInv /\ LogInv /\ LossInv /\ [Next]_vars => LossInv'
    BY NextLoss
  <1> QED
    BY <1>1, <1>2, <1>3, <1>4, InitShape, InitLog, InitLoss, PTL DEF Spec

-----------------------------------------------------------------------------
(* The authority ledger.  Every ledger that is stored anywhere is a chain  *)
(* with a head, and two of them agree up to every event that they share,   *)
(* so that a backup which holds the local head holds all that is local.    *)
(* Until the restore has inspected what it replaced, the ledger at the     *)
(* path and that of a session stay within the backup's, but for races.     *)

Ledgers ==
    {file[i].ledger : i \in Inodes} \cup {backups[k].img.ledger : k \in Backups}
    \cup (IF Frames THEN {wal.img.ledger} ELSE {})

Agree(A, B) == \A e \in A \cap B : \A x \in Events : x <= e => (x \in A <=> x \in B)

Chained ==
    /\ \A e \in issued : \A d \in Events : d < e => d \in issued
    /\ \A A \in Ledgers : A \subseteq issued /\ (A # {} => \E e \in A : \A x \in A : x <= e)
    /\ \A A, B \in Ledgers : Agree(A, B)

LEMMA InitChained == Init => Chained
  <1> SUFFICES ASSUME Init PROVE Chained
    OBVIOUS
  <1>1. PICK c \in {Empty} \cup {[Empty EXCEPT !.rows = {r}, !.meta = "old"] : r \in Captures} :
         /\ file = [n \in Inodes |-> IF n = 1 THEN c ELSE Empty]
         /\ \/ live = 1 /\ backups = [k \in Backups |-> NoBackup]
            \/ /\ live = None
               /\ backups = [k \in Backups |-> [NoBackup EXCEPT !.state = "sealed", !.img = c]]
    BY DEF Init
  <1>2. c.ledger = {} /\ Empty.ledger = {}
    <2>1. Empty \in Content /\ Empty.ledger = {}
      BY EmptyType DEF Images
    <2>2. \A r : [Empty EXCEPT !.rows = {r}, !.meta = "old"].ledger = {}
      BY <2>1 DEF Content
    <2> QED
      BY <1>1, <2>1, <2>2
  <1>3. wal = NoWal /\ issued = {}
    BY DEF Init
  <1>4. ~Frames
    BY <1>3, NoWalEmpty DEF Frames
  <1>5. \A i \in Inodes : file[i].ledger = {}
    BY <1>1, <1>2
  <1>6. \A k \in Backups : backups[k].img.ledger = {}
    <2>1. NoBackup.img = Empty
      BY DEF NoBackup
    <2>2. [NoBackup EXCEPT !.state = "sealed", !.img = c].img = c
      BY IdleTypes DEF Archive
    <2> QED
      BY <1>1, <1>2, <2>1, <2>2
  <1>7. \A A \in Ledgers : A = {}
    BY <1>4, <1>5, <1>6 DEF Ledgers
  <1> QED
    BY <1>3, <1>7 DEF Chained, Agree

\* Where a step copies ledgers around, or starts an empty one.
LEMMA CopiedChained ==
    ASSUME Chained, UNCHANGED issued, Ledgers' \subseteq Ledgers \cup {{}}
    PROVE  Chained'
  <1>1. \A A \in Ledgers' : A = {} \/ A \in Ledgers
    OBVIOUS
  <1> QED
    BY <1>1 DEF Chained, Agree

\* The event that a command commits is later than every one before it.
LEMMA GrownChained ==
    ASSUME Chained, TypeOK, NEW e \in Events \ issued, \A d \in Events : d < e => d \in issued,
           issued' = issued \cup {e}, NEW A \in Ledgers, Ledgers' \subseteq Ledgers \cup {A \cup {e}}
    PROVE  Chained'
  <1>0. issued \subseteq Events /\ Events \subseteq Nat
    BY Types, Named
  <1>1. \A x \in issued : x < e
    BY <1>0 DEF Chained
  <1>2. \A d \in Events : \A x \in issued' : d < x => d \in issued'
    BY <1>0 DEF Chained
  <1>3. \A B \in Ledgers : B \subseteq issued /\ e \notin B
    BY DEF Chained
  <1>4. \A B \in Ledgers : Agree(A \cup {e}, B) /\ Agree(B, A \cup {e})
    <2> SUFFICES ASSUME NEW B \in Ledgers, NEW y \in (A \cup {e}) \cap B, NEW x \in Events, x <= y
                 PROVE  x \in A \cup {e} <=> x \in B
      BY DEF Agree
    <2>1. y \in A /\ y \in B /\ y \in issued /\ Agree(A, B)
      BY <1>3 DEF Chained
    <2>2. x # e
      BY <1>0, <1>1, <2>1
    <2> QED
      BY <2>1, <2>2 DEF Agree
  <1>5. Agree(A \cup {e}, A \cup {e})
    BY DEF Agree
  <1>6. \A B, C \in Ledgers' : Agree(B, C)
    BY <1>4, <1>5 DEF Chained
  <1>7. \A B \in Ledgers' : B \subseteq issued' /\ (B # {} => \E h \in B : \A x \in B : x <= h)
    <2> SUFFICES ASSUME NEW B \in Ledgers'
                 PROVE  B \subseteq issued' /\ (B # {} => \E h \in B : \A x \in B : x <= h)
      OBVIOUS
    <2>1. CASE B \in Ledgers
      BY <2>1 DEF Chained
    <2>2. CASE B = A \cup {e}
      <3>1. B \subseteq issued' /\ e \in B
        BY <1>3, <2>2
      <3>2. \A x \in B : x <= e
        <4> SUFFICES ASSUME NEW x \in B PROVE x <= e
          OBVIOUS
        <4>1. x = e \/ (x \in issued /\ x < e)
          BY <1>1, <1>3, <2>2
        <4>2. x \in Nat /\ e \in Nat
          BY <1>0, <4>1
        <4> QED
          BY <4>1, <4>2
      <3> QED
        BY <3>1, <3>2
    <2> QED
      BY <2>1, <2>2
  <1> QED
    BY <1>2, <1>6, <1>7 DEF Chained

\* What a connection reads has a ledger that is stored.
LEMMA ViewLedger ==
    ASSUME NEW i \in Inodes
    PROVE  View(i).ledger \in Ledgers
  BY DEF View, Ledgers

\* A backup that holds the head of the store's ledger holds all of it.
LEMMA HeadHoldsAll ==
    ASSUME Chained, TypeOK, NEW k \in Backups, HeadIsKept(backups[k].img)
    PROVE  Live.ledger \subseteq backups[k].img.ledger
  <1> DEFINE A == Live.ledger
             B == backups[k].img.ledger
  <1> SUFFICES ASSUME NEW x \in A PROVE x \in B
    OBVIOUS
  <1>1. live # None /\ A \in Ledgers
    BY Types, ViewLedger, EmptyType DEF Live
  <1>2. B \in Ledgers /\ Agree(A, B) /\ A \subseteq issued /\ \E e \in A : \A d \in A : d <= e
    <2>1. B \in Ledgers /\ A # {}
      BY DEF Ledgers
    <2> HIDE DEF A, B
    <2> QED
      BY <1>1, <2>1 DEF Chained
  <1>3. Head(Live) \in A /\ \A d \in A : d <= Head(Live)
    BY <1>2 DEF Head
  <1>4. Head(Live) \in B
    BY DEF HeadIsKept
  <1>5. x \in Events
    BY <1>2, Types
  <1> QED
    BY <1>2, <1>3, <1>4, <1>5 DEF Agree

\* What a step leaves of the ledgers, where it does not commit an event.
Reused == Ledgers' \subseteq Ledgers \cup {{}}

LEMMA ReusedIs ==
    ASSUME \A i \in Inodes : file'[i].ledger \in Ledgers \cup {{}},
           \A k \in Backups : backups'[k].img.ledger \in Ledgers \cup {{}},
           Frames' => wal'.img.ledger \in Ledgers \cup {{}}
    PROVE  Reused
  BY DEF Reused, Ledgers

LEMMA StoredLedgers ==
    /\ \A i \in Inodes : file[i].ledger \in Ledgers
    /\ \A k \in Backups : backups[k].img.ledger \in Ledgers
    /\ Frames => wal.img.ledger \in Ledgers
  BY DEF Ledgers

LEMMA CheckpointReuses ==
    ASSUME TypeOK, NEW i \in Inodes,
           \/ UNCHANGED <<file, wal>>
           \/ wal' = NoWal /\ file' = IF Frames THEN [file EXCEPT ![i] = wal.img] ELSE file
    PROVE  /\ \A n \in Inodes : file'[n].ledger \in Ledgers
           /\ Frames' => wal'.img.ledger \in Ledgers
  <1>0. file \in [Inodes -> Content]
    BY Types
  <1>1. CASE UNCHANGED <<file, wal>>
    BY <1>1, StoredLedgers DEF Frames
  <1>2. CASE wal' = NoWal /\ file' = (IF Frames THEN [file EXCEPT ![i] = wal.img] ELSE file)
    <2>1. ~Frames'
      BY <1>2, NoWalEmpty DEF Frames
    <2>2. \A n \in Inodes : file'[n] = file[n] \/ (Frames /\ file'[n] = wal.img)
      BY <1>0, <1>2
    <2> QED
      BY <2>1, <2>2, StoredLedgers
  <1> QED
    BY <1>1, <1>2

LEMMA PutReuses ==
    ASSUME TypeOK, NEW c \in Content, Put(c), c.ledger \in Ledgers \cup {{}}, UNCHANGED <<wal, backups>>
    PROVE  Reused
  <1>1. \A i \in Inodes : file'[i].ledger \in Ledgers \cup {{}}
    <2>1. \A i \in Inodes : file'[i] \in {c, file[i], Empty}
      BY PutEffect
    <2> QED
      BY <2>1, StoredLedgers, EmptyType
  <1> QED
    BY <1>1, ReusedIs, StoredLedgers DEF Frames

LEMMA SessionReuses ==
    ASSUME ShapeInv, Chained, NEW w \in Writers, Session(w)
    PROVE  Chained'
  <1>0. TypeOK /\ SessionShape /\ backups' = backups /\ wal \in Logs
    BY SessionKeeps, Types DEF ShapeInv
  <1>1. ASSUME UNCHANGED <<file, issued>>, wal'.img = wal.img PROVE Chained'
    BY <1>0, <1>1 DEF Chained, Ledgers, Frames
  <1>2. CASE UNCHANGED <<file, wal, issued>>
    BY <1>1, <1>2
  <1>3. CASE VerifyHandle(w)
    <2>1. wal'.img = wal.img /\ UNCHANGED <<file, issued>>
      BY <1>0, <1>3 DEF VerifyHandle, Logs
    <2> QED
      BY <1>1, <2>1
  <1>4. ASSUME NEW img, NEW row, Appended(w, img, row), UNCHANGED file PROVE Chained'
    <2>1. ws[w].conn \in Inodes /\ wal'.img = img /\ Frames' /\ View(ws[w].conn) \in Content
      BY <1>0, <1>4, AppendedType, AppendedLog, ViewType
    <2> DEFINE A == View(ws[w].conn).ledger
    <2>2. A \in Ledgers
      BY <2>1, ViewLedger
    <2>3. Ledgers' \subseteq Ledgers \cup {img.ledger}
      BY <1>0, <1>4, <2>1 DEF Ledgers
    <2>4. CASE row \in Captures /\ img = [View(ws[w].conn) EXCEPT !.rows = @ \cup {row}] /\ UNCHANGED issued
      <3>1. img.ledger = A
        BY <2>1, <2>4 DEF Content
      <3> QED
        BY <2>2, <2>3, <2>4, <3>1, CopiedChained
    <2>5. CASE /\ row \in Events \ issued /\ \A d \in Events : d < row => d \in issued
               /\ img = [View(ws[w].conn) EXCEPT !.ledger = @ \cup {row}]
               /\ issued' = issued \cup {row}
      <3>1. img.ledger = A \cup {row}
        BY <2>1, <2>5 DEF Content
      <3> HIDE DEF A
      <3> QED
        BY <1>0, <2>2, <2>3, <2>5, <3>1, GrownChained
    <2> QED
      BY <1>4, <2>4, <2>5 DEF Appended
  <1>5. CASE Close(w)
    <2>1. ws[w].conn \in Inodes /\ issued' = issued
      BY <1>0, <1>5 DEF Close, SessionShape, Shaped
    <2>2. \/ UNCHANGED <<file, wal>>
          \/ wal' = NoWal /\ file' = IF Frames THEN [file EXCEPT ![ws[w].conn] = wal.img] ELSE file
      BY <1>5 DEF Close, CloseLast, Checkpoint
    <2>3. Reused
      BY <1>0, <2>1, <2>2, CheckpointReuses, ReusedIs, StoredLedgers
    <2> QED
      BY <2>1, <2>3, CopiedChained DEF Reused
  <1> QED
    BY <1>0, <1>2, <1>3, <1>4, <1>5, SessionLog

LEMMA MaintenanceReuses ==
    ASSUME ShapeInv, Chained, NEW j \in Jobs, Maintenance(j)
    PROVE  Chained'
  <1>0. /\ TypeOK /\ jobs \in [Jobs -> Commands] /\ jobs[j] \in Commands /\ issued' = issued
        /\ CommandShape(jobs[j], backups, live) /\ backups \in [Backups -> Archive]
        /\ live \in Inodes \cup {None} /\ file \in [Inodes -> Content]
    BY Types, MaintenanceKeeps DEF ShapeInv, JobShape
  <1> SUFFICES Reused
    BY <1>0, CopiedChained DEF Reused
  <1>1. ASSUME UNCHANGED <<file, wal>>, \A k \in Backups : backups'[k].img.ledger \in Ledgers \cup {{}}
        PROVE  Reused
    BY <1>1, ReusedIs, StoredLedgers DEF Frames
  <1>2. CASE SealFails(j)
    <2>1. Target(j) \in Backups
      BY <1>0, <1>2, TargetIs DEF SealFails, CommandShape, TargetOf, Commands
    <2>2. NoBackup.img.ledger = {}
      BY EmptyType DEF NoBackup
    <2>3. \A k \in Backups : backups'[k] \in {backups[k], NoBackup}
      BY <1>0, <1>2, <2>1 DEF SealFails
    <2> QED
      BY <1>1, <1>2, <2>2, <2>3, StoredLedgers DEF SealFails
  <1>3. CASE Seal(j)
    <2>1. \A k \in Backups : backups'[k].img = backups[k].img
      BY <1>0, <1>3 DEF Seal, Archive
    <2> QED
      BY <1>1, <1>3, <2>1, StoredLedgers DEF Seal
  <1>4. CASE UNCHANGED <<file, wal, backups>>
    BY <1>1, <1>4, StoredLedgers
  <1>5. CASE Snapshot(j)
    <2>1. /\ live \in Inodes
          /\ \/ UNCHANGED <<file, wal>>
             \/ wal' = NoWal /\ file' = IF Frames THEN [file EXCEPT ![live] = wal.img] ELSE file
      BY <1>0, <1>5 DEF Snapshot, CloseLast, Checkpoint
    <2>2. Target(j) \in Backups
      BY <1>0, <1>5, TargetIs DEF Snapshot, CommandShape, TargetOf, Commands
    <2>3. \A k \in Backups : backups'[k].img \in {backups[k].img, View(live)}
      BY <1>0, <1>5, <2>2 DEF Snapshot, SnapshotOf
    <2>4. View(live).ledger \in Ledgers
      BY <2>1, ViewLedger
    <2> QED
      BY <1>0, <2>1, <2>3, <2>4, CheckpointReuses, ReusedIs, StoredLedgers
  <1>6. CASE Replace(j)
    <2>1. jobs[j].src \in Backups
      BY <1>0, <1>6 DEF Replace, CommandShape
    <2>2. backups[jobs[j].src].img \in Content
      BY <1>0, <2>1 DEF Archive, Images
    <2> QED
      BY <1>0, <1>6, <2>1, <2>2, PutReuses, StoredLedgers DEF Replace
  <1>7. CASE Swap(j)
    <2> DEFINE c == [backups[jobs[j].src].img EXCEPT !.meta = "current"]
    <2>1. jobs[j].src \in Backups
      BY <1>0, <1>7 DEF Swap, CommandShape
    <2>2. backups[jobs[j].src].img \in Content
      BY <1>0, <2>1 DEF Archive, Images
    <2>3. c \in Content /\ c.ledger = backups[jobs[j].src].img.ledger
      BY <2>2 DEF Content
    <2>4. Put(c) /\ UNCHANGED <<wal, backups>>
      BY <1>7 DEF Swap
    <2> HIDE DEF c
    <2> QED
      BY <1>0, <2>1, <2>3, <2>4, PutReuses, StoredLedgers
  <1>8. CASE ApplyMigration(j)
    <2> DEFINE img == [View(live) EXCEPT !.meta = "next"]
    <2>1. live \in Inodes /\ backups' = backups
      BY <1>0, <1>8 DEF ApplyMigration, Connectable
    <2>2. View(live) \in Content
      BY <1>0, <2>1, ViewType
    <2>3. img.ledger = View(live).ledger
      BY <2>2 DEF Content
    <2>4. img.ledger \in Ledgers
      BY <2>1, <2>3, ViewLedger
    <2>5. \/ wal' = [present |-> TRUE, of |-> live, img |-> img] /\ UNCHANGED file
          \/ wal' = NoWal /\ file' = [file EXCEPT ![live] = img]
      BY <1>8 DEF ApplyMigration
    <2> HIDE DEF img
    <2>6. \A i \in Inodes : file'[i] = file[i] \/ file'[i] = img
      BY <1>0, <2>5
    <2>7. Frames' => wal'.img = img
      BY <2>5, NoWalEmpty DEF Frames
    <2> QED
      BY <2>1, <2>4, <2>6, <2>7, ReusedIs, StoredLedgers
  <1>9. CASE Recovers(j)
    <2>1. backups' = backups /\ (UNCHANGED <<file, wal>> \/ Emptied)
      BY <1>9, RecoveryStep
    <2>2. \A i \in Inodes : file'[i].ledger \in Ledgers
      BY <2>1, StoredLedgers DEF Emptied
    <2>3. Frames' => wal'.img.ledger \in Ledgers
      BY <2>1, StoredLedgers DEF Emptied, Frames
    <2> QED
      BY <2>1, <2>2, <2>3, ReusedIs, StoredLedgers
  <1>10. ASSUME StartBackup(j) \/ StartRestore(j) \/ Stage(j) \/ Link(j) \/ InspectReplaced(j)
                \/ StartMigration(j) \/ PinLive(j) \/ RecheckLive(j) \/ JobCrash(j)
         PROVE  Reused
    BY <1>4, <1>10 DEF StartBackup, StartRestore, Stage, Link, InspectReplaced, StartMigration, PinLive,
                       RecheckLive, JobCrash
  <1> QED
    BY <1>2, <1>3, <1>5, <1>6, <1>7, <1>8, <1>9, <1>10 DEF Maintenance, Recovers

LEMMA NextChained == ShapeInv /\ Chained /\ [Next]_vars => Chained'
  <1> SUFFICES ASSUME ShapeInv, Chained, [Next]_vars PROVE Chained'
    OBVIOUS
  <1>1. ASSUME UNCHANGED <<file, wal, backups, issued>> PROVE Chained'
    <2>1. Ledgers' = Ledgers
      BY <1>1 DEF Ledgers, Frames
    <2> QED
      BY <1>1, <2>1 DEF Chained, Agree
  <1>2. CASE Initialize
    <2>1. Put(Empty) /\ UNCHANGED <<wal, backups, issued>> /\ TypeOK
      BY <1>2 DEF Initialize, ShapeInv
    <2>2. Reused
      BY <2>1, PutReuses, EmptyType DEF Images
    <2> QED
      BY <2>1, <2>2, CopiedChained DEF Reused
  <1>3. ASSUME NEW k \in Backups, Expire(k) PROVE Chained'
    BY <1>1, <1>3 DEF Expire
  <1> QED
    BY <1>1, <1>2, <1>3, SessionReuses, MaintenanceReuses DEF Next, vars

\* A restore that has verified its backup and has still the file in hand.
Restores(j) == Restoring(j) \/ jobs[j].pc = "inspect"

\* What c records is in the backup that j restores, or raced the restore.
Covered(c, j) == \A e \in c.ledger : e \in backups[jobs[j].src].img.ledger \/ e \in raced

Followed(j) ==
    Restores(j) =>
        \/ backups[jobs[j].src].img.ledger = {}
        \/ /\ Covered(Live, j)
           /\ \A w \in Writers : Ready(w) => Covered(View(ws[w].conn), j)
           /\ jobs[j].pc = "inspect" => Covered(file[live], j)

LedgerInv == Chained /\ (torn \/ \A j \in Jobs : Followed(j))

LEMMA InitLedger == Init => LedgerInv
  <1>1. Init => \A j \in Jobs : jobs[j] = IdleJob
    BY DEF Init
  <1> QED
    BY <1>1, InitChained, IdleShape DEF LedgerInv, Followed, Restores, Restoring

\* The backup that is being restored stays, and so does what it covers.
LEMMA CoveredStays ==
    ASSUME ShapeInv, [Next]_vars, NEW j \in Jobs, Restores(j), jobs'[j].src = jobs[j].src,
           raced \subseteq raced'
    PROVE  /\ backups'[jobs'[j].src].img.ledger = backups[jobs[j].src].img.ledger
           /\ \A c : Covered(c, j) =>
                   \A e \in c.ledger : e \in backups'[jobs'[j].src].img.ledger \/ e \in raced'
  <1>1. jobs[j].src \in Backups /\ backups[jobs[j].src].state = "sealed"
    BY IdleShape DEF Restores, Restoring, ShapeInv, JobShape, CommandShape
  <1>2. backups'[jobs[j].src].img = backups[jobs[j].src].img
    BY <1>1, CopiesStay
  <1> QED
    BY <1>2 DEF Covered

\* Outside an inspection every session that may write reads what the path holds.
LEMMA ReadyReadsLive ==
    ASSUME ShapeInv, Untorn, ~Inspecting, NEW w \in Writers, Ready(w)
    PROVE  ws[w].conn = live /\ live \in Inodes /\ View(ws[w].conn) = Live
  <1>1. ws[w].conn \in Inodes /\ ws[w].conn = live
    BY DEF ShapeInv, SessionShape, Shaped, Ready, Untorn, ReadyOnPath
  <1> QED
    BY <1>1, Named DEF Live

LEMMA SessionFollowed ==
    ASSUME ShapeInv, LogInv, LedgerInv, NEW w \in Writers, Session(w), ~torn', NEW j \in Jobs
    PROVE  Followed(j)'
  <1>0. /\ TypeOK /\ SessionShape /\ UNCHANGED <<live, jobs, backups>> /\ [Next]_vars
        /\ ws \in [Writers -> Sessions] /\ wal \in Logs /\ live \in Inodes \cup {None}
        /\ file \in [Inodes -> Content]
    BY SessionKeeps, Types DEF ShapeInv, Next
  <1>1. ~torn /\ Untorn /\ Followed(j)
    BY <1>0, TornStays DEF LogInv, LedgerInv
  <1>2. PICK r : Moved(w, r) /\ ws' = [ws EXCEPT ![w] = r]
    BY <1>0, SessionMoves
  <1>3. \A v \in Writers : ws'[v] = IF v = w THEN r ELSE ws[v]
    BY <1>0, <1>2
  <1> SUFFICES ASSUME Restores(j), backups[jobs[j].src].img.ledger # {}
               PROVE  /\ Covered(Live, j)'
                      /\ \A v \in Writers : Ready(v)' => Covered(View(ws[v].conn), j)'
                      /\ jobs[j].pc = "inspect" => Covered(file[live], j)'
    BY <1>0 DEF Followed, Restores, Restoring
  <1>4. /\ Covered(Live, j) /\ \A v \in Writers : Ready(v) => Covered(View(ws[v].conn), j)
        /\ jobs[j].pc = "inspect" => Covered(file[live], j)
    BY <1>1 DEF Followed
  \* Who may write afterwards.
  <1>5. \A v \in Writers : Ready(v)' =>
           /\ ws'[v].conn = ws[v].conn /\ ws[v].conn \in Inodes
           /\ Ready(v) \/ (v = w /\ VerifyHandle(w) /\ ws[v].conn = live)
    <2>1. ASSUME r.pc \in {"ready", "commit"}
          PROVE  /\ r.conn = ws[w].conn /\ ws[w].conn \in Inodes
                 /\ Ready(w) \/ (VerifyHandle(w) /\ ws[w].conn = live)
      <3>1. r.conn = ws[w].conn /\ (Reading(w) \/ VerifyHandle(w))
        BY <1>0, <1>2, <2>1, MovedFields
      <3>2. ws[w].conn \in Inodes
        BY <1>0, <3>1 DEF SessionShape, Shaped, Reading, VerifyHandle
      <3>3. CASE r.pc = "commit"
        BY <1>0, <1>2, <3>1, <3>2, <3>3, MovedFields DEF Ready
      <3>4. CASE r.pc = "ready"
        <4>1. VerifyHandle(w) /\ ws[w].id = live
          BY <1>0, <1>2, <3>4, MovedFields
        <4> QED
          BY <1>1, <3>1, <3>2, <4>1, Named DEF Untorn, SamePlace
      <3> QED
        BY <2>1, <3>3, <3>4
    <2>2. \A v \in Writers : Ready(v) => ws[v].conn \in Inodes
      BY <1>0 DEF Ready, SessionShape, Shaped
    <2> QED
      BY <1>3, <2>1, <2>2 DEF Ready
  \* The store is left as it is.
  <1>6. ASSUME UNCHANGED <<file, raced>>, wal'.img = wal.img
        PROVE  /\ Covered(Live, j)'
               /\ \A v \in Writers : Ready(v)' => Covered(View(ws[v].conn), j)'
               /\ jobs[j].pc = "inspect" => Covered(file[live], j)'
    <2>1. Live' = Live /\ file'[live] = file[live]
      BY <1>0, <1>6 DEF Live, View, Frames
    <2>2. \A v \in Writers : View(ws[v].conn)' = IF Frames THEN wal.img ELSE file[ws'[v].conn]
      BY <1>6 DEF View, Frames
    <2>3. ASSUME NEW v \in Writers, Ready(v)' PROVE Covered(View(ws[v].conn)', j)
      <3>1. View(ws[v].conn)' = View(ws[v].conn)
        BY <1>5, <2>2, <2>3 DEF View
      <3>2. ws[v].conn = live => View(ws[v].conn) = Live
        BY <1>5, <2>3, Named DEF Live
      <3> QED
        BY <1>4, <1>5, <2>3, <3>1, <3>2
    <2> QED
      BY <1>0, <1>4, <1>6, <2>1, <2>3 DEF Covered
  <1>7. CASE UNCHANGED <<file, wal, raced>>
    BY <1>6, <1>7
  <1>8. CASE VerifyHandle(w)
    <2>1. UNCHANGED <<file, raced>> /\ wal'.img = wal.img
      BY <1>0, <1>8 DEF VerifyHandle, Logs
    <2> QED
      BY <1>6, <2>1
  <1>9. ASSUME NEW img, NEW row, Appended(w, img, row), UNCHANGED file
        PROVE  /\ Covered(Live, j)'
               /\ \A v \in Writers : Ready(v)' => Covered(View(ws[v].conn), j)'
               /\ jobs[j].pc = "inspect" => Covered(file[live], j)'
    <2>1. /\ wal'.img = img /\ Frames' /\ raced \subseteq raced' /\ ws[w].conn \in Inodes
          /\ \/ img.ledger = View(ws[w].conn).ledger
             \/ row \in Events /\ img.ledger = View(ws[w].conn).ledger \cup {row}
          /\ row \in raced' \/ \A i \in Jobs : ~Window(i) /\ (row \in Events => ~Restoring(i))
      BY <1>0, <1>9, AppendedType, AppendedLog
    <2>2. Ready(w)
      BY <1>9 DEF Appended, Ready
    <2>3. row \in Events => row \in raced'
      BY <2>1 DEF Restores, Window
    <2>4. \A e \in img.ledger : e \in backups[jobs[j].src].img.ledger \/ e \in raced'
      BY <1>4, <2>1, <2>2, <2>3 DEF Covered
    <2>5. \A i : View(i)' = img
      BY <2>1 DEF View
    <2>6. Live' = img \/ Live' = Empty
      BY <2>1 DEF Live, View
    <2> QED
      BY <1>0, <1>4, <1>9, <2>1, <2>4, <2>5, <2>6, EmptyType DEF Covered, View
  <1>10. CASE Close(w)
    <2>1. ws[w].conn \in Inodes /\ CloseLast(ws[w].conn, Writers \ {w}) /\ raced' = raced
      BY <1>0, <1>10 DEF Close, SessionShape, Shaped
    <2>2. CASE UNCHANGED <<file, wal>>
      BY <1>6, <2>1, <2>2
    <2>3. CASE /\ wal' = NoWal /\ \A v \in Writers \ {w} : ~Reading(v)
               /\ file' = IF Frames THEN [file EXCEPT ![ws[w].conn] = wal.img] ELSE file
      <3>1. \A v \in Writers : ~Ready(v)'
        <4>1. r.pc \notin {"ready", "commit"}
          <5>1. ws' = [ws EXCEPT ![w] = IdleWriter]
            BY <1>10 DEF Close
          <5> QED
            BY <1>0, <1>3, <5>1 DEF IdleWriter
        <4> QED
          BY <1>3, <2>3, <4>1 DEF Ready, Reading
      <3>2. ~Frames'
        BY <2>3, NoWalEmpty DEF Frames
      <3>3. CASE Inspecting
        <4>1. jobs[j].pc = "inspect" /\ live \in Inodes
          <5>1. jobs[j].pc # "idle"
            BY IdleShape DEF Restores, Restoring, ShapeInv, JobShape, CommandShape
          <5>2. jobs[j].pc = "inspect"
            BY <3>3, <5>1 DEF Inspecting, ShapeInv, OneCommand
          <5> QED
            BY <1>0, <5>2 DEF ShapeInv, JobShape, CommandShape
        <4>2. Live' = file'[live]
          BY <1>0, <3>2, <4>1, Named DEF Live, View
        <4>3. file'[live] = file[live] \/ (Frames /\ file'[live] = wal.img)
          BY <1>0, <2>3, <4>1
        <4>4. Frames => Live = wal.img
          BY <4>1, Named DEF Live, View
        <4>5. Covered(file'[live], j)
          BY <1>4, <4>1, <4>3, <4>4
        <4> QED
          BY <1>0, <2>1, <3>1, <4>2, <4>5 DEF Covered
      <3>4. CASE ~Inspecting
        <4>1. Live' = Live
          BY <1>0, <2>1, <3>4, CloseSame
        <4>2. jobs[j].pc # "inspect"
          BY <3>4 DEF Inspecting
        <4> QED
          BY <1>0, <1>4, <2>1, <3>1, <4>1, <4>2 DEF Covered
      <3> QED
        BY <3>3, <3>4
    <2> QED
      BY <2>1, <2>2, <2>3, CloseAlone
  <1> QED
    BY <1>0, <1>7, <1>8, <1>9, <1>10, SessionLog

\* A restore goes on, and the store with its log stays as it was for whoever may write.
LEMMA FollowedOn ==
    ASSUME ShapeInv, [Next]_vars, NEW j \in Jobs, Followed(j), Restores(j), jobs'[j].src = jobs[j].src,
           raced' = raced, jobs'[j].pc # "inspect", Live' = Live,
           \A w \in Writers : Ready(w)' => Ready(w) /\ View(ws[w].conn)' = View(ws[w].conn)
    PROVE  Followed(j)'
  <1>1. backups'[jobs'[j].src].img.ledger = backups[jobs[j].src].img.ledger
    BY CoveredStays
  <1> QED
    BY <1>1 DEF Followed, Covered

\* The verification of a backup that carries authority: what the store records is in it.
LEMMA VerifiedCovers ==
    ASSUME ShapeInv, LogInv, Chained, ~torn, NEW k \in Backups, Verified(k),
           backups[k].img.ledger # {}
    PROVE  Live.ledger \subseteq backups[k].img.ledger
  <1>1. live # None => HeadIsKept(backups[k].img)
    BY DEF Verified, AuthorityVerified
  <1>2. CASE live = None
    BY <1>2, EmptyType DEF Live
  <1>3. CASE live # None
    BY <1>1, <1>3, HeadHoldsAll DEF ShapeInv
  <1> QED
    BY <1>2, <1>3

LEMMA QuietFollowed ==
    ASSUME Exclusive, ShapeInv, LogInv, LedgerInv, NEW j \in Jobs, QuietStep(j), ~torn'
    PROVE  Followed(j)'
  <1>0. /\ TypeOK /\ jobs \in [Jobs -> Commands] /\ jobs[j] \in Commands /\ Maintenance(j)
        /\ CommandShape(jobs[j], backups, live) /\ [Next]_vars
    BY Types DEF ShapeInv, JobShape, QuietStep, Maintenance, Next
  <1>1. ~torn /\ Untorn /\ Followed(j) /\ Chained
    BY <1>0, TornStays DEF LogInv, LedgerInv
  <1>2. UNCHANGED <<file, live, wal, ws, raced>>
    BY DEF QuietStep, StartBackup, Seal, SealFails, StartRestore, Stage, Link, StartMigration, PinLive,
           RecheckLive, JobCrash
  <1>3. Live' = Live /\ \A w \in Writers : /\ Ready(w)' => Ready(w)
                                           /\ View(ws[w].conn)' = View(ws[w].conn)
    BY <1>2 DEF Live, View, Frames, Ready
  <1>4. ASSUME Restores(j), jobs'[j].src = jobs[j].src, jobs'[j].pc # "inspect" PROVE Followed(j)'
    BY <1>0, <1>1, <1>2, <1>3, <1>4, FollowedOn
  <1>5. ASSUME jobs'[j].pc \notin {"stage", "replace", "inspect"}, jobs'[j].safety = None
        PROVE  Followed(j)'
    BY <1>5 DEF Followed, Restores, Restoring
  <1>6. jobs' = [jobs EXCEPT ![j] = IdleJob] => Followed(j)'
    BY <1>0, <1>5, IdleShape
  <1>7. CASE StartBackup(j)
    <2>1. \E k, s : jobs' = [jobs EXCEPT ![j] = [IdleJob EXCEPT !.pc = "snapshot", !.src = k,
                                                   !.signed = s]]
      BY <1>7 DEF StartBackup
    <2>2. jobs'[j].pc = "snapshot" /\ jobs'[j].safety = None
      BY <1>0, <2>1 DEF IdleJob
    <2> QED
      BY <1>5, <2>2
  <1>8. CASE StartMigration(j)
    <2>1. \E k : jobs' = [jobs EXCEPT ![j] = [IdleJob EXCEPT !.pc = "pin", !.src = k]]
      BY <1>8 DEF StartMigration
    <2>2. jobs'[j].pc = "pin" /\ jobs'[j].safety = None
      BY <1>0, <2>1 DEF IdleJob
    <2> QED
      BY <1>5, <2>2
  <1>9. CASE StartRestore(j)
    <2>1. PICK k \in Backups :
            Verified(k) /\ jobs' = [jobs EXCEPT ![j] = [IdleJob EXCEPT !.pc = "stage", !.src = k]]
      BY <1>9 DEF StartRestore
    <2>2. jobs'[j].pc = "stage" /\ jobs'[j].src = k
      BY <1>0, <2>1 DEF IdleJob
    <2>3. backups' = backups /\ ~Inspecting
      BY <1>9, AllIdle, IdleShape DEF StartRestore, Inspecting
    <2>4. ASSUME backups[k].img.ledger # {}
          PROVE  /\ Live'.ledger \subseteq backups[k].img.ledger
                 /\ \A w \in Writers : Ready(w)' => View(ws[w].conn)'.ledger \subseteq backups[k].img.ledger
      <3>1. Live.ledger \subseteq backups[k].img.ledger
        BY <1>1, <2>1, <2>4, VerifiedCovers
      <3>2. \A w \in Writers : Ready(w) => View(ws[w].conn) = Live
        BY <1>1, <2>3, ReadyReadsLive
      <3> QED
        BY <1>3, <3>1, <3>2
    <2> QED
      BY <2>2, <2>3, <2>4 DEF Followed, Covered
  <1>10. CASE SealFails(j) \/ JobCrash(j)
    BY <1>6, <1>10 DEF SealFails, JobCrash
  <1>11. CASE Seal(j)
    <2>1. CASE jobs[j].safety = None
      BY <1>6, <1>11, <2>1 DEF Seal
    <2>2. CASE jobs[j].safety # None
      <3>1. jobs'[j].src = jobs[j].src /\ jobs'[j].pc = "link"
        BY <1>0, <1>11, <2>2 DEF Seal, Commands
      <3> QED
        BY <1>4, <2>2, <3>1 DEF Restores, Restoring
    <2> QED
      BY <2>1, <2>2
  <1>12. CASE Stage(j)
    <2>0. Restores(j)
      BY <1>12 DEF Stage, Restores, Restoring
    <2>1. CASE jobs' = [jobs EXCEPT ![j].pc = "replace"]
      <3>1. jobs'[j].src = jobs[j].src /\ jobs'[j].pc = "replace"
        BY <1>0, <2>1 DEF Commands
      <3> QED
        BY <1>4, <2>0, <3>1
    <2>2. ASSUME NEW k \in Backups, jobs' = [jobs EXCEPT ![j].pc = "snapshot", ![j].safety = k]
          PROVE  jobs'[j].src = jobs[j].src /\ jobs'[j].pc = "snapshot"
      BY <1>0, <2>2 DEF Commands
    <2> QED
      BY <1>4, <1>6, <1>12, <2>0, <2>1, <2>2 DEF Stage
  <1>13. CASE Link(j)
    <2>1. jobs'[j].src = jobs[j].src /\ jobs'[j].pc = "replace"
      BY <1>0, <1>13 DEF Link, Commands
    <2>2. jobs[j].pc = "link" /\ jobs[j].safety # None
      BY <1>0, <1>13 DEF Link, CommandShape
    <2> QED
      BY <1>4, <2>1, <2>2 DEF Restores, Restoring
  <1>14. CASE PinLive(j)
    <2>1. jobs'[j].pc = "recheck" /\ jobs'[j].safety = jobs[j].safety /\ jobs[j].pc = "pin"
      BY <1>0, <1>14 DEF PinLive, Commands
    <2> QED
      BY <1>0, <1>5, <2>1 DEF CommandShape
  <1>15. CASE RecheckLive(j)
    <2>1. \/ jobs' = [jobs EXCEPT ![j] = IdleJob]
          \/ jobs' = [jobs EXCEPT ![j] = [jobs[j] EXCEPT !.pc = "swap", !.pinned = None]]
      BY <1>0, <1>15 DEF RecheckLive
    <2>2. CASE jobs' = [jobs EXCEPT ![j] = [jobs[j] EXCEPT !.pc = "swap", !.pinned = None]]
      <3>1. jobs'[j].pc = "swap" /\ jobs'[j].safety = jobs[j].safety
        BY <1>0, <2>2 DEF Commands
      <3>2. jobs[j].safety = None
        BY <1>0, <1>15 DEF RecheckLive, CommandShape
      <3> QED
        BY <1>5, <3>1, <3>2
    <2> QED
      BY <1>6, <2>1, <2>2
  <1> QED
    BY <1>7, <1>8, <1>9, <1>10, <1>11, <1>12, <1>13, <1>14, <1>15 DEF QuietStep

LEMMA LoudFollowed ==
    ASSUME Exclusive, ShapeInv, LogInv, LedgerInv, NEW j \in Jobs, ~torn',
           Snapshot(j) \/ Replace(j) \/ InspectReplaced(j) \/ Swap(j)
    PROVE  Followed(j)'
  <1>0. /\ TypeOK /\ jobs \in [Jobs -> Commands] /\ jobs[j] \in Commands /\ Maintenance(j)
        /\ CommandShape(jobs[j], backups, live) /\ [Next]_vars /\ backups \in [Backups -> Archive]
        /\ live \in Inodes \cup {None} /\ UNCHANGED <<ws, raced>>
    BY Types, MaintenanceKeeps DEF ShapeInv, JobShape, Maintenance, Next
  <1>1. ~torn /\ Untorn /\ Followed(j) /\ Chained
    BY <1>0, TornStays DEF LogInv, LedgerInv
  <1>2. jobs' = [jobs EXCEPT ![j] = IdleJob] => Followed(j)'
    BY <1>0, IdleShape DEF Followed, Restores, Restoring
  <1>3. CASE InspectReplaced(j) \/ Swap(j)
    BY <1>2, <1>3 DEF InspectReplaced, Swap
  <1>4. CASE Snapshot(j) /\ jobs' = [jobs EXCEPT ![j].pc = "seal"]
    <2>1. /\ live' = live /\ live \in Inodes /\ CloseLast(live, Writers) /\ ~Inspecting
          /\ jobs[j].pc = "snapshot"
      BY <1>0, <1>4, LoudJobs DEF Snapshot, InspectReplaced
    <2>2. jobs'[j].pc = "seal" /\ jobs'[j].src = jobs[j].src /\ jobs'[j].safety = jobs[j].safety
      BY <1>0, <1>4 DEF Commands
    <2>3. Live' = Live /\ Live = View(live) /\ Live' = View(live)'
      BY <1>0, <2>1, CloseSame, Named DEF Live
    <2>4. \A w \in Writers : Ready(w)' => Ready(w) /\ View(ws[w].conn)' = View(ws[w].conn)
      <3> SUFFICES ASSUME NEW w \in Writers, Ready(w) PROVE View(ws[w].conn)' = View(ws[w].conn)
        BY <1>0 DEF Ready
      <3>1. ws[w].conn = live
        BY <1>1, <2>1, ReadyReadsLive
      <3> QED
        BY <1>0, <2>1, <2>3, <3>1 DEF View
    <2>5. CASE jobs[j].safety # None
      <3>1. Restores(j)
        BY <2>5 DEF Restores, Restoring
      <3> QED
        BY <1>0, <1>1, <2>2, <2>3, <2>4, <3>1, FollowedOn
    <2>6. CASE jobs[j].safety = None
      BY <2>2, <2>6 DEF Followed, Restores, Restoring
    <2> QED
      BY <2>5, <2>6
  <1>5. CASE Replace(j)
    <2> DEFINE L == backups[jobs[j].src].img.ledger
    <2>1. /\ jobs[j].pc = "replace" /\ jobs[j].src \in Backups /\ ~Inspecting
          /\ UNCHANGED <<wal, backups>> /\ Restores(j)
      BY <1>0, <1>5, LoudJobs DEF Replace, CommandShape, InspectReplaced, Restores, Restoring
    <2>2. backups[jobs[j].src].img \in Content
      BY <1>0, <2>1 DEF Archive, Images
    <2>3. /\ live' \in Inodes /\ file'[live'] = backups[jobs[j].src].img
          /\ \A w \in Writers : ws[w].conn \in Inodes => file'[ws[w].conn] = file[ws[w].conn]
      BY <1>0, <1>5, <2>2, PutEffect DEF Replace
    <2>4. jobs'[j].src = jobs[j].src
      BY <1>0, <1>5 DEF Replace, Commands
    <2>5. ASSUME L # {}
          PROVE  /\ Covered(Live', j) /\ Covered(file'[live'], j)
                 /\ \A w \in Writers : Ready(w) => Covered(View(ws[w].conn)', j)
      <3>0. Covered(Live, j)
        BY <1>1, <2>1, <2>5 DEF Followed
      <3>1. Covered(file'[live'], j)
        BY <2>3 DEF Covered
      <3>2. Live' = IF Frames THEN wal.img ELSE file'[live']
        BY <2>1, <2>3, Named DEF Live, View, Frames
      <3>3. Frames => Live = wal.img
        <4>1. Frames => live # None
          BY <1>1, NoStoreNoLog
        <4> QED
          BY <4>1 DEF Live, View
      <3>4. ASSUME NEW w \in Writers, Ready(w) PROVE View(ws[w].conn)' = Live
        <4>1. ws[w].conn = live /\ live \in Inodes /\ View(ws[w].conn) = Live
          BY <1>1, <2>1, <3>4, ReadyReadsLive
        <4>2. file'[ws[w].conn] = file[ws[w].conn]
          BY <2>3, <3>4, <4>1
        <4> QED
          BY <1>0, <2>1, <4>1, <4>2 DEF View, Frames
      <3> QED
        BY <3>0, <3>1, <3>2, <3>3, <3>4
    <2> QED
      BY <1>0, <2>1, <2>4, <2>5 DEF Followed, Covered, Ready
  <1> QED
    BY <1>2, <1>3, <1>4, <1>5 DEF Snapshot

LEMMA NextLedger == Exclusive /\ ShapeInv /\ LogInv /\ LedgerInv /\ [Next]_vars => LedgerInv'
  <1> SUFFICES ASSUME Exclusive, ShapeInv, LogInv, LedgerInv, [Next]_vars, ~torn', NEW i \in Jobs
               PROVE  Followed(i)'
    BY NextChained DEF LedgerInv
  <1>0. ~torn /\ Untorn /\ TypeOK /\ Followed(i) /\ jobs \in [Jobs -> Commands]
    BY TornStays, Types DEF LogInv, ShapeInv, LedgerInv
  <1>1. ASSUME NEW j \in Jobs, Maintenance(j) PROVE Followed(i)'
    <2>1. CASE ApplyMigration(j)
      <3>1. jobs' = jobs /\ jobs[i] = IdleJob
        BY <2>1, AllIdle DEF ApplyMigration
      <3> QED
        BY <3>1, IdleShape DEF Followed, Restores, Restoring
    <2>3. CASE Recovers(j)
      <3>1. PICK r : Advanced(j, r)
        BY <2>3, RecoveryStep
      <3>2. jobs'[i].pc \in {"idle", "retire"} /\ jobs'[i].safety = None
        <4>1. i # j => jobs'[i] = IdleJob
          BY <1>0, <1>1, <3>1, OthersIdle DEF Advanced
        <4>2. jobs'[j].pc \in {"idle", "retire"} /\ CommandShape(jobs'[j], backups', live')
          BY <1>0, <2>3, <3>1, RecoveryStep DEF Advanced
        <4>3. jobs'[j].safety = None
          BY <4>2 DEF CommandShape, IdleJob
        <4> QED
          BY <4>1, <4>2, <4>3, IdleShape
      <3> QED
        BY <3>2 DEF Followed, Restores, Restoring
    <2>2. CASE ~ApplyMigration(j) /\ ~Recovers(j)
      <3>1. QuietStep(j) \/ Snapshot(j) \/ Replace(j) \/ InspectReplaced(j) \/ Swap(j)
        BY <1>1, <2>2 DEF Maintenance, QuietStep, Recovers
      <3>2. i = j => Followed(i)'
        BY <3>1, QuietFollowed, LoudFollowed
      <3>3. ASSUME i # j PROVE Followed(i)'
        <4>1. PICK r : jobs' = [jobs EXCEPT ![j] = r]
          BY <3>1, QuietAdvances, LoudAdvances DEF Advanced
        <4>2. jobs'[i] = IdleJob
          BY <1>0, <1>1, <3>3, <4>1, OthersIdle
        <4> QED
          BY <4>2, IdleShape DEF Followed, Restores, Restoring
      <3> QED
        BY <3>2, <3>3
    <2> QED
      BY <2>1, <2>2, <2>3
  <1>2. CASE Initialize
    <2>1. UNCHANGED <<jobs, ws, backups, raced>> /\ live = None
      BY <1>2 DEF Initialize
    <2>2. Live'.ledger = {} /\ \A w \in Writers : ~Ready(w)'
      BY <1>0, <1>2, <2>1, InitializeSame, NoStoreNoLog, EmptyType DEF Ready
    <2>3. jobs'[i].pc # "inspect"
      BY <2>1 DEF ShapeInv, JobShape, CommandShape
    <2> QED
      BY <2>2, <2>3 DEF Followed, Covered
  <1>3. ASSUME UNCHANGED <<file, live, wal, ws, jobs, backups, raced>> PROVE Followed(i)'
    <2>1. Live' = Live /\ \A w \in Writers : Ready(w)' => Ready(w)
      BY <1>3 DEF Live, View, Frames, Ready
    <2>2. \A n : View(n)' = View(n)
      BY <1>3 DEF View, Frames
    <2> QED
      BY <1>0, <1>3, <2>1, <2>2 DEF Followed, Covered, Restores, Restoring, View, Frames
  <1>4. ASSUME NEW k \in Backups, Expire(k) PROVE Followed(i)'
    BY <1>3, <1>4 DEF Expire
  <1> QED
    BY <1>1, <1>2, <1>3, <1>4, SessionFollowed DEF Next, vars

\* How a step may take event e out of the store.
Excused(e) ==
    \/ torn' \/ e \in raced
    \/ \E j \in Jobs : /\ jobs[j].pc \in {"replace", "inspect"}
                       /\ backups[jobs[j].src].img.ledger = {}
    \/ \E j \in Jobs : jobs[j].pc = "inspect" /\ e \in backups[jobs[j].src].img.ledger

LEMMA SessionGrows ==
    ASSUME ShapeInv, LogInv, NEW w \in Writers, Session(w), ~torn', ~Inspecting
    PROVE  Live.ledger \subseteq Live'.ledger
  <1>0. /\ TypeOK /\ SessionShape /\ live' = live /\ ~torn /\ Untorn /\ wal \in Logs
    BY SessionKeeps, TornStays, Types DEF ShapeInv, LogInv, Next
  <1>1. CASE UNCHANGED <<file, wal>>
    BY <1>0, <1>1 DEF Live, View, Frames
  <1>2. CASE VerifyHandle(w)
    <2>1. wal'.img = wal.img /\ file' = file
      BY <1>0, <1>2 DEF VerifyHandle, Logs
    <2> QED
      BY <1>0, <2>1 DEF Live, View, Frames
  <1>3. ASSUME NEW img, NEW row, Appended(w, img, row) PROVE Live.ledger \subseteq Live'.ledger
    <2>1. wal'.img = img /\ Frames' /\ View(ws[w].conn).ledger \subseteq img.ledger
      BY <1>0, <1>3, AppendedType, AppendedLog
    <2>2. live \in Inodes /\ View(ws[w].conn) = Live
      BY <1>0, <1>3, ReadyReadsLive DEF Appended, Ready
    <2>3. Live' = img
      BY <1>0, <2>1, <2>2, Named DEF Live, View
    <2> QED
      BY <2>1, <2>2, <2>3
  <1>4. CASE Close(w)
    <2>1. ws[w].conn \in Inodes /\ CloseLast(ws[w].conn, Writers \ {w})
      BY <1>0, <1>4 DEF Close, SessionShape, Shaped
    <2> QED
      BY <1>0, <2>1, CloseSame
  <1> QED
    BY <1>0, <1>1, <1>2, <1>3, <1>4, SessionLog

LEMMA MaintenanceExcused ==
    ASSUME Exclusive, ShapeInv, LogInv, LedgerInv, NEW j \in Jobs, Maintenance(j), ~torn', ~Inspecting,
           NEW e \in Without(Live, Live')
    PROVE  Excused(e)
  <1>0. /\ TypeOK /\ jobs \in [Jobs -> Commands] /\ jobs[j] \in Commands
        /\ CommandShape(jobs[j], backups, live) /\ backups \in [Backups -> Archive]
        /\ live \in Inodes \cup {None} /\ [Next]_vars
    BY Types DEF ShapeInv, JobShape, Next
  <1>1. ~torn /\ Untorn /\ Followed(j) /\ e \in Live.ledger /\ e \notin Live'.ledger
    BY <1>0, TornStays DEF LogInv, LedgerInv, Without
  <1>2. ~QuietStep(j)
    <2>1. QuietStep(j) => UNCHANGED <<file, live, wal>>
      BY DEF QuietStep, StartBackup, Seal, SealFails, StartRestore, Stage, Link, StartMigration, PinLive,
             RecheckLive, JobCrash
    <2> QED
      BY <1>1, <2>1 DEF Live, View, Frames
  <1>3. ~ApplyMigration(j) /\ ~Recovers(j)
    BY <1>1, StoreSame
  <1>4. ~Snapshot(j)
    <2>1. Snapshot(j) => live \in Inodes /\ live' = live /\ CloseLast(live, Writers)
      BY <1>0 DEF Snapshot
    <2> QED
      BY <1>0, <1>1, <2>1, CloseSame
  <1>5. ~InspectReplaced(j)
    BY DEF InspectReplaced, Inspecting
  <1>6. ASSUME Swap(j) PROVE FALSE
    <2> DEFINE c == [backups[jobs[j].src].img EXCEPT !.meta = "current"]
    <2>1. jobs[j].pc = "swap" /\ jobs[j].src \in Backups /\ wal' = wal /\ live # None
      BY <1>0, <1>6 DEF Swap, CommandShape
    <2>2. ~Frames /\ Live = backups[jobs[j].src].img
      BY <1>1, <2>1 DEF Untorn, OldFile, Migrating, Live, View
    <2>3. backups[jobs[j].src].img \in Content
      BY <1>0, <2>1 DEF Archive, Images
    <2>4. c \in Content /\ c.ledger = backups[jobs[j].src].img.ledger /\ Put(c)
      BY <1>6, <2>3 DEF Content, Swap
    <2> HIDE DEF c
    <2>5. live' \in Inodes /\ file'[live'] = c
      BY <1>0, <2>4, PutEffect
    <2>6. Live' = c
      BY <2>1, <2>2, <2>5, Named DEF Live, View, Frames
    <2> QED
      BY <1>1, <2>2, <2>4, <2>6
  <1>7. CASE Replace(j)
    <2>1. jobs[j].pc = "replace" /\ jobs[j].src \in Backups /\ wal' = wal
      BY <1>0, <1>7 DEF Replace, CommandShape
    <2>2. backups[jobs[j].src].img \in Content
      BY <1>0, <2>1 DEF Archive, Images
    <2>3. live' \in Inodes /\ file'[live'] = backups[jobs[j].src].img
      BY <1>0, <1>7, <2>2, PutEffect DEF Replace
    <2>4. CASE Frames
      <3>1. live # None
        BY <1>1, <2>4, NoStoreNoLog
      <3>2. Live' = wal.img /\ Live = wal.img
        BY <2>1, <2>3, <2>4, <3>1, Named DEF Live, View, Frames
      <3> QED
        BY <1>1, <3>2
    <2>5. CASE ~Frames
      <3>1. Live' = backups[jobs[j].src].img
        BY <2>1, <2>3, <2>5, Named DEF Live, View, Frames
      <3>2. backups[jobs[j].src].img.ledger = {} \/ Covered(Live, j)
        BY <1>1, <2>1 DEF Followed, Restores, Restoring
      <3> QED
        BY <1>1, <2>1, <3>1, <3>2 DEF Covered, Excused
    <2> QED
      BY <2>4, <2>5
  <1> QED
    BY <1>2, <1>3, <1>4, <1>5, <1>6, <1>7 DEF Maintenance, QuietStep, Recovers

LEMMA NextExcused ==
    Exclusive /\ ShapeInv /\ LogInv /\ LedgerInv /\ [Next]_vars =>
        [\A e \in Without(Live, Live') :
             \/ torn' \/ e \in raced
             \/ \E j \in Jobs : /\ jobs[j].pc \in {"replace", "inspect"}
                                /\ backups[jobs[j].src].img.ledger = {}
             \/ \E j \in Jobs : jobs[j].pc = "inspect" /\ e \in backups[jobs[j].src].img.ledger]_vars
  <1> SUFFICES ASSUME Exclusive, ShapeInv, LogInv, LedgerInv, Next, NEW e \in Without(Live, Live')
               PROVE  Excused(e)
    BY DEF Excused
  <1> SUFFICES ASSUME ~torn' PROVE Excused(e)
    BY DEF Excused
  <1>0. e \in Live.ledger /\ e \notin Live'.ledger /\ ~torn
    BY TornStays DEF Without
  <1>1. CASE Inspecting
    <2>1. PICK j \in Jobs : jobs[j].pc = "inspect"
      BY <1>1 DEF Inspecting
    <2>2. Followed(j)
      BY <1>0 DEF LedgerInv
    <2> QED
      BY <1>0, <2>1, <2>2 DEF Followed, Restores, Covered, Excused
  <1>2. CASE ~Inspecting
    <2>1. ASSUME NEW w \in Writers, Session(w) PROVE FALSE
      BY <1>0, <1>2, <2>1, SessionGrows
    <2>2. ASSUME NEW k \in Backups, Expire(k) PROVE FALSE
      BY <1>0, <2>2 DEF Expire, Live, View, Frames
    <2>3. CASE Initialize
      BY <1>0, <2>3, InitializeSame
    <2> QED
      BY <1>2, <2>1, <2>2, <2>3, MaintenanceExcused DEF Next
  <1> QED
    BY <1>1, <1>2

\* No restore, migration or recovery takes an authority event out of the store, for any
\* number of sessions, backups and events: the verification of a backup against the local
\* head is enough, but for the races and the ledgerless backups that LedgerKept names.
THEOREM AuthorityKept == ASSUME Exclusive PROVE Spec => LedgerKept
  <1>1. ShapeInv /\ [Next]_vars => ShapeInv'
    BY NextShape
  <1>2. ShapeInv /\ LogInv /\ [Next]_vars => LogInv'
    BY NextLog
  <1>3. ShapeInv /\ LogInv /\ LedgerInv /\ [Next]_vars => LedgerInv'
    BY NextLedger
  <1>4. Spec => [](ShapeInv /\ LogInv /\ LedgerInv)
    BY <1>1, <1>2, <1>3, InitShape, InitLog, InitLedger, PTL DEF Spec
  <1>5. ShapeInv /\ LogInv /\ LedgerInv /\ [Next]_vars =>
        [\A e \in Without(Live, Live') :
             \/ torn' \/ e \in raced
             \/ \E j \in Jobs : /\ jobs[j].pc \in {"replace", "inspect"}
                                /\ backups[jobs[j].src].img.ledger = {}
             \/ \E j \in Jobs : jobs[j].pc = "inspect" /\ e \in backups[jobs[j].src].img.ledger]_vars
    BY NextExcused
  <1> QED
    BY <1>4, <1>5, PTL DEF Spec, LedgerKept

=============================================================================
