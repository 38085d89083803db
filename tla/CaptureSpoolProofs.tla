------------------------- MODULE CaptureSpoolProofs -------------------------
(* Theorems about CaptureSpool, for any number of passes, prune commands,  *)
(* spool paths, envelopes, batch size and faults.                          *)
EXTENDS CaptureSpool, TLAPS

\* The constants of the capture path have their types.
LEMMA ConstantTypes ==
    /\ IdleRun \in Run
    /\ IdleJob \in Job
    /\ EmptyCanon \in Canon
    /\ FreeTxn \in [by : Passes \cup {None}, draft : Canon]
    /\ NoAck \in Ack
  BY SpoolAssumption
  DEF IdleRun, Run, IdleJob, Job, EmptyCanon, Canon, FreeTxn, NoAck, Ack, File

\* A pass that moves on keeps the table of passes typed.
LEMMA SetType ==
    ASSUME TypeOK, NEW c \in Passes, NEW r \in Run, Set(c, r)
    PROVE  run' \in [Passes -> Run]
  BY DEF TypeOK, Set

\* An exception leaves the passes and the transaction typed.
LEMMA RaiseType ==
    ASSUME TypeOK, NEW c \in Passes, Raise(c)
    PROVE  /\ run' \in [Passes -> Run]
           /\ txn' \in [by : Passes \cup {None}, draft : Canon]
  BY ConstantTypes, SetType DEF Raise, TypeOK

\* A quarantine receipt keeps the receipts typed.
LEMMA ReceiptType ==
    ASSUME TypeOK, NEW p \in Paths
    PROVE  Receipt(p) \in [Paths -> {"none", "new", "old"}]
  BY DEF TypeOK, Receipt

\* A started prune is typed.
LEMMA PruneJobType ==
    ASSUME TypeOK, NEW nodes
    PROVE  PruneJob(nodes) \in Job
  BY DEF PruneJob, Job

\* Applying a capture to a canon gives a canon.
LEMMA AppliedType ==
    ASSUME NEW d \in Canon, NEW e \in Envelopes
    PROVE  Applied(d, e) \in Canon
  <1>1. EventOf[e] \in EventIds /\ TextOf[e] \in Texts
    BY SpoolAssumption
  <1> QED BY <1>1 DEF Applied, Canon, File

\* Every result of a capture is one of three.
LEMMA ResultType ==
    ASSUME NEW d, NEW e
    PROVE  Result(d, e) \in {"captured", "duplicate", "rejected"}
  BY DEF Result

\* A step of compile_spools keeps every variable in its type.
LEMMA CompileType ==
    ASSUME TypeOK, NEW c \in Passes, StartPass(c) \/ Compile(c)
    PROVE  TypeOK'
  <1> USE SpoolAssumption
  <1>a. run[c] \in Run
    BY DEF TypeOK
  <1>1. CASE StartPass(c)
    <2>1. [IdleRun EXCEPT !.pc = "scan", !.todo = {p \in Paths : spool[p] # None}] \in Run
      BY ConstantTypes DEF Run
    <2> QED BY <1>1, <2>1, SetType DEF StartPass, TypeOK
  <1>2. CASE ReadInput(c)
    <2>1. PICK p \in run[c].todo :
            LET e == spool[p]
                rest == [run[c] EXCEPT !.todo = @ \ {p}]
            IN \/ Raise(c) /\ UNCHANGED receipts
               \/ QuarantineInput(c, p, rest)
               \/ /\ e \in Valid
                  /\ Set(c, [rest EXCEPT !.seen = @ \cup {NodeOf[PathOf[e]]}])
                  /\ UNCHANGED <<receipts, txn>>
               \/ /\ e \in Valid
                  /\ Set(c, [rest EXCEPT !.seen = @ \cup {NodeOf[PathOf[e]]},
                                         !.inputs[p] = e])
                  /\ UNCHANGED <<receipts, txn>>
      BY <1>2 DEF ReadInput
    <2>2. p \in Paths
      BY <1>a DEF Run
    <2> DEFINE rest == [run[c] EXCEPT !.todo = @ \ {p}]
    <2>3. rest \in Run
      BY <1>a DEF Run
    <2> HIDE DEF rest
    <2>4. run' \in [Passes -> Run]
      <3>1. CASE Raise(c)
        BY <3>1, RaiseType
      <3>2. CASE QuarantineInput(c, p, rest)
        BY <3>2, <2>3, SetType DEF QuarantineInput
      <3>3. ASSUME spool[p] \in Valid,
                   Set(c, [rest EXCEPT !.seen = @ \cup {NodeOf[PathOf[spool[p]]]}])
            PROVE  run' \in [Passes -> Run]
        <4>1. [rest EXCEPT !.seen = @ \cup {NodeOf[PathOf[spool[p]]]}] \in Run
          <5>1. NodeOf[PathOf[spool[p]]] \in Nodes
            BY <3>3
          <5> QED BY <5>1, <2>3 DEF Run
        <4> QED BY <3>3, <4>1, SetType
      <3>4. ASSUME spool[p] \in Valid,
                   Set(c, [rest EXCEPT !.seen = @ \cup {NodeOf[PathOf[spool[p]]]},
                                       !.inputs[p] = spool[p]])
            PROVE  run' \in [Passes -> Run]
        <4>1. [rest EXCEPT !.seen = @ \cup {NodeOf[PathOf[spool[p]]]},
                           !.inputs[p] = spool[p]] \in Run
          <5>1. NodeOf[PathOf[spool[p]]] \in Nodes /\ spool[p] \in File
            BY <3>4 DEF File
          <5> QED BY <5>1, <2>2, <2>3 DEF Run
        <4> QED BY <3>4, <4>1, SetType
      <3> QED BY <2>1, <3>1, <3>2, <3>3, <3>4 DEF rest
    <2>5. receipts' \in [Paths -> {"none", "new", "old"}]
      BY <2>1, <2>2, ReceiptType DEF TypeOK, QuarantineInput
    <2>6. txn' \in [by : Passes \cup {None}, draft : Canon]
      BY <2>1, RaiseType DEF TypeOK, QuarantineInput
    <2> QED BY <1>2, <2>4, <2>5, <2>6 DEF ReadInput, TypeOK
  <1>3. CASE EndScan(c)
    <2>1. [run[c] EXCEPT !.pc = "apply"] \in Run
      BY <1>a DEF Run
    <2> QED BY <1>3, <2>1, SetType DEF EndScan, TypeOK
  <1>4. CASE BeginBatch(c)
    <2>1. [run[c] EXCEPT !.size = 0] \in Run
      BY <1>a DEF Run
    <2> QED BY <1>4, <2>1, SetType DEF BeginBatch, TypeOK
  <1>5. CASE ApplyOne(c)
    <2>1. PICK p \in Paths :
            /\ First(c, p, Pending(c))
            /\ txn' = [txn EXCEPT !.draft = Applied(@, run[c].inputs[p])]
            /\ Set(c, [run[c] EXCEPT !.results[p] = Result(txn.draft, run[c].inputs[p]),
                                     !.size = @ + 1])
      BY <1>5 DEF ApplyOne
    <2>2. run[c].inputs[p] \in Envelopes
      BY <1>a, <2>1 DEF First, Pending, Inputs, Run, File
    <2>3. txn' \in [by : Passes \cup {None}, draft : Canon]
      BY <2>1, <2>2, AppliedType DEF TypeOK
    <2>4. run[c].size + 1 \in 0..BatchSize
      BY <1>a, <1>5 DEF ApplyOne, InBatch, Run
    <2>5. [run[c] EXCEPT !.results[p] = Result(txn.draft, run[c].inputs[p]),
                         !.size = @ + 1] \in Run
      BY <1>a, <2>4, ResultType DEF Run
    <2> QED BY <1>5, <2>1, <2>3, <2>5, SetType DEF ApplyOne, TypeOK
  <1>6. CASE CommitBatch(c)
    BY <1>6, ConstantTypes DEF CommitBatch, TypeOK
  <1>7. CASE EndApply(c)
    <2>1. [run[c] EXCEPT !.pc = "ack"] \in Run
      BY <1>a DEF Run
    <2> QED BY <1>7, <2>1, SetType DEF EndApply, TypeOK
  <1>8. CASE AcknowledgeOne(c)
    <2>1. PICK p \in Paths :
            LET e == run[c].inputs[p]
                done == [run[c] EXCEPT !.acked = @ \cup {p}]
            IN /\ First(c, p, Inputs(c) \ run[c].acked)
               /\ \/ receipts' = Receipt(p) /\ Set(c, done) /\ UNCHANGED <<acks, txn>>
                  \/ /\ acks' = [acks EXCEPT ![PathOf[e]] =
                                   [env |-> e, src |-> spool[p], path |-> p, old |-> FALSE]]
                     /\ Set(c, done) /\ UNCHANGED <<receipts, txn>>
                  \/ Set(c, done) /\ UNCHANGED <<acks, receipts, txn>>
                  \/ Raise(c) /\ UNCHANGED <<acks, receipts>>
      BY <1>8 DEF AcknowledgeOne
    <2>2. run[c].inputs[p] \in Envelopes
      BY <1>a, <2>1 DEF First, Inputs, Run, File
    <2>3. [run[c] EXCEPT !.acked = @ \cup {p}] \in Run
      BY <1>a DEF Run
    <2>4. run' \in [Passes -> Run]
      BY <2>1, <2>3, SetType, RaiseType
    <2>5. receipts' \in [Paths -> {"none", "new", "old"}]
      BY <2>1, ReceiptType DEF TypeOK
    <2>6. txn' \in [by : Passes \cup {None}, draft : Canon]
      BY <2>1, RaiseType DEF TypeOK
    <2>7. acks' \in [Paths -> Ack]
      <3>1. [env |-> run[c].inputs[p], src |-> spool[p], path |-> p, old |-> FALSE] \in Ack
        BY <2>2 DEF Ack, File, TypeOK
      <3> QED BY <2>1, <2>2, <3>1 DEF TypeOK
    <2> QED BY <1>8, <2>4, <2>5, <2>6, <2>7 DEF AcknowledgeOne, TypeOK
  <1>9. CASE EndAcks(c)
    <2>1. [run[c] EXCEPT !.pc = "prune"] \in Run
      BY <1>a DEF Run
    <2>2. job' \in [Actors -> Job]
      BY <1>9, ConstantTypes, PruneJobType DEF EndAcks, TypeOK
    <2> QED BY <1>9, <2>1, <2>2, SetType DEF EndAcks, TypeOK
  <1>10. CASE EndPass(c)
    BY <1>10, ConstantTypes, SetType DEF EndPass, TypeOK
  <1> QED BY <1>1, <1>2, <1>3, <1>4, <1>5, <1>6, <1>7, <1>8, <1>9, <1>10 DEF Compile

\* A step of prune_acknowledged_spools keeps every variable in its type.
LEMMA PruneType ==
    ASSUME TypeOK, NEW a \in Actors, Prune(a)
    PROVE  TypeOK'
  <1> USE SpoolAssumption
  <1>a. job[a] \in Job
    BY DEF TypeOK
  <1>1. CASE PruneLook(a)
    <2>1. PICK k \in job[a].todo :
            LET next == [job[a] EXCEPT !.todo = @ \ {k}, !.aged = @ \ {k}]
            IN \/ acks' = [acks EXCEPT ![k] = NoAck] /\ job' = [job EXCEPT ![a] = next]
               \/ /\ job' = [job EXCEPT ![a] = [next EXCEPT !.cut = k, !.stage = "source"]]
                  /\ UNCHANGED acks
               \/ job' = [job EXCEPT ![a] = next] /\ UNCHANGED acks
      BY <1>1 DEF PruneLook
    <2>2. k \in Paths
      BY <1>a DEF Job
    <2> DEFINE next == [job[a] EXCEPT !.todo = @ \ {k}, !.aged = @ \ {k}]
    <2>3. next \in Job
      BY <1>a DEF Job
    <2>4. [next EXCEPT !.cut = k, !.stage = "source"] \in Job
      BY <2>2, <2>3 DEF Job
    <2>5. job' \in [Actors -> Job]
      BY <2>1, <2>3, <2>4 DEF TypeOK
    <2>6. acks' \in [Paths -> Ack]
      BY <2>1, <2>2, ConstantTypes DEF TypeOK
    <2> QED BY <1>1, <2>5, <2>6 DEF PruneLook, TypeOK
  <1>2. CASE PruneSource(a)
    <2>1. /\ [job[a] EXCEPT !.cut = None, !.stage = "look"] \in Job
          /\ [job[a] EXCEPT !.stage = "ack"] \in Job
      BY <1>a DEF Job
    <2>2. job' \in [Actors -> Job]
      BY <1>2, <2>1 DEF PruneSource, TypeOK
    <2>3. spool' \in [Paths -> File]
      BY <1>2 DEF PruneSource, TypeOK, File
    <2> QED BY <1>2, <2>2, <2>3 DEF PruneSource, TypeOK
  <1>3. CASE PruneAck(a)
    <2>1. job' \in [Actors -> Job]
      BY <1>3, <1>a DEF PruneAck, TypeOK, Job
    <2>2. acks' \in [Paths -> Ack]
      BY <1>3, ConstantTypes DEF PruneAck, TypeOK
    <2> QED BY <1>3, <2>1, <2>2 DEF PruneAck, TypeOK
  <1>4. CASE PruneReceipts(a)
    BY <1>4, ConstantTypes DEF PruneReceipts, TypeOK
  <1> QED BY <1>1, <1>2, <1>3, <1>4 DEF Prune

\* Every step keeps every variable in its type.
LEMMA NextType ==
    TypeOK /\ [Next]_vars => TypeOK'
  <1> SUFFICES ASSUME TypeOK, [Next]_vars PROVE TypeOK'
    OBVIOUS
  <1> USE SpoolAssumption
  <1>1. ASSUME NEW e \in Envelopes, WriteEnvelope(e) PROVE TypeOK'
    BY <1>1 DEF WriteEnvelope, TypeOK, File
  <1>2. ASSUME NEW p \in Paths, NEW e \in Envelopes, ForeignFile(p, e) PROVE TypeOK'
    BY <1>2 DEF ForeignFile, TypeOK, File
  <1>3. ASSUME NEW c \in Passes, StartPass(c) \/ Compile(c) PROVE TypeOK'
    BY <1>3, CompileType
  <1>4. ASSUME NEW c \in Passes, PassFails(c) PROVE TypeOK'
    <2>1. faults' \in 0..MaxFaults
      BY <1>4 DEF PassFails, TypeOK
    <2>2. job' \in [Actors -> Job]
      BY <1>4, ConstantTypes DEF PassFails, TypeOK
    <2> QED BY <1>4, <2>1, <2>2, RaiseType DEF PassFails, TypeOK
  <1>5. ASSUME NEW a \in Actors, Prune(a) PROVE TypeOK'
    BY <1>5, PruneType
  <1>6. ASSUME NEW a \in Pruners, StartPrune(a) PROVE TypeOK'
    BY <1>6, PruneJobType DEF StartPrune, TypeOK
  <1>7. ASSUME NEW a \in Pruners, PruneFails(a) PROVE TypeOK'
    <2>1. faults' \in 0..MaxFaults
      BY <1>7 DEF PruneFails, TypeOK
    <2>2. job' \in [Actors -> Job]
      BY <1>7, ConstantTypes DEF PruneFails, TypeOK
    <2> QED BY <1>7, <2>1, <2>2 DEF PruneFails, TypeOK
  <1>8. CASE RetentionPasses
    <2>1. ASSUME NEW k \in Paths PROVE [acks[k] EXCEPT !.old = TRUE] \in Ack
      <3>1. acks[k] \in Ack
        BY DEF TypeOK
      <3> QED BY <3>1 DEF Ack
    <2> QED BY <1>8, <2>1, ConstantTypes DEF RetentionPasses, TypeOK
  <1>9. CASE UNCHANGED vars
    BY <1>9 DEF vars, TypeOK
  <1> QED BY <1>1, <1>2, <1>3, <1>4, <1>5, <1>6, <1>7, <1>8, <1>9 DEF Next

\* The initial state is typed.
LEMMA InitType ==
    Init => TypeOK
  BY SpoolAssumption, ConstantTypes DEF Init, TypeOK, File

\* Every variable of the capture path keeps its type.
THEOREM TypeCorrect ==
    Spec => []TypeOK
  BY InitType, NextType, PTL DEF Spec

-----------------------------------------------------------------------------
(* What applying a capture does to a canon.                                *)

\* A larger canon accounts for at least as much.
LEMMA ExtendsAccounted ==
    ASSUME NEW d \in Canon, NEW f \in Canon, Extends(d, f),
           NEW e \in Envelopes, Accounted(d, e)
    PROVE  Accounted(f, e)
  <1>1. EventOf[e] \in EventIds /\ e # None
    BY SpoolAssumption
  <1> QED BY <1>1 DEF Extends, Accounted

\* _apply_capture_on_connection only adds rows.
LEMMA AppliedExtends ==
    ASSUME NEW d \in Canon, NEW e \in Envelopes
    PROVE  Extends(d, Applied(d, e))
  <1>1. CASE Result(d, e) = "captured"
    <2>1. d.consumed[EventOf[e]] = None
      BY <1>1 DEF Result, Conflicts, Accounted
    <2> QED BY <1>1, <2>1 DEF Applied, Extends, Canon
  <1>2. CASE Result(d, e) # "captured"
    BY <1>2 DEF Applied, Extends
  <1> QED BY <1>1, <1>2

\* A capture that is not refused is accounted for afterwards.
LEMMA AppliedAccounted ==
    ASSUME NEW d \in Canon, NEW e \in Envelopes, Settles(Result(d, e))
    PROVE  Accounted(Applied(d, e), e)
  <1>1. EventOf[e] \in EventIds
    BY SpoolAssumption
  <1>2. CASE Result(d, e) = "captured"
    BY <1>1, <1>2 DEF Applied, Accounted, Canon
  <1>3. CASE Result(d, e) = "duplicate"
    BY <1>3 DEF Applied, Accounted, Result
  <1> QED BY <1>2, <1>3 DEF Settles

\* A capture is appended only under words nobody used.
LEMMA AppliedWordsOnce ==
    ASSUME NEW d \in Canon, NEW e \in Envelopes, WordsOnce(d)
    PROVE  WordsOnce(Applied(d, e))
  <1>1. CASE Result(d, e) = "captured"
    <2> DEFINE new == [consumed |-> [d.consumed EXCEPT ![EventOf[e]] = e],
                       dedup |-> d.dedup \cup {TextOf[e]}]
    <2>1. Applied(d, e) = new
      BY <1>1 DEF Applied
    <2>2. TextOf[e] \notin d.dedup
      BY <1>1 DEF Result, Accounted
    <2>3. ASSUME NEW f \in Envelopes, new.consumed[EventOf[f]] = f
          PROVE  f = e \/ d.consumed[EventOf[f]] = f
      <3>1. EventOf[f] \in EventIds
        BY SpoolAssumption
      <3> QED BY <2>3, <3>1 DEF Canon
    <2>4. \A f \in Envelopes : new.consumed[EventOf[f]] = f => TextOf[f] \in new.dedup
      BY <2>3 DEF WordsOnce
    <2>5. ASSUME NEW f \in Envelopes, NEW g \in Envelopes,
                 new.consumed[EventOf[f]] = f, new.consumed[EventOf[g]] = g,
                 TextOf[f] = TextOf[g]
          PROVE  f = g
      <3>1. f = e \/ (d.consumed[EventOf[f]] = f /\ TextOf[f] \in d.dedup)
        BY <2>5, <2>3 DEF WordsOnce
      <3>2. g = e \/ (d.consumed[EventOf[g]] = g /\ TextOf[g] \in d.dedup)
        BY <2>5, <2>3 DEF WordsOnce
      <3> QED BY <2>2, <2>5, <3>1, <3>2 DEF WordsOnce
    <2> HIDE DEF new
    <2> QED BY <2>1, <2>4, <2>5 DEF WordsOnce
  <1>2. CASE Result(d, e) # "captured"
    BY <1>2 DEF Applied
  <1> QED BY <1>1, <1>2

-----------------------------------------------------------------------------
(* The canon and the acknowledgements.                                     *)

\* A step that leaves the canon, the transaction and the passes alone, and
\* only drops or ages acknowledgements, keeps the invariant.
LEMMA AcksShrink ==
    ASSUME CanonInv, TypeOK', UNCHANGED <<db, txn, run>>,
           \A k \in Paths : acks'[k] # NoAck => acks[k] # NoAck /\ acks'[k].env = acks[k].env
    PROVE  CanonInv'
  BY DEF CanonInv, BatchHolds, WordsOnce, Extends, ResultsHold, View, AcksHold, Accounted

\* A pass that only moves on, outside its open group, keeps the invariant.
LEMMA PassMoves ==
    ASSUME CanonInv, TypeOK', NEW c \in Passes, NEW r \in Run, Set(c, r),
           UNCHANGED <<db, txn, acks>>,
           txn.by # c,
           \A p \in Paths :
              \/ r.results[p] = "none"
              \/ /\ r.pc # "scan"
                 /\ r.results[p] = run[c].results[p]
                 /\ r.inputs[p] = run[c].inputs[p]
    PROVE  CanonInv'
  <1>1. /\ run' = [run EXCEPT ![c] = r]
        /\ run'[c] = r
        /\ \A d \in Passes \ {c} : run'[d] = run[d]
    BY DEF Set, CanonInv, TypeOK
  <1>2. BatchHolds'
    BY <1>1 DEF CanonInv, TypeOK, BatchHolds, WordsOnce, Extends
  <1>3. ResultsHold'
    BY <1>1 DEF CanonInv, ResultsHold, View, Settles, Accounted
  <1>4. AcksHold'
    BY DEF CanonInv, AcksHold, Accounted
  <1> QED BY <1>2, <1>3, <1>4 DEF CanonInv

\* An exception drops the open group of its pass and nothing else.
LEMMA RaiseKeeps ==
    ASSUME CanonInv, TypeOK', NEW c \in Passes, Raise(c), UNCHANGED <<db, acks>>
    PROVE  CanonInv'
  <1>1. /\ run'[c] = IdleRun
        /\ \A d \in Passes \ {c} : run'[d] = run[d]
    BY DEF Raise, Set, CanonInv, TypeOK
  <1>2. txn' = IF txn.by = c THEN FreeTxn ELSE txn
    BY DEF Raise
  <1>3. BatchHolds'
    <2>1. CASE txn.by = c
      BY <1>1, <1>2, <2>1 DEF CanonInv, BatchHolds, WordsOnce, FreeTxn
    <2>2. CASE txn.by # c
      BY <1>1, <1>2, <2>2 DEF CanonInv, TypeOK, BatchHolds, WordsOnce, Extends
    <2> QED BY <2>1, <2>2
  <1>4. ResultsHold'
    <2> SUFFICES ASSUME NEW d \in Passes, NEW p \in Paths
                 PROVE  /\ run'[d].pc = "scan" => run'[d].results[p] = "none"
                        /\ Settles(run'[d].results[p]) =>
                              /\ run'[d].inputs[p] \in Envelopes
                              /\ Accounted(View(d)', run'[d].inputs[p])
      BY DEF ResultsHold, Accounted, View, Settles
    <2>1. CASE d = c
      BY <1>1, <2>1 DEF IdleRun, Settles
    <2>2. CASE d # c
      <3>1. View(d)' = View(d)
        BY <1>2, <2>2, SpoolAssumption DEF View, FreeTxn
      <3> QED BY <1>1, <2>2, <3>1 DEF CanonInv, ResultsHold, Accounted
    <2> QED BY <2>1, <2>2
  <1>5. AcksHold'
    BY DEF CanonInv, AcksHold, Accounted
  <1> QED BY <1>3, <1>4, <1>5 DEF CanonInv

\* One savepoint: the group grows, and the new result is true of it.
LEMMA ApplyKeeps ==
    ASSUME CanonInv, TypeOK', NEW c \in Passes, ApplyOne(c)
    PROVE  CanonInv'
  <1>1. PICK p \in Paths :
          /\ First(c, p, Pending(c))
          /\ txn' = [txn EXCEPT !.draft = Applied(@, run[c].inputs[p])]
          /\ Set(c, [run[c] EXCEPT !.results[p] = Result(txn.draft, run[c].inputs[p]),
                                   !.size = @ + 1])
    BY DEF ApplyOne
  <1> DEFINE e == run[c].inputs[p]
             new == Applied(txn.draft, e)
  <1>2. run[c] \in Run /\ txn.draft \in Canon /\ db \in Canon
    BY DEF CanonInv, TypeOK
  <1>3. e \in Envelopes
    BY <1>1, <1>2 DEF First, Pending, Inputs, Run, File
  <1>4. /\ txn.by = c /\ txn'.by = c /\ txn'.draft = new
        /\ UNCHANGED <<db, acks>>
    BY <1>1 DEF ApplyOne, CanonInv, TypeOK
  <1>5. c # None
    BY SpoolAssumption
  <1>6. /\ run[c].pc = "apply" /\ Extends(db, txn.draft) /\ WordsOnce(txn.draft)
        /\ WordsOnce(db)
    BY <1>4, <1>5 DEF CanonInv, BatchHolds
  <1>7. new \in Canon /\ Extends(txn.draft, new) /\ WordsOnce(new)
    BY <1>2, <1>3, <1>6, AppliedType, AppliedExtends, AppliedWordsOnce
  <1>8. Settles(Result(txn.draft, e)) => Accounted(new, e)
    BY <1>2, <1>3, AppliedAccounted
  <1>9. /\ run'[c].pc = run[c].pc
        /\ run'[c].inputs = run[c].inputs
        /\ run'[c].results = [run[c].results EXCEPT ![p] = Result(txn.draft, e)]
        /\ \A d \in Passes \ {c} : run'[d] = run[d]
    BY <1>1, <1>2 DEF Set, CanonInv, TypeOK, Run
  <1> HIDE DEF new, e
  <1>10. BatchHolds'
    <2>1. Extends(db, new)
      BY <1>2, <1>6, <1>7, SpoolAssumption DEF Extends
    <2> QED BY <1>4, <1>6, <1>7, <1>9, <2>1 DEF BatchHolds, WordsOnce, Extends
  <1>11. ResultsHold'
    <2> SUFFICES ASSUME NEW d \in Passes, NEW q \in Paths
                 PROVE  /\ run'[d].pc = "scan" => run'[d].results[q] = "none"
                        /\ Settles(run'[d].results[q]) =>
                              /\ run'[d].inputs[q] \in Envelopes
                              /\ Accounted(View(d)', run'[d].inputs[q])
      BY DEF ResultsHold, Accounted, View, Settles
    <2>1. CASE d # c
      <3>1. View(d)' = View(d) /\ run'[d] = run[d]
        BY <1>4, <1>9, <2>1 DEF View
      <3> QED BY <3>1 DEF CanonInv, ResultsHold, Accounted
    <2>2. CASE d = c /\ q = p
      <3>1. View(d)' = new /\ run'[d].inputs[q] = e
        BY <1>4, <1>9, <2>2 DEF View, e
      <3>2. run'[d].results[q] = Result(txn.draft, e)
        BY <1>2, <1>9, <2>2 DEF Run
      <3> QED BY <1>3, <1>6, <1>8, <1>9, <2>2, <3>1, <3>2
    <2>3. CASE d = c /\ q # p
      <3>1. /\ View(d)' = new /\ View(d) = txn.draft
            /\ run'[d].inputs[q] = run[d].inputs[q]
            /\ run'[d].results[q] = run[d].results[q]
        BY <1>2, <1>4, <1>9, <2>3 DEF View, Run
      <3>2. Settles(run[d].results[q]) =>
              run[d].inputs[q] \in Envelopes /\ Accounted(txn.draft, run[d].inputs[q])
        BY <3>1 DEF CanonInv, ResultsHold
      <3> QED BY <1>2, <1>6, <1>7, <1>9, <2>3, <3>1, <3>2, ExtendsAccounted
    <2> QED BY <2>1, <2>2, <2>3
  <1>12. AcksHold'
    BY <1>4 DEF CanonInv, AcksHold, Accounted
  <1> QED BY <1>10, <1>11, <1>12 DEF CanonInv

\* The commit makes the group the canon: nothing that was accounted for is lost.
LEMMA CommitKeeps ==
    ASSUME CanonInv, TypeOK', NEW c \in Passes, CommitBatch(c)
    PROVE  CanonInv'
  <1>1. /\ txn.by = c /\ txn' = FreeTxn /\ db' = txn.draft
        /\ UNCHANGED <<run, acks>>
    BY DEF CommitBatch
  <1>2. c # None /\ db \in Canon /\ db' \in Canon
    BY <1>1, SpoolAssumption DEF CanonInv, TypeOK
  <1>3. Extends(db, db') /\ WordsOnce(db')
    BY <1>1, <1>2 DEF CanonInv, BatchHolds
  <1>4. BatchHolds'
    BY <1>1, <1>3 DEF BatchHolds, FreeTxn, WordsOnce
  <1>5. ResultsHold'
    <2> SUFFICES ASSUME NEW d \in Passes, NEW q \in Paths
                 PROVE  /\ run[d].pc = "scan" => run[d].results[q] = "none"
                        /\ Settles(run[d].results[q]) =>
                              /\ run[d].inputs[q] \in Envelopes
                              /\ Accounted(View(d)', run[d].inputs[q])
      BY <1>1 DEF ResultsHold, Accounted, View, Settles
    <2>1. View(d)' = db'
      BY <1>1, SpoolAssumption DEF View, FreeTxn
    <2>2. View(d) = db \/ View(d) = db'
      BY <1>1 DEF View
    <2>3. Settles(run[d].results[q]) =>
            run[d].inputs[q] \in Envelopes /\ Accounted(View(d), run[d].inputs[q])
      BY DEF CanonInv, ResultsHold
    <2> QED BY <1>2, <1>3, <2>1, <2>2, <2>3, ExtendsAccounted DEF CanonInv, ResultsHold
  <1>6. AcksHold'
    <2> SUFFICES ASSUME NEW k \in Paths, acks[k] # NoAck
                 PROVE  acks[k].env \in Envelopes /\ Accounted(db', acks[k].env)
      BY <1>1 DEF AcksHold, Accounted
    <2> QED BY <1>2, <1>3, ExtendsAccounted DEF CanonInv, AcksHold
  <1> QED BY <1>4, <1>5, <1>6 DEF CanonInv

\* An acknowledgement is written for a result that is true of the committed canon.
LEMMA AcknowledgeKeeps ==
    ASSUME CanonInv, TypeOK', NEW c \in Passes, AcknowledgeOne(c)
    PROVE  CanonInv'
  <1>1. PICK p \in Paths :
          LET e == run[c].inputs[p]
              done == [run[c] EXCEPT !.acked = @ \cup {p}]
          IN \/ Set(c, done) /\ UNCHANGED <<acks, txn>>
             \/ /\ Settles(run[c].results[p])
                /\ acks' = [acks EXCEPT ![PathOf[e]] =
                              [env |-> e, src |-> spool[p], path |-> p, old |-> FALSE]]
                /\ Set(c, done) /\ UNCHANGED txn
             \/ Raise(c) /\ UNCHANGED acks
    BY DEF AcknowledgeOne
  <1> DEFINE done == [run[c] EXCEPT !.acked = @ \cup {p}]
             e == run[c].inputs[p]
  <1>2. run[c] \in Run
    BY DEF CanonInv, TypeOK
  <1>3. /\ done \in Run /\ done.results = run[c].results
        /\ done.inputs = run[c].inputs /\ done.pc = "ack"
    BY <1>2 DEF Run, AcknowledgeOne
  <1>4. txn.by # c /\ db' = db
    BY SpoolAssumption DEF AcknowledgeOne, CanonInv, BatchHolds
  <1> HIDE DEF done
  <1>5. ASSUME Set(c, done), UNCHANGED <<acks, txn>> PROVE CanonInv'
    BY <1>3, <1>4, <1>5, PassMoves
  <1>6. ASSUME Settles(run[c].results[p]), Set(c, done), UNCHANGED txn,
               acks' = [acks EXCEPT ![PathOf[e]] =
                          [env |-> e, src |-> spool[p], path |-> p, old |-> FALSE]]
        PROVE  CanonInv'
    <2>1. e \in Envelopes /\ Accounted(db, e)
      BY <1>4, <1>6 DEF CanonInv, ResultsHold, View
    <2>2. /\ run'[c] = done
          /\ \A d \in Passes \ {c} : run'[d] = run[d]
      BY <1>6 DEF Set, CanonInv, TypeOK
    <2>3. BatchHolds'
      BY <1>4, <1>6, <2>2 DEF CanonInv, TypeOK, BatchHolds, WordsOnce, Extends
    <2>4. ResultsHold'
      BY <1>3, <1>4, <1>6, <2>2 DEF CanonInv, ResultsHold, View, Settles, Accounted
    <2>5. AcksHold'
      <3> SUFFICES ASSUME NEW k \in Paths, acks'[k] # NoAck
                   PROVE  acks'[k].env \in Envelopes /\ Accounted(db, acks'[k].env)
        BY <1>4 DEF AcksHold, Accounted
      <3>1. CASE k = PathOf[e]
        BY <1>6, <2>1, <3>1 DEF CanonInv, TypeOK
      <3>2. CASE k # PathOf[e]
        BY <1>6, <3>2 DEF CanonInv, TypeOK, AcksHold
      <3> QED BY <3>1, <3>2
    <2> QED BY <2>3, <2>4, <2>5 DEF CanonInv
  <1>7. ASSUME Raise(c), UNCHANGED acks PROVE CanonInv'
    BY <1>4, <1>7, RaiseKeeps
  <1> QED BY <1>1, <1>5, <1>6, <1>7 DEF done

\* A scan collects inputs and has no results yet.
LEMMA ReadKeeps ==
    ASSUME CanonInv, TypeOK', NEW c \in Passes, ReadInput(c)
    PROVE  CanonInv'
  <1>1. run[c] \in Run /\ run'[c] \in Run /\ run[c].pc = "scan" /\ txn.by # c
    BY SpoolAssumption DEF ReadInput, CanonInv, TypeOK, BatchHolds
  <1>2. UNCHANGED <<db, acks>>
    BY DEF ReadInput
  <1>3. CASE Raise(c)
    BY <1>2, <1>3, RaiseKeeps
  <1>4. CASE ~Raise(c)
    <2>1. PICK p \in run[c].todo :
            LET e == spool[p]
                rest == [run[c] EXCEPT !.todo = @ \ {p}]
            IN \/ QuarantineInput(c, p, rest)
               \/ /\ Set(c, [rest EXCEPT !.seen = @ \cup {NodeOf[PathOf[e]]}])
                  /\ UNCHANGED <<receipts, txn>>
               \/ /\ Set(c, [rest EXCEPT !.seen = @ \cup {NodeOf[PathOf[e]]},
                                         !.inputs[p] = e])
                  /\ UNCHANGED <<receipts, txn>>
      BY <1>4 DEF ReadInput
    <2>2. Set(c, run'[c]) /\ UNCHANGED txn
      BY <2>1 DEF QuarantineInput, Set, CanonInv, TypeOK
    <2> DEFINE rest == [run[c] EXCEPT !.todo = @ \ {p}]
               n == NodeOf[PathOf[spool[p]]]
    <2>a. \/ run'[c] = rest
          \/ run'[c] = [rest EXCEPT !.seen = @ \cup {n}]
          \/ run'[c] = [rest EXCEPT !.seen = @ \cup {n}, !.inputs[p] = spool[p]]
      BY <2>1 DEF QuarantineInput, Set, CanonInv, TypeOK
    <2>3. run'[c].results = run[c].results
      BY <1>1, <2>a DEF Run
    <2>4. \A q \in Paths : run'[c].results[q] = "none"
      BY <1>1, <2>3 DEF CanonInv, ResultsHold
    <2> QED BY <1>1, <1>2, <2>2, <2>4, PassMoves
  <1> QED BY <1>3, <1>4

\* A step of compile_spools keeps the invariant.
LEMMA CompileKeeps ==
    ASSUME CanonInv, TypeOK', NEW c \in Passes, StartPass(c) \/ Compile(c)
    PROVE  CanonInv'
  <1>a. run[c] \in Run
    BY DEF CanonInv, TypeOK
  <1>b. run[c].pc # "apply" => txn.by # c
    BY SpoolAssumption DEF CanonInv, BatchHolds
  <1>1. CASE StartPass(c)
    <2> DEFINE r == [IdleRun EXCEPT !.pc = "scan", !.todo = {p \in Paths : spool[p] # None}]
    <2>1. r \in Run /\ \A p \in Paths : r.results[p] = "none"
      BY ConstantTypes DEF Run, IdleRun
    <2> HIDE DEF r
    <2> QED BY <1>1, <1>b, <2>1, PassMoves DEF StartPass, r
  <1>2. CASE ReadInput(c)
    BY <1>2, ReadKeeps
  <1>3. CASE EndScan(c)
    <2> DEFINE r == [run[c] EXCEPT !.pc = "apply"]
    <2>1. r \in Run /\ r.results = run[c].results /\ r.inputs = run[c].inputs /\ r.pc # "scan"
      BY <1>a DEF Run
    <2> HIDE DEF r
    <2> QED BY <1>3, <1>b, <2>1, PassMoves DEF EndScan, r
  <1>4. CASE BeginBatch(c)
    <2>1. /\ txn.by = None /\ txn'.by = c /\ txn'.draft = db
          /\ UNCHANGED <<db, acks>>
      BY <1>4 DEF BeginBatch
    <2>2. /\ run'[c].pc = "apply"
          /\ run'[c].results = run[c].results /\ run'[c].inputs = run[c].inputs
          /\ \A d \in Passes \ {c} : run'[d] = run[d]
      BY <1>4, <1>a DEF BeginBatch, Set, CanonInv, TypeOK, Run
    <2>3. BatchHolds'
      BY <2>1, <2>2 DEF CanonInv, BatchHolds, WordsOnce, Extends
    <2>4. ResultsHold'
      <3> SUFFICES ASSUME NEW d \in Passes, NEW q \in Paths
                   PROVE  /\ run'[d].pc = "scan" => run'[d].results[q] = "none"
                          /\ Settles(run'[d].results[q]) =>
                                /\ run'[d].inputs[q] \in Envelopes
                                /\ Accounted(View(d)', run'[d].inputs[q])
        BY DEF ResultsHold, Accounted, View, Settles
      <3>1. View(d) = db /\ View(d)' = db
        BY <2>1, SpoolAssumption DEF View
      <3>2. /\ run'[d].results = run[d].results /\ run'[d].inputs = run[d].inputs
            /\ run'[d].pc = "scan" => run[d].pc = "scan"
        BY <2>2
      <3> QED BY <3>1, <3>2 DEF CanonInv, ResultsHold, Accounted
    <2>5. AcksHold'
      BY <2>1 DEF CanonInv, AcksHold, Accounted
    <2> QED BY <2>3, <2>4, <2>5 DEF CanonInv
  <1>5. CASE ApplyOne(c)
    BY <1>5, ApplyKeeps
  <1>6. CASE CommitBatch(c)
    BY <1>6, CommitKeeps
  <1>7. CASE EndApply(c)
    <2> DEFINE r == [run[c] EXCEPT !.pc = "ack"]
    <2>1. r \in Run /\ r.results = run[c].results /\ r.inputs = run[c].inputs /\ r.pc # "scan"
      BY <1>a DEF Run
    <2> HIDE DEF r
    <2> QED BY <1>7, <2>1, PassMoves DEF EndApply, r
  <1>8. CASE AcknowledgeOne(c)
    BY <1>8, AcknowledgeKeeps
  <1>9. CASE EndAcks(c)
    <2> DEFINE r == [run[c] EXCEPT !.pc = "prune"]
    <2>1. r \in Run /\ r.results = run[c].results /\ r.inputs = run[c].inputs /\ r.pc # "scan"
      BY <1>a DEF Run
    <2> HIDE DEF r
    <2> QED BY <1>9, <1>b, <2>1, PassMoves DEF EndAcks, r
  <1>10. CASE EndPass(c)
    <2>1. \A p \in Paths : IdleRun.results[p] = "none"
      BY DEF IdleRun
    <2> QED BY <1>10, <1>b, <2>1, ConstantTypes, PassMoves DEF EndPass
  <1> QED BY <1>1, <1>2, <1>3, <1>4, <1>5, <1>6, <1>7, <1>8, <1>9, <1>10 DEF Compile

\* CanonInv is inductive, whoever runs at the same time.
LEMMA CanonInvInductive ==
    CanonInv /\ [Next]_vars => CanonInv'
  <1> SUFFICES ASSUME CanonInv, [Next]_vars PROVE CanonInv'
    OBVIOUS
  <1>0. TypeOK'
    BY NextType DEF CanonInv
  <1>1. ASSUME NEW e \in Envelopes, WriteEnvelope(e) PROVE CanonInv'
    BY <1>0, <1>1, AcksShrink DEF WriteEnvelope
  <1>2. ASSUME NEW p \in Paths, NEW e \in Envelopes, ForeignFile(p, e) PROVE CanonInv'
    BY <1>0, <1>2, AcksShrink DEF ForeignFile
  <1>3. ASSUME NEW c \in Passes, StartPass(c) \/ Compile(c) PROVE CanonInv'
    BY <1>0, <1>3, CompileKeeps
  <1>4. ASSUME NEW c \in Passes, PassFails(c) PROVE CanonInv'
    BY <1>0, <1>4, RaiseKeeps DEF PassFails
  <1>5. ASSUME NEW a \in Actors, Prune(a) PROVE CanonInv'
    <2>1. CASE PruneLook(a)
      <3>1. \E k : acks' = acks \/ acks' = [acks EXCEPT ![k] = NoAck]
        BY <2>1 DEF PruneLook
      <3>2. \A k \in Paths : acks'[k] # NoAck => acks'[k] = acks[k]
        BY <3>1 DEF CanonInv, TypeOK
      <3> QED BY <1>0, <2>1, <3>2, AcksShrink DEF PruneLook
    <2>2. CASE PruneSource(a)
      BY <1>0, <2>2, AcksShrink DEF PruneSource
    <2>3. CASE PruneAck(a)
      <3>1. \A k \in Paths : acks'[k] # NoAck => acks'[k] = acks[k]
        BY <2>3 DEF PruneAck, CanonInv, TypeOK
      <3> QED BY <1>0, <2>3, <3>1, AcksShrink DEF PruneAck
    <2>4. CASE PruneReceipts(a)
      BY <1>0, <2>4, AcksShrink DEF PruneReceipts
    <2> QED BY <1>5, <2>1, <2>2, <2>3, <2>4 DEF Prune
  <1>6. ASSUME NEW a \in Pruners, StartPrune(a) PROVE CanonInv'
    BY <1>0, <1>6, AcksShrink DEF StartPrune
  <1>7. ASSUME NEW a \in Pruners, PruneFails(a) PROVE CanonInv'
    BY <1>0, <1>7, AcksShrink DEF PruneFails
  <1>8. CASE RetentionPasses
    <2>1. ASSUME NEW k \in Paths, acks'[k] # NoAck
          PROVE  acks[k] # NoAck /\ acks'[k].env = acks[k].env
      <3>1. acks[k] \in Ack
        BY DEF CanonInv, TypeOK
      <3> QED BY <1>8, <2>1, <3>1 DEF RetentionPasses, Ack
    <2> QED BY <1>0, <1>8, <2>1, AcksShrink DEF RetentionPasses
  <1>9. CASE UNCHANGED vars
    BY <1>0, <1>9, AcksShrink DEF vars
  <1> QED BY <1>1, <1>2, <1>3, <1>4, <1>5, <1>6, <1>7, <1>8, <1>9 DEF Next

\* It holds of the empty installation.
LEMMA CanonInvInit ==
    Init => CanonInv
  <1> SUFFICES ASSUME Init PROVE CanonInv
    OBVIOUS
  <1>1. TypeOK
    BY InitType
  <1>2. WordsOnce(db)
    BY SpoolAssumption DEF Init, EmptyCanon, WordsOnce
  <1>3. BatchHolds
    BY <1>2 DEF Init, BatchHolds, FreeTxn
  <1>4. ResultsHold
    BY DEF Init, ResultsHold, IdleRun, Settles
  <1>5. AcksHold
    BY DEF Init, AcksHold
  <1> QED BY <1>1, <1>3, <1>4, <1>5 DEF CanonInv

\* An acknowledgement proves a durable commit, whatever crashes and whoever
\* compiles or prunes at the same time; the compiler lease is not assumed.
THEOREM AcknowledgedIsCommitted ==
    Spec => []AckedIsCommitted
  <1>1. CanonInv => AckedIsCommitted
    BY DEF CanonInv, AcksHold, AckedIsCommitted
  <1> QED BY <1>1, CanonInvInit, CanonInvInductive, PTL DEF Spec

\* A step of the capture path appends one committed group to the canon, or
\* leaves it alone.
LEMMA StepRefines ==
    CanonInv /\ [Next]_vars => [Once!Append]_Captured
  <1> SUFFICES ASSUME CanonInv, [Next]_vars, db' # db
               PROVE  Once!Append
    BY DEF Captured
  <1>1. PICK c \in Passes : CommitBatch(c)
    BY DEF Next, WriteEnvelope, ForeignFile, StartPass, Compile, ReadInput, EndScan,
           BeginBatch, ApplyOne, EndApply, AcknowledgeOne, EndAcks, EndPass, PassFails,
           Prune, PruneLook, PruneSource, PruneAck, PruneReceipts, StartPrune,
           PruneFails, RetentionPasses, vars
  <1>2. Extends(db, db') /\ WordsOnce(db')
    BY <1>1, SpoolAssumption DEF CommitBatch, CanonInv, BatchHolds
  <1>3. Captured \subseteq Captured'
    <2> SUFFICES ASSUME NEW e \in Envelopes, db.consumed[EventOf[e]] = e
                 PROVE  db'.consumed[EventOf[e]] = e
      BY DEF Captured
    <2>1. EventOf[e] \in EventIds /\ e # None
      BY SpoolAssumption
    <2> QED BY <1>2, <2>1 DEF Extends
  <1>4. Captured' \in SUBSET Envelopes /\ Captured \cup Captured' = Captured'
    BY <1>3 DEF Captured
  <1>5. Once!Distinct(Captured')
    <2> SUFFICES ASSUME NEW e \in Captured', NEW f \in Captured', e # f
                 PROVE  EventOf[e] # EventOf[f] /\ TextOf[e] # TextOf[f]
      BY DEF Once!Distinct
    <2> QED BY <1>2 DEF Captured, WordsOnce
  <1> QED BY <1>4, <1>5 DEF Once!Append

\* The capture path implements CanonOnce: however many passes, retries and
\* crashes, an event and the operator's words are captured at most once, and
\* what was captured stays.
THEOREM CapturedExactlyOnce ==
    Spec => CanonIsExactlyOnce
  <1>1. Init => Once!Init
    BY SpoolAssumption DEF Init, EmptyCanon, Captured, Once!Init
  <1> QED BY <1>1, CanonInvInit, CanonInvInductive, StepRefines, PTL
          DEF Spec, CanonIsExactlyOnce, Once!Spec

-----------------------------------------------------------------------------
(* Pruning.                                                                *)

\* While prunes do not overlap, the source a prune is about to unlink is the
\* one its acknowledgement was checked against.
LEMMA ProofHoldsInductive ==
    ASSUME PruneInv, [Next]_vars, PrunesDoNotOverlap'
    PROVE  ProofHolds'
  <1>0. TypeOK /\ TypeOK' /\ AcksHold
    BY NextType DEF PruneInv, CanonInv
  <1> SUFFICES ASSUME NEW a \in Actors, job'[a].stage = "source"
               PROVE  /\ job'[a].cut \in Paths
                      /\ acks'[job'[a].cut] # NoAck
                      /\ spool'[job'[a].cut] = acks'[job'[a].cut].env
    BY DEF ProofHolds
  <1> DEFINE Held == /\ job'[a].cut \in Paths
                     /\ acks'[job'[a].cut] # NoAck
                     /\ spool'[job'[a].cut] = acks'[job'[a].cut].env
  <1>1. ASSUME job[a].stage = "source", job'[a] = job[a],
               \A k \in Paths :
                  /\ spool[k] # None => spool'[k] = spool[k]
                  /\ acks[k] # NoAck => acks'[k] # NoAck /\ acks'[k].env = acks[k].env
        PROVE  Held
    <2>1. /\ job[a].cut \in Paths
          /\ acks[job[a].cut] # NoAck
          /\ spool[job[a].cut] = acks[job[a].cut].env
      BY <1>1 DEF PruneInv, ProofHolds
    <2>2. spool[job[a].cut] # None
      BY <1>0, <2>1, SpoolAssumption DEF AcksHold
    <2> QED BY <1>1, <2>1, <2>2
  <1> HIDE DEF Held
  <1>2. ASSUME NEW e \in Envelopes, WriteEnvelope(e) PROVE Held
    BY <1>0, <1>1, <1>2 DEF WriteEnvelope, TypeOK
  <1>3. ASSUME NEW p \in Paths, NEW e \in Envelopes, ForeignFile(p, e) PROVE Held
    BY <1>0, <1>1, <1>3 DEF ForeignFile, TypeOK
  <1>4. ASSUME UNCHANGED <<spool, acks, job>> PROVE Held
    BY <1>1, <1>4
  <1>5. ASSUME NEW c \in Passes, AcknowledgeOne(c) PROVE Held
    <2>1. ASSUME NEW k \in Paths, acks[k] # NoAck PROVE acks'[k] = acks[k]
      BY <1>0, <1>5, <2>1 DEF AcknowledgeOne, TypeOK
    <2> QED BY <1>1, <1>5, <2>1 DEF AcknowledgeOne
  <1>6. ASSUME NEW c \in Passes, EndAcks(c) \/ PassFails(c) PROVE Held
    <2>1. a # c
      BY <1>0, <1>6 DEF EndAcks, PassFails, IdleJob, PruneJob, TypeOK, Actors
    <2>2. job'[a] = job[a]
      BY <1>0, <1>6, <2>1 DEF EndAcks, PassFails, TypeOK
    <2> QED BY <1>1, <1>6, <2>2 DEF EndAcks, PassFails
  <1>7. ASSUME NEW b \in Actors, Prune(b) PROVE Held
    <2>1. job[b].stage # "off"
      BY <1>7 DEF Prune, PruneLook, PruneSource, PruneAck, PruneReceipts
    <2>2. a = b
      <3>1. a # b => job'[a] = job[a]
        BY <1>0, <1>7 DEF Prune, PruneLook, PruneSource, PruneAck, PruneReceipts, TypeOK
      <3> QED BY <2>1, <3>1 DEF PruneInv, PrunesDoNotOverlap
    <2>3. CASE PruneLook(b)
      <3>1. PICK k \in job[a].todo :
              LET next == [job[a] EXCEPT !.todo = @ \ {k}, !.aged = @ \ {k}]
              IN \/ job' = [job EXCEPT ![a] = next]
                 \/ /\ spool[k] # None /\ Provable(a, k)
                    /\ job' = [job EXCEPT ![a] = [next EXCEPT !.cut = k, !.stage = "source"]]
                    /\ UNCHANGED acks
        BY <2>2, <2>3 DEF PruneLook
      <3>2. job[a] \in Job /\ job[a].stage = "look"
        BY <1>0, <2>2, <2>3 DEF TypeOK, PruneLook
      <3> DEFINE next == [job[a] EXCEPT !.todo = @ \ {k}, !.aged = @ \ {k}]
      <3>a. next.stage = "look" /\ [next EXCEPT !.cut = k, !.stage = "source"].cut = k
        BY <3>2 DEF Job
      <3>b. \/ job'[a] = next
            \/ /\ spool[k] # None /\ Provable(a, k)
               /\ job'[a] = [next EXCEPT !.cut = k, !.stage = "source"]
               /\ UNCHANGED acks
        BY <1>0, <3>1 DEF TypeOK
      <3> HIDE DEF next
      <3>3. /\ spool[k] # None /\ Provable(a, k) /\ job'[a].cut = k
            /\ UNCHANGED <<acks, spool>>
        BY <2>3, <3>a, <3>b DEF PruneLook
      <3>4. k \in Paths /\ acks[k].env = spool[k]
        BY <3>2, <3>3 DEF Job, Provable
      <3> QED BY <3>3, <3>4 DEF NoAck, Held
    <2>4. CASE PruneSource(b) \/ PruneAck(b) \/ PruneReceipts(b)
      <3>1. job[a] \in Job
        BY <1>0 DEF TypeOK
      <3>2. job'[a].stage # "source"
        <4>1. CASE PruneSource(b)
          <5>1. \/ job'[a] = [job[a] EXCEPT !.cut = None, !.stage = "look"]
                \/ job'[a] = [job[a] EXCEPT !.stage = "ack"]
            BY <1>0, <2>2, <4>1 DEF PruneSource, TypeOK
          <5> QED BY <3>1, <5>1 DEF Job
        <4>2. CASE PruneAck(b)
          BY <1>0, <2>2, <3>1, <4>2 DEF PruneAck, TypeOK, Job
        <4>3. CASE PruneReceipts(b)
          BY <1>0, <2>2, <4>3 DEF PruneReceipts, IdleJob, TypeOK
        <4> QED BY <2>4, <4>1, <4>2, <4>3
      <3> QED BY <3>2
    <2> QED BY <1>7, <2>3, <2>4 DEF Prune
  <1>8. ASSUME NEW b \in Pruners, StartPrune(b) \/ PruneFails(b) PROVE Held
    <2>1. a # b
      BY <1>0, <1>8 DEF StartPrune, PruneFails, IdleJob, PruneJob, TypeOK, Actors
    <2>2. job'[a] = job[a]
      BY <1>0, <1>8, <2>1 DEF StartPrune, PruneFails, TypeOK
    <2> QED BY <1>1, <1>8, <2>2 DEF StartPrune, PruneFails
  <1>9. ASSUME RetentionPasses PROVE Held
    <2>1. ASSUME NEW k \in Paths, acks[k] # NoAck
          PROVE  acks'[k] # NoAck /\ acks'[k].env = acks[k].env
      <3>1. acks[k] \in Ack /\ acks'[k] = [acks[k] EXCEPT !.old = TRUE]
        BY <1>0, <1>9, <2>1 DEF TypeOK, RetentionPasses
      <3> QED BY <3>1 DEF Ack, NoAck
    <2> QED BY <1>1, <1>9, <2>1 DEF RetentionPasses
  <1>10. ASSUME NEW c \in Passes,
                StartPass(c) \/ ReadInput(c) \/ EndScan(c) \/ BeginBatch(c)
                \/ ApplyOne(c) \/ CommitBatch(c) \/ EndApply(c) \/ EndPass(c)
         PROVE  UNCHANGED <<spool, acks, job>>
    BY <1>10 DEF StartPass, ReadInput, EndScan, BeginBatch, ApplyOne, CommitBatch,
                 EndApply, EndPass
  <1> QED BY <1>2, <1>3, <1>4, <1>5, <1>6, <1>7, <1>8, <1>9, <1>10
          DEF Next, Compile, vars, Held

\* Only source.unlink() takes a spool file away.
LEMMA OnlyPruneDeletes ==
    ASSUME TypeOK, [Next]_vars, NEW p \in Paths, spool[p] # None, spool'[p] # spool[p]
    PROVE  \E a \in Actors : job[a].stage = "source" /\ job[a].cut = p
  <1>1. ASSUME NEW e \in Envelopes, WriteEnvelope(e) PROVE FALSE
    BY <1>1 DEF WriteEnvelope, TypeOK
  <1>2. ASSUME NEW q \in Paths, NEW e \in Envelopes, ForeignFile(q, e) PROVE FALSE
    BY <1>2 DEF ForeignFile, TypeOK
  <1>3. PICK a \in Actors : PruneSource(a)
    BY <1>1, <1>2
    DEF Next, StartPass, Compile, ReadInput, EndScan, BeginBatch, ApplyOne, CommitBatch,
        EndApply, AcknowledgeOne, EndAcks, EndPass, PassFails, Prune, PruneLook,
        PruneAck, PruneReceipts, StartPrune, PruneFails, RetentionPasses, vars
  <1> QED BY <1>3 DEF PruneSource, TypeOK

\* prune_acknowledged_spools deletes only what the canon has, as long as a
\* compile's prune and `imprint spool prune` do not run at the same time.
THEOREM PruneDeletesOnlyCommitted ==
    SerialPruneSpec => DeletesOnlyCommitted
  <1>1. Init => PruneInv
    <2>1. Init => PrunesDoNotOverlap /\ ProofHolds
      BY DEF Init, PrunesDoNotOverlap, ProofHolds, IdleJob
    <2> QED BY <2>1, CanonInvInit DEF PruneInv
  <1>2. PruneInv /\ [Next /\ PrunesDoNotOverlap']_vars => PruneInv'
    <2> SUFFICES ASSUME PruneInv, [Next /\ PrunesDoNotOverlap']_vars PROVE PruneInv'
      OBVIOUS
    <2>1. PrunesDoNotOverlap'
      BY DEF PruneInv, PrunesDoNotOverlap, vars
    <2>2. CanonInv'
      BY CanonInvInductive DEF PruneInv
    <2> QED BY <2>1, <2>2, ProofHoldsInductive DEF PruneInv
  <1>3. PruneInv /\ [Next /\ PrunesDoNotOverlap']_vars =>
          [\A p \in Paths :
             spool[p] # None /\ spool'[p] # spool[p] => Accounted(db, spool[p])]_vars
    <2> SUFFICES ASSUME PruneInv, [Next]_vars, NEW p \in Paths,
                        spool[p] # None, spool'[p] # spool[p]
                 PROVE  Accounted(db, spool[p])
      OBVIOUS
    <2>1. PICK a \in Actors : job[a].stage = "source" /\ job[a].cut = p
      BY OnlyPruneDeletes DEF PruneInv, CanonInv
    <2>2. acks[p] # NoAck /\ spool[p] = acks[p].env
      BY <2>1 DEF PruneInv, ProofHolds
    <2> QED BY <2>2 DEF PruneInv, CanonInv, AcksHold
  <1> QED BY <1>1, <1>2, <1>3, PTL DEF SerialPruneSpec, DeletesOnlyCommitted

=============================================================================
