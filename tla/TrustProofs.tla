---------------------------- MODULE TrustProofs ----------------------------
(***************************************************************************)
(* Proofs about Trust, for any number of machines and ceremonies: what a   *)
(* machine has pinned its ledger agrees with, an anchor only moves         *)
(* forward, a key can be opened, and no ledger holds an event that its     *)
(* author did not commit.                                                  *)
(***************************************************************************)
EXTENDS Trust, SequenceTheorems, TLAPS

-----------------------------------------------------------------------------
(* Sequences.                                                              *)

LEMMA AppendIs ==
    ASSUME NEW S, NEW s \in Seq(S), NEW e \in S
    PROVE  /\ Append(s, e) \in Seq(S) /\ Append(s, e) # <<>>
           /\ Len(Append(s, e)) = Len(s) + 1 /\ Len(s) \in Nat
           /\ DOMAIN Append(s, e) = 1..(Len(s) + 1) /\ DOMAIN s = 1..Len(s)
           /\ \A i \in 1..Len(s) : Append(s, e)[i] = s[i]
           /\ Append(s, e)[Len(s) + 1] = e
  BY AppendProperties, LenProperties

\* The part of h after position a.
LEMMA RestIs ==
    ASSUME NEW S, NEW h \in Seq(S), NEW a \in 1..Len(h)
    PROVE  /\ SubSeq(h, a + 1, Len(h)) \in Seq(S)
           /\ Len(SubSeq(h, a + 1, Len(h))) = Len(h) - a
           /\ \A i \in 1..(Len(h) - a) : SubSeq(h, a + 1, Len(h))[i] = h[a + i]
           /\ Len(h) \in Nat
  <1> DEFINE b == a + 1
             n == Len(h)
             r == SubSeq(h, b, n)
  <1>1. n \in Nat
    BY LenProperties
  <1>2. b \in Int /\ n \in Int /\ b \in 2..(n + 1) /\ b = a + 1
    BY <1>1
  <1>3. \A i \in b..n : h[i] \in S
    BY <1>1, <1>2, ElementOfSeq
  <1> HIDE DEF b, n
  <1>4. /\ r \in Seq(S)
        /\ Len(r) = IF b <= n THEN n - b + 1 ELSE 0
        /\ \A i \in 1..(n - b + 1) : r[i] = h[b + i - 1]
    <2> QED
      BY <1>2, <1>3, SubSeqProperties
  <1> HIDE DEF r
  <1>5. Len(r) = n - a /\ \A i \in 1..(n - a) : r[i] = h[a + i]
    <2>1. n - b + 1 = n - a /\ (b <= n \/ n - a = 0)
      BY <1>1, <1>2
    <2>2. ASSUME NEW i \in 1..(n - a) PROVE r[i] = h[a + i]
      <3>1. i \in 1..(n - b + 1) /\ b + i - 1 = a + i
        BY <1>1, <1>2, <2>1
      <3> QED
        BY <1>4, <3>1
    <2> QED
      BY <1>1, <1>2, <1>4, <2>1, <2>2
  <1> QED
    BY <1>1, <1>4, <1>5 DEF r, b, n

LEMMA TwoParts ==
    ASSUME NEW S, NEW u \in Seq(S), NEW v \in Seq(S)
    PROVE  /\ u \o v \in Seq(S) /\ Len(u \o v) = Len(u) + Len(v)
           /\ DOMAIN (u \o v) = 1..(Len(u) + Len(v))
           /\ Len(u) \in Nat /\ Len(v) \in Nat
           /\ \A i \in 1..Len(u) : (u \o v)[i] = u[i]
           /\ \A i \in (Len(u) + 1)..(Len(u) + Len(v)) : (u \o v)[i] = v[i - Len(u)]
  <1> DEFINE q == u \o v
  <1>1. Len(u) \in Nat /\ Len(v) \in Nat
    BY LenProperties
  <1>2. /\ q \in Seq(S) /\ Len(q) = Len(u) + Len(v)
        /\ \A i \in 1..(Len(u) + Len(v)) : q[i] = IF i <= Len(u) THEN u[i] ELSE v[i - Len(u)]
    BY ConcatProperties
  <1> HIDE DEF q
  <1>3. DOMAIN q = 1..Len(q)
    BY <1>2, LenProperties
  <1>4. /\ \A i \in 1..Len(u) : q[i] = u[i]
        /\ \A i \in (Len(u) + 1)..(Len(u) + Len(v)) : q[i] = v[i - Len(u)]
    BY <1>1, <1>2
  <1> QED
    BY <1>1, <1>2, <1>3, <1>4 DEF q

\* A sequence continued with what another one has after position a.
Continued(s, h, a) == s \o SubSeq(h, a + 1, Len(h))

LEMMA ContinuedIs ==
    ASSUME NEW s \in Seq(Checkpoint), NEW h \in Seq(Checkpoint), NEW a \in 1..Len(h)
    PROVE  /\ Continued(s, h, a) \in Seq(Checkpoint)
           /\ Len(Continued(s, h, a)) = Len(s) + (Len(h) - a)
           /\ DOMAIN Continued(s, h, a) = 1..(Len(s) + (Len(h) - a))
           /\ Len(s) \in Nat /\ Len(h) \in Nat /\ DOMAIN s = 1..Len(s) /\ DOMAIN h = 1..Len(h)
           /\ \A i \in 1..Len(s) : Continued(s, h, a)[i] = s[i]
           /\ \A i \in (Len(s) + 1)..(Len(s) + (Len(h) - a)) :
                Continued(s, h, a)[i] = h[a + (i - Len(s))]
  <1> DEFINE r == SubSeq(h, a + 1, Len(h))
             q == s \o r
  <1>1. /\ r \in Seq(Checkpoint) /\ Len(r) = Len(h) - a /\ \A i \in 1..(Len(h) - a) : r[i] = h[a + i]
        /\ Len(h) \in Nat
    BY RestIs
  <1> HIDE DEF r
  <1>2. /\ q \in Seq(Checkpoint) /\ Len(q) = Len(s) + Len(r) /\ DOMAIN q = 1..(Len(s) + Len(r))
        /\ Len(s) \in Nat
        /\ \A i \in 1..Len(s) : q[i] = s[i]
        /\ \A i \in (Len(s) + 1)..(Len(s) + Len(r)) : q[i] = r[i - Len(s)]
    BY <1>1, TwoParts
  <1> HIDE DEF q
  <1>3. ASSUME NEW i \in (Len(s) + 1)..(Len(s) + (Len(h) - a)) PROVE q[i] = h[a + (i - Len(s))]
    <2>1. i - Len(s) \in 1..(Len(h) - a) /\ i \in (Len(s) + 1)..(Len(s) + Len(r))
      BY <1>1, <1>2
    <2> QED
      BY <1>1, <1>2, <2>1
  <1>4. DOMAIN s = 1..Len(s) /\ DOMAIN h = 1..Len(h)
    BY LenProperties
  <1>5. Continued(s, h, a) = q
    BY DEF Continued, q, r
  <1> QED
    BY <1>1, <1>2, <1>3, <1>4, <1>5

\* What is left when one element is taken out.
LEMMA RemoveAtIs ==
    ASSUME NEW S, NEW s \in Seq(S), NEW i \in DOMAIN s
    PROVE  /\ RemoveAt(s, i) \in Seq(S)
           /\ \A k \in DOMAIN RemoveAt(s, i) : \E n \in DOMAIN s : RemoveAt(s, i)[k] = s[n]
  <1> DEFINE b == i - 1
             u == SubSeq(s, 1, b)
             v == SubSeq(s, i + 1, Len(s))
             q == RemoveAt(s, i)
  <1>1. Len(s) \in Nat /\ DOMAIN s = 1..Len(s) /\ i \in 1..Len(s)
    BY LenProperties
  <1>2. b \in Int /\ b \in 0..Len(s) /\ b < i /\ 1 \in Int
    BY <1>1
  <1> HIDE DEF b
  <1>3. \A n \in 1..b : n \in 1..Len(s) /\ s[n] \in S
    BY <1>1, <1>2, ElementOfSeq
  <1>4. /\ u \in Seq(S) /\ Len(u) = IF 1 <= b THEN b - 1 + 1 ELSE 0
        /\ \A n \in 1..(b - 1 + 1) : u[n] = s[1 + n - 1]
    BY <1>2, <1>3, SubSeqProperties
  <1>5. /\ v \in Seq(S) /\ Len(v) = Len(s) - i /\ \A n \in 1..(Len(s) - i) : v[n] = s[i + n]
    BY <1>1, RestIs
  <1>6. q = u \o v
    BY DEF RemoveAt, b
  <1> HIDE DEF u, v, q
  <1>7. Len(u) = b /\ \A n \in 1..b : u[n] = s[n]
    <2>1. ASSUME NEW n \in 1..b PROVE u[n] = s[n]
      <3>1. n \in 1..(b - 1 + 1) /\ 1 + n - 1 = n
        BY <1>2
      <3> QED
        BY <1>4, <3>1
    <2> QED
      BY <1>2, <1>4, <2>1
  <1>8. /\ q \in Seq(S) /\ DOMAIN q = 1..(Len(u) + Len(v))
        /\ \A n \in 1..Len(u) : q[n] = u[n]
        /\ \A n \in (Len(u) + 1)..(Len(u) + Len(v)) : q[n] = v[n - Len(u)]
    BY <1>4, <1>5, <1>6, TwoParts
  <1>9. ASSUME NEW k \in DOMAIN q PROVE \E n \in DOMAIN s : q[k] = s[n]
    <2>1. CASE k <= b
      <3>1. k \in 1..b
        BY <1>1, <1>2, <1>5, <1>7, <1>8, <2>1
      <3> QED
        BY <1>1, <1>3, <1>7, <1>8, <3>1
    <2>2. CASE ~(k <= b)
      <3> DEFINE n == k - b
      <3>1. n \in 1..(Len(s) - i) /\ k \in (b + 1)..(b + Len(v))
        BY <1>1, <1>2, <1>5, <1>7, <1>8, <2>2
      <3>2. q[k] = v[n]
        BY <1>7, <1>8, <3>1
      <3> HIDE DEF n
      <3>3. v[n] = s[i + n] /\ i + n \in 1..Len(s)
        BY <1>1, <1>5, <3>1
      <3> QED
        BY <1>1, <3>2, <3>3
    <2> QED
      BY <1>1, <1>2, <1>5, <1>7, <1>8, <2>1, <2>2
  <1> QED
    BY <1>8, <1>9 DEF q

-----------------------------------------------------------------------------
(* Types.  A step that reads a file has to know what is in it, so the      *)
(* files are typed along with the machines.  A bundle's ledger is never    *)
(* empty and ends where its last checkpoint says, which is what the anchor *)
(* of bootstrap_recovery_trust is made of.                                 *)

BundleFile == [kind : {"bundle"}, ledger : Seq(Event), history : Seq(Checkpoint), rec : Stamps]
TransportFile ==
    [kind : {"transport"}, ledger : Seq(Event), history : Seq(Checkpoint), cp : Checkpoint]
RequestFile == [kind : {"request"}, key : Stamps, genesis : Stamps, seq : Sequence]
PackageFile ==
    [kind : {"package"}, request : RequestFile, ledger : Seq(Event), history : Seq(Checkpoint),
     cp : Checkpoint]
Ticket == [cp : Checkpoint, prior : Anchor]
KeyRow == [key : Stamps, seq : Sequence, aad : Sequence]

FilesOK == files \subseteq BundleFile \cup TransportFile \cup RequestFile \cup PackageFile

Rows ==
    /\ ledger \in [Machines -> Seq(Event)]
    /\ pins \in [Machines -> Seq(Checkpoint)]
    /\ anchor \in [Machines -> Anchor \cup {None}]
    /\ keys \in [Machines -> KeyRow \cup {None}]
    /\ blobs \in [Machines -> SUBSET Stamps]
    /\ exporting \in [Machines -> Checkpoint \cup {None}]
    /\ journal \in [Machines -> BOOLEAN]
    /\ made \in [Machines -> 0..MaxMade]

HeldOK ==
    /\ pending \in [Machines -> SUBSET RequestFile]
    /\ \A m \in Machines : pending[m] \subseteq Carried("request")
    /\ tickets \in [Machines -> Seq(Ticket)]

BundleEnds ==
    \A b \in Carried("bundle") :
        /\ b.ledger # <<>> /\ b.history # <<>>
        /\ b.history[Len(b.history)].seq = Len(b.ledger)
        /\ b.history[Len(b.history)].ev = b.ledger[Len(b.ledger)].id

\* A ledger or a request to be paired is only on a machine that has an anchor.
Anchored ==
    \A m \in Machines : ledger[m] # <<>> \/ pending[m] # {} => anchor[m] # None

TypeInv == Rows /\ FilesOK /\ HeldOK /\ BundleEnds /\ Anchored

LEMMA TypeInvTypes ==
    ASSUME TypeInv
    PROVE  TypeOK
  BY DEF TypeInv, TypeOK, Rows, HeldOK, Ticket, KeyRow

LEMMA FileKinds ==
    ASSUME FilesOK
    PROVE  /\ Carried("bundle") \subseteq BundleFile
           /\ Carried("transport") \subseteq TransportFile
           /\ Carried("request") \subseteq RequestFile
           /\ Carried("package") \subseteq PackageFile
  BY DEF FilesOK, Carried, BundleFile, TransportFile, RequestFile, PackageFile

LEMMA NonEmpty ==
    ASSUME NEW S, NEW l \in Seq(S)
    PROVE  /\ Len(l) \in Nat /\ DOMAIN l = 1..Len(l)
           /\ \A i \in DOMAIN l : l[i] \in S
           /\ l # <<>> => /\ Len(l) \in Sequence /\ Len(l) \in DOMAIN l /\ 1 \in DOMAIN l
                          /\ l[Len(l)] \in S /\ l[1] \in S
           /\ l = <<>> => DOMAIN l = {} /\ Len(l) = 0
  <1>1. Len(l) \in Nat /\ DOMAIN l = 1..Len(l) /\ \A i \in 1..Len(l) : l[i] \in S
    BY LenProperties, ElementOfSeq
  <1>2. l # <<>> => Len(l) \in Nat \ {0}
    BY EmptySeq
  <1>3. l = <<>> => Len(l) = 0 /\ DOMAIN l = {}
    BY <1>1, EmptySeq
  <1>4. l # <<>> => Len(l) \in 1..Len(l) /\ 1 \in 1..Len(l)
    BY <1>1, <1>2
  <1> QED
    BY <1>1, <1>2, <1>3, <1>4 DEF Sequence

LEMMA StampIs ==
    ASSUME Rows, NEW m \in Machines, made[m] < MaxMade
    PROVE  /\ Stamp(m) \in Stamps /\ Stamp(m)[1] = m /\ Stamp(m)[2] = made[m] + 1
           /\ made[m] \in Nat
  BY TrustAssumption DEF Rows, Stamp, Stamps

LEMMA EventIs ==
    ASSUME NEW s \in Stamps, NEW type \in EventTypes
    PROVE  /\ NewEvent(s, type) \in Event
           /\ NewEvent(s, type).id = s /\ NewEvent(s, type).key = None
  BY DEF NewEvent, Event

LEMMA CheckpointIs ==
    ASSUME NEW s \in Stamps, NEW prior \in Stamps \cup {None}, NEW l \in Seq(Event), l # <<>>
    PROVE  /\ NewCheckpoint(s, prior, l) \in Checkpoint
           /\ NewCheckpoint(s, prior, l).id = s /\ NewCheckpoint(s, prior, l).prior = prior
           /\ NewCheckpoint(s, prior, l).seq = Len(l)
           /\ NewCheckpoint(s, prior, l).ev = l[Len(l)].id
  <1>1. Len(l) \in Sequence /\ l[Len(l)].id \in Stamps
    <2>1. Len(l) \in Sequence /\ l[Len(l)] \in Event
      BY NonEmpty
    <2> QED
      BY <2>1 DEF Event
  <1> QED
    BY <1>1 DEF NewCheckpoint, Checkpoint

LEMMA AnchorIs ==
    ASSUME NEW cp \in Stamps, NEW rec \in Stamps \cup {None}, NEW l \in Seq(Event), l # <<>>
    PROVE  /\ AnchorAt(l, cp, rec) \in Anchor /\ AnchorAt(l, cp, rec) # None
           /\ AnchorAt(l, cp, rec).genesis = l[1].id /\ AnchorAt(l, cp, rec).rec = rec
           /\ AnchorAt(l, cp, rec).seq = Len(l) /\ AnchorAt(l, cp, rec).head = l[Len(l)].id
           /\ AnchorAt(l, cp, rec).cp = cp
  <1>1. Len(l) \in Sequence /\ l[Len(l)].id \in Stamps /\ l[1].id \in Stamps
    <2>1. Len(l) \in Sequence /\ l[Len(l)] \in Event /\ l[1] \in Event
      BY NonEmpty
    <2> QED
      BY <2>1 DEF Event
  <1>2. AnchorAt(l, cp, rec) \in Anchor
    BY <1>1 DEF AnchorAt, Anchor
  <1> QED
    BY <1>2, TrustAssumption DEF AnchorAt

\* Who signs has a ledger, and so an anchor.
LEMMA SignerHas ==
    ASSUME TypeInv, NEW m \in Machines, CanSign(m) \/ SignWithRecovery(m)
    PROVE  ledger[m] # <<>> /\ anchor[m] # None /\ anchor[m] \in Anchor
  <1>1. ledger[m] \in Seq(Event) /\ anchor[m] \in Anchor \cup {None}
    BY DEF TypeInv, Rows
  <1>2. DOMAIN ledger[m] # {}
    BY DEF CanSign, SignWithRecovery, Active, ActiveRecovery
  <1>3. ledger[m] # <<>>
    BY <1>1, <1>2, NonEmpty
  <1> QED
    BY <1>1, <1>3 DEF TypeInv, Anchored

LEMMA FilesSame ==
    ASSUME TypeInv, UNCHANGED files
    PROVE  FilesOK' /\ BundleEnds' /\ Carried("request")' = Carried("request")
  <1>1. Carried("request")' = Carried("request") /\ Carried("bundle")' = Carried("bundle")
    BY DEF Carried
  <1> QED
    BY <1>1 DEF TypeInv, FilesOK, BundleEnds

LEMMA BundleAdded ==
    ASSUME TypeInv, NEW l \in Seq(Event), l # <<>>, NEW h \in Seq(Checkpoint), h # <<>>,
           h[Len(h)].seq = Len(l), h[Len(h)].ev = l[Len(l)].id, NEW rec \in Stamps,
           files' = files \cup {Bundle(l, h, rec)}
    PROVE  FilesOK' /\ BundleEnds' /\ Carried("request")' = Carried("request")
  <1> DEFINE b == Bundle(l, h, rec)
  <1>1. b \in BundleFile /\ b.kind = "bundle" /\ b.ledger = l /\ b.history = h
    BY DEF Bundle, BundleFile
  <1> HIDE DEF b
  <1>2. FilesOK'
    BY <1>1 DEF TypeInv, FilesOK, b
  <1>3. Carried("bundle")' = Carried("bundle") \cup {b} /\ Carried("request")' = Carried("request")
    BY <1>1 DEF Carried, b
  <1> QED
    BY <1>1, <1>2, <1>3 DEF TypeInv, BundleEnds

LEMMA FileAdded ==
    ASSUME TypeInv, NEW f \in TransportFile \cup RequestFile \cup PackageFile,
           files' = files \cup {f}
    PROVE  FilesOK' /\ BundleEnds' /\ Carried("request") \subseteq Carried("request")'
           /\ (f \in RequestFile => f \in Carried("request")')
  <1>1. f.kind # "bundle" /\ (f \in RequestFile => f.kind = "request")
    BY DEF TransportFile, RequestFile, PackageFile
  <1>2. FilesOK'
    BY DEF TypeInv, FilesOK
  <1>3. Carried("bundle")' = Carried("bundle")
    BY <1>1 DEF Carried
  <1>4. BundleEnds'
    BY <1>3 DEF TypeInv, BundleEnds
  <1> QED
    BY <1>1, <1>2, <1>4 DEF Carried

LEMMA SeqsAndAnchors ==
    ASSUME TypeInv, NEW m \in Machines
    PROVE  /\ ledger[m] \in Seq(Event) /\ pins[m] \in Seq(Checkpoint)
           /\ anchor[m] \in Anchor \cup {None} /\ keys[m] \in KeyRow \cup {None}
           /\ exporting[m] \in Checkpoint \cup {None}
           /\ pending[m] \subseteq RequestFile /\ tickets[m] \in Seq(Ticket)
           /\ made[m] \in 0..MaxMade
           /\ anchor[m] # None => /\ anchor[m].cp \in Stamps /\ anchor[m].seq \in Sequence
                                  /\ anchor[m].genesis \in Stamps /\ anchor[m].head \in Stamps
                                  /\ anchor[m].rec \in Stamps \cup {None}
  <1>1. /\ ledger[m] \in Seq(Event) /\ pins[m] \in Seq(Checkpoint)
        /\ anchor[m] \in Anchor \cup {None} /\ keys[m] \in KeyRow \cup {None}
        /\ exporting[m] \in Checkpoint \cup {None}
        /\ made[m] \in 0..MaxMade
    BY DEF TypeInv, Rows
  <1>2. pending[m] \subseteq RequestFile /\ tickets[m] \in Seq(Ticket)
    BY DEF TypeInv, HeldOK
  <1> QED
    BY <1>1, <1>2 DEF Anchor

-----------------------------------------------------------------------------
(* What the ceremonies do to the machine, with the event they make.        *)

\* enroll, and _enroll_with_recovery that is reached to its end
Began(m, e, rec) ==
    LET cp == NewCheckpoint(Stamp(m), None, <<e>>)
    IN /\ Make(m)
       /\ ledger[m] = <<>> /\ anchor[m] = None
       /\ e \in Event /\ e.id = Stamp(m) /\ e.key = Stamp(m) /\ rec \in Stamps \cup {None}
       /\ ledger' = [ledger EXCEPT ![m] = <<e>>]
       /\ pins' = [pins EXCEPT ![m] = <<cp>>]
       /\ anchor' = [anchor EXCEPT ![m] = AnchorAt(<<e>>, Stamp(m), rec)]
       /\ keys' = [keys EXCEPT ![m] = [key |-> Stamp(m), seq |-> 1, aad |-> 1]]
       /\ blobs' = [blobs EXCEPT ![m] = @ \cup {Stamp(m)}]
       /\ files' = files \/ files' = files \cup {Bundle(<<e>>, <<cp>>, Stamp(m))}
       /\ journal' \in [Machines -> BOOLEAN]
       /\ UNCHANGED <<pending, tickets, exporting>>

\* A recovery publication that stops after the bundle.
Published(m, l, h) ==
    /\ Make(m)
    /\ \E e \in Event :
         /\ e.id = Stamp(m)
         /\ \/ l = <<e>> /\ h = <<NewCheckpoint(Stamp(m), None, l)>>
            \/ /\ ledger[m] # <<>> /\ l = Append(ledger[m], e)
               /\ h = Append(pins[m], NewCheckpoint(Stamp(m), anchor[m].cp, l))
    /\ files' = files \cup {Bundle(l, h, Stamp(m))}
    /\ blobs' \in [Machines -> SUBSET Stamps]
    /\ journal' = [journal EXCEPT ![m] = TRUE]
    /\ UNCHANGED <<ledger, pins, anchor, keys, pending, tickets, exporting>>

\* An event is committed, and a checkpoint of it or none.
Grew(m, e, rec) ==
    LET l == Append(ledger[m], e)
        cp == NewCheckpoint(Stamp(m), anchor[m].cp, l)
    IN /\ Make(m)
       /\ ledger[m] # <<>>
       /\ e \in Event /\ e.id = Stamp(m) /\ rec \in Stamps \cup {None}
       /\ anchor[m].seq <= Len(l)
       /\ anchor[m].seq = Len(l) => e.id = anchor[m].head
       /\ ledger' = [ledger EXCEPT ![m] = l]
       /\ \/ /\ UNCHANGED <<pins, files>>
             /\ anchor' = [anchor EXCEPT ![m] = AnchorAt(l, anchor[m].cp, rec)]
          \/ /\ pins' = [pins EXCEPT ![m] = Append(pins[m], cp)]
             /\ anchor' = [anchor EXCEPT ![m] = AnchorAt(l, Stamp(m), rec)]
             /\ \/ files' = files \cup {Bundle(l, Append(pins[m], cp), Stamp(m))}
                \/ \E r \in Carried("request") :
                     files' = files \cup {Package(r, l, Append(pins[m], cp), cp)}
       /\ blobs' \in [Machines -> SUBSET Stamps] /\ journal' \in [Machines -> BOOLEAN]
       /\ UNCHANGED <<keys, pending, tickets, exporting>>

LEMMA SignedBlobs ==
    ASSUME TypeInv, NEW m \in Machines, Sign(m) \/ SignWithRecovery(m)
    PROVE  /\ blobs' \in [Machines -> SUBSET Stamps] /\ Make(m)
           /\ ledger[m] # <<>> /\ anchor[m] # None /\ anchor[m] \in Anchor
  <1>1. blobs \in [Machines -> SUBSET Stamps] /\ keys[m] \in KeyRow \cup {None}
    BY DEF TypeInv, Rows
  <1>2. CASE Sign(m)
    <2>1. keys[m].key \in Stamps
      BY <1>1, <1>2 DEF Sign, CanSign, KeyRow
    <2> QED
      BY <1>1, <1>2, <2>1, SignerHas DEF Sign
  <1>3. CASE SignWithRecovery(m)
    BY <1>1, <1>3, SignerHas DEF SignWithRecovery
  <1> QED
    BY <1>2, <1>3

\* The journals stay flags, whether the one of m is cleared, left or not touched.
LEMMA JournalTyped ==
    ASSUME TypeInv, NEW m \in Machines
    PROVE  UNCHANGED journal \/ Cleared(m) => journal' \in [Machines -> BOOLEAN]
  BY DEF TypeInv, Rows, Cleared

LEMMA EnrollIs ==
    ASSUME TypeInv, NEW m \in Machines, Enroll(m)
    PROVE  \E e \in Event : Began(m, e, None)
  <1> DEFINE s == Stamp(m)
             e == [NewEvent(s, "enrollment") EXCEPT !.key = s]
  <1>1. s \in Stamps
    BY StampIs DEF Enroll, Make, TypeInv
  <1>2. e \in Event /\ e.id = s /\ e.key = s
    BY <1>1 DEF NewEvent, EventTypes, Event
  <1>3. Began(m, e, None)
    <2> HIDE DEF e
    <2>1. /\ ledger' = [ledger EXCEPT ![m] = <<e>>]
          /\ pins' = [pins EXCEPT ![m] = <<NewCheckpoint(s, None, <<e>>)>>]
          /\ anchor' = [anchor EXCEPT ![m] = AnchorAt(<<e>>, s, None)]
      BY DEF Enroll, e
    <2> QED
      BY <1>2, <2>1, JournalTyped DEF Enroll, Began
  <1> QED
    BY <1>2, <1>3

LEMMA EnrollWithRecoveryIs ==
    ASSUME TypeInv, NEW m \in Machines, EnrollWithRecovery(m)
    PROVE  \/ \E e \in Event : Began(m, e, Stamp(m))
           \/ \E l, h : Published(m, l, h)
  <1> DEFINE s == Stamp(m)
             e == [NewEvent(s, "enrollment") EXCEPT !.key = s, !.rec = s]
             l == <<e>>
             cp == NewCheckpoint(s, None, l)
  <1>1. s \in Stamps
    BY StampIs DEF EnrollWithRecovery, Make, TypeInv
  <1>2. e \in Event /\ e.id = s /\ e.key = s
    BY <1>1 DEF NewEvent, EventTypes, Event
  <1>3. /\ ledger[m] = <<>> /\ Make(m)
        /\ files' = files \cup {Bundle(l, <<cp>>, s)}
        /\ \/ /\ anchor[m] = None
              /\ ledger' = [ledger EXCEPT ![m] = l]
              /\ pins' = [pins EXCEPT ![m] = <<cp>>]
              /\ anchor' = [anchor EXCEPT ![m] = AnchorAt(l, s, s)]
              /\ keys' = [keys EXCEPT ![m] = [key |-> s, seq |-> 1, aad |-> 1]]
              /\ blobs' = [blobs EXCEPT ![m] = @ \cup {s}]
              /\ Cleared(m)
           \/ /\ journal' = [journal EXCEPT ![m] = TRUE]
              /\ UNCHANGED <<ledger, pins, anchor, keys, blobs>>
        /\ UNCHANGED <<pending, tickets, exporting>>
    BY DEF EnrollWithRecovery
  <1>4. blobs \in [Machines -> SUBSET Stamps]
    BY DEF TypeInv, Rows
  <1> HIDE DEF e
  <1>5. Began(m, e, s) \/ Published(m, l, <<cp>>)
    BY <1>1, <1>2, <1>3, <1>4, JournalTyped DEF Began, Published
  <1> QED
    BY <1>2, <1>5

LEMMA CreateRecoveryBundleIs ==
    ASSUME TypeInv, NEW m \in Machines, CreateRecoveryBundle(m)
    PROVE  \/ \E e \in Event : Grew(m, e, Stamp(m))
           \/ \E l, h : Published(m, l, h)
  <1> DEFINE s == Stamp(m)
             e == [NewEvent(s, "recovery_created") EXCEPT !.rec = s]
             l == Append(ledger[m], e)
             cp == NewCheckpoint(s, anchor[m].cp, l)
  <1>1. /\ Make(m) /\ ledger[m] # <<>> /\ anchor[m] # None /\ anchor[m] \in Anchor
        /\ blobs' \in [Machines -> SUBSET Stamps]
    BY SignedBlobs DEF CreateRecoveryBundle
  <1>2. s \in Stamps
    BY <1>1, StampIs DEF Make, TypeInv
  <1>3. e \in Event /\ e.id = s
    BY <1>2 DEF NewEvent, EventTypes, Event
  <1>4. /\ files' = files \cup {Bundle(l, Append(pins[m], cp), s)}
        /\ \/ /\ MayPin(m, cp)
              /\ ledger' = [ledger EXCEPT ![m] = l]
              /\ pins' = [pins EXCEPT ![m] = Append(pins[m], cp)]
              /\ anchor' = [anchor EXCEPT ![m] = AnchorAt(l, s, s)]
              /\ Cleared(m)
           \/ /\ journal' = [journal EXCEPT ![m] = TRUE]
              /\ UNCHANGED <<ledger, pins, anchor>>
        /\ UNCHANGED <<keys, pending, tickets, exporting>>
    <2>1. DOMAIN pins = Machines
      BY DEF TypeInv, Rows
    <2> QED
      BY <2>1 DEF CreateRecoveryBundle
  <1> HIDE DEF e
  <1>5. ledger[m] \in Seq(Event) /\ anchor[m].cp \in Stamps /\ anchor[m].seq \in Nat
    BY <1>1, SeqsAndAnchors DEF Sequence
  <1>6. /\ l \in Seq(Event) /\ l # <<>> /\ Len(l) = Len(ledger[m]) + 1 /\ Len(ledger[m]) \in Nat
        /\ l[Len(ledger[m]) + 1] = e
    BY <1>3, <1>5, AppendIs
  <1> HIDE DEF l
  <1>7. cp.seq = Len(l) /\ cp.ev = s
    <2>1. cp.seq = Len(l) /\ cp.ev = l[Len(l)].id
      BY <1>2, <1>5, <1>6, CheckpointIs
    <2> QED
      BY <1>3, <1>6, <2>1
  <1> HIDE DEF cp
  <1>8. CASE MayPin(m, cp) /\ Cleared(m) /\ ledger' = [ledger EXCEPT ![m] = l]
             /\ pins' = [pins EXCEPT ![m] = Append(pins[m], cp)]
             /\ anchor' = [anchor EXCEPT ![m] = AnchorAt(l, s, s)]
    <2>1. anchor[m].seq <= Len(l) /\ (anchor[m].seq = Len(l) => e.id = anchor[m].head)
      BY <1>3, <1>5, <1>6, <1>7, <1>8 DEF MayPin
    <2>2. Grew(m, e, s)
      BY <1>1, <1>2, <1>3, <1>4, <1>8, <2>1, JournalTyped DEF Grew, l, cp
    <2> QED
      BY <1>3, <2>2
  <1>9. CASE journal' = [journal EXCEPT ![m] = TRUE] /\ UNCHANGED <<ledger, pins, anchor>>
    <2>1. Published(m, l, Append(pins[m], cp))
      BY <1>1, <1>3, <1>4, <1>9 DEF Published, l, cp
    <2> QED
      BY <2>1
  <1> QED
    BY <1>4, <1>8, <1>9

LEMMA RevokeIs ==
    ASSUME TypeInv, NEW m \in Machines, NEW old \in Stamps \cup {None},
           NEW oldrec \in Stamps \cup {None}, Revoke(m, old, oldrec)
    PROVE  \E e \in Event : Grew(m, e, anchor[m].rec)
  <1> DEFINE s == Stamp(m)
             type == IF old # None THEN "key_revoked" ELSE "recovery_revoked"
             e == [NewEvent(s, type) EXCEPT !.old = old, !.oldrec = oldrec]
             l == Append(ledger[m], e)
  <1>1. /\ Make(m) /\ ledger[m] # <<>> /\ anchor[m] # None /\ anchor[m] \in Anchor
        /\ blobs' \in [Machines -> SUBSET Stamps]
    BY SignedBlobs DEF Revoke
  <1>2. s \in Stamps
    BY <1>1, StampIs DEF Make, TypeInv
  <1>3. e \in Event /\ e.id = s
    <2>1. type \in EventTypes
      BY DEF EventTypes
    <2> HIDE DEF type
    <2> QED
      BY <1>2, <2>1 DEF NewEvent, Event
  <1>4. /\ ExtendsPin(m, l)
        /\ ledger' = [ledger EXCEPT ![m] = l]
        /\ anchor' = [anchor EXCEPT ![m] = AnchorAt(l, anchor[m].cp, anchor[m].rec)]
        /\ UNCHANGED <<pins, keys, pending, tickets, exporting, journal, files>>
    <2>1. DOMAIN anchor = Machines
      BY DEF TypeInv, Rows
    <2> QED
      BY <2>1 DEF Revoke
  <1> HIDE DEF e
  <1>5. ledger[m] \in Seq(Event) /\ anchor[m].rec \in Stamps \cup {None} /\ anchor[m].seq \in Nat
    BY <1>1, SeqsAndAnchors DEF Sequence
  <1>6. /\ l \in Seq(Event) /\ DOMAIN l = 1..(Len(ledger[m]) + 1) /\ Len(ledger[m]) \in Nat
        /\ Len(l) = Len(ledger[m]) + 1 /\ l[Len(ledger[m]) + 1] = e
    BY <1>3, <1>5, AppendIs
  <1> HIDE DEF l
  <1>7. anchor[m].seq <= Len(l) /\ (anchor[m].seq = Len(l) => e.id = anchor[m].head)
    BY <1>4, <1>5, <1>6 DEF ExtendsPin
  <1>8. Grew(m, e, anchor[m].rec)
    BY <1>1, <1>3, <1>4, <1>5, <1>7, JournalTyped DEF Grew, l
  <1> QED
    BY <1>3, <1>8

LEMMA AuthorizeIs ==
    ASSUME TypeInv, NEW m \in Machines, NEW r \in Carried("request"),
           AuthorizePairingRequest(m, r)
    PROVE  \E e \in Event : Grew(m, e, anchor[m].rec)
  <1> DEFINE s == Stamp(m)
             e == [NewEvent(s, "installation_paired") EXCEPT !.key = r.key]
             l == Append(ledger[m], e)
             cp == NewCheckpoint(s, anchor[m].cp, l)
  <1>1. /\ Make(m) /\ ledger[m] # <<>> /\ anchor[m] # None /\ anchor[m] \in Anchor
        /\ blobs' \in [Machines -> SUBSET Stamps]
    BY SignedBlobs DEF AuthorizePairingRequest
  <1>2. s \in Stamps /\ r.key \in Stamps
    <2>1. r \in RequestFile
      BY FileKinds DEF TypeInv
    <2> QED
      BY <1>1, <2>1, StampIs DEF Make, TypeInv, RequestFile
  <1>3. e \in Event /\ e.id = s
    BY <1>2 DEF NewEvent, EventTypes, Event
  <1>4. /\ ExtendsPin(m, l)
        /\ Pinned(m, l, cp)
        /\ files' = files \cup {Package(r, l, Append(pins[m], cp), cp)}
        /\ UNCHANGED <<keys, pending, tickets, exporting, journal>>
    BY DEF AuthorizePairingRequest, CommitAuthorization
  <1> HIDE DEF e
  <1>5. /\ ledger[m] \in Seq(Event) /\ anchor[m].rec \in Stamps \cup {None}
        /\ anchor[m].seq \in Nat /\ anchor[m].cp \in Stamps
    BY <1>1, SeqsAndAnchors DEF Sequence
  <1>6. /\ l \in Seq(Event) /\ DOMAIN l = 1..(Len(ledger[m]) + 1) /\ Len(ledger[m]) \in Nat
        /\ Len(l) = Len(ledger[m]) + 1 /\ l[Len(ledger[m]) + 1] = e /\ l # <<>>
    BY <1>3, <1>5, AppendIs
  <1> HIDE DEF l
  <1>7. anchor[m].seq <= Len(l) /\ (anchor[m].seq = Len(l) => e.id = anchor[m].head)
    BY <1>4, <1>5, <1>6 DEF ExtendsPin
  <1>8. cp.id = s
    BY <1>2, <1>5, <1>6, CheckpointIs
  <1> HIDE DEF cp
  <1>9. /\ ledger' = [ledger EXCEPT ![m] = l]
        /\ pins' = [pins EXCEPT ![m] = Append(pins[m], cp)]
        /\ anchor' = [anchor EXCEPT ![m] = AnchorAt(l, s, anchor[m].rec)]
    <2>1. DOMAIN pins = Machines
      BY DEF TypeInv, Rows
    <2> QED
      BY <1>4, <1>8, <2>1 DEF Pinned
  <1>10. Grew(m, e, anchor[m].rec)
    BY <1>1, <1>3, <1>4, <1>5, <1>7, <1>9, JournalTyped DEF Grew, l, cp
  <1> QED
    BY <1>3, <1>10

-----------------------------------------------------------------------------
(* The types are kept.                                                     *)

LEMMA MadeTyped ==
    ASSUME TypeInv, NEW m \in Machines, Make(m)
    PROVE  made' \in [Machines -> 0..MaxMade] /\ Stamp(m) \in Stamps
  <1>1. made \in [Machines -> 0..MaxMade] /\ made[m] < MaxMade /\ made' = [made EXCEPT ![m] = @ + 1]
    BY DEF TypeInv, Rows, Make
  <1> QED
    BY <1>1, TrustAssumption, StampIs DEF TypeInv

\* The ledger, the checkpoint and the anchor of Began, of Published and of Grew.
FirstCp(s, e) == NewCheckpoint(s, None, <<e>>)
Longer(m, e) == Append(ledger[m], e)
NextCp(m, e) == NewCheckpoint(Stamp(m), anchor[m].cp, Longer(m, e))
LongerPins(m, e) == Append(pins[m], NextCp(m, e))

LEMMA BeganTypes ==
    ASSUME NEW s \in Stamps, NEW e \in Event, e.id = s, NEW rec \in Stamps \cup {None}
    PROVE  /\ <<e>> \in Seq(Event) /\ <<e>> # <<>> /\ Len(<<e>>) = 1 /\ <<e>>[1] = e
           /\ FirstCp(s, e) \in Checkpoint /\ FirstCp(s, e).id = s /\ FirstCp(s, e).seq = 1
           /\ FirstCp(s, e).ev = s /\ FirstCp(s, e).prior = None
           /\ <<FirstCp(s, e)>> \in Seq(Checkpoint) /\ <<FirstCp(s, e)>> # <<>>
           /\ Len(<<FirstCp(s, e)>>) = 1 /\ <<FirstCp(s, e)>>[1] = FirstCp(s, e)
           /\ AnchorAt(<<e>>, s, rec) \in Anchor /\ AnchorAt(<<e>>, s, rec) # None
           /\ AnchorAt(<<e>>, s, rec).genesis = s /\ AnchorAt(<<e>>, s, rec).seq = 1
           /\ AnchorAt(<<e>>, s, rec).head = s /\ AnchorAt(<<e>>, s, rec).cp = s
  <1> DEFINE l == <<e>>
             cp == NewCheckpoint(s, None, l)
  <1>1. l \in Seq(Event) /\ l # <<>> /\ Len(l) = 1 /\ l[1] = e
    OBVIOUS
  <1> HIDE DEF l
  <1>2. /\ cp \in Checkpoint /\ cp.id = s /\ cp.prior = None /\ cp.seq = Len(l)
        /\ cp.ev = l[Len(l)].id
    <2>1. None \in Stamps \cup {None}
      OBVIOUS
    <2> QED
      BY <1>1, <2>1, CheckpointIs, Zenon
  <1> HIDE DEF cp
  <1>3. <<cp>> \in Seq(Checkpoint) /\ <<cp>> # <<>> /\ Len(<<cp>>) = 1 /\ <<cp>>[1] = cp
    BY <1>2
  <1>4. /\ AnchorAt(l, s, rec) \in Anchor /\ AnchorAt(l, s, rec) # None
        /\ AnchorAt(l, s, rec).genesis = s /\ AnchorAt(l, s, rec).seq = 1
        /\ AnchorAt(l, s, rec).head = s /\ AnchorAt(l, s, rec).cp = s
    BY <1>1, AnchorIs
  <1>5. FirstCp(s, e) = cp
    BY DEF FirstCp, cp, l
  <1>6. cp.seq = 1 /\ cp.ev = s
    BY <1>1, <1>2
  <1> QED
    BY <1>1, <1>2, <1>3, <1>4, <1>5, <1>6 DEF l

LEMMA GrewTypes ==
    ASSUME TypeInv, NEW m \in Machines, ledger[m] # <<>>, Stamp(m) \in Stamps,
           NEW e \in Event, e.id = Stamp(m)
    PROVE  /\ ledger[m] \in Seq(Event) /\ Len(ledger[m]) \in Sequence
           /\ anchor[m] # None /\ anchor[m] \in Anchor
           /\ Longer(m, e) \in Seq(Event) /\ Longer(m, e) # <<>>
           /\ Len(Longer(m, e)) = Len(ledger[m]) + 1
           /\ Longer(m, e)[Len(ledger[m]) + 1] = e
           /\ \A i \in 1..Len(ledger[m]) : Longer(m, e)[i] = ledger[m][i]
           /\ DOMAIN Longer(m, e) = 1..(Len(ledger[m]) + 1)
           /\ DOMAIN ledger[m] = 1..Len(ledger[m])
           /\ NextCp(m, e) \in Checkpoint /\ NextCp(m, e).id = Stamp(m)
           /\ NextCp(m, e).seq = Len(Longer(m, e)) /\ NextCp(m, e).ev = Stamp(m)
           /\ NextCp(m, e).prior = anchor[m].cp
           /\ pins[m] \in Seq(Checkpoint)
           /\ LongerPins(m, e) \in Seq(Checkpoint) /\ LongerPins(m, e) # <<>>
           /\ LongerPins(m, e)[Len(LongerPins(m, e))] = NextCp(m, e)
  <1> DEFINE s == Stamp(m)
             l == Longer(m, e)
             p == anchor[m].cp
             cp == NewCheckpoint(s, p, l)
  <1>1. ledger[m] \in Seq(Event) /\ anchor[m] # None /\ anchor[m] \in Anchor
    BY SeqsAndAnchors DEF TypeInv, Anchored
  <1>2. Len(ledger[m]) \in Sequence /\ p \in Stamps
    BY <1>1, NonEmpty DEF Anchor
  <1>3. /\ l \in Seq(Event) /\ l # <<>> /\ Len(l) = Len(ledger[m]) + 1
        /\ l[Len(ledger[m]) + 1] = e /\ \A i \in 1..Len(ledger[m]) : l[i] = ledger[m][i]
        /\ DOMAIN l = 1..(Len(ledger[m]) + 1) /\ DOMAIN ledger[m] = 1..Len(ledger[m])
    BY <1>1, AppendIs DEF Longer
  <1> HIDE DEF s, l, p
  <1>4. /\ cp \in Checkpoint /\ cp.id = s /\ cp.prior = p /\ cp.seq = Len(l)
        /\ cp.ev = l[Len(l)].id
    BY <1>2, <1>3, CheckpointIs DEF s
  <1> HIDE DEF cp
  <1>5. cp.ev = s
    BY <1>3, <1>4 DEF s
  <1>6. pins[m] \in Seq(Checkpoint)
    BY SeqsAndAnchors
  <1>7. /\ Append(pins[m], cp) \in Seq(Checkpoint) /\ Append(pins[m], cp) # <<>>
        /\ Append(pins[m], cp)[Len(Append(pins[m], cp))] = cp
    BY <1>4, <1>6, AppendIs
  <1>8. NextCp(m, e) = cp /\ LongerPins(m, e) = Append(pins[m], cp)
    BY DEF NextCp, LongerPins, cp, s, p, l
  <1> QED
    BY <1>1, <1>2, <1>3, <1>4, <1>5, <1>6, <1>7, <1>8 DEF s, l, p

LEMMA TypedBegan ==
    ASSUME TypeInv, NEW m \in Machines, NEW e, NEW rec, Began(m, e, rec)
    PROVE  TypeInv'
  <1> DEFINE s == Stamp(m)
             l == <<e>>
             cp == FirstCp(s, e)
             a == AnchorAt(l, s, rec)
             k == [key |-> s, seq |-> 1, aad |-> 1]
  <1>1. Make(m) /\ e \in Event /\ e.id = s /\ rec \in Stamps \cup {None}
    BY DEF Began
  <1>2. s \in Stamps /\ made' \in [Machines -> 0..MaxMade]
    BY <1>1, MadeTyped
  <1>3. /\ l \in Seq(Event) /\ l # <<>> /\ Len(l) = 1 /\ l[1] = e
        /\ cp \in Checkpoint /\ cp.seq = 1 /\ cp.ev = s
        /\ <<cp>> \in Seq(Checkpoint) /\ <<cp>> # <<>> /\ Len(<<cp>>) = 1 /\ <<cp>>[1] = cp
        /\ a \in Anchor /\ a # None
    BY <1>1, <1>2, BeganTypes
  <1>4. k \in KeyRow
    BY <1>2 DEF KeyRow, Sequence
  <1>5. /\ ledger' = [ledger EXCEPT ![m] = l]
        /\ pins' = [pins EXCEPT ![m] = <<cp>>]
        /\ anchor' = [anchor EXCEPT ![m] = a]
        /\ keys' = [keys EXCEPT ![m] = k]
        /\ blobs' = [blobs EXCEPT ![m] = @ \cup {s}]
        /\ files' = files \/ files' = files \cup {Bundle(l, <<cp>>, s)}
        /\ UNCHANGED <<pending, tickets, exporting>> /\ journal' \in [Machines -> BOOLEAN]
    BY DEF Began, FirstCp
  <1> HIDE DEF s, l, cp, a, k
  <1>6. FilesOK' /\ BundleEnds' /\ Carried("request")' = Carried("request")
    <2>1. CASE files' = files
      BY <2>1, FilesSame
    <2>2. CASE files' = files \cup {Bundle(l, <<cp>>, s)}
      <3> DEFINE h == <<cp>>
      <3>1. h \in Seq(Checkpoint) /\ h # <<>> /\ h[Len(h)].seq = Len(l) /\ h[Len(h)].ev = l[Len(l)].id
        BY <1>1, <1>3
      <3> HIDE DEF h
      <3> QED
        BY <1>2, <1>3, <2>2, <3>1, BundleAdded DEF h
    <2> QED
      BY <1>5, <2>1, <2>2
  <1>7. HeldOK' /\ Anchored'
    BY <1>3, <1>5, <1>6 DEF TypeInv, Rows, HeldOK, Anchored
  <1>8. Rows'
    BY <1>2, <1>3, <1>4, <1>5 DEF TypeInv, Rows
  <1> QED
    BY <1>6, <1>7, <1>8 DEF TypeInv

\* A bundle that is published has a last checkpoint of its last event.
LEMMA PublishedTypes ==
    ASSUME TypeInv, NEW m \in Machines, NEW l, NEW h, Published(m, l, h)
    PROVE  /\ l \in Seq(Event) /\ l # <<>> /\ h \in Seq(Checkpoint) /\ h # <<>>
           /\ h[Len(h)].seq = Len(l) /\ h[Len(h)].ev = l[Len(l)].id
  <1>1. Stamp(m) \in Stamps
    BY MadeTyped DEF Published
  <1>2. PICK e \in Event :
           /\ e.id = Stamp(m)
           /\ \/ l = <<e>> /\ h = <<NewCheckpoint(Stamp(m), None, l)>>
              \/ /\ ledger[m] # <<>> /\ l = Append(ledger[m], e)
                 /\ h = Append(pins[m], NewCheckpoint(Stamp(m), anchor[m].cp, l))
    BY DEF Published
  <1>3. CASE l = <<e>> /\ h = <<NewCheckpoint(Stamp(m), None, l)>>
    <2> DEFINE cp == FirstCp(Stamp(m), e)
    <2>1. /\ <<e>> \in Seq(Event) /\ <<e>> # <<>> /\ Len(<<e>>) = 1 /\ <<e>>[1] = e
          /\ cp.seq = 1 /\ cp.ev = Stamp(m)
          /\ <<cp>> \in Seq(Checkpoint) /\ <<cp>> # <<>> /\ Len(<<cp>>) = 1 /\ <<cp>>[1] = cp
      BY <1>1, <1>2, BeganTypes
    <2>2. h = <<cp>> /\ l = <<e>>
      BY <1>3 DEF FirstCp
    <2> HIDE DEF cp
    <2> QED
      BY <1>2, <2>1, <2>2
  <1>4. CASE /\ ledger[m] # <<>> /\ l = Append(ledger[m], e)
             /\ h = Append(pins[m], NewCheckpoint(Stamp(m), anchor[m].cp, l))
    <2> DEFINE cp == NextCp(m, e)
    <2>1. l = Longer(m, e) /\ h = LongerPins(m, e)
      BY <1>4 DEF Longer, NextCp, LongerPins
    <2>2. /\ l \in Seq(Event) /\ l # <<>> /\ l[Len(l)] = e /\ cp.seq = Len(l) /\ cp.ev = Stamp(m)
          /\ h \in Seq(Checkpoint) /\ h # <<>> /\ h[Len(h)] = cp
      BY <1>1, <1>2, <1>4, <2>1, GrewTypes
    <2> HIDE DEF cp
    <2> QED
      BY <1>2, <2>1, <2>2
  <1> QED
    BY <1>2, <1>3, <1>4

LEMMA TypedPublished ==
    ASSUME TypeInv, NEW m \in Machines, NEW l, NEW h, Published(m, l, h)
    PROVE  TypeInv'
  <1>1. /\ l \in Seq(Event) /\ l # <<>> /\ h \in Seq(Checkpoint) /\ h # <<>>
        /\ h[Len(h)].seq = Len(l) /\ h[Len(h)].ev = l[Len(l)].id
    BY PublishedTypes
  <1>2. Stamp(m) \in Stamps /\ made' \in [Machines -> 0..MaxMade]
    BY MadeTyped DEF Published
  <1>3. /\ files' = files \cup {Bundle(l, h, Stamp(m))}
        /\ blobs' \in [Machines -> SUBSET Stamps]
        /\ journal' = [journal EXCEPT ![m] = TRUE]
        /\ UNCHANGED <<ledger, pins, anchor, keys, pending, tickets, exporting>>
    BY DEF Published
  <1>4. FilesOK' /\ BundleEnds' /\ Carried("request")' = Carried("request")
    BY <1>1, <1>2, <1>3, BundleAdded
  <1>5. HeldOK' /\ Anchored'
    BY <1>3, <1>4 DEF TypeInv, HeldOK, Anchored
  <1>6. Rows'
    BY <1>2, <1>3 DEF TypeInv, Rows
  <1> QED
    BY <1>4, <1>5, <1>6 DEF TypeInv

LEMMA TypedGrew ==
    ASSUME TypeInv, NEW m \in Machines, NEW e, NEW rec, Grew(m, e, rec)
    PROVE  TypeInv'
  <1> DEFINE s == Stamp(m)
             l == Longer(m, e)
             cp == NextCp(m, e)
             h == LongerPins(m, e)
  <1>1. /\ Make(m) /\ e \in Event /\ e.id = s /\ rec \in Stamps \cup {None} /\ ledger[m] # <<>>
        /\ ledger' = [ledger EXCEPT ![m] = l]
        /\ \/ /\ UNCHANGED <<pins, files>>
              /\ anchor' = [anchor EXCEPT ![m] = AnchorAt(l, anchor[m].cp, rec)]
           \/ /\ pins' = [pins EXCEPT ![m] = h]
              /\ anchor' = [anchor EXCEPT ![m] = AnchorAt(l, s, rec)]
              /\ \/ files' = files \cup {Bundle(l, h, s)}
                 \/ \E r \in Carried("request") : files' = files \cup {Package(r, l, h, cp)}
        /\ blobs' \in [Machines -> SUBSET Stamps] /\ journal' \in [Machines -> BOOLEAN]
        /\ UNCHANGED <<keys, pending, tickets, exporting>>
    BY DEF Grew, Longer, NextCp, LongerPins
  <1>2. s \in Stamps /\ made' \in [Machines -> 0..MaxMade]
    BY <1>1, MadeTyped
  <1>3. /\ l \in Seq(Event) /\ l # <<>> /\ l[Len(l)] = e /\ anchor[m] \in Anchor
        /\ cp \in Checkpoint /\ cp.seq = Len(l) /\ cp.ev = s
        /\ h \in Seq(Checkpoint) /\ h # <<>> /\ h[Len(h)] = cp
    BY <1>1, <1>2, GrewTypes
  <1> HIDE DEF s, l, cp, h
  <1>4. /\ AnchorAt(l, anchor[m].cp, rec) \in Anchor /\ AnchorAt(l, anchor[m].cp, rec) # None
        /\ AnchorAt(l, s, rec) \in Anchor /\ AnchorAt(l, s, rec) # None
    <2>1. anchor[m].cp \in Stamps
      BY <1>3 DEF Anchor
    <2> QED
      BY <1>1, <1>2, <1>3, <2>1, AnchorIs
  <1>5. \E a \in Anchor : a # None /\ anchor' = [anchor EXCEPT ![m] = a]
    BY <1>1, <1>4
  <1>6. \E g \in Seq(Checkpoint) : pins' = pins \/ pins' = [pins EXCEPT ![m] = g]
    BY <1>1, <1>3
  <1>7. FilesOK' /\ BundleEnds' /\ Carried("request") \subseteq Carried("request")'
    <2>1. CASE UNCHANGED files
      BY <2>1, FilesSame
    <2>2. CASE files' = files \cup {Bundle(l, h, s)}
      <3>1. h[Len(h)].seq = Len(l) /\ h[Len(h)].ev = l[Len(l)].id
        BY <1>1, <1>3
      <3> QED
        BY <1>2, <1>3, <2>2, <3>1, BundleAdded
    <2>3. CASE \E r \in Carried("request") : files' = files \cup {Package(r, l, h, cp)}
      <3>1. PICK r \in Carried("request") : files' = files \cup {Package(r, l, h, cp)}
        BY <2>3
      <3>2. r \in RequestFile
        BY FileKinds DEF TypeInv
      <3>3. Package(r, l, h, cp) \in PackageFile
        BY <1>3, <3>2 DEF Package, PackageFile
      <3> QED
        BY <3>1, <3>3, FileAdded
    <2> QED
      BY <1>1, <2>1, <2>2, <2>3
  <1>8. HeldOK' /\ Anchored'
    <2>1. HeldOK'
      BY <1>1, <1>7 DEF TypeInv, HeldOK
    <2>2. Anchored'
      <3>1. PICK a \in Anchor : a # None /\ anchor' = [anchor EXCEPT ![m] = a]
        BY <1>5
      <3> QED
        BY <1>1, <3>1 DEF TypeInv, Rows, Anchored
    <2> QED
      BY <2>1, <2>2
  <1>9. Rows'
    <2>1. anchor' \in [Machines -> Anchor \cup {None}]
      BY <1>5 DEF TypeInv, Rows
    <2>2. pins' \in [Machines -> Seq(Checkpoint)]
      BY <1>6 DEF TypeInv, Rows
    <2> QED
      BY <1>1, <1>2, <1>3, <2>1, <2>2 DEF TypeInv, Rows
  <1> QED
    BY <1>7, <1>8, <1>9 DEF TypeInv

\* create_checkpoint of the ledger as it is
ThisCp(m) == NewCheckpoint(Stamp(m), anchor[m].cp, ledger[m])

Checkpointed(m) ==
    /\ Make(m)
    /\ ledger[m] # <<>>
    /\ MayPin(m, ThisCp(m))
    /\ pins' = [pins EXCEPT ![m] = Append(pins[m], ThisCp(m))]
    /\ anchor' = [anchor EXCEPT ![m] = AnchorAt(ledger[m], Stamp(m), anchor[m].rec)]
    /\ blobs' \in [Machines -> SUBSET Stamps]
    /\ exporting' \in [Machines -> Checkpoint \cup {None}]
    /\ UNCHANGED <<ledger, keys, pending, tickets, journal, files>>

LEMMA ThisCpTypes ==
    ASSUME TypeInv, NEW m \in Machines, ledger[m] # <<>>, Stamp(m) \in Stamps
    PROVE  /\ ledger[m] \in Seq(Event) /\ Len(ledger[m]) \in Sequence
           /\ anchor[m] # None /\ anchor[m] \in Anchor
           /\ ThisCp(m) \in Checkpoint /\ ThisCp(m).id = Stamp(m)
           /\ ThisCp(m).seq = Len(ledger[m]) /\ ThisCp(m).ev = ledger[m][Len(ledger[m])].id
           /\ ThisCp(m).prior = anchor[m].cp
           /\ pins[m] \in Seq(Checkpoint)
           /\ AnchorAt(ledger[m], Stamp(m), anchor[m].rec) \in Anchor
           /\ AnchorAt(ledger[m], Stamp(m), anchor[m].rec) # None
           /\ AnchorAt(ledger[m], Stamp(m), anchor[m].rec).seq = Len(ledger[m])
           /\ AnchorAt(ledger[m], Stamp(m), anchor[m].rec).cp = Stamp(m)
           /\ AnchorAt(ledger[m], Stamp(m), anchor[m].rec).head = ledger[m][Len(ledger[m])].id
           /\ AnchorAt(ledger[m], Stamp(m), anchor[m].rec).genesis = ledger[m][1].id
  <1> DEFINE s == Stamp(m)
             l == ledger[m]
             p == anchor[m].cp
             rec == anchor[m].rec
             cp == NewCheckpoint(s, p, l)
             a == AnchorAt(l, s, rec)
  <1>1. l \in Seq(Event) /\ anchor[m] # None /\ anchor[m] \in Anchor /\ pins[m] \in Seq(Checkpoint)
    BY SeqsAndAnchors DEF TypeInv, Anchored
  <1>2. Len(l) \in Sequence /\ p \in Stamps /\ rec \in Stamps \cup {None} /\ s \in Stamps
    BY <1>1, NonEmpty DEF Anchor
  <1>3. l # <<>>
    OBVIOUS
  <1> HIDE DEF s, l, p, rec
  <1>4. /\ cp \in Checkpoint /\ cp.id = s /\ cp.prior = p /\ cp.seq = Len(l)
        /\ cp.ev = l[Len(l)].id
    BY <1>1, <1>2, <1>3, CheckpointIs
  <1>5. /\ a \in Anchor /\ a # None /\ a.seq = Len(l) /\ a.cp = s /\ a.head = l[Len(l)].id
        /\ a.genesis = l[1].id
    BY <1>1, <1>2, <1>3, AnchorIs
  <1> QED
    BY <1>1, <1>2, <1>4, <1>5 DEF ThisCp, s, l, p, rec

LEMMA CreateCheckpointIs ==
    ASSUME TypeInv, NEW m \in Machines, NEW export \in BOOLEAN, CreateCheckpoint(m, export)
    PROVE  Checkpointed(m)
  <1>1. /\ Make(m) /\ ledger[m] # <<>> /\ anchor[m] # None /\ anchor[m] \in Anchor
        /\ blobs' \in [Machines -> SUBSET Stamps]
    BY SignedBlobs DEF CreateCheckpoint
  <1>2. Stamp(m) \in Stamps
    BY <1>1, MadeTyped
  <1>3. ThisCp(m) \in Checkpoint /\ ThisCp(m).id = Stamp(m)
    BY <1>1, <1>2, ThisCpTypes
  <1>4. /\ MayPin(m, ThisCp(m)) /\ Pinned(m, ledger[m], ThisCp(m))
        /\ exporting' = IF export THEN [exporting EXCEPT ![m] = ThisCp(m)] ELSE exporting
        /\ UNCHANGED <<keys, pending, tickets, journal, files>>
    BY DEF CreateCheckpoint, ThisCp
  <1>5. /\ ledger' = ledger
        /\ pins' = [pins EXCEPT ![m] = Append(pins[m], ThisCp(m))]
        /\ anchor' = [anchor EXCEPT ![m] = AnchorAt(ledger[m], Stamp(m), anchor[m].rec)]
    <2>1. ledger \in [Machines -> Seq(Event)] /\ DOMAIN pins = Machines
      BY DEF TypeInv, Rows
    <2> QED
      BY <1>3, <1>4, <2>1 DEF Pinned
  <1>6. exporting' \in [Machines -> Checkpoint \cup {None}]
    BY <1>3, <1>4 DEF TypeInv, Rows
  <1> QED
    BY <1>1, <1>4, <1>5, <1>6 DEF Checkpointed

LEMMA TypedCheckpointed ==
    ASSUME TypeInv, NEW m \in Machines, Checkpointed(m)
    PROVE  TypeInv'
  <1> DEFINE h == Append(pins[m], ThisCp(m))
             a == AnchorAt(ledger[m], Stamp(m), anchor[m].rec)
  <1>1. Make(m) /\ ledger[m] # <<>> /\ Stamp(m) \in Stamps /\ made' \in [Machines -> 0..MaxMade]
    BY MadeTyped DEF Checkpointed
  <1>2. ThisCp(m) \in Checkpoint /\ pins[m] \in Seq(Checkpoint) /\ a \in Anchor /\ a # None
    BY <1>1, ThisCpTypes
  <1>3. h \in Seq(Checkpoint)
    BY <1>2, AppendIs
  <1>4. /\ pins' = [pins EXCEPT ![m] = h] /\ anchor' = [anchor EXCEPT ![m] = a]
        /\ blobs' \in [Machines -> SUBSET Stamps]
        /\ exporting' \in [Machines -> Checkpoint \cup {None}]
        /\ UNCHANGED <<ledger, keys, pending, tickets, journal, files>>
    BY DEF Checkpointed
  <1> HIDE DEF h, a
  <1>5. FilesOK' /\ BundleEnds' /\ Carried("request")' = Carried("request")
    BY <1>4, FilesSame
  <1>6. HeldOK' /\ Anchored'
    BY <1>2, <1>4, <1>5 DEF TypeInv, Rows, HeldOK, Anchored
  <1>7. Rows'
    BY <1>1, <1>2, <1>3, <1>4 DEF TypeInv, Rows
  <1> QED
    BY <1>5, <1>6, <1>7 DEF TypeInv

LEMMA TypedExport ==
    ASSUME TypeInv, NEW m \in Machines, ExportAuthorityTransport(m)
    PROVE  TypeInv' /\ Transport(ledger[m], pins[m], exporting[m]) \in TransportFile
  <1> DEFINE f == Transport(ledger[m], pins[m], exporting[m])
  <1>1. /\ exporting[m] # None /\ exporting' = [exporting EXCEPT ![m] = None]
        /\ files' = files \cup {f}
        /\ UNCHANGED <<ledger, pins, anchor, keys, blobs, pending, tickets, journal, made>>
    BY DEF ExportAuthorityTransport
  <1>2. f \in TransportFile
    BY <1>1, SeqsAndAnchors DEF Transport, TransportFile
  <1> HIDE DEF f
  <1>3. FilesOK' /\ BundleEnds' /\ Carried("request") \subseteq Carried("request")'
    BY <1>1, <1>2, FileAdded
  <1>4. HeldOK' /\ Anchored'
    BY <1>1, <1>3 DEF TypeInv, HeldOK, Anchored
  <1>5. Rows'
    BY <1>1 DEF TypeInv, Rows
  <1> QED
    BY <1>2, <1>3, <1>4, <1>5 DEF TypeInv, f

LEMMA TypedIdle ==
    ASSUME TypeInv, NEW m \in Machines, AbandonInterruptedRecovery(m) \/ Reconcile(m)
    PROVE  TypeInv'
  <1>1. /\ journal' \in [Machines -> BOOLEAN] /\ blobs' \in [Machines -> SUBSET Stamps]
        /\ UNCHANGED <<ledger, pins, anchor, keys, pending, tickets, exporting, made, files>>
    BY DEF TypeInv, Rows, AbandonInterruptedRecovery, Reconcile
  <1>2. FilesOK' /\ BundleEnds' /\ Carried("request")' = Carried("request")
    BY <1>1, FilesSame
  <1>3. HeldOK' /\ Anchored' /\ Rows'
    BY <1>1, <1>2 DEF TypeInv, HeldOK, Anchored, Rows
  <1> QED
    BY <1>2, <1>3 DEF TypeInv

LEMMA TypedRequest ==
    ASSUME TypeInv, NEW m \in Machines, CreatePairingRequest(m)
    PROVE  TypeInv' /\ \E r \in RequestFile : files' = files \cup {r}
  <1> DEFINE r == Request(Stamp(m), anchor[m].genesis, anchor[m].seq + 1)
  <1>1. /\ Make(m) /\ anchor[m] # None
        /\ blobs' = [blobs EXCEPT ![m] = @ \cup {Stamp(m)}]
        /\ pending' = [pending EXCEPT ![m] = @ \cup {r}]
        /\ files' = files \cup {r}
        /\ UNCHANGED <<ledger, pins, anchor, keys, tickets, exporting, journal>>
    BY DEF CreatePairingRequest
  <1>2. Stamp(m) \in Stamps /\ made' \in [Machines -> 0..MaxMade]
    BY <1>1, MadeTyped
  <1>3. r \in RequestFile
    <2>1. anchor[m].genesis \in Stamps /\ anchor[m].seq + 1 \in Sequence
      BY <1>1, SeqsAndAnchors DEF Sequence
    <2> QED
      BY <1>2, <2>1 DEF Request, RequestFile
  <1> HIDE DEF r
  <1>4. FilesOK' /\ BundleEnds' /\ Carried("request") \subseteq Carried("request")'
        /\ r \in Carried("request")'
    BY <1>1, <1>3, FileAdded
  <1>5. HeldOK'
    BY <1>1, <1>3, <1>4 DEF TypeInv, HeldOK
  <1>6. Anchored' /\ Rows'
    BY <1>1, <1>2 DEF TypeInv, HeldOK, Anchored, Rows
  <1> QED
    BY <1>1, <1>3, <1>4, <1>5, <1>6 DEF TypeInv

-----------------------------------------------------------------------------
(* A machine that joins takes a ledger over.                               *)

\* What bootstrap_recovery_trust reads in a bundle.
LEMMA BundleRead ==
    ASSUME TypeInv, NEW b \in Carried("bundle")
    PROVE  /\ b.ledger \in Seq(Event) /\ b.ledger # <<>> /\ b.rec \in Stamps
           /\ b.history \in Seq(Checkpoint) /\ b.history # <<>>
           /\ Last(b.history) \in Checkpoint /\ Last(b.history).id \in Stamps
           /\ Last(b.history) = b.history[Len(b.history)]
           /\ Last(b.history).seq = Len(b.ledger)
           /\ Last(b.history).ev = b.ledger[Len(b.ledger)].id
  <1>1. b \in BundleFile
    BY FileKinds DEF TypeInv
  <1>2. /\ b.ledger \in Seq(Event) /\ b.rec \in Stamps /\ b.history \in Seq(Checkpoint)
    BY <1>1 DEF BundleFile
  <1>3. /\ b.ledger # <<>> /\ b.history # <<>>
        /\ b.history[Len(b.history)].seq = Len(b.ledger)
        /\ b.history[Len(b.history)].ev = b.ledger[Len(b.ledger)].id
    BY DEF TypeInv, BundleEnds
  <1>4. Last(b.history) = b.history[Len(b.history)] /\ b.history[Len(b.history)] \in Checkpoint
    BY <1>2, <1>3, NonEmpty DEF Last
  <1> QED
    BY <1>2, <1>3, <1>4 DEF Checkpoint

LEMMA TypedBootstrap ==
    ASSUME TypeInv, NEW m \in Machines, NEW b \in Carried("bundle"), BootstrapRecoveryTrust(m, b)
    PROVE  TypeInv'
  <1> DEFINE h == b.history
             a == AnchorAt(b.ledger, Last(h).id, b.rec)
  <1>1. /\ pins' = [pins EXCEPT ![m] = h] /\ anchor' = [anchor EXCEPT ![m] = a]
        /\ UNCHANGED <<ledger, keys, blobs, pending, tickets, exporting, journal, made, files>>
    BY DEF BootstrapRecoveryTrust
  <1>2. /\ b.ledger \in Seq(Event) /\ b.ledger # <<>> /\ b.rec \in Stamps
        /\ h \in Seq(Checkpoint) /\ Last(h).id \in Stamps
    BY BundleRead
  <1>3. a \in Anchor /\ a # None
    BY <1>2, AnchorIs
  <1> HIDE DEF h, a
  <1>4. FilesOK' /\ BundleEnds' /\ Carried("request")' = Carried("request")
    BY <1>1, FilesSame
  <1>5. HeldOK' /\ Anchored'
    BY <1>1, <1>3, <1>4 DEF TypeInv, Rows, HeldOK, Anchored
  <1>6. Rows'
    BY <1>1, <1>2, <1>3 DEF TypeInv, Rows
  <1> QED
    BY <1>4, <1>5, <1>6 DEF TypeInv

\* What is read in a transport or in a package.
LEMMA TransportRead ==
    ASSUME TypeInv, NEW t \in Carried("transport") \cup Carried("package"), VerifiedTransport(t)
    PROVE  /\ t \in files /\ t.kind # "request"
           /\ t.ledger \in Seq(Event) /\ t.history \in Seq(Checkpoint) /\ t.history # <<>>
           /\ t.cp \in Checkpoint /\ t.cp.id \in Stamps
           /\ t.cp = t.history[Len(t.history)] /\ Len(t.history) \in DOMAIN t.history
           /\ ClosedHistory(t.history)
           /\ \A i \in DOMAIN t.history : Consistent(t.ledger, t.history[i])
           /\ t.ledger # <<>>
  <1>1. t \in TransportFile \cup PackageFile /\ t \in files
    BY FileKinds DEF TypeInv, Carried
  <1>2. /\ t.ledger \in Seq(Event) /\ t.history \in Seq(Checkpoint)
        /\ t.cp \in Checkpoint /\ t.kind # "request"
    BY <1>1 DEF TransportFile, PackageFile
  <1>3. /\ t.history # <<>> /\ ClosedHistory(t.history)
        /\ \A i \in DOMAIN t.history : Consistent(t.ledger, t.history[i])
        /\ t.cp = t.history[Len(t.history)]
    BY DEF VerifiedTransport, ClosedHistory, Last
  <1>4. Len(t.history) \in DOMAIN t.history
    BY <1>2, <1>3, NonEmpty
  <1>5. DOMAIN t.ledger # {}
    BY <1>3, <1>4 DEF Consistent
  <1>6. t.ledger # <<>>
    BY <1>2, <1>5, NonEmpty
  <1>7. t.cp.id \in Stamps
    BY <1>2 DEF Checkpoint
  <1> QED
    BY <1>1, <1>2, <1>3, <1>4, <1>6, <1>7

\* The pins after Replayed.
LEMMA ReplayedIs ==
    ASSUME NEW m \in Machines, NEW l, NEW h \in Seq(Checkpoint), Follows(m, l, h)
    PROVE  \E a \in 1..Len(h) : /\ h[a].id = anchor[m].cp
                                /\ Replayed(m, h) = Continued(pins[m], h, a)
  <1> DEFINE a == CHOOSE i \in DOMAIN h : h[i].id = anchor[m].cp
  <1>1. \E i \in DOMAIN h : h[i].id = anchor[m].cp
    BY DEF Follows
  <1>2. a \in DOMAIN h /\ h[a].id = anchor[m].cp
    BY <1>1
  <1>3. Replayed(m, h) = Continued(pins[m], h, a)
    BY DEF Replayed, Continued
  <1>4. DOMAIN h = 1..Len(h)
    BY LenProperties
  <1> HIDE DEF a
  <1> QED
    BY <1>2, <1>3, <1>4

\* finalize_pairing and restore_recovery_bundle: the ledger of t, with the machine's
\* own event after it or not, and a key that one of its events certifies.
Joined(m, t, l, k) ==
    /\ ledger[m] = <<>> /\ anchor[m] # None
    /\ t \in Carried("transport") \cup Carried("package") /\ VerifiedTransport(t)
    /\ t.ledger[1].id = anchor[m].genesis
    /\ \/ l = t.ledger /\ UNCHANGED made
       \/ Make(m) /\ \E e \in Event : e.id = Stamp(m) /\ l = Append(t.ledger, e)
    /\ Follows(m, l, t.history)
    /\ k \in KeyRow /\ k.aad = k.seq /\ k.seq \in DOMAIN l /\ l[k.seq].key = k.key
    /\ ledger' = [ledger EXCEPT ![m] = l]
    /\ pins' = [pins EXCEPT ![m] = Replayed(m, t.history)]
    /\ anchor' = [anchor EXCEPT ![m] = AnchorAt(l, t.cp.id, anchor[m].rec)]
    /\ keys' = [keys EXCEPT ![m] = k]
    /\ blobs' \in [Machines -> SUBSET Stamps]
    /\ pending' = [pending EXCEPT ![m] = pending'[m]] /\ pending'[m] \subseteq pending[m]
    /\ UNCHANGED <<tickets, exporting, journal, files>>

LEMMA FinalizePairingIs ==
    ASSUME TypeInv, NEW m \in Machines, NEW p \in Carried("package"), FinalizePairing(m, p)
    PROVE  \E k : Joined(m, p, p.ledger, k)
  <1> DEFINE k == [key |-> p.request.key, seq |-> p.request.seq, aad |-> p.request.seq]
  <1>1. /\ p.request \in pending[m] /\ VerifiedTransport(p)
        /\ p.ledger[1].id = anchor[m].genesis /\ ledger[m] = <<>>
        /\ Follows(m, p.ledger, p.history)
        /\ p.request.seq \in DOMAIN p.ledger
        /\ p.ledger[p.request.seq].key = p.request.key
        /\ ledger' = [ledger EXCEPT ![m] = p.ledger]
        /\ pins' = [pins EXCEPT ![m] = Replayed(m, p.history)]
        /\ anchor' = [anchor EXCEPT ![m] = AnchorAt(p.ledger, p.cp.id, anchor[m].rec)]
        /\ keys' = [keys EXCEPT ![m] = k]
        /\ pending' = [pending EXCEPT ![m] = @ \ {p.request}]
        /\ UNCHANGED <<blobs, tickets, exporting, journal, made, files>>
    <2>1. DOMAIN anchor = Machines
      BY DEF TypeInv, Rows
    <2> QED
      BY <2>1 DEF FinalizePairing
  <1>2. anchor[m] # None
    BY <1>1 DEF TypeInv, Anchored
  <1>3. k \in KeyRow /\ k.aad = k.seq /\ k.seq = p.request.seq /\ k.key = p.request.key
    <2>1. p.request \in RequestFile
      BY <1>1 DEF TypeInv, HeldOK
    <2> QED
      BY <2>1 DEF RequestFile, KeyRow
  <1> HIDE DEF k
  <1>4. pending' = [pending EXCEPT ![m] = pending'[m]] /\ pending'[m] \subseteq pending[m]
    BY <1>1 DEF TypeInv, HeldOK
  <1>5. blobs' \in [Machines -> SUBSET Stamps]
    BY <1>1 DEF TypeInv, Rows
  <1>6. Joined(m, p, p.ledger, k)
    BY <1>1, <1>2, <1>3, <1>4, <1>5 DEF Joined
  <1> QED
    BY <1>6

LEMMA RestoreIs ==
    ASSUME TypeInv, NEW m \in Machines, NEW b \in Carried("bundle"), NEW t \in Carried("transport"),
           NEW old \in Stamps \cup {None}, RestoreRecoveryBundle(m, b, t, old)
    PROVE  \E l, k : Joined(m, t, l, k)
  <1> DEFINE s == Stamp(m)
             type == IF old = None THEN "installation_paired" ELSE "installation_rebound"
             e == [NewEvent(s, type) EXCEPT !.key = s, !.old = old]
             l == Append(t.ledger, e)
             k == [key |-> s, seq |-> Len(l), aad |-> SealedFor(t)]
  <1>1. /\ ledger[m] = <<>> /\ anchor[m] # None /\ VerifiedTransport(t)
        /\ t.ledger[1].id = anchor[m].genesis
        /\ Follows(m, l, t.history) /\ Make(m)
        /\ ledger' = [ledger EXCEPT ![m] = l]
        /\ pins' = [pins EXCEPT ![m] = Replayed(m, t.history)]
        /\ anchor' = [anchor EXCEPT ![m] = AnchorAt(l, t.cp.id, anchor[m].rec)]
        /\ keys' = [keys EXCEPT ![m] = k]
        /\ blobs' = [blobs EXCEPT ![m] = @ \cup {s}]
        /\ UNCHANGED <<pending, tickets, exporting, journal, files>>
    <2>1. DOMAIN anchor = Machines
      BY DEF TypeInv, Rows
    <2> QED
      BY <2>1 DEF RestoreRecoveryBundle
  <1>2. s \in Stamps
    BY <1>1, MadeTyped
  <1>3. e \in Event /\ e.id = s /\ e.key = s
    <2>1. type \in EventTypes
      BY DEF EventTypes
    <2> HIDE DEF type
    <2> QED
      BY <1>2, <2>1 DEF NewEvent, Event
  <1>4. t.ledger \in Seq(Event)
    BY <1>1, TransportRead
  <1> HIDE DEF e
  <1>5. /\ Len(l) = Len(t.ledger) + 1 /\ Len(t.ledger) \in Nat /\ l[Len(t.ledger) + 1] = e
        /\ DOMAIN l = 1..(Len(t.ledger) + 1)
    BY <1>3, <1>4, AppendIs
  <1>6. k \in KeyRow /\ k.aad = k.seq /\ k.seq = Len(t.ledger) + 1 /\ k.key = s
    <2>1. SealedFor(t) = Len(l) /\ Len(l) \in Sequence
      BY <1>5 DEF SealedFor, Sequence
    <2> HIDE DEF l
    <2> QED
      BY <1>2, <1>5, <2>1 DEF KeyRow
  <1> HIDE DEF k
  <1>7. k.seq \in DOMAIN l /\ l[k.seq].key = k.key
    BY <1>3, <1>5, <1>6
  <1>8. /\ pending' = [pending EXCEPT ![m] = pending'[m]] /\ pending'[m] \subseteq pending[m]
        /\ blobs' \in [Machines -> SUBSET Stamps]
    BY <1>1, <1>2 DEF TypeInv, HeldOK, Rows
  <1>9. \E ev \in Event : ev.id = s /\ l = Append(t.ledger, ev)
    BY <1>3
  <1> HIDE DEF l
  <1>10. Joined(m, t, l, k)
    BY <1>1, <1>6, <1>7, <1>8, <1>9 DEF Joined
  <1> QED
    BY <1>10

\* The ledger that is taken over is that of t, up to its length.
LEMMA JoinedTypes ==
    ASSUME TypeInv, NEW m \in Machines, NEW t, NEW l, NEW k, Joined(m, t, l, k)
    PROVE  /\ l \in Seq(Event) /\ l # <<>> /\ Len(l) \in Sequence /\ DOMAIN l = 1..Len(l)
           /\ Len(t.ledger) \in Sequence /\ DOMAIN t.ledger = 1..Len(t.ledger)
           /\ Len(t.ledger) <= Len(l)
           /\ \A i \in DOMAIN t.ledger : i \in DOMAIN l /\ l[i] = t.ledger[i]
           /\ l[1].id = anchor[m].genesis
           /\ anchor[m] \in Anchor
           /\ AnchorAt(l, t.cp.id, anchor[m].rec) \in Anchor
           /\ AnchorAt(l, t.cp.id, anchor[m].rec) # None
           /\ AnchorAt(l, t.cp.id, anchor[m].rec).genesis = anchor[m].genesis
           /\ AnchorAt(l, t.cp.id, anchor[m].rec).seq = Len(l)
           /\ AnchorAt(l, t.cp.id, anchor[m].rec).head = l[Len(l)].id
           /\ AnchorAt(l, t.cp.id, anchor[m].rec).cp = t.cp.id
           /\ pins[m] \in Seq(Checkpoint)
           /\ Replayed(m, t.history) \in Seq(Checkpoint)
           /\ made' \in [Machines -> 0..MaxMade]
  <1>1. /\ anchor[m] # None /\ t \in Carried("transport") \cup Carried("package")
        /\ VerifiedTransport(t) /\ t.ledger[1].id = anchor[m].genesis
        /\ Follows(m, l, t.history)
        /\ \/ l = t.ledger /\ UNCHANGED made
           \/ Make(m) /\ \E e \in Event : e.id = Stamp(m) /\ l = Append(t.ledger, e)
    BY DEF Joined
  <1>2. /\ t.ledger \in Seq(Event) /\ t.ledger # <<>> /\ t.history \in Seq(Checkpoint)
        /\ t.cp.id \in Stamps
    BY <1>1, TransportRead
  <1>3. /\ pins[m] \in Seq(Checkpoint) /\ anchor[m] \in Anchor
        /\ anchor[m].rec \in Stamps \cup {None}
    BY <1>1, SeqsAndAnchors
  <1>4. Len(t.ledger) \in Sequence /\ DOMAIN t.ledger = 1..Len(t.ledger)
    BY <1>2, NonEmpty
  <1>5. /\ l \in Seq(Event) /\ l # <<>> /\ Len(t.ledger) <= Len(l)
        /\ \A i \in DOMAIN t.ledger : i \in DOMAIN l /\ l[i] = t.ledger[i]
    <2>1. CASE l = t.ledger
      BY <1>2, <1>4, <2>1 DEF Sequence
    <2>2. CASE \E e \in Event : e.id = Stamp(m) /\ l = Append(t.ledger, e)
      <3>1. PICK e \in Event : l = Append(t.ledger, e)
        BY <2>2
      <3>2. /\ l \in Seq(Event) /\ l # <<>> /\ Len(l) = Len(t.ledger) + 1
            /\ DOMAIN l = 1..(Len(t.ledger) + 1)
            /\ \A i \in 1..Len(t.ledger) : l[i] = t.ledger[i]
        BY <1>2, <3>1, AppendIs
      <3> QED
        BY <1>4, <3>2 DEF Sequence
    <2> QED
      BY <1>1, <2>1, <2>2
  <1>6. Len(l) \in Sequence /\ DOMAIN l = 1..Len(l)
    BY <1>5, NonEmpty
  <1>7. l[1].id = anchor[m].genesis
    <2>1. 1 \in DOMAIN t.ledger
      BY <1>4 DEF Sequence
    <2> QED
      BY <1>1, <1>5, <2>1
  <1>8. /\ AnchorAt(l, t.cp.id, anchor[m].rec) \in Anchor
        /\ AnchorAt(l, t.cp.id, anchor[m].rec) # None
        /\ AnchorAt(l, t.cp.id, anchor[m].rec).genesis = l[1].id
        /\ AnchorAt(l, t.cp.id, anchor[m].rec).seq = Len(l)
        /\ AnchorAt(l, t.cp.id, anchor[m].rec).head = l[Len(l)].id
        /\ AnchorAt(l, t.cp.id, anchor[m].rec).cp = t.cp.id
    <2>1. t.cp.id \in Stamps /\ anchor[m].rec \in Stamps \cup {None}
      BY <1>2, <1>3
    <2>2. l \in Seq(Event) /\ l # <<>>
      BY <1>5
    <2>3. \A c \in Stamps, r \in Stamps \cup {None} :
             /\ AnchorAt(l, c, r) \in Anchor /\ AnchorAt(l, c, r) # None
             /\ AnchorAt(l, c, r).genesis = l[1].id /\ AnchorAt(l, c, r).seq = Len(l)
             /\ AnchorAt(l, c, r).head = l[Len(l)].id /\ AnchorAt(l, c, r).cp = c
      BY <2>2, AnchorIs
    <2> QED
      BY <2>1, <2>3, Zenon
  <1>9. Replayed(m, t.history) \in Seq(Checkpoint)
    <2>1. PICK a \in 1..Len(t.history) : Replayed(m, t.history) = Continued(pins[m], t.history, a)
      BY <1>1, <1>2, ReplayedIs
    <2>2. Continued(pins[m], t.history, a) \in Seq(Checkpoint)
      BY <1>2, <1>3, ContinuedIs, Zenon
    <2> QED
      BY <2>1, <2>2
  <1>10. made' \in [Machines -> 0..MaxMade]
    BY <1>1, MadeTyped DEF TypeInv, Rows
  <1> QED
    BY <1>3, <1>4, <1>5, <1>6, <1>7, <1>8, <1>9, <1>10

LEMMA TypedJoined ==
    ASSUME TypeInv, NEW m \in Machines, NEW t, NEW l, NEW k, Joined(m, t, l, k)
    PROVE  TypeInv'
  <1> DEFINE a == AnchorAt(l, t.cp.id, anchor[m].rec)
             h == Replayed(m, t.history)
  <1>1. /\ l \in Seq(Event) /\ a \in Anchor /\ a # None /\ h \in Seq(Checkpoint)
        /\ made' \in [Machines -> 0..MaxMade]
    BY JoinedTypes
  <1>2. /\ k \in KeyRow
        /\ ledger' = [ledger EXCEPT ![m] = l]
        /\ pins' = [pins EXCEPT ![m] = h]
        /\ anchor' = [anchor EXCEPT ![m] = a]
        /\ keys' = [keys EXCEPT ![m] = k]
        /\ blobs' \in [Machines -> SUBSET Stamps]
        /\ pending' = [pending EXCEPT ![m] = pending'[m]] /\ pending'[m] \subseteq pending[m]
        /\ UNCHANGED <<tickets, exporting, journal, files>>
    BY DEF Joined
  <1> HIDE DEF a, h
  <1>3. FilesOK' /\ BundleEnds' /\ Carried("request")' = Carried("request")
    BY <1>2, FilesSame
  <1>4. HeldOK' /\ Anchored'
    <2>1. pending' \in [Machines -> SUBSET RequestFile]
      BY <1>2 DEF TypeInv, HeldOK
    <2>2. \A n \in Machines : pending'[n] \subseteq pending[n]
      BY <1>2 DEF TypeInv, HeldOK
    <2>3. HeldOK'
      BY <1>2, <1>3, <2>1, <2>2 DEF TypeInv, HeldOK
    <2>4. Anchored'
      BY <1>1, <1>2, <2>2 DEF TypeInv, Rows, Anchored
    <2> QED
      BY <2>3, <2>4
  <1>5. Rows'
    BY <1>1, <1>2 DEF TypeInv, Rows
  <1> QED
    BY <1>3, <1>4, <1>5 DEF TypeInv

-----------------------------------------------------------------------------
(* The transfer of a checkpoint.                                           *)

LEMMA TypedPrepare ==
    ASSUME TypeInv, NEW m \in Machines, NEW t \in Carried("transport"),
           PrepareCheckpointAdvance(m, t)
    PROVE  TypeInv' /\ [cp |-> t.cp, prior |-> anchor[m]] \in Ticket
  <1> DEFINE k == [cp |-> t.cp, prior |-> anchor[m]]
  <1>1. /\ anchor[m] # None /\ VerifiedTransport(t)
        /\ tickets' = [tickets EXCEPT ![m] = Append(@, k)]
        /\ UNCHANGED <<ledger, pins, anchor, keys, blobs, pending, exporting, journal, made, files>>
    BY DEF PrepareCheckpointAdvance
  <1>2. t.cp \in Checkpoint /\ anchor[m] \in Anchor /\ tickets[m] \in Seq(Ticket)
    BY <1>1, TransportRead, SeqsAndAnchors
  <1>3. k \in Ticket
    BY <1>2 DEF Ticket
  <1> HIDE DEF k
  <1>4. Append(tickets[m], k) \in Seq(Ticket)
    BY <1>2, <1>3, AppendIs
  <1>5. FilesOK' /\ BundleEnds' /\ Carried("request")' = Carried("request")
    BY <1>1, FilesSame
  <1>6. HeldOK'
    BY <1>1, <1>4, <1>5 DEF TypeInv, HeldOK
  <1>7. Anchored' /\ Rows'
    BY <1>1 DEF TypeInv, Anchored, Rows
  <1> QED
    BY <1>3, <1>5, <1>6, <1>7 DEF TypeInv, k

\* The anchor after finalize_anchor_advance.
Advanced(a, cp) == [a EXCEPT !.seq = cp.seq, !.head = cp.ev, !.cp = cp.id]

LEMMA FinalizeIs ==
    ASSUME TypeInv, NEW m \in Machines, NEW i \in DOMAIN tickets[m], FinalizeAnchorAdvance(m, i)
    PROVE  /\ tickets[m][i] \in Ticket
           /\ tickets[m][i].cp \in Checkpoint
           /\ anchor[m] = tickets[m][i].prior /\ anchor[m] \in Anchor /\ anchor[m] # None
           /\ anchor' = [anchor EXCEPT ![m] = Advanced(anchor[m], tickets[m][i].cp)]
           /\ Advanced(anchor[m], tickets[m][i].cp) \in Anchor
           /\ Advanced(anchor[m], tickets[m][i].cp) # None
           /\ Advanced(anchor[m], tickets[m][i].cp).genesis = anchor[m].genesis
           /\ Advanced(anchor[m], tickets[m][i].cp).seq = tickets[m][i].cp.seq
           /\ Advanced(anchor[m], tickets[m][i].cp).head = tickets[m][i].cp.ev
           /\ Advanced(anchor[m], tickets[m][i].cp).cp = tickets[m][i].cp.id
           /\ \/ pins' = pins /\ \E j \in DOMAIN pins[m] : pins[m][j].id = tickets[m][i].cp.id
              \/ /\ \A j \in DOMAIN pins[m] : pins[m][j].id # tickets[m][i].cp.id
                 /\ pins' = [pins EXCEPT ![m] = Append(pins[m], tickets[m][i].cp)]
           /\ Append(pins[m], tickets[m][i].cp) \in Seq(Checkpoint)
           /\ tickets' = [tickets EXCEPT ![m] = RemoveAt(tickets[m], i)]
           /\ RemoveAt(tickets[m], i) \in Seq(Ticket)
           /\ UNCHANGED <<ledger, keys, blobs, pending, exporting, journal, made, files>>
  <1> DEFINE k == tickets[m][i]
             cp == k.cp
             a == Advanced(anchor[m], cp)
  <1>1. DOMAIN anchor = Machines /\ DOMAIN pins = Machines /\ DOMAIN tickets = Machines
    BY DEF TypeInv, Rows, HeldOK
  <1>2. /\ anchor[m] = k.prior
        /\ anchor' = [anchor EXCEPT ![m] = a]
        /\ \/ pins' = pins /\ \E j \in DOMAIN pins[m] : pins[m][j].id = cp.id
           \/ /\ \A j \in DOMAIN pins[m] : pins[m][j].id # cp.id
              /\ pins' = [pins EXCEPT ![m] = Append(pins[m], cp)]
        /\ tickets' = [tickets EXCEPT ![m] = RemoveAt(tickets[m], i)]
        /\ UNCHANGED <<ledger, keys, blobs, pending, exporting, journal, made, files>>
    BY <1>1 DEF FinalizeAnchorAdvance, AnchorUnchanged, Advanced
  <1>3. tickets[m] \in Seq(Ticket) /\ pins[m] \in Seq(Checkpoint)
    BY SeqsAndAnchors
  <1>4. k \in Ticket
    BY <1>3, NonEmpty
  <1> HIDE DEF k
  <1>5. cp \in Checkpoint /\ k.prior \in Anchor
    BY <1>4 DEF Ticket
  <1>6. anchor[m] \in Anchor /\ anchor[m] # None
    BY <1>2, <1>5, TrustAssumption
  <1> HIDE DEF cp
  <1>7. /\ a \in Anchor /\ a.genesis = anchor[m].genesis /\ a.seq = cp.seq /\ a.head = cp.ev
        /\ a.cp = cp.id
    BY <1>5, <1>6 DEF Advanced, Anchor, Checkpoint
  <1>8. a # None
    BY <1>7, TrustAssumption
  <1>9. RemoveAt(tickets[m], i) \in Seq(Ticket)
    BY <1>3, RemoveAtIs
  <1>10. Append(pins[m], cp) \in Seq(Checkpoint)
    BY <1>3, <1>5, AppendIs
  <1> QED
    BY <1>2, <1>4, <1>5, <1>6, <1>7, <1>8, <1>9, <1>10 DEF k, cp

LEMMA TypedFinalize ==
    ASSUME TypeInv, NEW m \in Machines, NEW i \in DOMAIN tickets[m], FinalizeAnchorAdvance(m, i)
    PROVE  TypeInv'
  <1> DEFINE a == Advanced(anchor[m], tickets[m][i].cp)
             h == Append(pins[m], tickets[m][i].cp)
             q == RemoveAt(tickets[m], i)
  <1>1. /\ anchor' = [anchor EXCEPT ![m] = a] /\ a \in Anchor /\ a # None
        /\ pins' = pins \/ pins' = [pins EXCEPT ![m] = h]
        /\ h \in Seq(Checkpoint)
        /\ tickets' = [tickets EXCEPT ![m] = q] /\ q \in Seq(Ticket)
        /\ UNCHANGED <<ledger, keys, blobs, pending, exporting, journal, made, files>>
    BY FinalizeIs
  <1> HIDE DEF a, h, q
  <1>2. FilesOK' /\ BundleEnds' /\ Carried("request")' = Carried("request")
    BY <1>1, FilesSame
  <1>3. HeldOK'
    BY <1>1, <1>2 DEF TypeInv, HeldOK
  <1>4. Anchored'
    BY <1>1 DEF TypeInv, Rows, Anchored
  <1>5. Rows'
    BY <1>1 DEF TypeInv, Rows
  <1> QED
    BY <1>2, <1>3, <1>4, <1>5 DEF TypeInv

-----------------------------------------------------------------------------
(* A step of Trust, by what it does.                                       *)

Effect(m) ==
    \/ \E e, rec : Began(m, e, rec)
    \/ \E l, h : Published(m, l, h)
    \/ \E e, rec : Grew(m, e, rec)
    \/ Checkpointed(m)
    \/ ExportAuthorityTransport(m)
    \/ AbandonInterruptedRecovery(m) \/ Reconcile(m)
    \/ CreatePairingRequest(m)
    \/ \E b \in Carried("bundle") : BootstrapRecoveryTrust(m, b)
    \/ \E t, l, k : Joined(m, t, l, k)
    \/ \E t \in Carried("transport") : PrepareCheckpointAdvance(m, t)
    \/ \E i \in DOMAIN tickets[m] : FinalizeAnchorAdvance(m, i)

LEMMA Effects ==
    ASSUME TypeInv, NEW m \in Machines, Ceremony(m) \/ Join(m) \/ Transfer(m)
    PROVE  Effect(m)
  <1>1. CASE Enroll(m)
    BY <1>1, EnrollIs DEF Effect
  <1>2. CASE EnrollWithRecovery(m)
    BY <1>2, EnrollWithRecoveryIs DEF Effect
  <1>3. CASE CreateRecoveryBundle(m)
    BY <1>3, CreateRecoveryBundleIs DEF Effect
  <1>4. CASE AbandonInterruptedRecovery(m) \/ Reconcile(m)
    BY <1>4 DEF Effect
  <1>5. CASE \E k \in Stamps : Revoke(m, k, None) \/ Revoke(m, None, k)
    <2>1. PICK k \in Stamps : Revoke(m, k, None) \/ Revoke(m, None, k)
      BY <1>5
    <2>2. None \in Stamps \cup {None} /\ k \in Stamps \cup {None}
      OBVIOUS
    <2> QED
      BY <2>1, <2>2, RevokeIs DEF Effect
  <1>6. CASE CreateCheckpoint(m, FALSE) \/ CreateCheckpoint(m, TRUE)
    BY <1>6, CreateCheckpointIs DEF Effect
  <1>7. CASE ExportAuthorityTransport(m) \/ CreatePairingRequest(m)
    BY <1>7 DEF Effect
  <1>8. CASE \E r \in Carried("request") : AuthorizePairingRequest(m, r)
    BY <1>8, AuthorizeIs DEF Effect
  <1>9. CASE Join(m)
    <2>1. CASE \E b \in Carried("bundle") : BootstrapRecoveryTrust(m, b)
      BY <2>1 DEF Effect
    <2>2. CASE \E p \in Carried("package") : FinalizePairing(m, p)
      BY <2>2, FinalizePairingIs DEF Effect
    <2>3. CASE \E b \in Carried("bundle"), t \in Carried("transport"), old \in Stamps \cup {None} :
                 RestoreRecoveryBundle(m, b, t, old)
      BY <2>3, RestoreIs DEF Effect
    <2> QED
      BY <1>9, <2>1, <2>2, <2>3 DEF Join
  <1>10. CASE Transfer(m)
    BY <1>10 DEF Transfer, Effect
  <1> QED
    BY <1>1, <1>2, <1>3, <1>4, <1>5, <1>6, <1>7, <1>8, <1>9, <1>10 DEF Ceremony

LEMMA TypedInit == Init => TypeInv
  <1> SUFFICES ASSUME Init
               PROVE  TypeInv
    OBVIOUS
  <1>1. Rows
    BY TrustAssumption DEF Init, Rows
  <1>2. FilesOK /\ HeldOK /\ BundleEnds /\ Anchored
    BY DEF Init, FilesOK, HeldOK, BundleEnds, Anchored, Carried
  <1> QED
    BY <1>1, <1>2 DEF TypeInv

LEMMA TypedNext == TypeInv /\ [Next]_vars => TypeInv'
  <1> SUFFICES ASSUME TypeInv, [Next]_vars
               PROVE  TypeInv'
    OBVIOUS
  <1>1. CASE UNCHANGED vars
    BY <1>1 DEF vars, TypeInv, Rows, FilesOK, HeldOK, BundleEnds, Anchored, Carried
  <1>2. CASE Next
    <2>1. PICK m \in Machines : Effect(m)
      BY <1>2, Effects DEF Next
    <2> QED
      BY <2>1, TypedBegan, TypedPublished, TypedGrew, TypedCheckpointed, TypedExport, TypedIdle,
         TypedRequest, TypedBootstrap, TypedJoined, TypedPrepare, TypedFinalize DEF Effect
  <1> QED
    BY <1>1, <1>2

LEMMA Typed == Spec => []TypeInv
  BY TypedInit, TypedNext, PTL DEF Spec

\* Every variable keeps to its domain, whatever the files that the operator carries
\* and in whatever order they are read: in particular create_checkpoint always names
\* a sequence of its ledger.
THEOREM TypeCorrect == Spec => []TypeOK
  <1>1. TypeInv => TypeOK
    BY TypeInvTypes
  <1> QED
    BY <1>1, Typed, PTL

-----------------------------------------------------------------------------
(* Ledgers only grow, and a key comes with the ledger that certifies it.   *)

Certifies(l, k) == k.aad = k.seq /\ k.seq \in DOMAIN l /\ l[k.seq].key = k.key

ReadFiles == Carried("transport") \cup Carried("package")

\* The events of l are the machine's own, were in its ledger, or are in a file that
\* was read.
Sourced(m, l) ==
    \A i \in DOMAIN l :
        \/ l[i].id[1] = m
        \/ i \in DOMAIN ledger[m] /\ l[i] = ledger[m][i]
        \/ \E f \in ReadFiles : i \in DOMAIN f.ledger /\ l[i] = f.ledger[i]

Takes(m, l) ==
    /\ l \in Seq(Event)
    /\ ledger' = [ledger EXCEPT ![m] = l]
    /\ \A i \in DOMAIN ledger[m] : i \in DOMAIN l /\ l[i] = ledger[m][i]
    /\ Sourced(m, l)
    /\ keys' = keys \/ \E k : Certifies(l, k) /\ keys' = [keys EXCEPT ![m] = k]
    /\ \A f \in ReadFiles' : f \in ReadFiles \/ f.ledger = l

LEMMA OtherFile ==
    ASSUME NEW f, files' = files \cup {f}
    PROVE  \A g \in ReadFiles' : g \in ReadFiles \/ (g = f /\ f.kind \in {"transport", "package"})
  BY DEF ReadFiles, Carried

LEMMA SameFiles ==
    ASSUME UNCHANGED files
    PROVE  \A g \in ReadFiles' : g \in ReadFiles
  BY DEF ReadFiles, Carried

LEMMA BeganTakes ==
    ASSUME TypeInv, NEW m \in Machines, NEW e, NEW rec, Began(m, e, rec)
    PROVE  Takes(m, <<e>>)
  <1> DEFINE s == Stamp(m)
             l == <<e>>
             k == [key |-> s, seq |-> 1, aad |-> 1]
             b == Bundle(l, <<FirstCp(s, e)>>, s)
  <1>1. /\ Make(m) /\ e \in Event /\ e.id = s /\ e.key = s /\ ledger[m] = <<>>
        /\ ledger' = [ledger EXCEPT ![m] = l]
        /\ keys' = [keys EXCEPT ![m] = k]
        /\ files' = files \/ files' = files \cup {b}
    BY DEF Began, FirstCp
  <1>2. s[1] = m
    BY <1>1, StampIs DEF Make, TypeInv
  <1>3. l \in Seq(Event) /\ DOMAIN l = {1} /\ l[1] = e
    BY <1>1
  <1>4. Certifies(l, k)
    BY <1>1, <1>3 DEF Certifies
  <1>5. \A g \in ReadFiles' : g \in ReadFiles
    <2>1. b.kind = "bundle"
      BY DEF Bundle
    <2> HIDE DEF b
    <2> QED
      BY <1>1, <2>1, OtherFile, SameFiles
  <1>6. DOMAIN ledger[m] = {}
    BY <1>1
  <1> HIDE DEF l, k, s, b
  <1>7. Sourced(m, l)
    BY <1>1, <1>2, <1>3 DEF Sourced
  <1>8. Takes(m, l)
    BY <1>1, <1>3, <1>4, <1>5, <1>6, <1>7 DEF Takes
  <1> QED
    BY <1>8 DEF l

LEMMA GrewTakes ==
    ASSUME TypeInv, NEW m \in Machines, NEW e, NEW rec, Grew(m, e, rec)
    PROVE  Takes(m, Longer(m, e))
  <1> DEFINE l == Longer(m, e)
             h == LongerPins(m, e)
             cp == NextCp(m, e)
             n == Len(ledger[m])
  <1>1. /\ Make(m) /\ e \in Event /\ e.id = Stamp(m) /\ ledger[m] # <<>>
        /\ ledger' = [ledger EXCEPT ![m] = l] /\ keys' = keys
        /\ \/ UNCHANGED files
           \/ files' = files \cup {Bundle(l, h, Stamp(m))}
           \/ \E r : files' = files \cup {Package(r, l, h, cp)}
    BY DEF Grew, Longer, NextCp, LongerPins
  <1>2. Stamp(m) \in Stamps /\ Stamp(m)[1] = m
    BY <1>1, MadeTyped, StampIs DEF Make, TypeInv
  <1>3. /\ l \in Seq(Event) /\ n \in Nat /\ l[n + 1] = e
        /\ \A i \in 1..n : l[i] = ledger[m][i]
        /\ DOMAIN l = 1..(n + 1) /\ DOMAIN ledger[m] = 1..n
    BY <1>1, <1>2, GrewTypes DEF Sequence
  <1> HIDE DEF l, h, cp, n
  <1>4. \A g \in ReadFiles' : g \in ReadFiles \/ g.ledger = l
    <2>1. CASE UNCHANGED files
      BY <2>1, SameFiles
    <2>2. CASE files' = files \cup {Bundle(l, h, Stamp(m))}
      <3>1. Bundle(l, h, Stamp(m)).kind = "bundle"
        BY DEF Bundle
      <3> QED
        BY <2>2, <3>1, OtherFile
    <2>3. CASE \E r : files' = files \cup {Package(r, l, h, cp)}
      <3>1. PICK r : files' = files \cup {Package(r, l, h, cp)}
        BY <2>3
      <3>2. Package(r, l, h, cp).ledger = l
        BY DEF Package
      <3> QED
        BY <3>1, <3>2, OtherFile
    <2> QED
      BY <1>1, <2>1, <2>2, <2>3
  <1>5. \A i \in DOMAIN ledger[m] : i \in DOMAIN l /\ l[i] = ledger[m][i]
    BY <1>3
  <1>6. Sourced(m, l)
    <2> SUFFICES ASSUME NEW i \in DOMAIN l
                 PROVE  l[i].id[1] = m \/ (i \in DOMAIN ledger[m] /\ l[i] = ledger[m][i])
      BY DEF Sourced
    <2>1. i \in 1..n \/ i = n + 1
      BY <1>3
    <2> QED
      BY <1>1, <1>2, <1>3, <2>1
  <1>7. Takes(m, l)
    BY <1>1, <1>3, <1>4, <1>5, <1>6 DEF Takes
  <1> QED
    BY <1>7 DEF l

LEMMA JoinedTakes ==
    ASSUME TypeInv, NEW m \in Machines, NEW t, NEW l, NEW k, Joined(m, t, l, k)
    PROVE  Takes(m, l)
  <1>1. /\ ledger[m] = <<>> /\ t \in ReadFiles
        /\ \/ l = t.ledger
           \/ Make(m) /\ \E e \in Event : e.id = Stamp(m) /\ l = Append(t.ledger, e)
        /\ k.aad = k.seq /\ k.seq \in DOMAIN l /\ l[k.seq].key = k.key
        /\ ledger' = [ledger EXCEPT ![m] = l]
        /\ keys' = [keys EXCEPT ![m] = k]
        /\ VerifiedTransport(t)
        /\ UNCHANGED files
    BY DEF Joined, ReadFiles
  <1>2. l \in Seq(Event)
    BY JoinedTypes
  <1>3. DOMAIN ledger[m] = {}
    BY <1>1
  <1>4. Sourced(m, l)
    <2>1. CASE l = t.ledger
      BY <1>1, <2>1 DEF Sourced
    <2>2. CASE Make(m) /\ \E e \in Event : e.id = Stamp(m) /\ l = Append(t.ledger, e)
      <3>1. PICK e \in Event : e.id = Stamp(m) /\ l = Append(t.ledger, e)
        BY <2>2
      <3>2. t.ledger \in Seq(Event)
        BY <1>1, TransportRead DEF ReadFiles
      <3>3. /\ DOMAIN l = 1..(Len(t.ledger) + 1) /\ DOMAIN t.ledger = 1..Len(t.ledger)
            /\ \A i \in 1..Len(t.ledger) : l[i] = t.ledger[i]
            /\ l[Len(t.ledger) + 1] = e /\ Len(t.ledger) \in Nat
        BY <3>1, <3>2, AppendIs
      <3>4. Stamp(m)[1] = m
        BY <2>2, StampIs DEF Make, TypeInv
      <3>5. \A i \in DOMAIN l : l[i].id[1] = m \/ (i \in DOMAIN t.ledger /\ l[i] = t.ledger[i])
        <4> SUFFICES ASSUME NEW i \in DOMAIN l
                     PROVE  l[i].id[1] = m \/ (i \in DOMAIN t.ledger /\ l[i] = t.ledger[i])
          OBVIOUS
        <4>1. i \in 1..Len(t.ledger) \/ i = Len(t.ledger) + 1
          BY <3>3
        <4> QED
          BY <3>1, <3>3, <3>4, <4>1
      <3> QED
        BY <1>1, <3>5 DEF Sourced
    <2> QED
      BY <1>1, <2>1, <2>2
  <1>5. \A f \in ReadFiles' : f \in ReadFiles
    BY <1>1, SameFiles
  <1>6. Certifies(l, k)
    BY <1>1 DEF Certifies
  <1> QED
    BY <1>1, <1>2, <1>3, <1>4, <1>5, <1>6 DEF Takes

\* The other steps leave the ledger as it is.
LEMMA SameTakes ==
    ASSUME TypeInv, NEW m \in Machines, UNCHANGED <<ledger, keys>>,
           \A f \in ReadFiles' : f \in ReadFiles \/ f.ledger = ledger[m]
    PROVE  Takes(m, ledger[m])
  <1>1. ledger \in [Machines -> Seq(Event)]
    BY DEF TypeInv, Rows
  <1>2. Sourced(m, ledger[m])
    BY DEF Sourced
  <1> QED
    BY <1>1, <1>2 DEF Takes

LEMMA EffectTakes ==
    ASSUME TypeInv, NEW m \in Machines, Effect(m)
    PROVE  \E l : Takes(m, l)
  <1>1. CASE \E e, rec : Began(m, e, rec)
    BY <1>1, BeganTakes
  <1>2. CASE \E l, h : Published(m, l, h)
    <2>1. PICK l, h : Published(m, l, h)
      BY <1>2
    <2>2. /\ UNCHANGED <<ledger, keys>> /\ files' = files \cup {Bundle(l, h, Stamp(m))}
          /\ Bundle(l, h, Stamp(m)).kind = "bundle"
      BY <2>1 DEF Published, Bundle
    <2>3. \A f \in ReadFiles' : f \in ReadFiles
      BY <2>2, OtherFile
    <2> QED
      BY <2>2, <2>3, SameTakes
  <1>3. CASE \E e, rec : Grew(m, e, rec)
    BY <1>3, GrewTakes
  <1>4. CASE \E t, l, k : Joined(m, t, l, k)
    BY <1>4, JoinedTakes
  <1>5. CASE ExportAuthorityTransport(m)
    <2> DEFINE f == Transport(ledger[m], pins[m], exporting[m])
    <2>1. UNCHANGED <<ledger, keys>> /\ files' = files \cup {f} /\ f.ledger = ledger[m]
      BY <1>5 DEF ExportAuthorityTransport, Transport
    <2> HIDE DEF f
    <2>2. \A g \in ReadFiles' : g \in ReadFiles \/ g.ledger = ledger[m]
      BY <2>1, OtherFile
    <2> QED
      BY <2>1, <2>2, SameTakes
  <1>6. CASE CreatePairingRequest(m)
    <2>1. PICK r \in RequestFile : files' = files \cup {r}
      BY <1>6, TypedRequest
    <2>2. UNCHANGED <<ledger, keys>> /\ r.kind = "request"
      BY <1>6 DEF CreatePairingRequest, RequestFile
    <2>3. \A g \in ReadFiles' : g \in ReadFiles
      BY <2>1, <2>2, OtherFile
    <2> QED
      BY <2>2, <2>3, SameTakes
  <1>7. CASE UNCHANGED <<ledger, keys, files>>
    <2>1. \A g \in ReadFiles' : g \in ReadFiles
      BY <1>7, SameFiles
    <2> QED
      BY <1>7, <2>1, SameTakes
  <1>8. CASE Checkpointed(m)
    BY <1>7, <1>8 DEF Checkpointed
  <1>9. CASE AbandonInterruptedRecovery(m) \/ Reconcile(m)
    BY <1>7, <1>9 DEF AbandonInterruptedRecovery, Reconcile
  <1>10. CASE \E b \in Carried("bundle") : BootstrapRecoveryTrust(m, b)
    BY <1>7, <1>10 DEF BootstrapRecoveryTrust
  <1>11. CASE \E t \in Carried("transport") : PrepareCheckpointAdvance(m, t)
    BY <1>7, <1>11 DEF PrepareCheckpointAdvance
  <1>12. CASE \E i \in DOMAIN tickets[m] : FinalizeAnchorAdvance(m, i)
    BY <1>7, <1>12 DEF FinalizeAnchorAdvance
  <1> QED
    BY <1>1, <1>2, <1>3, <1>4, <1>5, <1>6, <1>8, <1>9, <1>10, <1>11, <1>12 DEF Effect

LEMMA KeyNext ==
    ASSUME TypeInv, KeyIsSealedForItsCertificate, [Next]_vars
    PROVE  KeyIsSealedForItsCertificate'
  <1>1. CASE UNCHANGED vars
    BY <1>1 DEF vars, KeyIsSealedForItsCertificate
  <1>2. CASE Next
    <2>1. PICK m \in Machines : Effect(m)
      BY <1>2, Effects DEF Next
    <2>2. PICK l : Takes(m, l)
      BY <2>1, EffectTakes
    <2>3. ledger \in [Machines -> Seq(Event)] /\ keys \in [Machines -> KeyRow \cup {None}]
      BY DEF TypeInv, Rows
    <2>4. ASSUME NEW n \in Machines, keys'[n] # None
          PROVE  Certifies(ledger'[n], keys'[n])
      <3>1. CASE keys'[n] = keys[n]
        <4>1. Certifies(ledger[n], keys[n])
          BY <2>4, <3>1 DEF KeyIsSealedForItsCertificate, Certifies
        <4>2. \A i \in DOMAIN ledger[n] : i \in DOMAIN ledger'[n] /\ ledger'[n][i] = ledger[n][i]
          BY <2>2, <2>3 DEF Takes
        <4> QED
          BY <3>1, <4>1, <4>2 DEF Certifies
      <3>2. CASE keys'[n] # keys[n]
        BY <2>2, <2>3, <3>2 DEF Takes
      <3> QED
        BY <3>1, <3>2
    <2> QED
      BY <2>4 DEF KeyIsSealedForItsCertificate, Certifies
  <1> QED
    BY <1>1, <1>2

\* Whichever way a machine came to its key, by enrolling, by pairing or by a recovery
\* restore, the key is sealed for the sequence of the event that certifies it, in the
\* ledger it has by now: decrypt_private_key opens it.
THEOREM KeysOpen == Spec => []KeyIsSealedForItsCertificate
  <1>1. Init => KeyIsSealedForItsCertificate
    BY DEF Init, KeyIsSealedForItsCertificate
  <1>2. TypeInv /\ KeyIsSealedForItsCertificate /\ [Next]_vars => KeyIsSealedForItsCertificate'
    BY KeyNext
  <1> QED
    BY <1>1, <1>2, Typed, PTL DEF Spec

-----------------------------------------------------------------------------
(* The events of a ledger.  A file outlives the ledger it was made from,   *)
(* so what is in the transports and packages has to be committed too; a    *)
(* bundle is the one file that need not be, since it is published first.   *)

Committed(e, i) == i \in DOMAIN ledger[e.id[1]] /\ ledger[e.id[1]][i] = e

FilesCommitted == \A f \in ReadFiles : \A i \in DOMAIN f.ledger : Committed(f.ledger[i], i)

CommitInv == OnlyCommitted /\ FilesCommitted

LEMMA CommitNext ==
    ASSUME TypeInv, CommitInv, [Next]_vars
    PROVE  CommitInv'
  <1>1. CASE UNCHANGED vars
    <2>1. ReadFiles' = ReadFiles /\ ledger' = ledger
      BY <1>1 DEF vars, ReadFiles, Carried
    <2> QED
      BY <2>1 DEF CommitInv, OnlyCommitted, FilesCommitted, Committed
  <1>2. CASE Next
    <2>1. PICK m \in Machines : Effect(m)
      BY <1>2, Effects DEF Next
    <2>2. PICK l : Takes(m, l)
      BY <2>1, EffectTakes
    <2>3. ledger \in [Machines -> Seq(Event)]
      BY DEF TypeInv, Rows
    <2>4. \A n \in Machines : \A i \in DOMAIN ledger[n] :
             i \in DOMAIN ledger'[n] /\ ledger'[n][i] = ledger[n][i]
      BY <2>2, <2>3 DEF Takes
    <2>5. \A e \in Event : e.id[1] \in Machines
      BY DEF Event, Stamps
    <2> DEFINE Now(e, i) == i \in DOMAIN ledger'[e.id[1]] /\ ledger'[e.id[1]][i] = e
    <2>6. \A e \in Event : \A i : Committed(e, i) => Now(e, i)
      BY <2>4, <2>5 DEF Committed
    <2>7. ledger'[m] = l /\ l \in Seq(Event) /\ \A n \in Machines : n # m => ledger'[n] = ledger[n]
      BY <2>2, <2>3 DEF Takes
    <2>8. \A n \in Machines : \A i \in DOMAIN ledger[n] :
             ledger[n][i] \in Event /\ Committed(ledger[n][i], i)
      <3>1. \A n \in Machines : \A i \in DOMAIN ledger[n] : ledger[n][i] \in Event
        BY <2>3, NonEmpty
      <3> QED
        BY <3>1 DEF CommitInv, OnlyCommitted, Committed
    <2>9. \A f \in ReadFiles : \A i \in DOMAIN f.ledger :
             f.ledger[i] \in Event /\ Committed(f.ledger[i], i)
      <3>1. \A f \in ReadFiles : f.ledger \in Seq(Event)
        BY FileKinds DEF TypeInv, ReadFiles, TransportFile, PackageFile
      <3>2. \A f \in ReadFiles : \A i \in DOMAIN f.ledger : f.ledger[i] \in Event
        BY <3>1, NonEmpty
      <3> QED
        BY <3>2 DEF CommitInv, FilesCommitted
    <2>10. \A i \in DOMAIN l : Now(l[i], i)
      <3> SUFFICES ASSUME NEW i \in DOMAIN l
                   PROVE  Now(l[i], i)
        OBVIOUS
      <3>1. CASE l[i].id[1] = m
        BY <2>7, <3>1
      <3> HIDE DEF Now
      <3>2. CASE i \in DOMAIN ledger[m] /\ l[i] = ledger[m][i]
        BY <2>6, <2>8, <3>2
      <3>3. CASE \E f \in ReadFiles : i \in DOMAIN f.ledger /\ l[i] = f.ledger[i]
        BY <2>6, <2>9, <3>3
      <3> QED
        BY <2>2, <3>1, <3>2, <3>3 DEF Takes, Sourced
    <2> HIDE DEF Now
    <2>11. OnlyCommitted'
      <3>1. ASSUME NEW n \in Machines, NEW i \in DOMAIN ledger'[n]
            PROVE  Now(ledger'[n][i], i)
        <4>1. CASE n = m
          BY <2>7, <2>10, <4>1
        <4>2. CASE n # m
          BY <2>6, <2>7, <2>8, <4>2
        <4> QED
          BY <4>1, <4>2
      <3> QED
        BY <3>1 DEF OnlyCommitted, Now
    <2>12. FilesCommitted'
      <3>1. ASSUME NEW f \in ReadFiles', NEW i \in DOMAIN f.ledger
            PROVE  Now(f.ledger[i], i)
        <4>1. CASE f \in ReadFiles
          BY <2>6, <2>9, <4>1
        <4>2. CASE f.ledger = l
          BY <2>10, <4>2
        <4> QED
          BY <2>2, <4>1, <4>2 DEF Takes
      <3> QED
        BY <3>1 DEF FilesCommitted, Committed, Now
    <2> QED
      BY <2>11, <2>12 DEF CommitInv
  <1> QED
    BY <1>1, <1>2

\* No ledger, on any machine, holds an event that its author has not committed at the
\* same sequence: what create_recovery_bundle published and was interrupted before
\* committing is in the bundle, and no pairing, restore or transfer brings it into a
\* ledger.
THEOREM AuthorsCommit == Spec => []OnlyCommitted
  <1>1. Init => CommitInv
    BY DEF Init, CommitInv, OnlyCommitted, FilesCommitted, ReadFiles, Carried
  <1>2. TypeInv /\ CommitInv /\ [Next]_vars => CommitInv'
    BY CommitNext
  <1>3. CommitInv => OnlyCommitted
    BY DEF CommitInv
  <1> QED
    BY <1>1, <1>2, <1>3, Typed, PTL DEF Spec

-----------------------------------------------------------------------------
(* Histories.  Pins and published histories are made of one another: a     *)
(* new checkpoint at the end of one that is there, a part of one after     *)
(* another, or the last of one after another.  No checkpoint is made       *)
(* twice, none is twice in a history, and a history without gaps that has  *)
(* a checkpoint has, up to it, whatever any history has up to it.  That is *)
(* why what a machine has pinned is in every history that goes through its *)
(* last pin, and so agrees with the ledger that comes with it.             *)

Drawn(HS, mk) == \A h \in HS : \A i \in DOMAIN h : h[i].id[2] <= mk[h[i].id[1]]

OneEach(h) == \A i, j \in DOMAIN h : h[i].id = h[j].id => i = j

Covers(h, i, g, j) == \A k \in 1..j : \E q \in 1..i : h[q] = g[k]

Through(h, g) ==
    ClosedHistory(h) =>
        \A i \in DOMAIN h, j \in DOMAIN g : h[i].id = g[j].id => Covers(h, i, g, j)

HistInv(HS, mk) ==
    /\ HS \subseteq Seq(Checkpoint)
    /\ Drawn(HS, mk)
    /\ \A h \in HS : OneEach(h)
    /\ \A h, g \in HS : Through(h, g)

\* One more ceremony, or none, on some machine.
Later(mk, mk2) ==
    /\ mk \in [Machines -> Nat] /\ mk2 \in [Machines -> Nat]
    /\ \A m \in Machines : mk[m] <= mk2[m]

LEMMA StampParts ==
    ASSUME NEW c \in Checkpoint
    PROVE  c.id \in Stamps /\ c.id[1] \in Machines /\ c.id[2] \in Nat
  <1>1. c.id \in Stamps
    BY DEF Checkpoint
  <1> QED
    BY <1>1, TrustAssumption DEF Stamps

LEMMA FewerHistories ==
    ASSUME NEW HS, NEW HS2, NEW mk, NEW mk2, HistInv(HS, mk), HS2 \subseteq HS, Later(mk, mk2)
    PROVE  HistInv(HS2, mk2)
  <1>1. Drawn(HS2, mk2)
    <2> SUFFICES ASSUME NEW h \in HS2, NEW i \in DOMAIN h
                 PROVE  h[i].id[2] <= mk2[h[i].id[1]]
      BY DEF Drawn
    <2>1. h \in HS /\ h \in Seq(Checkpoint)
      BY DEF HistInv
    <2>2. h[i] \in Checkpoint
      BY <2>1, NonEmpty
    <2>3. h[i].id[1] \in Machines /\ h[i].id[2] \in Nat
      BY <2>2, StampParts
    <2>4. h[i].id[2] <= mk[h[i].id[1]]
      BY <2>1 DEF HistInv, Drawn
    <2> QED
      BY <2>3, <2>4 DEF Later
  <1> QED
    BY <1>1 DEF HistInv

\* What has to be shown of a history that is added.
LEMMA HistoryAdded ==
    ASSUME NEW HS, NEW mk, NEW mk2, HistInv(HS, mk), Later(mk, mk2), NEW n \in Seq(Checkpoint),
           \A i \in DOMAIN n : n[i].id[2] <= mk2[n[i].id[1]],
           OneEach(n), \A g \in HS : Through(n, g) /\ Through(g, n)
    PROVE  HistInv(HS \cup {n}, mk2)
  <1>1. HistInv(HS, mk2)
    BY FewerHistories
  <1>2. Drawn(HS \cup {n}, mk2)
    BY <1>1 DEF HistInv, Drawn
  <1>3. Through(n, n)
    <2> SUFFICES ASSUME NEW i \in DOMAIN n, NEW j \in DOMAIN n, n[i].id = n[j].id
                 PROVE  Covers(n, i, n, j)
      BY DEF Through
    <2>1. i = j
      BY DEF OneEach
    <2> QED
      BY <2>1 DEF Covers
  <1> QED
    BY <1>1, <1>2, <1>3 DEF HistInv

LEMMA ClosedPrefix ==
    ASSUME NEW n \in Seq(Checkpoint), NEW p \in Seq(Checkpoint), p # <<>>, Len(p) <= Len(n),
           \A i \in 1..Len(p) : n[i] = p[i], ClosedHistory(n)
    PROVE  ClosedHistory(p)
  <1>1. Len(p) \in Nat \ {0} /\ Len(n) \in Nat
    BY NonEmpty DEF Sequence
  <1>2. p[1].prior = None
    BY <1>1 DEF ClosedHistory
  <1>3. \A i \in 2..Len(p) : p[i].prior = p[i - 1].id
    <2> SUFFICES ASSUME NEW i \in 2..Len(p)
                 PROVE  p[i].prior = p[i - 1].id
      OBVIOUS
    <2>1. i \in 2..Len(n) /\ i \in 1..Len(p) /\ i - 1 \in 1..Len(p)
      BY <1>1
    <2>2. n[i].prior = n[i - 1].id
      BY <2>1 DEF ClosedHistory
    <2> QED
      BY <2>1, <2>2
  <1> QED
    BY <1>2, <1>3 DEF ClosedHistory

\* A new checkpoint after a history.
LEMMA NewAfterHistory ==
    ASSUME NEW HS, NEW mk, NEW mk2, HistInv(HS, mk), Later(mk, mk2), NEW g \in HS,
           NEW c \in Checkpoint, c.id[2] > mk[c.id[1]], c.id[2] <= mk2[c.id[1]]
    PROVE  HistInv(HS \cup {Append(g, c)}, mk2)
  <1> DEFINE n == Append(g, c)
             z == Len(g)
  <1>1. g \in Seq(Checkpoint)
    BY DEF HistInv
  <1>2. /\ n \in Seq(Checkpoint) /\ Len(n) = z + 1 /\ z \in Nat
        /\ DOMAIN n = 1..(z + 1) /\ DOMAIN g = 1..z
        /\ \A i \in 1..z : n[i] = g[i]
        /\ n[z + 1] = c
    BY <1>1, AppendIs
  <1> HIDE DEF n, z
  <1>3. \A h \in HS : \A i \in DOMAIN h : h[i].id # c.id
    <2> SUFFICES ASSUME NEW h \in HS, NEW i \in DOMAIN h, h[i].id = c.id
                 PROVE  FALSE
      OBVIOUS
    <2>1. h[i].id[2] <= mk[h[i].id[1]]
      BY DEF HistInv, Drawn
    <2>2. c.id[1] \in Machines /\ c.id[2] \in Nat
      BY StampParts
    <2>3. mk[c.id[1]] \in Nat
      BY <2>2 DEF Later
    <2> QED
      BY <2>1, <2>2, <2>3
  <1>4. ASSUME NEW i \in DOMAIN n
        PROVE  n[i].id[2] <= mk2[n[i].id[1]]
    <2>1. CASE i = z + 1
      BY <1>2, <2>1
    <2>2. CASE i \in 1..z
      <3>1. HistInv(HS, mk2)
        BY FewerHistories
      <3> QED
        BY <1>2, <2>2, <3>1 DEF HistInv, Drawn
    <2> QED
      BY <1>2, <2>1, <2>2
  <1>5. OneEach(n)
    <2> SUFFICES ASSUME NEW i \in DOMAIN n, NEW j \in DOMAIN n, n[i].id = n[j].id
                 PROVE  i = j
      BY DEF OneEach
    <2>1. CASE i \in 1..z /\ j \in 1..z
      <3>1. OneEach(g)
        BY DEF HistInv
      <3> QED
        BY <1>2, <2>1, <3>1 DEF OneEach
    <2>2. CASE i = z + 1 \/ j = z + 1
      <3>1. \A k \in 1..z : n[k].id # c.id
        BY <1>2, <1>3
      <3> QED
        BY <1>2, <2>2, <3>1
    <2> QED
      BY <1>2, <2>1, <2>2
  <1>6. ASSUME NEW h \in HS
        PROVE  Through(n, h)
    <2> SUFFICES ASSUME ClosedHistory(n), NEW i \in DOMAIN n, NEW j \in DOMAIN h, n[i].id = h[j].id
                 PROVE  Covers(n, i, h, j)
      BY DEF Through
    <2>1. i \in 1..z
      BY <1>2, <1>3
    <2>2. g # <<>>
      BY <1>1, <1>2, <2>1, NonEmpty DEF z
    <2>3. ClosedHistory(g)
      BY <1>1, <1>2, <2>2, ClosedPrefix DEF z
    <2>4. Covers(g, i, h, j)
      BY <1>2, <2>1, <2>3 DEF HistInv, Through
    <2>5. \A q \in 1..i : q \in 1..z
      BY <1>2, <2>1
    <2> QED
      BY <1>2, <2>4, <2>5 DEF Covers
  <1>7. ASSUME NEW h \in HS
        PROVE  Through(h, n)
    <2> SUFFICES ASSUME ClosedHistory(h), NEW i \in DOMAIN h, NEW j \in DOMAIN n, h[i].id = n[j].id
                 PROVE  Covers(h, i, n, j)
      BY DEF Through
    <2>1. j \in 1..z
      BY <1>2, <1>3
    <2>2. Covers(h, i, g, j)
      BY <1>2, <2>1 DEF HistInv, Through
    <2>3. \A k \in 1..j : k \in 1..z
      BY <1>2, <2>1
    <2> QED
      BY <1>2, <2>2, <2>3 DEF Covers
  <1> QED
    BY <1>2, <1>4, <1>5, <1>6, <1>7, HistoryAdded DEF n

\* A history without gaps that goes through the last checkpoint of p has all of p
\* before it.
LEMMA LastCovered ==
    ASSUME NEW HS, NEW mk, HistInv(HS, mk), NEW p \in HS, NEW h \in HS, ClosedHistory(h),
           p # <<>>, NEW a \in 1..Len(h), h[a].id = p[Len(p)].id
    PROVE  /\ Covers(h, a, p, Len(p)) /\ Len(p) \in Nat \ {0} /\ Len(h) \in Nat
           /\ DOMAIN p = 1..Len(p) /\ DOMAIN h = 1..Len(h)
           /\ p \in Seq(Checkpoint) /\ h \in Seq(Checkpoint)
  <1>1. p \in Seq(Checkpoint) /\ h \in Seq(Checkpoint)
    BY DEF HistInv
  <1>2. /\ Len(p) \in Nat \ {0} /\ DOMAIN p = 1..Len(p) /\ Len(p) \in DOMAIN p
        /\ Len(h) \in Nat /\ DOMAIN h = 1..Len(h)
    BY <1>1, NonEmpty DEF Sequence
  <1>3. Through(h, p)
    BY DEF HistInv
  <1> QED
    BY <1>1, <1>2, <1>3 DEF Through

\* What a history has after the last checkpoint of p, after p.
LEMMA RestAfterHistory ==
    ASSUME NEW HS, NEW mk, NEW mk2, HistInv(HS, mk), Later(mk, mk2), NEW p \in HS, NEW h \in HS,
           ClosedHistory(h), p # <<>>, NEW a \in 1..Len(h), h[a].id = p[Len(p)].id
    PROVE  HistInv(HS \cup {Continued(p, h, a)}, mk2)
  <1> DEFINE n == Continued(p, h, a)
             z == Len(p)
             y == Len(h)
  <1>1. /\ Covers(h, a, p, z) /\ z \in Nat \ {0} /\ y \in Nat /\ DOMAIN p = 1..z /\ DOMAIN h = 1..y
        /\ p \in Seq(Checkpoint) /\ h \in Seq(Checkpoint)
    BY LastCovered
  <1>2. /\ n \in Seq(Checkpoint) /\ Len(n) = z + (y - a) /\ DOMAIN n = 1..(z + (y - a))
        /\ \A i \in 1..z : n[i] = p[i]
        /\ \A i \in (z + 1)..(z + (y - a)) : n[i] = h[a + (i - z)]
    <2> HIDE DEF n, z, y
    <2>1. p \in Seq(Checkpoint) /\ h \in Seq(Checkpoint)
      BY <1>1
    <2>2. /\ Continued(p, h, a) \in Seq(Checkpoint)
          /\ Len(Continued(p, h, a)) = Len(p) + (Len(h) - a)
          /\ DOMAIN Continued(p, h, a) = 1..(Len(p) + (Len(h) - a))
          /\ \A i \in 1..Len(p) : Continued(p, h, a)[i] = p[i]
          /\ \A i \in (Len(p) + 1)..(Len(p) + (Len(h) - a)) :
                Continued(p, h, a)[i] = h[a + (i - Len(p))]
      BY <2>1, ContinuedIs
    <2> QED
      BY <2>2 DEF n, z, y
  <1>3. a \in 1..y /\ h[a].id = p[z].id
    OBVIOUS
  <1> HIDE DEF n, z, y
  <1>4. \A i \in (z + 1)..(z + (y - a)) : a + (i - z) \in (a + 1)..y
    BY <1>1, <1>3
  <1>5. \A i \in DOMAIN n : i \in 1..z \/ i \in (z + 1)..(z + (y - a))
    BY <1>1, <1>2, <1>3
  <1>6. HistInv(HS, mk2)
    BY FewerHistories
  <1>7. OneEach(h) /\ OneEach(p)
    BY DEF HistInv
  <1>8. ASSUME NEW i \in DOMAIN n
        PROVE  n[i].id[2] <= mk2[n[i].id[1]]
    <2>1. CASE i \in 1..z
      BY <1>1, <1>2, <1>6, <2>1 DEF HistInv, Drawn
    <2>2. CASE i \in (z + 1)..(z + (y - a))
      <3>1. a + (i - z) \in DOMAIN h
        BY <1>1, <1>3, <1>4, <2>2
      <3> QED
        BY <1>2, <1>6, <2>2, <3>1 DEF HistInv, Drawn
    <2> QED
      BY <1>5, <2>1, <2>2
  \* What is pinned is not in the rest of h again.
  <1>9. ASSUME NEW i \in 1..z, NEW w \in (a + 1)..y
        PROVE  p[i].id # h[w].id
    <2>1. PICK q \in 1..a : h[q] = p[i]
      BY <1>1 DEF Covers
    <2>2. q \in DOMAIN h /\ w \in DOMAIN h /\ q # w
      BY <1>1, <1>3
    <2> QED
      BY <1>7, <2>1, <2>2 DEF OneEach
  <1>10. OneEach(n)
    <2> SUFFICES ASSUME NEW i \in DOMAIN n, NEW j \in DOMAIN n, n[i].id = n[j].id
                 PROVE  i = j
      BY DEF OneEach
    <2>1. CASE i \in 1..z /\ j \in 1..z
      BY <1>1, <1>2, <1>7, <2>1 DEF OneEach
    <2>2. CASE i \in (z + 1)..(z + (y - a)) /\ j \in (z + 1)..(z + (y - a))
      <3>1. a + (i - z) \in DOMAIN h /\ a + (j - z) \in DOMAIN h
        BY <1>1, <1>3, <1>4, <2>2
      <3>2. h[a + (i - z)].id = h[a + (j - z)].id
        BY <1>2, <2>2
      <3>3. a + (i - z) = a + (j - z)
        BY <1>7, <3>1, <3>2 DEF OneEach
      <3> QED
        BY <1>1, <1>3, <2>2, <3>3
    <2>3. CASE i \in 1..z /\ j \in (z + 1)..(z + (y - a))
      BY <1>2, <1>4, <1>9, <2>3
    <2>4. CASE j \in 1..z /\ i \in (z + 1)..(z + (y - a))
      BY <1>2, <1>4, <1>9, <2>4
    <2> QED
      BY <1>5, <2>1, <2>2, <2>3, <2>4
  <1>11. ASSUME NEW g \in HS
         PROVE  Through(n, g)
    <2> SUFFICES ASSUME ClosedHistory(n), NEW i \in DOMAIN n, NEW j \in DOMAIN g, n[i].id = g[j].id
                 PROVE  Covers(n, i, g, j)
      BY DEF Through
    <2>1. ClosedHistory(p)
      <3>1. Len(p) <= Len(n) /\ \A x \in 1..Len(p) : n[x] = p[x]
        BY <1>1, <1>2, <1>3 DEF z
      <3> QED
        BY <1>1, <1>2, <3>1, ClosedPrefix
    <2>2. CASE i \in 1..z
      <3>1. Covers(p, i, g, j)
        BY <1>1, <1>2, <2>1, <2>2 DEF HistInv, Through
      <3>2. \A q \in 1..i : q \in 1..z
        BY <1>1, <2>2
      <3> QED
        BY <1>2, <3>1, <3>2 DEF Covers
    <2>3. CASE i \in (z + 1)..(z + (y - a))
      <3> DEFINE w == a + (i - z)
      <3>1. w \in (a + 1)..y /\ n[i] = h[w]
        BY <1>2, <1>4, <2>3
      <3>2. w \in DOMAIN h /\ h[w].id = g[j].id /\ w \in Nat
        BY <1>1, <1>3, <3>1
      <3> HIDE DEF w
      <3>3. Covers(h, w, g, j)
        BY <3>2 DEF HistInv, Through
      <3>4. Covers(p, z, h, a)
        <4>1. Through(p, h) /\ z \in DOMAIN p /\ a \in DOMAIN h
          BY <1>1, <1>3 DEF HistInv
        <4> QED
          BY <1>3, <2>1, <4>1 DEF Through
      <3> SUFFICES ASSUME NEW k \in 1..j
                   PROVE  \E q \in 1..i : n[q] = g[k]
        BY DEF Covers
      <3>5. PICK x \in 1..w : h[x] = g[k]
        BY <3>3 DEF Covers
      <3>6. CASE x <= a
        <4>1. x \in 1..a
          BY <1>3, <3>2, <3>6
        <4>2. PICK q \in 1..z : p[q] = h[x]
          BY <3>4, <4>1 DEF Covers
        <4>3. q \in 1..i
          BY <1>1, <2>3
        <4> QED
          BY <1>2, <3>5, <4>2, <4>3
      <3>7. CASE ~(x <= a)
        <4> DEFINE q == x - a + z
        <4>1. q \in (z + 1)..(z + (y - a)) /\ q \in 1..i /\ a + (q - z) = x
          BY <1>1, <1>3, <2>3, <3>1, <3>7 DEF w
        <4> HIDE DEF q
        <4> QED
          BY <1>2, <3>5, <4>1
      <3> QED
        BY <3>6, <3>7
    <2> QED
      BY <1>5, <2>2, <2>3
  <1>12. ASSUME NEW g \in HS
         PROVE  Through(g, n)
    <2> SUFFICES ASSUME ClosedHistory(g), NEW i \in DOMAIN g, NEW j \in DOMAIN n, g[i].id = n[j].id
                 PROVE  Covers(g, i, n, j)
      BY DEF Through
    <2>1. CASE j \in 1..z
      <3>1. Covers(g, i, p, j)
        BY <1>1, <1>2, <2>1 DEF HistInv, Through
      <3>2. \A k \in 1..j : k \in 1..z
        BY <1>1, <2>1
      <3> QED
        BY <1>2, <3>1, <3>2 DEF Covers
    <2>2. CASE j \in (z + 1)..(z + (y - a))
      <3> DEFINE w == a + (j - z)
      <3>1. w \in (a + 1)..y /\ n[j] = h[w]
        BY <1>2, <1>4, <2>2
      <3>2. w \in DOMAIN h /\ g[i].id = h[w].id /\ w \in Nat
        BY <1>1, <1>3, <3>1
      <3> HIDE DEF w
      <3>3. Covers(g, i, h, w)
        BY <3>2 DEF HistInv, Through
      <3> SUFFICES ASSUME NEW k \in 1..j
                   PROVE  \E q \in 1..i : g[q] = n[k]
        BY DEF Covers
      <3>4. CASE k \in 1..z
        <4>1. PICK x \in 1..a : h[x] = p[k]
          BY <1>1, <3>4 DEF Covers
        <4>2. x \in 1..w
          BY <1>3, <3>1
        <4> QED
          BY <1>2, <3>3, <3>4, <4>1, <4>2 DEF Covers
      <3>5. CASE ~(k \in 1..z)
        <4> DEFINE x == a + (k - z)
        <4>1. k \in (z + 1)..(z + (y - a)) /\ x \in 1..w
          BY <1>1, <1>3, <2>2, <3>1, <3>5 DEF w
        <4>2. n[k] = h[x]
          BY <1>2, <4>1
        <4> HIDE DEF x
        <4> QED
          BY <3>3, <4>1, <4>2 DEF Covers
      <3> QED
        BY <3>4, <3>5
    <2> QED
      BY <1>5, <2>1, <2>2
  <1> QED
    BY <1>2, <1>8, <1>10, <1>11, <1>12, HistoryAdded DEF n

\* The last checkpoint of a history that goes through the last of p, after p: what
\* is between the two is left out.
LEMMA LastAfterHistory ==
    ASSUME NEW HS, NEW mk, NEW mk2, HistInv(HS, mk), Later(mk, mk2), NEW p \in HS, NEW h \in HS,
           ClosedHistory(h), p # <<>>, NEW a \in 1..Len(h), h[a].id = p[Len(p)].id,
           NEW c, c = h[Len(h)], \A j \in DOMAIN p : p[j].id # c.id
    PROVE  HistInv(HS \cup {Append(p, c)}, mk2)
  <1> DEFINE n == Append(p, c)
             z == Len(p)
             y == Len(h)
  <1>1. /\ Covers(h, a, p, z) /\ z \in Nat \ {0} /\ y \in Nat /\ DOMAIN p = 1..z /\ DOMAIN h = 1..y
        /\ p \in Seq(Checkpoint) /\ h \in Seq(Checkpoint)
    BY LastCovered
  <1>2. a \in 1..y /\ h[a].id = p[z].id /\ h[y] = c /\ y \in DOMAIN h
    <2>1. y \in 1..y
      BY <1>1
    <2> QED
      BY <1>1, <2>1
  <1>3. c \in Checkpoint
    BY <1>1, <1>2, NonEmpty
  <1>4. /\ n \in Seq(Checkpoint) /\ Len(n) = z + 1
        /\ DOMAIN n = 1..(z + 1)
        /\ \A i \in 1..z : n[i] = p[i]
        /\ n[z + 1] = c
    BY <1>1, <1>3, AppendIs
  <1> HIDE DEF n, z, y
  <1>5. \A i \in DOMAIN n : i \in 1..z \/ i = z + 1
    BY <1>1, <1>4
  <1>6. HistInv(HS, mk2)
    BY FewerHistories
  <1>7. ASSUME NEW i \in DOMAIN n
        PROVE  n[i].id[2] <= mk2[n[i].id[1]]
    <2>1. CASE i \in 1..z
      BY <1>1, <1>4, <1>6, <2>1 DEF HistInv, Drawn
    <2>2. CASE i = z + 1
      <3>1. h[y].id[2] <= mk2[h[y].id[1]]
        BY <1>2, <1>6 DEF HistInv, Drawn
      <3> QED
        BY <1>2, <1>4, <2>2, <3>1
    <2> QED
      BY <1>5, <2>1, <2>2
  <1>8. OneEach(n)
    <2> SUFFICES ASSUME NEW i \in DOMAIN n, NEW j \in DOMAIN n, n[i].id = n[j].id
                 PROVE  i = j
      BY DEF OneEach
    <2>1. CASE i \in 1..z /\ j \in 1..z
      <3>1. OneEach(p)
        BY DEF HistInv
      <3> QED
        BY <1>1, <1>4, <2>1, <3>1 DEF OneEach
    <2>2. CASE i = z + 1 \/ j = z + 1
      <3>1. \A k \in 1..z : n[k].id # c.id
        BY <1>1, <1>4
      <3> QED
        BY <1>4, <1>5, <2>2, <3>1
    <2> QED
      BY <1>5, <2>1, <2>2
  <1>9. ASSUME NEW g \in HS
        PROVE  Through(n, g)
    <2> SUFFICES ASSUME ClosedHistory(n), NEW i \in DOMAIN n, NEW j \in DOMAIN g, n[i].id = g[j].id
                 PROVE  Covers(n, i, g, j)
      BY DEF Through
    <2>1. ClosedHistory(p)
      <3>1. Len(p) <= Len(n) /\ \A x \in 1..Len(p) : n[x] = p[x]
        BY <1>1, <1>4 DEF z
      <3> QED
        BY <1>1, <1>4, <3>1, ClosedPrefix
    <2>2. CASE i \in 1..z
      <3>1. Covers(p, i, g, j)
        BY <1>1, <1>4, <2>1, <2>2 DEF HistInv, Through
      <3>2. \A q \in 1..i : q \in 1..z
        BY <1>1, <2>2
      <3> QED
        BY <1>4, <3>1, <3>2 DEF Covers
    <2>3. CASE i = z + 1
      \* n has no gap: the checkpoint before c in h is the last of p.
      <3>1. c.prior = p[z].id
        <4>1. z + 1 \in 2..Len(n) /\ (z + 1) - 1 = z /\ z \in 1..z
          BY <1>1, <1>4
        <4>2. n[z + 1].prior = n[(z + 1) - 1].id
          BY <4>1 DEF ClosedHistory
        <4> QED
          BY <1>4, <4>1, <4>2
      <3>2. a # y
        <4>1. p[z].id # c.id
          <5>1. z \in DOMAIN p
            BY <1>1
          <5> QED
            BY <5>1
        <4> QED
          BY <1>2, <4>1
      <3>3. y - 1 \in DOMAIN h /\ y - 1 \in 1..y /\ h[y - 1].id = p[z].id
        <4>1. y \in 2..Len(h)
          <5>1. y \in 2..y
            BY <1>1, <1>2, <3>2
          <5> QED
            BY <5>1 DEF y
        <4>2. h[y].prior = h[y - 1].id
          BY <4>1 DEF ClosedHistory
        <4>3. y - 1 \in 1..y
          BY <1>1, <4>1
        <4> QED
          BY <1>1, <1>2, <3>1, <4>2, <4>3
      <3>4. Covers(p, z, h, y - 1)
        <4>1. z \in DOMAIN p /\ Through(p, h)
          BY <1>1 DEF HistInv
        <4> QED
          BY <2>1, <3>3, <4>1 DEF Through
      <3>5. Covers(h, y, g, j)
        <4>1. h[y].id = g[j].id /\ Through(h, g)
          BY <1>2, <1>4, <2>3 DEF HistInv
        <4> QED
          BY <1>2, <4>1 DEF Through
      <3> SUFFICES ASSUME NEW k \in 1..j
                   PROVE  \E q \in 1..i : n[q] = g[k]
        BY DEF Covers
      <3>6. PICK x \in 1..y : h[x] = g[k]
        BY <3>5 DEF Covers
      <3>7. CASE x = y
        <4>1. z + 1 \in 1..i
          BY <1>1, <2>3
        <4> QED
          BY <1>2, <1>4, <3>6, <3>7, <4>1
      <3>8. CASE x # y
        <4>1. x \in 1..(y - 1)
          BY <1>1, <3>8
        <4>2. PICK q \in 1..z : p[q] = h[x]
          BY <3>4, <4>1 DEF Covers
        <4>3. q \in 1..i
          BY <1>1, <2>3
        <4> QED
          BY <1>4, <3>6, <4>2, <4>3
      <3> QED
        BY <3>7, <3>8
    <2> QED
      BY <1>5, <2>2, <2>3
  <1>10. ASSUME NEW g \in HS
         PROVE  Through(g, n)
    <2> SUFFICES ASSUME ClosedHistory(g), NEW i \in DOMAIN g, NEW j \in DOMAIN n, g[i].id = n[j].id
                 PROVE  Covers(g, i, n, j)
      BY DEF Through
    <2>1. CASE j \in 1..z
      <3>1. Covers(g, i, p, j)
        BY <1>1, <1>4, <2>1 DEF HistInv, Through
      <3>2. \A k \in 1..j : k \in 1..z
        BY <1>1, <2>1
      <3> QED
        BY <1>4, <3>1, <3>2 DEF Covers
    <2>2. CASE j = z + 1
      <3>1. Covers(g, i, h, y)
        <4>1. g[i].id = h[y].id /\ Through(g, h)
          BY <1>2, <1>4, <2>2 DEF HistInv
        <4> QED
          BY <1>2, <4>1 DEF Through
      <3> SUFFICES ASSUME NEW k \in 1..j
                   PROVE  \E q \in 1..i : g[q] = n[k]
        BY DEF Covers
      <3>2. CASE k \in 1..z
        <4>1. PICK x \in 1..a : h[x] = p[k]
          BY <1>1, <3>2 DEF Covers
        <4>2. x \in 1..y
          BY <1>1, <1>2
        <4> QED
          BY <1>4, <3>1, <3>2, <4>1, <4>2 DEF Covers
      <3>3. CASE k = z + 1
        <4>1. y \in 1..y
          BY <1>1, <1>2
        <4> QED
          BY <1>2, <1>4, <3>1, <3>3, <4>1 DEF Covers
      <3> QED
        BY <1>1, <2>2, <3>2, <3>3
    <2> QED
      BY <1>5, <2>1, <2>2
  <1> QED
    BY <1>4, <1>7, <1>8, <1>9, <1>10, HistoryAdded DEF n

-----------------------------------------------------------------------------
(* What a machine holds: its ledger l, its pins p, its anchor a.  The      *)
(* anchor names the last pin; no pin is ahead of it, and none beside it; a *)
(* machine that has no ledger yet is at its last pin; one that has is not  *)
(* ahead of its anchor, so that the event the anchor pins is the next that *)
(* it may commit, or one that it has.                                      *)

Agrees(l, p, a) ==
    /\ a # None =>
         /\ p # <<>> /\ p[Len(p)].id = a.cp
         /\ \A i \in DOMAIN p : p[i].seq <= a.seq /\ (p[i].seq = a.seq => p[i].ev = a.head)
         /\ l = <<>> => p[Len(p)].seq = a.seq /\ p[Len(p)].ev = a.head
    /\ l # <<>> =>
         /\ l[1].id = a.genesis /\ Len(l) <= a.seq
         /\ \A i \in DOMAIN p : p[i].seq \in DOMAIN l => Consistent(l, p[i])
         /\ a.seq \in DOMAIN l => l[a.seq].id = a.head

\* What a step may do to an anchor.
Forward(a, b) ==
    a # None =>
        /\ b # None
        /\ b.genesis = a.genesis
        /\ b.seq >= a.seq
        /\ b.seq = a.seq => b.head = a.head

\* An anchor at the end of the ledger.
AtEnd(a, l) == a.genesis = l[1].id /\ a.seq = Len(l) /\ a.head = l[Len(l)].id

\* A ledger that grows by an event or by none, with the anchor at its end and a
\* checkpoint of its end or none.
GrowsTo(l, p, a, l2, p2, b) ==
    /\ l \in Seq(Event) /\ l2 \in Seq(Event) /\ l # <<>> /\ l2 # <<>>
    /\ Len(l) <= Len(l2) /\ Len(l2) <= Len(l) + 1 /\ \A i \in DOMAIN l : l2[i] = l[i]
    /\ p \in Seq(Checkpoint) /\ p2 \in Seq(Checkpoint) /\ p2 # <<>>
    /\ a \in Anchor /\ b \in Anchor /\ a # None /\ b # None
    /\ AtEnd(b, l2) /\ p2[Len(p2)].id = b.cp
    /\ a.seq <= Len(l2) /\ (a.seq = Len(l2) => l2[Len(l2)].id = a.head)
    /\ \A i \in DOMAIN p2 : \/ \E j \in DOMAIN p : p2[i] = p[j]
                            \/ p2[i].seq = Len(l2) /\ p2[i].ev = l2[Len(l2)].id

LEMMA AgreesGrown ==
    ASSUME NEW l, NEW p, NEW a, NEW l2, NEW p2, NEW b,
           Agrees(l, p, a), GrowsTo(l, p, a, l2, p2, b)
    PROVE  Agrees(l2, p2, b) /\ Forward(a, b)
  <1> USE DEF GrowsTo
  <1> DEFINE x == Len(l)
             y == Len(l2)
  <1>1. /\ x \in Nat \ {0} /\ y \in Nat \ {0} /\ DOMAIN l = 1..x /\ DOMAIN l2 = 1..y /\ x <= y
        /\ y <= x + 1
    BY NonEmpty DEF Sequence
  <1>2. a.seq \in Nat /\ b.seq = y /\ b.head = l2[y].id /\ b.genesis = l2[1].id
    BY DEF Anchor, Sequence, AtEnd
  <1>3. a.seq <= y /\ (a.seq = y => l2[y].id = a.head)
    OBVIOUS
  <1>4. l2[1] = l[1] /\ l[1].id = a.genesis
    BY <1>1 DEF Agrees
  <1> HIDE DEF x, y
  <1>5. ASSUME NEW i \in DOMAIN p2
        PROVE  /\ p2[i].seq <= y /\ (p2[i].seq = y => p2[i].ev = l2[y].id)
               /\ p2[i].seq \in DOMAIN l2 => Consistent(l2, p2[i])
    <2>1. CASE p2[i].seq = y /\ p2[i].ev = l2[y].id
      BY <1>1, <2>1 DEF Consistent
    <2>2. CASE \E j \in DOMAIN p : p2[i] = p[j]
      <3>1. PICK j \in DOMAIN p : p2[i] = p[j]
        BY <2>2
      <3>2. p[j] \in Checkpoint
        BY NonEmpty
      <3>3. p[j].seq \in Nat
        BY <3>2 DEF Checkpoint, Sequence
      <3>4. /\ p[j].seq <= a.seq /\ (p[j].seq = a.seq => p[j].ev = a.head)
            /\ p[j].seq \in DOMAIN l => Consistent(l, p[j])
        BY DEF Agrees
      <3>5. p[j].seq <= y /\ (p[j].seq = y => p[j].ev = l2[y].id)
        BY <1>1, <1>2, <1>3, <3>3, <3>4
      <3>6. p[j].seq \in DOMAIN l2 => Consistent(l2, p[j])
        <4> SUFFICES ASSUME p[j].seq \in DOMAIN l2
                     PROVE  l2[p[j].seq].id = p[j].ev
          BY DEF Consistent
        <4>1. CASE p[j].seq = y
          BY <3>5, <4>1
        <4>2. CASE p[j].seq # y
          <5>1. p[j].seq \in DOMAIN l
            BY <1>1, <3>3, <4>2
          <5> QED
            BY <3>4, <5>1 DEF Consistent
        <4> QED
          BY <4>1, <4>2
      <3> QED
        BY <3>1, <3>5, <3>6
    <2> QED
      BY <2>1, <2>2 DEF y
  <1>6. Agrees(l2, p2, b)
    BY <1>1, <1>2, <1>5 DEF Agrees, y
  <1>7. Forward(a, b)
    BY <1>2, <1>3, <1>4 DEF Forward
  <1> QED
    BY <1>6, <1>7

\* A ledger with the anchor at its end, where every pin is of the ledger.
LEMMA AgreesTaken ==
    ASSUME NEW l \in Seq(Event), l # <<>>, NEW p \in Seq(Checkpoint), p # <<>>,
           NEW b \in Anchor, AtEnd(b, l), p[Len(p)].id = b.cp,
           \A i \in DOMAIN p : Consistent(l, p[i])
    PROVE  Agrees(l, p, b)
  <1>1. Len(l) \in Nat \ {0} /\ DOMAIN l = 1..Len(l)
    BY NonEmpty DEF Sequence
  <1>2. b.seq = Len(l) /\ b.head = l[Len(l)].id /\ b.genesis = l[1].id
    BY DEF AtEnd
  <1>3. ASSUME NEW i \in DOMAIN p
        PROVE  p[i].seq <= Len(l) /\ (p[i].seq = Len(l) => p[i].ev = l[Len(l)].id)
    BY <1>1 DEF Consistent
  <1> QED
    BY <1>1, <1>2, <1>3 DEF Agrees

WithHistory == {f \in files : f.kind # "request"}

Histories == {<<>>} \cup {pins[m] : m \in Machines} \cup {f.history : f \in WithHistory}

\* The history of a ticket's transport goes through the anchor's checkpoint and ends
\* with the ticket's.
GoodTicket(k) ==
    /\ k.cp.seq >= k.prior.seq
    /\ k.cp.seq = k.prior.seq => k.cp.ev = k.prior.head
    /\ \E t \in Carried("transport") :
         /\ ClosedHistory(t.history) /\ t.history[Len(t.history)] = k.cp
         /\ \E a \in DOMAIN t.history : t.history[a].id = k.prior.cp

HistOK == HistInv(Histories, made)
AgreeOK == \A m \in Machines : Agrees(ledger[m], pins[m], anchor[m])
TicketsOK == \A m \in Machines : \A i \in DOMAIN tickets[m] : GoodTicket(tickets[m][i])

PinInv == HistOK /\ AgreeOK /\ TicketsOK

LEMMA HistoriesGrow ==
    ASSUME TypeInv, NEW m \in Machines, NEW n,
           pins' = pins \/ pins' = [pins EXCEPT ![m] = n],
           \A f \in files' : f \in files \/ f.kind = "request" \/ f.history = n
    PROVE  Histories' \subseteq Histories \cup {n}
  <1>1. pins \in [Machines -> Seq(Checkpoint)]
    BY DEF TypeInv, Rows
  <1>2. ASSUME NEW h \in Histories'
        PROVE  h \in Histories \cup {n}
    <2>1. CASE h = <<>>
      BY <2>1 DEF Histories
    <2>2. CASE \E k \in Machines : h = pins'[k]
      BY <1>1, <2>2 DEF Histories
    <2>3. CASE \E f \in files' : f.kind # "request" /\ h = f.history
      BY <2>3 DEF Histories, WithHistory
    <2> QED
      BY <2>1, <2>2, <2>3 DEF Histories, WithHistory
  <1> QED
    BY <1>2

LEMMA MadeLater ==
    ASSUME TypeInv, NEW m \in Machines, Make(m) \/ UNCHANGED made
    PROVE  Later(made, made')
  <1>1. made \in [Machines -> 0..MaxMade]
    BY DEF TypeInv, Rows
  <1> QED
    BY <1>1, TrustAssumption DEF Later, Make

\* The new checkpoint of a ceremony was not made before.
LEMMA MadeNew ==
    ASSUME TypeInv, NEW m \in Machines, Make(m), NEW c \in Checkpoint, c.id = Stamp(m)
    PROVE  c.id[2] > made[c.id[1]] /\ c.id[2] <= made'[c.id[1]]
  <1>1. made \in [Machines -> 0..MaxMade] /\ made' = [made EXCEPT ![m] = made[m] + 1]
    BY DEF TypeInv, Rows, Make
  <1>2. c.id[1] = m /\ c.id[2] = made[m] + 1
    BY StampIs DEF Make, TypeInv
  <1>3. made'[m] = made[m] + 1 /\ made[m] \in Nat
    BY <1>1, TrustAssumption
  <1> QED
    BY <1>2, <1>3

\* A step of one machine.
Kept(m) ==
    /\ HistInv(Histories', made')
    /\ \A n \in Machines : n # m =>
         ledger'[n] = ledger[n] /\ pins'[n] = pins[n] /\ anchor'[n] = anchor[n]
    /\ Agrees(ledger'[m], pins'[m], anchor'[m])
    /\ Forward(anchor[m], anchor'[m])

\* The three parts of a machine after an assignment.
LEMMA AssignedAt ==
    ASSUME TypeInv, NEW m \in Machines, NEW l, NEW p, NEW a,
           ledger' = [ledger EXCEPT ![m] = l] \/ (ledger' = ledger /\ l = ledger[m]),
           pins' = [pins EXCEPT ![m] = p] \/ (pins' = pins /\ p = pins[m]),
           anchor' = [anchor EXCEPT ![m] = a] \/ (anchor' = anchor /\ a = anchor[m])
    PROVE  /\ ledger'[m] = l /\ pins'[m] = p /\ anchor'[m] = a
           /\ \A n \in Machines : n # m =>
                ledger'[n] = ledger[n] /\ pins'[n] = pins[n] /\ anchor'[n] = anchor[n]
  BY DEF TypeInv, Rows

LEMMA PinsAreHistories ==
    ASSUME TypeInv, NEW m \in Machines
    PROVE  pins[m] \in Histories /\ <<>> \in Histories
  BY DEF Histories

LEMMA KeptStill ==
    ASSUME TypeInv, PinInv, NEW m \in Machines, UNCHANGED <<ledger, pins, anchor>>,
           HistInv(Histories', made')
    PROVE  Kept(m)
  <1>1. Agrees(ledger[m], pins[m], anchor[m])
    BY DEF PinInv, AgreeOK
  <1>2. Forward(anchor[m], anchor[m])
    <2>1. anchor[m] # None => anchor[m].seq \in Sequence
      BY SeqsAndAnchors
    <2> QED
      BY <2>1 DEF Forward, Sequence
  <1> QED
    BY <1>1, <1>2 DEF Kept

LEMMA KeptBegan ==
    ASSUME TypeInv, PinInv, NEW m \in Machines, NEW e, NEW rec, Began(m, e, rec)
    PROVE  Kept(m)
  <1> DEFINE s == Stamp(m)
             l == <<e>>
             cp == FirstCp(s, e)
             p == <<cp>>
             a == AnchorAt(l, s, rec)
             b == Bundle(l, p, s)
  <1>1. /\ Make(m) /\ e \in Event /\ e.id = s /\ rec \in Stamps \cup {None} /\ anchor[m] = None
        /\ ledger' = [ledger EXCEPT ![m] = l]
        /\ pins' = [pins EXCEPT ![m] = p]
        /\ anchor' = [anchor EXCEPT ![m] = a]
        /\ files' = files \/ files' = files \cup {b}
    BY DEF Began, FirstCp
  <1>2. s \in Stamps
    BY <1>1, MadeTyped
  <1>3. /\ l \in Seq(Event) /\ l # <<>> /\ Len(l) = 1 /\ l[1] = e
        /\ cp \in Checkpoint /\ cp.id = s /\ cp.seq = 1 /\ cp.ev = s
        /\ p \in Seq(Checkpoint) /\ p # <<>> /\ Len(p) = 1 /\ p[1] = cp
        /\ a \in Anchor /\ a.genesis = s /\ a.seq = 1 /\ a.head = s /\ a.cp = s
    BY <1>1, <1>2, BeganTypes
  <1>4. p = Append(<<>>, cp)
    BY <1>3
  <1>5. \A f \in files' : f \in files \/ f.history = p
    BY <1>1 DEF Bundle
  <1> HIDE DEF s, l, cp, p, a, b
  <1>6. HistInv(Histories', made')
    <2>1. <<>> \in Histories /\ Later(made, made') /\ HistInv(Histories, made)
      BY <1>1, PinsAreHistories, MadeLater DEF PinInv, HistOK
    <2>2. cp.id[2] > made[cp.id[1]] /\ cp.id[2] <= made'[cp.id[1]]
      BY <1>1, <1>3, MadeNew DEF s
    <2>3. HistInv(Histories \cup {p}, made')
      BY <1>3, <1>4, <2>1, <2>2, NewAfterHistory
    <2>4. Histories' \subseteq Histories \cup {p}
      BY <1>1, <1>5, HistoriesGrow
    <2>5. Later(made', made')
      BY <2>1 DEF Later
    <2> QED
      BY <2>3, <2>4, <2>5, FewerHistories
  <1>7. Agrees(l, p, a)
    <2>1. AtEnd(a, l) /\ p[Len(p)].id = a.cp
      BY <1>1, <1>3 DEF AtEnd
    <2>2. \A i \in DOMAIN p : Consistent(l, p[i])
      <3>1. DOMAIN p = 1..1 /\ DOMAIN l = 1..1
        BY <1>3, LenProperties
      <3> QED
        BY <1>1, <1>3, <3>1 DEF Consistent
    <2> QED
      BY <1>3, <2>1, <2>2, AgreesTaken
  <1>8. Forward(anchor[m], a)
    BY <1>1 DEF Forward
  <1>9. /\ ledger'[m] = l /\ pins'[m] = p /\ anchor'[m] = a
        /\ \A n \in Machines : n # m =>
             ledger'[n] = ledger[n] /\ pins'[n] = pins[n] /\ anchor'[n] = anchor[n]
    BY <1>1, AssignedAt
  <1> QED
    BY <1>6, <1>7, <1>8, <1>9 DEF Kept

LEMMA KeptPublished ==
    ASSUME TypeInv, PinInv, NEW m \in Machines, NEW l, NEW h, Published(m, l, h)
    PROVE  Kept(m)
  <1>1. /\ Make(m) /\ files' = files \cup {Bundle(l, h, Stamp(m))}
        /\ UNCHANGED <<ledger, pins, anchor>>
    BY DEF Published
  <1>2. Stamp(m) \in Stamps
    BY <1>1, MadeTyped
  <1>3. \E g \in Histories : \E c \in Checkpoint : c.id = Stamp(m) /\ h = Append(g, c)
    <2>1. PICK e \in Event :
             /\ e.id = Stamp(m)
             /\ \/ l = <<e>> /\ h = <<NewCheckpoint(Stamp(m), None, l)>>
                \/ /\ ledger[m] # <<>> /\ l = Append(ledger[m], e)
                   /\ h = Append(pins[m], NewCheckpoint(Stamp(m), anchor[m].cp, l))
      BY DEF Published
    <2>2. CASE l = <<e>> /\ h = <<NewCheckpoint(Stamp(m), None, l)>>
      <3> DEFINE cp == FirstCp(Stamp(m), e)
      <3>1. cp \in Checkpoint /\ cp.id = Stamp(m)
        BY <1>2, <2>1, BeganTypes
      <3>2. h = <<cp>>
        BY <2>2 DEF FirstCp
      <3> HIDE DEF cp
      <3>3. h = Append(<<>>, cp)
        BY <3>1, <3>2
      <3>4. <<>> \in Histories
        BY PinsAreHistories
      <3> QED
        BY <3>1, <3>3, <3>4
    <2>3. CASE /\ ledger[m] # <<>> /\ l = Append(ledger[m], e)
               /\ h = Append(pins[m], NewCheckpoint(Stamp(m), anchor[m].cp, l))
      <3>1. NextCp(m, e) \in Checkpoint /\ NextCp(m, e).id = Stamp(m)
        BY <1>2, <2>1, <2>3, GrewTypes
      <3>2. h = Append(pins[m], NextCp(m, e))
        BY <2>3 DEF NextCp, Longer
      <3>3. pins[m] \in Histories
        BY PinsAreHistories
      <3> QED
        BY <3>1, <3>2, <3>3
    <2> QED
      BY <2>1, <2>2, <2>3
  <1>4. PICK g \in Histories : \E c \in Checkpoint : c.id = Stamp(m) /\ h = Append(g, c)
    BY <1>3
  <1>5. PICK c \in Checkpoint : c.id = Stamp(m) /\ h = Append(g, c)
    BY <1>4
  <1>6. HistInv(Histories', made')
    <2>1. Later(made, made') /\ HistInv(Histories, made)
      BY <1>1, MadeLater DEF PinInv, HistOK
    <2>2. c.id[2] > made[c.id[1]] /\ c.id[2] <= made'[c.id[1]]
      BY <1>1, <1>5, MadeNew
    <2>3. HistInv(Histories \cup {h}, made')
      BY <1>5, <2>1, <2>2, NewAfterHistory
    <2>4. Histories' \subseteq Histories \cup {h}
      <3>1. \A f \in files' : f \in files \/ f.history = h
        BY <1>1 DEF Bundle
      <3> QED
        BY <1>1, <3>1, HistoriesGrow
    <2>5. Later(made', made')
      BY <2>1 DEF Later
    <2> QED
      BY <2>3, <2>4, <2>5, FewerHistories
  <1> QED
    BY <1>1, <1>6, KeptStill

LEMMA KeptGrew ==
    ASSUME TypeInv, PinInv, NEW m \in Machines, NEW e, NEW rec, Grew(m, e, rec)
    PROVE  Kept(m)
  <1> DEFINE s == Stamp(m)
             l == ledger[m]
             l2 == Longer(m, e)
             cp == NextCp(m, e)
             p == pins[m]
             q == LongerPins(m, e)
             a == anchor[m]
             x == Len(l)
  <1>1. /\ Make(m) /\ e \in Event /\ e.id = s /\ rec \in Stamps \cup {None} /\ l # <<>>
        /\ a.seq <= Len(l2) /\ (a.seq = Len(l2) => e.id = a.head)
        /\ ledger' = [ledger EXCEPT ![m] = l2]
        /\ \/ /\ UNCHANGED <<pins, files>>
              /\ anchor' = [anchor EXCEPT ![m] = AnchorAt(l2, a.cp, rec)]
           \/ /\ pins' = [pins EXCEPT ![m] = q]
              /\ anchor' = [anchor EXCEPT ![m] = AnchorAt(l2, s, rec)]
              /\ \/ files' = files \cup {Bundle(l2, q, s)}
                 \/ \E r : files' = files \cup {Package(r, l2, q, cp)}
    BY DEF Grew, Longer, NextCp, LongerPins
  <1>2. s \in Stamps
    BY <1>1, MadeTyped
  <1>3. /\ l \in Seq(Event) /\ x \in Sequence /\ a # None /\ a \in Anchor
        /\ l2 \in Seq(Event) /\ l2 # <<>> /\ Len(l2) = x + 1 /\ l2[x + 1] = e
        /\ \A i \in 1..x : l2[i] = l[i]
        /\ DOMAIN l = 1..x
        /\ cp \in Checkpoint /\ cp.id = s /\ cp.seq = Len(l2) /\ cp.ev = s
        /\ p \in Seq(Checkpoint) /\ q \in Seq(Checkpoint) /\ q # <<>>
        /\ q[Len(q)] = cp
    BY <1>1, <1>2, GrewTypes
  <1>4. a.cp \in Stamps
    BY <1>3 DEF Anchor
  <1>5. q = Append(p, cp)
    BY DEF LongerPins
  <1> HIDE DEF s, l, l2, cp, p, q, a, x
  <1>6. /\ DOMAIN q = 1..(Len(p) + 1) /\ DOMAIN p = 1..Len(p) /\ Len(p) \in Nat
        /\ \A i \in 1..Len(p) : q[i] = p[i]
        /\ q[Len(p) + 1] = cp
    BY <1>3, <1>5, AppendIs
  <1>7. Agrees(l, p, a) /\ p # <<>> /\ p[Len(p)].id = a.cp
    <2>1. Agrees(l, p, a)
      BY DEF PinInv, AgreeOK, l, p, a
    <2> QED
      BY <1>3, <2>1 DEF Agrees
  <1>8. /\ l2[Len(l2)].id = s /\ Len(l) <= Len(l2) /\ Len(l2) <= Len(l) + 1
        /\ \A i \in DOMAIN l : l2[i] = l[i]
    BY <1>1, <1>3 DEF x, Sequence
  <1>9. HistInv(Histories', made') /\ HistInv(Histories \cup {q}, made')
    <2>1. p \in Histories /\ Later(made, made') /\ HistInv(Histories, made)
      BY <1>1, PinsAreHistories, MadeLater DEF PinInv, HistOK, p
    <2>2. cp.id[2] > made[cp.id[1]] /\ cp.id[2] <= made'[cp.id[1]]
      BY <1>1, <1>3, MadeNew DEF s
    <2>3. HistInv(Histories \cup {q}, made')
      BY <1>3, <1>5, <2>1, <2>2, NewAfterHistory
    <2>4. Histories' \subseteq Histories \cup {q}
      <3>1. \A f \in files' : f \in files \/ f.history = q
        BY <1>1 DEF Bundle, Package
      <3>2. pins' = pins \/ pins' = [pins EXCEPT ![m] = q]
        BY <1>1
      <3> QED
        BY <3>1, <3>2, HistoriesGrow
    <2>5. Later(made', made')
      BY <2>1 DEF Later
    <2> QED
      BY <2>3, <2>4, <2>5, FewerHistories
  <1>10. \A c \in Stamps : /\ AnchorAt(l2, c, rec) \in Anchor /\ AnchorAt(l2, c, rec) # None
                           /\ AnchorAt(l2, c, rec).cp = c /\ AtEnd(AnchorAt(l2, c, rec), l2)
    <2> SUFFICES ASSUME NEW c \in Stamps
                 PROVE  /\ AnchorAt(l2, c, rec) \in Anchor /\ AnchorAt(l2, c, rec) # None
                        /\ AnchorAt(l2, c, rec).cp = c /\ AtEnd(AnchorAt(l2, c, rec), l2)
      OBVIOUS
    <2>1. rec \in Stamps \cup {None} /\ l2 \in Seq(Event) /\ l2 # <<>>
      BY <1>1, <1>3
    <2>2. AnchorAt(l2, c, rec) \in Anchor /\ AnchorAt(l2, c, rec) # None
      BY <2>1, AnchorIs
    <2>3. AnchorAt(l2, c, rec).cp = c /\ AtEnd(AnchorAt(l2, c, rec), l2)
      BY DEF AnchorAt, AtEnd
    <2> QED
      BY <2>2, <2>3
  <1>11. CASE UNCHANGED pins /\ anchor' = [anchor EXCEPT ![m] = AnchorAt(l2, a.cp, rec)]
    <2> DEFINE b == AnchorAt(l2, a.cp, rec)
    <2>1. b \in Anchor /\ b # None /\ b.cp = a.cp /\ AtEnd(b, l2)
      BY <1>4, <1>10
    <2> HIDE DEF b
    <2>2. \A i \in DOMAIN p : \E j \in DOMAIN p : p[i] = p[j]
      OBVIOUS
    <2>3. Agrees(l2, p, b) /\ Forward(a, b)
      <3>1. GrowsTo(l, p, a, l2, p, b)
        BY <1>1, <1>3, <1>7, <1>8, <2>1, <2>2 DEF GrowsTo
      <3> QED
        BY <1>7, <3>1, AgreesGrown
    <2>4. /\ ledger'[m] = l2 /\ pins'[m] = p /\ anchor'[m] = b
          /\ \A n \in Machines : n # m =>
               ledger'[n] = ledger[n] /\ pins'[n] = pins[n] /\ anchor'[n] = anchor[n]
      BY <1>1, <1>11, AssignedAt DEF p, b
    <2> QED
      BY <1>9, <2>3, <2>4 DEF Kept, a
  <1>12. CASE /\ pins' = [pins EXCEPT ![m] = q]
              /\ anchor' = [anchor EXCEPT ![m] = AnchorAt(l2, s, rec)]
    <2> DEFINE b == AnchorAt(l2, s, rec)
    <2>1. b \in Anchor /\ b # None /\ b.cp = s /\ AtEnd(b, l2)
      BY <1>2, <1>10
    <2> HIDE DEF b
    <2>2. \A i \in DOMAIN q : \/ \E j \in DOMAIN p : q[i] = p[j]
                              \/ q[i].seq = Len(l2) /\ q[i].ev = l2[Len(l2)].id
      <3> SUFFICES ASSUME NEW i \in DOMAIN q
                   PROVE  \/ \E j \in DOMAIN p : q[i] = p[j]
                          \/ q[i].seq = Len(l2) /\ q[i].ev = l2[Len(l2)].id
        OBVIOUS
      <3>1. i \in 1..Len(p) \/ i = Len(p) + 1
        BY <1>6
      <3> QED
        BY <1>3, <1>6, <1>8, <3>1
    <2>3. Agrees(l2, q, b) /\ Forward(a, b)
      <3>1. GrowsTo(l, p, a, l2, q, b)
        BY <1>1, <1>3, <1>7, <1>8, <2>1, <2>2 DEF GrowsTo
      <3> QED
        BY <1>7, <3>1, AgreesGrown
    <2>4. /\ ledger'[m] = l2 /\ pins'[m] = q /\ anchor'[m] = b
          /\ \A n \in Machines : n # m =>
               ledger'[n] = ledger[n] /\ pins'[n] = pins[n] /\ anchor'[n] = anchor[n]
      BY <1>1, <1>12, AssignedAt DEF b
    <2> QED
      BY <1>9, <2>3, <2>4 DEF Kept, a
  <1> QED
    BY <1>1, <1>11, <1>12

LEMMA KeptCheckpointed ==
    ASSUME TypeInv, PinInv, NEW m \in Machines, Checkpointed(m)
    PROVE  Kept(m)
  <1> DEFINE s == Stamp(m)
             l == ledger[m]
             cp == ThisCp(m)
             p == pins[m]
             q == Append(p, cp)
             a == anchor[m]
             b == AnchorAt(l, s, a.rec)
  <1>1. /\ Make(m) /\ l # <<>> /\ MayPin(m, cp)
        /\ pins' = [pins EXCEPT ![m] = q]
        /\ anchor' = [anchor EXCEPT ![m] = b]
        /\ UNCHANGED <<ledger, files>>
    BY DEF Checkpointed
  <1>2. s \in Stamps
    BY <1>1, MadeTyped
  <1>3. /\ l \in Seq(Event) /\ Len(l) \in Sequence /\ a # None /\ a \in Anchor
        /\ cp \in Checkpoint /\ cp.id = s /\ cp.seq = Len(l) /\ cp.ev = l[Len(l)].id
        /\ p \in Seq(Checkpoint)
        /\ b \in Anchor /\ b # None /\ b.seq = Len(l) /\ b.cp = s /\ b.head = l[Len(l)].id
        /\ b.genesis = l[1].id
    BY <1>1, <1>2, ThisCpTypes
  <1>4. cp.seq >= a.seq /\ (cp.seq = a.seq => cp.ev = a.head)
    BY <1>1 DEF MayPin
  <1> HIDE DEF s, l, cp, p, a, b
  <1>5. /\ q \in Seq(Checkpoint) /\ q # <<>> /\ Len(q) = Len(p) + 1
        /\ DOMAIN q = 1..(Len(p) + 1) /\ DOMAIN p = 1..Len(p) /\ Len(p) \in Nat
        /\ \A i \in 1..Len(p) : q[i] = p[i]
        /\ q[Len(p) + 1] = cp
    BY <1>3, AppendIs
  <1> HIDE DEF q
  <1>6. Agrees(l, p, a)
    BY DEF PinInv, AgreeOK, l, p, a
  <1>7. HistInv(Histories', made')
    <2>1. p \in Histories /\ Later(made, made') /\ HistInv(Histories, made)
      BY <1>1, PinsAreHistories, MadeLater DEF PinInv, HistOK, p
    <2>2. cp.id[2] > made[cp.id[1]] /\ cp.id[2] <= made'[cp.id[1]]
      BY <1>1, <1>3, MadeNew DEF s
    <2>3. HistInv(Histories \cup {q}, made')
      BY <1>3, <2>1, <2>2, NewAfterHistory DEF q
    <2>4. Histories' \subseteq Histories \cup {q}
      BY <1>1, HistoriesGrow
    <2>5. Later(made', made')
      BY <2>1 DEF Later
    <2> QED
      BY <2>3, <2>4, <2>5, FewerHistories
  <1>8. Agrees(l, q, b) /\ Forward(a, b)
    <2>1. \A i \in DOMAIN q : \/ \E j \in DOMAIN p : q[i] = p[j]
                              \/ q[i].seq = Len(l) /\ q[i].ev = l[Len(l)].id
      <3> SUFFICES ASSUME NEW i \in DOMAIN q
                   PROVE  \/ \E j \in DOMAIN p : q[i] = p[j]
                          \/ q[i].seq = Len(l) /\ q[i].ev = l[Len(l)].id
        OBVIOUS
      <3>1. i \in 1..Len(p) \/ i = Len(p) + 1
        BY <1>5
      <3> QED
        BY <1>3, <1>5, <3>1
    <2>2. a.seq \in Nat /\ Len(l) \in Nat
      BY <1>3 DEF Anchor, Sequence
    <2>3. /\ a.seq <= Len(l) /\ (a.seq = Len(l) => l[Len(l)].id = a.head)
          /\ Len(l) <= Len(l) /\ Len(l) <= Len(l) + 1
      BY <1>3, <1>4, <2>2
    <2>4. AtEnd(b, l) /\ q[Len(q)].id = b.cp
      BY <1>3, <1>5 DEF AtEnd
    <2>5. GrowsTo(l, p, a, l, q, b)
      BY <1>1, <1>3, <1>5, <2>1, <2>3, <2>4 DEF GrowsTo
    <2> QED
      BY <1>6, <2>5, AgreesGrown
  <1>9. /\ ledger'[m] = l /\ pins'[m] = q /\ anchor'[m] = b
        /\ \A n \in Machines : n # m =>
             ledger'[n] = ledger[n] /\ pins'[n] = pins[n] /\ anchor'[n] = anchor[n]
    BY <1>1, AssignedAt DEF l
  <1> QED
    BY <1>7, <1>8, <1>9 DEF Kept, a

\* A step that leaves the machine alone and writes nothing but a history that is there.
LEMMA KeptQuiet ==
    ASSUME TypeInv, PinInv, NEW m \in Machines, UNCHANGED <<ledger, pins, anchor>>,
           Make(m) \/ UNCHANGED made,
           \A f \in files' : f \in files \/ f.kind = "request" \/ f.history = pins[m]
    PROVE  Kept(m)
  <1>1. pins[m] \in Histories
    BY PinsAreHistories
  <1>2. Histories' \subseteq Histories \cup {pins[m]}
    BY HistoriesGrow
  <1>3. Histories' \subseteq Histories
    BY <1>1, <1>2
  <1>4. HistInv(Histories', made')
    BY <1>3, MadeLater, FewerHistories DEF PinInv, HistOK
  <1> QED
    BY <1>4, KeptStill

LEMMA KeptBootstrap ==
    ASSUME TypeInv, PinInv, NEW m \in Machines, NEW b \in Carried("bundle"),
           BootstrapRecoveryTrust(m, b)
    PROVE  Kept(m)
  <1> DEFINE h == b.history
             l == b.ledger
             z == Len(h)
             a == AnchorAt(l, Last(h).id, b.rec)
  <1>1. /\ ledger[m] = <<>> /\ anchor[m] = None /\ VerifiedBundle(b)
        /\ pins' = [pins EXCEPT ![m] = h] /\ anchor' = [anchor EXCEPT ![m] = a]
        /\ UNCHANGED <<ledger, made, files>>
    BY DEF BootstrapRecoveryTrust
  <1>2. /\ l \in Seq(Event) /\ l # <<>> /\ b.rec \in Stamps
        /\ h \in Seq(Checkpoint) /\ h # <<>> /\ Last(h).id \in Stamps
        /\ Last(h) = h[z] /\ h[z].seq = Len(l) /\ h[z].ev = l[Len(l)].id
    BY BundleRead
  <1>3. /\ \A i \in DOMAIN h : Consistent(l, h[i])
    BY <1>1 DEF VerifiedBundle
  <1>4. h \in Histories
    BY DEF Carried, Histories, WithHistory
  <1>5. a # None /\ a.seq = Len(l) /\ a.head = l[Len(l)].id /\ a.cp = Last(h).id
    BY <1>2, AnchorIs
  <1>6. Len(l) \in Nat /\ DOMAIN l = 1..Len(l)
    BY <1>2, NonEmpty
  <1> HIDE DEF h, l, a, z
  <1>7. HistInv(Histories', made')
    <2>1. Histories' \subseteq Histories \cup {h}
      BY <1>1, HistoriesGrow
    <2>2. Histories' \subseteq Histories
      BY <1>4, <2>1
    <2> QED
      BY <1>1, <2>2, MadeLater, FewerHistories DEF PinInv, HistOK
  <1>8. Agrees(<<>>, h, a)
    <2>1. ASSUME NEW i \in DOMAIN h
          PROVE  h[i].seq <= Len(l) /\ (h[i].seq = Len(l) => h[i].ev = l[Len(l)].id)
      <3>1. h[i].seq \in 1..Len(l) /\ l[h[i].seq].id = h[i].ev
        BY <1>3, <1>6 DEF Consistent
      <3> QED
        BY <1>6, <3>1
    <2> QED
      BY <1>2, <1>5, <2>1 DEF Agrees, z
  <1>9. Forward(anchor[m], a)
    BY <1>1 DEF Forward
  <1>10. /\ ledger'[m] = <<>> /\ pins'[m] = h /\ anchor'[m] = a
         /\ \A n \in Machines : n # m =>
              ledger'[n] = ledger[n] /\ pins'[n] = pins[n] /\ anchor'[n] = anchor[n]
    <2>1. pins' = [pins EXCEPT ![m] = h] /\ anchor' = [anchor EXCEPT ![m] = a]
          /\ ledger' = [ledger EXCEPT ![m] = <<>>]
      <3>1. ledger \in [Machines -> Seq(Event)]
        BY DEF TypeInv, Rows
      <3>2. ledger = [ledger EXCEPT ![m] = <<>>]
        BY <1>1, <3>1
      <3> QED
        BY <1>1, <3>2
    <2> QED
      BY <2>1, AssignedAt
  <1> QED
    BY <1>7, <1>8, <1>9, <1>10 DEF Kept

LEMMA KeptJoined ==
    ASSUME TypeInv, PinInv, NEW m \in Machines, NEW t, NEW l, NEW k, Joined(m, t, l, k)
    PROVE  Kept(m)
  <1> DEFINE h == t.history
             y == Len(h)
             p == pins[m]
             z == Len(p)
             a == anchor[m]
             b == AnchorAt(l, t.cp.id, a.rec)
  <1>1. /\ ledger[m] = <<>> /\ a # None
        /\ t \in Carried("transport") \cup Carried("package") /\ VerifiedTransport(t)
        /\ Make(m) \/ UNCHANGED made
        /\ Follows(m, l, h)
        /\ ledger' = [ledger EXCEPT ![m] = l]
        /\ pins' = [pins EXCEPT ![m] = Replayed(m, h)]
        /\ anchor' = [anchor EXCEPT ![m] = b]
        /\ UNCHANGED files
    BY DEF Joined
  <1>2. /\ t \in files /\ t.kind # "request" /\ t.ledger \in Seq(Event)
        /\ h \in Seq(Checkpoint) /\ h # <<>> /\ t.cp = h[y] /\ y \in DOMAIN h /\ ClosedHistory(h)
        /\ \A i \in DOMAIN h : Consistent(t.ledger, h[i])
    BY <1>1, TransportRead
  <1>3. /\ l \in Seq(Event) /\ l # <<>> /\ DOMAIN l = 1..Len(l) /\ Len(l) \in Sequence
        /\ \A i \in DOMAIN t.ledger : i \in DOMAIN l /\ l[i] = t.ledger[i]
        /\ a \in Anchor /\ b \in Anchor /\ b # None
        /\ b.genesis = a.genesis /\ b.seq = Len(l) /\ b.head = l[Len(l)].id /\ b.cp = t.cp.id
        /\ l[1].id = a.genesis
        /\ p \in Seq(Checkpoint)
    BY JoinedTypes
  <1>4. h \in Histories /\ p \in Histories
    BY <1>2, PinsAreHistories DEF Histories, WithHistory
  <1>5. Agrees(<<>>, p, a)
    BY <1>1 DEF PinInv, AgreeOK
  <1>6. PICK st \in 1..Len(h) : h[st].id = a.cp /\ Replayed(m, h) = Continued(p, h, st)
    BY <1>1, <1>2, ReplayedIs
  <1> DEFINE q == Continued(p, h, st)
  <1>7. p # <<>> /\ p[z].id = a.cp /\ p[z].seq = a.seq /\ p[z].ev = a.head
    BY <1>1, <1>5 DEF Agrees
  <1>8. HistInv(Histories, made) /\ Later(made, made')
    BY <1>1, MadeLater DEF PinInv, HistOK
  <1>9. /\ Covers(h, st, p, z) /\ z \in Nat \ {0} /\ y \in Nat /\ DOMAIN p = 1..z
        /\ DOMAIN h = 1..y
    BY <1>2, <1>4, <1>6, <1>7, <1>8, LastCovered
  <1>10. /\ q \in Seq(Checkpoint) /\ Len(q) = z + (y - st) /\ DOMAIN q = 1..(z + (y - st))
         /\ \A i \in 1..z : q[i] = p[i]
         /\ \A i \in (z + 1)..(z + (y - st)) : q[i] = h[st + (i - z)]
    BY <1>2, <1>3, ContinuedIs
  <1>11. st \in 1..y
    OBVIOUS
  <1> HIDE DEF h, y, p, z, a, b, q
  <1>12. HistInv(Histories', made')
    <2>1. HistInv(Histories \cup {q}, made')
      BY <1>2, <1>4, <1>6, <1>7, <1>8, RestAfterHistory DEF q, z
    <2>2. Histories' \subseteq Histories \cup {q}
      <3>1. pins' = [pins EXCEPT ![m] = q] /\ files' = files
        BY <1>1, <1>6 DEF q
      <3> QED
        BY <3>1, HistoriesGrow
    <2>3. Later(made', made')
      BY <1>8 DEF Later
    <2> QED
      BY <2>1, <2>2, <2>3, FewerHistories
  \* Everything that is pinned by now is in the history of t.
  <1>13. ASSUME NEW i \in DOMAIN q
         PROVE  \E w \in DOMAIN h : q[i] = h[w]
    <2>1. CASE i \in 1..z
      <3>1. PICK w \in 1..st : h[w] = p[i]
        BY <1>9, <2>1 DEF Covers
      <3>2. w \in DOMAIN h
        BY <1>9, <1>11
      <3> QED
        BY <1>10, <2>1, <3>1, <3>2
    <2>2. CASE ~(i \in 1..z)
      <3>1. i \in (z + 1)..(z + (y - st)) /\ st + (i - z) \in DOMAIN h
        BY <1>9, <1>10, <1>11, <2>2
      <3> QED
        BY <1>10, <3>1
    <2> QED
      BY <2>1, <2>2
  <1>14. \A w \in DOMAIN h : Consistent(l, h[w])
    BY <1>2, <1>3 DEF Consistent
  <1>15. q # <<>> /\ q[Len(q)].id = b.cp
    <2>1. Len(q) >= 1
      BY <1>9, <1>10, <1>11
    <2>2. q # <<>>
      BY <1>10, <2>1, NonEmpty
    <2>3. CASE st = y
      <3>1. Len(q) = z /\ z \in 1..z
        BY <1>9, <1>10, <1>11, <2>3
      <3>2. q[Len(q)] = p[z]
        BY <1>10, <3>1
      <3>3. p[z].id = t.cp.id
        BY <1>2, <1>6, <1>7, <2>3
      <3> QED
        BY <1>3, <2>2, <3>2, <3>3
    <2>4. CASE st # y
      <3>1. Len(q) \in (z + 1)..(z + (y - st)) /\ st + (Len(q) - z) = y
        BY <1>9, <1>10, <1>11, <2>4
      <3>2. q[Len(q)] = h[y]
        BY <1>10, <3>1
      <3> QED
        BY <1>2, <1>3, <2>2, <3>2
    <2> QED
      BY <2>3, <2>4
  <1>16. Agrees(l, q, b)
    <2>1. AtEnd(b, l)
      BY <1>3 DEF AtEnd
    <2>2. \A i \in DOMAIN q : Consistent(l, q[i])
      BY <1>13, <1>14
    <2> QED
      BY <1>3, <1>10, <1>15, <2>1, <2>2, AgreesTaken
  \* The anchor's event is in the ledger of t, since its last pin is in the history.
  <1>17. Forward(a, b)
    <2>1. z \in 1..z
      BY <1>9
    <2>2. PICK w \in 1..st : h[w] = p[z]
      BY <1>9, <2>1 DEF Covers
    <2>3. w \in DOMAIN h
      BY <1>9, <1>11
    <2>4. a.seq \in DOMAIN l /\ l[a.seq].id = a.head
      BY <1>7, <1>14, <2>2, <2>3 DEF Consistent
    <2>5. a.seq <= Len(l) /\ a.seq \in Nat /\ Len(l) \in Nat
      BY <1>3, <2>4 DEF Sequence
    <2> QED
      BY <1>3, <2>4, <2>5 DEF Forward
  <1>18. /\ ledger'[m] = l /\ pins'[m] = q /\ anchor'[m] = b
         /\ \A n \in Machines : n # m =>
              ledger'[n] = ledger[n] /\ pins'[n] = pins[n] /\ anchor'[n] = anchor[n]
    <2>1. pins' = [pins EXCEPT ![m] = q]
      BY <1>1, <1>6 DEF q
    <2> QED
      BY <1>1, <2>1, AssignedAt
  <1> QED
    BY <1>12, <1>16, <1>17, <1>18 DEF Kept, a
\* An anchor that moves to the checkpoint c, which is then the last pin.
AdvancesTo(l, p, a, q, b, c) ==
    /\ l \in Seq(Event) /\ p \in Seq(Checkpoint) /\ q \in Seq(Checkpoint) /\ q # <<>>
    /\ a \in Anchor /\ b \in Anchor /\ a # None /\ b # None /\ c \in Checkpoint
    /\ b.genesis = a.genesis /\ b.seq = c.seq /\ b.head = c.ev /\ b.cp = c.id
    /\ c.seq >= a.seq /\ (c.seq = a.seq => c.ev = a.head)
    /\ q[Len(q)] = c
    /\ \A i \in DOMAIN q : q[i] = c \/ \E j \in DOMAIN p : q[i] = p[j]

LEMMA AgreesAdvanced ==
    ASSUME NEW l, NEW p, NEW a, NEW q, NEW b, NEW c,
           Agrees(l, p, a), AdvancesTo(l, p, a, q, b, c)
    PROVE  Agrees(l, q, b) /\ Forward(a, b)
  <1> USE DEF AdvancesTo
  <1>1. a.seq \in Nat /\ c.seq \in Nat \ {0}
    BY DEF Anchor, Checkpoint, Sequence
  <1>2. l # <<>> => /\ Len(l) \in Nat /\ DOMAIN l = 1..Len(l) /\ Len(l) <= a.seq
                    /\ (a.seq \in DOMAIN l => l[a.seq].id = a.head)
    BY NonEmpty DEF Agrees, Sequence
  \* A ledger that reaches c ends at the anchor.
  <1>3. ASSUME l # <<>>, c.seq \in DOMAIN l
        PROVE  l[c.seq].id = c.ev
    <2>1. c.seq = a.seq
      BY <1>1, <1>2, <1>3
    <2> QED
      BY <1>2, <1>3, <2>1
  <1>4. ASSUME NEW i \in DOMAIN q
        PROVE  /\ q[i].seq <= c.seq /\ (q[i].seq = c.seq => q[i].ev = c.ev)
               /\ l # <<>> => (q[i].seq \in DOMAIN l => Consistent(l, q[i]))
    <2>1. CASE q[i] = c
      BY <1>1, <1>3, <2>1 DEF Consistent
    <2>2. CASE \E j \in DOMAIN p : q[i] = p[j]
      <3>1. PICK j \in DOMAIN p : q[i] = p[j]
        BY <2>2
      <3>2. p[j] \in Checkpoint
        BY NonEmpty
      <3>3. p[j].seq \in Nat
        BY <3>2 DEF Checkpoint, Sequence
      <3>4. /\ p[j].seq <= a.seq /\ (p[j].seq = a.seq => p[j].ev = a.head)
            /\ l # <<>> => (p[j].seq \in DOMAIN l => Consistent(l, p[j]))
        BY DEF Agrees
      <3>5. p[j].seq <= c.seq /\ (p[j].seq = c.seq => p[j].ev = c.ev)
        BY <1>1, <3>3, <3>4
      <3> QED
        BY <3>1, <3>4, <3>5
    <2> QED
      BY <2>1, <2>2
  <1>5. Agrees(l, q, b)
    <2>1. /\ q # <<>> /\ q[Len(q)].id = b.cp
          /\ q[Len(q)].seq = b.seq /\ q[Len(q)].ev = b.head
          /\ b.seq = c.seq /\ b.head = c.ev /\ b.genesis = a.genesis
      OBVIOUS
    <2>2. l # <<>> => l[1].id = b.genesis
      BY DEF Agrees
    <2>3. l # <<>> => Len(l) <= b.seq
      BY <1>1, <1>2, <2>1
    <2>4. l # <<>> => (b.seq \in DOMAIN l => l[b.seq].id = b.head)
      BY <1>3, <2>1
    <2> QED
      BY <1>4, <2>1, <2>2, <2>3, <2>4 DEF Agrees
  <1>6. Forward(a, b)
    BY DEF Forward
  <1> QED
    BY <1>5, <1>6

LEMMA KeptFinalize ==
    ASSUME TypeInv, PinInv, NEW m \in Machines, NEW i \in DOMAIN tickets[m],
           FinalizeAnchorAdvance(m, i)
    PROVE  Kept(m)
  <1> DEFINE k == tickets[m][i]
             c == k.cp
             a == anchor[m]
             b == Advanced(a, c)
             p == pins[m]
             l == ledger[m]
             n == Append(p, c)
  <1>1. /\ c \in Checkpoint /\ a = k.prior /\ a \in Anchor /\ a # None
        /\ anchor' = [anchor EXCEPT ![m] = b]
        /\ b \in Anchor /\ b # None /\ b.genesis = a.genesis /\ b.seq = c.seq /\ b.head = c.ev
        /\ b.cp = c.id
        /\ \/ pins' = pins /\ \E j \in DOMAIN p : p[j].id = c.id
           \/ (\A j \in DOMAIN p : p[j].id # c.id) /\ pins' = [pins EXCEPT ![m] = n]
        /\ n \in Seq(Checkpoint)
        /\ UNCHANGED <<ledger, made, files>>
    BY FinalizeIs
  <1>2. GoodTicket(k)
    BY DEF PinInv, TicketsOK
  <1>3. l \in Seq(Event) /\ p \in Seq(Checkpoint)
    BY SeqsAndAnchors
  <1>4. Agrees(l, p, a)
    BY DEF PinInv, AgreeOK
  <1>5. /\ p \in Histories /\ HistInv(Histories, made) /\ Later(made, made')
    BY <1>1, PinsAreHistories, MadeLater DEF PinInv, HistOK
  <1> HIDE DEF k, c, a, b, p, l, n
  <1>6. PICK t \in Carried("transport") :
          /\ ClosedHistory(t.history) /\ t.history[Len(t.history)] = c
          /\ \E w \in DOMAIN t.history : t.history[w].id = a.cp
    BY <1>1, <1>2 DEF GoodTicket, c
  <1> DEFINE h == t.history
             y == Len(h)
             z == Len(p)
  <1>7. h \in Histories
    BY DEF Histories, WithHistory, Carried
  <1>8. p # <<>> /\ p[z].id = a.cp
    BY <1>1, <1>4 DEF Agrees
  <1>9. h \in Seq(Checkpoint)
    BY <1>5, <1>7 DEF HistInv
  <1>10. y \in Nat /\ DOMAIN h = 1..y
    BY <1>9, LenProperties
  <1>11. PICK w \in 1..Len(h) : h[w].id = p[Len(p)].id
    BY <1>6, <1>8, <1>10
  <1>12. /\ Covers(h, w, p, z) /\ z \in Nat \ {0} /\ DOMAIN p = 1..z
    BY <1>5, <1>6, <1>7, <1>8, <1>11, LastCovered
  <1>13. c.seq >= a.seq /\ (c.seq = a.seq => c.ev = a.head)
    BY <1>1, <1>2 DEF GoodTicket, c
  <1>14. w \in 1..y /\ h[y] = c /\ ClosedHistory(h)
    BY <1>6
  <1> HIDE DEF h, y, z
  <1>15. ASSUME NEW q, pins' = [pins EXCEPT ![m] = q] \/ (pins' = pins /\ q = pins[m])
         PROVE  /\ ledger'[m] = l /\ pins'[m] = q /\ anchor'[m] = b
                /\ \A o \in Machines : o # m =>
                     ledger'[o] = ledger[o] /\ pins'[o] = pins[o] /\ anchor'[o] = anchor[o]
    <2>1. ledger' = ledger /\ anchor' = [anchor EXCEPT ![m] = b]
      BY <1>1
    <2>2. /\ ledger \in [Machines -> Seq(Event)] /\ pins \in [Machines -> Seq(Checkpoint)]
          /\ anchor \in [Machines -> Anchor \cup {None}]
      BY DEF TypeInv, Rows
    <2>3. /\ ledger'[m] = l /\ anchor'[m] = b
          /\ \A o \in Machines : o # m => ledger'[o] = ledger[o] /\ anchor'[o] = anchor[o]
      BY <2>1, <2>2 DEF l
    <2>4. pins'[m] = q /\ \A o \in Machines : o # m => pins'[o] = pins[o]
      BY <1>15, <2>2
    <2> QED
      BY <2>3, <2>4
  <1>16. CASE pins' = pins /\ \E j \in DOMAIN p : p[j].id = c.id
    <2>1. PICK j \in 1..z : p[j].id = c.id
      BY <1>12, <1>16
    <2>2. PICK v \in 1..w : h[v] = p[j]
      BY <1>12, <2>1 DEF Covers
    <2>3. v \in DOMAIN h /\ y \in DOMAIN h /\ w \in DOMAIN h
      BY <1>10, <1>14
    <2>4. OneEach(h)
      BY <1>5, <1>7 DEF HistInv
    <2>5. v = y
      BY <1>14, <2>1, <2>2, <2>3, <2>4 DEF OneEach
    <2>6. w = y
      BY <1>10, <1>14, <2>2, <2>5
    <2>7. z \in 1..z
      BY <1>12
    <2>8. PICK u \in 1..w : h[u] = p[z]
      BY <1>12, <2>7 DEF Covers
    <2>9. u \in DOMAIN h /\ h[u].id = h[w].id
      BY <1>10, <1>11, <1>14, <2>8 DEF z, h
    <2>10. u = w
      BY <2>3, <2>4, <2>9 DEF OneEach
    <2>11. p[z] = c
      BY <1>14, <2>6, <2>8, <2>10
    <2>12. AdvancesTo(l, p, a, p, b, c)
      BY <1>1, <1>3, <1>8, <1>13, <2>11 DEF AdvancesTo, z
    <2>13. Agrees(l, p, b) /\ Forward(a, b)
      BY <1>4, <2>12, AgreesAdvanced
    <2>14. HistInv(Histories', made')
      <3>1. Histories' = Histories
        BY <1>1, <1>16 DEF Histories, WithHistory
      <3> QED
        BY <1>1, <1>5, <3>1
    <2> QED
      BY <1>15, <1>16, <2>13, <2>14 DEF Kept, a, p
  <1>17. CASE (\A j \in DOMAIN p : p[j].id # c.id) /\ pins' = [pins EXCEPT ![m] = n]
    <2>1. HistInv(Histories \cup {n}, made')
      BY <1>5, <1>7, <1>8, <1>11, <1>14, <1>17, LastAfterHistory DEF n, y
    <2>2. Histories' \subseteq Histories \cup {n}
      BY <1>1, <1>17, HistoriesGrow
    <2>3. HistInv(Histories', made')
      <3>1. Later(made', made')
        BY <1>5 DEF Later
      <3> QED
        BY <2>1, <2>2, <3>1, FewerHistories
    <2>4. /\ Len(n) = z + 1 /\ DOMAIN n = 1..(z + 1) /\ n # <<>>
          /\ \A j \in 1..z : n[j] = p[j]
          /\ n[z + 1] = c
      BY <1>1, <1>3, AppendIs DEF n, z
    <2>5. ASSUME NEW j \in DOMAIN n
          PROVE  n[j] = c \/ \E o \in DOMAIN p : n[j] = p[o]
      <3>1. j \in 1..z \/ j = z + 1
        BY <1>12, <2>4
      <3> QED
        BY <1>12, <2>4, <3>1
    <2>6. AdvancesTo(l, p, a, n, b, c)
      BY <1>1, <1>3, <1>13, <2>4, <2>5 DEF AdvancesTo
    <2>7. Agrees(l, n, b) /\ Forward(a, b)
      BY <1>4, <2>6, AgreesAdvanced
    <2> QED
      BY <1>15, <1>17, <2>3, <2>7 DEF Kept, a
  <1> QED
    BY <1>1, <1>16, <1>17
LEMMA KeptEffect ==
    ASSUME TypeInv, PinInv, NEW m \in Machines, Effect(m)
    PROVE  Kept(m)
  <1>1. CASE ExportAuthorityTransport(m)
    <2>1. \A f \in files' : f \in files \/ f.history = pins[m]
      BY <1>1 DEF ExportAuthorityTransport, Transport
    <2> QED
      BY <1>1, <2>1, KeptQuiet DEF ExportAuthorityTransport
  <1>2. CASE AbandonInterruptedRecovery(m) \/ Reconcile(m)
    BY <1>2, KeptQuiet DEF AbandonInterruptedRecovery, Reconcile
  <1>3. CASE CreatePairingRequest(m)
    <2>1. \A f \in files' : f \in files \/ f.kind = "request"
      BY <1>3 DEF CreatePairingRequest, Request
    <2>2. UNCHANGED <<ledger, pins, anchor>> /\ Make(m)
      BY <1>3 DEF CreatePairingRequest
    <2> QED
      BY <2>1, <2>2, KeptQuiet
  <1>4. CASE \E t \in Carried("transport") : PrepareCheckpointAdvance(m, t)
    BY <1>4, KeptQuiet DEF PrepareCheckpointAdvance
  <1>5. CASE \E e, rec : Began(m, e, rec)
    BY <1>5, KeptBegan
  <1>6. CASE \E l, h : Published(m, l, h)
    BY <1>6, KeptPublished
  <1>7. CASE \E e, rec : Grew(m, e, rec)
    BY <1>7, KeptGrew
  <1>8. CASE Checkpointed(m)
    BY <1>8, KeptCheckpointed
  <1>9. CASE \E b \in Carried("bundle") : BootstrapRecoveryTrust(m, b)
    BY <1>9, KeptBootstrap
  <1>10. CASE \E t, l, k : Joined(m, t, l, k)
    BY <1>10, KeptJoined
  <1>11. CASE \E i \in DOMAIN tickets[m] : FinalizeAnchorAdvance(m, i)
    BY <1>11, KeptFinalize
  <1> QED
    BY <1>1, <1>2, <1>3, <1>4, <1>5, <1>6, <1>7, <1>8, <1>9, <1>10, <1>11 DEF Effect

\* A file that is there stays.
LEMMA FilesStay ==
    ASSUME NEW m \in Machines, Effect(m)
    PROVE  files \subseteq files'
  BY DEF Effect, Began, Published, Grew, Checkpointed, ExportAuthorityTransport,
         AbandonInterruptedRecovery, Reconcile, CreatePairingRequest, BootstrapRecoveryTrust,
         Joined, PrepareCheckpointAdvance, FinalizeAnchorAdvance

LEMMA TicketStaysGood ==
    ASSUME NEW k, GoodTicket(k), files \subseteq files'
    PROVE  GoodTicket(k)'
  BY DEF GoodTicket, Carried

\* What a prepared ticket rests on.
LEMMA PreparedIsGood ==
    ASSUME TypeInv, PinInv, NEW m \in Machines, NEW t \in Carried("transport"),
           PrepareCheckpointAdvance(m, t)
    PROVE  GoodTicket([cp |-> t.cp, prior |-> anchor[m]])
  <1> DEFINE h == t.history
             a == anchor[m]
             k == [cp |-> t.cp, prior |-> a]
  <1>1. VerifiedTransport(t) /\ ExtendsPin(m, t.ledger) /\ Follows(m, t.ledger, h)
        /\ t.cp.seq >= a.seq
    BY DEF PrepareCheckpointAdvance
  <1>2. /\ ClosedHistory(h) /\ t.cp = h[Len(h)] /\ Len(h) \in DOMAIN h
        /\ \A i \in DOMAIN h : Consistent(t.ledger, h[i])
    BY <1>1, TransportRead
  <1>3. k.cp = t.cp /\ k.prior = a
    OBVIOUS
  <1>4. t.cp.seq = a.seq => t.cp.ev = a.head
    BY <1>1, <1>2 DEF ExtendsPin, Consistent
  <1>5. \E i \in DOMAIN h : h[i].id = a.cp
    BY <1>1 DEF Follows
  <1> QED
    BY <1>1, <1>2, <1>3, <1>4, <1>5 DEF GoodTicket

\* A ticket after a step is one from before, or one that was prepared.
LEMMA TicketsStayGood ==
    ASSUME TypeInv, PinInv, NEW m \in Machines, Effect(m)
    PROVE  TicketsOK'
  <1>1. files \subseteq files'
    BY FilesStay
  <1>2. \A n \in Machines : \A i \in DOMAIN tickets[n] : GoodTicket(tickets[n][i])
    BY DEF PinInv, TicketsOK
  <1>3. DOMAIN tickets = Machines /\ \A n \in Machines : tickets[n] \in Seq(Ticket)
    BY DEF TypeInv, HeldOK
  <1>4. \A n \in Machines : \A i \in DOMAIN tickets'[n] : GoodTicket(tickets'[n][i])
    <2>1. CASE UNCHANGED tickets
      BY <1>2, <2>1
    <2>2. CASE \E t \in Carried("transport") : PrepareCheckpointAdvance(m, t)
      <3>1. PICK t \in Carried("transport") : PrepareCheckpointAdvance(m, t)
        BY <2>2
      <3> DEFINE k == [cp |-> t.cp, prior |-> anchor[m]]
      <3>2. GoodTicket(k) /\ k \in Ticket
        BY <3>1, PreparedIsGood, TypedPrepare
      <3>3. tickets' = [tickets EXCEPT ![m] = Append(tickets[m], k)]
        BY <1>3, <3>1 DEF PrepareCheckpointAdvance
      <3> HIDE DEF k
      <3> DEFINE q == Append(tickets[m], k)
      <3>4. /\ DOMAIN q = 1..(Len(tickets[m]) + 1) /\ Len(tickets[m]) \in Nat
            /\ DOMAIN tickets[m] = 1..Len(tickets[m])
            /\ \A i \in 1..Len(tickets[m]) : q[i] = tickets[m][i]
            /\ q[Len(tickets[m]) + 1] = k
        BY <1>3, <3>2, AppendIs
      <3> HIDE DEF q
      <3>5. ASSUME NEW i \in DOMAIN q
            PROVE  GoodTicket(q[i])
        <4>1. i \in DOMAIN tickets[m] \/ i = Len(tickets[m]) + 1
          BY <3>4
        <4> QED
          BY <1>2, <3>2, <3>4, <4>1
      <3>6. tickets'[m] = q /\ \A n \in Machines : n # m => tickets'[n] = tickets[n]
        BY <1>3, <3>3 DEF q
      <3> QED
        BY <1>2, <3>5, <3>6
    <2>3. CASE \E i \in DOMAIN tickets[m] : FinalizeAnchorAdvance(m, i)
      <3>1. PICK i \in DOMAIN tickets[m] : FinalizeAnchorAdvance(m, i)
        BY <2>3
      <3> DEFINE q == RemoveAt(tickets[m], i)
      <3>2. tickets' = [tickets EXCEPT ![m] = q]
        BY <3>1, FinalizeIs
      <3>3. \A k \in DOMAIN q : \E n \in DOMAIN tickets[m] : q[k] = tickets[m][n]
        BY <1>3, RemoveAtIs
      <3> HIDE DEF q
      <3>4. tickets'[m] = q /\ \A n \in Machines : n # m => tickets'[n] = tickets[n]
        BY <1>3, <3>2
      <3>5. \A k \in DOMAIN q : GoodTicket(q[k])
        BY <1>2, <3>3
      <3> QED
        BY <1>2, <3>4, <3>5
    <2> QED
      BY <2>1, <2>2, <2>3 DEF Effect, Began, Published, Grew, Checkpointed,
         ExportAuthorityTransport, AbandonInterruptedRecovery, Reconcile, CreatePairingRequest,
         BootstrapRecoveryTrust, Joined
  <1>5. ASSUME NEW n \in Machines, NEW i \in DOMAIN tickets'[n]
        PROVE  GoodTicket(tickets[n][i])'
    BY <1>1, <1>4 DEF GoodTicket, Carried
  <1> QED
    BY <1>5 DEF TicketsOK

LEMMA PinInit == Init => PinInv
  <1> SUFFICES ASSUME Init
               PROVE  PinInv
    OBVIOUS
  <1>1. Histories = {<<>>}
    BY DEF Init, Histories, WithHistory
  <1>2. HistOK
    <2>1. <<>> \in Seq(Checkpoint) /\ DOMAIN <<>> = {}
      OBVIOUS
    <2>2. ~ClosedHistory(<<>>)
      BY DEF ClosedHistory
    <2> QED
      BY <1>1, <2>1, <2>2 DEF HistOK, HistInv, Drawn, OneEach, Through
  <1>3. AgreeOK
    BY DEF Init, AgreeOK, Agrees
  <1>4. TicketsOK
    BY DEF Init, TicketsOK
  <1> QED
    BY <1>2, <1>3, <1>4 DEF PinInv

LEMMA PinNext == TypeInv /\ PinInv /\ [Next]_vars => PinInv'
  <1> SUFFICES ASSUME TypeInv, PinInv, [Next]_vars
               PROVE  PinInv'
    OBVIOUS
  <1>1. CASE UNCHANGED vars
    BY <1>1 DEF vars, PinInv, HistOK, AgreeOK, TicketsOK, Histories, WithHistory, GoodTicket,
       Carried
  <1>2. CASE Next
    <2>1. PICK m \in Machines : Effect(m)
      BY <1>2, Effects DEF Next
    <2>2. Kept(m) /\ TicketsOK'
      BY <2>1, KeptEffect, TicketsStayGood
    <2>3. HistOK'
      BY <2>2 DEF Kept, HistOK
    <2>4. AgreeOK'
      BY <2>2 DEF Kept, PinInv, AgreeOK
    <2> QED
      BY <2>2, <2>3, <2>4 DEF PinInv
  <1> QED
    BY <1>1, <1>2

\* Whatever a machine has pinned, its own ledger agrees with: for any number of
\* machines, of ceremonies and of carried files, advance_anchor_to_local_head,
\* pin_local_checkpoint, finalize_pairing, restore_recovery_bundle and
\* finalize_anchor_advance between them never let a ledger hold another event at a
\* sequence that a pinned checkpoint names.
THEOREM PinsKept == Spec => []LedgerKeepsPins
  <1>1. TypeInv /\ PinInv => LedgerKeepsPins
    BY DEF PinInv, AgreeOK, Agrees, LedgerKeepsPins
  <1> QED
    BY Typed, PinInit, PinNext, <1>1, PTL DEF Spec

\* A trust anchor is never taken away, moved to another genesis, moved back or changed
\* to another event of its sequence, whichever ceremonies and prepared transfers
\* (verify_authority_transfer, finalize_anchor_advance) interleave.
THEOREM AnchorsForward == Spec => AnchorMovesForward
  <1> DEFINE Moves == \A m \in Machines : anchor[m] # None =>
                        /\ anchor'[m] # None
                        /\ anchor'[m].genesis = anchor[m].genesis
                        /\ anchor'[m].seq >= anchor[m].seq
                        /\ anchor'[m].seq = anchor[m].seq => anchor'[m].head = anchor[m].head
  <1>1. TypeInv /\ PinInv /\ [Next]_vars => [Moves]_vars
    <2> SUFFICES ASSUME TypeInv, PinInv, Next
                 PROVE  Moves
      OBVIOUS
    <2>1. PICK m \in Machines : Effect(m)
      BY Effects DEF Next
    <2>2. Kept(m)
      BY <2>1, KeptEffect
    <2>3. ASSUME NEW n \in Machines, anchor[n] # None
          PROVE  Forward(anchor[n], anchor'[n])
      <3>1. CASE n = m
        BY <2>2, <3>1 DEF Kept
      <3>2. CASE n # m
        <4>1. anchor'[n] = anchor[n] /\ anchor[n].seq \in Sequence
          BY <2>2, <2>3, <3>2, SeqsAndAnchors DEF Kept
        <4> QED
          BY <4>1 DEF Forward, Sequence
      <3> QED
        BY <3>1, <3>2
    <2> QED
      BY <2>3 DEF Forward
  <1> QED
    BY Typed, PinInit, PinNext, <1>1, PTL DEF Spec, AnchorMovesForward

=============================================================================
