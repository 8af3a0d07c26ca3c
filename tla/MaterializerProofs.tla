------------------------- MODULE MaterializerProofs -------------------------
(***************************************************************************)
(* Proofs about the node-local materializer.  The invariant is stated with *)
(* predicates of a disk d, a call o and whatever else they speak of, so    *)
(* that the lemmas about them need no primes.                              *)
(***************************************************************************)
EXTENDS Materializer, SequenceTheorems, TLAPS

USE MaterializerAssumption, NoneAssumption

-------------------------------------------------------------------------------
(* The types *)

PCs == {"idle", "enter", "baseline", "step", "yaml", "recordyaml", "called",
        "inspect", "giveup", "lkg", "clean", "publish"}
Mirror == [1 .. 2 -> Receipt \cup {None}]
Disk == [journal : Mirror, lkg : Mirror, baseline : Baseline \cup {None},
         sealed : RuntimeReceipt \cup {None}, yaml : Config]
MirrorWrite == [file : {"journal", "lkg"}, side : 1 .. 2, value : Receipt]
BaselineWrite == [file : {"baseline"}, side : {0}, value : Baseline \cup {None}]
SealedWrite == [file : {"sealed"}, side : {0}, value : RuntimeReceipt]
YAMLWrite == [file : {"yaml"}, side : {0}, value : Config]
FileWrite == MirrorWrite \cup BaselineWrite \cup SealedWrite \cup YAMLWrite
Op == [pc : PCs, id : Id \cup {None}, phase : Phase, writes : Seq(FileWrite)]

-------------------------------------------------------------------------------
(* Identities *)

\* The fields of an identity.
LEMMA IdFields ==
  ASSUME NEW a \in Id
  PROVE  /\ a.epoch \in 1 .. MaxEpoch /\ a.revision \in 1 .. MaxRevision
         /\ a.policy \in Policy /\ a.epoch \in Nat /\ a.revision \in Nat /\ a # None
BY DEF Id

\* The order of identities is transitive.
LEMMA NewerTransitive ==
  ASSUME NEW a \in Id, NEW b \in Id, NEW c \in Id, Newer(a, b), Newer(b, c)
  PROVE  Newer(a, c)
BY IdFields DEF Newer

\* The order of identities is strict.
LEMMA NewerStrict ==
  ASSUME NEW a \in Id, NEW b \in Id, Newer(a, b)
  PROVE  ~Newer(b, a) /\ ~SamePlace(a, b) /\ ~SamePlace(b, a) /\ a # b
BY IdFields DEF Newer, SamePlace

\* Two identities are in the same place or ordered.
LEMMA NewerTotal ==
  ASSUME NEW a \in Id, NEW b \in Id, ~Newer(a, b), ~SamePlace(a, b)
  PROVE  Newer(b, a)
BY IdFields DEF Newer, SamePlace

-------------------------------------------------------------------------------
(* Pending writes *)

Pending(s) == {s[i] : i \in DOMAIN s}

\* What is pending is the head or pending in the tail.
LEMMA PendingHead ==
  ASSUME NEW s \in Seq(FileWrite), s # <<>>
  PROVE  /\ Head(s) \in Pending(s) /\ Head(s) \in FileWrite /\ Tail(s) \in Seq(FileWrite)
         /\ \A u \in Pending(s) : u = Head(s) \/ u \in Pending(Tail(s))
         /\ \A u \in Pending(Tail(s)) : u \in Pending(s)
<1>1. Len(s) \in Nat /\ Len(s) >= 1 /\ DOMAIN s = 1 .. Len(s) /\ Head(s) = s[1]
  OBVIOUS
<1>2. /\ Tail(s) \in Seq(FileWrite) /\ DOMAIN Tail(s) = 1 .. Len(s) - 1
      /\ \A i \in 1 .. Len(s) - 1 : Tail(s)[i] = s[i + 1]
  OBVIOUS
<1>3. Head(s) \in Pending(s) /\ Head(s) \in FileWrite
  BY <1>1 DEF Pending
<1>4. ASSUME NEW u \in Pending(s) PROVE u = Head(s) \/ u \in Pending(Tail(s))
  <2>1. PICK i \in DOMAIN s : u = s[i]
    BY <1>4 DEF Pending
  <2>2. CASE i = 1
    BY <2>1, <2>2, <1>1
  <2>3. CASE i # 1
    <3>1. i - 1 \in 1 .. Len(s) - 1 /\ (i - 1) + 1 = i
      BY <2>3, <1>1
    <3>2. Tail(s)[i - 1] = u
      BY <3>1, <1>2, <2>1
    <3> QED
      BY <3>1, <3>2, <1>2 DEF Pending
  <2> QED
    BY <2>2, <2>3
<1>5. ASSUME NEW u \in Pending(Tail(s)) PROVE u \in Pending(s)
  <2>1. PICK i \in DOMAIN Tail(s) : u = Tail(s)[i]
    BY <1>5 DEF Pending
  <2>2. i + 1 \in DOMAIN s /\ s[i + 1] = u
    BY <2>1, <1>1, <1>2
  <2> QED
    BY <2>2 DEF Pending
<1> QED
  BY <1>2, <1>3, <1>4, <1>5

\* Nothing is pending in the empty sequence, and one write in a singleton.
LEMMA PendingOne ==
  ASSUME NEW u \in FileWrite
  PROVE  /\ Pending(<<>>) = {} /\ <<>> \in Seq(FileWrite)
         /\ <<u>> \in Seq(FileWrite) /\ Pending(<<u>>) = {u} /\ Head(<<u>>) = u /\ <<u>> # <<>>
BY DEF Pending

\* What is pending in a concatenation.
LEMMA PendingConcat ==
  ASSUME NEW s \in Seq(FileWrite), NEW t \in Seq(FileWrite)
  PROVE  s \o t \in Seq(FileWrite) /\ Pending(s \o t) = Pending(s) \cup Pending(t)
<1>1. /\ s \o t \in Seq(FileWrite) /\ Len(s) \in Nat /\ Len(t) \in Nat
      /\ Len(s \o t) = Len(s) + Len(t)
      /\ DOMAIN s = 1 .. Len(s) /\ DOMAIN t = 1 .. Len(t)
      /\ DOMAIN (s \o t) = 1 .. Len(s) + Len(t)
      /\ \A i \in 1 .. Len(s) + Len(t) :
           (s \o t)[i] = IF i <= Len(s) THEN s[i] ELSE t[i - Len(s)]
  OBVIOUS
<1>2. ASSUME NEW u \in Pending(s \o t) PROVE u \in Pending(s) \cup Pending(t)
  <2>1. PICK i \in 1 .. Len(s) + Len(t) : u = (s \o t)[i]
    BY <1>1, <1>2 DEF Pending
  <2>2. CASE i <= Len(s)
    BY <1>1, <2>1, <2>2 DEF Pending
  <2>3. CASE ~(i <= Len(s))
    <3>1. i - Len(s) \in DOMAIN t /\ u = t[i - Len(s)]
      BY <1>1, <2>1, <2>3
    <3> QED
      BY <3>1 DEF Pending
  <2> QED
    BY <2>2, <2>3
<1>3. ASSUME NEW u \in Pending(s) PROVE u \in Pending(s \o t)
  <2>1. PICK i \in DOMAIN s : u = s[i]
    BY <1>3 DEF Pending
  <2>2. i \in DOMAIN (s \o t) /\ (s \o t)[i] = u
    BY <1>1, <2>1
  <2> QED
    BY <2>2 DEF Pending
<1>4. ASSUME NEW u \in Pending(t) PROVE u \in Pending(s \o t)
  <2>1. PICK i \in DOMAIN t : u = t[i]
    BY <1>4 DEF Pending
  <2>2. Len(s) + i \in DOMAIN (s \o t) /\ (s \o t)[Len(s) + i] = u
    BY <1>1, <2>1
  <2> QED
    BY <2>2 DEF Pending
<1> QED
  BY <1>1, <1>2, <1>3, <1>4

\* A save of a mirrored file writes the receipt to each side that lacks it.
LEMMA SaveWritesFacts ==
  ASSUME NEW file \in {"journal", "lkg"}, NEW m \in Mirror, NEW r \in Receipt
  PROVE  LET s == SaveWrites(file, m, r)
         IN /\ s \in Seq(FileWrite)
            /\ \A u \in Pending(s) : u.file = file /\ u.value = r /\ u.side \in 1 .. 2
            /\ \A x \in 1 .. 2 : m[x] = r \/ \E u \in Pending(s) : u.file = file /\ u.side = x
<1> DEFINE a == IF m[1] = r THEN <<>> ELSE <<Write(file, 1, r)>>
           b == IF m[2] = r THEN <<>> ELSE <<Write(file, 2, r)>>
<1>1. Write(file, 1, r) \in FileWrite /\ Write(file, 2, r) \in FileWrite
  BY DEF Write, FileWrite, MirrorWrite
<1>2. /\ a \in Seq(FileWrite) /\ b \in Seq(FileWrite)
      /\ Pending(a) = IF m[1] = r THEN {} ELSE {Write(file, 1, r)}
      /\ Pending(b) = IF m[2] = r THEN {} ELSE {Write(file, 2, r)}
  BY <1>1, PendingOne
<1>3. SaveWrites(file, m, r) = a \o b
  BY DEF SaveWrites
<1> HIDE DEF a, b
<1>4. /\ SaveWrites(file, m, r) \in Seq(FileWrite)
      /\ Pending(SaveWrites(file, m, r)) = Pending(a) \cup Pending(b)
  BY <1>2, <1>3, PendingConcat
<1>5. \A x \in 1 .. 2 : /\ Write(file, x, r).file = file /\ Write(file, x, r).value = r
                        /\ Write(file, x, r).side = x
  BY DEF Write
<1>6. \A x \in 1 .. 2 : x = 1 \/ x = 2
  OBVIOUS
<1> QED
  BY <1>2, <1>4, <1>5, <1>6

-------------------------------------------------------------------------------
(* Writes of the disk *)

\* A write of a mirrored file replaces one side.
LEMMA WrittenMirror ==
  ASSUME NEW d \in Disk, NEW u \in FileWrite, u.file \in {"journal", "lkg"}
  PROVE  LET e == Written(d, u)
         IN /\ e \in Disk /\ u \in MirrorWrite /\ u.value \in Receipt /\ u.side \in 1 .. 2
            /\ e.baseline = d.baseline /\ e.sealed = d.sealed /\ e.yaml = d.yaml
            /\ u.file = "journal" => /\ e.lkg = d.lkg
                                     /\ e.journal = [d.journal EXCEPT ![u.side] = u.value]
            /\ u.file = "lkg" => /\ e.journal = d.journal
                                 /\ e.lkg = [d.lkg EXCEPT ![u.side] = u.value]
<1>1. u \in MirrorWrite /\ u.value \in Receipt /\ u.side \in 1 .. 2
  BY DEF FileWrite, MirrorWrite, BaselineWrite, SealedWrite, YAMLWrite
<1>2. CASE u.file = "journal"
  <2>1. Written(d, u) = [d EXCEPT !["journal"] = [d.journal EXCEPT ![u.side] = u.value]]
    BY <1>2 DEF Written, Disk
  <2>2. [d.journal EXCEPT ![u.side] = u.value] \in Mirror
    BY <1>1 DEF Disk, Mirror
  <2> QED
    BY <1>1, <1>2, <2>1, <2>2 DEF Disk
<1>3. CASE u.file = "lkg"
  <2>1. Written(d, u) = [d EXCEPT !["lkg"] = [d.lkg EXCEPT ![u.side] = u.value]]
    BY <1>3 DEF Written, Disk
  <2>2. [d.lkg EXCEPT ![u.side] = u.value] \in Mirror
    BY <1>1 DEF Disk, Mirror
  <2> QED
    BY <1>1, <1>3, <2>1, <2>2 DEF Disk
<1> QED
  BY <1>2, <1>3

\* A write of another file replaces it.
LEMMA WrittenWhole ==
  ASSUME NEW d \in Disk, NEW u \in FileWrite, u.file \notin {"journal", "lkg"}
  PROVE  LET e == Written(d, u)
         IN /\ e \in Disk /\ e.journal = d.journal /\ e.lkg = d.lkg
            /\ u.file \in {"baseline", "sealed", "yaml"}
            /\ e.baseline = (IF u.file = "baseline" THEN u.value ELSE d.baseline)
            /\ e.sealed = (IF u.file = "sealed" THEN u.value ELSE d.sealed)
            /\ e.yaml = (IF u.file = "yaml" THEN u.value ELSE d.yaml)
            /\ u.file = "sealed" => u.value \in RuntimeReceipt
            /\ u.file = "baseline" => u.value \in Baseline \cup {None}
<1>1. u \in BaselineWrite \cup SealedWrite \cup YAMLWrite
  BY DEF FileWrite, MirrorWrite
<1>2. CASE u \in BaselineWrite
  <2>1. u.file = "baseline" /\ u.value \in Baseline \cup {None}
    BY <1>2 DEF BaselineWrite
  <2>2. Written(d, u) = [d EXCEPT !["baseline"] = u.value]
    BY <2>1 DEF Written
  <2> QED
    BY <2>1, <2>2 DEF Disk
<1>3. CASE u \in SealedWrite
  <2>1. u.file = "sealed" /\ u.value \in RuntimeReceipt
    BY <1>3 DEF SealedWrite
  <2>2. Written(d, u) = [d EXCEPT !["sealed"] = u.value]
    BY <2>1 DEF Written
  <2> QED
    BY <2>1, <2>2 DEF Disk
<1>4. CASE u \in YAMLWrite
  <2>1. u.file = "yaml" /\ u.value \in Config
    BY <1>4 DEF YAMLWrite
  <2>2. Written(d, u) = [d EXCEPT !["yaml"] = u.value]
    BY <2>1 DEF Written
  <2> QED
    BY <2>1, <2>2 DEF Disk
<1> QED
  BY <1>1, <1>2, <1>3, <1>4

-------------------------------------------------------------------------------
(* The invariant of a call and its disk *)

ReceiptOf(o) == [id |-> o.id, phase |-> o.phase]
Past(o) == o.pc \notin {"idle", "enter"}
Pends(o, file, side) == \E u \in Pending(o.writes) : u.file = file /\ u.side = side

PhaseOf(pc, phase) ==
  /\ pc \in {"idle", "enter"} => phase = "prepared"
  /\ pc \in {"baseline", "step"} => phase # "applied"
  /\ pc \in {"yaml", "recordyaml"} => phase = "baseline_persisted"
  /\ pc \in {"called", "inspect"} => phase = "runtime_intent"
  /\ pc = "giveup" => phase = "compensation_pending"
  /\ pc \in {"lkg", "clean", "publish"} => phase = "applied"

Shape(o) ==
  /\ o.pc = "idle" => o = NoOp
  /\ o.pc # "idle" => o.id \in Id
  /\ PhaseOf(o.pc, o.phase)
  /\ o.writes # <<>> => o.pc \notin {"idle", "enter", "called", "inspect"}

Sealable(sealed, r) ==
  \/ sealed \in {None, r}
  \/ ~Newer(sealed.id, r.id) /\ ~SamePlace(sealed.id, r.id)

\* What a pending write may be: above all, a journal or LKG write is of the
\* receipt the call is at, and a runtime receipt is of the call's commit.
PendingOK(d, o) ==
  \A u \in Pending(o.writes) :
    /\ u.file = "journal" => u.value = ReceiptOf(o)
    /\ u.file = "lkg" => /\ o.pc = "clean" /\ u.value = ReceiptOf(o)
                         /\ \A v \in Pending(o.writes) : v.file = "lkg"
    /\ u.file = "baseline" =>
         \/ /\ o.pc = "step" /\ u.value # None /\ u.value.id = o.id
            /\ u.value.target.policy = o.id.policy
         \/ o.pc = "publish" /\ u.value = None
    /\ u.file = "sealed" => /\ o.pc = "step" /\ u.value.id = o.id
                            /\ u.value.target.policy = o.id.policy
                            /\ Sealable(d.sealed, u.value)
                            /\ \A v \in Pending(o.writes) :
                                 v.file = "sealed" => v.value = u.value

\* The mirrors of a file hold the call's receipt once its pending writes are done.
Has(file, m, o) ==
  /\ \A s \in 1 .. 2 : m[s] \in {None, ReceiptOf(o)} \/ Pends(o, file, s)
  /\ \E s \in 1 .. 2 : m[s] = ReceiptOf(o) \/ Pends(o, file, s)

Journalled(d, o) == Past(o) => Has("journal", d.journal, o)

BaselineHeld(d, o) ==
  /\ o.pc \in {"step", "yaml", "recordyaml", "called", "inspect", "giveup", "lkg"} =>
       (d.baseline # None /\ d.baseline.id = o.id) \/ Pends(o, "baseline", 0)
  /\ d.baseline # None => d.baseline.target.policy = d.baseline.id.policy

\* The runtime receipt backs a record that the commit was applied.
Evidence(sealed, id) ==
  /\ sealed # None
  /\ Newer(sealed.id, id) \/ (sealed.id = id /\ sealed.target.policy = id.policy)

SealPends(o) == o.writes # <<>> /\ Head(o.writes).file = "sealed"

Proven(d, o) ==
  /\ \A s \in 1 .. 2 : d.lkg[s] # None =>
       d.lkg[s].phase = "applied" /\ Evidence(d.sealed, d.lkg[s].id)
  /\ \A s \in 1 .. 2 :
       d.journal[s] # None /\ d.journal[s].phase \in {"runtime_applied", "applied"} =>
         Evidence(d.sealed, d.journal[s].id)
  /\ o.pc # "idle" /\ o.phase \in {"runtime_applied", "applied"} =>
       Evidence(d.sealed, o.id) \/ SealPends(o)

\* Neither the journal nor the call is behind the LKG.
Follows(d, o) ==
  /\ \A s, t \in 1 .. 2 : d.lkg[s] # None /\ d.journal[t] # None =>
       Newer(d.journal[t].id, d.lkg[s].id) \/ d.journal[t] = d.lkg[s]
  /\ \A s \in 1 .. 2 : Past(o) /\ d.lkg[s] # None =>
       Newer(o.id, d.lkg[s].id) \/ d.lkg[s] = ReceiptOf(o)

OpInv(d, o) ==
  /\ Shape(o) /\ PendingOK(d, o) /\ Journalled(d, o) /\ BaselineHeld(d, o)
  /\ Proven(d, o) /\ Follows(d, o)

\* A disk on which no call runs.
LEMMA EndOp ==
  ASSUME NEW d \in Disk, NEW o \in Op, OpInv(d, o)
  PROVE  OpInv(d, NoOp) /\ NoOp \in Op
<1>1. /\ NoOp.pc = "idle" /\ NoOp.id = None /\ NoOp.phase = "prepared" /\ NoOp.writes = <<>>
      /\ NoOp \in Op
  BY PendingOne DEF NoOp, Op, PCs, Phase
<1>2. Pending(NoOp.writes) = {}
  BY <1>1 DEF Pending
<1> QED
  BY <1>1, <1>2 DEF OpInv, Shape, PhaseOf, PendingOK, Journalled, BaselineHeld, Proven,
     Follows, Past

\* A call that begins.
LEMMA BeginOp ==
  ASSUME NEW d \in Disk, NEW o \in Op, OpInv(d, o), NEW id \in Id,
         NEW b, b = [pc |-> "enter", id |-> id, phase |-> "prepared", writes |-> <<>>]
  PROVE  OpInv(d, b) /\ b \in Op /\ b.pc = "enter" /\ b.id = id /\ b.writes = <<>>
<1>1. /\ b.pc = "enter" /\ b.id = id /\ b.phase = "prepared" /\ b.writes = <<>>
      /\ b \in Op
  BY PendingOne DEF Op, PCs, Phase
<1>2. Pending(b.writes) = {}
  BY <1>1 DEF Pending
<1> QED
  BY <1>1, <1>2 DEF OpInv, Shape, PhaseOf, PendingOK, Journalled, BaselineHeld, Proven,
     Follows, Past

\* A runtime receipt that replaces another one is evidence for no less.
LEMMA SealMoves ==
  ASSUME NEW s \in RuntimeReceipt \cup {None}, NEW r \in RuntimeReceipt, Sealable(s, r),
         NEW id \in Id, Evidence(s, id)
  PROVE  Evidence(r, id)
<1>1. CASE s = r
  BY <1>1
<1>2. CASE s # r
  <2>1. s # None /\ s \in RuntimeReceipt /\ s.id \in Id /\ r.id \in Id /\ r # None
    BY DEF Evidence, RuntimeReceipt
  <2>2. Newer(r.id, s.id)
    BY <1>2, <2>1, NewerTotal DEF Sealable
  <2>3. Newer(r.id, id)
    BY <2>1, <2>2, NewerTransitive DEF Evidence
  <2> QED
    BY <2>1, <2>3 DEF Evidence
<1> QED
  BY <1>1, <1>2

\* The fields of a disk.
LEMMA DiskFields ==
  ASSUME NEW d \in Disk
  PROVE  /\ d.journal \in Mirror /\ d.lkg \in Mirror
         /\ d.baseline \in Baseline \cup {None} /\ d.sealed \in RuntimeReceipt \cup {None}
         /\ d.yaml \in Config
         /\ \A s \in 1 .. 2 : /\ d.journal[s] \in Receipt \cup {None}
                              /\ d.lkg[s] \in Receipt \cup {None}
BY DEF Disk, Mirror

\* The fields of a receipt.
LEMMA ReceiptFields ==
  ASSUME NEW r \in Receipt
  PROVE  r.id \in Id /\ r.phase \in Phase /\ r # None /\ r = [id |-> r.id, phase |-> r.phase]
BY DEF Receipt

\* The fields of a call.
LEMMA OpFields ==
  ASSUME NEW o \in Op
  PROVE  /\ o.pc \in PCs /\ o.id \in Id \cup {None} /\ o.phase \in Phase
         /\ o.writes \in Seq(FileWrite)
         /\ o.id \in Id => ReceiptOf(o) \in Receipt /\ ReceiptOf(o) # None
         /\ ReceiptOf(o).id = o.id /\ ReceiptOf(o).phase = o.phase
BY DEF Op, ReceiptOf, Receipt

\* A new runtime receipt keeps what the old one backed.
LEMMA SealedDisk ==
  ASSUME NEW d \in Disk, NEW o \in Op, OpInv(d, o), NEW e \in Disk,
         e.journal = d.journal, e.lkg = d.lkg,
         e.sealed \in RuntimeReceipt, Sealable(d.sealed, e.sealed)
  PROVE  /\ \A s \in 1 .. 2 : e.lkg[s] # None =>
              e.lkg[s].phase = "applied" /\ Evidence(e.sealed, e.lkg[s].id)
         /\ \A s \in 1 .. 2 :
              e.journal[s] # None /\ e.journal[s].phase \in {"runtime_applied", "applied"} =>
                Evidence(e.sealed, e.journal[s].id)
         /\ \A id \in Id : Evidence(d.sealed, id) => Evidence(e.sealed, id)
<1>1. \A s \in 1 .. 2 : e.lkg[s] # None =>
        e.lkg[s].phase = "applied" /\ Evidence(e.sealed, e.lkg[s].id)
  BY DiskFields, ReceiptFields, SealMoves DEF OpInv, Proven
<1>2. \A s \in 1 .. 2 :
       e.journal[s] # None /\ e.journal[s].phase \in {"runtime_applied", "applied"} =>
         Evidence(e.sealed, e.journal[s].id)
  BY DiskFields, ReceiptFields, SealMoves DEF OpInv, Proven
<1>3. \A id \in Id : Evidence(d.sealed, id) => Evidence(e.sealed, id)
  BY DiskFields, SealMoves
<1> QED
  BY <1>1, <1>2, <1>3

\* What the first pending write does to the disk.
LEMMA WriteEffects ==
  ASSUME NEW d \in Disk, NEW o \in Op, OpInv(d, o), o.writes # <<>>,
         NEW h, h = Head(o.writes), NEW e, e = Written(d, Head(o.writes))
  PROVE  /\ e \in Disk
         /\ h.file = "journal" => /\ e.lkg = d.lkg /\ h.side \in 1 .. 2
                                  /\ e.journal = [d.journal EXCEPT ![h.side] = ReceiptOf(o)]
         /\ h.file = "lkg" => /\ e.journal = d.journal /\ h.side \in 1 .. 2 /\ o.pc = "clean"
                              /\ e.lkg = [d.lkg EXCEPT ![h.side] = ReceiptOf(o)]
         /\ h.file \notin {"journal", "lkg"} => e.journal = d.journal /\ e.lkg = d.lkg
         /\ h.file # "sealed" => e.sealed = d.sealed
         /\ h.file # "baseline" => e.baseline = d.baseline
         /\ h.file # "yaml" => e.yaml = d.yaml
         /\ h.file = "sealed" => e.sealed = h.value /\ h.value \in RuntimeReceipt
         /\ h.file = "baseline" => e.baseline = h.value
         /\ h.file = "yaml" => e.yaml = h.value
<1>1. h \in Pending(o.writes) /\ h \in FileWrite
  BY PendingHead, OpFields
<1>2. CASE h.file = "journal"
  <2>1. h.value = ReceiptOf(o)
    BY <1>1, <1>2 DEF OpInv, PendingOK
  <2>2. /\ e.journal = [d.journal EXCEPT ![h.side] = h.value] /\ h.side \in 1 .. 2
        /\ e.lkg = d.lkg /\ e.sealed = d.sealed /\ e.baseline = d.baseline /\ e.yaml = d.yaml
        /\ e \in Disk
    BY <1>1, <1>2, WrittenMirror
  <2> QED
    BY <1>1, <1>2, <2>1, <2>2
<1>3. CASE h.file = "lkg"
  <2>1. h.value = ReceiptOf(o) /\ o.pc = "clean"
    BY <1>1, <1>3 DEF OpInv, PendingOK
  <2>2. /\ e.lkg = [d.lkg EXCEPT ![h.side] = h.value] /\ h.side \in 1 .. 2
        /\ e.journal = d.journal /\ e.sealed = d.sealed /\ e.baseline = d.baseline
        /\ e.yaml = d.yaml /\ e \in Disk
    BY <1>1, <1>3, WrittenMirror
  <2> QED
    BY <1>1, <1>3, <2>1, <2>2
<1>4. CASE h.file \notin {"journal", "lkg"}
  BY <1>1, <1>4, WrittenWhole
<1> QED
  BY <1>2, <1>3, <1>4

\* A write that ends keeps the invariant of the call.
LEMMA WriteKeeps ==
  ASSUME NEW d \in Disk, NEW o \in Op, OpInv(d, o), o.writes # <<>>,
         NEW b, b = [o EXCEPT !.writes = Tail(@)], NEW e, e = Written(d, Head(o.writes))
  PROVE  OpInv(e, b) /\ e \in Disk /\ b \in Op
<1>0. PICK h : h = Head(o.writes)
  OBVIOUS
<1>1. /\ h \in Pending(o.writes)
      /\ \A u \in Pending(o.writes) : u = h \/ u \in Pending(Tail(o.writes))
      /\ \A u \in Pending(Tail(o.writes)) : u \in Pending(o.writes)
      /\ Tail(o.writes) \in Seq(FileWrite)
  BY <1>0, PendingHead, OpFields
<1>2. /\ b \in Op /\ b.pc = o.pc /\ b.id = o.id /\ b.phase = o.phase /\ b.writes = Tail(o.writes)
  BY <1>1 DEF Op
<1>3. o.pc \notin {"idle", "enter", "called", "inspect"} /\ o.id \in Id /\ Past(o)
  BY DEF OpInv, Shape, Past
<1>4. /\ ReceiptOf(b) = ReceiptOf(o) /\ ReceiptOf(o) \in Receipt /\ ReceiptOf(o) # None
      /\ ReceiptOf(o).id = o.id /\ ReceiptOf(o).phase = o.phase
  BY <1>2, <1>3, OpFields DEF ReceiptOf
<1>5. e \in Disk
  BY <1>0, WriteEffects
<1>6. /\ h.file = "journal" => /\ e.lkg = d.lkg /\ h.side \in 1 .. 2
                               /\ e.journal = [d.journal EXCEPT ![h.side] = ReceiptOf(o)]
      /\ h.file = "lkg" => /\ e.journal = d.journal /\ h.side \in 1 .. 2 /\ o.pc = "clean"
                           /\ e.lkg = [d.lkg EXCEPT ![h.side] = ReceiptOf(o)]
      /\ h.file \notin {"journal", "lkg"} => e.journal = d.journal /\ e.lkg = d.lkg
      /\ h.file # "sealed" => e.sealed = d.sealed
      /\ h.file # "baseline" => e.baseline = d.baseline
      /\ h.file = "sealed" => e.sealed = h.value /\ h.value \in RuntimeReceipt
      /\ h.file = "baseline" => e.baseline = h.value
  BY <1>0, WriteEffects
<1>7. \A file, side : Pends(o, file, side) =>
        Pends(b, file, side) \/ (h.file = file /\ h.side = side)
  BY <1>1, <1>2 DEF Pends
<1>8. Shape(b)
  BY <1>2, <1>3 DEF OpInv, Shape
<1>9. PendingOK(e, b)
  <2>1. ASSUME NEW u \in Pending(b.writes), u.file = "sealed"
        PROVE  Sealable(e.sealed, u.value)
    <3>1. u \in Pending(o.writes)
      BY <1>1, <1>2
    <3>2. CASE h.file = "sealed"
      <4>1. h.value = u.value
        BY <3>1, <3>2, <2>1, <1>1 DEF OpInv, PendingOK
      <4> QED
        BY <4>1, <3>2, <1>6 DEF Sealable
    <3>3. CASE h.file # "sealed"
      <4>1. e.sealed = d.sealed
        BY <1>6, <3>3
      <4> QED
        BY <4>1, <3>1, <2>1 DEF OpInv, PendingOK
    <3> QED
      BY <3>2, <3>3
  <2> QED
    BY <2>1, <1>1, <1>2, <1>4 DEF OpInv, PendingOK
<1>10. Journalled(e, b)
  <2>1. Has("journal", d.journal, o)
    BY <1>3 DEF OpInv, Journalled
  <2>2. CASE h.file = "journal"
    <3>1. e.journal[h.side] = ReceiptOf(b)
      BY <2>2, <1>4, <1>6, DiskFields DEF Mirror
    <3>2. ASSUME NEW s \in 1 .. 2
          PROVE  e.journal[s] \in {None, ReceiptOf(b)} \/ Pends(b, "journal", s)
      <4>1. CASE s = h.side
        BY <4>1, <3>1
      <4>2. CASE s # h.side
        <5>1. e.journal[s] = d.journal[s]
          BY <4>2, <2>2, <1>6, DiskFields DEF Mirror
        <5> QED
          BY <5>1, <4>2, <2>1, <1>4, <1>7 DEF Has
      <4> QED
        BY <4>1, <4>2
    <3> QED
      BY <3>1, <3>2, <2>2, <1>6 DEF Journalled, Has
  <2>3. CASE h.file # "journal"
    <3>1. e.journal = d.journal
      BY <2>3, <1>6
    <3> QED
      BY <3>1, <2>1, <2>3, <1>4, <1>7 DEF Journalled, Has
  <2> QED
    BY <2>2, <2>3
<1>11. BaselineHeld(e, b)
  <2>1. CASE h.file = "baseline"
    BY <2>1, <1>1, <1>2, <1>6 DEF OpInv, BaselineHeld, PendingOK
  <2>2. CASE h.file # "baseline"
    <3>1. e.baseline = d.baseline
      BY <2>2, <1>6
    <3> QED
      BY <3>1, <2>2, <1>2, <1>7 DEF OpInv, BaselineHeld
  <2> QED
    BY <2>1, <2>2
<1>12. Proven(e, b)
  <2>1. CASE h.file = "sealed"
    <3>1. Sealable(d.sealed, h.value) /\ h.value.id = o.id /\ h.value.target.policy = o.id.policy
      BY <2>1, <1>1 DEF OpInv, PendingOK
    <3>2. Evidence(e.sealed, o.id) /\ e.sealed = h.value
      BY <3>1, <2>1, <1>6 DEF Evidence, RuntimeReceipt
    <3>3. e.journal = d.journal /\ e.lkg = d.lkg /\ e.baseline = d.baseline
      BY <2>1, <1>6
    <3> QED
      <4>1. e.sealed \in RuntimeReceipt /\ Sealable(d.sealed, e.sealed)
        BY <3>1, <3>2, <2>1, <1>6
      <4> QED
        BY <4>1, <3>2, <3>3, <1>2, <1>5, SealedDisk DEF Proven
  <2>2. CASE h.file # "sealed"
    <3>1. e.sealed = d.sealed
      BY <2>2, <1>6
    <3>2. o.phase \in {"runtime_applied", "applied"} => Evidence(e.sealed, o.id)
      BY <3>1, <2>2, <1>0, <1>3 DEF OpInv, Proven, SealPends
    <3>3. ASSUME NEW s \in 1 .. 2
          PROVE  /\ e.journal[s] \in {d.journal[s], ReceiptOf(o)}
                 /\ e.lkg[s] = d.lkg[s] \/ (e.lkg[s] = ReceiptOf(o) /\ o.pc = "clean")
      BY <2>2, <1>6, DiskFields DEF Mirror
    <3>4. o.pc = "clean" => o.phase = "applied"
      BY DEF OpInv, Shape, PhaseOf
    <3>5. \A s \in 1 .. 2 : e.lkg[s] # None =>
             e.lkg[s].phase = "applied" /\ Evidence(e.sealed, e.lkg[s].id)
      BY <3>1, <3>2, <3>3, <3>4, <1>4 DEF OpInv, Proven
    <3>6. \A s \in 1 .. 2 :
             e.journal[s] # None /\ e.journal[s].phase \in {"runtime_applied", "applied"} =>
               Evidence(e.sealed, e.journal[s].id)
      BY <3>1, <3>2, <3>3, <1>4 DEF OpInv, Proven
    <3> QED
      BY <3>2, <3>5, <3>6, <1>2 DEF Proven
  <2> QED
    BY <2>1, <2>2
<1>13. Follows(e, b)
  <2>0. Past(b)
    BY <1>2, <1>3 DEF Past
  <2>1. \A s \in 1 .. 2 : d.lkg[s] # None => Newer(o.id, d.lkg[s].id) \/ d.lkg[s] = ReceiptOf(o)
    BY <1>3 DEF OpInv, Follows
  <2>2. CASE h.file = "journal"
    <3>1. \A t \in 1 .. 2 : e.journal[t] \in {d.journal[t], ReceiptOf(o)}
      BY <2>2, <1>6, DiskFields DEF Mirror
    <3>2. \A t \in 1 .. 2 : e.journal[t] = d.journal[t] \/ e.journal[t] = ReceiptOf(o)
      BY <3>1
    <3> QED
      BY <3>2, <2>1, <2>2, <1>2, <1>4, <1>6 DEF OpInv, Follows
  <2>3. CASE h.file = "lkg"
    <3>1. \A t \in 1 .. 2 : e.lkg[t] = d.lkg[t] \/ e.lkg[t] = ReceiptOf(o)
      BY <2>3, <1>6, DiskFields DEF Mirror
    <3>2. \A t \in 1 .. 2 : ~Pends(o, "journal", t)
      BY <2>3, <1>1 DEF OpInv, PendingOK, Pends
    <3>3. \A t \in 1 .. 2 : d.journal[t] \in {None, ReceiptOf(o)}
      BY <3>2, <1>3 DEF OpInv, Journalled, Has
    <3>4. \A t \in 1 .. 2 : e.journal[t] = None \/ e.journal[t] = ReceiptOf(o)
      BY <3>3, <2>3, <1>6
    <3>5. e.journal = d.journal
      BY <2>3, <1>6
    <3> QED
      BY <3>1, <3>4, <3>5, <2>1, <1>2, <1>4 DEF OpInv, Follows
  <2>4. CASE h.file \notin {"journal", "lkg"}
    <3>1. e.journal = d.journal /\ e.lkg = d.lkg
      BY <2>4, <1>6
    <3> QED
      BY <3>1, <2>1, <1>2, <1>4 DEF OpInv, Follows
  <2> QED
    BY <2>2, <2>3, <2>4
<1> QED
  BY <1>2, <1>5, <1>8, <1>9, <1>10, <1>11, <1>12, <1>13 DEF OpInv

-------------------------------------------------------------------------------
(* Steps of the call that leave the disk alone *)

\* A call that goes on at the same phase.
LEMMA GoesOn ==
  ASSUME NEW d \in Disk, NEW o \in Op, OpInv(d, o), o.writes = <<>>, Past(o),
         NEW b \in Op, b.id = o.id, b.phase = o.phase, Shape(b), Past(b), PendingOK(d, b),
         \/ b.pc \in {"baseline", "clean", "publish"}
         \/ d.baseline # None /\ d.baseline.id = o.id
         \/ Pends(b, "baseline", 0)
  PROVE  OpInv(d, b)
<1>1. ReceiptOf(b) = ReceiptOf(o) /\ Pending(o.writes) = {}
  BY DEF ReceiptOf, Pending
<1>2. Has("journal", d.journal, b)
  BY <1>1 DEF OpInv, Journalled, Has, Pends
<1>3. BaselineHeld(d, b)
  BY DEF OpInv, BaselineHeld
<1>4. Proven(d, b)
  BY DEF OpInv, Proven, SealPends, Past
<1>5. Follows(d, b)
  BY <1>1 DEF OpInv, Follows
<1> QED
  BY <1>2, <1>3, <1>4, <1>5 DEF OpInv, Journalled

\* A call that saves the journal, after a runtime receipt if it observed the target.
LEMMA Records ==
  ASSUME NEW d \in Disk, NEW o \in Op, OpInv(d, o),
         NEW b \in Op, b.id \in Id, Shape(b), Past(b),
         NEW q \in Seq(FileWrite),
         b.writes = q \o SaveWrites("journal", d.journal, ReceiptOf(b)),
         \A u \in Pending(q) : /\ u.file = "sealed" /\ b.pc = "step" /\ u.value.id = b.id
                               /\ u.value.target.policy = b.id.policy
                               /\ Sealable(d.sealed, u.value)
                               /\ \A v \in Pending(q) : v.value = u.value,
         \/ b.pc \in {"baseline", "clean", "publish"}
         \/ d.baseline # None /\ d.baseline.id = b.id,
         \/ b.phase \notin {"runtime_applied", "applied"}
         \/ Evidence(d.sealed, b.id) \/ SealPends(b),
         \A s \in 1 .. 2 : d.lkg[s] # None =>
           Newer(b.id, d.lkg[s].id) \/ d.lkg[s] = ReceiptOf(b)
  PROVE  OpInv(d, b)
<1>0. PICK r : r = ReceiptOf(b)
  OBVIOUS
<1>1. PICK sw : sw = SaveWrites("journal", d.journal, r)
  OBVIOUS
<1>2. r \in Receipt /\ d.journal \in Mirror
  BY <1>0, OpFields, DiskFields
<1>3. /\ sw \in Seq(FileWrite)
      /\ \A u \in Pending(sw) : u.file = "journal" /\ u.value = r
      /\ \A x \in 1 .. 2 : d.journal[x] = r \/ \E u \in Pending(sw) : u.file = "journal" /\ u.side = x
  BY <1>1, <1>2, SaveWritesFacts
<1>4. Pending(b.writes) = Pending(q) \cup Pending(sw)
  BY <1>0, <1>1, <1>3, PendingConcat
<1>5. PendingOK(d, b)
  BY <1>0, <1>3, <1>4 DEF PendingOK
<1>6. Journalled(d, b)
  <2>1. \A x \in 1 .. 2 : d.journal[x] = ReceiptOf(b) \/ Pends(b, "journal", x)
    BY <1>0, <1>3, <1>4 DEF Pends
  <2> QED
    BY <2>1 DEF Journalled, Has
<1>7. BaselineHeld(d, b)
  BY DEF OpInv, BaselineHeld
<1>8. Proven(d, b)
  BY DEF OpInv, Proven
<1>9. Follows(d, b)
  BY DEF OpInv, Follows
<1> QED
  BY <1>5, <1>6, <1>7, <1>8, <1>9 DEF OpInv

\* A call that is not done is of a commit newer than the LKG.
LEMMA Ahead ==
  ASSUME NEW d \in Disk, NEW o \in Op, OpInv(d, o), Past(o), o.phase # "applied"
  PROVE  \A s \in 1 .. 2 : d.lkg[s] # None => Newer(o.id, d.lkg[s].id)
BY OpFields DEF OpInv, Follows, Proven

-------------------------------------------------------------------------------
(* The invariant of the component, and the steps that are not the call's own *)

\* A running callback's commit is the newest of the journal, and its baseline is kept.
CallbackHeld(d, cb) ==
  /\ \E s \in 1 .. 2 : d.journal[s] # None
  /\ \A s \in 1 .. 2 : d.journal[s] # None => d.journal[s].id = cb
  /\ d.baseline # None /\ d.baseline.id = cb

Types ==
  /\ disk \in Disk /\ op \in Op /\ served \in Config /\ runtime \in Policy
  /\ up \in {"down", "starting", "serving"} /\ current \in Id
  /\ callback \in Id \cup {None} /\ lease \in BOOLEAN /\ failed \in BOOLEAN
  /\ exactRetry \in BOOLEAN /\ faults \in 0 .. MaxFault

Locks ==
  /\ op.pc # "idle" => lease /\ up # "down"
  /\ callback # None => /\ lease /\ op.pc \in {"idle", "called"} /\ up # "down"
                        /\ CallbackHeld(disk, callback)
  /\ op.pc = "called" => callback = op.id

SafeInv == Types /\ OpInv(disk, op) /\ Locks

\* The invariant holds initially.
LEMMA InitSafe == Init => SafeInv
<1> SUFFICES ASSUME Init PROVE SafeInv
  OBVIOUS
<1> USE DEF Init
<1>1. /\ NoOp.pc = "idle" /\ NoOp.id = None /\ NoOp.phase = "prepared" /\ NoOp.writes = <<>>
      /\ NoOp \in Op /\ Pending(NoOp.writes) = {}
  BY PendingOne DEF NoOp, Op, PCs, Phase, Pending
<1>2. \A p \in Policy : FirstId(p) \in Id /\ FirstId(p).policy = p
  <2>1. 1 \in 1 .. MaxEpoch /\ 1 \in 1 .. MaxRevision
    OBVIOUS
  <2> QED
    BY <2>1 DEF FirstId, Id
<1>3. /\ FreshDisk \in Disk /\ FreshDisk.baseline = None
      /\ \A s \in 1 .. 2 : FreshDisk.journal[s] = None /\ FreshDisk.lkg[s] = None
      /\ FreshDisk.yaml = [policy |-> InitialPolicy, rest |-> 0] /\ FreshDisk.yaml \in Config
      /\ FreshDisk.yaml.policy = InitialPolicy
  <2>1. [policy |-> InitialPolicy, rest |-> 0] \in Config
    BY DEF Config
  <2>2. <<None, None>> \in Mirror
    BY DEF Mirror
  <2> QED
    BY <2>1, <2>2 DEF FreshDisk, Disk
<1>4. PICK a : a = [id |-> FirstId(InitialPolicy), phase |-> "applied"]
  OBVIOUS
<1>5. a \in Receipt /\ a.id = FirstId(InitialPolicy) /\ a.phase = "applied"
  BY <1>2, <1>4 DEF Receipt, Phase
<1>6. PICK r : r = [id |-> a.id, target |-> FreshDisk.yaml]
  OBVIOUS
<1>7. r \in RuntimeReceipt /\ r.id = a.id /\ r.target.policy = InitialPolicy
  BY <1>2, <1>3, <1>5, <1>6 DEF RuntimeReceipt
<1>8. JournalRemoved = [FreshDisk EXCEPT !.lkg = <<a, a>>, !.sealed = r]
  BY <1>4, <1>6, Zenon DEF JournalRemoved
<1>9. <<a, a>> \in Mirror /\ \A s \in 1 .. 2 : <<a, a>>[s] = a
  BY <1>5 DEF Mirror
<1>10. /\ JournalRemoved \in Disk /\ JournalRemoved.baseline = None
       /\ \A s \in 1 .. 2 : JournalRemoved.journal[s] = None /\ JournalRemoved.lkg[s] = a
       /\ JournalRemoved.yaml \in Config /\ JournalRemoved.sealed = r
  <2>1. PICK e : e = [FreshDisk EXCEPT !.lkg = <<a, a>>]
    OBVIOUS
  <2>2. /\ e \in Disk /\ e.lkg = <<a, a>> /\ e.baseline = None /\ e.journal = FreshDisk.journal
        /\ e.yaml = FreshDisk.yaml
    BY <2>1, <1>3, <1>9 DEF Disk
  <2>3. JournalRemoved = [e EXCEPT !.sealed = r]
    BY <2>1, <1>8
  <2>4. /\ JournalRemoved \in Disk /\ JournalRemoved.lkg = <<a, a>>
        /\ JournalRemoved.baseline = None /\ JournalRemoved.journal = FreshDisk.journal
        /\ JournalRemoved.yaml = FreshDisk.yaml /\ JournalRemoved.sealed = r
    BY <2>2, <2>3, <1>7 DEF Disk
  <2> QED
    BY <2>4, <1>3, <1>9
<1>11. disk \in Disk /\ disk.yaml \in Config /\ disk.baseline = None
  BY <1>3, <1>10
<1>12. OpInv(disk, NoOp)
  <2>1. Evidence(r, a.id) /\ a # None
    BY <1>2, <1>5, <1>7 DEF Evidence, RuntimeReceipt
  <2>2. Proven(disk, NoOp) /\ Follows(disk, NoOp)
    BY <1>1, <1>3, <1>5, <1>10, <2>1 DEF Proven, Follows, Past
  <2> QED
    BY <1>1, <1>11, <2>2 DEF OpInv, Shape, PhaseOf, PendingOK, Journalled, BaselineHeld, Past
<1>13. current \in Id /\ disk.yaml.policy \in Policy
  BY <1>2, <1>11 DEF Config
<1>14. Types
  <2>1. exactRetry \in BOOLEAN
    BY Zenon
  <2>2. faults \in 0 .. MaxFault
    OBVIOUS
  <2> QED
    BY <1>1, <1>11, <1>13, <2>1, <2>2 DEF Types
<1> QED
  BY <1>1, <1>12, <1>14 DEF SafeInv, Locks

\* The invariant depends on these variables only.
LEMMA StutterSafe ==
  ASSUME SafeInv, UNCHANGED vars
  PROVE  SafeInv'
BY DEF SafeInv, Types, Locks, vars

\* A new process serves what the YAML says.
LEMMA StartSafe ==
  ASSUME SafeInv, Start
  PROVE  SafeInv'
<1>1. current' \in Id
  <2>1. PICK e \in {current.epoch + 1} \cup (IF exactRetry THEN {current.epoch} ELSE {}) :
          e <= MaxEpoch /\ current' = [current EXCEPT !.epoch = e]
    BY Zenon DEF Start
  <2>2. current \in Id
    BY DEF SafeInv, Types
  <2>3. e \in 1 .. MaxEpoch
    BY <2>1, <2>2, IdFields
  <2> QED
    BY <2>1, <2>2, <2>3 DEF Id
<1>2. /\ up = "down" /\ up' = "starting" /\ served' = disk.yaml /\ runtime' = disk.yaml.policy
      /\ failed' = FALSE
      /\ UNCHANGED <<disk, op, lease, callback, faults, exactRetry>>
  BY Zenon DEF Start
<1>3. served' \in Config /\ runtime' \in Policy
  BY <1>2, DiskFields DEF SafeInv, Types, Config
<1> QED
  BY <1>1, <1>2, <1>3 DEF SafeInv, Types, Locks

\* A crash ends the call and the callback; the disk stays as it is.
LEMMA CrashSafe ==
  ASSUME SafeInv, Crash
  PROVE  SafeInv'
<1>1. /\ up # "down" /\ faults < MaxFault /\ up' = "down" /\ op' = NoOp /\ lease' = FALSE
      /\ callback' = None /\ faults' = faults + 1
      /\ UNCHANGED <<disk, served, runtime, failed, current, exactRetry>>
  BY Zenon DEF Crash
<1>2. OpInv(disk, NoOp) /\ NoOp \in Op /\ NoOp.pc = "idle"
  BY EndOp DEF SafeInv, Types, NoOp
<1>3. faults' \in 0 .. MaxFault
  BY <1>1 DEF SafeInv, Types
<1>4. Types'
  BY <1>1, <1>2, <1>3 DEF SafeInv, Types
<1> QED
  BY <1>1, <1>2, <1>4 DEF SafeInv, Locks

\* The cluster changes nothing on the node.
LEMMA AdvanceSafe ==
  ASSUME SafeInv, ClusterAdvances
  PROVE  SafeInv'
<1>0. current \in Id
  BY DEF SafeInv, Types
<1>1. current' \in Id
  <2>1. CASE current' = [current EXCEPT !.epoch = @ + 1]
    <3>1. current.epoch < MaxEpoch
      BY Zenon DEF ClusterAdvances
    <3>2. current.epoch + 1 \in 1 .. MaxEpoch
      BY <3>1, <1>0, IdFields
    <3> QED
      BY <2>1, <3>2, <1>0 DEF Id
  <2>2. CASE /\ current.revision < MaxRevision
             /\ \E p \in Policy :
                  current' = [epoch |-> current.epoch + 1, revision |-> current.revision + 1,
                              policy |-> p]
    <3>1. current.epoch < MaxEpoch
      BY Zenon DEF ClusterAdvances
    <3>2. current.epoch + 1 \in 1 .. MaxEpoch /\ current.revision + 1 \in 1 .. MaxRevision
      BY <2>2, <3>1, <1>0, IdFields
    <3> QED
      BY <2>2, <3>2 DEF Id
  <2> QED
    BY <2>1, <2>2, Zenon DEF ClusterAdvances
<1>2. UNCHANGED <<disk, served, runtime, up, op, lease, callback, failed, faults, exactRetry>>
  BY Zenon DEF ClusterAdvances
<1> QED
  BY <1>1, <1>2 DEF SafeInv, Types, Locks

\* The YAML is no part of what the invariant says of a disk.
LEMMA SameFiles ==
  ASSUME NEW d \in Disk, NEW o \in Op, OpInv(d, o), NEW e \in Disk,
         e.journal = d.journal, e.lkg = d.lkg, e.baseline = d.baseline, e.sealed = d.sealed
  PROVE  OpInv(e, o) /\ \A cb : CallbackHeld(d, cb) => CallbackHeld(e, cb)
BY DEF OpInv, PendingOK, Journalled, BaselineHeld, Proven, Follows, CallbackHeld

\* An edit of another setting writes the YAML.
LEMMA EditSafe ==
  ASSUME SafeInv, EditConfig
  PROVE  SafeInv'
<1>1. /\ served' = [served EXCEPT !.rest = 1] /\ disk' = [disk EXCEPT !.yaml = served']
      /\ UNCHANGED <<runtime, up, op, lease, callback, failed, current, faults, exactRetry>>
  BY Zenon DEF EditConfig
<1>2. served' \in Config
  BY <1>1 DEF SafeInv, Types, Config
<1>3. /\ disk' \in Disk /\ disk'.journal = disk.journal /\ disk'.lkg = disk.lkg
      /\ disk'.baseline = disk.baseline /\ disk'.sealed = disk.sealed
  BY <1>1, <1>2 DEF SafeInv, Types, Disk
<1>4. PICK e : e = disk'
  OBVIOUS
<1>5. OpInv(e, op) /\ \A cb : CallbackHeld(disk, cb) => CallbackHeld(e, cb)
  BY <1>3, <1>4, SameFiles DEF SafeInv, Types
<1> QED
  BY <1>1, <1>2, <1>3, <1>4, <1>5 DEF SafeInv, Types, Locks

\* ApplyCommitted takes the lease, so no callback is running.
LEMMA BeginSafe ==
  ASSUME SafeInv, NEW id \in Id, Begin(id), up # "down", current' \in Id,
         UNCHANGED <<disk, served, runtime, up, callback, failed, faults, exactRetry>>
  PROVE  SafeInv'
<1>1. /\ op.pc = "idle" /\ ~lease /\ lease' = TRUE
      /\ op' = [NoOp EXCEPT !.pc = "enter", !.id = id]
  BY Zenon DEF Begin
<1>2. PICK b : b = op'
  OBVIOUS
<1>3. b = [pc |-> "enter", id |-> id, phase |-> "prepared", writes |-> <<>>]
  BY <1>1, <1>2 DEF NoOp
<1>4. OpInv(disk, b) /\ b \in Op /\ b.pc = "enter"
  BY <1>3, BeginOp DEF SafeInv, Types
<1> QED
  BY <1>1, <1>2, <1>4 DEF SafeInv, Types, Locks

\* Startup, Propose and Retry begin a call.
LEMMA CallsSafe ==
  ASSUME SafeInv, Startup \/ Propose \/ Retry
  PROVE  SafeInv'
<1>0. current \in Id
  BY DEF SafeInv, Types
<1>1. CASE Startup
  <2>1. /\ up = "starting" /\ Begin(current)
        /\ UNCHANGED <<disk, served, runtime, up, callback, failed, current, faults, exactRetry>>
    BY <1>1, Zenon DEF Startup
  <2> QED
    BY <2>1, <1>0, BeginSafe
<1>2. CASE Propose
  <2>1. /\ up = "serving" /\ current.revision < MaxRevision
        /\ UNCHANGED <<disk, served, runtime, up, callback, failed, faults, exactRetry>>
    BY <1>2, Zenon DEF Propose
  <2>2. PICK p \in Policy : LET id == [current EXCEPT !.revision = @ + 1, !.policy = p]
                            IN current' = id /\ Begin(id)
    BY <1>2, Zenon DEF Propose
  <2>3. PICK id : id = [current EXCEPT !.revision = @ + 1, !.policy = p]
    OBVIOUS
  <2>4. current.revision + 1 \in 1 .. MaxRevision
    BY <2>1, <1>0, IdFields
  <2>5. id \in Id
    BY <2>3, <2>4, <1>0 DEF Id
  <2>6. current' = id /\ Begin(id)
    BY <2>2, <2>3, Zenon
  <2> QED
    BY <2>1, <2>5, <2>6, BeginSafe
<1>3. CASE Retry
  <2>1. /\ up = "serving" /\ Begin(current)
        /\ UNCHANGED <<disk, served, runtime, up, callback, failed, current, faults, exactRetry>>
    BY <1>3, Zenon DEF Retry
  <2> QED
    BY <2>1, <1>0, BeginSafe
<1> QED
  BY <1>1, <1>2, <1>3

-------------------------------------------------------------------------------
(* Steps of the call: the general forms *)

\* A call that goes on in good order, the disk and all else unchanged.
LEMMA ContinueSafe ==
  ASSUME SafeInv, op.pc \notin {"idle", "called"},
         op' \in Op, op'.pc \notin {"idle", "called"}, OpInv(disk, op'),
         UNCHANGED <<disk, served, runtime, up, lease, callback, failed, current,
                     faults, exactRetry>>
  PROVE  SafeInv'
BY DEF SafeInv, Types, Locks

\* A call that ends with an error: the disk is one the call may leave behind.
LEMMA FailSafe ==
  ASSUME SafeInv, op.pc \notin {"idle", "called"}, Fail, lease' = FALSE,
         disk' \in Disk, NEW b \in Op, OpInv(disk', b), faults' \in 0 .. MaxFault,
         UNCHANGED <<served, runtime, callback, current, exactRetry>>
  PROVE  SafeInv'
<1>1. op' = NoOp /\ failed' = TRUE /\ up' \in {up, "down"}
  BY Zenon DEF Fail
<1>2. OpInv(disk', NoOp) /\ NoOp \in Op /\ NoOp.pc = "idle"
  <2>1. PICK e : e = disk'
    OBVIOUS
  <2>2. OpInv(e, NoOp) /\ NoOp \in Op
    BY <2>1, EndOp
  <2> QED
    BY <2>1, <2>2 DEF NoOp
<1>3. callback = None
  BY DEF SafeInv, Types, Locks
<1>4. Types'
  BY <1>1, <1>2 DEF SafeInv, Types
<1> QED
  BY <1>1, <1>2, <1>3, <1>4 DEF SafeInv, Locks

\* A check of the code ends the call.
LEMMA RefuseSafe ==
  ASSUME SafeInv, op.pc \notin {"idle", "called"}, Refuse
  PROVE  SafeInv'
<1>1. Fail /\ lease' = FALSE
      /\ UNCHANGED <<disk, served, runtime, callback, current, faults, exactRetry>>
  BY Zenon DEF Refuse
<1>2. disk' \in Disk /\ OpInv(disk', op) /\ faults' \in 0 .. MaxFault /\ op \in Op
  BY <1>1 DEF SafeInv, Types
<1> QED
  BY <1>1, <1>2, FailSafe

\* What Continue does to the call.
LEMMA ContinueFacts ==
  ASSUME op \in Op, NEW pc \in PCs, NEW phase \in Phase, NEW writes \in Seq(FileWrite),
         Continue(pc, phase, writes)
  PROVE  /\ op' \in Op /\ op'.pc = pc /\ op'.id = op.id /\ op'.phase = phase
         /\ op'.writes = writes
         /\ UNCHANGED <<disk, served, runtime, up, lease, callback, failed, current,
                        faults, exactRetry>>
<1>1. /\ op' = [op EXCEPT !.pc = pc, !.phase = phase, !.writes = writes]
      /\ UNCHANGED <<disk, served, runtime, up, lease, callback, failed, current,
                     faults, exactRetry>>
  BY Zenon DEF Continue
<1>2. PICK b : b = op'
  OBVIOUS
<1>3. b = [op EXCEPT !.pc = pc, !.phase = phase, !.writes = writes]
  BY <1>1, <1>2, Zenon
<1>4. b \in Op /\ b.pc = pc /\ b.id = op.id /\ b.phase = phase /\ b.writes = writes
  BY <1>3 DEF Op
<1> QED
  BY <1>1, <1>2, <1>4

\* A call between its first check and its end, with no write pending.
LEMMA AtFacts ==
  ASSUME SafeInv, NEW pc, At(pc), pc \notin {"idle", "called"}
  PROVE  /\ op.pc = pc /\ op.writes = <<>> /\ op.id \in Id /\ Pending(op.writes) = {}
         /\ op.pc \notin {"idle", "called"} /\ op \in Op /\ disk \in Disk /\ OpInv(disk, op)
         /\ \A file, side : ~Pends(op, file, side)
BY DEF SafeInv, Types, OpInv, Shape, At, Pending, Pends

\* A save of the journal by a call of a commit newer than the LKG.
LEMMA JournalSafe ==
  ASSUME SafeInv, NEW from \in PCs \ {"idle", "called"}, At(from),
         \A s \in 1 .. 2 : disk.lkg[s] # None => Newer(op.id, disk.lkg[s].id),
         NEW previous, NEW phase \in Phase, NEW pc \in PCs \ {"idle", "enter", "called", "inspect"},
         SaveJournal(previous, phase, pc), PhaseOf(pc, phase),
         pc = "baseline" \/ (disk.baseline # None /\ disk.baseline.id = op.id),
         phase \in {"runtime_applied", "applied"} => Evidence(disk.sealed, op.id)
  PROVE  SafeInv'
<1>0. /\ op.pc = from /\ op.writes = <<>> /\ op.id \in Id /\ op.pc \notin {"idle", "called"}
      /\ op \in Op /\ disk \in Disk /\ OpInv(disk, op)
  BY AtFacts
<1>1. PICK r : r = [id |-> op.id, phase |-> phase]
  OBVIOUS
<1>2. PICK ws : ws = SaveWrites("journal", disk.journal, r)
  OBVIOUS
<1>3. Refuse \/ Continue(pc, phase, ws)
  BY <1>1, <1>2, Zenon DEF SaveJournal, Continues
<1>4. CASE Refuse
  BY <1>4, <1>0, RefuseSafe
<1>5. CASE Continue(pc, phase, ws)
  <2>1. r \in Receipt /\ disk.journal \in Mirror
    BY <1>0, <1>1, DiskFields DEF Receipt
  <2>2. ws \in Seq(FileWrite)
    BY <1>2, <2>1, SaveWritesFacts
  <2>3. PICK b : b = op'
    OBVIOUS
  <2>4. /\ b \in Op /\ b.pc = pc /\ b.id = op.id /\ b.phase = phase /\ b.writes = ws
        /\ UNCHANGED <<disk, served, runtime, up, lease, callback, failed, current,
                       faults, exactRetry>>
    BY <1>0, <1>5, <2>2, <2>3, ContinueFacts
  <2>5. ReceiptOf(b) = r
    BY <2>4, <1>1 DEF ReceiptOf
  <2>6. <<>> \in Seq(FileWrite) /\ b.writes = <<>> \o SaveWrites("journal", disk.journal, ReceiptOf(b))
        /\ Pending(<<>>) = {}
    BY <1>2, <2>2, <2>4, <2>5 DEF Pending
  <2>7. Shape(b) /\ Past(b)
    BY <1>0, <2>4 DEF Shape, Past
  <2>8. OpInv(disk, b)
    BY <1>0, <2>4, <2>6, <2>7, Records
  <2> QED
    BY <1>0, <2>3, <2>4, <2>8, ContinueSafe
<1> QED
  BY <1>3, <1>4, <1>5

\* A save of the journal from a call that has not recorded applied.
LEMMA SaveJournalSafe ==
  ASSUME SafeInv, NEW from \in PCs \ {"idle", "enter", "called"}, At(from), op.phase # "applied",
         NEW previous, NEW phase \in Phase, NEW pc \in PCs \ {"idle", "enter", "called", "inspect"},
         SaveJournal(previous, phase, pc), PhaseOf(pc, phase),
         pc = "baseline" \/ (disk.baseline # None /\ disk.baseline.id = op.id),
         phase \in {"runtime_applied", "applied"} => Evidence(disk.sealed, op.id)
  PROVE  SafeInv'
<1>1. op \in Op /\ disk \in Disk /\ OpInv(disk, op) /\ Past(op)
  BY AtFacts DEF Past
<1>2. \A s \in 1 .. 2 : disk.lkg[s] # None => Newer(op.id, disk.lkg[s].id)
  BY <1>1, Ahead
<1> QED
  BY <1>2, JournalSafe

\* The call continues at the same phase.
LEMMA GoesOnSafe ==
  ASSUME SafeInv, NEW from \in PCs \ {"idle", "enter", "called"}, At(from),
         NEW b \in Op, b = op', b.id = op.id, b.phase = op.phase,
         b.pc \in PCs \ {"idle", "enter", "called", "inspect"}, PhaseOf(b.pc, b.phase),
         UNCHANGED <<disk, served, runtime, up, lease, callback, failed, current,
                     faults, exactRetry>>,
         PendingOK(disk, b),
         \/ b.pc \in {"baseline", "clean", "publish"}
         \/ disk.baseline # None /\ disk.baseline.id = op.id
         \/ Pends(b, "baseline", 0)
  PROVE  SafeInv'
<1>0. /\ op.pc = from /\ op.writes = <<>> /\ op.id \in Id /\ op.pc \notin {"idle", "called"}
      /\ op \in Op /\ disk \in Disk /\ OpInv(disk, op) /\ Past(op)
  BY AtFacts DEF Past
<1>1. Shape(b) /\ Past(b)
  BY <1>0 DEF Shape, Past
<1>2. OpInv(disk, b)
  BY <1>0, <1>1, GoesOn
<1> QED
  BY <1>0, <1>2, ContinueSafe

-------------------------------------------------------------------------------
(* Steps of the call *)

\* The claim is refused.
LEMMA ClaimFailsSafe ==
  ASSUME SafeInv, ClaimFails
  PROVE  SafeInv'
<1>1. /\ At("enter") /\ Fail /\ lease' = FALSE
      /\ UNCHANGED <<disk, served, runtime, callback, current, faults, exactRetry>>
  BY Zenon DEF ClaimFails
<1>2. op.pc \notin {"idle", "called"}
  BY <1>1 DEF At
<1>3. disk' \in Disk /\ OpInv(disk', op) /\ faults' \in 0 .. MaxFault /\ op \in Op
  BY <1>1 DEF SafeInv, Types
<1> QED
  BY <1>1, <1>2, <1>3, FailSafe

\* A file is replaced, and the call goes on.
LEMMA WriteOneSafe ==
  ASSUME SafeInv, WriteOne
  PROVE  SafeInv'
<1>1. /\ op.writes # <<>> /\ disk' = Written(disk, Head(op.writes))
      /\ op' = [op EXCEPT !.writes = Tail(@)]
      /\ UNCHANGED <<served, runtime, up, lease, callback, failed, current, faults, exactRetry>>
  BY Zenon DEF WriteOne
<1>2. PICK b : b = op'
  OBVIOUS
<1>3. PICK e : e = disk'
  OBVIOUS
<1>4. disk \in Disk /\ op \in Op /\ OpInv(disk, op)
  BY DEF SafeInv, Types
<1>5. b = [op EXCEPT !.writes = Tail(@)] /\ e = Written(disk, Head(op.writes))
  BY <1>1, <1>2, <1>3
<1>6. OpInv(e, b) /\ e \in Disk /\ b \in Op
  BY <1>1, <1>4, <1>5, WriteKeeps
<1>7. b.pc = op.pc /\ op.pc \notin {"idle", "called"}
  BY <1>1, <1>4, <1>5 DEF Op, OpInv, Shape
<1> QED
  BY <1>1, <1>2, <1>3, <1>6, <1>7 DEF SafeInv, Types, Locks

\* A write fails, before or after the rename.
LEMMA WriteFailsSafe ==
  ASSUME SafeInv, WriteFails
  PROVE  SafeInv'
<1>1. /\ op.writes # <<>> /\ disk' \in {disk, Written(disk, Head(op.writes))}
      /\ faults < MaxFault /\ faults' = faults + 1 /\ Fail /\ lease' = FALSE
      /\ UNCHANGED <<served, runtime, callback, current, exactRetry>>
  BY Zenon DEF WriteFails
<1>2. disk \in Disk /\ op \in Op /\ OpInv(disk, op)
  BY DEF SafeInv, Types
<1>3. op.pc \notin {"idle", "called"}
  BY <1>1, <1>2 DEF OpInv, Shape
<1>4. faults' \in 0 .. MaxFault
  BY <1>1 DEF SafeInv, Types
<1>5. PICK b : b = [op EXCEPT !.writes = Tail(@)]
  OBVIOUS
<1>6. PICK e : e = Written(disk, Head(op.writes))
  OBVIOUS
<1>7. OpInv(e, b) /\ e \in Disk /\ b \in Op
  BY <1>1, <1>2, <1>5, <1>6, WriteKeeps
<1>8. CASE disk' = disk
  BY <1>1, <1>2, <1>3, <1>4, <1>8, FailSafe
<1>9. CASE disk' = e
  BY <1>1, <1>3, <1>4, <1>7, <1>9, FailSafe
<1> QED
  BY <1>1, <1>6, <1>8, <1>9

\* The call ends before it publishes.
LEMMA PublishFailsSafe ==
  ASSUME SafeInv, PublishFails
  PROVE  SafeInv'
<1>1. /\ At("publish") /\ faults < MaxFault /\ faults' = faults + 1 /\ Fail /\ lease' = FALSE
      /\ UNCHANGED <<disk, served, runtime, callback, current, exactRetry>>
  BY Zenon DEF PublishFails
<1>2. disk' \in Disk /\ OpInv(disk', op) /\ faults' \in 0 .. MaxFault /\ op \in Op
  BY <1>1 DEF SafeInv, Types
<1>3. op.pc \notin {"idle", "called"}
  BY <1>1 DEF At
<1> QED
  BY <1>1, <1>2, <1>3, FailSafe

\* The baseline is captured, or the one on disk is this commit's.
LEMMA LoadBaselineSafe ==
  ASSUME SafeInv, LoadBaseline
  PROVE  SafeInv'
<1>0. At("baseline")
  BY Zenon DEF LoadBaseline
<1>1. /\ op.pc = "baseline" /\ op.writes = <<>> /\ op.id \in Id /\ op \in Op /\ disk \in Disk
      /\ OpInv(disk, op) /\ op.phase \in Phase /\ served \in Config
  BY <1>0, AtFacts, OpFields DEF SafeInv, Types
<1>2. PhaseOf("step", op.phase)
  BY <1>1 DEF OpInv, Shape, PhaseOf
<1>3. PICK target : target = [served EXCEPT !.policy = op.id.policy]
  OBVIOUS
<1>4. target \in Config /\ target.policy = op.id.policy
  BY <1>1, <1>3, IdFields DEF Config
<1>5. PICK captured : captured = [id |-> op.id, previous |-> served, target |-> target]
  OBVIOUS
<1>6. captured \in Baseline /\ captured.id = op.id /\ captured.target = target
      /\ captured # None
  BY <1>1, <1>4, <1>5 DEF Baseline
<1>7. PICK u : u = Write("baseline", 0, captured)
  OBVIOUS
<1>8. u \in FileWrite /\ u.file = "baseline" /\ u.side = 0 /\ u.value = captured
  BY <1>6, <1>7 DEF FileWrite, BaselineWrite, Write
<1>9. \/ Continue("step", op.phase, <<u>>)
      \/ Continue("step", op.phase, <<>>) /\ disk.baseline # None /\ disk.baseline.id = op.id
      \/ Refuse
  BY <1>3, <1>5, <1>7, Zenon DEF LoadBaseline, Continues
<1>10. CASE Continue("step", op.phase, <<u>>)
  <2>1. <<u>> \in Seq(FileWrite) /\ Pending(<<u>>) = {u}
    BY <1>8, PendingOne
  <2>2. PICK b : b = op'
    OBVIOUS
  <2>3. /\ b \in Op /\ b.pc = "step" /\ b.id = op.id /\ b.phase = op.phase /\ b.writes = <<u>>
        /\ UNCHANGED <<disk, served, runtime, up, lease, callback, failed, current,
                       faults, exactRetry>>
    BY <1>1, <1>10, <2>1, <2>2, ContinueFacts DEF PCs
  <2>4. PendingOK(disk, b) /\ Pends(b, "baseline", 0)
    BY <2>1, <2>3, <1>4, <1>6, <1>8 DEF PendingOK, Pends
  <2> QED
    BY <1>0, <1>2, <2>2, <2>3, <2>4, GoesOnSafe DEF PCs
<1>11. CASE Continue("step", op.phase, <<>>) /\ disk.baseline # None /\ disk.baseline.id = op.id
  <2>1. <<>> \in Seq(FileWrite) /\ Pending(<<>>) = {}
    BY DEF Pending
  <2>2. PICK b : b = op'
    OBVIOUS
  <2>3. /\ b \in Op /\ b.pc = "step" /\ b.id = op.id /\ b.phase = op.phase /\ b.writes = <<>>
        /\ UNCHANGED <<disk, served, runtime, up, lease, callback, failed, current,
                       faults, exactRetry>>
    BY <1>1, <1>11, <2>1, <2>2, ContinueFacts DEF PCs
  <2>4. PendingOK(disk, b)
    BY <2>1, <2>3 DEF PendingOK
  <2> QED
    BY <1>0, <1>2, <1>11, <2>2, <2>3, <2>4, GoesOnSafe DEF PCs
<1>12. CASE Refuse
  BY <1>1, <1>12, RefuseSafe
<1> QED
  BY <1>9, <1>10, <1>11, <1>12

\* At a step of the call the baseline is this commit's.
LEMMA StepFacts ==
  ASSUME SafeInv, NEW pc \in {"step", "yaml", "recordyaml", "inspect", "giveup", "lkg"}, At(pc)
  PROVE  /\ disk.baseline # None /\ disk.baseline.id = op.id /\ disk.baseline \in Baseline
         /\ disk.baseline.target \in Config /\ disk.baseline.target.policy = op.id.policy
         /\ op.id \in Id /\ op.pc = pc /\ op.writes = <<>> /\ op \in Op /\ disk \in Disk
         /\ OpInv(disk, op) /\ PhaseOf(pc, op.phase)
<1>1. /\ op.id \in Id /\ op.pc = pc /\ op.writes = <<>> /\ op \in Op /\ disk \in Disk
      /\ OpInv(disk, op) /\ ~Pends(op, "baseline", 0)
  BY AtFacts
<1>2. disk.baseline # None /\ disk.baseline.id = op.id /\ disk.baseline \in Baseline
  BY <1>1, DiskFields DEF OpInv, BaselineHeld
<1> QED
  BY <1>1, <1>2 DEF OpInv, BaselineHeld, Baseline, Shape

\* The saves of the journal before the runtime is called.
LEMMA EarlyRecordsSafe ==
  ASSUME SafeInv, RecordBaseline \/ RecordYAML \/ RecordIntent
  PROVE  SafeInv'
<1>1. CASE RecordBaseline
  <2>1. At("step") /\ op.phase = "prepared" /\ SaveJournal(ThisReceipt, "baseline_persisted", "yaml")
    BY <1>1, Zenon DEF RecordBaseline, Step
  <2> QED
    BY <2>1, StepFacts, SaveJournalSafe DEF PCs, Phase, PhaseOf
<1>2. CASE RecordYAML
  <2>1. At("recordyaml") /\ SaveJournal(ThisReceipt, "yaml_persisted", "step")
    BY <1>2, Zenon DEF RecordYAML
  <2>2. op.phase = "baseline_persisted"
    BY <2>1, StepFacts DEF PhaseOf
  <2> QED
    BY <2>1, <2>2, StepFacts, SaveJournalSafe DEF PCs, Phase, PhaseOf
<1>3. CASE RecordIntent
  <2>1. At("step") /\ op.phase = "yaml_persisted" /\ SaveJournal(ThisReceipt, "runtime_intent", "step")
    BY <1>3, Zenon DEF RecordIntent, Step
  <2> QED
    BY <2>1, StepFacts, SaveJournalSafe DEF PCs, Phase, PhaseOf
<1> QED
  BY <1>1, <1>2, <1>3

\* The YAML is written.
LEMMA YAMLSafe ==
  ASSUME SafeInv, ResumeYAML \/ PersistConfig
  PROVE  SafeInv'
<1>1. CASE ResumeYAML
  <2>1. At("step") /\ op.phase = "baseline_persisted" /\ Continue("yaml", op.phase, <<>>)
    BY <1>1, Zenon DEF ResumeYAML, Step
  <2>2. <<>> \in Seq(FileWrite) /\ Pending(<<>>) = {}
    BY DEF Pending
  <2>3. PhaseOf("yaml", op.phase)
    BY <2>1 DEF PhaseOf
  <2>4. disk.baseline # None /\ disk.baseline.id = op.id /\ op \in Op /\ op.phase \in Phase
    BY <2>1, StepFacts, OpFields
  <2>5. PICK b : b = op'
    OBVIOUS
  <2>6. /\ b \in Op /\ b.pc = "yaml" /\ b.id = op.id /\ b.phase = op.phase /\ b.writes = <<>>
        /\ UNCHANGED <<disk, served, runtime, up, lease, callback, failed, current,
                       faults, exactRetry>>
    BY <2>1, <2>2, <2>4, <2>5, ContinueFacts DEF PCs
  <2>7. PendingOK(disk, b)
    BY <2>2, <2>6 DEF PendingOK
  <2> QED
    BY <2>1, <2>3, <2>4, <2>5, <2>6, <2>7, GoesOnSafe DEF PCs
<1>2. CASE PersistConfig
  <2>0. PICK u : u = Write("yaml", 0, disk.baseline.target)
    OBVIOUS
  <2>1. At("yaml") /\ Continue("recordyaml", op.phase, <<u>>)
    BY <1>2, <2>0, Zenon DEF PersistConfig
  <2>2. /\ disk.baseline # None /\ disk.baseline.id = op.id /\ disk.baseline.target \in Config
        /\ PhaseOf("yaml", op.phase) /\ op \in Op /\ op.phase \in Phase
    BY <2>1, StepFacts, OpFields
  <2>3. u \in FileWrite /\ u.file = "yaml"
    BY <2>0, <2>2 DEF FileWrite, YAMLWrite, Write
  <2>4. <<u>> \in Seq(FileWrite) /\ Pending(<<u>>) = {u}
    BY <2>3, PendingOne
  <2>5. PhaseOf("recordyaml", op.phase)
    BY <2>2 DEF PhaseOf
  <2>6. PICK b : b = op'
    OBVIOUS
  <2>7. /\ b \in Op /\ b.pc = "recordyaml" /\ b.id = op.id /\ b.phase = op.phase
        /\ b.writes = <<u>>
        /\ UNCHANGED <<disk, served, runtime, up, lease, callback, failed, current,
                       faults, exactRetry>>
    BY <2>1, <2>2, <2>4, <2>6, ContinueFacts DEF PCs
  <2>8. PendingOK(disk, b)
    BY <2>3, <2>4, <2>7 DEF PendingOK
  <2> QED
    BY <2>1, <2>2, <2>5, <2>6, <2>7, <2>8, GoesOnSafe DEF PCs
<1> QED
  BY <1>1, <1>2

\* What loadMirror returns when it does not fail.
LEMMA LoadedFacts ==
  ASSUME NEW m \in Mirror, ~Ambiguous(m)
  PROVE  /\ Loaded(m) \in Receipt \cup {None}
         /\ \A s \in 1 .. 2 : m[s] # None => m[s] = Loaded(m)
         /\ Loaded(m) # None => \E s \in 1 .. 2 : m[s] = Loaded(m)
<1>1. m[1] \in Receipt \cup {None} /\ m[2] \in Receipt \cup {None}
  BY DEF Mirror
<1>2. \A s \in 1 .. 2 : s = 1 \/ s = 2
  OBVIOUS
<1> QED
  BY <1>1, <1>2 DEF Ambiguous, Loaded

\* A call that finds its commit applied in the journal saves the LKG.
LEMMA FoundApplied ==
  ASSUME NEW d \in Disk, NEW o \in Op, OpInv(d, o), o.id \in Id,
         NEW a, a = [id |-> o.id, phase |-> "applied"],
         ~Ambiguous(d.journal), Loaded(d.journal) = a,
         NEW b \in Op, b.id = o.id, b.phase = "applied", b.pc = "clean",
         b.writes = <<>> \/ b.writes = SaveWrites("lkg", d.lkg, a)
  PROVE  OpInv(d, b)
<1>1. a \in Receipt /\ a.id = o.id /\ a.phase = "applied" /\ ReceiptOf(b) = a /\ a # None
  BY DEF ReceiptOf, Receipt, Phase
<1>2. /\ \A s \in 1 .. 2 : d.journal[s] \in {None, a}
      /\ \E s \in 1 .. 2 : d.journal[s] = a
  BY <1>1, LoadedFacts, DiskFields
<1>3. \A u \in Pending(b.writes) : u.file = "lkg" /\ u.value = a
  <2>1. CASE b.writes = <<>>
    BY <2>1 DEF Pending
  <2>2. CASE b.writes = SaveWrites("lkg", d.lkg, a)
    BY <2>2, <1>1, SaveWritesFacts, DiskFields
  <2> QED
    BY <2>1, <2>2
<1>4. PendingOK(d, b)
  BY <1>1, <1>3 DEF PendingOK
<1>5. Journalled(d, b)
  BY <1>1, <1>2 DEF Journalled, Has
<1>6. Evidence(d.sealed, o.id)
  BY <1>1, <1>2 DEF OpInv, Proven
<1>7. Proven(d, b)
  BY <1>6 DEF OpInv, Proven
<1>8. Follows(d, b)
  BY <1>1, <1>2 DEF OpInv, Follows
<1>9. Shape(b)
  BY DEF Shape, PhaseOf
<1>10. BaselineHeld(d, b)
  BY DEF OpInv, BaselineHeld
<1> QED
  BY <1>4, <1>5, <1>7, <1>8, <1>9, <1>10 DEF OpInv

\* A call that finds its commit unfinished in the journal resumes it.
LEMMA FoundUnfinished ==
  ASSUME NEW d \in Disk, NEW o \in Op, OpInv(d, o), o.id \in Id,
         NEW j \in Receipt, j.id = o.id, j.phase # "applied",
         ~Ambiguous(d.journal), Loaded(d.journal) = j,
         NEW b \in Op, b.id = o.id, b.phase = j.phase, b.pc = "baseline", b.writes = <<>>
  PROVE  OpInv(d, b)
<1>1. ReceiptOf(b) = j /\ j # None
  BY ReceiptFields DEF ReceiptOf
<1>2. /\ \A s \in 1 .. 2 : d.journal[s] \in {None, j}
      /\ \E s \in 1 .. 2 : d.journal[s] = j
  BY <1>1, LoadedFacts, DiskFields
<1>3. PendingOK(d, b)
  BY DEF PendingOK, Pending
<1>4. Journalled(d, b)
  BY <1>1, <1>2 DEF Journalled, Has
<1>5. Proven(d, b)
  BY <1>1, <1>2 DEF OpInv, Proven
<1>6. Follows(d, b)
  BY <1>1, <1>2 DEF OpInv, Follows
<1>7. Shape(b)
  BY DEF Shape, PhaseOf
<1>8. BaselineHeld(d, b)
  BY DEF OpInv, BaselineHeld
<1> QED
  BY <1>3, <1>4, <1>5, <1>6, <1>7, <1>8 DEF OpInv

\* Validation of the incoming commit leaves the LKG behind it or at it.
LEMMA IncomingAhead ==
  ASSUME NEW d \in Disk, NEW o \in Op, OpInv(d, o), o.id \in Id,
         NEW p, p = [id |-> o.id, phase |-> "prepared"],
         ~Ambiguous(d.journal), ~Ambiguous(d.lkg),
         ValidIncoming(Loaded(d.journal), Loaded(d.lkg), p),
         Loaded(d.journal) # None => Loaded(d.journal).id # o.id,
         Loaded(d.journal) = None /\ Loaded(d.lkg) # None => Loaded(d.lkg).id # o.id
  PROVE  \A s \in 1 .. 2 : d.lkg[s] # None => Newer(o.id, d.lkg[s].id)
<1>1. p.id = o.id
  OBVIOUS
<1>2. PICK j : j = Loaded(d.journal)
  OBVIOUS
<1>3. PICK l : l = Loaded(d.lkg)
  OBVIOUS
<1>4. /\ j \in Receipt \cup {None} /\ l \in Receipt \cup {None}
      /\ \A s \in 1 .. 2 : d.lkg[s] # None => d.lkg[s] = l
      /\ j # None => \E s \in 1 .. 2 : d.journal[s] = j
      /\ l # None => \E s \in 1 .. 2 : d.lkg[s] = l
  BY <1>2, <1>3, LoadedFacts, DiskFields
<1>5. \A r \in {j, l} : r # None => r.id = o.id \/ Newer(o.id, r.id)
  BY <1>1, <1>2, <1>3 DEF ValidIncoming, ValidTransition
<1>6. l # None => Newer(o.id, l.id)
  <2>1. SUFFICES ASSUME l # None, l.id = o.id PROVE FALSE
    BY <1>5
  <2>2. j # None /\ Newer(o.id, j.id)
    BY <2>1, <1>2, <1>3, <1>5
  <2>3. Newer(j.id, l.id) \/ j = l
    BY <2>1, <2>2, <1>4 DEF OpInv, Follows
  <2> QED
    BY <2>1, <2>2, <2>3, <1>4, ReceiptFields, NewerStrict
<1> QED
  BY <1>4, <1>6

\* applyCommitted up to the first journal write.
LEMMA EnterSafe ==
  ASSUME SafeInv, Enter
  PROVE  SafeInv'
<1>1. PICK p : p = [id |-> op.id, phase |-> "prepared"]
  OBVIOUS
<1>2. PICK a : a = [id |-> op.id, phase |-> "applied"]
  OBVIOUS
<1>3. PICK j : j = Loaded(disk.journal)
  OBVIOUS
<1>4. PICK l : l = Loaded(disk.lkg)
  OBVIOUS
<1>5. PICK jw : jw = SaveWrites("journal", disk.journal, a)
  OBVIOUS
<1>6. PICK lw : lw = IF l = a THEN <<>> ELSE SaveWrites("lkg", disk.lkg, a)
  OBVIOUS
<1>7. PICK latest : latest = IF j # None THEN j ELSE l
  OBVIOUS
<1>8. At("enter")
  BY Zenon DEF Enter
<1>9. /\ op.pc = "enter" /\ op.writes = <<>> /\ op.id \in Id /\ op \in Op /\ disk \in Disk
      /\ OpInv(disk, op)
  BY <1>8, AtFacts
<1>10. \/ Refuse
       \/ /\ ~Ambiguous(disk.journal) /\ ~Ambiguous(disk.lkg) /\ ValidIncoming(j, l, p)
          /\ \/ j = a /\ Continue("clean", "applied", lw)
             \/ j # a /\ j = None /\ l = a /\ Continue("clean", "applied", jw)
             \/ /\ j # a /\ ~(j = None /\ l = a) /\ latest # None /\ latest.id = op.id
                /\ Continue("baseline", latest.phase, <<>>)
             \/ /\ ~(latest # None /\ latest.id = op.id)
                /\ SaveJournal(latest, "prepared", "baseline")
  BY <1>1, <1>2, <1>3, <1>4, <1>5, <1>6, <1>7, Zenon DEF Enter, Continues
<1>11. CASE Refuse
  BY <1>9, <1>11, RefuseSafe
<1>12. ASSUME ~Ambiguous(disk.journal), ~Ambiguous(disk.lkg), ValidIncoming(j, l, p)
       PROVE  SafeInv'
  <2>0. a \in Receipt /\ a.id = op.id /\ a.phase = "applied" /\ a # None
    BY <1>2, <1>9 DEF Receipt, Phase
  <2>1. /\ disk.journal \in Mirror /\ disk.lkg \in Mirror
        /\ j \in Receipt \cup {None} /\ l \in Receipt \cup {None}
        /\ \A s \in 1 .. 2 : disk.lkg[s] # None => disk.lkg[s] = l
        /\ l # None => \E s \in 1 .. 2 : disk.lkg[s] = l
        /\ l # None => l.phase = "applied" /\ Evidence(disk.sealed, l.id)
    BY <1>3, <1>4, <1>9, <1>12, LoadedFacts, DiskFields DEF OpInv, Proven
  <2>2. /\ jw \in Seq(FileWrite) /\ lw \in Seq(FileWrite) /\ <<>> \in Seq(FileWrite)
    BY <1>5, <1>6, <2>0, <2>1, SaveWritesFacts
  <2>3. PICK b : b = op'
    OBVIOUS
  <2>4. CASE j = a /\ Continue("clean", "applied", lw)
    <3>1. /\ b \in Op /\ b.pc = "clean" /\ b.id = op.id /\ b.phase = "applied" /\ b.writes = lw
          /\ UNCHANGED <<disk, served, runtime, up, lease, callback, failed, current,
                         faults, exactRetry>>
      BY <1>9, <2>2, <2>3, <2>4, ContinueFacts DEF PCs, Phase
    <3>2. OpInv(disk, b)
      <4>1. b.writes = <<>> \/ b.writes = SaveWrites("lkg", disk.lkg, a)
        BY <3>1, <1>6
      <4> QED
        BY <1>2, <1>3, <1>9, <1>12, <2>4, <3>1, <4>1, FoundApplied
    <3> QED
      BY <1>9, <2>3, <3>1, <3>2, ContinueSafe
  <2>5. CASE j # a /\ j = None /\ l = a /\ Continue("clean", "applied", jw)
    <3>1. /\ b \in Op /\ b.pc = "clean" /\ b.id = op.id /\ b.phase = "applied" /\ b.writes = jw
          /\ UNCHANGED <<disk, served, runtime, up, lease, callback, failed, current,
                         faults, exactRetry>>
      BY <1>9, <2>2, <2>3, <2>5, ContinueFacts DEF PCs, Phase
    <3>2. ReceiptOf(b) = a
      BY <3>1, <1>2 DEF ReceiptOf
    <3>3. /\ b.writes = <<>> \o SaveWrites("journal", disk.journal, ReceiptOf(b))
          /\ Pending(<<>>) = {}
      BY <3>1, <3>2, <1>5, <2>2 DEF Pending
    <3>4. Shape(b) /\ Past(b)
      BY <3>1, <1>9 DEF Shape, Past, PhaseOf
    <3>5. Evidence(disk.sealed, b.id)
      BY <3>1, <2>0, <2>1, <2>5
    <3>6. \A s \in 1 .. 2 : disk.lkg[s] # None => disk.lkg[s] = ReceiptOf(b)
      BY <3>2, <2>1, <2>5
    <3>7. OpInv(disk, b)
      BY <1>9, <2>2, <3>1, <3>3, <3>4, <3>5, <3>6, Records
    <3> QED
      BY <1>9, <2>3, <3>1, <3>7, ContinueSafe
  <2>6. CASE /\ j # a /\ ~(j = None /\ l = a) /\ latest # None /\ latest.id = op.id
             /\ Continue("baseline", latest.phase, <<>>)
    <3>1. j # None /\ latest = j
      <4>1. SUFFICES ASSUME j = None PROVE FALSE
        BY <1>7
      <4>2. l # None /\ l.id = op.id /\ l.phase = "applied"
        BY <4>1, <1>7, <2>1, <2>6
      <4>3. l = a
        BY <4>2, <2>1, <1>2, ReceiptFields
      <4> QED
        BY <4>1, <4>3, <2>6
    <3>2. j \in Receipt /\ j.id = op.id /\ j.phase \in Phase
      BY <3>1, <2>1, <2>6, ReceiptFields
    <3>3. j.phase # "applied"
      BY <3>2, <2>6, <1>2, ReceiptFields
    <3>4. /\ b \in Op /\ b.pc = "baseline" /\ b.id = op.id /\ b.phase = j.phase /\ b.writes = <<>>
          /\ UNCHANGED <<disk, served, runtime, up, lease, callback, failed, current,
                         faults, exactRetry>>
      BY <1>9, <2>2, <2>3, <2>6, <3>1, <3>2, ContinueFacts DEF PCs
    <3>5. OpInv(disk, b)
      BY <1>3, <1>9, <1>12, <3>2, <3>3, <3>4, FoundUnfinished
    <3> QED
      BY <1>9, <2>3, <3>4, <3>5, ContinueSafe
  <2>7. CASE ~(latest # None /\ latest.id = op.id) /\ SaveJournal(latest, "prepared", "baseline")
    <3>1. /\ j # None => j.id # op.id
          /\ j = None /\ l # None => l.id # op.id
      BY <2>7, <1>7
    <3>2. \A s \in 1 .. 2 : disk.lkg[s] # None => Newer(op.id, disk.lkg[s].id)
      BY <3>1, <1>1, <1>3, <1>4, <1>9, <1>12, IncomingAhead
    <3> QED
      BY <1>8, <2>7, <3>2, JournalSafe DEF PCs, Phase, PhaseOf
  <2> QED
    BY <1>10, <1>11, <2>4, <2>5, <2>6, <2>7
<1> QED
  BY <1>10, <1>11, <1>12

\* What the adapter's Query leaves to write.
LEMMA QueryFacts ==
  ASSUME SafeInv, NEW pc \in {"step", "inspect"}, At(pc)
  PROVE  /\ QuerySeals \in Seq(FileWrite)
         /\ \A u \in Pending(QuerySeals) :
              /\ u.file = "sealed" /\ u.value.id = op.id
              /\ u.value.target = disk.baseline.target
              /\ u.value.target.policy = op.id.policy /\ Sealable(disk.sealed, u.value)
              /\ \A v \in Pending(QuerySeals) : v.value = u.value
         /\ RuntimeState \in {"target", "observed"} =>
              \/ Evidence(disk.sealed, op.id)
              \/ QuerySeals # <<>> /\ Head(QuerySeals).file = "sealed"
<1>1. /\ disk.baseline # None /\ disk.baseline.id = op.id /\ disk.baseline.target \in Config
      /\ disk.baseline.target.policy = op.id.policy /\ op.id \in Id
  BY StepFacts
<1>2. PICK r : r = Seal(op.id)
  OBVIOUS
<1>3. /\ r \in RuntimeReceipt /\ r.id = op.id /\ r.target = disk.baseline.target
      /\ r # None
  BY <1>1, <1>2 DEF Seal, RuntimeReceipt
<1>4. PICK u : u = Write("sealed", 0, r)
  OBVIOUS
<1>5. u \in FileWrite /\ u.file = "sealed" /\ u.value = r
  BY <1>3, <1>4 DEF FileWrite, SealedWrite, Write
<1>6. /\ <<u>> \in Seq(FileWrite) /\ Pending(<<u>>) = {u} /\ Head(<<u>>) = u /\ <<u>> # <<>>
      /\ Pending(<<>>) = {} /\ <<>> \in Seq(FileWrite)
  BY <1>5, PendingOne
<1>7. RuntimeState = "observed" => Sealable(disk.sealed, r) /\ QuerySeals = <<u>>
  BY <1>2, <1>4 DEF RuntimeState, CanSeal, Sealable, QuerySeals
<1>8. RuntimeState # "observed" => QuerySeals = <<>>
  BY DEF QuerySeals
<1>9. RuntimeState = "target" => disk.sealed = r
  BY <1>2 DEF RuntimeState
<1>10. RuntimeState = "target" => Evidence(disk.sealed, op.id)
  BY <1>1, <1>3, <1>9 DEF Evidence
<1>11. CASE RuntimeState = "observed"
  <2>1. QuerySeals = <<u>> /\ Sealable(disk.sealed, r)
    BY <1>7, <1>11
  <2>2. r.target.policy = op.id.policy
    BY <1>1, <1>3
  <2> QED
    BY <2>1, <2>2, <1>3, <1>5, <1>6
<1>12. CASE RuntimeState # "observed"
  BY <1>6, <1>8, <1>10, <1>12
<1> QED
  BY <1>11, <1>12

\* A call that knows the runtime's state records it.
LEMMA KnownSafe ==
  ASSUME SafeInv, NEW from \in {"step", "inspect"}, At(from),
         NEW r, NEW phase \in {"runtime_intent", "runtime_applied"},
         op.phase # "applied", r = [id |-> op.id, phase |-> phase],
         phase = "runtime_applied" => RuntimeState \in {"target", "observed"},
         NEW writes, writes = QuerySeals \o SaveWrites("journal", disk.journal, r),
         Continue("step", phase, writes)
  PROVE  SafeInv'
<1>1. /\ disk.baseline # None /\ disk.baseline.id = op.id /\ op.id \in Id /\ op.pc = from
      /\ op.writes = <<>> /\ op \in Op /\ disk \in Disk /\ OpInv(disk, op) /\ Past(op)
  BY StepFacts DEF Past
<1>2. PICK q : q = QuerySeals
  OBVIOUS
<1>3. /\ q \in Seq(FileWrite)
      /\ \A u \in Pending(q) :
           /\ u.file = "sealed" /\ u.value.id = op.id /\ u.value.target.policy = op.id.policy
           /\ Sealable(disk.sealed, u.value) /\ \A v \in Pending(q) : v.value = u.value
      /\ phase = "runtime_applied" => \/ Evidence(disk.sealed, op.id)
                                      \/ q # <<>> /\ Head(q).file = "sealed"
  BY <1>2, QueryFacts
<1>4. PICK sw : sw = SaveWrites("journal", disk.journal, r)
  OBVIOUS
<1>5. r \in Receipt /\ disk.journal \in Mirror
  BY <1>1, DiskFields DEF Receipt, Phase
<1>6. sw \in Seq(FileWrite) /\ q \o sw \in Seq(FileWrite)
  BY <1>3, <1>4, <1>5, SaveWritesFacts, PendingConcat
<1>7. PICK b : b = op'
  OBVIOUS
<1>8. /\ b \in Op /\ b.pc = "step" /\ b.id = op.id /\ b.phase = phase /\ b.writes = q \o sw
      /\ UNCHANGED <<disk, served, runtime, up, lease, callback, failed, current,
                     faults, exactRetry>>
  <2>1. writes = q \o sw /\ writes \in Seq(FileWrite)
    BY <1>2, <1>4, <1>6
  <2> QED
    BY <2>1, <1>1, <1>7, ContinueFacts, ZenonT(40) DEF PCs, Phase
<1>9. ReceiptOf(b) = r
  BY <1>8 DEF ReceiptOf
<1>10. Shape(b) /\ Past(b)
  BY <1>1, <1>8 DEF Shape, Past, PhaseOf
<1>11. q # <<>> /\ Head(q).file = "sealed" => SealPends(b)
  <2>1. q # <<>> => q \o sw # <<>> /\ Head(q \o sw) = Head(q)
    BY <1>3, <1>6
  <2> QED
    BY <2>1, <1>8 DEF SealPends
<1>12. OpInv(disk, b)
  <2>1. b.writes = q \o SaveWrites("journal", disk.journal, ReceiptOf(b))
    BY <1>4, <1>8, <1>9
  <2>2. \A s \in 1 .. 2 : disk.lkg[s] # None => Newer(b.id, disk.lkg[s].id)
    BY <1>1, <1>8, Ahead
  <2>3. b.phase \notin {"runtime_applied", "applied"} \/ Evidence(disk.sealed, b.id) \/ SealPends(b)
    BY <1>3, <1>8, <1>11
  <2>4. \A u \in Pending(q) : /\ u.file = "sealed" /\ b.pc = "step" /\ u.value.id = b.id
                              /\ u.value.target.policy = b.id.policy
                              /\ Sealable(disk.sealed, u.value)
                              /\ \A v \in Pending(q) : v.value = u.value
    BY <1>3, <1>8
  <2>5. b \in Op /\ b.id \in Id /\ disk.baseline # None /\ disk.baseline.id = b.id
    BY <1>1, <1>8
  <2>6. q \in Seq(FileWrite) /\ disk \in Disk /\ op \in Op /\ OpInv(disk, op)
    BY <1>1, <1>3
  <2> QED
    BY <1>10, <2>1, <2>2, <2>3, <2>4, <2>5, <2>6, Records
<1> QED
  BY <1>1, <1>7, <1>8, <1>12, ContinueSafe

\* The steps that look at the runtime.
LEMMA RuntimeSafe ==
  ASSUME SafeInv,
         \/ RetryIntent \/ GiveUp \/ InspectPrevious
         \/ \E pc \in {"step", "inspect"} : RuntimeIsTarget(pc) \/ RuntimeIsUnknown(pc)
  PROVE  SafeInv'
<1>1. CASE RetryIntent
  <2>1. PICK r : r = [id |-> op.id, phase |-> "runtime_intent"]
    OBVIOUS
  <2>2. PICK ws : ws = QuerySeals \o SaveWrites("journal", disk.journal, r)
    OBVIOUS
  <2>3. At("step") /\ op.phase = "compensation_pending"
    BY <1>1, Zenon DEF RetryIntent, Step
  <2>4. Refuse \/ Continue("step", "runtime_intent", ws)
    <3>1. r.phase = "runtime_intent"
      BY <2>1
    <3>2. Refuse \/ Continue("step", r.phase, ws)
      BY <1>1, <2>1, <2>2, Zenon DEF RetryIntent, Continues
    <3> QED
      BY <3>1, <3>2, Zenon
  <2>5. CASE Refuse
    BY <2>3, <2>5, RefuseSafe DEF At
  <2>6. CASE Continue("step", "runtime_intent", ws)
    BY <2>1, <2>2, <2>3, <2>6, KnownSafe
  <2> QED
    BY <2>4, <2>5, <2>6
<1>2. CASE GiveUp
  <2>1. At("giveup") /\ Refuse
    BY <1>2, Zenon DEF GiveUp
  <2> QED
    BY <2>1, RefuseSafe DEF At
<1>3. CASE InspectPrevious
  <2>1. At("inspect") /\ Refuse
    BY <1>3, Zenon DEF InspectPrevious
  <2> QED
    BY <2>1, RefuseSafe DEF At
<1>4. ASSUME NEW pc \in {"step", "inspect"}, RuntimeIsTarget(pc)
      PROVE  SafeInv'
  <2>1. PICK r : r = [id |-> op.id, phase |-> "runtime_applied"]
    OBVIOUS
  <2>2. PICK ws : ws = QuerySeals \o SaveWrites("journal", disk.journal, r)
    OBVIOUS
  <2>3. At(pc) /\ op.phase = "runtime_intent" /\ RuntimeState \in {"target", "observed"}
    BY <1>4, Zenon DEF RuntimeIsTarget
  <2>4. Refuse \/ Continue("step", "runtime_applied", ws)
    <3>1. r.phase = "runtime_applied"
      BY <2>1
    <3>2. Refuse \/ Continue("step", r.phase, ws)
      BY <1>4, <2>1, <2>2, Zenon DEF RuntimeIsTarget, Continues
    <3> QED
      BY <3>1, <3>2, Zenon
  <2>5. CASE Refuse
    BY <2>3, <2>5, RefuseSafe DEF At
  <2>6. CASE Continue("step", "runtime_applied", ws)
    BY <2>1, <2>2, <2>3, <2>6, KnownSafe
  <2> QED
    BY <2>4, <2>5, <2>6
<1>5. ASSUME NEW pc \in {"step", "inspect"}, RuntimeIsUnknown(pc)
      PROVE  SafeInv'
  <2>1. /\ At(pc) /\ op.phase = "runtime_intent"
        /\ Refuse \/ SaveJournal(ThisReceipt, "compensation_pending", "giveup")
    BY <1>5, Zenon DEF RuntimeIsUnknown
  <2>2. CASE Refuse
    BY <2>1, <2>2, RefuseSafe DEF At
  <2>3. CASE SaveJournal(ThisReceipt, "compensation_pending", "giveup")
    BY <2>1, <2>3, StepFacts, SaveJournalSafe DEF PCs, Phase, PhaseOf
  <2> QED
    BY <2>1, <2>2, <2>3
<1> QED
  BY <1>1, <1>2, <1>3, <1>4, <1>5

\* The journal says applied only after the runtime receipt is written.
LEMMA RecordAppliedSafe ==
  ASSUME SafeInv, RecordApplied
  PROVE  SafeInv'
<1>1. At("step") /\ op.phase = "runtime_applied" /\ SaveJournal(ThisReceipt, "applied", "lkg")
  BY Zenon DEF RecordApplied, Step
<1>2. Evidence(disk.sealed, op.id)
  BY <1>1, StepFacts DEF OpInv, Proven, SealPends
<1> QED
  BY <1>1, <1>2, StepFacts, SaveJournalSafe DEF PCs, Phase, PhaseOf

\* The LKG follows the journal, the baseline's removal follows the LKG.
LEMMA CleanSafe ==
  ASSUME SafeInv, SaveLKG \/ DeleteBaseline
  PROVE  SafeInv'
<1>0. PICK b : b = op'
  OBVIOUS
<1>1. CASE SaveLKG
  <2>1. PICK r : r = ThisReceipt
    OBVIOUS
  <2>2. PICK ws : ws = SaveWrites("lkg", disk.lkg, r)
    OBVIOUS
  <2>3. At("lkg") /\ (Refuse \/ Continue("clean", "applied", ws))
    BY <1>1, <2>1, <2>2, Zenon DEF SaveLKG, Continues
  <2>4. /\ op.pc = "lkg" /\ op.phase = "applied" /\ op.id \in Id /\ op \in Op /\ disk \in Disk
        /\ OpInv(disk, op) /\ disk.lkg \in Mirror
    BY <2>3, StepFacts, DiskFields DEF PhaseOf
  <2>5. r \in Receipt /\ r = ReceiptOf(op)
    BY <2>1, <2>4, OpFields DEF ThisReceipt, ReceiptOf
  <2>6. ws \in Seq(FileWrite) /\ \A u \in Pending(ws) : u.file = "lkg" /\ u.value = r
    BY <2>2, <2>4, <2>5, SaveWritesFacts
  <2>7. CASE Refuse
    BY <2>4, <2>7, RefuseSafe
  <2>8. CASE Continue("clean", "applied", ws)
    <3>1. /\ b \in Op /\ b.pc = "clean" /\ b.id = op.id /\ b.phase = "applied" /\ b.writes = ws
          /\ UNCHANGED <<disk, served, runtime, up, lease, callback, failed, current,
                         faults, exactRetry>>
      BY <1>0, <2>4, <2>6, <2>8, ContinueFacts DEF PCs, Phase
    <3>2. ReceiptOf(b) = r
      BY <3>1, <2>4, <2>5 DEF ReceiptOf
    <3>3. PendingOK(disk, b)
      BY <3>1, <3>2, <2>6 DEF PendingOK
    <3>4. PhaseOf(b.pc, b.phase) /\ b.phase = op.phase
      BY <3>1, <2>4 DEF PhaseOf
    <3> QED
      BY <1>0, <2>3, <3>1, <3>3, <3>4, GoesOnSafe DEF PCs
  <2> QED
    BY <2>3, <2>7, <2>8
<1>2. CASE DeleteBaseline
  <2>1. PICK u : u = Write("baseline", 0, None)
    OBVIOUS
  <2>2. PICK ws : ws = IF disk.baseline = None THEN <<>> ELSE <<u>>
    OBVIOUS
  <2>3. At("clean") /\ (Refuse \/ Continue("publish", "applied", ws))
    BY <1>2, <2>1, <2>2, Zenon DEF DeleteBaseline, Continues
  <2>4. op.pc = "clean" /\ op.phase = "applied" /\ op \in Op /\ disk \in Disk /\ OpInv(disk, op)
    BY <2>3, AtFacts DEF OpInv, Shape, PhaseOf
  <2>5. u \in FileWrite /\ u.file = "baseline" /\ u.value = None
    BY <2>1 DEF FileWrite, BaselineWrite, Write
  <2>6. ws \in Seq(FileWrite) /\ \A v \in Pending(ws) : v = u
    BY <2>2, <2>5, PendingOne
  <2>7. CASE Refuse
    BY <2>4, <2>7, RefuseSafe
  <2>8. CASE Continue("publish", "applied", ws)
    <3>1. /\ b \in Op /\ b.pc = "publish" /\ b.id = op.id /\ b.phase = "applied" /\ b.writes = ws
          /\ UNCHANGED <<disk, served, runtime, up, lease, callback, failed, current,
                         faults, exactRetry>>
      BY <1>0, <2>4, <2>6, <2>8, ContinueFacts DEF PCs, Phase
    <3>2. PendingOK(disk, b)
      BY <3>1, <2>5, <2>6 DEF PendingOK
    <3>3. PhaseOf(b.pc, b.phase) /\ b.phase = op.phase
      BY <3>1, <2>4 DEF PhaseOf
    <3> QED
      BY <1>0, <2>3, <3>1, <3>2, <3>3, GoesOnSafe DEF PCs
  <2> QED
    BY <2>3, <2>7, <2>8
<1> QED
  BY <1>1, <1>2

\* The call ends in good order.
LEMMA PublishSafe ==
  ASSUME SafeInv, Publish
  PROVE  SafeInv'
<1>1. /\ At("publish") /\ served' = [served EXCEPT !.policy = op.id.policy]
      /\ op' = NoOp /\ lease' = FALSE /\ failed' = FALSE /\ up' = "serving"
      /\ UNCHANGED <<disk, runtime, callback, current, faults, exactRetry>>
  BY Zenon DEF Publish
<1>2. op.pc = "publish" /\ op.id \in Id
  BY <1>1, AtFacts
<1>3. served' \in Config
  BY <1>1, <1>2, IdFields DEF SafeInv, Types, Config
<1>4. OpInv(disk, NoOp) /\ NoOp \in Op /\ NoOp.pc = "idle"
  BY EndOp DEF SafeInv, Types, NoOp
<1>5. callback = None
  BY <1>2 DEF SafeInv, Types, Locks
<1>6. Types'
  BY <1>1, <1>3, <1>4 DEF SafeInv, Types
<1> QED
  BY <1>1, <1>4, <1>5, <1>6 DEF SafeInv, Locks

-------------------------------------------------------------------------------
(* The runtime callback *)

\* The call starts the callback and waits for it.
LEMMA CallRuntimeSafe ==
  ASSUME SafeInv, CallRuntime
  PROVE  SafeInv'
<1>1. /\ At("step") /\ op.phase = "runtime_intent" /\ callback' = op.id
      /\ op' = [op EXCEPT !.pc = "called"]
      /\ UNCHANGED <<disk, served, runtime, up, lease, failed, current, faults, exactRetry>>
  BY Zenon DEF CallRuntime, Step
<1>2. /\ disk.baseline # None /\ disk.baseline.id = op.id /\ op.id \in Id /\ op.pc = "step"
      /\ op.writes = <<>> /\ op \in Op /\ disk \in Disk /\ OpInv(disk, op) /\ Past(op)
      /\ \A file, side : ~Pends(op, file, side)
  BY <1>1, StepFacts, AtFacts DEF Past
<1>3. PICK b : b = op'
  OBVIOUS
<1>4. b \in Op /\ b.pc = "called" /\ b.id = op.id /\ b.phase = op.phase /\ b.writes = <<>>
  BY <1>1, <1>2, <1>3 DEF Op, PCs
<1>5. Shape(b) /\ Past(b) /\ PendingOK(disk, b)
  BY <1>1, <1>2, <1>4 DEF Shape, PhaseOf, Past, PendingOK, Pending
<1>6. OpInv(disk, b)
  BY <1>2, <1>4, <1>5, GoesOn
<1>7. CallbackHeld(disk, op.id)
  <2>1. /\ \A s \in 1 .. 2 : disk.journal[s] \in {None, ReceiptOf(op)}
        /\ \E s \in 1 .. 2 : disk.journal[s] = ReceiptOf(op)
    BY <1>2 DEF OpInv, Journalled, Has
  <2> QED
    BY <2>1, <1>2, OpFields DEF CallbackHeld
<1> QED
  BY <1>1, <1>2, <1>3, <1>4, <1>6, <1>7 DEF SafeInv, Types, Locks

\* The caller gives up and the callback keeps the lease.
LEMMA CallTimesOutSafe ==
  ASSUME SafeInv, CallTimesOut
  PROVE  SafeInv'
<1>1. /\ op.pc = "called" /\ faults < MaxFault /\ faults' = faults + 1
      /\ op' = NoOp /\ failed' = TRUE /\ up' = IF up = "starting" THEN "down" ELSE up
      /\ callback' = IF up = "starting" THEN None ELSE callback
      /\ lease' = (up # "starting")
      /\ UNCHANGED <<disk, served, runtime, current, exactRetry>>
  BY Zenon DEF CallTimesOut, Fail
<1>2. OpInv(disk, NoOp) /\ NoOp \in Op /\ NoOp.pc = "idle"
  BY EndOp DEF SafeInv, Types, NoOp
<1>3. faults' \in 0 .. MaxFault
  BY <1>1 DEF SafeInv, Types
<1>4. Types'
  BY <1>1, <1>2, <1>3 DEF SafeInv, Types
<1>5. Locks'
  <2>1. CASE up = "starting"
    BY <2>1, <1>1, <1>2 DEF Locks
  <2>2. CASE up # "starting"
    BY <2>2, <1>1, <1>2 DEF SafeInv, Locks
  <2> QED
    BY <2>1, <2>2
<1> QED
  BY <1>1, <1>2, <1>4, <1>5 DEF SafeInv

\* The end of a callback on a disk whose runtime receipt it may have replaced.
LEMMA CallbackEndsSafe ==
  ASSUME SafeInv, callback # None, CallbackEnds, runtime' \in Policy,
         faults' \in 0 .. MaxFault, disk' \in Disk,
         disk'.journal = disk.journal, disk'.lkg = disk.lkg, disk'.baseline = disk.baseline,
         \/ disk'.sealed = disk.sealed
         \/ disk'.sealed \in RuntimeReceipt /\ Sealable(disk.sealed, disk'.sealed)
  PROVE  SafeInv'
<1>1. /\ callback' = None
      /\ IF op.pc = "called" THEN op' = [op EXCEPT !.pc = "inspect"] /\ UNCHANGED lease
                             ELSE lease' = FALSE /\ UNCHANGED op
      /\ UNCHANGED <<served, up, failed, current, exactRetry>>
  BY Zenon DEF CallbackEnds
<1>2. /\ op \in Op /\ disk \in Disk /\ OpInv(disk, op) /\ lease /\ op.pc \in {"idle", "called"}
      /\ op.writes = <<>>
  BY DEF SafeInv, Types, Locks, OpInv, Shape
<1>3. PICK e : e = disk'
  OBVIOUS
<1>4. OpInv(e, op)
  <2>1. e \in Disk /\ e.journal = disk.journal /\ e.lkg = disk.lkg /\ e.baseline = disk.baseline
    BY <1>3
  <2>2. CASE e.sealed = disk.sealed
    BY <1>2, <2>1, <2>2, SameFiles
  <2>3. CASE e.sealed \in RuntimeReceipt /\ Sealable(disk.sealed, e.sealed)
    <3>1. Pending(op.writes) = {}
      BY <1>2 DEF Pending
    <3>2. Proven(e, op)
      <4>1. op.pc = "idle" \/ op.phase = "runtime_intent"
        BY <1>2 DEF OpInv, Shape, PhaseOf
      <4> QED
        BY <1>2, <2>1, <2>3, <4>1, SealedDisk DEF Proven
    <3> QED
      BY <1>2, <2>1, <3>1, <3>2 DEF OpInv, PendingOK, Journalled, BaselineHeld, Follows
  <2> QED
    BY <1>3, <2>2, <2>3
<1>5. CASE op.pc = "called"
  <2>1. PICK b : b = op'
    OBVIOUS
  <2>2. b \in Op /\ b.pc = "inspect" /\ b.id = op.id /\ b.phase = op.phase /\ b.writes = <<>>
    BY <1>1, <1>2, <1>5, <2>1 DEF Op, PCs
  <2>3. Shape(b) /\ Past(b) /\ Past(op) /\ PendingOK(e, b)
    BY <1>2, <1>5, <2>2 DEF OpInv, Shape, PhaseOf, Past, PendingOK, Pending
  <2>4. e.baseline # None /\ e.baseline.id = op.id
    <3>1. e.baseline = disk.baseline /\ ~Pends(op, "baseline", 0)
      BY <1>2, <1>3 DEF Pends, Pending
    <3> QED
      BY <1>2, <1>5, <3>1 DEF OpInv, BaselineHeld
  <2>5. OpInv(e, b)
    BY <1>2, <1>3, <1>4, <2>2, <2>3, <2>4, GoesOn
  <2>6. lease' = lease
    BY <1>1, <1>5
  <2>7. Types'
    BY <1>1, <2>1, <2>2, <2>6 DEF SafeInv, Types
  <2>8. up' # "down"
    BY <1>1, <1>5 DEF SafeInv, Locks
  <2> QED
    BY <1>1, <1>2, <1>3, <2>1, <2>2, <2>5, <2>6, <2>7, <2>8 DEF SafeInv, Locks
<1>6. CASE op.pc = "idle"
  <2>1. op' = op /\ lease' = FALSE
    BY <1>1, <1>6
  <2>2. Types'
    BY <1>1, <2>1 DEF SafeInv, Types
  <2> QED
    BY <1>1, <1>3, <1>4, <1>6, <2>1, <2>2 DEF SafeInv, Locks
<1> QED
  BY <1>2, <1>5, <1>6

\* The callback changed the runtime, nothing, or the runtime without a receipt.
LEMMA CallbackSafe ==
  ASSUME SafeInv, CallbackSucceeds \/ CallbackFails
  PROVE  SafeInv'
<1>1. callback # None /\ CallbackEnds
  BY Zenon DEF CallbackSucceeds, CallbackFails
<1>2. /\ disk \in Disk /\ callback \in Id /\ disk.baseline # None /\ disk.baseline.id = callback
      /\ disk.baseline.target \in Config /\ disk.baseline.target.policy \in Policy
      /\ runtime \in Policy
  <2>1. disk \in Disk /\ callback \in Id /\ disk.baseline # None /\ disk.baseline.id = callback
        /\ runtime \in Policy
    BY <1>1 DEF SafeInv, Types, Locks, CallbackHeld
  <2>2. disk.baseline \in Baseline
    BY <2>1, DiskFields
  <2> QED
    BY <2>1, <2>2 DEF Baseline, Config
<1>3. CASE CallbackSucceeds
  <2>1. PICK r : r = Seal(callback)
    OBVIOUS
  <2>2. /\ runtime' = disk.baseline.target.policy /\ UNCHANGED faults
        /\ disk' = IF CanSeal(r) THEN [disk EXCEPT !.sealed = r] ELSE disk
    BY <1>3, <2>1, Zenon DEF CallbackSucceeds
  <2>3. r \in RuntimeReceipt
    BY <2>1, <1>2 DEF Seal, RuntimeReceipt
  <2>4. CASE CanSeal(r)
    <3>1. Sealable(disk.sealed, r)
      BY <2>4 DEF CanSeal, Sealable
    <3>2. /\ disk' \in Disk /\ disk'.journal = disk.journal /\ disk'.lkg = disk.lkg
          /\ disk'.baseline = disk.baseline /\ disk'.sealed = r
      BY <2>2, <2>3, <2>4, <1>2 DEF Disk
    <3>3. faults' \in 0 .. MaxFault /\ runtime' \in Policy
      BY <2>2, <1>2 DEF SafeInv, Types
    <3> QED
      BY <1>1, <2>3, <3>1, <3>2, <3>3, CallbackEndsSafe
  <2>5. CASE ~CanSeal(r)
    <3>1. disk' = disk
      BY <2>2, <2>5
    <3>2. faults' \in 0 .. MaxFault /\ runtime' \in Policy
      BY <2>2, <1>2 DEF SafeInv, Types
    <3> QED
      BY <1>1, <1>2, <3>1, <3>2, CallbackEndsSafe
  <2> QED
    BY <2>4, <2>5
<1>4. CASE CallbackFails
  <2>1. /\ runtime' \in {runtime, disk.baseline.target.policy} /\ UNCHANGED disk
        /\ faults < MaxFault /\ faults' = faults + 1
    BY <1>4, Zenon DEF CallbackFails
  <2>2. faults' \in 0 .. MaxFault /\ runtime' \in Policy
    BY <2>1, <1>2 DEF SafeInv, Types
  <2> QED
    BY <1>1, <1>2, <2>1, <2>2, CallbackEndsSafe
<1> QED
  BY <1>3, <1>4

\* Every step keeps the invariant.
LEMMA NextSafe ==
  ASSUME SafeInv, [Next]_vars
  PROVE  SafeInv'
<1>1. CASE UNCHANGED vars
  BY <1>1, StutterSafe
<1>2. CASE Start \/ Crash \/ ClusterAdvances \/ EditConfig
  BY <1>2, StartSafe, CrashSafe, AdvanceSafe, EditSafe
<1>3. CASE Startup \/ Propose \/ Retry
  BY <1>3, CallsSafe
<1>4. CASE WriteFails \/ CallTimesOut \/ CallbackSucceeds \/ CallbackFails \/ PublishFails
  BY <1>4, WriteFailsSafe, CallTimesOutSafe, CallbackSafe, PublishFailsSafe
<1>5. CASE Apply
  <2>1. CASE ClaimFails \/ Enter \/ WriteOne \/ LoadBaseline
    BY <2>1, ClaimFailsSafe, EnterSafe, WriteOneSafe, LoadBaselineSafe
  <2>2. CASE RecordBaseline \/ RecordYAML \/ RecordIntent \/ ResumeYAML \/ PersistConfig
    BY <2>2, EarlyRecordsSafe, YAMLSafe
  <2>3. CASE \/ RetryIntent \/ GiveUp \/ InspectPrevious
             \/ \E pc \in {"step", "inspect"} : RuntimeIsTarget(pc) \/ RuntimeIsUnknown(pc)
    BY <2>3, RuntimeSafe
  <2>4. CASE CallRuntime \/ RecordApplied \/ SaveLKG \/ DeleteBaseline \/ Publish
    BY <2>4, CallRuntimeSafe, RecordAppliedSafe, CleanSafe, PublishSafe
  <2> QED
    BY <1>5, <2>1, <2>2, <2>3, <2>4, Zenon DEF Apply
<1> QED
  BY <1>1, <1>2, <1>3, <1>4, <1>5, Zenon DEF Next

\* The invariant holds in every reachable state.
LEMMA SafeAlways == Spec => []SafeInv
<1>1. Init => SafeInv
  BY InitSafe
<1>2. SafeInv /\ [Next]_vars => SafeInv'
  BY NextSafe
<1> QED
  BY <1>1, <1>2, PTL DEF Spec

-------------------------------------------------------------------------------
(* Theorems for every caller *)

\* Every variable of the materializer and of its directory keeps the code's types,
\* whatever sequence of commits, crashes, I/O errors and timeouts it meets.
THEOREM MaterializerTyped == Spec => []TypeOK
<1>1. SafeInv => TypeOK
  <2> SUFFICES ASSUME SafeInv PROVE TypeOK
    OBVIOUS
  <2>1. disk.journal \in Mirror /\ disk.lkg \in Mirror
    BY DiskFields DEF SafeInv, Types
  <2>2. {disk.journal, disk.lkg} \subseteq [1 .. 2 -> Receipt \cup {None}]
    BY <2>1 DEF Mirror
  <2>3. disk.yaml \in Config /\ disk.baseline \in Baseline \cup {None}
        /\ disk.sealed \in RuntimeReceipt \cup {None}
    BY DiskFields DEF SafeInv, Types
  <2>4. op.id \in Id \cup {None} /\ op.phase \in Phase
    BY OpFields DEF SafeInv, Types
  <2>5. {lease, failed, exactRetry} \subseteq BOOLEAN
    BY Zenon DEF SafeInv, Types
  <2> QED
    BY <2>2, <2>3, <2>4, <2>5 DEF SafeInv, Types, TypeOK
<1> QED
  BY <1>1, SafeAlways, PTL

\* orchestrator.go:457: an LKG record is never without the runtime receipt that
\* backs it: SaveLKG follows the journal's applied, which follows the receipt, and
\* a receipt is only replaced by a later commit's.
THEOREM LKGIsProvenThm == Spec => []LKGIsProven
<1>1. SafeInv => LKGIsProven
  BY DEF SafeInv, OpInv, Proven, Evidence, LKGIsProven
<1> QED
  BY <1>1, SafeAlways, PTL

\* directory_lock.go:131: a late runtime callback belongs to the journal's newest
\* commit, because it keeps the directory lease that every later call needs.
THEOREM LateCallbackIsCurrentThm == Spec => []LateCallbackIsCurrent
<1>1. SafeInv => LateCallbackIsCurrent
  <2> SUFFICES ASSUME SafeInv, callback # None
               PROVE  /\ Loaded(disk.journal) # None
                      /\ \A s \in 1 .. 2 : disk.journal[s] # None => disk.journal[s].id = callback
    BY DEF LateCallbackIsCurrent
  <2>1. CallbackHeld(disk, callback)
    BY DEF SafeInv, Locks
  <2>2. \A s \in 1 .. 2 : s = 1 \/ s = 2
    OBVIOUS
  <2> QED
    BY <2>1, <2>2 DEF CallbackHeld, Loaded
<1> QED
  BY <1>1, SafeAlways, PTL

\* orchestrator.go:381: each mirror of the journal is at the LKG's commit, applied,
\* or at a later commit, through every half-written pair of mirrors.
THEOREM LKGFollowsJournalThm == Spec => []LKGFollowsJournal
<1>1. SafeInv => LKGFollowsJournal
  BY DEF SafeInv, OpInv, Follows, LKGFollowsJournal
<1> QED
  BY <1>1, SafeAlways, PTL

-------------------------------------------------------------------------------
(* The materializer as serve wires it *)

\* The commits that the files of the directory name.
IdOn(d, i) ==
  \/ \E s \in 1 .. 2 : d.journal[s] # None /\ d.journal[s].id = i
  \/ \E s \in 1 .. 2 : d.lkg[s] # None /\ d.lkg[s].id = i
  \/ d.baseline # None /\ d.baseline.id = i
  \/ d.sealed # None /\ d.sealed.id = i

UpTo(c, i) == i = c \/ Newer(c, i)
AllUpTo(d, c) == \A i \in Id : IdOn(d, i) => UpTo(c, i)
AllBefore(d, c) == \A i \in Id : IdOn(d, i) => Newer(c, i)

\* The configuration that a call is after.
TargetOf(o, sv) == [sv EXCEPT !.policy = o.id.policy]

\* The call has not touched the runtime.
Untouched(o) ==
  \/ o.pc \in {"enter", "baseline", "yaml", "recordyaml", "called"}
  \/ o.pc = "step" /\ o.phase \in {"prepared", "baseline_persisted", "yaml_persisted",
                                   "runtime_intent"}

\* The call has written the YAML.
YAMLDone(o) ==
  \/ o.pc = "step" /\ o.phase \in {"yaml_persisted", "runtime_intent", "runtime_applied"}
  \/ o.pc \in {"called", "inspect", "lkg", "clean", "publish"}

WiredRuntime(d, o, sv, rt) ==
  /\ Untouched(o) => rt = sv.policy
  /\ o.pc \in {"inspect", "giveup"} => rt \in {sv.policy, o.id.policy}
  /\ o.phase \in {"runtime_applied", "applied"} => rt = o.id.policy
  /\ d.sealed # None /\ d.sealed.id = o.id => rt = o.id.policy
  /\ o.pc \in {"called", "inspect"} => sv # d.baseline.target

WiredFiles(d, o, sv) ==
  /\ o.pc = "enter" => AllBefore(d, o.id)
  /\ o.pc = "baseline" => ~(d.baseline # None /\ d.baseline.id = o.id)
  /\ o.pc \notin {"enter", "baseline"} /\ d.baseline # None /\ d.baseline.id = o.id =>
       d.baseline.target = TargetOf(o, sv)
  /\ o.pc = "clean" => d.baseline # None /\ d.baseline.id = o.id
  /\ o.pc = "publish" => d.baseline = None \/ Pends(o, "baseline", 0)
  /\ o.pc \in {"clean", "publish"} => Has("lkg", d.lkg, o)
  /\ YAMLDone(o) => d.yaml = TargetOf(o, sv)
  /\ o.pc = "recordyaml" => d.yaml = TargetOf(o, sv) \/ Pends(o, "yaml", 0)

WiredWrites(o, sv) ==
  /\ o.pc = "baseline" => o.phase = "prepared"
  /\ o.pc = "step" => o.phase # "compensation_pending"
  /\ \A u \in Pending(o.writes) :
       /\ u.file = "baseline" /\ u.value # None =>
            o.phase = "prepared" /\ u.value.target = TargetOf(o, sv)
       /\ u.file = "yaml" => o.pc = "recordyaml" /\ u.value = TargetOf(o, sv)
       /\ u.file = "sealed" => o.phase = "runtime_applied"

WiredOp(d, o, sv, rt) ==
  o.pc # "idle" => WiredRuntime(d, o, sv, rt) /\ WiredFiles(d, o, sv) /\ WiredWrites(o, sv)

Recorded(d, sv, rt) ==
  rt # sv.policy => \/ d.baseline # None /\ d.baseline.target.policy = rt
                    \/ Loaded(d.lkg) # None /\ Loaded(d.lkg).id.policy = rt

AtRest(d, sv, rt, cb) ==
  /\ rt = sv.policy /\ d.yaml = sv
  /\ ~Ambiguous(d.journal) /\ ~Ambiguous(d.lkg)
  /\ Loaded(d.journal) # None /\ Loaded(d.journal) = Loaded(d.lkg)
  /\ Loaded(d.lkg).id.policy = rt
  /\ d.baseline = None /\ cb = None

Wired ==
  /\ WiredOp(disk, op, served, runtime)
  /\ AllUpTo(disk, current)
  /\ op.pc # "idle" => ~failed /\ UpTo(current, op.id)
  /\ op.pc = "idle" /\ up = "starting" =>
       AllBefore(disk, current) /\ runtime = served.policy /\ ~failed /\ callback = None
  /\ op.pc = "idle" /\ up # "down" => Recorded(disk, served, runtime)
  /\ op.pc = "idle" /\ up = "serving" /\ ~failed => AtRest(disk, served, runtime, callback)

WiredInv == ~exactRetry => Wired

\* The fields of a call's target.
LEMMA TargetFields ==
  ASSUME NEW o \in Op, o.id \in Id, NEW sv \in Config
  PROVE  TargetOf(o, sv) \in Config /\ TargetOf(o, sv).policy = o.id.policy
BY IdFields DEF TargetOf, Config

\* While a call runs, what the runtime enforces is published or on record.
LEMMA OpRecorded ==
  ASSUME NEW d \in Disk, NEW o \in Op, OpInv(d, o), o.pc # "idle", NEW sv \in Config, NEW rt,
         WiredOp(d, o, sv, rt)
  PROVE  Recorded(d, sv, rt)
<1> USE DEF WiredOp
<1>1. /\ o.id \in Id /\ o.pc \in PCs /\ o.phase \in Phase /\ TargetOf(o, sv).policy = o.id.policy
      /\ ReceiptOf(o) # None /\ ReceiptOf(o).id = o.id
  BY OpFields, TargetFields DEF OpInv, Shape
<1>2. CASE Untouched(o)
  BY <1>2 DEF WiredRuntime, Recorded
<1>3. CASE o.pc \in {"inspect", "giveup", "lkg"} \/ (o.pc = "step" /\ o.phase = "runtime_applied")
  <2>1. ~Pends(o, "baseline", 0)
    BY <1>3 DEF OpInv, PendingOK, WiredWrites, Pends
  <2>2. d.baseline # None /\ d.baseline.id = o.id
    BY <1>3, <2>1 DEF OpInv, BaselineHeld
  <2>3. d.baseline.target.policy = o.id.policy
    BY <2>2 DEF OpInv, BaselineHeld
  <2>4. rt \in {sv.policy, o.id.policy}
    BY <1>3 DEF WiredRuntime, OpInv, Shape, PhaseOf
  <2> QED
    BY <2>2, <2>3, <2>4 DEF Recorded
<1>4. CASE o.pc = "clean"
  <2>1. d.baseline # None /\ d.baseline.id = o.id
    BY <1>4 DEF WiredFiles
  <2>2. rt = o.id.policy
    BY <1>4 DEF WiredRuntime, OpInv, Shape, PhaseOf
  <2> QED
    BY <2>1, <2>2 DEF OpInv, BaselineHeld, Recorded
<1>5. CASE o.pc = "publish"
  <2>1. rt = o.id.policy
    BY <1>5 DEF WiredRuntime, OpInv, Shape, PhaseOf
  <2>2. \A s \in 1 .. 2 : ~Pends(o, "lkg", s)
    BY <1>5 DEF OpInv, PendingOK, Pends
  <2>3. /\ \A s \in 1 .. 2 : d.lkg[s] \in {None, ReceiptOf(o)}
        /\ \E s \in 1 .. 2 : d.lkg[s] = ReceiptOf(o)
    BY <1>5, <2>2 DEF WiredFiles, Has
  <2>4. Loaded(d.lkg) = ReceiptOf(o)
    <3>1. \A s \in 1 .. 2 : s = 1 \/ s = 2
      OBVIOUS
    <3> QED
      BY <2>3, <3>1, <1>1 DEF Loaded
  <2> QED
    BY <2>1, <2>4, <1>1 DEF Recorded
<1>6. \/ Untouched(o) \/ o.pc \in {"inspect", "giveup", "lkg", "clean", "publish"}
      \/ (o.pc = "step" /\ o.phase = "runtime_applied")
  BY <1>1 DEF PCs, Phase, Untouched, OpInv, Shape, PhaseOf, WiredWrites
<1> QED
  BY <1>2, <1>3, <1>4, <1>5, <1>6

\* A write that ends keeps what the wiring says of the call.
LEMMA WriteWired ==
  ASSUME NEW d \in Disk, NEW o \in Op, OpInv(d, o), o.writes # <<>>, NEW sv \in Config, NEW rt,
         WiredOp(d, o, sv, rt),
         NEW b, b = [o EXCEPT !.writes = Tail(@)], NEW e, e = Written(d, Head(o.writes))
  PROVE  WiredOp(e, b, sv, rt)
<1>0. PICK h : h = Head(o.writes)
  OBVIOUS
<1>1. /\ h \in Pending(o.writes)
      /\ \A u \in Pending(o.writes) : u = h \/ u \in Pending(Tail(o.writes))
      /\ \A u \in Pending(Tail(o.writes)) : u \in Pending(o.writes)
      /\ Tail(o.writes) \in Seq(FileWrite)
  BY <1>0, PendingHead, OpFields
<1>2. /\ b \in Op /\ b.pc = o.pc /\ b.id = o.id /\ b.phase = o.phase /\ b.writes = Tail(o.writes)
  BY <1>1 DEF Op
<1>3. o.pc \notin {"idle", "enter", "called", "inspect"} /\ o.id \in Id
  BY DEF OpInv, Shape
<1>4. /\ ReceiptOf(b) = ReceiptOf(o) /\ TargetOf(b, sv) = TargetOf(o, sv)
      /\ ReceiptOf(o).id = o.id
  BY <1>2, OpFields DEF ReceiptOf, TargetOf
<1>5. /\ h.file = "journal" => /\ e.lkg = d.lkg /\ h.side \in 1 .. 2
                               /\ e.journal = [d.journal EXCEPT ![h.side] = ReceiptOf(o)]
      /\ h.file = "lkg" => /\ e.journal = d.journal /\ h.side \in 1 .. 2 /\ o.pc = "clean"
                           /\ e.lkg = [d.lkg EXCEPT ![h.side] = ReceiptOf(o)]
      /\ h.file \notin {"journal", "lkg"} => e.journal = d.journal /\ e.lkg = d.lkg
      /\ h.file # "sealed" => e.sealed = d.sealed
      /\ h.file # "baseline" => e.baseline = d.baseline
      /\ h.file # "yaml" => e.yaml = d.yaml
      /\ h.file = "sealed" => e.sealed = h.value /\ h.value \in RuntimeReceipt
      /\ h.file = "baseline" => e.baseline = h.value
      /\ h.file = "yaml" => e.yaml = h.value
  BY <1>0, WriteEffects
<1>6. \A file, side : Pends(o, file, side) =>
        Pends(b, file, side) \/ (h.file = file /\ h.side = side)
  BY <1>1, <1>2 DEF Pends
<1>7. WiredRuntime(d, o, sv, rt) /\ WiredFiles(d, o, sv) /\ WiredWrites(o, sv)
  BY <1>3 DEF WiredOp
<1>8. /\ h.file = "sealed" => o.phase = "runtime_applied"
      /\ h.file = "yaml" => o.pc = "recordyaml" /\ h.value = TargetOf(o, sv)
      /\ h.file = "baseline" =>
           \/ h.value = None /\ o.pc = "publish"
           \/ h.value # None /\ h.value.id = o.id /\ o.pc = "step" /\ h.value.target = TargetOf(o, sv)
      /\ h.file = "sealed" => h.value.id = o.id
  BY <1>1, <1>7 DEF WiredWrites, OpInv, PendingOK
<1>9. WiredRuntime(e, b, sv, rt)
  BY <1>2, <1>3, <1>5, <1>7, <1>8 DEF WiredRuntime, Untouched
<1>10. WiredWrites(b, sv)
  BY <1>1, <1>2, <1>4, <1>7 DEF WiredWrites
<1>11. WiredFiles(e, b, sv)
  <2>1. ASSUME b.pc \in {"clean", "publish"} PROVE Has("lkg", e.lkg, b)
    <3>1. Has("lkg", d.lkg, o)
      BY <1>2, <1>7, <2>1 DEF WiredFiles
    <3>2. CASE h.file = "lkg"
      <4>1. e.lkg[h.side] = ReceiptOf(b)
        BY <3>2, <1>4, <1>5, DiskFields DEF Mirror
      <4>2. ASSUME NEW s \in 1 .. 2
            PROVE  e.lkg[s] \in {None, ReceiptOf(b)} \/ Pends(b, "lkg", s)
        <5>1. CASE s = h.side
          BY <5>1, <4>1
        <5>2. CASE s # h.side
          <6>1. e.lkg[s] = d.lkg[s]
            BY <5>2, <3>2, <1>5, DiskFields DEF Mirror
          <6> QED
            BY <6>1, <5>2, <3>1, <1>4, <1>6 DEF Has
        <5> QED
          BY <5>1, <5>2
      <4> QED
        BY <4>1, <4>2, <3>2, <1>5 DEF Has
    <3>3. CASE h.file # "lkg"
      <4>1. e.lkg = d.lkg
        BY <3>3, <1>5
      <4> QED
        BY <4>1, <3>1, <3>3, <1>4, <1>6 DEF Has
    <3> QED
      BY <3>2, <3>3
  <2>2. b.pc = "publish" => e.baseline = None \/ Pends(b, "baseline", 0)
    BY <1>2, <1>5, <1>6, <1>7, <1>8 DEF WiredFiles
  <2>3. b.pc = "clean" => e.baseline # None /\ e.baseline.id = b.id
    BY <1>2, <1>5, <1>7, <1>8 DEF WiredFiles
  <2>4. e.baseline # None /\ e.baseline.id = b.id /\ b.pc # "baseline" => e.baseline.target = TargetOf(b, sv)
    BY <1>2, <1>3, <1>4, <1>5, <1>7, <1>8 DEF WiredFiles
  <2>5. YAMLDone(b) => e.yaml = TargetOf(b, sv)
    BY <1>2, <1>4, <1>5, <1>7, <1>8 DEF WiredFiles, YAMLDone
  <2>6. b.pc = "recordyaml" => e.yaml = TargetOf(b, sv) \/ Pends(b, "yaml", 0)
    BY <1>2, <1>4, <1>5, <1>6, <1>7, <1>8 DEF WiredFiles
  <2>7. b.pc = "baseline" => ~(e.baseline # None /\ e.baseline.id = b.id)
    BY <1>2, <1>5, <1>7, <1>8 DEF WiredFiles
  <2> QED
    BY <1>2, <1>3, <2>1, <2>2, <2>3, <2>4, <2>5, <2>6, <2>7 DEF WiredFiles
<1> QED
  BY <1>9, <1>10, <1>11 DEF WiredOp

\* A write brings no commit to the disk but the call's.
LEMMA WriteIds ==
  ASSUME NEW d \in Disk, NEW o \in Op, OpInv(d, o), o.writes # <<>>,
         NEW e, e = Written(d, Head(o.writes))
  PROVE  \A i \in Id : IdOn(e, i) => IdOn(d, i) \/ i = o.id
<1>0. PICK h : h = Head(o.writes)
  OBVIOUS
<1>1. h \in Pending(o.writes) /\ ReceiptOf(o).id = o.id
  BY <1>0, PendingHead, OpFields
<1>2. /\ h.file = "journal" => /\ e.lkg = d.lkg /\ h.side \in 1 .. 2
                               /\ e.journal = [d.journal EXCEPT ![h.side] = ReceiptOf(o)]
      /\ h.file = "lkg" => /\ e.journal = d.journal /\ h.side \in 1 .. 2
                           /\ e.lkg = [d.lkg EXCEPT ![h.side] = ReceiptOf(o)]
      /\ h.file \notin {"journal", "lkg"} => e.journal = d.journal /\ e.lkg = d.lkg
      /\ h.file # "sealed" => e.sealed = d.sealed
      /\ h.file # "baseline" => e.baseline = d.baseline
      /\ h.file = "sealed" => e.sealed = h.value
      /\ h.file = "baseline" => e.baseline = h.value
  BY <1>0, WriteEffects
<1>3. /\ h.file = "baseline" => h.value = None \/ h.value.id = o.id
      /\ h.file = "sealed" => h.value.id = o.id
  BY <1>1 DEF OpInv, PendingOK
<1>4. \A s \in 1 .. 2 : /\ e.journal[s] = d.journal[s] \/ e.journal[s] = ReceiptOf(o)
                        /\ e.lkg[s] = d.lkg[s] \/ e.lkg[s] = ReceiptOf(o)
  BY <1>2, DiskFields DEF Mirror
<1>5. e.baseline = d.baseline \/ e.baseline = None \/ e.baseline.id = o.id
  BY <1>2, <1>3
<1>6. e.sealed = d.sealed \/ e.sealed.id = o.id
  BY <1>2, <1>3
<1> QED
  BY <1>1, <1>4, <1>5, <1>6 DEF IdOn

\* Commits on a disk after a write are no later than before or the call's.
LEMMA StillUpTo ==
  ASSUME NEW d, NEW e, NEW c \in Id, NEW x \in Id, AllUpTo(d, c), UpTo(c, x),
         \A i \in Id : IdOn(e, i) => IdOn(d, i) \/ i = x
  PROVE  AllUpTo(e, c)
BY DEF AllUpTo

\* A later commit is newer than all that the earlier one was not behind.
LEMMA LaterCommit ==
  ASSUME NEW d, NEW c \in Id, NEW n \in Id, Newer(n, c), AllUpTo(d, c)
  PROVE  AllBefore(d, n) /\ AllUpTo(d, n) /\ \A i \in Id : UpTo(c, i) => UpTo(n, i)
<1>1. \A i \in Id : UpTo(c, i) => Newer(n, i)
  BY NewerTransitive DEF UpTo
<1> QED
  BY <1>1 DEF AllUpTo, AllBefore, UpTo

-------------------------------------------------------------------------------
(* Steps under the wiring: what is not the call's own *)

\* The wiring's invariant holds initially.
LEMMA InitWired == Init => WiredInv
<1> SUFFICES ASSUME Init, ~exactRetry PROVE Wired
  BY DEF WiredInv
<1>1. op.pc = "idle" /\ up = "down"
  BY DEF Init, NoOp
<1>2. ASSUME NEW i \in Id, IdOn(disk, i) PROVE i = current
  <2>1. PICK a : a = [id |-> FirstId(InitialPolicy), phase |-> "applied"]
    OBVIOUS
  <2>2. CASE disk = FreshDisk
    BY <1>2, <2>2 DEF IdOn, FreshDisk
  <2>3. CASE disk = JournalRemoved /\ disk # FreshDisk
    <3>1. current = FirstId(InitialPolicy)
      BY <2>3 DEF Init
    <3>2. a.id = current
      BY <2>1, <3>1
    <3>3. disk = [FreshDisk EXCEPT !.lkg = <<a, a>>, !.sealed = [id |-> a.id, target |-> FreshDisk.yaml]]
      BY <2>1, <2>3, Zenon DEF JournalRemoved
    <3>4. PICK e : e = [FreshDisk EXCEPT !.lkg = <<a, a>>]
      OBVIOUS
    <3>5. disk = [e EXCEPT !.sealed = [id |-> a.id, target |-> FreshDisk.yaml]]
      BY <3>3, <3>4
    <3>6. e.journal = <<None, None>> /\ e.lkg = <<a, a>> /\ e.baseline = None
          /\ DOMAIN e = {"journal", "lkg", "baseline", "sealed", "yaml"}
      BY <3>4 DEF FreshDisk
    <3>7. disk.journal = <<None, None>> /\ disk.lkg = <<a, a>> /\ disk.baseline = None
          /\ disk.sealed = [id |-> a.id, target |-> FreshDisk.yaml]
      BY <3>5, <3>6
    <3>8. /\ disk.sealed.id = current
          /\ \A s \in 1 .. 2 : disk.journal[s] = None /\ disk.lkg[s] = a
      BY <3>2, <3>7
    <3> QED
      BY <1>2, <3>2, <3>7, <3>8 DEF IdOn
  <2> QED
    BY <2>2, <2>3 DEF Init
<1> QED
  BY <1>1, <1>2 DEF Wired, WiredOp, AllUpTo, UpTo

\* The wiring's invariant depends on these variables only.
LEMMA StutterWired ==
  ASSUME Wired, UNCHANGED vars
  PROVE  Wired'
BY DEF Wired, vars

\* A new process has a new epoch, so its startup commit is newer than all on disk.
LEMMA StartWired ==
  ASSUME SafeInv, Wired, ~exactRetry, Start
  PROVE  Wired'
<1>0. current \in Id /\ op.pc = "idle" /\ callback = None
  <2>1. up = "down"
    BY Zenon DEF Start
  <2> QED
    BY <2>1 DEF SafeInv, Types, Locks
<1>1. PICK n : n = current'
  OBVIOUS
<1>2. /\ up' = "starting" /\ served' = disk.yaml /\ runtime' = disk.yaml.policy /\ failed' = FALSE
      /\ UNCHANGED <<disk, op, lease, callback, faults, exactRetry>>
  BY Zenon DEF Start
<1>3. n = [current EXCEPT !.epoch = current.epoch + 1] /\ current.epoch + 1 <= MaxEpoch
  <2>1. PICK x \in {current.epoch + 1} \cup (IF exactRetry THEN {current.epoch} ELSE {}) :
          x <= MaxEpoch /\ current' = [current EXCEPT !.epoch = x]
    BY Zenon DEF Start
  <2>2. x = current.epoch + 1
    BY <2>1
  <2> QED
    BY <1>1, <2>1, <2>2
<1>4. n \in Id /\ Newer(n, current)
  <2>1. current.epoch + 1 \in 1 .. MaxEpoch
    BY <1>0, <1>3, IdFields
  <2>2. n \in Id /\ n.epoch = current.epoch + 1
    BY <1>0, <1>3, <2>1 DEF Id
  <2> QED
    BY <1>0, <2>2, IdFields DEF Newer
<1>5. AllBefore(disk, n) /\ AllUpTo(disk, n)
  BY <1>0, <1>4, LaterCommit DEF Wired
<1>6. WiredOp(disk, op, served', runtime') /\ Recorded(disk, served', runtime')
  BY <1>0, <1>2 DEF WiredOp, Recorded
<1> QED
  BY <1>0, <1>1, <1>2, <1>5, <1>6 DEF Wired

\* A crash leaves nothing running.
LEMMA CrashWired ==
  ASSUME SafeInv, Wired, Crash
  PROVE  Wired'
<1>1. /\ up' = "down" /\ op' = NoOp
      /\ UNCHANGED <<disk, served, runtime, failed, current, exactRetry>>
  BY Zenon DEF Crash
<1>2. NoOp.pc = "idle"
  BY DEF NoOp
<1> QED
  BY <1>1, <1>2 DEF Wired, WiredOp

\* The cluster's commits only grow.
LEMMA AdvanceWired ==
  ASSUME SafeInv, Wired, ClusterAdvances
  PROVE  Wired'
<1>0. current \in Id /\ current' \in Id /\ (op.pc # "idle" => op.id \in Id)
  <2>1. SafeInv'
    BY AdvanceSafe
  <2> QED
    BY <2>1 DEF SafeInv, Types, OpInv, Shape
<1>1. PICK n : n = current'
  OBVIOUS
<1>2. Newer(n, current)
  <2>1. \/ current' = [current EXCEPT !.epoch = @ + 1]
        \/ \E p \in Policy :
             current' = [epoch |-> current.epoch + 1, revision |-> current.revision + 1,
                         policy |-> p]
    BY Zenon DEF ClusterAdvances
  <2>2. n.epoch = current.epoch + 1
    BY <1>0, <1>1, <2>1 DEF Id
  <2> QED
    BY <1>0, <1>1, <2>2, IdFields DEF Newer
<1>3. UNCHANGED <<disk, served, runtime, up, op, lease, callback, failed, faults, exactRetry>>
  BY Zenon DEF ClusterAdvances
<1>4. n \in Id
  BY <1>0, <1>1
<1>5. AllUpTo(disk, n) /\ AllBefore(disk, n) /\ \A i \in Id : UpTo(current, i) => UpTo(n, i)
  BY <1>0, <1>2, <1>4, LaterCommit DEF Wired
<1> QED
  BY <1>0, <1>1, <1>3, <1>5 DEF Wired

\* An edit of another setting keeps YAML and published configuration equal.
LEMMA EditWired ==
  ASSUME SafeInv, Wired, EditConfig
  PROVE  Wired'
<1>1. /\ up = "serving" /\ op.pc = "idle" /\ served' = [served EXCEPT !.rest = 1]
      /\ disk' = [disk EXCEPT !.yaml = served']
      /\ UNCHANGED <<runtime, up, op, lease, callback, failed, current, faults, exactRetry>>
  BY Zenon DEF EditConfig
<1>2. PICK e : e = disk'
  OBVIOUS
<1>3. PICK sv : sv = served'
  OBVIOUS
<1>4. sv.policy = served.policy
  BY <1>1, <1>3 DEF SafeInv, Types, Config
<1>5. /\ e.journal = disk.journal /\ e.lkg = disk.lkg /\ e.baseline = disk.baseline
      /\ e.sealed = disk.sealed /\ e.yaml = sv
  BY <1>1, <1>2, <1>3 DEF SafeInv, Types, Disk
<1>6. AllUpTo(e, current)
  BY <1>5 DEF Wired, AllUpTo, IdOn
<1>7. Recorded(e, sv, runtime)
  BY <1>1, <1>4, <1>5 DEF Wired, Recorded
<1>8. ~failed => AtRest(e, sv, runtime, callback)
  BY <1>1, <1>4, <1>5 DEF Wired, AtRest
<1>9. WiredOp(e, op, sv, runtime)
  BY <1>1 DEF WiredOp
<1> QED
  BY <1>1, <1>2, <1>3, <1>6, <1>7, <1>8, <1>9 DEF Wired

\* A call begins for a commit newer than all on disk, with the runtime as published.
LEMMA BeginWired ==
  ASSUME SafeInv, Wired, NEW id \in Id, Begin(id), AllBefore(disk, id), runtime = served.policy,
         ~failed, AllUpTo(disk, current'), UpTo(current', id),
         UNCHANGED <<disk, served, runtime, up, callback, failed, faults, exactRetry>>
  PROVE  Wired'
<1>1. op' = [NoOp EXCEPT !.pc = "enter", !.id = id]
  BY Zenon DEF Begin
<1>2. PICK b : b = op'
  OBVIOUS
<1>3. b = [pc |-> "enter", id |-> id, phase |-> "prepared", writes |-> <<>>]
  BY <1>1, <1>2 DEF NoOp
<1>4. b.pc = "enter" /\ b.id = id /\ b.phase = "prepared" /\ Pending(b.writes) = {}
  BY <1>3 DEF Pending
<1>5. ~(disk.sealed # None /\ disk.sealed.id = id)
  <2>1. ~Newer(id, id)
    BY NewerStrict
  <2> QED
    BY <2>1 DEF AllBefore, IdOn
<1>6. WiredRuntime(disk, b, served, runtime)
  BY <1>4, <1>5 DEF WiredRuntime
<1>7. WiredFiles(disk, b, served) /\ WiredWrites(b, served)
  BY <1>4 DEF WiredFiles, WiredWrites, YAMLDone
<1> QED
  BY <1>2, <1>4, <1>6, <1>7 DEF Wired, WiredOp

\* Startup and Propose begin a call; Retry is not part of the wiring.
LEMMA CallsWired ==
  ASSUME SafeInv, Wired, ~exactRetry, Startup \/ Propose \/ Retry
  PROVE  Wired'
<1>0. current \in Id
  BY DEF SafeInv, Types
<1>1. CASE Startup
  <2>1. /\ up = "starting" /\ Begin(current)
        /\ UNCHANGED <<disk, served, runtime, up, callback, failed, current, faults, exactRetry>>
    BY <1>1, Zenon DEF Startup
  <2>2. op.pc = "idle"
    BY <2>1, Zenon DEF Begin
  <2>3. /\ AllBefore(disk, current) /\ runtime = served.policy /\ ~failed
        /\ AllUpTo(disk, current') /\ UpTo(current', current)
    BY <2>1, <2>2 DEF Wired, UpTo
  <2> QED
    BY <2>1, <2>3, <1>0, BeginWired
<1>2. CASE Propose
  <2>1. /\ up = "serving" /\ ~failed /\ current.revision < MaxRevision
        /\ UNCHANGED <<disk, served, runtime, up, callback, failed, faults, exactRetry>>
    BY <1>2, Zenon DEF Propose
  <2>2. PICK p \in Policy : LET id == [current EXCEPT !.revision = @ + 1, !.policy = p]
                            IN current' = id /\ Begin(id)
    BY <1>2, Zenon DEF Propose
  <2>3. PICK id : id = [current EXCEPT !.revision = @ + 1, !.policy = p]
    OBVIOUS
  <2>4. current.revision + 1 \in 1 .. MaxRevision
    BY <2>1, <1>0, IdFields
  <2>5. id \in Id /\ id.epoch = current.epoch /\ id.revision = current.revision + 1
    BY <2>3, <2>4, <1>0 DEF Id
  <2>6. current' = id /\ Begin(id)
    BY <2>2, <2>3, Zenon
  <2>7. op.pc = "idle"
    BY <2>6, Zenon DEF Begin
  <2>8. Newer(id, current)
    BY <2>5, <1>0, IdFields DEF Newer
  <2>9. AllBefore(disk, id) /\ AllUpTo(disk, id)
    BY <2>5, <2>8, <1>0, LaterCommit DEF Wired
  <2>10. runtime = served.policy
    BY <2>1, <2>7 DEF Wired, AtRest
  <2>11. UpTo(id, id)
    BY DEF UpTo
  <2> QED
    BY <2>1, <2>5, <2>6, <2>9, <2>10, <2>11, BeginWired
<1>3. CASE Retry
  BY <1>3, Zenon DEF Retry
<1> QED
  BY <1>1, <1>2, <1>3

-------------------------------------------------------------------------------
(* Steps of the call under the wiring *)

\* A call that goes on.
LEMMA ContinueWired ==
  ASSUME SafeInv, Wired, op.pc # "idle", op'.pc # "idle", op'.id = op.id,
         WiredOp(disk, op', served, runtime),
         UNCHANGED <<disk, served, runtime, up, lease, callback, failed, current,
                     faults, exactRetry>>
  PROVE  Wired'
BY DEF Wired

\* A call that ends with an error.
LEMMA FailWired ==
  ASSUME SafeInv, Wired, op.pc # "idle", Fail, AllUpTo(disk', current),
         Recorded(disk', served, runtime), UNCHANGED <<served, runtime, current>>
  PROVE  Wired'
<1>1. op' = NoOp /\ failed' = TRUE /\ up' = IF up = "starting" THEN "down" ELSE up
  BY Zenon DEF Fail
<1>2. NoOp.pc = "idle" /\ up' # "starting"
  BY <1>1 DEF NoOp
<1> QED
  BY <1>1, <1>2 DEF Wired, WiredOp

\* A check of the code ends the call.
LEMMA RefuseWired ==
  ASSUME SafeInv, Wired, op.pc # "idle", Refuse
  PROVE  Wired'
<1>1. Fail /\ UNCHANGED <<disk, served, runtime, callback, current, faults, exactRetry>>
  BY Zenon DEF Refuse
<1>2. Recorded(disk, served, runtime)
  BY OpRecorded DEF SafeInv, Types, Wired
<1>3. AllUpTo(disk', current) /\ Recorded(disk', served, runtime)
  BY <1>1, <1>2 DEF Wired
<1> QED
  BY <1>1, <1>3, FailWired

\* What the wiring says of a call that saves the journal.
LEMMA Saves ==
  ASSUME NEW d \in Disk, NEW o \in Op, NEW b \in Op, NEW sv \in Config, NEW rt,
         WiredOp(d, o, sv, rt), o.pc # "idle", b.id = o.id, b.pc \in {"baseline", "yaml", "step", "giveup", "lkg"},
         \A u \in Pending(b.writes) : \/ u.file = "journal"
                                      \/ u.file = "sealed" /\ b.phase = "runtime_applied",
         o.pc \in {"enter", "baseline"} => b.pc = "baseline", o.id \in Id,
         b.pc = "baseline" => o.pc = "enter" /\ b.phase = "prepared",
         b.pc = "step" => b.phase # "compensation_pending",
         Untouched(b) => rt = sv.policy,
         b.pc = "giveup" => rt \in {sv.policy, o.id.policy},
         b.phase \in {"runtime_applied", "applied"} => rt = o.id.policy,
         YAMLDone(b) => d.yaml = TargetOf(o, sv)
  PROVE  WiredOp(d, b, sv, rt)
<1>1. TargetOf(b, sv) = TargetOf(o, sv)
  BY DEF TargetOf
<1>2. WiredRuntime(d, o, sv, rt) /\ WiredFiles(d, o, sv)
  BY DEF WiredOp
<1>3. WiredRuntime(d, b, sv, rt)
  BY <1>2 DEF WiredRuntime
<1>4. WiredWrites(b, sv)
  BY DEF WiredWrites
<1>5. WiredFiles(d, b, sv)
  <2>1. o.pc = "enter" => ~(d.baseline # None /\ d.baseline.id = o.id)
    <3>1. ~Newer(o.id, o.id)
      BY NewerStrict
    <3> QED
      BY <1>2, <3>1 DEF WiredFiles, AllBefore, IdOn
  <2> QED
    BY <1>1, <1>2, <2>1 DEF WiredFiles
<1> QED
  BY <1>3, <1>4, <1>5 DEF WiredOp

\* A save of the journal under the wiring.
LEMMA SaveJournalWired ==
  ASSUME SafeInv, Wired, NEW from \in PCs \ {"idle", "called"}, At(from),
         NEW previous, NEW phase \in Phase \ {"runtime_applied"},
         NEW pc \in {"baseline", "yaml", "step", "giveup", "lkg"},
         SaveJournal(previous, phase, pc),
         from \in {"enter", "baseline"} => pc = "baseline",
         pc = "baseline" => from = "enter" /\ phase = "prepared",
         pc = "step" => phase # "compensation_pending",
         \A b \in Op : b.pc = pc /\ b.phase = phase =>
           /\ Untouched(b) => runtime = served.policy
           /\ YAMLDone(b) => disk.yaml = TargetOf(op, served),
         pc = "giveup" => runtime \in {served.policy, op.id.policy},
         phase = "applied" => runtime = op.id.policy
  PROVE  Wired'
<1>0. /\ op.pc = from /\ op.writes = <<>> /\ op.id \in Id /\ op.pc \notin {"idle", "called"}
      /\ op \in Op /\ disk \in Disk /\ OpInv(disk, op) /\ served \in Config
  BY AtFacts DEF SafeInv, Types
<1>1. PICK r : r = [id |-> op.id, phase |-> phase]
  OBVIOUS
<1>2. PICK ws : ws = SaveWrites("journal", disk.journal, r)
  OBVIOUS
<1>3. Refuse \/ Continue(pc, phase, ws)
  BY <1>1, <1>2, Zenon DEF SaveJournal, Continues
<1>4. CASE Refuse
  BY <1>4, <1>0, RefuseWired
<1>5. CASE Continue(pc, phase, ws)
  <2>1. r \in Receipt /\ disk.journal \in Mirror
    BY <1>0, <1>1, DiskFields DEF Receipt
  <2>2. ws \in Seq(FileWrite) /\ \A u \in Pending(ws) : u.file = "journal"
    BY <1>2, <2>1, SaveWritesFacts
  <2>3. PICK b : b = op'
    OBVIOUS
  <2>4. /\ b \in Op /\ b.pc = pc /\ b.id = op.id /\ b.phase = phase /\ b.writes = ws
        /\ UNCHANGED <<disk, served, runtime, up, lease, callback, failed, current,
                       faults, exactRetry>>
    BY <1>0, <1>5, <2>2, <2>3, ContinueFacts DEF PCs
  <2>5. WiredOp(disk, op, served, runtime)
    BY DEF Wired
  <2>6. /\ Untouched(b) => runtime = served.policy
        /\ YAMLDone(b) => disk.yaml = TargetOf(op, served)
    BY <2>4
  <2>7. \A u \in Pending(b.writes) : u.file = "journal"
    BY <2>2, <2>4
  <2>8. WiredOp(disk, b, served, runtime)
    BY <1>0, <2>4, <2>5, <2>6, <2>7, Saves
  <2> QED
    BY <1>0, <2>3, <2>4, <2>8, ContinueWired
<1> QED
  BY <1>3, <1>4, <1>5

\* The claim is refused.
LEMMA ClaimFailsWired ==
  ASSUME SafeInv, Wired, ClaimFails
  PROVE  Wired'
<1>1. /\ At("enter") /\ Fail
      /\ UNCHANGED <<disk, served, runtime, callback, current, faults, exactRetry>>
  BY Zenon DEF ClaimFails
<1>2. op.pc # "idle"
  BY <1>1 DEF At
<1>3. Recorded(disk, served, runtime)
  BY <1>2, OpRecorded DEF SafeInv, Types, Wired
<1>4. AllUpTo(disk', current) /\ Recorded(disk', served, runtime)
  BY <1>1, <1>3 DEF Wired
<1> QED
  BY <1>1, <1>2, <1>4, FailWired

\* The commit is new: the journal records it as prepared.
LEMMA EnterWired ==
  ASSUME SafeInv, Wired, Enter
  PROVE  Wired'
<1>1. PICK j : j = Loaded(disk.journal)
  OBVIOUS
<1>2. PICK l : l = Loaded(disk.lkg)
  OBVIOUS
<1>3. PICK latest : latest = IF j # None THEN j ELSE l
  OBVIOUS
<1>4. At("enter")
  BY Zenon DEF Enter
<1>5. /\ op.pc = "enter" /\ op.id \in Id /\ op \in Op /\ disk \in Disk /\ op.pc # "idle"
  BY <1>4, AtFacts
<1>6. PICK a : a = [id |-> op.id, phase |-> "applied"]
  OBVIOUS
<1>7. \/ Refuse
      \/ /\ ~Ambiguous(disk.journal) /\ ~Ambiguous(disk.lkg)
         /\ \/ j = a
            \/ l = a
            \/ latest # None /\ latest.id = op.id
            \/ SaveJournal(latest, "prepared", "baseline")
  BY <1>1, <1>2, <1>3, <1>6, Zenon DEF Enter, Continues
<1>8. CASE Refuse
  BY <1>5, <1>8, RefuseWired
<1>9. ASSUME ~Ambiguous(disk.journal), ~Ambiguous(disk.lkg)
      PROVE  /\ j # None => j.id # op.id
             /\ l # None => l.id # op.id
  <2>1. /\ j # None => \E s \in 1 .. 2 : disk.journal[s] = j
        /\ l # None => \E s \in 1 .. 2 : disk.lkg[s] = l
    BY <1>1, <1>2, <1>5, <1>9, LoadedFacts, DiskFields
  <2>2. ~IdOn(disk, op.id)
    <3>1. ~Newer(op.id, op.id)
      BY <1>5, NewerStrict
    <3> QED
      BY <1>5, <3>1 DEF Wired, WiredOp, WiredFiles, AllBefore
  <2> QED
    BY <2>1, <2>2 DEF IdOn
<1>10. a # None /\ a.id = op.id
  BY <1>5, <1>6 DEF Receipt, Phase
<1>11. CASE SaveJournal(latest, "prepared", "baseline")
  <2>1. runtime = served.policy
    BY <1>5 DEF Wired, WiredOp, WiredRuntime, Untouched
  <2>2. \A b \in Op : b.pc = "baseline" => ~YAMLDone(b)
    BY DEF YAMLDone
  <2> QED
    BY <1>4, <1>11, <2>1, <2>2, SaveJournalWired DEF PCs, Phase
<1> QED
  BY <1>3, <1>7, <1>8, <1>9, <1>10, <1>11

\* A file is replaced.
LEMMA WriteOneWired ==
  ASSUME SafeInv, Wired, WriteOne
  PROVE  Wired'
<1>1. /\ op.writes # <<>> /\ disk' = Written(disk, Head(op.writes))
      /\ op' = [op EXCEPT !.writes = Tail(@)]
      /\ UNCHANGED <<served, runtime, up, lease, callback, failed, current, faults, exactRetry>>
  BY Zenon DEF WriteOne
<1>2. PICK b : b = op'
  OBVIOUS
<1>3. PICK e : e = disk'
  OBVIOUS
<1>4. /\ disk \in Disk /\ op \in Op /\ OpInv(disk, op) /\ served \in Config /\ current \in Id
      /\ WiredOp(disk, op, served, runtime) /\ AllUpTo(disk, current)
  BY DEF SafeInv, Types, Wired
<1>5. b = [op EXCEPT !.writes = Tail(@)] /\ e = Written(disk, Head(op.writes))
  BY <1>1, <1>2, <1>3
<1>6. /\ WiredOp(e, b, served, runtime)
      /\ \A i \in Id : IdOn(e, i) => IdOn(disk, i) \/ i = op.id
  BY <1>1, <1>4, <1>5, WriteWired, WriteIds
<1>7. b.pc = op.pc /\ op.pc # "idle" /\ b.id = op.id /\ op.id \in Id
  BY <1>1, <1>4, <1>5 DEF Op, OpInv, Shape
<1>8. AllUpTo(e, current)
  BY <1>4, <1>6, <1>7, StillUpTo DEF Wired
<1> QED
  BY <1>1, <1>2, <1>3, <1>6, <1>7, <1>8 DEF Wired

\* A write fails, before or after the rename.
LEMMA WriteFailsWired ==
  ASSUME SafeInv, Wired, WriteFails
  PROVE  Wired'
<1>1. /\ op.writes # <<>> /\ disk' \in {disk, Written(disk, Head(op.writes))} /\ Fail
      /\ UNCHANGED <<served, runtime, callback, current, exactRetry>>
  BY Zenon DEF WriteFails
<1>2. PICK b : b = [op EXCEPT !.writes = Tail(@)]
  OBVIOUS
<1>3. PICK e : e = Written(disk, Head(op.writes))
  OBVIOUS
<1>4. /\ disk \in Disk /\ op \in Op /\ OpInv(disk, op) /\ served \in Config /\ current \in Id
      /\ WiredOp(disk, op, served, runtime) /\ AllUpTo(disk, current)
  BY DEF SafeInv, Types, Wired
<1>5. /\ WiredOp(e, b, served, runtime)
      /\ \A i \in Id : IdOn(e, i) => IdOn(disk, i) \/ i = op.id
  BY <1>1, <1>2, <1>3, <1>4, WriteWired, WriteIds
<1>6. b.pc = op.pc /\ op.pc # "idle" /\ op.id \in Id
  BY <1>1, <1>2, <1>4 DEF Op, OpInv, Shape
<1>7. OpInv(e, b) /\ e \in Disk /\ b \in Op
  BY <1>1, <1>2, <1>3, <1>4, WriteKeeps
<1>8. AllUpTo(e, current) /\ Recorded(e, served, runtime)
  BY <1>4, <1>5, <1>6, <1>7, StillUpTo, OpRecorded DEF Wired
<1>9. Recorded(disk, served, runtime)
  BY <1>4, <1>6, OpRecorded
<1>10. disk' = disk \/ disk' = e
  BY <1>1, <1>3
<1>11. AllUpTo(disk', current) /\ Recorded(disk', served, runtime)
  BY <1>4, <1>8, <1>9, <1>10
<1> QED
  BY <1>1, <1>6, <1>11, FailWired

\* The call ends before it publishes: the LKG records what the data plane runs.
LEMMA PublishFailsWired ==
  ASSUME SafeInv, Wired, PublishFails
  PROVE  Wired'
<1>1. At("publish") /\ Fail /\ UNCHANGED <<disk, served, runtime, callback, current, exactRetry>>
  BY Zenon DEF PublishFails
<1>2. op.pc # "idle"
  BY <1>1 DEF At
<1>3. Recorded(disk, served, runtime)
  BY <1>2, OpRecorded DEF SafeInv, Types, Wired
<1>4. AllUpTo(disk', current) /\ Recorded(disk', served, runtime)
  BY <1>1, <1>3 DEF Wired
<1> QED
  BY <1>1, <1>2, <1>4, FailWired

\* The baseline is captured from the published configuration.
LEMMA LoadBaselineWired ==
  ASSUME SafeInv, Wired, LoadBaseline
  PROVE  Wired'
<1>0. At("baseline")
  BY Zenon DEF LoadBaseline
<1>1. /\ op.pc = "baseline" /\ op.writes = <<>> /\ op.id \in Id /\ op \in Op /\ disk \in Disk
      /\ OpInv(disk, op) /\ op.phase \in Phase /\ served \in Config /\ op.pc # "idle"
  BY <1>0, AtFacts, OpFields DEF SafeInv, Types
<1>2. /\ WiredRuntime(disk, op, served, runtime) /\ WiredFiles(disk, op, served)
      /\ WiredWrites(op, served)
  BY <1>1 DEF Wired, WiredOp
<1>3. PICK target : target = TargetOf(op, served)
  OBVIOUS
<1>4. PICK captured : captured = [id |-> op.id, previous |-> served, target |-> target]
  OBVIOUS
<1>5. captured \in Baseline /\ captured.target = target /\ captured # None
  BY <1>1, <1>3, <1>4, TargetFields DEF Baseline
<1>6. PICK u : u = Write("baseline", 0, captured)
  OBVIOUS
<1>7. u \in FileWrite /\ u.file = "baseline" /\ u.side = 0 /\ u.value = captured
  BY <1>5, <1>6 DEF FileWrite, BaselineWrite, Write
<1>8. \/ disk.baseline = None /\ Continue("step", op.phase, <<u>>)
      \/ Continue("step", op.phase, <<>>) /\ disk.baseline # None /\ disk.baseline.id = op.id
      \/ Refuse
  BY <1>3, <1>4, <1>6, Zenon DEF LoadBaseline, Continues, TargetOf
<1>9. op.phase = "prepared"
  BY <1>1, <1>2 DEF WiredWrites
<1>10. CASE disk.baseline = None /\ Continue("step", op.phase, <<u>>)
  <2>1. <<u>> \in Seq(FileWrite) /\ Pending(<<u>>) = {u}
    BY <1>7, PendingOne
  <2>2. PICK b : b = op'
    OBVIOUS
  <2>3. /\ b \in Op /\ b.pc = "step" /\ b.id = op.id /\ b.phase = op.phase /\ b.writes = <<u>>
        /\ UNCHANGED <<disk, served, runtime, up, lease, callback, failed, current,
                       faults, exactRetry>>
    BY <1>1, <1>10, <2>1, <2>2, ContinueFacts DEF PCs
  <2>4. TargetOf(b, served) = target
    BY <1>3, <2>3 DEF TargetOf
  <2>5. WiredRuntime(disk, b, served, runtime)
    BY <1>1, <1>2, <1>9, <2>3 DEF WiredRuntime, Untouched
  <2>6. WiredFiles(disk, b, served)
    BY <1>9, <1>10, <2>3 DEF WiredFiles, YAMLDone
  <2>7. WiredWrites(b, served)
    BY <1>5, <1>7, <1>9, <2>1, <2>3, <2>4 DEF WiredWrites
  <2> QED
    BY <1>1, <2>2, <2>3, <2>5, <2>6, <2>7, ContinueWired DEF WiredOp
<1>11. CASE Continue("step", op.phase, <<>>) /\ disk.baseline # None /\ disk.baseline.id = op.id
  BY <1>1, <1>2, <1>11 DEF WiredFiles
<1>12. CASE Refuse
  BY <1>1, <1>12, RefuseWired
<1> QED
  BY <1>8, <1>10, <1>11, <1>12

\* The saves of the journal before the runtime is called.
LEMMA EarlyRecordsWired ==
  ASSUME SafeInv, Wired, RecordBaseline \/ RecordYAML \/ RecordIntent
  PROVE  Wired'
<1>1. CASE RecordBaseline
  <2>1. At("step") /\ op.phase = "prepared" /\ SaveJournal(ThisReceipt, "baseline_persisted", "yaml")
    BY <1>1, Zenon DEF RecordBaseline, Step
  <2>2. op.pc = "step" /\ op.pc # "idle"
    BY <2>1 DEF At
  <2>3. runtime = served.policy
    BY <2>1, <2>2 DEF Wired, WiredOp, WiredRuntime, Untouched
  <2>4. \A b \in Op : b.pc = "yaml" => ~YAMLDone(b)
    BY DEF YAMLDone
  <2> QED
    BY <2>1, <2>3, <2>4, SaveJournalWired DEF PCs, Phase
<1>2. CASE RecordYAML
  <2>1. At("recordyaml") /\ SaveJournal(ThisReceipt, "yaml_persisted", "step")
    BY <1>2, Zenon DEF RecordYAML
  <2>2. op.pc = "recordyaml" /\ op.pc # "idle" /\ ~Pends(op, "yaml", 0)
    BY <2>1, AtFacts
  <2>3. runtime = served.policy /\ disk.yaml = TargetOf(op, served)
    BY <2>2 DEF Wired, WiredOp, WiredRuntime, WiredFiles, Untouched
  <2> QED
    BY <2>1, <2>3, SaveJournalWired DEF PCs, Phase
<1>3. CASE RecordIntent
  <2>1. At("step") /\ op.phase = "yaml_persisted" /\ SaveJournal(ThisReceipt, "runtime_intent", "step")
    BY <1>3, Zenon DEF RecordIntent, Step
  <2>2. op.pc = "step" /\ op.pc # "idle"
    BY <2>1 DEF At
  <2>3. runtime = served.policy /\ disk.yaml = TargetOf(op, served)
    BY <2>1, <2>2 DEF Wired, WiredOp, WiredRuntime, WiredFiles, Untouched, YAMLDone
  <2> QED
    BY <2>1, <2>3, SaveJournalWired DEF PCs, Phase
<1> QED
  BY <1>1, <1>2, <1>3

\* The YAML is written with the call's target.
LEMMA YAMLWired ==
  ASSUME SafeInv, Wired, ResumeYAML \/ PersistConfig
  PROVE  Wired'
<1>0. PICK b : b = op'
  OBVIOUS
<1>1. CASE ResumeYAML
  <2>1. At("step") /\ op.phase = "baseline_persisted" /\ Continue("yaml", op.phase, <<>>)
    BY <1>1, Zenon DEF ResumeYAML, Step
  <2>2. /\ op.pc = "step" /\ op \in Op /\ op.phase \in Phase /\ <<>> \in Seq(FileWrite)
        /\ Pending(<<>>) = {} /\ op.id \in Id /\ disk \in Disk /\ served \in Config
    BY <2>1, StepFacts, OpFields DEF Pending, SafeInv, Types
  <2>3. /\ b \in Op /\ b.pc = "yaml" /\ b.id = op.id /\ b.phase = op.phase /\ b.writes = <<>>
        /\ UNCHANGED <<disk, served, runtime, up, lease, callback, failed, current,
                       faults, exactRetry>>
    BY <1>0, <2>1, <2>2, ContinueFacts DEF PCs
  <2>4. WiredOp(disk, op, served, runtime) /\ runtime = served.policy
    BY <2>1, <2>2 DEF Wired, WiredOp, WiredRuntime, Untouched
  <2>5. ~YAMLDone(b)
    BY <2>3 DEF YAMLDone
  <2>6. \A u \in Pending(b.writes) : u.file = "journal"
    BY <2>2, <2>3
  <2>7. WiredOp(disk, b, served, runtime)
    BY <2>1, <2>2, <2>3, <2>4, <2>5, <2>6, Saves
  <2> QED
    BY <1>0, <2>2, <2>3, <2>7, ContinueWired
<1>2. CASE PersistConfig
  <2>0. PICK u : u = Write("yaml", 0, disk.baseline.target)
    OBVIOUS
  <2>1. At("yaml") /\ Continue("recordyaml", op.phase, <<u>>)
    BY <1>2, <2>0, Zenon DEF PersistConfig
  <2>2. /\ disk.baseline # None /\ disk.baseline.id = op.id /\ disk.baseline.target \in Config
        /\ op.pc = "yaml" /\ op \in Op /\ op.phase \in Phase
    BY <2>1, StepFacts, OpFields
  <2>3. /\ WiredRuntime(disk, op, served, runtime) /\ WiredFiles(disk, op, served)
    BY <2>2 DEF Wired, WiredOp
  <2>4. u \in FileWrite /\ u.file = "yaml" /\ u.side = 0 /\ u.value = TargetOf(op, served)
    BY <2>0, <2>2, <2>3 DEF FileWrite, YAMLWrite, Write, WiredFiles
  <2>5. <<u>> \in Seq(FileWrite) /\ Pending(<<u>>) = {u}
    BY <2>4, PendingOne
  <2>6. /\ b \in Op /\ b.pc = "recordyaml" /\ b.id = op.id /\ b.phase = op.phase
        /\ b.writes = <<u>>
        /\ UNCHANGED <<disk, served, runtime, up, lease, callback, failed, current,
                       faults, exactRetry>>
    BY <1>0, <2>1, <2>2, <2>5, ContinueFacts DEF PCs
  <2>7. TargetOf(b, served) = TargetOf(op, served)
    BY <2>6 DEF TargetOf
  <2>8. WiredRuntime(disk, b, served, runtime)
    BY <2>2, <2>3, <2>6 DEF WiredRuntime, Untouched
  <2>9. WiredFiles(disk, b, served)
    BY <2>2, <2>3, <2>4, <2>5, <2>6, <2>7 DEF WiredFiles, YAMLDone, Pends
  <2>10. WiredWrites(b, served)
    BY <2>4, <2>5, <2>6, <2>7 DEF WiredWrites
  <2> QED
    BY <1>0, <2>2, <2>6, <2>8, <2>9, <2>10, ContinueWired DEF WiredOp
<1> QED
  BY <1>1, <1>2

\* A query that finds the target finds the runtime at the call's policy.
LEMMA TargetIsServed ==
  ASSUME SafeInv, Wired, NEW pc \in {"step", "inspect"}, At(pc), op.phase = "runtime_intent",
         RuntimeState \in {"target", "observed"}
  PROVE  runtime = op.id.policy
<1>1. /\ op.pc = pc /\ disk.baseline.target.policy = op.id.policy /\ op.id \in Id
      /\ disk.baseline.target \in Config
  BY StepFacts
<1>2. WiredRuntime(disk, op, served, runtime)
  BY <1>1 DEF Wired, WiredOp
<1>3. PICK r : r = Seal(op.id)
  OBVIOUS
<1>4. r \in RuntimeReceipt /\ r.id = op.id /\ r # None
  BY <1>1, <1>3 DEF Seal, RuntimeReceipt
<1>5. disk.sealed = r \/ served = disk.baseline.target
  BY <1>3 DEF RuntimeState
<1>6. CASE disk.sealed = r
  BY <1>2, <1>4, <1>6 DEF WiredRuntime
<1>7. CASE served = disk.baseline.target
  BY <1>1, <1>2, <1>7 DEF WiredRuntime, Untouched
<1> QED
  BY <1>5, <1>6, <1>7

\* The query found the target: the journal says so, after the receipt.
LEMMA TargetWired ==
  ASSUME SafeInv, Wired, NEW from \in {"step", "inspect"}, RuntimeIsTarget(from)
  PROVE  Wired'
<1>1. PICK r : r = [id |-> op.id, phase |-> "runtime_applied"]
  OBVIOUS
<1>2. PICK sw : sw = SaveWrites("journal", disk.journal, r)
  OBVIOUS
<1>3. PICK q : q = QuerySeals
  OBVIOUS
<1>4. PICK ws : ws = q \o sw
  OBVIOUS
<1>5. At(from) /\ op.phase = "runtime_intent" /\ RuntimeState \in {"target", "observed"}
  BY Zenon DEF RuntimeIsTarget
<1>6. Refuse \/ Continue("step", "runtime_applied", ws)
  <2>1. r.phase = "runtime_applied"
    BY <1>1
  <2>2. Refuse \/ Continue("step", r.phase, ws)
    BY <1>1, <1>2, <1>3, <1>4, Zenon DEF RuntimeIsTarget, Continues
  <2> QED
    BY <2>1, <2>2, Zenon
<1>7. /\ op.id \in Id /\ op.pc = from /\ op.writes = <<>> /\ op \in Op /\ disk \in Disk
      /\ served \in Config
  BY <1>5, StepFacts DEF SafeInv, Types
<1>8. runtime = op.id.policy
  BY <1>5, TargetIsServed
<1>9. CASE Refuse
  BY <1>7, <1>9, RefuseWired
<1>10. CASE Continue("step", "runtime_applied", ws)
  <2>1. q \in Seq(FileWrite) /\ \A u \in Pending(q) : u.file = "sealed"
    BY <1>3, <1>5, QueryFacts
  <2>2. r \in Receipt /\ disk.journal \in Mirror
    BY <1>1, <1>7, DiskFields DEF Receipt, Phase
  <2>3. sw \in Seq(FileWrite) /\ \A u \in Pending(sw) : u.file = "journal"
    BY <1>2, <2>2, SaveWritesFacts
  <2>4. ws \in Seq(FileWrite) /\ \A u \in Pending(ws) : u.file \in {"sealed", "journal"}
    BY <1>4, <2>1, <2>3, PendingConcat
  <2>5. PICK b : b = op'
    OBVIOUS
  <2>6. /\ b \in Op /\ b.pc = "step" /\ b.id = op.id /\ b.phase = "runtime_applied" /\ b.writes = ws
        /\ UNCHANGED <<disk, served, runtime, up, lease, callback, failed, current,
                       faults, exactRetry>>
    BY <1>7, <1>10, <2>4, <2>5, ContinueFacts DEF PCs, Phase
  <2>7. ~Untouched(b)
    BY <2>6 DEF Untouched
  <2>8. disk.yaml = TargetOf(op, served) /\ WiredOp(disk, op, served, runtime)
    BY <1>5, <1>7 DEF Wired, WiredOp, WiredFiles, YAMLDone
  <2>9. \A u \in Pending(b.writes) : \/ u.file = "journal"
                                     \/ u.file = "sealed" /\ b.phase = "runtime_applied"
    BY <2>4, <2>6
  <2>10. WiredOp(disk, b, served, runtime)
    BY <1>7, <1>8, <2>6, <2>7, <2>8, <2>9, Saves
  <2> QED
    BY <1>7, <2>5, <2>6, <2>10, ContinueWired
<1> QED
  BY <1>6, <1>9, <1>10

\* The other steps that look at the runtime.
LEMMA RuntimeWired ==
  ASSUME SafeInv, Wired,
         \/ RetryIntent \/ GiveUp \/ InspectPrevious
         \/ \E pc \in {"step", "inspect"} : RuntimeIsTarget(pc) \/ RuntimeIsUnknown(pc)
  PROVE  Wired'
<1>1. CASE RetryIntent
  <2>1. At("step") /\ op.phase = "compensation_pending"
    BY <1>1, Zenon DEF RetryIntent, Step
  <2> QED
    BY <2>1 DEF At, Wired, WiredOp, WiredWrites
<1>2. CASE GiveUp
  <2>1. At("giveup") /\ Refuse
    BY <1>2, Zenon DEF GiveUp
  <2> QED
    BY <2>1, RefuseWired DEF At
<1>3. CASE InspectPrevious
  <2>1. At("inspect") /\ Refuse
    BY <1>3, Zenon DEF InspectPrevious
  <2> QED
    BY <2>1, RefuseWired DEF At
<1>4. ASSUME NEW pc \in {"step", "inspect"}, RuntimeIsTarget(pc)
      PROVE  Wired'
  BY <1>4, TargetWired
<1>5. ASSUME NEW pc \in {"step", "inspect"}, RuntimeIsUnknown(pc)
      PROVE  Wired'
  <2>1. /\ At(pc) /\ op.phase = "runtime_intent"
        /\ Refuse \/ SaveJournal(ThisReceipt, "compensation_pending", "giveup")
    BY <1>5, Zenon DEF RuntimeIsUnknown
  <2>2. op.pc = pc /\ op.pc # "idle"
    BY <2>1 DEF At
  <2>3. CASE Refuse
    BY <2>2, <2>3, RefuseWired
  <2>4. CASE SaveJournal(ThisReceipt, "compensation_pending", "giveup")
    <3>1. runtime \in {served.policy, op.id.policy}
      BY <2>1, <2>2 DEF Wired, WiredOp, WiredRuntime, Untouched
    <3>2. \A b \in Op : b.pc = "giveup" => ~YAMLDone(b) /\ ~Untouched(b)
      BY DEF YAMLDone, Untouched
    <3> QED
      BY <2>1, <2>4, <3>1, <3>2, SaveJournalWired DEF PCs, Phase
  <2> QED
    BY <2>1, <2>3, <2>4
<1> QED
  BY <1>1, <1>2, <1>3, <1>4, <1>5

\* The journal says applied.
LEMMA RecordAppliedWired ==
  ASSUME SafeInv, Wired, RecordApplied
  PROVE  Wired'
<1>1. At("step") /\ op.phase = "runtime_applied" /\ SaveJournal(ThisReceipt, "applied", "lkg")
  BY Zenon DEF RecordApplied, Step
<1>2. op.pc = "step" /\ op.pc # "idle"
  BY <1>1 DEF At
<1>3. runtime = op.id.policy /\ disk.yaml = TargetOf(op, served)
  BY <1>1, <1>2 DEF Wired, WiredOp, WiredRuntime, WiredFiles, YAMLDone
<1>4. \A b \in Op : b.pc = "lkg" => ~Untouched(b)
  BY DEF Untouched
<1> QED
  BY <1>1, <1>3, <1>4, SaveJournalWired DEF PCs, Phase

\* The LKG is saved while the baseline is there, which then goes.
LEMMA CleanWired ==
  ASSUME SafeInv, Wired, SaveLKG \/ DeleteBaseline
  PROVE  Wired'
<1>0. PICK b : b = op'
  OBVIOUS
<1>1. CASE SaveLKG
  <2>1. PICK r : r = ThisReceipt
    OBVIOUS
  <2>2. PICK ws : ws = SaveWrites("lkg", disk.lkg, r)
    OBVIOUS
  <2>3. At("lkg") /\ (Refuse \/ Continue("clean", "applied", ws))
    BY <1>1, <2>1, <2>2, Zenon DEF SaveLKG, Continues
  <2>4. /\ op.pc = "lkg" /\ op.phase = "applied" /\ op.id \in Id /\ op \in Op /\ disk \in Disk
        /\ disk.lkg \in Mirror /\ disk.baseline # None /\ disk.baseline.id = op.id
    BY <2>3, StepFacts, DiskFields DEF PhaseOf
  <2>5. r \in Receipt /\ r = ReceiptOf(op)
    BY <2>1, <2>4, OpFields DEF ThisReceipt, ReceiptOf
  <2>6. /\ ws \in Seq(FileWrite) /\ \A u \in Pending(ws) : u.file = "lkg"
        /\ \A x \in 1 .. 2 : disk.lkg[x] = r \/ \E u \in Pending(ws) : u.file = "lkg" /\ u.side = x
    BY <2>2, <2>4, <2>5, SaveWritesFacts
  <2>7. CASE Refuse
    BY <2>4, <2>7, RefuseWired
  <2>8. CASE Continue("clean", "applied", ws)
    <3>1. /\ b \in Op /\ b.pc = "clean" /\ b.id = op.id /\ b.phase = "applied" /\ b.writes = ws
          /\ UNCHANGED <<disk, served, runtime, up, lease, callback, failed, current,
                         faults, exactRetry>>
      BY <1>0, <2>4, <2>6, <2>8, ContinueFacts DEF PCs, Phase
    <3>2. ReceiptOf(b) = r /\ TargetOf(b, served) = TargetOf(op, served)
      BY <3>1, <2>4, <2>5 DEF ReceiptOf, TargetOf
    <3>3. Has("lkg", disk.lkg, b)
      <4>1. \A x \in 1 .. 2 : disk.lkg[x] = ReceiptOf(b) \/ Pends(b, "lkg", x)
        BY <2>6, <3>1, <3>2 DEF Pends
      <4> QED
        BY <4>1 DEF Has
    <3>4. WiredRuntime(disk, op, served, runtime) /\ WiredFiles(disk, op, served)
      BY <2>4 DEF Wired, WiredOp
    <3>5. WiredRuntime(disk, b, served, runtime)
      BY <2>4, <3>1, <3>4 DEF WiredRuntime, Untouched
    <3>6. WiredFiles(disk, b, served)
      BY <2>4, <3>1, <3>2, <3>3, <3>4 DEF WiredFiles, YAMLDone
    <3>7. WiredWrites(b, served)
      BY <2>6, <3>1 DEF WiredWrites
    <3> QED
      BY <1>0, <2>4, <3>1, <3>5, <3>6, <3>7, ContinueWired DEF WiredOp
  <2> QED
    BY <2>3, <2>7, <2>8
<1>2. CASE DeleteBaseline
  <2>1. PICK u : u = Write("baseline", 0, None)
    OBVIOUS
  <2>2. PICK ws : ws = IF disk.baseline = None THEN <<>> ELSE <<u>>
    OBVIOUS
  <2>3. At("clean") /\ (Refuse \/ Continue("publish", "applied", ws))
    BY <1>2, <2>1, <2>2, Zenon DEF DeleteBaseline, Continues
  <2>4. /\ op.pc = "clean" /\ op.phase = "applied" /\ op \in Op /\ disk \in Disk
        /\ \A file, side : ~Pends(op, file, side)
    BY <2>3, AtFacts DEF OpInv, Shape, PhaseOf
  <2>5. u \in FileWrite /\ u.file = "baseline" /\ u.value = None /\ u.side = 0
    BY <2>1 DEF FileWrite, BaselineWrite, Write
  <2>6. /\ ws \in Seq(FileWrite) /\ \A v \in Pending(ws) : v = u
        /\ disk.baseline # None => u \in Pending(ws)
    BY <2>2, <2>5, PendingOne
  <2>7. CASE Refuse
    BY <2>4, <2>7, RefuseWired
  <2>8. CASE Continue("publish", "applied", ws)
    <3>1. /\ b \in Op /\ b.pc = "publish" /\ b.id = op.id /\ b.phase = "applied" /\ b.writes = ws
          /\ UNCHANGED <<disk, served, runtime, up, lease, callback, failed, current,
                         faults, exactRetry>>
      BY <1>0, <2>4, <2>6, <2>8, ContinueFacts DEF PCs, Phase
    <3>2. ReceiptOf(b) = ReceiptOf(op) /\ TargetOf(b, served) = TargetOf(op, served)
      BY <3>1, <2>4 DEF ReceiptOf, TargetOf
    <3>3. WiredRuntime(disk, op, served, runtime) /\ WiredFiles(disk, op, served)
      BY <2>4 DEF Wired, WiredOp
    <3>4. Has("lkg", disk.lkg, b)
      BY <2>4, <3>2, <3>3 DEF WiredFiles, Has
    <3>5. disk.baseline = None \/ Pends(b, "baseline", 0)
      BY <2>5, <2>6, <3>1 DEF Pends
    <3>6. WiredRuntime(disk, b, served, runtime)
      BY <2>4, <3>1, <3>3 DEF WiredRuntime, Untouched
    <3>7. WiredFiles(disk, b, served)
      BY <2>4, <3>1, <3>2, <3>3, <3>4, <3>5 DEF WiredFiles, YAMLDone
    <3>8. WiredWrites(b, served)
      BY <2>5, <2>6, <3>1 DEF WiredWrites
    <3> QED
      BY <1>0, <2>4, <3>1, <3>6, <3>7, <3>8, ContinueWired DEF WiredOp
  <2> QED
    BY <2>3, <2>7, <2>8
<1> QED
  BY <1>1, <1>2

\* The mirrors of a file hold the call's receipt alone once nothing is pending.
LEMMA HasAll ==
  ASSUME NEW o \in Op, o.id \in Id, NEW m \in Mirror, NEW file, Has(file, m, o),
         \A s \in 1 .. 2 : ~Pends(o, file, s)
  PROVE  ~Ambiguous(m) /\ Loaded(m) = ReceiptOf(o) /\ Loaded(m) # None
<1>1. ReceiptOf(o) # None
  BY OpFields
<1>2. /\ \A s \in 1 .. 2 : m[s] \in {None, ReceiptOf(o)}
      /\ \E s \in 1 .. 2 : m[s] = ReceiptOf(o)
  BY DEF Has
<1>3. \A s \in 1 .. 2 : s = 1 \/ s = 2
  OBVIOUS
<1> QED
  BY <1>1, <1>2, <1>3 DEF Ambiguous, Loaded

\* The call publishes what files and runtime hold: the process is at rest.
LEMMA PublishWired ==
  ASSUME SafeInv, Wired, Publish
  PROVE  Wired'
<1>1. /\ At("publish") /\ served' = [served EXCEPT !.policy = op.id.policy]
      /\ op' = NoOp /\ failed' = FALSE /\ up' = "serving"
      /\ UNCHANGED <<disk, runtime, callback, current, faults, exactRetry>>
  BY Zenon DEF Publish
<1>2. /\ op.pc = "publish" /\ op.id \in Id /\ op \in Op /\ disk \in Disk /\ OpInv(disk, op)
      /\ \A file, side : ~Pends(op, file, side)
  BY <1>1, AtFacts
<1>3. PICK sv : sv = served'
  OBVIOUS
<1>4. sv = TargetOf(op, served) /\ sv.policy = op.id.policy
  BY <1>1, <1>2, <1>3, TargetFields DEF SafeInv, Types, TargetOf
<1>5. WiredRuntime(disk, op, served, runtime) /\ WiredFiles(disk, op, served)
  BY <1>2 DEF Wired, WiredOp
<1>6. runtime = op.id.policy /\ disk.yaml = sv /\ disk.baseline = None
  BY <1>2, <1>4, <1>5 DEF WiredRuntime, WiredFiles, YAMLDone, OpInv, Shape, PhaseOf
<1>7. Has("journal", disk.journal, op) /\ Has("lkg", disk.lkg, op)
  BY <1>2, <1>5 DEF WiredFiles, OpInv, Journalled, Past
<1>8. /\ ~Ambiguous(disk.journal) /\ ~Ambiguous(disk.lkg)
      /\ Loaded(disk.journal) = ReceiptOf(op) /\ Loaded(disk.lkg) = ReceiptOf(op)
      /\ Loaded(disk.journal) # None /\ ReceiptOf(op).id = op.id
  BY <1>2, <1>7, HasAll, DiskFields, OpFields
<1>9. callback = None
  BY <1>2 DEF SafeInv, Types, Locks
<1>10. AtRest(disk, sv, runtime, callback) /\ Recorded(disk, sv, runtime)
  BY <1>4, <1>6, <1>8, <1>9 DEF AtRest, Recorded
<1>11. NoOp.pc = "idle"
  BY DEF NoOp
<1> QED
  BY <1>1, <1>3, <1>10, <1>11 DEF Wired, WiredOp

-------------------------------------------------------------------------------
(* The runtime callback under the wiring *)

\* The call starts the callback: the runtime is not yet touched.
LEMMA CallRuntimeWired ==
  ASSUME SafeInv, Wired, CallRuntime
  PROVE  Wired'
<1>1. /\ At("step") /\ op.phase = "runtime_intent" /\ RuntimeState = "previous"
      /\ op' = [op EXCEPT !.pc = "called"]
      /\ UNCHANGED <<disk, served, runtime, up, lease, failed, current, faults, exactRetry>>
  BY Zenon DEF CallRuntime, Step
<1>2. op.id \in Id /\ op.pc = "step" /\ op.writes = <<>> /\ op \in Op
  BY <1>1, AtFacts
<1>3. PICK b : b = op'
  OBVIOUS
<1>4. b \in Op /\ b.pc = "called" /\ b.id = op.id /\ b.phase = op.phase /\ b.writes = <<>>
  BY <1>1, <1>2, <1>3 DEF Op, PCs
<1>5. WiredRuntime(disk, op, served, runtime) /\ WiredFiles(disk, op, served)
  BY <1>2 DEF Wired, WiredOp
<1>6. served # disk.baseline.target
  BY <1>1 DEF RuntimeState
<1>7. WiredRuntime(disk, b, served, runtime)
  BY <1>1, <1>2, <1>4, <1>5, <1>6 DEF WiredRuntime, Untouched
<1>8. TargetOf(b, served) = TargetOf(op, served)
  BY <1>4 DEF TargetOf
<1>9. WiredFiles(disk, b, served)
  BY <1>1, <1>2, <1>4, <1>5, <1>8 DEF WiredFiles, YAMLDone
<1>10. WiredWrites(b, served)
  BY <1>4 DEF WiredWrites, Pending
<1>11. WiredOp(disk, b, served, runtime)
  BY <1>7, <1>9, <1>10 DEF WiredOp
<1> QED
  BY <1>1, <1>2, <1>3, <1>4, <1>11 DEF Wired

\* The caller gives up before the callback ends.
LEMMA CallTimesOutWired ==
  ASSUME SafeInv, Wired, CallTimesOut
  PROVE  Wired'
<1>1. /\ op.pc = "called" /\ Fail /\ UNCHANGED <<disk, served, runtime, current, exactRetry>>
  BY Zenon DEF CallTimesOut
<1>2. Recorded(disk, served, runtime)
  BY <1>1, OpRecorded DEF SafeInv, Types, Wired
<1>3. AllUpTo(disk', current) /\ Recorded(disk', served, runtime)
  BY <1>1, <1>2 DEF Wired
<1> QED
  BY <1>1, <1>3, FailWired

\* The end of a callback: what the runtime enforces now is the baseline's target.
LEMMA CallbackEndsWired ==
  ASSUME SafeInv, Wired, callback # None, CallbackEnds, disk' \in Disk,
         disk'.journal = disk.journal, disk'.lkg = disk.lkg, disk'.baseline = disk.baseline,
         disk'.yaml = disk.yaml, runtime' \in {runtime, disk.baseline.target.policy},
         \/ disk'.sealed = disk.sealed
         \/ disk'.sealed.id = callback /\ runtime' = disk.baseline.target.policy
  PROVE  Wired'
<1>1. /\ callback' = None
      /\ IF op.pc = "called" THEN op' = [op EXCEPT !.pc = "inspect"] /\ UNCHANGED lease
                             ELSE lease' = FALSE /\ UNCHANGED op
      /\ UNCHANGED <<served, up, failed, current, exactRetry>>
  BY Zenon DEF CallbackEnds
<1>2. /\ op \in Op /\ disk \in Disk /\ OpInv(disk, op) /\ op.pc \in {"idle", "called"}
      /\ op.writes = <<>> /\ callback \in Id /\ disk.baseline # None
      /\ disk.baseline.id = callback /\ up # "down" /\ current \in Id
      /\ disk.baseline.target.policy = callback.policy
  BY DEF SafeInv, Types, Locks, CallbackHeld, OpInv, Shape, BaselineHeld
<1>3. PICK e : e = disk'
  OBVIOUS
<1>4. PICK rt : rt = runtime'
  OBVIOUS
<1>5. /\ e.journal = disk.journal /\ e.lkg = disk.lkg /\ e.baseline = disk.baseline
      /\ e.yaml = disk.yaml /\ rt \in {runtime, callback.policy}
      /\ \/ e.sealed = disk.sealed
         \/ e.sealed.id = callback /\ rt = callback.policy
  BY <1>2, <1>3, <1>4
<1>6. AllUpTo(e, current)
  <2>1. \A i \in Id : IdOn(e, i) => IdOn(disk, i) \/ i = callback
    BY <1>5 DEF IdOn
  <2>2. UpTo(current, callback)
    BY <1>2 DEF Wired, AllUpTo, IdOn
  <2> QED
    BY <1>2, <2>1, <2>2, StillUpTo DEF Wired
<1>7. CASE op.pc = "called"
  <2>1. PICK b : b = op'
    OBVIOUS
  <2>2. b \in Op /\ b.pc = "inspect" /\ b.id = op.id /\ b.phase = op.phase /\ b.writes = <<>>
    BY <1>1, <1>2, <1>7, <2>1 DEF Op, PCs
  <2>3. callback = op.id /\ op.phase = "runtime_intent"
    BY <1>2, <1>7 DEF SafeInv, Locks, OpInv, Shape, PhaseOf
  <2>4. WiredRuntime(disk, op, served, runtime) /\ WiredFiles(disk, op, served)
    BY <1>7 DEF Wired, WiredOp
  <2>5. runtime = served.policy /\ served # disk.baseline.target
        /\ (disk.sealed # None /\ disk.sealed.id = op.id => runtime = op.id.policy)
    BY <1>7, <2>4 DEF WiredRuntime, Untouched
  <2>6. WiredRuntime(e, b, served, rt)
    BY <1>5, <2>2, <2>3, <2>5 DEF WiredRuntime, Untouched
  <2>7. TargetOf(b, served) = TargetOf(op, served)
    BY <2>2 DEF TargetOf
  <2>8. WiredFiles(e, b, served)
    BY <1>5, <1>7, <2>2, <2>4, <2>7 DEF WiredFiles, YAMLDone
  <2>9. WiredWrites(b, served)
    BY <2>2 DEF WiredWrites, Pending
  <2>10. WiredOp(e, b, served, rt)
    BY <2>6, <2>8, <2>9 DEF WiredOp
  <2> QED
    BY <1>1, <1>3, <1>4, <1>6, <1>7, <2>1, <2>2, <2>10 DEF Wired
<1>8. CASE op.pc = "idle"
  <2>1. up = "serving" /\ failed
    BY <1>2, <1>8 DEF SafeInv, Types, Wired, AtRest
  <2>2. Recorded(disk, served, runtime)
    BY <1>2, <1>8 DEF Wired
  <2>3. Recorded(e, served, rt)
    BY <1>2, <1>5, <2>2 DEF Recorded
  <2>4. op' = op
    BY <1>1, <1>8
  <2>5. WiredOp(e, op, served, rt)
    BY <1>8 DEF WiredOp
  <2> QED
    BY <1>1, <1>3, <1>4, <1>6, <1>8, <2>1, <2>3, <2>4, <2>5 DEF Wired
<1> QED
  BY <1>2, <1>7, <1>8

\* The callback ends, one way or the other.
LEMMA CallbackWired ==
  ASSUME SafeInv, Wired, CallbackSucceeds \/ CallbackFails
  PROVE  Wired'
<1>1. callback # None /\ CallbackEnds
  BY Zenon DEF CallbackSucceeds, CallbackFails
<1>2. disk \in Disk
  BY DEF SafeInv, Types
<1>3. CASE CallbackSucceeds
  <2>1. PICK r : r = Seal(callback)
    OBVIOUS
  <2>2. /\ runtime' = disk.baseline.target.policy
        /\ disk' = IF CanSeal(r) THEN [disk EXCEPT !.sealed = r] ELSE disk
    BY <1>3, <2>1, Zenon DEF CallbackSucceeds
  <2>3. r.id = callback
    BY <2>1 DEF Seal
  <2>4. disk' \in Disk
    <3>1. SafeInv'
      BY <1>3, CallbackSafe
    <3> QED
      BY <3>1 DEF SafeInv, Types
  <2>5. CASE CanSeal(r)
    <3>1. /\ disk'.journal = disk.journal /\ disk'.lkg = disk.lkg /\ disk'.yaml = disk.yaml
          /\ disk'.baseline = disk.baseline /\ disk'.sealed = r
      BY <2>2, <2>5, <1>2 DEF Disk
    <3> QED
      BY <1>1, <2>2, <2>3, <2>4, <3>1, CallbackEndsWired
  <2>6. CASE ~CanSeal(r)
    <3>1. disk' = disk
      BY <2>2, <2>6
    <3> QED
      BY <1>1, <1>2, <2>2, <3>1, CallbackEndsWired
  <2> QED
    BY <2>5, <2>6
<1>4. CASE CallbackFails
  <2>1. runtime' \in {runtime, disk.baseline.target.policy} /\ UNCHANGED disk
    BY <1>4, Zenon DEF CallbackFails
  <2> QED
    BY <1>1, <1>2, <2>1, CallbackEndsWired
<1> QED
  BY <1>3, <1>4

-------------------------------------------------------------------------------
(* Theorems for the caller that serve is *)

\* The caller's mode is fixed.
LEMMA ModeFixed ==
  ASSUME [Next]_vars
  PROVE  exactRetry' = exactRetry
<1>1. CASE UNCHANGED vars
  BY <1>1 DEF vars
<1>2. CASE Start \/ Crash \/ ClusterAdvances \/ EditConfig \/ Startup \/ Propose \/ Retry
  BY <1>2, Zenon DEF Start, Crash, ClusterAdvances, EditConfig, Startup, Propose, Retry
<1>3. CASE WriteFails \/ CallTimesOut \/ CallbackSucceeds \/ CallbackFails \/ PublishFails
  BY <1>3, Zenon DEF WriteFails, CallTimesOut, CallbackSucceeds, CallbackFails, CallbackEnds,
     PublishFails
<1>4. Refuse => exactRetry' = exactRetry
  BY Zenon DEF Refuse
<1>5. \A pc, phase, writes : Continue(pc, phase, writes) => exactRetry' = exactRetry
  BY Zenon DEF Continue
<1>6. \A ok, pc, phase, writes : Continues(ok, pc, phase, writes) => exactRetry' = exactRetry
  BY <1>4, <1>5, Zenon DEF Continues
<1>7. \A previous, phase, pc : SaveJournal(previous, phase, pc) => exactRetry' = exactRetry
  BY <1>6, Zenon DEF SaveJournal
<1>8. CASE Apply
  <2>1. CASE ClaimFails \/ WriteOne \/ CallRuntime \/ Publish
    BY <2>1, Zenon DEF ClaimFails, WriteOne, CallRuntime, Publish
  <2>2. CASE Enter
    BY <2>2, <1>4, <1>5, <1>6, <1>7, Zenon DEF Enter
  <2>3. CASE LoadBaseline
    BY <2>3, <1>5, <1>6, Zenon DEF LoadBaseline
  <2>4. CASE RecordBaseline \/ ResumeYAML \/ PersistConfig \/ RecordYAML \/ RecordIntent
    BY <2>4, <1>5, <1>7, Zenon DEF RecordBaseline, ResumeYAML, PersistConfig, RecordYAML,
       RecordIntent
  <2>5. CASE RetryIntent \/ GiveUp \/ InspectPrevious \/ RecordApplied \/ SaveLKG
    BY <2>5, <1>4, <1>6, <1>7, Zenon DEF RetryIntent, GiveUp, InspectPrevious, RecordApplied,
       SaveLKG
  <2>6. CASE DeleteBaseline
    BY <2>6, <1>6, Zenon DEF DeleteBaseline
  <2>7. CASE \E pc \in {"step", "inspect"} : RuntimeIsTarget(pc) \/ RuntimeIsUnknown(pc)
    BY <2>7, <1>4, <1>6, <1>7, Zenon DEF RuntimeIsTarget, RuntimeIsUnknown
  <2> QED
    BY <1>8, <2>1, <2>2, <2>3, <2>4, <2>5, <2>6, <2>7, Zenon DEF Apply
<1> QED
  BY <1>1, <1>2, <1>3, <1>8, Zenon DEF Next

\* Every step preserves the wiring's invariant.
LEMMA NextWired ==
  ASSUME SafeInv, WiredInv, [Next]_vars
  PROVE  WiredInv'
<1>0. exactRetry' = exactRetry
  BY ModeFixed
<1> SUFFICES ASSUME ~exactRetry, Wired PROVE Wired'
  BY <1>0 DEF WiredInv
<1>1. CASE UNCHANGED vars
  BY <1>1, StutterWired
<1>2. CASE Start \/ Crash \/ ClusterAdvances \/ EditConfig
  BY <1>2, StartWired, CrashWired, AdvanceWired, EditWired
<1>3. CASE Startup \/ Propose \/ Retry
  BY <1>3, CallsWired
<1>4. CASE WriteFails \/ CallTimesOut \/ CallbackSucceeds \/ CallbackFails \/ PublishFails
  BY <1>4, WriteFailsWired, CallTimesOutWired, CallbackWired, PublishFailsWired
<1>5. CASE Apply
  <2>1. CASE ClaimFails \/ Enter \/ WriteOne \/ LoadBaseline
    BY <2>1, ClaimFailsWired, EnterWired, WriteOneWired, LoadBaselineWired
  <2>2. CASE RecordBaseline \/ RecordYAML \/ RecordIntent \/ ResumeYAML \/ PersistConfig
    BY <2>2, EarlyRecordsWired, YAMLWired
  <2>3. CASE \/ RetryIntent \/ GiveUp \/ InspectPrevious
             \/ \E pc \in {"step", "inspect"} : RuntimeIsTarget(pc) \/ RuntimeIsUnknown(pc)
    BY <2>3, RuntimeWired
  <2>4. CASE CallRuntime \/ RecordApplied \/ SaveLKG \/ DeleteBaseline \/ Publish
    BY <2>4, CallRuntimeWired, RecordAppliedWired, CleanWired, PublishWired
  <2> QED
    BY <1>5, <2>1, <2>2, <2>3, <2>4, Zenon DEF Apply
<1> QED
  BY <1>1, <1>2, <1>3, <1>4, <1>5, Zenon DEF Next

\* The wiring's invariant holds in every reachable state.
LEMMA WiredAlways == Spec => [](SafeInv /\ WiredInv)
<1>1. Init => WiredInv
  BY InitWired
<1>2. SafeInv /\ WiredInv /\ [Next]_vars => WiredInv'
  BY NextWired
<1> QED
  BY <1>1, <1>2, SafeAlways, PTL DEF Spec

\* orchestrator.go:330: as serve wires it, a data plane ahead of the published
\* configuration enforces what the baseline or the LKG on disk records, in every
\* state of every call and after every failure of one.
THEOREM RuntimeIsRecordedThm == Spec => []RuntimeIsRecorded
<1>1. SafeInv /\ WiredInv => RuntimeIsRecorded
  <2> SUFFICES ASSUME SafeInv, Wired, up # "down" PROVE Recorded(disk, served, runtime)
    BY DEF WiredInv, RuntimeIsRecorded, Recorded
  <2>1. CASE op.pc = "idle"
    BY <2>1 DEF Wired
  <2>2. CASE op.pc # "idle"
    BY <2>2, OpRecorded DEF SafeInv, Types, Wired
  <2> QED
    BY <2>1, <2>2
<1> QED
  BY <1>1, WiredAlways, PTL

\* protection_policy_consumer.go:237: as serve wires it, a process that serves and
\* did not fail has data plane, published configuration, YAML, journal and LKG in
\* agreement whenever no call runs.
THEOREM RestIsConsistentThm == Spec => []RestIsConsistent
<1>1. SafeInv /\ WiredInv => RestIsConsistent
  BY DEF WiredInv, Wired, AtRest, RestIsConsistent
<1> QED
  BY <1>1, WiredAlways, PTL

=============================================================================
