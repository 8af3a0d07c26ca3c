--------------------------- MODULE AsyncLogProofs ---------------------------
(***************************************************************************)
(* Proofs about the asynchronous log writer, for any number of Flush and   *)
(* Close calls, any capacities and any batch size.                         *)
(*                                                                         *)
(* The argument is about the work list: the worker's batch followed by the *)
(* queue.  Taking operations off the queue does not change it, so that the *)
(* order in which operations were accepted is the order in which they are  *)
(* tried.  Sums of bytes are reasoned about by induction over Nat, in the  *)
(* form that speaks of a set of naturals.                                  *)
(***************************************************************************)
EXTENDS AsyncLog, FiniteSetTheorems, SequenceTheorems, WellFoundedInduction, TLAPS

USE AsyncLogAssumption

-------------------------------------------------------------------------------
(* The types *)

Barriers == FlushCall \cup {NoBarrier}
Seqs == 0 .. MaxWrites
WriteOps == [kind : {"write"}, seq : 1 .. MaxWrites, size : Nat, barrier : {NoBarrier}]
FlushOps == [kind : {"flush"}, seq : Seqs, size : {0}, barrier : FlushCall]
CloseOps == [kind : {"close"}, seq : Seqs, size : {0}, barrier : {NoBarrier}]
Operation == WriteOps \cup FlushOps \cup CloseOps
Counters == [queuedWrites : Nat, pending : Nat, pendingBytes : Nat, acceptedSeq : Seqs,
             latestBarrier : Barriers, ackedFailures : Nat, failed : Nat,
             closing : BOOLEAN, cancelled : BOOLEAN, closeFinished : BOOLEAN, closeFrom : Nat]
Barrier == [target : Seqs, baseFailed : Nat, failedAtTarget : Nat, predecessor : Barriers,
            done : BOOLEAN, acknowledged : BOOLEAN, settled : BOOLEAN, waiters : Nat]
Writing == {"write", "writing", "failing"}
Flushing == {"flush", "flushing", "acking"}
WorkerPC == {"next", "close", "closed", "done"} \cup Writing \cup Flushing
FlushPC == {"idle", "waiting", "completed", "cancelled", "returned"}
WorkerType == [pc : WorkerPC, batch : Seq(WriteOps), barrier : Barriers]

Calls == [pc : FlushPC, barrier : Barriers]

WorkerOK(k) ==
  /\ k \in WorkerType
  /\ k.batch # <<>> => k.pc \in Writing
  /\ k.barrier \in FlushCall <=> k.pc \in Flushing

Types ==
  /\ operations \in Seq(Operation) /\ w \in Counters /\ barrier \in [FlushCall -> Barrier]
  /\ WorkerOK(worker) /\ flush \in [FlushCall -> Calls] /\ lost \in SUBSET (1 .. MaxWrites)

-------------------------------------------------------------------------------
(* The work list *)

WorkList(k, q) == k.batch \o q

Before(s, o) == IF o.kind = "write" THEN s < o.seq ELSE s <= o.seq
Ordered(u) == \A i, j \in DOMAIN u : i < j => Before(u[i].seq, u[j])
Writes(q) == {i \in DOMAIN q : q[i].kind = "write"}

\* The writes that are accepted and not tried, in order; those that failed came before.
WorkInv(u, c, l) ==
  /\ Ordered(u)
  /\ \A i \in DOMAIN u : u[i].seq <= c.acceptedSeq
  /\ \A s \in l : s <= c.acceptedSeq /\ \A i \in DOMAIN u : Before(s, u[i])
  /\ c.failed = Cardinality(l)

CapacityInv(q, k, c) ==
  /\ c.queuedWrites = Cardinality(Writes(q)) /\ c.queuedWrites <= QueueSize
  /\ c.pending = c.queuedWrites + Len(k.batch)
  /\ c.pendingBytes = Bytes(q) + Bytes(k.batch) /\ c.pendingBytes <= QueueBytes

-------------------------------------------------------------------------------
(* The barriers: q is the queue, k the worker, c the counters, f the Flush    *)
(* calls, b the barriers, l and t the failures and those told                 *)

Idle(f, x) == f[x].pc = "idle"
Active(f, x) == {d \in FlushCall : f[d].barrier = x
                                   /\ f[d].pc \in {"waiting", "completed", "cancelled"}}
IsFlush(o) == o.kind = "flush"

\* The barriers that are in use belong to calls that were made.
Known(q, k, c, f, b) ==
  /\ \A i \in DOMAIN q : IsFlush(q[i]) => ~Idle(f, q[i].barrier)
  /\ k.barrier \in FlushCall => ~Idle(f, k.barrier)
  /\ c.latestBarrier \in FlushCall => ~Idle(f, c.latestBarrier)
  /\ \A x \in FlushCall :
       /\ b[x].done \/ b[x].settled => ~Idle(f, x)
       /\ b[x].target <= c.acceptedSeq
       /\ ~Idle(f, x) => f[x].barrier \in FlushCall /\ ~Idle(f, f[x].barrier)

\* A queued barrier is queued once, at its target, and was not run.
Queued(q, k, b) ==
  \A i \in DOMAIN q : IsFlush(q[i]) =>
    /\ ~b[q[i].barrier].done /\ b[q[i].barrier].target = q[i].seq /\ q[i].barrier # k.barrier
    /\ \A j \in DOMAIN q : IsFlush(q[j]) /\ q[j].barrier = q[i].barrier => i = j

\* The barrier at the worker comes after what failed and before what is queued.
Running(q, k, b, l) ==
  k.barrier \in FlushCall =>
    /\ b[k.barrier].done <=> k.pc = "acking"
    /\ \A s \in l : s <= b[k.barrier].target
    /\ \A i \in DOMAIN q : q[i].kind = "write" => q[i].seq > b[k.barrier].target

Ran(k, b, x) == b[x].done \/ (k.pc = "flushing" /\ k.barrier = x)

\* A barrier that was run counts the failures of the writes before it.
Exact(u, k, b, l) ==
  \A x \in FlushCall : Ran(k, b, x) =>
    /\ \A i \in DOMAIN u : u[i].kind = "write" => u[i].seq > b[x].target
    /\ b[x].failedAtTarget = Cardinality({s \in l : s <= b[x].target})

\* Who waits for a barrier.
Waiting(f, b) ==
  \A x \in FlushCall :
    /\ IsFiniteSet(Active(f, x)) /\ b[x].waiters = Cardinality(Active(f, x))
    /\ b[x].settled => Active(f, x) = {}
    /\ b[x].acknowledged => b[x].done
    /\ f[x].pc = "completed" => b[f[x].barrier].done

\* What the callers were told.
Told(c, b, t) ==
  /\ 1 .. c.ackedFailures \subseteq t /\ 1 .. c.closeFrom \subseteq t
  /\ \A x \in FlushCall :
       /\ 1 .. b[x].baseFailed \subseteq t
       /\ b[x].acknowledged => 1 .. b[x].failedAtTarget \subseteq t

\* The last barrier that was run, if one was.
Latest(b, p) ==
  /\ p \notin FlushCall => \A x \in FlushCall : ~b[x].done
  /\ p \in FlushCall =>
       /\ b[p].done /\ b[p].settled
       /\ \A x \in FlushCall : b[x].done => b[x].failedAtTarget <= b[p].failedAtTarget

\* The barrier p precedes position i of the queue.
Precedes(q, k, b, p, i) ==
  \/ \E j \in 1 .. i - 1 : /\ IsFlush(q[j]) /\ q[j].barrier = p
                           /\ \A h \in j + 1 .. i - 1 : ~IsFlush(q[h])
  \/ /\ \A h \in 1 .. i - 1 : ~IsFlush(q[h])
     /\ k.barrier \in FlushCall => p = k.barrier
     /\ k.barrier \notin FlushCall => Latest(b, p)

NoneGivenUp(b) == \A x \in FlushCall : b[x].settled => b[x].acknowledged

\* Barriers are run in the order in which they were created.
Chain(q, k, c, b) ==
  /\ Precedes(q, k, b, c.latestBarrier, Len(q) + 1)
  /\ \A i \in DOMAIN q : IsFlush(q[i]) => Precedes(q, k, b, b[q[i].barrier].predecessor, i)
  /\ k.pc = "flush" => Latest(b, b[k.barrier].predecessor)

\* What the last barriers report: no more than the latest one, which starts where
\* the acknowledged ones ended.
Ranges(k, c, b) ==
  /\ k.pc \in {"flushing", "acking"} =>
       \A x \in FlushCall : b[x].done => b[x].failedAtTarget <= b[k.barrier].failedAtTarget
  /\ \/ c.ackedFailures = 0
     \/ \E x \in FlushCall : b[x].done /\ c.ackedFailures <= b[x].failedAtTarget
  /\ k.pc = "flushing" /\ NoneGivenUp(b) =>
       \A x \in FlushCall : b[x].done => b[x].failedAtTarget <= b[k.barrier].baseFailed

Inv ==
  /\ Types
  /\ WorkInv(WorkList(worker, operations), w, lost) /\ CapacityInv(operations, worker, w)
  /\ Known(operations, worker, w, flush, barrier) /\ Queued(operations, worker, barrier)
  /\ Running(operations, worker, barrier, lost)
  /\ Exact(WorkList(worker, operations), worker, barrier, lost)
  /\ Waiting(flush, barrier) /\ Told(w, barrier, told)
  /\ Chain(operations, worker, w, barrier) /\ Ranges(worker, w, barrier)

-------------------------------------------------------------------------------
(* Natural numbers and sequences *)

\* A nonempty set of naturals has a least element.
LEMMA LeastElement ==
  ASSUME NEW S \in SUBSET Nat, S # {}
  PROVE  \E i \in S : \A j \in S : i <= j
<1>1. PICK R : R = OpToRel(<, Nat)
  OBVIOUS
<1>2. IsWellFoundedOn(R, Nat)
  BY <1>1, NatLessThanWellFounded
<1>3. PICK i \in S : \A j \in S : ~(<<j, i>> \in R)
  BY <1>2, WFMin
<1>4. \A j \in S : j < i => <<j, i>> \in R
  BY <1>1, <1>3 DEF OpToRel
<1>5. \A j \in S : i \in Nat /\ j \in Nat /\ ~(j < i)
  BY <1>3, <1>4
<1>6. \A j \in S : i <= j
  BY <1>5
<1> QED
  BY <1>6

\* Induction over the naturals, for the set of those that have a property.
LEMMA SetInduction ==
  ASSUME NEW S \in SUBSET Nat, 0 \in S, \A n \in S : n + 1 \in S
  PROVE  S = Nat
<1> SUFFICES ASSUME S # Nat PROVE FALSE
  OBVIOUS
<1>1. PICK T : T = Nat \ S
  OBVIOUS
<1>2. T \in SUBSET Nat /\ T # {}
  BY <1>1
<1>3. PICK x \in T : \A y \in T : x <= y
  BY <1>2, LeastElement
<1>4. x # 0 /\ x - 1 \in Nat /\ ~(x <= x - 1) /\ (x - 1) + 1 = x
  BY <1>1, <1>3
<1>5. x - 1 \in S
  BY <1>1, <1>3, <1>4
<1> QED
  BY <1>1, <1>3, <1>4, <1>5

\* The elements of a concatenation.
LEMMA ConcatFacts ==
  ASSUME NEW X, NEW s \in Seq(X), NEW t \in Seq(X)
  PROVE  /\ s \o t \in Seq(X) /\ Len(s) \in Nat /\ Len(t) \in Nat
         /\ Len(s \o t) = Len(s) + Len(t)
         /\ DOMAIN s = 1 .. Len(s) /\ DOMAIN t = 1 .. Len(t)
         /\ DOMAIN (s \o t) = 1 .. Len(s) + Len(t)
         /\ \A i \in DOMAIN s : i \in DOMAIN (s \o t) /\ (s \o t)[i] = s[i]
         /\ \A i \in DOMAIN t : Len(s) + i \in DOMAIN (s \o t) /\ (s \o t)[Len(s) + i] = t[i]
         /\ \A i \in DOMAIN (s \o t) : \/ i \in DOMAIN s
                                       \/ i - Len(s) \in DOMAIN t /\ Len(s) + (i - Len(s)) = i
<1>1. /\ s \o t \in Seq(X) /\ Len(s) \in Nat /\ Len(t) \in Nat
      /\ Len(s \o t) = Len(s) + Len(t)
      /\ DOMAIN s = 1 .. Len(s) /\ DOMAIN t = 1 .. Len(t)
      /\ DOMAIN (s \o t) = 1 .. Len(s) + Len(t)
      /\ \A i \in 1 .. Len(s) + Len(t) :
           (s \o t)[i] = IF i <= Len(s) THEN s[i] ELSE t[i - Len(s)]
  OBVIOUS
<1>2. \A i \in 1 .. Len(t) : /\ Len(s) + i \in 1 .. Len(s) + Len(t) /\ ~(Len(s) + i <= Len(s))
                             /\ (Len(s) + i) - Len(s) = i
  BY <1>1
<1> QED
  BY <1>1, <1>2

\* A sequence is put together from two pieces.
LEMMA Glued ==
  ASSUME NEW X, NEW s \in Seq(X), NEW a \in Seq(X), NEW b \in Seq(X),
         Len(s) = Len(a) + Len(b),
         \A i \in 1 .. Len(a) : a[i] = s[i],
         \A i \in 1 .. Len(b) : b[i] = s[Len(a) + i]
  PROVE  a \o b = s
<1>0. PICK m : m = Len(a)
  OBVIOUS
<1>1. /\ m \in Nat /\ Len(b) \in Nat /\ Len(s) = m + Len(b) /\ a \o b \in Seq(X)
      /\ Len(a \o b) = Len(s)
  BY <1>0, ConcatFacts
<1>2. /\ \A i \in 1 .. m : (a \o b)[i] = s[i]
      /\ \A i \in 1 .. Len(b) : (a \o b)[m + i] = s[m + i]
  BY <1>0, ConcatFacts
<1>3. ASSUME NEW i \in 1 .. Len(s) PROVE (a \o b)[i] = s[i]
  <2>1. CASE i <= m
    BY <1>1, <1>2, <2>1
  <2>2. CASE ~(i <= m)
    <3>1. PICK j \in 1 .. Len(b) : m + j = i
      <4>1. i - m \in 1 .. Len(b) /\ m + (i - m) = i
        BY <1>1, <2>2
      <4> QED
        BY <4>1
    <3> QED
      BY <1>2, <3>1
  <2> QED
    BY <2>1, <2>2
<1>4. \A t \in Seq(X) : t = [i \in 1 .. Len(t) |-> t[i]]
  OBVIOUS
<1>5. PICK t : t = a \o b
  OBVIOUS
<1>6. t = [i \in 1 .. Len(s) |-> t[i]] /\ s = [i \in 1 .. Len(s) |-> s[i]]
  BY <1>1, <1>4, <1>5
<1> QED
  BY <1>3, <1>5, <1>6

\* A sequence cut in two.
LEMMA CutFacts ==
  ASSUME NEW X, NEW s \in Seq(X), NEW m \in 0 .. Len(s),
         NEW a, a = SubSeq(s, 1, m), NEW b, b = SubSeq(s, m + 1, Len(s))
  PROVE  /\ a \in Seq(X) /\ b \in Seq(X) /\ Len(a) = m /\ Len(b) = Len(s) - m
         /\ DOMAIN a = 1 .. m /\ DOMAIN b = 1 .. Len(s) - m
         /\ \A i \in 1 .. m : a[i] = s[i]
         /\ \A i \in 1 .. Len(s) - m : b[i] = s[m + i]
<1>1. Len(s) \in Nat /\ m \in Nat /\ DOMAIN s = 1 .. Len(s) /\ \A i \in 1 .. Len(s) : s[i] \in X
  OBVIOUS
<1>2. /\ a \in Seq(X) /\ Len(a) = (IF 1 <= m THEN m - 1 + 1 ELSE 0)
      /\ \A i \in 1 .. m - 1 + 1 : a[i] = s[1 + i - 1]
  <2>1. \A i \in 1 .. m : s[i] \in X
    BY <1>1
  <2> QED
    BY <1>1, <2>1, SubSeqProperties
<1>3. /\ b \in Seq(X) /\ Len(b) = (IF m + 1 <= Len(s) THEN Len(s) - (m + 1) + 1 ELSE 0)
      /\ \A i \in 1 .. Len(s) - (m + 1) + 1 : b[i] = s[(m + 1) + i - 1]
  <2>1. \A i \in m + 1 .. Len(s) : s[i] \in X
    BY <1>1
  <2>2. m + 1 \in Int /\ Len(s) \in Int
    BY <1>1
  <2> QED
    BY <2>1, <2>2, SubSeqProperties
<1>4. /\ Len(a) = m /\ DOMAIN a = 1 .. m /\ Len(b) = Len(s) - m /\ DOMAIN b = 1 .. Len(s) - m
      /\ \A i \in 1 .. m : a[i] = s[i]
      /\ \A i \in 1 .. Len(s) - m : b[i] = s[m + i]
  BY <1>1, <1>2, <1>3, SMTT(30)
<1> QED
  BY <1>2, <1>3, <1>4

\* The two pieces of a cut are the sequence.
LEMMA CutGlue ==
  ASSUME NEW X, NEW s \in Seq(X), NEW m \in 0 .. Len(s)
  PROVE  SubSeq(s, 1, m) \o SubSeq(s, m + 1, Len(s)) = s
<1>1. PICK a : a = SubSeq(s, 1, m)
  OBVIOUS
<1>2. PICK b : b = SubSeq(s, m + 1, Len(s))
  OBVIOUS
<1>3. /\ a \in Seq(X) /\ b \in Seq(X) /\ Len(a) = m /\ Len(b) = Len(s) - m
      /\ \A i \in 1 .. m : a[i] = s[i]
      /\ \A i \in 1 .. Len(s) - m : b[i] = s[m + i]
  BY <1>1, <1>2, CutFacts
<1>4. /\ Len(s) = Len(a) + Len(b)
      /\ \A i \in 1 .. Len(a) : a[i] = s[i]
      /\ \A i \in 1 .. Len(b) : b[i] = s[Len(a) + i]
  <2>1. m \in Nat /\ Len(s) \in Nat
    OBVIOUS
  <2>2. Len(s) = Len(a) + Len(b)
    BY <1>3, <2>1
  <2>3. \A i \in 1 .. Len(a) : a[i] = s[i]
    BY <1>3, Zenon
  <2>4. \A i \in 1 .. Len(b) : b[i] = s[Len(a) + i]
    BY <1>3, Zenon
  <2> QED
    BY <2>2, <2>3, <2>4, Zenon
<1>5. a \in Seq(X) /\ b \in Seq(X)
  BY <1>3
<1>6. a \o b = s
  BY <1>4, <1>5, Glued
<1> QED
  BY <1>1, <1>2, <1>6

\* The head of a sequence is cut off.
LEMMA TailCut ==
  ASSUME NEW X, NEW s \in Seq(X), s # <<>>
  PROVE  /\ 1 \in 0 .. Len(s) /\ Tail(s) = SubSeq(s, 2, Len(s)) /\ <<Head(s)>> = SubSeq(s, 1, 1)
         /\ 1 \in DOMAIN s /\ Head(s) = s[1] /\ Head(s) \in X
<1>1. Len(s) \in Nat /\ Len(s) # 0 /\ DOMAIN s = 1 .. Len(s) /\ Head(s) = s[1] /\ s[1] \in X
  OBVIOUS
<1>2. 1 \in 0 .. Len(s) /\ 1 \in DOMAIN s
  BY <1>1
<1>3. PICK a : a = SubSeq(s, 1, 1)
  OBVIOUS
<1>4. PICK b : b = SubSeq(s, 1 + 1, Len(s))
  OBVIOUS
<1>5. /\ a \in Seq(X) /\ b \in Seq(X) /\ Len(a) = 1 /\ DOMAIN a = 1 .. 1 /\ a[1] = s[1]
      /\ Len(b) = Len(s) - 1 /\ \A i \in 1 .. Len(s) - 1 : b[i] = s[1 + i]
  BY <1>2, <1>3, <1>4, CutFacts
<1>6. a = <<Head(s)>>
  BY <1>1, <1>5
<1>7. b = Tail(s)
  BY <1>1, <1>5
<1>8. 1 + 1 = 2
  OBVIOUS
<1> QED
  BY <1>1, <1>2, <1>3, <1>4, <1>6, <1>7, <1>8

-------------------------------------------------------------------------------
(* Sums of bytes *)

\* The partial sums of the sizes of operations, and of the first m of them.
Partial(q, m, g) == g[0] = 0 /\ \A i \in 1 .. m : g[i] = g[i - 1] + q[i].size
Sums(q, g) ==
  /\ g = [i \in 0 .. Len(q) |-> g[i]]
  /\ g[0] = 0
  /\ \A i \in 1 .. Len(q) : g[i] = g[i - 1] + q[i].size

\* Operations have partial sums.
LEMMA SumsExist ==
  ASSUME NEW q \in Seq(Operation)
  PROVE  \E g \in [0 .. Len(q) -> Nat] : Sums(q, g)
<1>0. /\ Len(q) \in Nat /\ DOMAIN q = 1 .. Len(q)
      /\ \A i \in 1 .. Len(q) : q[i].size \in Nat
  BY DEF Operation, WriteOps, FlushOps, CloseOps
<1>1. PICK S : S = {m \in Nat : m <= Len(q) => \E g \in [0 .. m -> Nat] : Partial(q, m, g)}
  OBVIOUS
<1>2. 0 \in S
  <2>1. PICK g : g = [i \in 0 .. 0 |-> 0]
    OBVIOUS
  <2>2. g \in [0 .. 0 -> Nat] /\ Partial(q, 0, g)
    BY <2>1 DEF Partial
  <2> QED
    BY <1>1, <2>2
<1>3. ASSUME NEW m \in S PROVE m + 1 \in S
  <2>1. m \in Nat
    BY <1>1
  <2>2. ASSUME m + 1 <= Len(q) PROVE \E g \in [0 .. m + 1 -> Nat] : Partial(q, m + 1, g)
    <3>1. m <= Len(q) /\ m + 1 \in 1 .. Len(q)
      BY <1>0, <2>1, <2>2
    <3>2. PICK g \in [0 .. m -> Nat] : Partial(q, m, g)
      BY <1>1, <3>1
    <3>3. PICK h : h = [i \in 0 .. m + 1 |-> IF i = m + 1 THEN g[m] + q[m + 1].size ELSE g[i]]
      OBVIOUS
    <3>4. g[m] + q[m + 1].size \in Nat
      BY <1>0, <2>1, <3>1, <3>2
    <3>5. h \in [0 .. m + 1 -> Nat]
      BY <2>1, <3>2, <3>3, <3>4
    <3>6. h[0] = 0
      BY <2>1, <3>2, <3>3 DEF Partial
    <3>7. ASSUME NEW i \in 1 .. m + 1 PROVE h[i] = h[i - 1] + q[i].size
      <4>1. CASE i = m + 1
        <5>1. i - 1 = m /\ h[m] = g[m]
          BY <2>1, <3>3, <4>1
        <5> QED
          BY <2>1, <3>3, <4>1, <5>1
      <4>2. CASE i # m + 1
        <5>1. i \in 1 .. m /\ i - 1 \in 0 .. m /\ i - 1 # m + 1
          BY <2>1, <4>2
        <5>2. h[i] = g[i] /\ h[i - 1] = g[i - 1]
          BY <2>1, <3>3, <5>1
        <5> QED
          BY <3>2, <5>1, <5>2 DEF Partial
      <4> QED
        BY <4>1, <4>2
    <3> QED
      BY <3>5, <3>6, <3>7 DEF Partial
  <2>3. m + 1 \in Nat
    BY <2>1
  <2> QED
    BY <1>1, <2>2, <2>3
<1>4. S \in SUBSET Nat
  BY <1>1
<1>5. S = Nat
  BY <1>2, <1>3, <1>4, SetInduction
<1>6. PICK g \in [0 .. Len(q) -> Nat] : Partial(q, Len(q), g)
  BY <1>0, <1>1, <1>5
<1> QED
  BY <1>6 DEF Sums, Partial

\* Partial sums are unique.
LEMMA SumsUnique ==
  ASSUME NEW q \in Seq(Operation), NEW g, Sums(q, g), NEW h, Sums(q, h)
  PROVE  g[Len(q)] = h[Len(q)]
<1>1. PICK S : S = {m \in Nat : m <= Len(q) => g[m] = h[m]}
  OBVIOUS
<1>2. 0 \in S
  BY <1>1 DEF Sums
<1>3. ASSUME NEW m \in S PROVE m + 1 \in S
  <2>1. ASSUME m + 1 <= Len(q) PROVE g[m + 1] = h[m + 1]
    <3>1. m \in Nat /\ m + 1 \in 1 .. Len(q) /\ (m + 1) - 1 = m /\ m <= Len(q)
      BY <1>1, <2>1
    <3>2. g[m] = h[m]
      BY <1>1, <3>1
    <3>3. /\ g[m + 1] = g[(m + 1) - 1] + q[m + 1].size
          /\ h[m + 1] = h[(m + 1) - 1] + q[m + 1].size
      BY <3>1 DEF Sums
    <3> QED
      BY <3>1, <3>2, <3>3
  <2> QED
    BY <1>1, <2>1
<1>4. S \in SUBSET Nat
  BY <1>1
<1>5. S = Nat
  BY <1>2, <1>3, <1>4, SetInduction
<1>6. Len(q) \in Nat
  OBVIOUS
<1> QED
  BY <1>1, <1>5, <1>6

\* Bytes is the last of the partial sums.
LEMMA BytesIsSum ==
  ASSUME NEW q \in Seq(Operation), NEW g, Sums(q, g)
  PROVE  Bytes(q) = g[Len(q)]
<1> DEFINE sum == CHOOSE h : h = [i \in 0 .. Len(q) |-> IF i = 0 THEN 0 ELSE h[i - 1] + q[i].size]
<1>0. Len(q) \in Nat
  OBVIOUS
<1>1. g = [i \in 0 .. Len(q) |-> IF i = 0 THEN 0 ELSE g[i - 1] + q[i].size]
  <2>1. \A i \in 0 .. Len(q) : i = 0 \/ i \in 1 .. Len(q)
    BY <1>0
  <2>2. \A i \in 0 .. Len(q) : g[i] = IF i = 0 THEN 0 ELSE g[i - 1] + q[i].size
    BY <2>1 DEF Sums
  <2>3. g = [i \in 0 .. Len(q) |-> g[i]]
    BY DEF Sums
  <2> QED
    BY <2>2, <2>3
<1>2. sum = [i \in 0 .. Len(q) |-> IF i = 0 THEN 0 ELSE sum[i - 1] + q[i].size]
  BY <1>1
<1>3. Bytes(q) = sum[Len(q)]
  BY DEF Bytes
<1>4. Sums(q, sum)
  <2> HIDE DEF sum
  <2>1. 0 \in 0 .. Len(q) /\ \A i \in 1 .. Len(q) : i \in 0 .. Len(q) /\ i # 0
    BY <1>0
  <2>2. sum[0] = 0
    BY <1>2, <2>1
  <2>3. \A i \in 1 .. Len(q) : sum[i] = sum[i - 1] + q[i].size
    BY <1>2, <2>1
  <2>4. sum = [i \in 0 .. Len(q) |-> sum[i]]
    BY <1>2
  <2> QED
    BY <2>2, <2>3, <2>4 DEF Sums
<1> QED
  BY <1>3, <1>4, SumsUnique

\* The bytes of no operation, and of one.
LEMMA BytesOne ==
  ASSUME NEW o \in Operation
  PROVE  Bytes(<<>>) = 0 /\ Bytes(<<o>>) = o.size
<1>0. o.size \in Nat
  BY DEF Operation, WriteOps, FlushOps, CloseOps
<1>1. <<>> \in Seq(Operation) /\ Len(<<>>) = 0 /\ <<o>> \in Seq(Operation) /\ Len(<<o>>) = 1
      /\ <<o>>[1] = o
  OBVIOUS
<1>2. PICK g : g = [i \in 0 .. 0 |-> 0]
  OBVIOUS
<1>3. Sums(<<>>, g)
  BY <1>1, <1>2 DEF Sums
<1>4. PICK h : h = [i \in 0 .. 1 |-> IF i = 0 THEN 0 ELSE o.size]
  OBVIOUS
<1>5. h[0] = 0 /\ h[1] = o.size /\ h = [i \in 0 .. 1 |-> h[i]]
  BY <1>4
<1>6. \A i \in 1 .. 1 : i = 1 /\ i - 1 = 0
  OBVIOUS
<1>7. Sums(<<o>>, h)
  <2>1. \A i \in 1 .. 1 : h[i] = h[i - 1] + <<o>>[i].size
    BY <1>0, <1>1, <1>5, <1>6
  <2> QED
    BY <1>1, <1>5, <2>1 DEF Sums
<1>8. Bytes(<<>>) = g[0] /\ Bytes(<<o>>) = h[1]
  BY <1>1, <1>3, <1>7, BytesIsSum
<1> QED
  BY <1>2, <1>5, <1>8

\* The bytes of operations are a natural number, and add up.
LEMMA BytesConcat ==
  ASSUME NEW s \in Seq(Operation), NEW t \in Seq(Operation)
  PROVE  Bytes(s \o t) = Bytes(s) + Bytes(t) /\ Bytes(s) \in Nat /\ Bytes(t) \in Nat
<1>1. PICK g \in [0 .. Len(s) -> Nat] : Sums(s, g)
  BY SumsExist
<1>2. PICK h \in [0 .. Len(t) -> Nat] : Sums(t, h)
  BY SumsExist
<1>3. PICK m : m = Len(s)
  OBVIOUS
<1>4. PICK n : n = Len(t)
  OBVIOUS
<1>5. PICK u : u = s \o t
  OBVIOUS
<1>6. /\ m \in Nat /\ n \in Nat /\ u \in Seq(Operation) /\ Len(u) = m + n
      /\ \A i \in 1 .. m : u[i] = s[i]
      /\ \A i \in 1 .. n : u[m + i] = t[i]
  <2>1. /\ m \in Nat /\ n \in Nat /\ u \in Seq(Operation) /\ Len(u) = m + n
        /\ DOMAIN s = 1 .. m /\ DOMAIN t = 1 .. n
    BY <1>3, <1>4, <1>5, ConcatFacts
  <2>2. /\ \A i \in DOMAIN s : u[i] = s[i]
        /\ \A i \in DOMAIN t : u[m + i] = t[i]
    BY <1>3, <1>4, <1>5, ConcatFacts
  <2> QED
    BY <2>1, <2>2
<1>7. PICK k : k = [i \in 0 .. m + n |-> IF i <= m THEN g[i] ELSE g[m] + h[i - m]]
  OBVIOUS
<1>8. /\ g[0] = 0 /\ \A i \in 1 .. m : g[i] = g[i - 1] + s[i].size
      /\ h[0] = 0 /\ \A i \in 1 .. n : h[i] = h[i - 1] + t[i].size
  BY <1>1, <1>2, <1>3, <1>4 DEF Sums
<1>9. g[m] \in Nat /\ h[n] \in Nat /\ k[m + n] = g[m] + h[n]
  <2>1. m \in 0 .. m /\ n \in 0 .. n /\ m + n \in 0 .. m + n /\ (m + n) - m = n
    BY <1>6
  <2>2. g[m] \in Nat /\ h[n] \in Nat
    BY <1>1, <1>2, <1>3, <1>4, <2>1
  <2>3. CASE n = 0
    BY <1>6, <1>7, <1>8, <2>1, <2>2, <2>3
  <2>4. CASE n # 0
    BY <1>6, <1>7, <2>1, <2>2, <2>4
  <2> QED
    BY <2>2, <2>3, <2>4
<1>10. ASSUME NEW i \in 1 .. m + n PROVE k[i] = k[i - 1] + u[i].size
  <2>1. CASE i <= m
    <3>1. i \in 1 .. m /\ i - 1 \in 0 .. m + n /\ i - 1 <= m /\ i \in 0 .. m + n
      BY <1>6, <2>1
    <3>2. k[i] = g[i] /\ k[i - 1] = g[i - 1]
      BY <1>7, <2>1, <3>1
    <3> QED
      BY <1>6, <1>8, <3>1, <3>2
  <2>2. CASE ~(i <= m)
    <3>1. PICK j : j = i - m
      OBVIOUS
    <3>2. j \in 1 .. n /\ m + j = i /\ i - 1 \in 0 .. m + n /\ i \in 0 .. m + n
          /\ (i - 1) - m = j - 1 /\ j - 1 \in 0 .. n /\ j \in 0 .. n /\ (i - 1 <= m <=> j = 1)
      BY <1>6, <2>2, <3>1
    <3>3. k[i] = g[m] + h[j] /\ u[i] = t[j] /\ h[j] = h[j - 1] + t[j].size
      BY <1>6, <1>7, <1>8, <2>2, <3>1, <3>2
    <3>4. k[i - 1] = g[m] + h[j - 1]
      <4>1. CASE j = 1
        <5>1. i - 1 = m /\ k[m] = g[m] /\ j - 1 = 0
          BY <1>6, <1>7, <3>2, <4>1
        <5> QED
          BY <1>8, <1>9, <5>1
      <4>2. CASE j # 1
        BY <1>7, <3>2, <4>2
      <4> QED
        BY <4>1, <4>2
    <3>5. t[j].size \in Nat /\ h[j - 1] \in Nat
      <4>1. t[j] \in Operation
        BY <1>4, <3>2
      <4>2. t[j].size \in Nat
        BY <4>1 DEF Operation, WriteOps, FlushOps, CloseOps
      <4>3. h[j - 1] \in Nat
        BY <1>2, <1>4, <3>2
      <4> QED
        BY <4>2, <4>3
    <3> QED
      BY <1>9, <3>3, <3>4, <3>5
  <2> QED
    BY <2>1, <2>2
<1>11. k[0] = 0
  BY <1>6, <1>7, <1>8
<1>12. k = [i \in 0 .. m + n |-> k[i]]
  BY <1>7
<1>13. Sums(u, k)
  BY <1>6, <1>10, <1>11, <1>12 DEF Sums
<1>14. Bytes(u) = k[m + n] /\ Bytes(s) = g[m] /\ Bytes(t) = h[n]
  BY <1>1, <1>2, <1>3, <1>4, <1>6, <1>13, BytesIsSum
<1> QED
  BY <1>5, <1>9, <1>14

-------------------------------------------------------------------------------
(* Numbers of writes *)

\* The writes of a sequence are finitely many.
LEMMA WritesFinite ==
  ASSUME NEW q \in Seq(Operation)
  PROVE  IsFiniteSet(Writes(q)) /\ Cardinality(Writes(q)) \in Nat
<1>1. Len(q) \in Nat /\ DOMAIN q = 1 .. Len(q)
  OBVIOUS
<1>2. IsFiniteSet(1 .. Len(q))
  BY <1>1, FS_Interval
<1>3. Writes(q) \in SUBSET (1 .. Len(q))
  BY <1>1 DEF Writes
<1> QED
  BY <1>2, <1>3, FS_Subset, FS_CardinalityType

\* The writes of two sequences add up.
LEMMA WritesConcat ==
  ASSUME NEW s \in Seq(Operation), NEW t \in Seq(Operation)
  PROVE  Cardinality(Writes(s \o t)) = Cardinality(Writes(s)) + Cardinality(Writes(t))
<1>1. PICK u : u = s \o t
  OBVIOUS
<1>2. PICK m : m = Len(s)
  OBVIOUS
<1>3. /\ m \in Nat /\ Len(t) \in Nat /\ DOMAIN s = 1 .. m /\ DOMAIN t = 1 .. Len(t)
      /\ DOMAIN u = 1 .. m + Len(t)
  BY <1>1, <1>2, ConcatFacts
<1>4. /\ \A i \in 1 .. m : u[i] = s[i]
      /\ \A i \in 1 .. Len(t) : u[m + i] = t[i]
  BY <1>1, <1>2, <1>3, ConcatFacts
<1>5. PICK T : T = {m + i : i \in Writes(t)}
  OBVIOUS
<1>6. /\ IsFiniteSet(Writes(s)) /\ IsFiniteSet(Writes(t))
      /\ Cardinality(Writes(s)) \in Nat /\ Cardinality(Writes(t)) \in Nat
  BY WritesFinite
<1>7. IsFiniteSet(T) /\ Cardinality(T) = Cardinality(Writes(t))
  <2>1. PICK f : f = [i \in Writes(t) |-> m + i]
    OBVIOUS
  <2>2. \A i \in Writes(t) : i \in Nat
    BY <1>3 DEF Writes
  <2>3. f \in Bijection(Writes(t), T)
    <3>1. f \in [Writes(t) -> T]
      BY <1>5, <2>1
    <3>2. \A i, j \in Writes(t) : f[i] = f[j] => i = j
      BY <1>3, <2>1, <2>2
    <3>3. \A x \in T : \E i \in Writes(t) : f[i] = x
      BY <1>5, <2>1
    <3> QED
      BY <3>1, <3>2, <3>3 DEF Bijection, Injection, Surjection, IsInjective
  <2>4. ExistsBijection(Writes(t), T)
    BY <2>3 DEF ExistsBijection
  <2> QED
    BY <1>6, <2>4, FS_Bijection
<1>8. Writes(u) = Writes(s) \cup T
  <2>1. ASSUME NEW i \in Writes(u) PROVE i \in Writes(s) \cup T
    <3>1. i \in 1 .. m + Len(t) /\ u[i].kind = "write"
      BY <1>3 DEF Writes
    <3>2. CASE i <= m
      <4>1. i \in 1 .. m
        BY <1>3, <3>1, <3>2
      <4> QED
        BY <1>3, <1>4, <3>1, <4>1 DEF Writes
    <3>3. CASE ~(i <= m)
      <4>1. i - m \in 1 .. Len(t) /\ m + (i - m) = i
        BY <1>3, <3>1, <3>3
      <4>2. i - m \in Writes(t)
        BY <1>3, <1>4, <3>1, <4>1 DEF Writes
      <4> QED
        BY <1>5, <4>1, <4>2
    <3> QED
      BY <3>2, <3>3
  <2>2. ASSUME NEW i \in Writes(s) PROVE i \in Writes(u)
    BY <1>3, <1>4 DEF Writes
  <2>3. ASSUME NEW x \in T PROVE x \in Writes(u)
    <3>1. PICK i \in Writes(t) : x = m + i
      BY <1>5
    <3>2. i \in 1 .. Len(t) /\ t[i].kind = "write" /\ m + i \in 1 .. m + Len(t)
      BY <1>3 DEF Writes
    <3> QED
      BY <1>3, <1>4, <3>1, <3>2 DEF Writes
  <2> QED
    BY <2>1, <2>2, <2>3
<1>9. Writes(s) \cap T = {}
  <2>1. \A i \in Writes(s) : i <= m /\ i \in Nat
    BY <1>3 DEF Writes
  <2>2. \A i \in Writes(t) : i \in Nat /\ i >= 1
    BY <1>3 DEF Writes
  <2>3. \A x \in T : ~(x <= m)
    BY <1>3, <1>5, <2>2
  <2> QED
    BY <2>1, <2>3
<1>10. Cardinality(Writes(s) \cup T) = Cardinality(Writes(s)) + Cardinality(T) - Cardinality(Writes(s) \cap T)
  BY <1>6, <1>7, FS_Union
<1>11. Cardinality(Writes(s) \cap T) = 0
  BY <1>9, FS_EmptySet
<1> QED
  BY <1>1, <1>6, <1>7, <1>8, <1>10, <1>11

\* A sequence of writes counts as many as it is long; no write counts as none.
LEMMA WritesOnly ==
  ASSUME NEW q \in Seq(Operation)
  PROVE  /\ (\A i \in DOMAIN q : q[i].kind = "write") => Cardinality(Writes(q)) = Len(q)
         /\ (\A i \in DOMAIN q : q[i].kind # "write") => Cardinality(Writes(q)) = 0
<1>1. Len(q) \in Nat /\ DOMAIN q = 1 .. Len(q)
  OBVIOUS
<1>2. ASSUME \A i \in DOMAIN q : q[i].kind = "write" PROVE Cardinality(Writes(q)) = Len(q)
  <2>1. Writes(q) = 1 .. Len(q)
    BY <1>1, <1>2 DEF Writes
  <2>2. Cardinality(1 .. Len(q)) = IF 1 > Len(q) THEN 0 ELSE Len(q) - 1 + 1
    BY <1>1, FS_Interval
  <2> QED
    BY <1>1, <2>1, <2>2
<1>3. ASSUME \A i \in DOMAIN q : q[i].kind # "write" PROVE Cardinality(Writes(q)) = 0
  <2>1. Writes(q) = {}
    BY <1>3 DEF Writes
  <2> QED
    BY <2>1, FS_EmptySet
<1> QED
  BY <1>2, <1>3

-------------------------------------------------------------------------------
(* The queue *)

\* The fields of an operation.
LEMMA OpFields ==
  ASSUME NEW o \in Operation
  PROVE  /\ o.kind \in {"write", "flush", "close"} /\ o.seq \in Seqs /\ o.size \in Nat
         /\ o.seq \in Nat /\ o.barrier \in Barriers
         /\ o.kind = "write" => o \in WriteOps /\ o.seq \in 1 .. MaxWrites /\ o.barrier = NoBarrier
         /\ o.kind # "write" => o.size = 0
         /\ IsFlush(o) <=> o.kind = "flush"
         /\ o.kind = "flush" <=> o.barrier \in FlushCall
BY DEF Operation, WriteOps, FlushOps, CloseOps, Seqs, Barriers, IsFlush

\* The elements of a queue after an Append.
LEMMA AppendElems ==
  ASSUME NEW q \in Seq(Operation), NEW o \in Operation
  PROVE  /\ Append(q, o) \in Seq(Operation) /\ Len(q) \in Nat /\ Len(Append(q, o)) = Len(q) + 1
         /\ DOMAIN q = 1 .. Len(q) /\ DOMAIN Append(q, o) = 1 .. Len(q) + 1
         /\ \A i \in 1 .. Len(q) : Append(q, o)[i] = q[i]
         /\ Append(q, o)[Len(q) + 1] = o
         /\ \A i \in 1 .. Len(q) + 1 : i \in 1 .. Len(q) \/ i = Len(q) + 1
OBVIOUS

\* An Append to the queue is one to the work list.
LEMMA AppendWorkList ==
  ASSUME NEW s \in Seq(Operation), NEW q \in Seq(Operation), NEW o \in Operation
  PROVE  s \o Append(q, o) = Append(s \o q, o)
<1>1. <<o>> \in Seq(Operation)
  OBVIOUS
<1>2. Append(q, o) = q \o <<o>> /\ Append(s \o q, o) = (s \o q) \o <<o>>
  BY ConcatFacts, AppendIsConcat
<1>3. (s \o q) \o <<o>> = s \o (q \o <<o>>)
  BY <1>1, ConcatAssociative
<1> QED
  BY <1>2, <1>3

\* Bytes and writes of a queue after an Append.
LEMMA AppendCounts ==
  ASSUME NEW q \in Seq(Operation), NEW o \in Operation
  PROVE  /\ Bytes(Append(q, o)) = Bytes(q) + o.size
         /\ Cardinality(Writes(Append(q, o))) =
              Cardinality(Writes(q)) + (IF o.kind = "write" THEN 1 ELSE 0)
         /\ Bytes(q) \in Nat /\ Cardinality(Writes(q)) \in Nat
<1>1. <<o>> \in Seq(Operation) /\ Len(<<o>>) = 1 /\ DOMAIN <<o>> = 1 .. 1 /\ <<o>>[1] = o
  OBVIOUS
<1>2. Append(q, o) = q \o <<o>>
  BY AppendIsConcat
<1>3. Bytes(q \o <<o>>) = Bytes(q) + o.size /\ Bytes(q) \in Nat
  BY <1>1, BytesConcat, BytesOne
<1>4. Cardinality(Writes(<<o>>)) = IF o.kind = "write" THEN 1 ELSE 0
  <2>1. \A i \in DOMAIN <<o>> : <<o>>[i] = o
    BY <1>1
  <2> QED
    BY <1>1, <2>1, WritesOnly
<1>5. Cardinality(Writes(q \o <<o>>)) = Cardinality(Writes(q)) + Cardinality(Writes(<<o>>))
  BY <1>1, WritesConcat
<1>6. Cardinality(Writes(q)) \in Nat
  BY WritesFinite
<1> QED
  BY <1>2, <1>3, <1>4, <1>5, <1>6

\* An operation that comes after all accepted writes extends the work list.
LEMMA AppendWork ==
  ASSUME NEW u \in Seq(Operation), NEW o \in Operation, NEW c \in Counters, NEW e \in Counters,
         NEW l \in SUBSET (1 .. MaxWrites), WorkInv(u, c, l), e.failed = c.failed,
         c.acceptedSeq <= e.acceptedSeq, o.seq <= e.acceptedSeq, Before(c.acceptedSeq, o)
  PROVE  WorkInv(Append(u, o), e, l)
<1>0. PICK v : v = Append(u, o)
  OBVIOUS
<1>1. /\ v \in Seq(Operation) /\ Len(u) \in Nat
      /\ DOMAIN u = 1 .. Len(u) /\ DOMAIN v = 1 .. Len(u) + 1
      /\ \A i \in 1 .. Len(u) : v[i] = u[i]
      /\ v[Len(u) + 1] = o
      /\ \A i \in 1 .. Len(u) + 1 : i \in 1 .. Len(u) \/ i = Len(u) + 1
  BY <1>0, AppendElems
<1>2. /\ c.acceptedSeq \in Nat /\ e.acceptedSeq \in Nat /\ o.seq \in Nat
      /\ \A i \in 1 .. Len(u) : u[i].seq \in Nat /\ u[i].seq <= c.acceptedSeq
      /\ \A s \in l : s \in Nat /\ s <= c.acceptedSeq
  <2>1. \A i \in 1 .. Len(u) : u[i] \in Operation
    BY <1>1
  <2>2. \A i \in 1 .. Len(u) : u[i].seq \in Nat
    BY <2>1, OpFields
  <2>3. c.acceptedSeq \in Nat /\ e.acceptedSeq \in Nat /\ o.seq \in Nat
    BY OpFields DEF Counters, Seqs
  <2>4. \A s \in l : s \in Nat
    OBVIOUS
  <2>5. \A i \in 1 .. Len(u) : u[i].seq <= c.acceptedSeq
    BY <1>1 DEF WorkInv
  <2>6. \A s \in l : s <= c.acceptedSeq
    BY DEF WorkInv
  <2> QED
    BY <2>2, <2>3, <2>4, <2>5, <2>6
<1>3. \A i \in 1 .. Len(u) : Before(u[i].seq, o)
  BY <1>2 DEF Before
<1>4. \A s \in l : Before(s, o)
  BY <1>2 DEF Before
<1>5. Ordered(v)
  <2> SUFFICES ASSUME NEW i \in DOMAIN v, NEW j \in DOMAIN v, i < j
               PROVE  Before(v[i].seq, v[j])
    BY DEF Ordered
  <2>1. i \in 1 .. Len(u) /\ v[i] = u[i]
    BY <1>1
  <2>2. CASE j \in 1 .. Len(u)
    BY <1>1, <2>1, <2>2 DEF WorkInv, Ordered
  <2>3. CASE j = Len(u) + 1
    BY <1>1, <1>3, <2>1, <2>3
  <2> QED
    BY <1>1, <2>2, <2>3
<1>6. \A i \in DOMAIN v : v[i].seq <= e.acceptedSeq
  BY <1>1, <1>2
<1>7. \A s \in l : s <= e.acceptedSeq
  BY <1>2
<1>8. \A s \in l : \A i \in DOMAIN v : Before(s, v[i])
  BY <1>1, <1>4 DEF WorkInv
<1>9. e.failed = Cardinality(l)
  BY DEF WorkInv
<1> QED
  BY <1>0, <1>5, <1>6, <1>7, <1>8, <1>9 DEF WorkInv

\* What is left of the work list after its first operations.
LEMMA SuffixWork ==
  ASSUME NEW s \in Seq(Operation), NEW q \in Seq(Operation), NEW c, NEW l, WorkInv(s \o q, c, l)
  PROVE  /\ WorkInv(q, c, l)
         /\ \A i \in DOMAIN s, j \in DOMAIN q : Before(s[i].seq, q[j])
         /\ \A i, j \in DOMAIN s : i < j => Before(s[i].seq, s[j])
         /\ \A i \in DOMAIN s : s[i].seq <= c.acceptedSeq /\ \A x \in l : Before(x, s[i])
<1>0. PICK u : u = s \o q
  OBVIOUS
<1>1. PICK m : m = Len(s)
  OBVIOUS
<1>2. /\ m \in Nat /\ DOMAIN s = 1 .. m /\ DOMAIN q = 1 .. Len(q) /\ Len(q) \in Nat
      /\ \A i \in DOMAIN s : i \in DOMAIN u /\ u[i] = s[i]
      /\ \A i \in DOMAIN q : m + i \in DOMAIN u /\ u[m + i] = q[i]
  BY <1>0, <1>1, ConcatFacts
<1>3. WorkInv(u, c, l)
  BY <1>0
<1>4. \A i \in DOMAIN s, j \in DOMAIN q : i < m + j
  BY <1>2
<1>5. \A i, j \in DOMAIN q : i < j => m + i < m + j
  BY <1>2
<1>6. Ordered(q)
  BY <1>2, <1>3, <1>5 DEF WorkInv, Ordered
<1>7. \A i \in DOMAIN s, j \in DOMAIN q : Before(s[i].seq, q[j])
  BY <1>2, <1>3, <1>4 DEF WorkInv, Ordered
<1>8. \A i, j \in DOMAIN s : i < j => Before(s[i].seq, s[j])
  BY <1>2, <1>3 DEF WorkInv, Ordered
<1> QED
  BY <1>2, <1>3, <1>6, <1>7, <1>8 DEF WorkInv

\* Concatenation is associative.
LEMMA Associative ==
  \A x, y, z \in Seq(Operation) : (x \o y) \o z = x \o (y \o z)
BY ConcatAssociative

\* takeWriteBatch takes no more than what is queued, and writes only.
LEMMA LeadingFacts ==
  ASSUME operations \in Seq(Operation)
  PROVE  /\ LeadingWrites \in 0 .. Len(operations)
         /\ \A i \in 1 .. LeadingWrites : operations[i].kind = "write"
<1> DEFINE others == {i \in DOMAIN operations : operations[i].kind # "write"}
           least == CHOOSE i \in others : \A j \in others : i <= j
<1>0. Len(operations) \in Nat /\ DOMAIN operations = 1 .. Len(operations)
  OBVIOUS
<1>1. LeadingWrites = IF others = {} THEN Len(operations) ELSE least - 1
  BY DEF LeadingWrites
<1>2. CASE others = {}
  BY <1>0, <1>1, <1>2
<1>3. CASE others # {}
  <2>1. others \in SUBSET Nat
    BY <1>0
  <2>2. \E i \in others : \A j \in others : i <= j
    BY <1>3, <2>1, LeastElement
  <2>3. least \in others /\ \A j \in others : least <= j
    BY <2>2
  <2>4. PICK n : n = least
    OBVIOUS
  <2>5. n \in 1 .. Len(operations) /\ \A j \in others : n <= j
    BY <1>0, <2>3, <2>4
  <2>6. LeadingWrites = n - 1
    BY <1>1, <1>3, <2>4
  <2>7. ASSUME NEW i \in 1 .. n - 1 PROVE operations[i].kind = "write"
    <3>1. i \in DOMAIN operations /\ ~(n <= i)
      BY <1>0, <2>5
    <3> QED
      BY <2>5, <3>1
  <2> QED
    BY <1>0, <2>5, <2>6, <2>7
<1> QED
  BY <1>2, <1>3

-------------------------------------------------------------------------------
(* Barriers and the queue *)

\* What precedes a position depends on what is queued before it.
LEMMA PrecedesPrefix ==
  ASSUME NEW q, NEW v, NEW k, NEW b, NEW p, NEW i \in Nat,
         \A j \in 1 .. i - 1 : v[j] = q[j], Precedes(q, k, b, p, i)
  PROVE  Precedes(v, k, b, p, i)
<1>1. ASSUME NEW j \in 1 .. i - 1, IsFlush(q[j]), q[j].barrier = p,
             \A h \in j + 1 .. i - 1 : ~IsFlush(q[h])
      PROVE  Precedes(v, k, b, p, i)
  <2>1. \A h \in j + 1 .. i - 1 : h \in 1 .. i - 1
    OBVIOUS
  <2>2. \A h \in j + 1 .. i - 1 : ~IsFlush(v[h])
    BY <1>1, <2>1
  <2>3. IsFlush(v[j]) /\ v[j].barrier = p
    BY <1>1
  <2> QED
    BY <2>2, <2>3 DEF Precedes
<1>2. ASSUME \A h \in 1 .. i - 1 : ~IsFlush(q[h]),
             k.barrier \in FlushCall => p = k.barrier,
             k.barrier \notin FlushCall => Latest(b, p)
      PROVE  Precedes(v, k, b, p, i)
  BY <1>2 DEF Precedes
<1> QED
  BY <1>1, <1>2 DEF Precedes

\* What precedes an operation that is no barrier precedes the next position.
LEMMA PrecedesStep ==
  ASSUME NEW v, NEW k, NEW b, NEW p, NEW i \in Nat \ {0}, ~IsFlush(v[i]), Precedes(v, k, b, p, i)
  PROVE  Precedes(v, k, b, p, i + 1)
<1>0. \A h \in 1 .. (i + 1) - 1 : h \in 1 .. i - 1 \/ h = i
  OBVIOUS
<1>1. ASSUME NEW j \in 1 .. i - 1, IsFlush(v[j]), v[j].barrier = p,
             \A h \in j + 1 .. i - 1 : ~IsFlush(v[h])
      PROVE  Precedes(v, k, b, p, i + 1)
  <2>1. \A h \in j + 1 .. (i + 1) - 1 : h \in j + 1 .. i - 1 \/ h = i
    OBVIOUS
  <2>2. \A h \in j + 1 .. (i + 1) - 1 : ~IsFlush(v[h])
    BY <1>1, <2>1
  <2>3. j \in 1 .. (i + 1) - 1
    OBVIOUS
  <2> QED
    BY <1>1, <2>2, <2>3 DEF Precedes
<1>2. ASSUME \A h \in 1 .. i - 1 : ~IsFlush(v[h]),
             k.barrier \in FlushCall => p = k.barrier,
             k.barrier \notin FlushCall => Latest(b, p)
      PROVE  Precedes(v, k, b, p, i + 1)
  <2>1. \A h \in 1 .. (i + 1) - 1 : ~IsFlush(v[h])
    BY <1>0, <1>2
  <2> QED
    BY <1>2, <2>1 DEF Precedes
<1> QED
  BY <1>1, <1>2 DEF Precedes

\* Operations at the head of the queue that are no barriers are taken off.
LEMMA PrecedesShift ==
  ASSUME NEW q, NEW r, NEW k, NEW kk, NEW b, NEW p, NEW m \in Nat, NEW i \in Nat \ {0},
         \A j \in 1 .. m : ~IsFlush(q[j]), \A j \in 1 .. i - 1 : r[j] = q[m + j],
         k.barrier \notin FlushCall, kk.barrier \notin FlushCall, Precedes(q, k, b, p, m + i)
  PROVE  Precedes(r, kk, b, p, i)
<1>0. \A h \in 1 .. i - 1 : m + h \in 1 .. (m + i) - 1
  OBVIOUS
<1>1. ASSUME NEW j \in 1 .. (m + i) - 1, IsFlush(q[j]), q[j].barrier = p,
             \A h \in j + 1 .. (m + i) - 1 : ~IsFlush(q[h])
      PROVE  Precedes(r, kk, b, p, i)
  <2>1. j \notin 1 .. m
    BY <1>1
  <2>2. PICK g \in Nat : m + g = j
    <3>1. j - m \in Nat /\ m + (j - m) = j
      BY <2>1
    <3> QED
      BY <3>1
  <2>3. g \in 1 .. i - 1
    BY <2>1, <2>2
  <2>4. r[g] = q[j]
    BY <2>2, <2>3
  <2>5. \A h \in g + 1 .. i - 1 : m + h \in j + 1 .. (m + i) - 1 /\ h \in 1 .. i - 1
    BY <2>2, <2>3
  <2>6. \A h \in g + 1 .. i - 1 : r[h] = q[m + h]
    BY <2>5
  <2>7. \A h \in g + 1 .. i - 1 : ~IsFlush(r[h])
    BY <1>1, <2>5, <2>6
  <2> QED
    BY <1>1, <2>3, <2>4, <2>7 DEF Precedes
<1>2. ASSUME \A h \in 1 .. (m + i) - 1 : ~IsFlush(q[h]), Latest(b, p)
      PROVE  Precedes(r, kk, b, p, i)
  <2>1. \A h \in 1 .. i - 1 : ~IsFlush(r[h])
    BY <1>0, <1>2
  <2> QED
    BY <1>2, <2>1 DEF Precedes
<1> QED
  BY <1>1, <1>2 DEF Precedes

\* A write or the close operation is queued.
LEMMA AppendBarriers ==
  ASSUME NEW q \in Seq(Operation), NEW o \in Operation, NEW k, NEW f, NEW l,
         NEW c \in Counters, NEW e \in Counters, NEW b \in [FlushCall -> Barrier],
         ~IsFlush(o), o.kind = "write" => c.acceptedSeq < o.seq,
         c.acceptedSeq <= e.acceptedSeq, e.latestBarrier = c.latestBarrier,
         Known(q, k, c, f, b), Queued(q, k, b), Running(q, k, b, l), Chain(q, k, c, b)
  PROVE  /\ Known(Append(q, o), k, e, f, b) /\ Queued(Append(q, o), k, b)
         /\ Running(Append(q, o), k, b, l) /\ Chain(Append(q, o), k, e, b)
         /\ \A x \in FlushCall : o.kind = "write" => b[x].target < o.seq
<1>0. PICK v : v = Append(q, o)
  OBVIOUS
<1>1. /\ Len(q) \in Nat /\ Len(v) = Len(q) + 1
      /\ DOMAIN q = 1 .. Len(q) /\ DOMAIN v = 1 .. Len(q) + 1
      /\ \A i \in 1 .. Len(q) : v[i] = q[i]
      /\ v[Len(q) + 1] = o
      /\ \A i \in 1 .. Len(q) + 1 : i \in 1 .. Len(q) \/ i = Len(q) + 1
  BY <1>0, AppendElems
<1>2. \A i \in DOMAIN v : IsFlush(v[i]) => i \in DOMAIN q /\ v[i] = q[i]
  BY <1>1
<1>3. c.acceptedSeq \in Nat /\ e.acceptedSeq \in Nat /\ o.seq \in Nat
  BY OpFields DEF Counters, Seqs
<1>4. \A x \in FlushCall : b[x].target \in Nat
  BY DEF Barrier, Seqs
<1>5. \A x \in FlushCall : b[x].target <= c.acceptedSeq
  BY DEF Known
<1>6. \A x \in FlushCall : b[x].target <= e.acceptedSeq
  BY <1>3, <1>4, <1>5
<1>7. \A x \in FlushCall : o.kind = "write" => b[x].target < o.seq
  BY <1>3, <1>4, <1>5
<1>8. Known(v, k, e, f, b)
  BY <1>2, <1>6 DEF Known
<1>9. Queued(v, k, b)
  BY <1>2 DEF Queued
<1>10. Running(v, k, b, l)
  <2>1. ASSUME k.barrier \in FlushCall
        PROVE  \A i \in DOMAIN v : v[i].kind = "write" => v[i].seq > b[k.barrier].target
    <3>1. ASSUME NEW i \in 1 .. Len(q), v[i].kind = "write" PROVE v[i].seq > b[k.barrier].target
      BY <1>1, <2>1, <3>1 DEF Running
    <3>2. o.kind = "write" => o.seq > b[k.barrier].target
      BY <1>3, <1>4, <1>7, <2>1
    <3> QED
      BY <1>1, <3>1, <3>2
  <2> QED
    BY <2>1 DEF Running
<1>11. Precedes(v, k, b, e.latestBarrier, Len(v) + 1)
  <2>1. Len(q) + 1 \in Nat \ {0} /\ \A j \in 1 .. (Len(q) + 1) - 1 : v[j] = q[j]
    BY <1>1
  <2>2. Precedes(q, k, b, e.latestBarrier, Len(q) + 1)
    BY DEF Chain
  <2>3. Precedes(v, k, b, e.latestBarrier, Len(q) + 1)
    BY <2>1, <2>2, PrecedesPrefix
  <2>4. Precedes(v, k, b, e.latestBarrier, (Len(q) + 1) + 1)
    BY <1>1, <2>1, <2>3, PrecedesStep
  <2> QED
    BY <1>1, <2>4
<1>12. ASSUME NEW i \in DOMAIN v, IsFlush(v[i])
       PROVE  Precedes(v, k, b, b[v[i].barrier].predecessor, i)
  <2>1. i \in 1 .. Len(q) /\ v[i] = q[i] /\ i \in Nat /\ \A j \in 1 .. i - 1 : v[j] = q[j]
    BY <1>1, <1>2, <1>12
  <2>2. Precedes(q, k, b, b[v[i].barrier].predecessor, i)
    BY <1>1, <1>12, <2>1 DEF Chain
  <2> QED
    BY <2>1, <2>2, PrecedesPrefix
<1>13. Chain(v, k, e, b)
  BY <1>11, <1>12 DEF Chain
<1> QED
  BY <1>0, <1>7, <1>8, <1>9, <1>10, <1>13

\* Operations that are no barriers are taken off the queue.
LEMMA DropBarriers ==
  ASSUME NEW q \in Seq(Operation), NEW m \in Nat, NEW r \in Seq(Operation),
         Len(q) = m + Len(r), \A i \in 1 .. Len(r) : r[i] = q[m + i],
         \A i \in 1 .. m : ~IsFlush(q[i]),
         NEW k, NEW kk, NEW f, NEW l, NEW c, NEW e, NEW b,
         k.barrier \notin FlushCall, kk.barrier = k.barrier, kk.pc # "flush",
         e.acceptedSeq = c.acceptedSeq, e.latestBarrier = c.latestBarrier,
         Known(q, k, c, f, b), Queued(q, k, b), Chain(q, k, c, b)
  PROVE  Known(r, kk, e, f, b) /\ Queued(r, kk, b) /\ Running(r, kk, b, l) /\ Chain(r, kk, e, b)
<1>1. Len(r) \in Nat /\ DOMAIN r = 1 .. Len(r)
  OBVIOUS
<1>2. Len(q) \in Nat /\ DOMAIN q = 1 .. Len(q)
  OBVIOUS
<1>3. \A i \in DOMAIN r : m + i \in DOMAIN q /\ r[i] = q[m + i]
  BY <1>1, <1>2
<1>4. Known(r, kk, e, f, b)
  BY <1>3 DEF Known
<1>5. \A i, j \in DOMAIN r : m + i = m + j => i = j
  BY <1>1, <1>2
<1>6. Queued(r, kk, b)
  <2> SUFFICES ASSUME NEW i \in DOMAIN r, IsFlush(r[i])
               PROVE  /\ ~b[r[i].barrier].done /\ b[r[i].barrier].target = r[i].seq
                      /\ r[i].barrier # kk.barrier
                      /\ \A j \in DOMAIN r : IsFlush(r[j]) /\ r[j].barrier = r[i].barrier => i = j
    BY DEF Queued
  <2>1. PICK g : g = m + i
    OBVIOUS
  <2>2. g \in DOMAIN q /\ r[i] = q[g]
    BY <1>3, <2>1
  <2>3. /\ ~b[q[g].barrier].done /\ b[q[g].barrier].target = q[g].seq
        /\ q[g].barrier # k.barrier
        /\ \A j \in DOMAIN q : IsFlush(q[j]) /\ q[j].barrier = q[g].barrier => g = j
    BY <2>2 DEF Queued
  <2>4. ASSUME NEW j \in DOMAIN r, IsFlush(r[j]), r[j].barrier = r[i].barrier PROVE i = j
    <3>1. m + j \in DOMAIN q /\ r[j] = q[m + j]
      BY <1>3
    <3>2. g = m + j
      BY <2>2, <2>3, <2>4, <3>1
    <3> QED
      BY <1>5, <2>1, <3>2
  <2> QED
    BY <2>2, <2>3, <2>4
<1>7. Running(r, kk, b, l)
  BY DEF Running
<1>8. ASSUME NEW i \in 1 .. Len(r) + 1, NEW p, Precedes(q, k, b, p, m + i)
      PROVE  Precedes(r, kk, b, p, i)
  <2>1. i \in Nat \ {0} /\ \A j \in 1 .. i - 1 : r[j] = q[m + j]
    BY <1>1, <1>2
  <2> QED
    BY <1>2, <1>8, <2>1, PrecedesShift
<1>9. Precedes(r, kk, b, e.latestBarrier, Len(r) + 1)
  <2>1. m + (Len(r) + 1) = Len(q) + 1 /\ Len(r) + 1 \in 1 .. Len(r) + 1
    BY <1>1, <1>2
  <2>2. Precedes(q, k, b, e.latestBarrier, m + (Len(r) + 1))
    BY <2>1 DEF Chain
  <2> QED
    BY <1>8, <2>1, <2>2
<1>10. ASSUME NEW i \in DOMAIN r, IsFlush(r[i])
       PROVE  Precedes(r, kk, b, b[r[i].barrier].predecessor, i)
  <2>1. i \in 1 .. Len(r) + 1
    BY <1>1, <1>2
  <2>2. Precedes(q, k, b, b[r[i].barrier].predecessor, m + i)
    BY <1>3, <1>10 DEF Chain
  <2> QED
    BY <1>8, <2>1, <2>2
<1> QED
  BY <1>4, <1>6, <1>7, <1>9, <1>10 DEF Chain

\* What Exact says of a work list holds of its writes, and of new ones.
LEMMA ExactList ==
  ASSUME NEW u, NEW v, NEW k, NEW kk, NEW b, NEW l, Exact(u, k, b, l),
         \A x \in FlushCall : Ran(kk, b, x) => Ran(k, b, x),
         \A i \in DOMAIN v : v[i].kind = "write" =>
            \/ \E j \in DOMAIN u : u[j] = v[i]
            \/ \A x \in FlushCall : v[i].seq > b[x].target
  PROVE  Exact(v, kk, b, l)
BY DEF Exact
-------------------------------------------------------------------------------
(* The callers *)

\* The fields of the counters.
LEMMA CounterFields ==
  ASSUME NEW c \in Counters
  PROVE  /\ c.queuedWrites \in Nat /\ c.pending \in Nat /\ c.pendingBytes \in Nat
         /\ c.acceptedSeq \in Seqs /\ c.acceptedSeq \in Nat /\ c.latestBarrier \in Barriers
         /\ c.ackedFailures \in Nat /\ c.failed \in Nat /\ c.closeFrom \in Nat
         /\ c.closing \in BOOLEAN /\ c.cancelled \in BOOLEAN /\ c.closeFinished \in BOOLEAN
BY DEF Counters, Seqs

\* An update of the flags of the writer keeps what the invariant says of it.
LEMMA FlagsInv ==
  ASSUME Inv, w' \in Counters, w'.queuedWrites = w.queuedWrites, w'.pending = w.pending,
         w'.pendingBytes = w.pendingBytes, w'.acceptedSeq = w.acceptedSeq,
         w'.latestBarrier = w.latestBarrier, w'.ackedFailures = w.ackedFailures,
         w'.failed = w.failed, w'.closeFrom \in {w.closeFrom, w.ackedFailures},
         UNCHANGED <<operations, barrier, worker, flush, lost, told>>
  PROVE  Inv'
<1>1. Types'
  BY DEF Inv, Types
<1>2. WorkInv(WorkList(worker, operations), w, lost)'
  BY DEF Inv, WorkInv, WorkList
<1>3. CapacityInv(operations, worker, w)'
  BY DEF Inv, CapacityInv
<1>4. Known(operations, worker, w, flush, barrier)'
  BY DEF Inv, Known
<1>5. Told(w, barrier, told)'
  BY DEF Inv, Told
<1>6. Chain(operations, worker, w, barrier)'
  BY DEF Inv, Chain
<1>7. Ranges(worker, w, barrier)'
  BY DEF Inv, Ranges
<1>8. /\ Queued(operations, worker, barrier)' /\ Running(operations, worker, barrier, lost)'
      /\ Exact(WorkList(worker, operations), worker, barrier, lost)' /\ Waiting(flush, barrier)'
  BY DEF Inv, WorkList
<1> QED
  BY <1>1, <1>2, <1>3, <1>4, <1>5, <1>6, <1>7, <1>8 DEF Inv

\* An operation that is no barrier is queued.
LEMMA AppendInv ==
  ASSUME Inv, NEW o \in Operation, ~IsFlush(o), operations' = Append(operations, o),
         Before(w.acceptedSeq, o), o.seq <= w'.acceptedSeq, w.acceptedSeq <= w'.acceptedSeq,
         w' \in Counters, w'.latestBarrier = w.latestBarrier,
         w'.ackedFailures = w.ackedFailures, w'.failed = w.failed, w'.closeFrom = w.closeFrom,
         w'.queuedWrites = w.queuedWrites + (IF o.kind = "write" THEN 1 ELSE 0),
         w'.pending = w.pending + (IF o.kind = "write" THEN 1 ELSE 0),
         w'.pendingBytes = w.pendingBytes + o.size,
         w'.queuedWrites <= QueueSize, w'.pendingBytes <= QueueBytes,
         UNCHANGED <<barrier, worker, flush, lost, told>>
  PROVE  Inv'
<1>1. PICK q : q = operations
  OBVIOUS
<1>2. /\ q \in Seq(Operation) /\ w \in Counters /\ barrier \in [FlushCall -> Barrier]
      /\ WorkerOK(worker) /\ lost \in SUBSET (1 .. MaxWrites)
  BY <1>1 DEF Inv, Types
<1>3. worker.batch \in Seq(WriteOps) /\ worker.batch \in Seq(Operation)
  BY <1>2 DEF WorkerOK, WorkerType, Operation
<1>4. PICK v : v = Append(q, o)
  OBVIOUS
<1>5. v \in Seq(Operation) /\ operations' = v
  BY <1>1, <1>2, <1>4, AppendElems
<1>6. PICK u : u = worker.batch \o q
  OBVIOUS
<1>7. u \in Seq(Operation)
  BY <1>2, <1>3, <1>6, ConcatFacts
<1>8. worker.batch \o v = Append(u, o)
  BY <1>2, <1>3, <1>4, <1>6, AppendWorkList
<1>9. Types'
  BY <1>5 DEF Inv, Types
<1>10. WorkInv(Append(u, o), w', lost)
  <2>1. WorkInv(u, w, lost)
    BY <1>1, <1>6 DEF Inv, WorkList
  <2> QED
    BY <1>2, <1>7, <2>1, AppendWork
<1>11. WorkInv(WorkList(worker, operations), w, lost)'
  BY <1>5, <1>8, <1>10 DEF WorkList
<1>12. CapacityInv(operations, worker, w)'
  <2>1. /\ Bytes(v) = Bytes(q) + o.size /\ Bytes(q) \in Nat /\ Cardinality(Writes(q)) \in Nat
        /\ Cardinality(Writes(v)) = Cardinality(Writes(q)) + (IF o.kind = "write" THEN 1 ELSE 0)
    BY <1>2, <1>4, AppendCounts
  <2>2. Bytes(worker.batch) \in Nat /\ Len(worker.batch) \in Nat
    BY <1>3, BytesConcat
  <2>3. /\ w.queuedWrites = Cardinality(Writes(q))
        /\ w.pending = w.queuedWrites + Len(worker.batch)
        /\ w.pendingBytes = Bytes(q) + Bytes(worker.batch)
    BY <1>1 DEF Inv, CapacityInv
  <2>4. o.size \in Nat /\ w.queuedWrites \in Nat
    BY <1>2, OpFields, CounterFields
  <2>5. w'.queuedWrites = Cardinality(Writes(v))
    BY <2>1, <2>3
  <2>6. w'.pending = w'.queuedWrites + Len(worker.batch)
    BY <2>2, <2>3, <2>4
  <2>7. w'.pendingBytes = Bytes(v) + Bytes(worker.batch)
    BY <2>1, <2>2, <2>3, <2>4
  <2> QED
    BY <1>5, <2>5, <2>6, <2>7 DEF CapacityInv
<1>13. /\ Known(q, worker, w, flush, barrier) /\ Queued(q, worker, barrier)
       /\ Running(q, worker, barrier, lost) /\ Chain(q, worker, w, barrier)
       /\ Exact(u, worker, barrier, lost) /\ Waiting(flush, barrier) /\ Told(w, barrier, told)
       /\ Ranges(worker, w, barrier)
  BY <1>1, <1>6 DEF Inv, WorkList
<1>14. o.kind = "write" => w.acceptedSeq < o.seq
  BY DEF Before
<1>15. /\ Known(v, worker, w', flush, barrier) /\ Queued(v, worker, barrier)
       /\ Running(v, worker, barrier, lost) /\ Chain(v, worker, w', barrier)
       /\ \A x \in FlushCall : o.kind = "write" => barrier[x].target < o.seq
  BY <1>2, <1>4, <1>13, <1>14, AppendBarriers
<1>16. Exact(Append(u, o), worker, barrier, lost)
  <2>1. /\ DOMAIN u = 1 .. Len(u) /\ DOMAIN Append(u, o) = 1 .. Len(u) + 1
        /\ \A i \in 1 .. Len(u) : Append(u, o)[i] = u[i]
        /\ Append(u, o)[Len(u) + 1] = o
        /\ \A i \in 1 .. Len(u) + 1 : i \in 1 .. Len(u) \/ i = Len(u) + 1
    BY <1>7, AppendElems
  <2>2. ASSUME o.kind = "write" PROVE \A x \in FlushCall : o.seq > barrier[x].target
    <3>1. \A x \in FlushCall : barrier[x].target \in Nat
      BY <1>2 DEF Barrier, Seqs
    <3> QED
      BY <1>15, <2>2, <3>1, OpFields
  <2>3. PICK z : z = Append(u, o)
    OBVIOUS
  <2>4. \A i \in DOMAIN z : z[i].kind = "write" =>
            \/ \E j \in DOMAIN u : u[j] = z[i]
            \/ \A x \in FlushCall : z[i].seq > barrier[x].target
    BY <2>1, <2>2, <2>3
  <2>5. Exact(z, worker, barrier, lost)
    BY <1>13, <2>4, ExactList
  <2> QED
    BY <2>3, <2>5
<1>17. Exact(WorkList(worker, operations), worker, barrier, lost)'
  BY <1>5, <1>8, <1>16 DEF WorkList
<1>18. Told(w, barrier, told)' /\ Ranges(worker, w, barrier)'
  BY <1>13 DEF Told, Ranges
<1> QED
  BY <1>5, <1>9, <1>11, <1>12, <1>13, <1>15, <1>17, <1>18 DEF Inv

\* Write.
LEMMA WriteInv ==
  ASSUME Inv, NEW size \in Size, Write(size)
  PROVE  Inv'
<1>1. /\ w.acceptedSeq < MaxWrites /\ w.queuedWrites < QueueSize
      /\ w.pendingBytes + size <= QueueBytes
      /\ operations' = Append(operations, WriteOp(w.acceptedSeq + 1, size))
      /\ UNCHANGED <<barrier, worker, flush, lost, told>>
  BY Zenon DEF Write
<1>2. w' = [w EXCEPT !.acceptedSeq = @ + 1, !.queuedWrites = @ + 1,
                     !.pending = @ + 1, !.pendingBytes = @ + size]
  BY Zenon DEF Write
<1>3. w \in Counters /\ size \in Nat
  BY DEF Inv, Types
<1>4. /\ w.acceptedSeq \in Nat /\ w.queuedWrites \in Nat /\ w.pending \in Nat
      /\ w.pendingBytes \in Nat
  BY <1>3, CounterFields
<1>5. /\ w.acceptedSeq + 1 \in 1 .. MaxWrites /\ w.queuedWrites + 1 \in Nat
      /\ w.pending + 1 \in Nat /\ w.pendingBytes + size \in Nat
      /\ w.queuedWrites + 1 <= QueueSize
  <2>1. PICK n \in Nat : n = w.acceptedSeq
    BY <1>4
  <2>2. n + 1 \in 1 .. MaxWrites
    BY <1>1, <2>1
  <2>3. PICK m \in Nat : m = w.queuedWrites
    BY <1>4
  <2>4. m + 1 <= QueueSize /\ m + 1 \in Nat
    BY <1>1, <2>3
  <2> QED
    BY <1>3, <1>4, <2>1, <2>2, <2>3, <2>4
<1>6. w' \in Counters
  <2>1. w.acceptedSeq + 1 \in Seqs
    BY <1>5 DEF Seqs
  <2> QED
    BY <1>2, <1>3, <1>5, <2>1 DEF Counters
<1>7. /\ w'.acceptedSeq = w.acceptedSeq + 1 /\ w'.queuedWrites = w.queuedWrites + 1
      /\ w'.pending = w.pending + 1 /\ w'.pendingBytes = w.pendingBytes + size
      /\ w'.latestBarrier = w.latestBarrier /\ w'.ackedFailures = w.ackedFailures
      /\ w'.failed = w.failed /\ w'.closeFrom = w.closeFrom
  BY <1>2, <1>3 DEF Counters
<1>8. PICK o : o = WriteOp(w.acceptedSeq + 1, size)
  OBVIOUS
<1>9. /\ o \in Operation /\ o.kind = "write" /\ o.seq = w.acceptedSeq + 1 /\ o.size = size
      /\ ~IsFlush(o)
  BY <1>3, <1>5, <1>8 DEF WriteOp, Operation, WriteOps, IsFlush
<1>10. Before(w.acceptedSeq, o) /\ o.seq <= w'.acceptedSeq /\ w.acceptedSeq <= w'.acceptedSeq
  BY <1>4, <1>7, <1>9 DEF Before
<1> QED
  BY <1>1, <1>5, <1>6, <1>7, <1>8, <1>9, <1>10, AppendInv

\* Close.
LEMMA CloseInv ==
  ASSUME Inv, NEW c \in CloseCall, Close(c)
  PROVE  Inv'
<1>1. w' = [w EXCEPT !.closing = TRUE] /\ UNCHANGED <<barrier, worker, flush, lost, told>>
  BY Zenon DEF Close
<1>2. w \in Counters
  BY DEF Inv, Types
<1>3. /\ w' \in Counters /\ w'.queuedWrites = w.queuedWrites /\ w'.pending = w.pending
      /\ w'.pendingBytes = w.pendingBytes /\ w'.acceptedSeq = w.acceptedSeq
      /\ w'.latestBarrier = w.latestBarrier /\ w'.ackedFailures = w.ackedFailures
      /\ w'.failed = w.failed /\ w'.closeFrom = w.closeFrom
  BY <1>1, <1>2 DEF Counters
<1>4. CASE operations' = operations
  BY <1>1, <1>3, <1>4, FlagsInv
<1>5. CASE operations' = Append(operations, CloseOp(w.acceptedSeq))
  <2>1. w.acceptedSeq \in Seqs /\ w.acceptedSeq \in Nat /\ w.queuedWrites \in Nat
        /\ w.pending \in Nat /\ w.pendingBytes \in Nat
    BY <1>2, CounterFields
  <2>2. PICK o : o = CloseOp(w.acceptedSeq)
    OBVIOUS
  <2>3. /\ o \in Operation /\ o.kind = "close" /\ o.seq = w.acceptedSeq /\ o.size = 0
        /\ ~IsFlush(o)
    BY <2>1, <2>2 DEF CloseOp, Operation, CloseOps, IsFlush
  <2>4. Before(w.acceptedSeq, o) /\ o.seq <= w'.acceptedSeq /\ w.acceptedSeq <= w'.acceptedSeq
    BY <1>3, <2>1, <2>3 DEF Before
  <2>5. /\ w'.queuedWrites = w.queuedWrites + (IF o.kind = "write" THEN 1 ELSE 0)
        /\ w'.pending = w.pending + (IF o.kind = "write" THEN 1 ELSE 0)
        /\ w'.pendingBytes = w.pendingBytes + o.size
    BY <1>3, <2>1, <2>3
  <2>6. w'.queuedWrites <= QueueSize /\ w'.pendingBytes <= QueueBytes
    BY <1>3 DEF Inv, CapacityInv
  <2> QED
    BY <1>1, <1>3, <1>5, <2>2, <2>3, <2>4, <2>5, <2>6, AppendInv
<1>6. operations' = operations \/ operations' = Append(operations, CloseOp(w.acceptedSeq))
  BY Zenon DEF Close
<1> QED
  BY <1>4, <1>5, <1>6

\* Close returns.
LEMMA CloseReturnsInv ==
  ASSUME Inv, NEW c \in CloseCall, CloseReturns(c)
  PROVE  Inv'
<1>1. UNCHANGED <<operations, w, barrier, worker, flush, lost, told>>
  BY Zenon DEF CloseReturns
<1>2. w \in Counters
  BY DEF Inv, Types
<1> QED
  BY <1>1, <1>2, FlagsInv

\* Close gives up.
LEMMA CloseTimesOutInv ==
  ASSUME Inv, NEW c \in CloseCall, CloseTimesOut(c)
  PROVE  Inv'
<1>1. UNCHANGED <<operations, barrier, worker, flush, lost, told>>
  BY Zenon DEF CloseTimesOut
<1>2. w' = [w EXCEPT !.cancelled = @ \/ ~w.closeFinished]
  BY Zenon DEF CloseTimesOut
<1>3. w \in Counters
  BY DEF Inv, Types
<1>4. /\ w' \in Counters /\ w'.queuedWrites = w.queuedWrites /\ w'.pending = w.pending
      /\ w'.pendingBytes = w.pendingBytes /\ w'.acceptedSeq = w.acceptedSeq
      /\ w'.latestBarrier = w.latestBarrier /\ w'.ackedFailures = w.ackedFailures
      /\ w'.failed = w.failed /\ w'.closeFrom = w.closeFrom
  BY <1>2, <1>3 DEF Counters
<1> QED
  BY <1>1, <1>4, FlagsInv
-------------------------------------------------------------------------------
(* The worker takes operations off the queue *)

\* Operations that are no barriers are taken off.
LEMMA DequeueInv ==
  ASSUME Inv, NEW m \in Nat, operations' \in Seq(Operation),
         Len(operations) = m + Len(operations'),
         \A i \in 1 .. Len(operations') : operations'[i] = operations[m + i],
         \A i \in 1 .. m : ~IsFlush(operations[i]),
         WorkerOK(worker'), worker.barrier \notin FlushCall, worker'.barrier = worker.barrier,
         w' \in Counters, w'.acceptedSeq = w.acceptedSeq, w'.latestBarrier = w.latestBarrier,
         w'.ackedFailures = w.ackedFailures, w'.closeFrom = w.closeFrom,
         WorkInv(WorkList(worker', operations'), w', lost),
         CapacityInv(operations', worker', w'),
         \A i \in DOMAIN WorkList(worker', operations') :
            \E j \in DOMAIN WorkList(worker, operations) :
               WorkList(worker, operations)[j] = WorkList(worker', operations')[i],
         UNCHANGED <<barrier, flush, lost, told>>
  PROVE  Inv'
<1>1. PICK q : q = operations
  OBVIOUS
<1>2. PICK r : r = operations'
  OBVIOUS
<1>3. PICK u : u = WorkList(worker, operations)
  OBVIOUS
<1>4. PICK v : v = WorkList(worker', operations')
  OBVIOUS
<1>5. q \in Seq(Operation) /\ r \in Seq(Operation) /\ Len(q) = m + Len(r)
  BY <1>1, <1>2 DEF Inv, Types
<1>6. /\ \A i \in 1 .. Len(r) : r[i] = q[m + i]
      /\ \A i \in 1 .. m : ~IsFlush(q[i])
  BY <1>1, <1>2
<1>7. worker'.pc \notin Flushing /\ worker'.pc \notin {"flush", "flushing", "acking"}
  BY DEF WorkerOK, Flushing
<1>8. /\ Known(q, worker, w, flush, barrier) /\ Queued(q, worker, barrier)
      /\ Chain(q, worker, w, barrier)
  BY <1>1 DEF Inv
<1>9. worker'.pc # "flush"
  BY <1>7
<1>10. /\ Known(r, worker', w', flush, barrier) /\ Queued(r, worker', barrier)
       /\ Running(r, worker', barrier, lost) /\ Chain(r, worker', w', barrier)
  BY <1>5, <1>6, <1>8, <1>9, DropBarriers
<1>11. Exact(v, worker', barrier, lost)
  <2>1. Exact(u, worker, barrier, lost)
    BY <1>3 DEF Inv
  <2>2. \A x \in FlushCall : Ran(worker', barrier, x) => Ran(worker, barrier, x)
    BY <1>7 DEF Ran
  <2>3. \A i \in DOMAIN v : \E j \in DOMAIN u : u[j] = v[i]
    BY <1>3, <1>4
  <2> QED
    BY <2>1, <2>2, <2>3, ExactList
<1>12. Told(w', barrier, told) /\ Ranges(worker', w', barrier) /\ Waiting(flush, barrier)
  BY <1>7 DEF Inv, Told, Ranges
<1>13. Types'
  BY DEF Inv, Types
<1> QED
  BY <1>2, <1>4, <1>10, <1>11, <1>12, <1>13 DEF Inv

\* The queue q is m writes a, then r.
Pieces(q, m, a, r) ==
  /\ m \in Nat /\ a \in Seq(WriteOps) /\ r \in Seq(Operation) /\ a \o r = q
  /\ Len(a) = m /\ Len(q) = m + Len(r)
  /\ \A i \in 1 .. Len(r) : r[i] = q[m + i]
  /\ \A i \in 1 .. m : ~IsFlush(q[i])
  /\ Bytes(q) = Bytes(a) + Bytes(r) /\ Bytes(a) \in Nat /\ Bytes(r) \in Nat
  /\ Cardinality(Writes(q)) = m + Cardinality(Writes(r)) /\ Cardinality(Writes(r)) \in Nat

\* The writes at the head of the queue are cut off.
LEMMA CutPieces ==
  ASSUME NEW q \in Seq(Operation), NEW m \in 0 .. Len(q), \A i \in 1 .. m : q[i].kind = "write"
  PROVE  Pieces(q, m, SubSeq(q, 1, m), SubSeq(q, m + 1, Len(q)))
<1>1. PICK a : a = SubSeq(q, 1, m)
  OBVIOUS
<1>2. PICK r : r = SubSeq(q, m + 1, Len(q))
  OBVIOUS
<1>3. /\ a \in Seq(Operation) /\ r \in Seq(Operation) /\ Len(a) = m /\ Len(r) = Len(q) - m
      /\ DOMAIN a = 1 .. m
      /\ \A i \in 1 .. m : a[i] = q[i]
      /\ \A i \in 1 .. Len(q) - m : r[i] = q[m + i]
  BY <1>1, <1>2, CutFacts
<1>4. \A i \in 1 .. m : a[i].kind = "write" /\ a[i] \in WriteOps
  <2>1. \A i \in DOMAIN a : a[i] \in Operation
    BY <1>3
  <2>2. \A i \in 1 .. m : a[i].kind = "write"
    BY <1>3
  <2> QED
    BY <1>3, <2>1, <2>2, OpFields
<1>5. a \in Seq(WriteOps)
  BY <1>3, <1>4
<1>6. a \o r = q
  BY <1>1, <1>2, CutGlue
<1>7. /\ Bytes(q) = Bytes(a) + Bytes(r) /\ Bytes(a) \in Nat /\ Bytes(r) \in Nat
      /\ Cardinality(Writes(q)) = Cardinality(Writes(a)) + Cardinality(Writes(r))
      /\ Cardinality(Writes(a)) \in Nat /\ Cardinality(Writes(r)) \in Nat
  <2>1. a \in Seq(Operation) /\ r \in Seq(Operation)
    BY <1>3
  <2>2. /\ Bytes(a \o r) = Bytes(a) + Bytes(r) /\ Bytes(a) \in Nat /\ Bytes(r) \in Nat
        /\ Cardinality(Writes(a \o r)) = Cardinality(Writes(a)) + Cardinality(Writes(r))
    BY <2>1, BytesConcat, WritesConcat
  <2>3. Cardinality(Writes(a)) \in Nat /\ Cardinality(Writes(r)) \in Nat
    BY <2>1, WritesFinite
  <2> QED
    BY <1>6, <2>2, <2>3
<1>8. Cardinality(Writes(a)) = m
  BY <1>3, <1>4, WritesOnly
<1>9. \A i \in 1 .. m : ~IsFlush(q[i])
  BY DEF IsFlush
<1>10. PICK n \in Nat : n = Len(q)
  OBVIOUS
<1>11. m \in Nat /\ n = m + (n - m)
  BY <1>10
<1> QED
  BY <1>1, <1>2, <1>3, <1>5, <1>6, <1>7, <1>8, <1>9, <1>10, <1>11 DEF Pieces

\* Writes at the head of the queue become the end of the batch.
LEMMA MoveInv ==
  ASSUME Inv, NEW m, NEW a, NEW r, Pieces(operations, m, a, r),
         operations' = r, worker'.batch = worker.batch \o a,
         worker'.pc \in Writing, worker.barrier \notin FlushCall,
         worker' = [pc |-> worker'.pc, batch |-> worker'.batch, barrier |-> worker.barrier],
         w' \in Counters, w'.queuedWrites = w.queuedWrites - m,
         w'.pending = w.pending, w'.pendingBytes = w.pendingBytes,
         w'.acceptedSeq = w.acceptedSeq, w'.latestBarrier = w.latestBarrier,
         w'.ackedFailures = w.ackedFailures, w'.failed = w.failed, w'.closeFrom = w.closeFrom,
         UNCHANGED <<barrier, flush, lost, told>>
  PROVE  Inv'
<1>1. PICK q : q = operations
  OBVIOUS
<1>2. PICK s : s = worker.batch
  OBVIOUS
<1>3. q \in Seq(Operation) /\ WorkerOK(worker)
  BY <1>1 DEF Inv, Types
<1>4. s \in Seq(WriteOps) /\ s \in Seq(Operation) /\ worker.barrier \in Barriers
  BY <1>2, <1>3 DEF WorkerOK, WorkerType, Operation
<1>5. a \in Seq(WriteOps) /\ a \in Seq(Operation) /\ r \in Seq(Operation) /\ a \o r = q
  BY <1>1 DEF Pieces, Operation
<1>6. s \o a \in Seq(WriteOps) /\ Len(s \o a) = Len(s) + Len(a) /\ Len(s) \in Nat /\ Len(a) \in Nat
  BY <1>4, <1>5, ConcatFacts
<1>7. (s \o a) \o r = s \o (a \o r)
  BY <1>4, <1>5, Associative, Zenon
<1>8. WorkList(worker', operations') = WorkList(worker, operations)
  BY <1>1, <1>2, <1>5, <1>7 DEF WorkList
<1>9. WorkerOK(worker')
  <2>1. worker'.pc \in WorkerPC /\ worker'.pc \notin Flushing
    BY DEF WorkerPC, Writing, Flushing
  <2>2. worker'.batch \in Seq(WriteOps)
    BY <1>2, <1>6
  <2>3. worker' \in WorkerType /\ worker'.barrier = worker.barrier
    <3>1. PICK y : y = worker'.pc
      OBVIOUS
    <3>2. PICK z : z = worker'.batch
      OBVIOUS
    <3>3. worker' = [pc |-> y, batch |-> z, barrier |-> worker.barrier]
      BY <3>1, <3>2
    <3>4. y \in WorkerPC /\ z \in Seq(WriteOps)
      BY <2>1, <2>2, <3>1, <3>2
    <3> HIDE <3>1, <3>2
    <3> QED
      BY <1>4, <3>3, <3>4 DEF WorkerType
  <2> QED
    BY <2>1, <2>3 DEF WorkerOK
<1>10. /\ Bytes(q) = Bytes(a) + Bytes(r) /\ Bytes(a) \in Nat /\ Bytes(r) \in Nat
       /\ Cardinality(Writes(q)) = m + Cardinality(Writes(r)) /\ Cardinality(Writes(r)) \in Nat
       /\ m \in Nat /\ Len(a) = m
  BY <1>1 DEF Pieces
<1>11. Bytes(s \o a) = Bytes(s) + Bytes(a) /\ Bytes(s) \in Nat
  BY <1>4, <1>5, BytesConcat
<1>12. /\ w.queuedWrites = Cardinality(Writes(q)) /\ w.queuedWrites <= QueueSize
       /\ w.pending = w.queuedWrites + Len(s)
       /\ w.pendingBytes = Bytes(q) + Bytes(s) /\ w.pendingBytes <= QueueBytes
  BY <1>1, <1>2 DEF Inv, CapacityInv
<1>13. CapacityInv(operations', worker', w')
  <2>1. w'.queuedWrites = Cardinality(Writes(r))
    BY <1>10, <1>12
  <2>2. w'.queuedWrites <= QueueSize
    BY <1>10, <1>12
  <2>3. w'.pending = w'.queuedWrites + Len(s \o a)
    BY <1>6, <1>10, <1>12
  <2>4. w'.pendingBytes = Bytes(r) + Bytes(s \o a)
    BY <1>10, <1>11, <1>12
  <2> QED
    BY <1>2, <1>12, <2>1, <2>2, <2>3, <2>4 DEF CapacityInv
<1>14. WorkInv(WorkList(worker', operations'), w', lost)
  BY <1>8 DEF Inv, WorkInv
<1>15. /\ operations' \in Seq(Operation) /\ Len(operations) = m + Len(operations')
       /\ \A i \in 1 .. Len(operations') : operations'[i] = operations[m + i]
       /\ \A i \in 1 .. m : ~IsFlush(operations[i])
  BY <1>5 DEF Pieces
<1>16. worker'.barrier = worker.barrier
  OBVIOUS
<1> QED
  BY <1>8, <1>9, <1>10, <1>13, <1>14, <1>15, <1>16, DequeueInv

\* m writes leave the queue.
LEMMA DequeuedCount ==
  ASSUME Inv, NEW m, NEW a, NEW r, Pieces(operations, m, a, r),
         NEW e, e = [w EXCEPT !.queuedWrites = @ - m]
  PROVE  /\ e \in Counters /\ e.queuedWrites = w.queuedWrites - m
         /\ e.pending = w.pending /\ e.pendingBytes = w.pendingBytes
         /\ e.acceptedSeq = w.acceptedSeq /\ e.latestBarrier = w.latestBarrier
         /\ e.ackedFailures = w.ackedFailures /\ e.failed = w.failed /\ e.closeFrom = w.closeFrom
<1>1. w \in Counters
  BY DEF Inv, Types
<1>2. w.queuedWrites = m + Cardinality(Writes(r)) /\ m \in Nat /\ Cardinality(Writes(r)) \in Nat
  BY DEF Inv, CapacityInv, Pieces
<1>3. w.queuedWrites - m \in Nat
  BY <1>2
<1> QED
  BY <1>1, <1>3 DEF Counters

\* takeWriteBatch.
LEMMA TakeWriteBatchInv ==
  ASSUME Inv, TakeWriteBatch
  PROVE  Inv'
<1>1. PICK m : m = IF BatchSize - 1 < LeadingWrites THEN BatchSize - 1 ELSE LeadingWrites
  OBVIOUS
<1>2. /\ worker.pc = "write"
      /\ worker' = [worker EXCEPT !.pc = IF w.cancelled THEN "failing" ELSE "writing",
                                  !.batch = @ \o SubSeq(operations, 1, m)]
      /\ operations' = SubSeq(operations, m + 1, Len(operations))
      /\ w' = [w EXCEPT !.queuedWrites = @ - m]
      /\ UNCHANGED <<barrier, flush, lost, told>>
  BY <1>1, Zenon DEF TakeWriteBatch
<1>3. operations \in Seq(Operation) /\ WorkerOK(worker)
  BY DEF Inv, Types
<1>4. /\ LeadingWrites \in 0 .. Len(operations)
      /\ \A i \in 1 .. LeadingWrites : operations[i].kind = "write"
  BY <1>3, LeadingFacts
<1>5. PICK n : n = LeadingWrites
  OBVIOUS
<1>6. PICK z \in Nat : z = Len(operations)
  BY <1>3
<1>7. n \in 0 .. z /\ m = IF BatchSize - 1 < n THEN BatchSize - 1 ELSE n
  BY <1>1, <1>4, <1>5, <1>6
<1>8. m \in 0 .. n /\ m \in 0 .. z
  BY <1>7
<1>9. \A i \in 1 .. m : i \in 1 .. n
  BY <1>7, <1>8
<1>10. m \in 0 .. Len(operations) /\ \A i \in 1 .. m : operations[i].kind = "write"
  BY <1>4, <1>5, <1>6, <1>8, <1>9
<1>11. worker \in WorkerType /\ worker.barrier \notin FlushCall
  BY <1>2, <1>3 DEF WorkerOK, Flushing
<1>12. /\ worker'.pc = (IF w.cancelled THEN "failing" ELSE "writing")
       /\ worker'.batch = worker.batch \o SubSeq(operations, 1, m)
       /\ worker' = [pc |-> worker'.pc, batch |-> worker'.batch, barrier |-> worker.barrier]
  BY <1>2, <1>11 DEF WorkerType
<1>13. worker'.pc \in Writing
  BY <1>12 DEF Writing
<1>14. Pieces(operations, m, SubSeq(operations, 1, m), SubSeq(operations, m + 1, Len(operations)))
  BY <1>3, <1>10, CutPieces
<1>15. PICK a : a = SubSeq(operations, 1, m)
  OBVIOUS
<1>16. PICK r : r = SubSeq(operations, m + 1, Len(operations))
  OBVIOUS
<1>17. Pieces(operations, m, a, r) /\ operations' = r /\ worker'.batch = worker.batch \o a
  BY <1>2, <1>12, <1>14, <1>15, <1>16
<1>18. /\ w' \in Counters /\ w'.queuedWrites = w.queuedWrites - m
       /\ w'.pending = w.pending /\ w'.pendingBytes = w.pendingBytes
       /\ w'.acceptedSeq = w.acceptedSeq /\ w'.latestBarrier = w.latestBarrier
       /\ w'.ackedFailures = w.ackedFailures /\ w'.failed = w.failed
       /\ w'.closeFrom = w.closeFrom
  BY <1>2, <1>17, DequeuedCount
<1> QED
  BY <1>2, <1>11, <1>12, <1>13, <1>17, <1>18, MoveInv
\* A barrier that is run after the first one in the queue.
LEMMA PrecedesHead ==
  ASSUME NEW q, NEW r, NEW k, NEW kk, NEW b, NEW p, NEW i \in Nat \ {0},
         IsFlush(q[1]), \A j \in 1 .. i - 1 : r[j] = q[1 + j],
         kk.barrier = q[1].barrier, kk.barrier \in FlushCall, Precedes(q, k, b, p, 1 + i)
  PROVE  Precedes(r, kk, b, p, i)
<1>0. 1 \in 1 .. (1 + i) - 1
  OBVIOUS
<1>1. PICK j \in 1 .. (1 + i) - 1 :
        /\ IsFlush(q[j]) /\ q[j].barrier = p
        /\ \A h \in j + 1 .. (1 + i) - 1 : ~IsFlush(q[h])
  BY <1>0 DEF Precedes
<1>2. CASE j = 1
  <2>1. \A h \in 1 .. i - 1 : 1 + h \in j + 1 .. (1 + i) - 1
    BY <1>2
  <2>2. \A h \in 1 .. i - 1 : ~IsFlush(r[h])
    BY <1>1, <2>1
  <2> QED
    BY <1>1, <1>2, <2>2 DEF Precedes
<1>3. CASE j # 1
  <2>1. PICK g \in Nat : 1 + g = j
    <3>1. j - 1 \in Nat /\ 1 + (j - 1) = j
      BY <1>1
    <3> QED
      BY <3>1
  <2>2. g \in 1 .. i - 1
    BY <1>1, <1>3, <2>1
  <2>3. r[g] = q[j]
    BY <2>1, <2>2
  <2>4. \A h \in g + 1 .. i - 1 : 1 + h \in j + 1 .. (1 + i) - 1 /\ h \in 1 .. i - 1
    BY <2>1, <2>2
  <2>5. \A h \in g + 1 .. i - 1 : ~IsFlush(r[h])
    BY <1>1, <2>4
  <2> QED
    BY <1>1, <2>2, <2>3, <2>5 DEF Precedes
<1> QED
  BY <1>2, <1>3

\* The worker takes a barrier off the queue.
LEMMA HeadBarriers ==
  ASSUME NEW q \in Seq(Operation), NEW r \in Seq(Operation), Len(q) = 1 + Len(r),
         \A i \in 1 .. Len(r) : r[i] = q[1 + i], IsFlush(q[1]),
         NEW k, NEW kk, NEW f, NEW l \in SUBSET (1 .. MaxWrites), NEW c,
         NEW b \in [FlushCall -> Barrier],
         k.barrier \notin FlushCall, kk.barrier = q[1].barrier, kk.pc = "flush",
         WorkInv(q, c, l), Known(q, k, c, f, b), Queued(q, k, b), Chain(q, k, c, b)
  PROVE  Known(r, kk, c, f, b) /\ Queued(r, kk, b) /\ Running(r, kk, b, l) /\ Chain(r, kk, c, b)
<1>1. Len(r) \in Nat /\ DOMAIN r = 1 .. Len(r)
  OBVIOUS
<1>2. Len(q) \in Nat /\ DOMAIN q = 1 .. Len(q)
  OBVIOUS
<1>3. \A i \in DOMAIN r : 1 + i \in DOMAIN q /\ 1 < 1 + i /\ r[i] = q[1 + i]
  BY <1>1, <1>2
<1>4. 1 \in DOMAIN q
  BY <1>1, <1>2
<1>5. q[1] \in Operation
  BY <1>4
<1>6. PICK x : x = q[1].barrier
  OBVIOUS
<1>7. x \in FlushCall /\ q[1].kind = "flush" /\ kk.barrier = x /\ q[1].seq \in Nat
  BY <1>5, <1>6, OpFields
<1>8. /\ ~b[x].done /\ b[x].target = q[1].seq
      /\ \A j \in DOMAIN q : IsFlush(q[j]) /\ q[j].barrier = x => 1 = j
  BY <1>4, <1>6 DEF Queued
<1>9. \A i \in DOMAIN r : IsFlush(r[i]) => r[i].barrier # x
  BY <1>3, <1>8
<1>10. Known(r, kk, c, f, b)
  BY <1>3, <1>4, <1>6, <1>7 DEF Known
<1>11. \A i, j \in DOMAIN r : 1 + i = 1 + j => i = j
  BY <1>1
<1>12. Queued(r, kk, b)
  <2> SUFFICES ASSUME NEW i \in DOMAIN r, IsFlush(r[i])
               PROVE  /\ ~b[r[i].barrier].done /\ b[r[i].barrier].target = r[i].seq
                      /\ r[i].barrier # kk.barrier
                      /\ \A j \in DOMAIN r : IsFlush(r[j]) /\ r[j].barrier = r[i].barrier => i = j
    BY DEF Queued
  <2>1. PICK g : g = 1 + i
    OBVIOUS
  <2>2. g \in DOMAIN q /\ r[i] = q[g]
    BY <1>3, <2>1
  <2>3. /\ ~b[q[g].barrier].done /\ b[q[g].barrier].target = q[g].seq
        /\ \A j \in DOMAIN q : IsFlush(q[j]) /\ q[j].barrier = q[g].barrier => g = j
    BY <2>2 DEF Queued
  <2>4. ASSUME NEW j \in DOMAIN r, IsFlush(r[j]), r[j].barrier = r[i].barrier PROVE i = j
    <3>1. 1 + j \in DOMAIN q /\ r[j] = q[1 + j]
      BY <1>3
    <3>2. g = 1 + j
      BY <2>2, <2>3, <2>4, <3>1
    <3> QED
      BY <1>11, <2>1, <3>2
  <2> QED
    BY <1>7, <1>9, <2>2, <2>3, <2>4
<1>13. \A s \in l : s <= b[x].target
  <2>1. \A s \in l : Before(s, q[1])
    BY <1>4 DEF WorkInv
  <2> QED
    BY <1>7, <1>8, <2>1 DEF Before
<1>14. \A i \in DOMAIN r : r[i].kind = "write" => r[i].seq > b[x].target
  <2>1. \A i \in DOMAIN r : Before(q[1].seq, r[i])
    BY <1>3, <1>4 DEF WorkInv, Ordered
  <2>2. \A i \in DOMAIN r : r[i].seq \in Nat
    BY OpFields
  <2> QED
    BY <1>7, <1>8, <2>1, <2>2 DEF Before
<1>15. Running(r, kk, b, l)
  BY <1>7, <1>8, <1>13, <1>14 DEF Running
<1>16. ASSUME NEW i \in 1 .. Len(r) + 1, NEW p, Precedes(q, k, b, p, 1 + i)
       PROVE  Precedes(r, kk, b, p, i)
  <2>1. i \in Nat \ {0} /\ \A j \in 1 .. i - 1 : r[j] = q[1 + j]
    BY <1>1
  <2> QED
    BY <1>7, <1>16, <2>1, PrecedesHead
<1>17. Precedes(r, kk, b, c.latestBarrier, Len(r) + 1)
  <2>1. 1 + (Len(r) + 1) = Len(q) + 1 /\ Len(r) + 1 \in 1 .. Len(r) + 1
    BY <1>1
  <2>2. Precedes(q, k, b, c.latestBarrier, 1 + (Len(r) + 1))
    BY <2>1 DEF Chain
  <2> QED
    BY <1>16, <2>1, <2>2
<1>18. ASSUME NEW i \in DOMAIN r, IsFlush(r[i])
       PROVE  Precedes(r, kk, b, b[r[i].barrier].predecessor, i)
  <2>1. i \in 1 .. Len(r) + 1
    BY <1>1
  <2>2. Precedes(q, k, b, b[r[i].barrier].predecessor, 1 + i)
    BY <1>3, <1>18 DEF Chain
  <2> QED
    BY <1>16, <2>1, <2>2
<1>19. Latest(b, b[x].predecessor)
  <2>1. Precedes(q, k, b, b[x].predecessor, 1)
    BY <1>4, <1>6 DEF Chain
  <2>2. ~\E j \in 1 .. 1 - 1 : TRUE
    OBVIOUS
  <2> QED
    BY <2>1, <2>2 DEF Precedes
<1> QED
  BY <1>7, <1>10, <1>12, <1>15, <1>17, <1>18, <1>19 DEF Chain

\* The queue without its head.
LEMMA TailFacts ==
  ASSUME NEW q \in Seq(Operation), q # <<>>
  PROVE  /\ Tail(q) \in Seq(Operation) /\ Len(q) = 1 + Len(Tail(q)) /\ 1 \in DOMAIN q
         /\ Head(q) = q[1] /\ Head(q) \in Operation /\ <<Head(q)>> \o Tail(q) = q
         /\ \A i \in 1 .. Len(Tail(q)) : Tail(q)[i] = q[1 + i]
<1>1. /\ 1 \in 0 .. Len(q) /\ Tail(q) = SubSeq(q, 2, Len(q)) /\ <<Head(q)>> = SubSeq(q, 1, 1)
      /\ 1 \in DOMAIN q /\ Head(q) = q[1] /\ Head(q) \in Operation
  BY TailCut
<1>2. PICK r : r = Tail(q)
  OBVIOUS
<1>3. PICK n \in Nat : n = Len(q)
  OBVIOUS
<1>4. 1 + 1 = 2
  OBVIOUS
<1>5. r = SubSeq(q, 1 + 1, Len(q))
  BY <1>1, <1>2, <1>4
<1>6. /\ r \in Seq(Operation) /\ Len(r) = Len(q) - 1
      /\ \A i \in 1 .. Len(q) - 1 : r[i] = q[1 + i]
  <2>1. PICK a : a = SubSeq(q, 1, 1)
    OBVIOUS
  <2> QED
    BY <1>1, <1>5, <2>1, CutFacts
<1>7. SubSeq(q, 1, 1) \o SubSeq(q, 1 + 1, Len(q)) = q
  BY <1>1, CutGlue
<1>8. <<Head(q)>> \o r = q
  BY <1>1, <1>5, <1>7
<1>9. n = 1 + (n - 1)
  OBVIOUS
<1> QED
  BY <1>1, <1>2, <1>3, <1>6, <1>8, <1>9
\* nextOperation, of a write.
LEMMA NextWriteInv ==
  ASSUME Inv, NextOperation, Head(operations).kind = "write"
  PROVE  Inv'
<1>1. PICK o : o = Head(operations)
  OBVIOUS
<1>2. /\ worker.pc = "next" /\ operations # <<>> /\ operations' = Tail(operations)
      /\ w' = Dequeued(o) /\ o.kind = "write"
      /\ worker' = [pc |-> o.kind, batch |-> IF o.kind = "write" THEN <<o>> ELSE <<>>,
                    barrier |-> o.barrier]
      /\ UNCHANGED <<barrier, flush, lost, told>>
  BY <1>1, Zenon DEF NextOperation
<1>3. operations \in Seq(Operation) /\ WorkerOK(worker)
  BY DEF Inv, Types
<1>4. worker.batch = <<>> /\ worker.barrier \notin FlushCall /\ worker.barrier = NoBarrier
  BY <1>2, <1>3 DEF WorkerOK, Flushing, Writing, WorkerType, Barriers
<1>5. o \in Operation /\ o = operations[1]
  BY <1>1, <1>2, <1>3, TailFacts
<1>6. o.barrier = NoBarrier
  BY <1>2, <1>5, OpFields
<1>7. worker' = [pc |-> "write", batch |-> <<o>>, barrier |-> NoBarrier]
  BY <1>2, <1>6
<1>8. Pieces(operations, 1, SubSeq(operations, 1, 1), SubSeq(operations, 1 + 1, Len(operations)))
  <2>1. 1 \in 0 .. Len(operations)
    BY <1>2, <1>3, TailCut
  <2>2. \A i \in 1 .. 1 : operations[i].kind = "write"
    BY <1>2, <1>5
  <2> QED
    BY <1>3, <2>1, <2>2, CutPieces
<1>9. PICK r : r = operations'
  OBVIOUS
<1>10. Pieces(operations, 1, <<o>>, r)
  <2>1. Tail(operations) = SubSeq(operations, 2, Len(operations)) /\ <<o>> = SubSeq(operations, 1, 1)
    BY <1>1, <1>2, <1>3, TailCut
  <2>2. 1 + 1 = 2
    OBVIOUS
  <2> QED
    BY <1>2, <1>8, <1>9, <2>1, <2>2
<1>11. w' = [w EXCEPT !.queuedWrites = @ - 1]
  BY <1>2 DEF Dequeued
<1>12. /\ w' \in Counters /\ w'.queuedWrites = w.queuedWrites - 1
       /\ w'.pending = w.pending /\ w'.pendingBytes = w.pendingBytes
       /\ w'.acceptedSeq = w.acceptedSeq /\ w'.latestBarrier = w.latestBarrier
       /\ w'.ackedFailures = w.ackedFailures /\ w'.failed = w.failed
       /\ w'.closeFrom = w.closeFrom
  BY <1>10, <1>11, DequeuedCount
<1>13. worker'.batch = worker.batch \o <<o>>
  <2>1. <<o>> \in Seq(Operation)
    BY <1>5
  <2>2. <<>> \o <<o>> = <<o>>
    BY <2>1, ConcatEmptySeq
  <2> QED
    BY <1>4, <1>7, <2>2
<1>14. worker'.pc \in Writing
  BY <1>7 DEF Writing
<1>15. worker' = [pc |-> worker'.pc, batch |-> worker'.batch, barrier |-> worker.barrier]
  BY <1>4, <1>7
<1>16. operations' = r
  BY <1>9
<1> QED
  BY <1>2, <1>4, <1>10, <1>12, <1>13, <1>14, <1>15, <1>16, MoveInv

\* The head of the queue is no write.
LEMMA HeadCounts ==
  ASSUME NEW o \in Operation, o.kind # "write", NEW r \in Seq(Operation),
         NEW q, <<o>> \o r = q
  PROVE  Bytes(q) = Bytes(r) /\ Cardinality(Writes(q)) = Cardinality(Writes(r))
<1>1. PICK a : a = <<o>>
  OBVIOUS
<1>2. a \in Seq(Operation) /\ DOMAIN a = {1} /\ a[1] = o /\ q = a \o r
  BY <1>1
<1>3. /\ Bytes(a \o r) = Bytes(a) + Bytes(r) /\ Bytes(r) \in Nat
      /\ Cardinality(Writes(a \o r)) = Cardinality(Writes(a)) + Cardinality(Writes(r))
  BY <1>2, BytesConcat, WritesConcat
<1>4. Bytes(a) = 0
  BY <1>1, OpFields, BytesOne
<1>5. Cardinality(Writes(a)) = 0
  BY <1>2, WritesOnly
<1>6. Cardinality(Writes(r)) \in Nat
  BY WritesFinite
<1>7. Bytes(q) = 0 + Bytes(r) /\ Cardinality(Writes(q)) = 0 + Cardinality(Writes(r))
  BY <1>2, <1>3, <1>4, <1>5, Zenon
<1> QED
  BY <1>3, <1>6, <1>7

\* nextOperation, of the close operation.
LEMMA NextCloseInv ==
  ASSUME Inv, NextOperation, Head(operations).kind = "close"
  PROVE  Inv'
<1>1. PICK o : o = Head(operations)
  OBVIOUS
<1>2. /\ worker.pc = "next" /\ operations # <<>> /\ operations' = Tail(operations)
      /\ w' = Dequeued(o) /\ o.kind = "close"
      /\ worker' = [pc |-> o.kind, batch |-> IF o.kind = "write" THEN <<o>> ELSE <<>>,
                    barrier |-> o.barrier]
      /\ UNCHANGED <<barrier, flush, lost, told>>
  BY <1>1, Zenon DEF NextOperation
<1>3. operations \in Seq(Operation) /\ WorkerOK(worker) /\ w \in Counters
  BY DEF Inv, Types
<1>4. worker.batch = <<>> /\ worker.barrier \notin FlushCall /\ worker.barrier = NoBarrier
  BY <1>2, <1>3 DEF WorkerOK, Flushing, Writing, WorkerType, Barriers
<1>5. PICK r : r = Tail(operations)
  OBVIOUS
<1>6. PICK q : q = operations
  OBVIOUS
<1>7. /\ q \in Seq(Operation) /\ q # <<>> /\ r = Tail(q) /\ operations' = r /\ o = Head(q)
  BY <1>1, <1>2, <1>3, <1>5, <1>6
<1>8. /\ r \in Seq(Operation) /\ Len(q) = 1 + Len(r) /\ 1 \in DOMAIN q /\ o \in Operation
      /\ o = q[1] /\ <<o>> \o r = q /\ \A i \in 1 .. Len(r) : r[i] = q[1 + i]
  BY <1>7, TailFacts
<1>9. o.barrier = NoBarrier /\ o.size = 0 /\ ~IsFlush(o)
  BY <1>2, <1>8 DEF Operation, WriteOps, FlushOps, CloseOps, IsFlush
<1>10. worker' = [pc |-> "close", batch |-> <<>>, barrier |-> NoBarrier]
  BY <1>2, <1>9
<1>11. w' = w
  BY <1>2, <1>3 DEF Dequeued, Counters
<1>12. WorkerOK(worker')
  BY <1>10 DEF WorkerOK, WorkerType, WorkerPC, Flushing, Barriers
<1>13. <<o>> \in Seq(Operation) /\ Len(<<o>>) = 1 /\ DOMAIN <<o>> = {1} /\ <<o>>[1] = o
  BY <1>8
<1>14. WorkList(worker, operations) = q /\ WorkList(worker', operations') = r
  <2>1. <<>> \o q = q /\ <<>> \o r = r
    BY <1>7, <1>8, ConcatEmptySeq
  <2> QED
    BY <1>4, <1>6, <1>7, <1>10, <2>1 DEF WorkList
<1>15. WorkInv(r, w', lost)
  <2>1. WorkInv(<<o>> \o r, w', lost)
    BY <1>8, <1>11, <1>14 DEF Inv
  <2> QED
    BY <1>8, <1>13, <2>1, SuffixWork
<1>16. CapacityInv(r, worker', w')
  <2>1. Bytes(q) = Bytes(r) /\ Cardinality(Writes(q)) = Cardinality(Writes(r))
    <3>1. o \in Operation /\ o.kind # "write" /\ r \in Seq(Operation)
      BY <1>2, <1>8
    <3>2. <<o>> \o r = q
      BY <1>8
    <3> QED
      BY <3>1, <3>2, HeadCounts, Zenon
  <2>2. CapacityInv(q, worker, w)
    BY <1>6 DEF Inv
  <2>3. worker'.batch = worker.batch
    BY <1>4, <1>10
  <2> QED
    BY <1>11, <2>1, <2>2, <2>3 DEF CapacityInv
<1>17. \A i \in DOMAIN r : \E j \in DOMAIN q : q[j] = r[i]
  <2>1. DOMAIN r = 1 .. Len(r) /\ Len(r) \in Nat /\ DOMAIN q = 1 .. Len(q)
    BY <1>7, <1>8
  <2>2. \A i \in DOMAIN r : 1 + i \in DOMAIN q
    BY <1>8, <2>1
  <2> QED
    BY <1>8, <2>1, <2>2
<1>18. \A i \in 1 .. 1 : ~IsFlush(operations[i])
  BY <1>6, <1>8, <1>9
<1>19. /\ operations' \in Seq(Operation) /\ Len(operations) = 1 + Len(operations')
       /\ \A i \in 1 .. Len(operations') : operations'[i] = operations[1 + i]
  BY <1>6, <1>7, <1>8
<1>20. worker'.barrier = worker.barrier
  BY <1>4, <1>10
<1>21. WorkInv(WorkList(worker', operations'), w', lost)
  BY <1>14, <1>15
<1>24. CapacityInv(operations', worker', w')
  BY <1>7, <1>16
<1>25. \A i \in DOMAIN WorkList(worker', operations') :
            \E j \in DOMAIN WorkList(worker, operations) :
               WorkList(worker, operations)[j] = WorkList(worker', operations')[i]
  BY <1>14, <1>17
<1>22. UNCHANGED <<barrier, flush, lost, told>> /\ w' \in Counters
  BY <1>2, <1>3, <1>11
<1>23. /\ w'.acceptedSeq = w.acceptedSeq /\ w'.latestBarrier = w.latestBarrier
       /\ w'.ackedFailures = w.ackedFailures /\ w'.closeFrom = w.closeFrom
  BY <1>11
<1> QED
  BY <1>4, <1>12, <1>18, <1>19, <1>20, <1>21, <1>22, <1>23, <1>24, <1>25, DequeueInv

\* nextOperation, of a barrier.
LEMMA NextFlushInv ==
  ASSUME Inv, NextOperation, Head(operations).kind = "flush"
  PROVE  Inv'
<1>1. PICK o : o = Head(operations)
  OBVIOUS
<1>2. /\ worker.pc = "next" /\ operations # <<>> /\ operations' = Tail(operations)
      /\ w' = Dequeued(o) /\ o.kind = "flush"
      /\ worker' = [pc |-> o.kind, batch |-> IF o.kind = "write" THEN <<o>> ELSE <<>>,
                    barrier |-> o.barrier]
      /\ UNCHANGED <<barrier, flush, lost, told>>
  BY <1>1, Zenon DEF NextOperation
<1>3. /\ operations \in Seq(Operation) /\ WorkerOK(worker) /\ w \in Counters
      /\ barrier \in [FlushCall -> Barrier] /\ lost \in SUBSET (1 .. MaxWrites)
  BY DEF Inv, Types
<1>4. worker.batch = <<>> /\ worker.barrier \notin FlushCall
  BY <1>2, <1>3 DEF WorkerOK, Flushing, Writing
<1>5. PICK r : r = Tail(operations)
  OBVIOUS
<1>6. PICK q : q = operations
  OBVIOUS
<1>7. /\ q \in Seq(Operation) /\ q # <<>> /\ r = Tail(q) /\ operations' = r /\ o = Head(q)
  BY <1>1, <1>2, <1>3, <1>5, <1>6
<1>8. /\ r \in Seq(Operation) /\ Len(q) = 1 + Len(r) /\ 1 \in DOMAIN q /\ o \in Operation
      /\ o = q[1] /\ <<o>> \o r = q /\ \A i \in 1 .. Len(r) : r[i] = q[1 + i]
  BY <1>7, TailFacts
<1>9. o.barrier \in FlushCall /\ o.size = 0 /\ IsFlush(o) /\ o.barrier = q[1].barrier
  BY <1>2, <1>8, OpFields
<1>10. worker' = [pc |-> "flush", batch |-> <<>>, barrier |-> o.barrier]
  BY <1>2
<1>11. w' = w
  BY <1>2, <1>3 DEF Dequeued, Counters
<1>12. WorkerOK(worker')
  BY <1>9, <1>10 DEF WorkerOK, WorkerType, WorkerPC, Flushing, Barriers
<1>13. <<o>> \in Seq(Operation) /\ Len(<<o>>) = 1 /\ DOMAIN <<o>> = {1} /\ <<o>>[1] = o
  BY <1>8
<1>14. WorkList(worker, operations) = q /\ WorkList(worker', operations') = r
  <2>1. <<>> \o q = q /\ <<>> \o r = r
    BY <1>7, <1>8, ConcatEmptySeq
  <2> QED
    BY <1>4, <1>6, <1>7, <1>10, <2>1 DEF WorkList
<1>15. WorkInv(q, w, lost) /\ WorkInv(<<o>> \o r, w, lost)
  BY <1>8, <1>14 DEF Inv
<1>16. WorkInv(r, w, lost)
  BY <1>8, <1>13, <1>15, SuffixWork
<1>17. CapacityInv(r, worker', w')
  <2>1. Bytes(q) = Bytes(r) /\ Cardinality(Writes(q)) = Cardinality(Writes(r))
    <3>1. o \in Operation /\ o.kind # "write" /\ r \in Seq(Operation)
      BY <1>2, <1>8
    <3>2. <<o>> \o r = q
      BY <1>8
    <3> QED
      BY <3>1, <3>2, HeadCounts, Zenon
  <2>2. CapacityInv(q, worker, w)
    BY <1>6 DEF Inv
  <2>3. worker'.batch = worker.batch
    BY <1>4, <1>10
  <2> QED
    BY <1>11, <2>1, <2>2, <2>3 DEF CapacityInv
<1>18. /\ Known(q, worker, w, flush, barrier) /\ Queued(q, worker, barrier)
       /\ Chain(q, worker, w, barrier) /\ Exact(q, worker, barrier, lost)
  BY <1>6, <1>14 DEF Inv
<1>19. worker'.barrier = q[1].barrier /\ worker'.pc = "flush" /\ IsFlush(q[1])
  BY <1>8, <1>9, <1>10
<1>20. /\ Known(r, worker', w, flush, barrier) /\ Queued(r, worker', barrier)
       /\ Running(r, worker', barrier, lost) /\ Chain(r, worker', w, barrier)
  BY <1>3, <1>4, <1>7, <1>8, <1>15, <1>18, <1>19, HeadBarriers
<1>21. Exact(r, worker', barrier, lost)
  <2>1. DOMAIN r = 1 .. Len(r) /\ Len(r) \in Nat /\ DOMAIN q = 1 .. Len(q)
    BY <1>7, <1>8
  <2>2. \A i \in DOMAIN r : 1 + i \in DOMAIN q
    BY <1>8, <2>1
  <2>3. \A i \in DOMAIN r : \E j \in DOMAIN q : q[j] = r[i]
    BY <1>8, <2>1, <2>2
  <2>4. \A x \in FlushCall : Ran(worker', barrier, x) => Ran(worker, barrier, x)
    BY <1>19 DEF Ran
  <2> QED
    BY <1>18, <2>3, <2>4, ExactList
<1>22. Told(w, barrier, told) /\ Ranges(worker', w, barrier) /\ Waiting(flush, barrier)
  BY <1>19 DEF Inv, Ranges
<1>23. Types'
  BY <1>2, <1>7, <1>8, <1>11, <1>12 DEF Inv, Types
<1> QED
  BY <1>2, <1>7, <1>11, <1>14, <1>16, <1>17, <1>20, <1>21, <1>22, <1>23 DEF Inv

\* nextOperation.
LEMMA NextOperationInv ==
  ASSUME Inv, NextOperation
  PROVE  Inv'
<1>1. operations # <<>> /\ operations \in Seq(Operation)
  <2>1. operations # <<>>
    BY Zenon DEF NextOperation
  <2> QED
    BY <2>1 DEF Inv, Types
<1>2. Head(operations) \in Operation
  BY <1>1, TailFacts
<1>3. Head(operations).kind \in {"write", "flush", "close"}
  BY <1>2, OpFields
<1> QED
  BY <1>3, NextWriteInv, NextCloseInv, NextFlushInv
-------------------------------------------------------------------------------
(* The worker finishes a batch *)

\* A batch holds writes.
LEMMA WriteFields ==
  ASSUME NEW s \in Seq(WriteOps)
  PROVE  \A i \in DOMAIN s : s[i].kind = "write" /\ s[i].seq \in Nat
<1>1. \A i \in DOMAIN s : s[i] \in WriteOps
  OBVIOUS
<1> QED
  BY <1>1 DEF WriteOps

\* The writes of a batch are distinct from each other and from those that failed.
LEMMA BatchLost ==
  ASSUME NEW s \in Seq(WriteOps), NEW l \in SUBSET (1 .. MaxWrites),
         NEW T, T = {s[i].seq : i \in DOMAIN s},
         \A i, j \in DOMAIN s : i < j => s[i].seq < s[j].seq,
         \A x \in l : \A i \in DOMAIN s : x < s[i].seq
  PROVE  T \in SUBSET (1 .. MaxWrites) /\ Cardinality(l \cup T) = Cardinality(l) + Len(s)
<1>0. PICK n \in Nat : n = Len(s)
  OBVIOUS
<1>1. DOMAIN s = 1 .. n /\ \A i \in 1 .. n : s[i] \in WriteOps
  BY <1>0
<1>2. \A i \in 1 .. n : s[i].seq \in 1 .. MaxWrites
  BY <1>1 DEF WriteOps
<1>3. \A i \in 1 .. n : s[i].seq \in Nat
  BY <1>2
<1>4. T \in SUBSET (1 .. MaxWrites)
  BY <1>1, <1>2
<1>5. IsFiniteSet(1 .. n) /\ Cardinality(1 .. n) = n
  <2>1. Cardinality(1 .. n) = IF 1 > n THEN 0 ELSE n - 1 + 1
    BY FS_Interval
  <2>2. IsFiniteSet(1 .. n)
    BY FS_Interval
  <2> QED
    BY <2>1, <2>2
<1>6. PICK g : g = [i \in 1 .. n |-> s[i].seq]
  OBVIOUS
<1>7. g \in Bijection(1 .. n, T)
  <2>1. g \in [1 .. n -> T]
    BY <1>1, <1>6
  <2>2. \A i, j \in 1 .. n : g[i] = g[j] => i = j
    <3>1. ASSUME NEW i \in 1 .. n, NEW j \in 1 .. n, i < j PROVE g[i] # g[j]
      <4>1. s[i].seq < s[j].seq
        BY <1>1, <3>1
      <4>2. g[i] = s[i].seq /\ g[j] = s[j].seq
        BY <1>6
      <4> QED
        BY <1>3, <4>1, <4>2
    <3>2. ASSUME NEW i \in 1 .. n, NEW j \in 1 .. n, i # j PROVE g[i] # g[j]
      <4>1. i < j \/ j < i
        BY <3>2
      <4> QED
        BY <3>1, <4>1
    <3> QED
      BY <3>2
  <2>3. \A x \in T : \E i \in 1 .. n : g[i] = x
    BY <1>1, <1>6
  <2> QED
    BY <2>1, <2>2, <2>3 DEF Bijection, Injection, Surjection, IsInjective
<1>8. IsFiniteSet(T) /\ Cardinality(T) = n
  <2>1. ExistsBijection(1 .. n, T)
    BY <1>7 DEF ExistsBijection
  <2> QED
    BY <1>5, <2>1, FS_Bijection
<1>9. IsFiniteSet(l) /\ Cardinality(l) \in Nat
  <2>1. IsFiniteSet(1 .. MaxWrites)
    BY FS_Interval
  <2>2. IsFiniteSet(l)
    BY <2>1, FS_Subset
  <2> QED
    BY <2>2, FS_CardinalityType
<1>10. l \cap T = {}
  <2>1. \A x \in l : \A i \in 1 .. n : x # s[i].seq
    BY <1>1, <1>3
  <2> QED
    BY <1>1, <2>1
<1>11. Cardinality(l \cup T) = Cardinality(l) + Cardinality(T) - Cardinality(l \cap T)
  BY <1>8, <1>9, FS_Union
<1>12. Cardinality(l \cap T) = 0
  BY <1>10, FS_EmptySet
<1> QED
  BY <1>0, <1>4, <1>8, <1>9, <1>11, <1>12

\* The batch is the beginning of the work list; g is what is lost with it.
LEMMA BatchWork ==
  ASSUME NEW s \in Seq(WriteOps), NEW q \in Seq(Operation), NEW c \in Counters, NEW e,
         NEW l \in SUBSET (1 .. MaxWrites), WorkInv(s \o q, c, l), e.acceptedSeq = c.acceptedSeq,
         NEW T, T = {s[i].seq : i \in DOMAIN s}
  PROVE  /\ e.failed = c.failed => WorkInv(q, e, l)
         /\ e.failed = c.failed + Len(s) => WorkInv(q, e, l \cup T)
         /\ l \cup T \in SUBSET (1 .. MaxWrites)
<1>1. s \in Seq(Operation)
  BY DEF Operation
<1>2. /\ WorkInv(q, c, l)
      /\ \A i \in DOMAIN s, j \in DOMAIN q : Before(s[i].seq, q[j])
      /\ \A i, j \in DOMAIN s : i < j => Before(s[i].seq, s[j])
      /\ \A i \in DOMAIN s : s[i].seq <= c.acceptedSeq /\ \A x \in l : Before(x, s[i])
  BY <1>1, SuffixWork
<1>3. \A i \in DOMAIN s : s[i].kind = "write"
  BY WriteFields
<1>4. /\ \A i, j \in DOMAIN s : i < j => s[i].seq < s[j].seq
      /\ \A x \in l : \A i \in DOMAIN s : x < s[i].seq
  BY <1>2, <1>3 DEF Before
<1>5. T \in SUBSET (1 .. MaxWrites) /\ Cardinality(l \cup T) = Cardinality(l) + Len(s)
  BY <1>4, BatchLost
<1>6. e.failed = c.failed => WorkInv(q, e, l)
  BY <1>2 DEF WorkInv
<1>7. ASSUME e.failed = c.failed + Len(s) PROVE WorkInv(q, e, l \cup T)
  <2>1. e.failed = Cardinality(l \cup T)
    BY <1>2, <1>5, <1>7 DEF WorkInv
  <2>2. \A x \in l \cup T : x <= e.acceptedSeq /\ \A j \in DOMAIN q : Before(x, q[j])
    BY <1>2 DEF WorkInv
  <2>3. Ordered(q) /\ \A i \in DOMAIN q : q[i].seq <= e.acceptedSeq
    BY <1>2 DEF WorkInv
  <2> QED
    BY <2>1, <2>2, <2>3 DEF WorkInv
<1> QED
  BY <1>5, <1>6, <1>7

\* A barrier that was run does not count what is tried after it.
LEMMA BatchExact ==
  ASSUME NEW s \in Seq(WriteOps), NEW q \in Seq(Operation), NEW k, NEW kk,
         NEW b \in [FlushCall -> Barrier], NEW l, Exact(s \o q, k, b, l),
         \A x \in FlushCall : Ran(kk, b, x) => Ran(k, b, x),
         NEW T, T = {s[i].seq : i \in DOMAIN s}
  PROVE  Exact(q, kk, b, l) /\ Exact(q, kk, b, l \cup T)
<1>0. PICK u : u = s \o q
  OBVIOUS
<1>1. s \in Seq(Operation)
  BY DEF Operation
<1>2. PICK m : m = Len(s)
  OBVIOUS
<1>3. /\ \A i \in DOMAIN s : i \in DOMAIN u /\ u[i] = s[i]
      /\ \A i \in DOMAIN q : m + i \in DOMAIN u /\ u[m + i] = q[i]
  BY <1>0, <1>1, <1>2, ConcatFacts
<1>4. Exact(u, k, b, l)
  BY <1>0
<1>5. \A i \in DOMAIN q : \E j \in DOMAIN u : u[j] = q[i]
  BY <1>3
<1>6. Exact(q, kk, b, l)
  BY <1>4, <1>5, ExactList
<1>7. ASSUME NEW x \in FlushCall, Ran(kk, b, x)
      PROVE  {y \in l \cup T : y <= b[x].target} = {y \in l : y <= b[x].target}
  <2>1. \A i \in DOMAIN s : s[i].kind = "write" /\ s[i].seq \in Nat
    BY WriteFields
  <2>2. \A i \in DOMAIN s : s[i].seq > b[x].target
    BY <1>3, <1>4, <1>7, <2>1 DEF Exact
  <2>3. b[x].target \in Nat
    BY DEF Barrier, Seqs
  <2>4. \A y \in T : ~(y <= b[x].target)
    BY <2>1, <2>2, <2>3
  <2> QED
    BY <2>4
<1>8. Exact(q, kk, b, l \cup T)
  BY <1>6, <1>7 DEF Exact
<1> QED
  BY <1>6, <1>8

\* finishWriteBatch.
LEMMA FinishWriteBatchInv ==
  ASSUME Inv, NEW ok \in BOOLEAN, FinishWriteBatch(ok)
  PROVE  Inv'
<1>1. PICK s : s = worker.batch
  OBVIOUS
<1>2. PICK q : q = operations
  OBVIOUS
<1>3. PICK T : T = {s[i].seq : i \in DOMAIN s}
  OBVIOUS
<1>4. /\ worker.pc \in {"writing", "failing"}
      /\ w' = [w EXCEPT !.failed = IF ok THEN @ ELSE @ + Len(s),
                        !.pending = @ - Len(s),
                        !.pendingBytes = IF Bytes(s) > @ THEN 0 ELSE @ - Bytes(s)]
      /\ lost' = (IF ok THEN lost ELSE lost \cup T)
      /\ worker' = [worker EXCEPT !.pc = "next", !.batch = <<>>]
      /\ UNCHANGED <<operations, barrier, flush, told>>
  BY <1>1, <1>3, Zenon DEF FinishWriteBatch
<1>5. /\ q \in Seq(Operation) /\ w \in Counters /\ barrier \in [FlushCall -> Barrier]
      /\ WorkerOK(worker) /\ lost \in SUBSET (1 .. MaxWrites)
  BY <1>2 DEF Inv, Types
<1>6. s \in Seq(WriteOps) /\ worker \in WorkerType /\ worker.barrier \notin FlushCall
  BY <1>1, <1>4, <1>5 DEF WorkerOK, WorkerType, Flushing
<1>7. /\ worker' \in WorkerType /\ worker'.pc = "next" /\ worker'.batch = <<>>
      /\ worker'.barrier = worker.barrier
  <2>1. "next" \in WorkerPC /\ <<>> \in Seq(WriteOps)
    BY DEF WorkerPC
  <2> QED
    BY <1>4, <1>6, <2>1 DEF WorkerType
<1>8. WorkerOK(worker')
  BY <1>6, <1>7 DEF WorkerOK, Flushing
<1>9. WorkInv(s \o q, w, lost) /\ Exact(s \o q, worker, barrier, lost)
  BY <1>1, <1>2 DEF Inv, WorkList
<1>10. /\ w.pending = w.queuedWrites + Len(s) /\ w.pendingBytes = Bytes(q) + Bytes(s)
       /\ w.queuedWrites = Cardinality(Writes(q)) /\ w.queuedWrites <= QueueSize
       /\ w.pendingBytes <= QueueBytes
  BY <1>1, <1>2 DEF Inv, CapacityInv
<1>11. Bytes(q) \in Nat /\ Bytes(s) \in Nat /\ Len(s) \in Nat /\ w.queuedWrites \in Nat /\ w.failed \in Nat
  <2>1. s \in Seq(Operation)
    BY <1>6 DEF Operation
  <2>2. Bytes(q) \in Nat /\ Bytes(s) \in Nat
    BY <1>5, <2>1, BytesConcat
  <2> QED
    BY <1>5, <1>6, <2>2, CounterFields
<1>12. PICK z \in Nat : z = IF Bytes(s) > w.pendingBytes THEN 0 ELSE w.pendingBytes - Bytes(s)
  BY <1>10, <1>11
<1>13. z = Bytes(q) /\ z <= QueueBytes /\ w.pending - Len(s) = w.queuedWrites
  <2>1. PICK x \in Nat : x = Bytes(s)
    BY <1>11
  <2>2. PICK y \in Nat : y = Bytes(q)
    BY <1>11
  <2>3. w.pendingBytes = y + x /\ y + x <= QueueBytes
    BY <1>10, <2>1, <2>2
  <2>4. z = y
    BY <1>12, <2>1, <2>3
  <2>5. y <= QueueBytes
    BY <2>3
  <2> QED
    BY <1>10, <1>11, <2>2, <2>4, <2>5
<1>14. PICK n \in Nat : n = IF ok THEN w.failed ELSE w.failed + Len(s)
  BY <1>11
<1>15. w' = [w EXCEPT !.failed = n, !.pending = w.queuedWrites, !.pendingBytes = z]
  BY <1>4, <1>5, <1>12, <1>13, <1>14 DEF Counters
<1>16. /\ w' \in Counters /\ w'.queuedWrites = w.queuedWrites /\ w'.pending = w.queuedWrites
       /\ w'.pendingBytes = z /\ w'.acceptedSeq = w.acceptedSeq
       /\ w'.latestBarrier = w.latestBarrier /\ w'.ackedFailures = w.ackedFailures
       /\ w'.failed = n /\ w'.closeFrom = w.closeFrom
  BY <1>5, <1>11, <1>15 DEF Counters
<1>17. CapacityInv(q, worker', w')
  <2>1. Bytes(<<>>) = 0 /\ Len(<<>>) = 0
    <3>1. <<>> \in Seq(Operation)
      OBVIOUS
    <3>2. CloseOp(0) \in Operation
      BY DEF CloseOp, Operation, CloseOps, Seqs
    <3> QED
      BY <3>2, BytesOne
  <2>2. w'.pending = w'.queuedWrites + 0
    BY <1>11, <1>16
  <2>3. w'.pendingBytes = Bytes(q) + 0
    BY <1>11, <1>13, <1>16
  <2> QED
    BY <1>7, <1>10, <1>13, <1>16, <2>1, <2>2, <2>3 DEF CapacityInv
<1>18. WorkList(worker', q) = q
  BY <1>5, <1>7, ConcatEmptySeq DEF WorkList
<1>19. /\ w'.failed = w.failed => WorkInv(q, w', lost)
       /\ w'.failed = w.failed + Len(s) => WorkInv(q, w', lost \cup T)
       /\ lost \cup T \in SUBSET (1 .. MaxWrites)
  BY <1>3, <1>5, <1>6, <1>9, <1>16, BatchWork
<1>20. WorkInv(q, w', lost') /\ lost' \in SUBSET (1 .. MaxWrites)
  BY <1>4, <1>5, <1>14, <1>16, <1>19
<1>21. \A x \in FlushCall : Ran(worker', barrier, x) => Ran(worker, barrier, x)
  BY <1>7 DEF Ran
<1>22. Exact(q, worker', barrier, lost) /\ Exact(q, worker', barrier, lost \cup T)
  BY <1>3, <1>5, <1>6, <1>9, <1>21, BatchExact
<1>23. Exact(q, worker', barrier, lost')
  BY <1>4, <1>22
<1>24. Known(q, worker', w', flush, barrier) /\ Queued(q, worker', barrier)
  BY <1>2, <1>7, <1>16 DEF Inv, Known, Queued
<1>25. Running(q, worker', barrier, lost')
  BY <1>6, <1>7 DEF Running
<1>26. Chain(q, worker', w', barrier)
  BY <1>2, <1>7, <1>16 DEF Inv, Chain, Precedes
<1>27. Told(w', barrier, told) /\ Ranges(worker', w', barrier) /\ Waiting(flush, barrier)
  BY <1>7, <1>16 DEF Inv, Told, Ranges
<1>28. Types'
  BY <1>4, <1>8, <1>16, <1>20 DEF Inv, Types
<1> QED
  BY <1>2, <1>4, <1>17, <1>18, <1>20, <1>23, <1>24, <1>25, <1>26, <1>27, <1>28 DEF Inv
\* Between the barriers, the worker changes its state and the flags.
LEMMA WorkerStepInv ==
  ASSUME Inv, WorkerOK(worker'), worker'.batch = worker.batch, worker'.barrier = worker.barrier,
         worker.barrier \notin FlushCall,
         w' \in Counters, w'.queuedWrites = w.queuedWrites, w'.pending = w.pending,
         w'.pendingBytes = w.pendingBytes, w'.acceptedSeq = w.acceptedSeq,
         w'.latestBarrier = w.latestBarrier, w'.ackedFailures = w.ackedFailures,
         w'.failed = w.failed, w'.closeFrom \in {w.closeFrom, w.ackedFailures},
         UNCHANGED <<operations, barrier, flush, lost, told>>
  PROVE  Inv'
<1>0. worker'.pc \notin {"flush", "flushing", "acking"}
  BY DEF WorkerOK, Flushing
<1>1. Types'
  BY DEF Inv, Types
<1>2. WorkInv(WorkList(worker, operations), w, lost)'
  BY DEF Inv, WorkInv, WorkList
<1>3. CapacityInv(operations, worker, w)'
  BY DEF Inv, CapacityInv
<1>4. Known(operations, worker, w, flush, barrier)'
  BY DEF Inv, Known
<1>5. Told(w, barrier, told)'
  BY DEF Inv, Told
<1>6. Chain(operations, worker, w, barrier)'
  BY <1>0 DEF Inv, Chain, Precedes
<1>7. Ranges(worker, w, barrier)'
  BY <1>0 DEF Inv, Ranges
<1>8. Queued(operations, worker, barrier)' /\ Running(operations, worker, barrier, lost)'
  BY DEF Inv, Queued, Running
<1>9. Exact(WorkList(worker, operations), worker, barrier, lost)'
  BY <1>0 DEF Inv, WorkList, Exact, Ran
<1>10. Waiting(flush, barrier)'
  BY DEF Inv
<1> QED
  BY <1>1, <1>2, <1>3, <1>4, <1>5, <1>6, <1>7, <1>8, <1>9, <1>10 DEF Inv

\* runClose.
LEMMA RunCloseInv ==
  ASSUME Inv, RunClose
  PROVE  Inv'
<1>1. /\ worker.pc = "close" /\ worker' = [worker EXCEPT !.pc = "closed"]
      /\ w' = [w EXCEPT !.closeFinished = TRUE, !.closeFrom = w.ackedFailures]
      /\ UNCHANGED <<operations, barrier, flush, lost, told>>
  BY Zenon DEF RunClose
<1>2. w \in Counters /\ WorkerOK(worker) /\ w.ackedFailures \in Nat
  BY CounterFields DEF Inv, Types
<1>3. /\ w' \in Counters /\ w'.queuedWrites = w.queuedWrites /\ w'.pending = w.pending
      /\ w'.pendingBytes = w.pendingBytes /\ w'.acceptedSeq = w.acceptedSeq
      /\ w'.latestBarrier = w.latestBarrier /\ w'.ackedFailures = w.ackedFailures
      /\ w'.failed = w.failed /\ w'.closeFrom = w.ackedFailures
  BY <1>1, <1>2 DEF Counters
<1>4. worker \in WorkerType /\ worker.barrier \notin FlushCall /\ worker.batch = <<>>
  BY <1>1, <1>2 DEF WorkerOK, Flushing, Writing
<1>5. /\ worker' \in WorkerType /\ worker'.batch = worker.batch /\ worker'.barrier = worker.barrier
      /\ worker'.pc = "closed"
  BY <1>1, <1>4 DEF WorkerType, WorkerPC
<1>6. WorkerOK(worker')
  BY <1>4, <1>5 DEF WorkerOK, Flushing
<1> QED
  BY <1>1, <1>3, <1>4, <1>5, <1>6, WorkerStepInv

\* The end of run.
LEMMA WorkerEndsInv ==
  ASSUME Inv, WorkerEnds
  PROVE  Inv'
<1>1. /\ worker.pc = "closed" /\ worker' = [worker EXCEPT !.pc = "done"]
      /\ w' = [w EXCEPT !.cancelled = TRUE]
      /\ UNCHANGED <<operations, barrier, flush, lost, told>>
  BY Zenon DEF WorkerEnds
<1>2. w \in Counters /\ WorkerOK(worker)
  BY DEF Inv, Types
<1>3. /\ w' \in Counters /\ w'.queuedWrites = w.queuedWrites /\ w'.pending = w.pending
      /\ w'.pendingBytes = w.pendingBytes /\ w'.acceptedSeq = w.acceptedSeq
      /\ w'.latestBarrier = w.latestBarrier /\ w'.ackedFailures = w.ackedFailures
      /\ w'.failed = w.failed /\ w'.closeFrom = w.closeFrom
  BY <1>1, <1>2 DEF Counters
<1>4. worker \in WorkerType /\ worker.barrier \notin FlushCall /\ worker.batch = <<>>
  BY <1>1, <1>2 DEF WorkerOK, Flushing, Writing
<1>5. /\ worker' \in WorkerType /\ worker'.batch = worker.batch /\ worker'.barrier = worker.barrier
      /\ worker'.pc = "done"
  BY <1>1, <1>4 DEF WorkerType, WorkerPC
<1>6. WorkerOK(worker')
  BY <1>4, <1>5 DEF WorkerOK, Flushing
<1> QED
  BY <1>1, <1>3, <1>4, <1>5, <1>6, WorkerStepInv

-------------------------------------------------------------------------------
(* The worker runs a barrier *)

\* The fields of a barrier.
LEMMA BarrierFields ==
  ASSUME NEW b \in [FlushCall -> Barrier], NEW x \in FlushCall
  PROVE  /\ b[x].target \in Nat /\ b[x].baseFailed \in Nat /\ b[x].failedAtTarget \in Nat
         /\ b[x].predecessor \in Barriers /\ b[x].waiters \in Nat
         /\ b[x].done \in BOOLEAN /\ b[x].acknowledged \in BOOLEAN /\ b[x].settled \in BOOLEAN
BY DEF Barrier, Seqs

\* The order of the barriers, when barriers or the worker change and the queue does not.
LEMMA ChainStep ==
  ASSUME NEW q, NEW k, NEW kk, NEW c, NEW e, NEW b, NEW bb, Chain(q, k, c, b),
         e.latestBarrier = c.latestBarrier, kk.barrier = k.barrier,
         k.barrier \notin FlushCall => \A p : Latest(b, p) => Latest(bb, p),
         \A i \in DOMAIN q : IsFlush(q[i]) =>
            bb[q[i].barrier].predecessor = b[q[i].barrier].predecessor,
         kk.pc = "flush" => Latest(bb, bb[kk.barrier].predecessor)
  PROVE  Chain(q, kk, e, bb)
<1>1. \A p, i : Precedes(q, k, b, p, i) => Precedes(q, kk, bb, p, i)
  BY DEF Precedes
<1> QED
  BY <1>1 DEF Chain

\* How many writes failed.
LEMMA LostCount ==
  ASSUME NEW l \in SUBSET (1 .. MaxWrites), NEW n
  PROVE  /\ IsFiniteSet(l) /\ Cardinality(l) \in Nat
         /\ Cardinality({s \in l : s <= n}) <= Cardinality(l)
         /\ (\A s \in l : s <= n) => Cardinality({s \in l : s <= n}) = Cardinality(l)
<1>1. IsFiniteSet(1 .. MaxWrites)
  BY FS_Interval
<1>2. IsFiniteSet(l)
  BY <1>1, FS_Subset
<1>3. Cardinality(l) \in Nat
  BY <1>2, FS_CardinalityType
<1>4. {s \in l : s <= n} \in SUBSET l
  OBVIOUS
<1>5. Cardinality({s \in l : s <= n}) <= Cardinality(l)
  BY <1>2, <1>4, FS_Subset
<1>6. ASSUME \A s \in l : s <= n PROVE {s \in l : s <= n} = l
  BY <1>6
<1>7. (\A s \in l : s <= n) => Cardinality({s \in l : s <= n}) = Cardinality(l)
  BY <1>6
<1> QED
  BY <1>2, <1>3, <1>5, <1>7
\* runFlush, the locked section.
LEMMA RunFlushInv ==
  ASSUME Inv, RunFlush
  PROVE  Inv'
<1>1. PICK x : x = worker.barrier
  OBVIOUS
<1>2. PICK p : p = barrier[x].predecessor
  OBVIOUS
<1>3. PICK base : base = IF /\ p # NoBarrier /\ barrier[p].acknowledged
                            /\ barrier[p].failedAtTarget > barrier[x].baseFailed
                           THEN barrier[p].failedAtTarget ELSE barrier[x].baseFailed
  OBVIOUS
<1>4. /\ worker.pc = "flush"
      /\ barrier' = [barrier EXCEPT ![x].baseFailed = base, ![x].failedAtTarget = w.failed,
                                    ![x].predecessor = NoBarrier]
      /\ worker' = [worker EXCEPT !.pc = "flushing"]
      /\ UNCHANGED <<operations, w, flush, lost, told>>
  BY <1>1, <1>2, <1>3, Zenon DEF RunFlush
<1>5. PICK b : b = barrier
  OBVIOUS
<1>6. PICK bb : bb = barrier'
  OBVIOUS
<1>7. /\ operations \in Seq(Operation) /\ w \in Counters /\ b \in [FlushCall -> Barrier]
      /\ WorkerOK(worker) /\ flush \in [FlushCall -> Calls] /\ lost \in SUBSET (1 .. MaxWrites)
  BY <1>5 DEF Inv, Types
<1>8. x \in FlushCall /\ worker \in WorkerType /\ worker.batch = <<>>
  BY <1>1, <1>4, <1>7 DEF WorkerOK, Flushing, Writing
<1>9. /\ worker' \in WorkerType /\ worker'.pc = "flushing" /\ worker'.barrier = x
      /\ worker'.batch = worker.batch
  BY <1>1, <1>4, <1>8 DEF WorkerType, WorkerPC, Flushing
<1>10. WorkerOK(worker')
  BY <1>8, <1>9 DEF WorkerOK, Flushing
<1>11. w.failed \in Nat /\ p \in Barriers /\ base \in Nat
  <2>1. p \in Barriers /\ b[x].baseFailed \in Nat
    BY <1>2, <1>5, <1>7, <1>8, BarrierFields
  <2>2. p # NoBarrier => b[p].failedAtTarget \in Nat
    BY <1>7, <2>1, BarrierFields DEF Barriers
  <2> QED
    BY <1>3, <1>5, <1>7, <2>1, <2>2, CounterFields
<1>12. NoBarrier \in Barriers
  BY DEF Barriers
<1>13. bb = [b EXCEPT ![x] = [b[x] EXCEPT !.baseFailed = base, !.failedAtTarget = w.failed,
                                          !.predecessor = NoBarrier]]
  BY <1>4, <1>5, <1>6
<1>14. PICK y : y = [b[x] EXCEPT !.baseFailed = base, !.failedAtTarget = w.failed,
                                 !.predecessor = NoBarrier]
  OBVIOUS
<1>15. /\ y \in Barrier /\ y.baseFailed = base /\ y.failedAtTarget = w.failed
       /\ y.target = b[x].target /\ y.done = b[x].done /\ y.acknowledged = b[x].acknowledged
       /\ y.settled = b[x].settled /\ y.waiters = b[x].waiters
  <2>1. b[x] \in Barrier
    BY <1>7, <1>8
  <2> QED
    BY <1>11, <1>12, <1>14, <2>1 DEF Barrier
<1>16. bb \in [FlushCall -> Barrier] /\ bb[x] = y /\ \A z \in FlushCall : z # x => bb[z] = b[z]
  BY <1>7, <1>8, <1>13, <1>14, <1>15
<1>17. /\ \A z \in FlushCall : /\ bb[z].target = b[z].target /\ bb[z].done = b[z].done
                               /\ bb[z].acknowledged = b[z].acknowledged
                               /\ bb[z].settled = b[z].settled /\ bb[z].waiters = b[z].waiters
       /\ bb[x].baseFailed = base /\ bb[x].failedAtTarget = w.failed
  BY <1>15, <1>16
<1>18. ~b[x].done /\ ~b[x].acknowledged
  <2>1. ~b[x].done
    BY <1>1, <1>4, <1>5, <1>8 DEF Inv, Running
  <2> QED
    BY <1>5, <1>8, <2>1 DEF Inv, Waiting
<1>19. Known(operations, worker', w, flush, bb)
  <2>1. Known(operations, worker, w, flush, b)
    BY <1>5 DEF Inv
  <2> QED
    BY <1>1, <1>9, <1>17, <2>1 DEF Known
<1>20. \A i \in DOMAIN operations : IsFlush(operations[i]) =>
         operations[i].barrier \in FlushCall /\ operations[i].barrier # x
  <2>1. \A i \in DOMAIN operations : operations[i] \in Operation
    BY <1>7
  <2> QED
    BY <1>1, <2>1, OpFields DEF Inv, Queued
<1>21. Queued(operations, worker', bb)
  <2>1. Queued(operations, worker, b)
    BY <1>5 DEF Inv
  <2> QED
    BY <1>1, <1>9, <1>17, <1>20, <2>1 DEF Queued
<1>22. /\ \A s \in lost : s <= b[x].target
       /\ \A i \in DOMAIN operations :
            operations[i].kind = "write" => operations[i].seq > b[x].target
  BY <1>1, <1>5, <1>8 DEF Inv, Running
<1>23. Running(operations, worker', bb, lost)
  BY <1>8, <1>9, <1>17, <1>18, <1>22 DEF Running
<1>24. WorkList(worker, operations) = operations /\ WorkList(worker', operations) = operations
  BY <1>7, <1>8, <1>9, ConcatEmptySeq DEF WorkList
<1>25. Exact(operations, worker, b, lost) /\ w.failed = Cardinality(lost)
  BY <1>5, <1>24 DEF Inv, WorkInv
<1>26. bb[x].failedAtTarget = Cardinality({s \in lost : s <= bb[x].target})
  BY <1>7, <1>17, <1>8, <1>22, <1>25, LostCount
<1>27. Exact(operations, worker', bb, lost)
  <2> SUFFICES ASSUME NEW z \in FlushCall, Ran(worker', bb, z)
               PROVE  /\ \A i \in DOMAIN operations :
                           operations[i].kind = "write" => operations[i].seq > bb[z].target
                      /\ bb[z].failedAtTarget = Cardinality({s \in lost : s <= bb[z].target})
    BY DEF Exact
  <2>1. CASE z = x
    BY <1>8, <1>17, <1>22, <1>26, <2>1
  <2>2. CASE z # x
    <3>1. Ran(worker, b, z) /\ bb[z] = b[z]
      BY <1>9, <1>16, <1>17, <2>2 DEF Ran
    <3> QED
      BY <1>25, <3>1 DEF Exact
  <2> QED
    BY <2>1, <2>2
<1>28. Waiting(flush, bb)
  <2>1. Waiting(flush, b)
    BY <1>5 DEF Inv
  <2>2. \A z \in FlushCall : flush[z].pc = "completed" => flush[z].barrier \in FlushCall
    BY DEF Inv, Known, Idle
  <2> QED
    BY <1>17, <2>1, <2>2 DEF Waiting
<1>29. Told(w, bb, told)
  <2>1. Told(w, b, told)
    BY <1>5 DEF Inv
  <2>2. 1 .. base \subseteq told
    BY <1>3, <1>5, <1>8, <1>11, <2>1 DEF Told, Barriers
  <2>3. \A z \in FlushCall : 1 .. bb[z].baseFailed \subseteq told
    BY <1>16, <1>17, <2>1, <2>2 DEF Told
  <2>4. \A z \in FlushCall : bb[z].acknowledged => 1 .. bb[z].failedAtTarget \subseteq told
    BY <1>16, <1>17, <1>18, <2>1 DEF Told
  <2> QED
    BY <2>1, <2>3, <2>4 DEF Told
<1>30. Chain(operations, worker', w, bb)
  <2>1. Chain(operations, worker, w, b) /\ Latest(b, p)
    BY <1>1, <1>2, <1>4, <1>5 DEF Inv, Chain
  <2>2. \A i \in DOMAIN operations : IsFlush(operations[i]) =>
          bb[operations[i].barrier].predecessor = b[operations[i].barrier].predecessor
    BY <1>16, <1>20
  <2>3. worker'.pc # "flush" /\ worker'.barrier = worker.barrier /\ worker.barrier \in FlushCall
    BY <1>1, <1>8, <1>9
  <2> QED
    BY <2>1, <2>2, <2>3, ChainStep
<1>31. Ranges(worker', w, bb)
  <2>1. \A z \in FlushCall : bb[z].done => bb[z].failedAtTarget <= bb[x].failedAtTarget
    <3> SUFFICES ASSUME NEW z \in FlushCall, bb[z].done
                 PROVE  bb[z].failedAtTarget <= bb[x].failedAtTarget
      OBVIOUS
    <3>1. z # x /\ b[z].done /\ bb[z] = b[z]
      BY <1>16, <1>17, <1>18
    <3>2. b[z].failedAtTarget = Cardinality({s \in lost : s <= b[z].target})
      BY <1>25, <3>1 DEF Exact, Ran
    <3>3. Cardinality({s \in lost : s <= b[z].target}) <= Cardinality(lost)
      BY <1>7, LostCount
    <3> QED
      BY <1>17, <1>25, <3>1, <3>2, <3>3
  <2>2. \/ w.ackedFailures = 0
        \/ \E z \in FlushCall : bb[z].done /\ w.ackedFailures <= bb[z].failedAtTarget
    <3>1. CASE w.ackedFailures = 0
      BY <3>1
    <3>2. CASE w.ackedFailures # 0
      <4>1. PICK z \in FlushCall : b[z].done /\ w.ackedFailures <= b[z].failedAtTarget
        BY <1>5, <3>2 DEF Inv, Ranges
      <4>2. bb[z] = b[z]
        BY <1>16, <1>18, <4>1
      <4> QED
        BY <4>1, <4>2
    <3> QED
      BY <3>1, <3>2
  <2>3. ASSUME NoneGivenUp(bb), NEW z \in FlushCall, bb[z].done
        PROVE  bb[z].failedAtTarget <= bb[x].baseFailed
    <3>1. z # x /\ b[z].done /\ bb[z] = b[z]
      BY <1>16, <1>17, <1>18, <2>3
    <3>2. Latest(b, p)
      BY <1>1, <1>2, <1>4, <1>5 DEF Inv, Chain
    <3>3. p \in FlushCall
      BY <3>1, <3>2 DEF Latest
    <3>4. b[p].done /\ b[p].settled /\ b[z].failedAtTarget <= b[p].failedAtTarget
      BY <3>1, <3>2, <3>3 DEF Latest
    <3>5. b[p].acknowledged
      BY <1>17, <2>3, <3>3, <3>4 DEF NoneGivenUp
    <3>6. p # NoBarrier
      BY <3>3
    <3>7. /\ b[p].failedAtTarget \in Nat /\ b[z].failedAtTarget \in Nat /\ b[x].baseFailed \in Nat
      BY <1>7, <1>8, <3>3, BarrierFields
    <3>8. b[p].failedAtTarget <= base
      BY <1>3, <1>5, <3>5, <3>6, <3>7
    <3>9. b[z].failedAtTarget <= base
      BY <1>11, <3>4, <3>7, <3>8
    <3> QED
      BY <1>17, <3>1, <3>9
  <2> QED
    BY <1>9, <2>1, <2>2, <2>3 DEF Ranges
<1>32. WorkInv(operations, w, lost) /\ CapacityInv(operations, worker', w)
  BY <1>9, <1>24 DEF Inv, CapacityInv
<1>33. Types'
  BY <1>4, <1>6, <1>7, <1>10, <1>16 DEF Types
<1> QED
  BY <1>4, <1>6, <1>19, <1>21, <1>23, <1>24, <1>27, <1>28, <1>29, <1>30, <1>31, <1>32, <1>33
  DEF Inv

\* The backend flushed.
LEMMA FlushDoneInv ==
  ASSUME Inv, FlushDone
  PROVE  Inv'
<1>1. PICK x : x = worker.barrier
  OBVIOUS
<1>4. /\ worker.pc = "flushing" /\ barrier' = [barrier EXCEPT ![x].done = TRUE]
      /\ worker' = [worker EXCEPT !.pc = "acking"]
      /\ UNCHANGED <<operations, w, flush, lost, told>>
  BY <1>1, Zenon DEF FlushDone
<1>5. PICK b : b = barrier
  OBVIOUS
<1>6. PICK bb : bb = barrier'
  OBVIOUS
<1>7. /\ operations \in Seq(Operation) /\ w \in Counters /\ b \in [FlushCall -> Barrier]
      /\ WorkerOK(worker) /\ flush \in [FlushCall -> Calls] /\ lost \in SUBSET (1 .. MaxWrites)
  BY <1>5 DEF Inv, Types
<1>8. x \in FlushCall /\ worker \in WorkerType /\ worker.batch = <<>>
  BY <1>1, <1>4, <1>7 DEF WorkerOK, Flushing, Writing
<1>9. /\ worker' \in WorkerType /\ worker'.pc = "acking" /\ worker'.barrier = x
      /\ worker'.batch = worker.batch
  BY <1>1, <1>4, <1>8 DEF WorkerType, WorkerPC, Flushing
<1>10. WorkerOK(worker')
  BY <1>8, <1>9 DEF WorkerOK, Flushing
<1>15. /\ bb \in [FlushCall -> Barrier] /\ \A z \in FlushCall : z # x => bb[z] = b[z]
       /\ bb[x] = [b[x] EXCEPT !.done = TRUE]
  <2>1. b[x] \in Barrier
    BY <1>7, <1>8
  <2>2. [b[x] EXCEPT !.done = TRUE] \in Barrier
    BY <2>1 DEF Barrier
  <2> QED
    BY <1>4, <1>5, <1>6, <1>7, <1>8, <2>2
<1>16. /\ bb[x].done /\ bb[x].target = b[x].target /\ bb[x].baseFailed = b[x].baseFailed
       /\ bb[x].failedAtTarget = b[x].failedAtTarget /\ bb[x].predecessor = b[x].predecessor
       /\ bb[x].acknowledged = b[x].acknowledged
       /\ bb[x].settled = b[x].settled /\ bb[x].waiters = b[x].waiters
  BY <1>7, <1>8, <1>15 DEF Barrier
<1>17. \A z \in FlushCall : /\ bb[z].target = b[z].target /\ bb[z].done = (b[z].done \/ z = x)
                            /\ bb[z].baseFailed = b[z].baseFailed
                            /\ bb[z].failedAtTarget = b[z].failedAtTarget
                            /\ bb[z].predecessor = b[z].predecessor
                            /\ bb[z].acknowledged = b[z].acknowledged
                            /\ bb[z].settled = b[z].settled /\ bb[z].waiters = b[z].waiters
  <2>1. \A z \in FlushCall : b[z].done \in BOOLEAN
    BY <1>7, BarrierFields
  <2> QED
    BY <1>15, <1>16, <2>1
<1>19. Known(operations, worker', w, flush, bb)
  <2>1. Known(operations, worker, w, flush, b)
    BY <1>5 DEF Inv
  <2>2. ~Idle(flush, x)
    BY <1>1, <1>8, <2>1 DEF Known
  <2>3. \A z \in FlushCall : bb[z].done \/ bb[z].settled => ~Idle(flush, z)
    <3>1. \A z \in FlushCall : z # x => (bb[z].done \/ bb[z].settled => ~Idle(flush, z))
      BY <1>15, <2>1 DEF Known
    <3> QED
      BY <2>2, <3>1
  <2>4. \A z \in FlushCall : bb[z].target <= w.acceptedSeq
    BY <1>17, <2>1 DEF Known
  <2>5. worker'.barrier = worker.barrier
    BY <1>1, <1>9
  <2> QED
    BY <2>1, <2>3, <2>4, <2>5 DEF Known
<1>20. \A i \in DOMAIN operations : IsFlush(operations[i]) =>
         operations[i].barrier \in FlushCall /\ operations[i].barrier # x
  <2>1. \A i \in DOMAIN operations : operations[i] \in Operation
    BY <1>7
  <2> QED
    BY <1>1, <2>1, OpFields DEF Inv, Queued
<1>21. Queued(operations, worker', bb)
  <2>1. Queued(operations, worker, b)
    BY <1>5 DEF Inv
  <2> QED
    BY <1>1, <1>9, <1>17, <1>20, <2>1 DEF Queued
<1>23. Running(operations, worker', bb, lost)
  <2>1. Running(operations, worker, b, lost)
    BY <1>5 DEF Inv
  <2> QED
    BY <1>1, <1>8, <1>9, <1>16, <2>1 DEF Running
<1>24. WorkList(worker', operations) = WorkList(worker, operations)
  BY <1>9 DEF WorkList
<1>27. Exact(WorkList(worker, operations), worker', bb, lost)
  <2>1. Exact(WorkList(worker, operations), worker, b, lost)
    BY <1>5 DEF Inv
  <2>2. \A z \in FlushCall : Ran(worker', bb, z) => Ran(worker, b, z)
    BY <1>1, <1>4, <1>9, <1>17 DEF Ran
  <2> QED
    BY <1>17, <2>1, <2>2 DEF Exact
<1>28. Waiting(flush, bb)
  <2>1. Waiting(flush, b)
    BY <1>5 DEF Inv
  <2>2. \A z \in FlushCall : flush[z].pc = "completed" => flush[z].barrier \in FlushCall
    BY DEF Inv, Known, Idle
  <2> QED
    BY <1>17, <2>1, <2>2, ZenonT(40) DEF Waiting
<1>29. Told(w, bb, told)
  BY <1>5, <1>17 DEF Inv, Told
<1>30. Chain(operations, worker', w, bb)
  <2>1. Chain(operations, worker, w, b)
    BY <1>5 DEF Inv
  <2>2. \A i \in DOMAIN operations : IsFlush(operations[i]) =>
          bb[operations[i].barrier].predecessor = b[operations[i].barrier].predecessor
    BY <1>17, <1>20
  <2>3. worker'.pc # "flush" /\ worker'.barrier = worker.barrier /\ worker.barrier \in FlushCall
    BY <1>1, <1>8, <1>9
  <2> QED
    BY <2>1, <2>2, <2>3, ChainStep
<1>31. Ranges(worker', w, bb)
  <2>1. Ranges(worker, w, b)
    BY <1>5 DEF Inv
  <2>2. \A z \in FlushCall : bb[z].done => bb[z].failedAtTarget <= bb[x].failedAtTarget
    <3>1. b[x].failedAtTarget <= b[x].failedAtTarget
      BY <1>7, <1>8, BarrierFields
    <3> QED
      BY <1>1, <1>4, <1>8, <1>17, <2>1, <3>1, ZenonT(40) DEF Ranges
  <2>3. \/ w.ackedFailures = 0
        \/ \E z \in FlushCall : bb[z].done /\ w.ackedFailures <= bb[z].failedAtTarget
    BY <1>17, <2>1 DEF Ranges
  <2> QED
    BY <1>9, <2>2, <2>3 DEF Ranges
<1>32. WorkInv(WorkList(worker, operations), w, lost) /\ CapacityInv(operations, worker', w)
  BY <1>9 DEF Inv, CapacityInv
<1>33. Types'
  BY <1>4, <1>6, <1>7, <1>10, <1>15 DEF Types
<1> QED
  BY <1>4, <1>6, <1>19, <1>21, <1>23, <1>24, <1>27, <1>28, <1>29, <1>30, <1>31, <1>32, <1>33
  DEF Inv

\* The barrier's callers have returned.
LEMMA FlushAckedInv ==
  ASSUME Inv, FlushAcked
  PROVE  Inv'
<1>1. PICK x : x = worker.barrier
  OBVIOUS
<1>2. /\ worker.pc = "acking" /\ barrier[x].settled
      /\ worker' = [worker EXCEPT !.pc = "next", !.barrier = NoBarrier]
      /\ UNCHANGED <<operations, w, barrier, flush, lost, told>>
  BY <1>1, Zenon DEF FlushAcked
<1>3. /\ operations \in Seq(Operation) /\ barrier \in [FlushCall -> Barrier] /\ WorkerOK(worker)
  BY DEF Inv, Types
<1>4. x \in FlushCall /\ worker \in WorkerType /\ worker.batch = <<>>
  BY <1>1, <1>2, <1>3 DEF WorkerOK, Flushing, Writing
<1>5. /\ worker' \in WorkerType /\ worker'.pc = "next" /\ worker'.barrier = NoBarrier
      /\ worker'.batch = worker.batch
  BY <1>2, <1>4 DEF WorkerType, WorkerPC, Barriers
<1>6. WorkerOK(worker') /\ worker'.barrier \notin FlushCall
  BY <1>4, <1>5 DEF WorkerOK, Flushing
<1>7. \A i \in DOMAIN operations : IsFlush(operations[i]) => operations[i].barrier \in FlushCall
  <2>1. \A i \in DOMAIN operations : operations[i] \in Operation
    BY <1>3
  <2> QED
    BY <2>1, OpFields
<1>8. Known(operations, worker', w, flush, barrier) /\ Running(operations, worker', barrier, lost)
  BY <1>6 DEF Inv, Known, Running
<1>9. Queued(operations, worker', barrier)
  BY <1>5, <1>7 DEF Inv, Queued
<1>10. WorkList(worker', operations) = WorkList(worker, operations)
  BY <1>5 DEF WorkList
<1>11. Exact(WorkList(worker, operations), worker', barrier, lost)
  BY <1>5 DEF Inv, Exact, Ran
<1>12. Latest(barrier, x)
  <2>1. barrier[x].done
    BY <1>1, <1>2, <1>4 DEF Inv, Running
  <2>2. \A z \in FlushCall : barrier[z].done => barrier[z].failedAtTarget <= barrier[x].failedAtTarget
    BY <1>1, <1>2 DEF Inv, Ranges
  <2> QED
    BY <1>2, <1>4, <2>1, <2>2 DEF Latest
<1>13. \A p, i : Precedes(operations, worker, barrier, p, i)
                  => Precedes(operations, worker', barrier, p, i)
  BY <1>1, <1>4, <1>6, <1>12 DEF Precedes
<1>14. Chain(operations, worker', w, barrier)
  BY <1>5, <1>13 DEF Inv, Chain
<1>15. Ranges(worker', w, barrier)
  BY <1>5 DEF Inv, Ranges
<1>16. CapacityInv(operations, worker', w)
  BY <1>5 DEF Inv, CapacityInv
<1>17. Types'
  BY <1>2, <1>6 DEF Inv, Types
<1> QED
  BY <1>2, <1>8, <1>9, <1>10, <1>11, <1>14, <1>15, <1>16, <1>17 DEF Inv
-------------------------------------------------------------------------------
(* The Flush calls *)

\* What a caller may change of a barrier that exists.
SameRange(b, bb) ==
  \A z \in FlushCall : /\ bb[z].target = b[z].target /\ bb[z].done = b[z].done
                       /\ bb[z].baseFailed = b[z].baseFailed
                       /\ bb[z].failedAtTarget = b[z].failedAtTarget
                       /\ bb[z].predecessor = b[z].predecessor
                       /\ b[z].settled => bb[z].settled

\* It leaves the queue and the worker alone.
LEMMA SameRangeKeeps ==
  ASSUME NEW q \in Seq(Operation), NEW k, WorkerOK(k), NEW c, NEW e, NEW b, NEW bb, NEW l, NEW u,
         SameRange(b, bb), e.latestBarrier = c.latestBarrier,
         Queued(q, k, b), Running(q, k, b, l), Exact(u, k, b, l), Chain(q, k, c, b)
  PROVE  Queued(q, k, bb) /\ Running(q, k, bb, l) /\ Exact(u, k, bb, l) /\ Chain(q, k, e, bb)
<1>1. \A i \in DOMAIN q : IsFlush(q[i]) => q[i].barrier \in FlushCall
  <2>1. \A i \in DOMAIN q : q[i] \in Operation
    OBVIOUS
  <2> QED
    BY <2>1, OpFields
<1>2. Queued(q, k, bb)
  BY <1>1 DEF Queued, SameRange
<1>3. Running(q, k, bb, l)
  BY DEF Running, SameRange
<1>4. Exact(u, k, bb, l)
  BY ZenonT(40) DEF Exact, Ran, SameRange
<1>5. ASSUME NEW p, Latest(b, p) PROVE Latest(bb, p)
  <2>1. CASE p \notin FlushCall
    BY <1>5, <2>1 DEF Latest, SameRange
  <2>2. CASE p \in FlushCall
    BY <1>5, <2>2 DEF Latest, SameRange
  <2> QED
    BY <2>1, <2>2
<1>6. \A i \in DOMAIN q : IsFlush(q[i]) =>
         bb[q[i].barrier].predecessor = b[q[i].barrier].predecessor
  BY <1>1 DEF SameRange
<1>7. k.pc = "flush" => Latest(bb, bb[k.barrier].predecessor)
  <2>1. k.pc = "flush" => k.barrier \in FlushCall
    BY DEF WorkerOK, Flushing
  <2> QED
    BY <1>5, <2>1 DEF Chain, SameRange
<1>8. Chain(q, k, e, bb)
  BY <1>5, <1>6, <1>7, ChainStep
<1> QED
  BY <1>2, <1>3, <1>4, <1>8

\* The callers of a barrier.
LEMMA ActiveFacts ==
  ASSUME NEW f \in [FlushCall -> Calls], NEW g \in [FlushCall -> Calls], NEW d \in FlushCall,
         \A z \in FlushCall : z # d => g[z] = f[z]
  PROVE  \A x \in FlushCall :
           /\ Active(f, x) \ {d} = Active(g, x) \ {d}
           /\ d \notin Active(f, x) /\ d \notin Active(g, x) => Active(g, x) = Active(f, x)
           /\ d \in Active(f, x) /\ d \in Active(g, x) => Active(g, x) = Active(f, x)
           /\ d \notin Active(f, x) /\ d \in Active(g, x) => Active(g, x) = Active(f, x) \cup {d}
           /\ d \in Active(f, x) /\ d \notin Active(g, x) => Active(g, x) = Active(f, x) \ {d}
<1> SUFFICES ASSUME NEW x \in FlushCall
             PROVE  \A z \in FlushCall : z # d => (z \in Active(f, x) <=> z \in Active(g, x))
  BY DEF Active
<1> QED
  BY DEF Active

\* The select of Flush.
LEMMA FlushSelectsInv ==
  ASSUME Inv, NEW c \in FlushCall, FlushSelects(c)
  PROVE  Inv'
<1>1. /\ flush[c].pc = "waiting"
      /\ flush' = [flush EXCEPT ![c].pc =
                    IF barrier[flush[c].barrier].done THEN "completed" ELSE "cancelled"]
      /\ UNCHANGED <<operations, w, barrier, worker, lost, told>>
  BY Zenon DEF FlushSelects
<1>2. PICK f : f = flush
  OBVIOUS
<1>3. PICK g : g = flush'
  OBVIOUS
<1>4. f \in [FlushCall -> Calls] /\ f[c].pc = "waiting" /\ f[c].barrier \in Barriers
  <2>1. f \in [FlushCall -> Calls]
    BY <1>2 DEF Inv, Types
  <2> QED
    BY <1>1, <1>2, <2>1 DEF Calls
<1>5. PICK y \in {"completed", "cancelled"} :
        g = [f EXCEPT ![c].pc = y] /\ (y = "completed" => barrier[f[c].barrier].done)
  BY <1>1, <1>2, <1>3
<1>6. /\ g \in [FlushCall -> Calls] /\ \A z \in FlushCall : z # c => g[z] = f[z]
      /\ g[c].pc = y /\ g[c].barrier = f[c].barrier
  BY <1>4, <1>5 DEF Calls, FlushPC
<1>7. \A z \in FlushCall : (Idle(g, z) <=> Idle(f, z)) /\ g[z].barrier = f[z].barrier
  BY <1>4, <1>6 DEF Idle
<1>8. \A x \in FlushCall : Active(g, x) = Active(f, x)
  <2> SUFFICES ASSUME NEW x \in FlushCall
               PROVE  \A z \in FlushCall : z \in Active(f, x) <=> z \in Active(g, x)
    BY DEF Active
  <2> QED
    BY <1>4, <1>6 DEF Active
<1>9. Known(operations, worker, w, g, barrier)
  <2>1. Known(operations, worker, w, f, barrier)
    BY <1>2 DEF Inv
  <2>2. \A i \in DOMAIN operations : IsFlush(operations[i]) => operations[i].barrier \in FlushCall
    <3>1. \A i \in DOMAIN operations : operations[i] \in Operation
      BY DEF Inv, Types
    <3> QED
      BY <3>1, OpFields
  <2> QED
    BY <1>7, <2>1, <2>2 DEF Known
<1>10. Waiting(g, barrier)
  <2>1. Waiting(f, barrier)
    BY <1>2 DEF Inv
  <2>2. \A z \in FlushCall : g[z].pc = "completed" => barrier[g[z].barrier].done
    BY <1>5, <1>6, <2>1 DEF Waiting
  <2> QED
    BY <1>8, <2>1, <2>2 DEF Waiting
<1>11. Types'
  BY <1>1, <1>3, <1>6 DEF Inv, Types
<1> QED
  BY <1>1, <1>3, <1>9, <1>10, <1>11 DEF Inv

\* Flush joins the latest barrier.
LEMMA FlushJoinsInv ==
  ASSUME Inv, NEW c \in FlushCall, FlushJoins(c)
  PROVE  Inv'
<1>1. PICK y : y = w.latestBarrier
  OBVIOUS
<1>2. /\ flush[c].pc = "idle" /\ SharesBarrier
      /\ barrier' = [barrier EXCEPT ![y].waiters = @ + 1]
      /\ flush' = [flush EXCEPT ![c] = [pc |-> "waiting", barrier |-> y]]
      /\ UNCHANGED <<operations, w, worker, lost, told>>
  BY <1>1, Zenon DEF FlushJoins
<1>3. y # NoBarrier /\ ~barrier[y].settled
  BY <1>1, <1>2 DEF SharesBarrier
<1>4. PICK f : f = flush
  OBVIOUS
<1>5. PICK g : g = flush'
  OBVIOUS
<1>6. PICK b : b = barrier
  OBVIOUS
<1>7. PICK bb : bb = barrier'
  OBVIOUS
<1>8. /\ operations \in Seq(Operation) /\ w \in Counters /\ b \in [FlushCall -> Barrier]
      /\ WorkerOK(worker) /\ f \in [FlushCall -> Calls]
  BY <1>4, <1>6 DEF Inv, Types
<1>9. y \in FlushCall
  BY <1>1, <1>3, <1>8, CounterFields DEF Barriers
<1>10. /\ g \in [FlushCall -> Calls] /\ \A z \in FlushCall : z # c => g[z] = f[z]
       /\ g[c].pc = "waiting" /\ g[c].barrier = y
  BY <1>2, <1>4, <1>5, <1>8, <1>9 DEF Calls, FlushPC, Barriers
<1>11. /\ bb \in [FlushCall -> Barrier] /\ \A z \in FlushCall : z # y => bb[z] = b[z]
       /\ bb[y] = [b[y] EXCEPT !.waiters = @ + 1]
  <2>1. b[y] \in Barrier /\ b[y].waiters + 1 \in Nat
    BY <1>8, <1>9, BarrierFields
  <2>2. [b[y] EXCEPT !.waiters = @ + 1] \in Barrier
    BY <2>1 DEF Barrier
  <2> QED
    BY <1>2, <1>6, <1>7, <1>8, <1>9, <2>2
<1>12. /\ bb[y].target = b[y].target /\ bb[y].done = b[y].done
       /\ bb[y].baseFailed = b[y].baseFailed /\ bb[y].failedAtTarget = b[y].failedAtTarget
       /\ bb[y].predecessor = b[y].predecessor /\ bb[y].acknowledged = b[y].acknowledged
       /\ bb[y].settled = b[y].settled /\ bb[y].waiters = b[y].waiters + 1
  BY <1>8, <1>9, <1>11 DEF Barrier
<1>13. /\ SameRange(b, bb)
       /\ \A z \in FlushCall : bb[z].acknowledged = b[z].acknowledged /\ bb[z].settled = b[z].settled
  BY <1>11, <1>12 DEF SameRange
<1>14. \A z \in FlushCall : bb[z].target = b[z].target /\ bb[z].done = b[z].done
                            /\ bb[z].baseFailed = b[z].baseFailed
                            /\ bb[z].failedAtTarget = b[z].failedAtTarget
  BY <1>13 DEF SameRange
<1>15. Known(operations, worker, w, f, b) /\ Waiting(f, b)
  BY <1>4, <1>6 DEF Inv
<1>16. Idle(f, c) /\ ~Idle(f, y) /\ ~Idle(g, c) /\ \A z \in FlushCall : ~Idle(f, z) => ~Idle(g, z)
  BY <1>1, <1>2, <1>4, <1>9, <1>10, <1>15 DEF Idle, Known
<1>17. Known(operations, worker, w, g, bb)
  <2>1. \A i \in DOMAIN operations : IsFlush(operations[i]) => operations[i].barrier \in FlushCall
    <3>1. \A i \in DOMAIN operations : operations[i] \in Operation
      BY <1>8
    <3> QED
      BY <3>1, OpFields
  <2>2. \A z \in FlushCall : ~Idle(g, z) => g[z].barrier \in FlushCall /\ ~Idle(g, g[z].barrier)
    <3>1. ASSUME NEW z \in FlushCall, ~Idle(g, z), z # c
          PROVE  g[z].barrier \in FlushCall /\ ~Idle(g, g[z].barrier)
      <4>1. g[z] = f[z] /\ ~Idle(f, z)
        BY <1>10, <3>1 DEF Idle
      <4> QED
        BY <1>15, <1>16, <4>1 DEF Known
    <3>2. g[c].barrier \in FlushCall /\ ~Idle(g, g[c].barrier)
      BY <1>9, <1>10, <1>16
    <3> QED
      BY <3>1, <3>2
  <2>3. \A z \in FlushCall : (bb[z].done \/ bb[z].settled => ~Idle(g, z)) /\ bb[z].target <= w.acceptedSeq
    BY <1>13, <1>14, <1>15, <1>16 DEF Known
  <2> QED
    BY <1>15, <1>16, <2>1, <2>2, <2>3 DEF Known
<1>18. \A x \in FlushCall : c \notin Active(f, x) /\ (c \in Active(g, x) <=> x = y)
  BY <1>10, <1>16 DEF Active, Idle
<1>19. \A x \in FlushCall : (x # y => Active(g, x) = Active(f, x))
                            /\ (x = y => Active(g, x) = Active(f, x) \cup {c})
  BY <1>8, <1>10, <1>18, ActiveFacts
<1>20. Waiting(g, bb)
  <2>1. IsFiniteSet(Active(f, y)) /\ b[y].waiters = Cardinality(Active(f, y))
    BY <1>9, <1>15 DEF Waiting
  <2>2. /\ IsFiniteSet(Active(f, y) \cup {c})
        /\ Cardinality(Active(f, y) \cup {c}) = Cardinality(Active(f, y)) + 1
    BY <1>9, <1>18, <2>1, FS_AddElement
  <2>3. IsFiniteSet(Active(g, y)) /\ bb[y].waiters = Cardinality(Active(g, y))
    BY <1>9, <1>12, <1>19, <2>1, <2>2
  <2>4. \A x \in FlushCall : IsFiniteSet(Active(g, x)) /\ bb[x].waiters = Cardinality(Active(g, x))
    BY <1>11, <1>15, <1>19, <2>3 DEF Waiting
  <2>5. \A x \in FlushCall : bb[x].settled => Active(g, x) = {}
    BY <1>3, <1>6, <1>9, <1>13, <1>15, <1>19 DEF Waiting
  <2>6. \A x \in FlushCall : bb[x].acknowledged => bb[x].done
    BY <1>13, <1>14, <1>15 DEF Waiting
  <2>7. \A x \in FlushCall : g[x].pc = "completed" => bb[g[x].barrier].done
    <3> SUFFICES ASSUME NEW x \in FlushCall, g[x].pc = "completed" PROVE bb[g[x].barrier].done
      OBVIOUS
    <3>1. x # c /\ g[x] = f[x]
      BY <1>10
    <3>2. f[x].barrier \in FlushCall /\ b[f[x].barrier].done
      BY <1>15, <3>1 DEF Known, Idle, Waiting
    <3> QED
      BY <1>14, <3>1, <3>2
  <2> QED
    BY <2>4, <2>5, <2>6, <2>7 DEF Waiting
<1>21. /\ Queued(operations, worker, b) /\ Running(operations, worker, b, lost)
       /\ Exact(WorkList(worker, operations), worker, b, lost) /\ Chain(operations, worker, w, b)
       /\ Told(w, b, told) /\ Ranges(worker, w, b)
  BY <1>6 DEF Inv
<1>22. /\ Queued(operations, worker, bb) /\ Running(operations, worker, bb, lost)
       /\ Exact(WorkList(worker, operations), worker, bb, lost) /\ Chain(operations, worker, w, bb)
  BY <1>8, <1>13, <1>21, SameRangeKeeps
<1>23. Told(w, bb, told)
  BY <1>13, <1>14, <1>21 DEF Told
<1>24. Ranges(worker, w, bb)
  <2>1. worker.pc \in {"flushing", "acking"} => worker.barrier \in FlushCall
    BY <1>8 DEF WorkerOK, Flushing
  <2>2. NoneGivenUp(bb) => NoneGivenUp(b)
    BY <1>13 DEF NoneGivenUp
  <2> QED
    BY <1>14, <1>21, <2>1, <2>2 DEF Ranges
<1>25. Types'
  BY <1>2, <1>5, <1>7, <1>10, <1>11 DEF Inv, Types
<1> QED
  BY <1>2, <1>5, <1>7, <1>17, <1>20, <1>22, <1>23, <1>24, <1>25 DEF Inv
\* A Flush call returns.
LEMMA FlushReturnsInv ==
  ASSUME Inv, NEW c \in FlushCall, FlushReturns(c)
  PROVE  Inv'
<1>1. PICK f : f = flush
  OBVIOUS
<1>2. PICK g : g = flush'
  OBVIOUS
<1>3. PICK b : b = barrier
  OBVIOUS
<1>4. PICK bb : bb = barrier'
  OBVIOUS
<1>5. PICK y : y = f[c].barrier
  OBVIOUS
<1>6. PICK left : left = b[y].waiters - 1
  OBVIOUS
<1>7. PICK completed \in BOOLEAN : completed = (f[c].pc = "completed")
  OBVIOUS
<1>8. /\ f[c].pc \in {"completed", "cancelled"} /\ g = [f EXCEPT ![c].pc = "returned"]
      /\ bb = [b EXCEPT ![y].waiters = left, ![y].acknowledged = @ \/ completed,
                        ![y].settled = @ \/ left = 0]
      /\ w' = [w EXCEPT !.ackedFailures =
                 IF completed /\ b[y].failedAtTarget > @ THEN b[y].failedAtTarget ELSE @]
      /\ told' = told \cup (IF completed THEN b[y].baseFailed + 1 .. b[y].failedAtTarget ELSE {})
      /\ UNCHANGED <<operations, worker, lost>>
  BY <1>1, <1>2, <1>3, <1>4, <1>5, <1>6, <1>7, Zenon DEF FlushReturns
<1>9. /\ operations \in Seq(Operation) /\ w \in Counters /\ b \in [FlushCall -> Barrier]
      /\ WorkerOK(worker) /\ f \in [FlushCall -> Calls]
  BY <1>1, <1>3 DEF Inv, Types
<1>10. Known(operations, worker, w, f, b) /\ Waiting(f, b)
  BY <1>1, <1>3 DEF Inv
<1>11. ~Idle(f, c) /\ y \in FlushCall /\ ~Idle(f, y)
  BY <1>5, <1>8, <1>10 DEF Known, Idle
<1>12. /\ b[y].target \in Nat /\ b[y].baseFailed \in Nat /\ b[y].failedAtTarget \in Nat
       /\ b[y].done \in BOOLEAN /\ b[y].acknowledged \in BOOLEAN /\ b[y].settled \in BOOLEAN
       /\ b[y].waiters \in Nat
  BY <1>9, <1>11, BarrierFields
<1>13. c \in Active(f, y)
  BY <1>5, <1>8 DEF Active
<1>14. ~b[y].settled /\ IsFiniteSet(Active(f, y)) /\ b[y].waiters = Cardinality(Active(f, y))
  BY <1>10, <1>11, <1>13 DEF Waiting
<1>15. /\ IsFiniteSet(Active(f, y) \ {c}) /\ left = Cardinality(Active(f, y) \ {c})
       /\ left \in Nat /\ (left = 0 => Active(f, y) \ {c} = {})
  <2>1. /\ IsFiniteSet(Active(f, y) \ {c})
        /\ Cardinality(Active(f, y) \ {c}) = Cardinality(Active(f, y)) - 1
    BY <1>13, <1>14, FS_RemoveElement
  <2>2. Cardinality(Active(f, y) \ {c}) \in Nat
    BY <2>1, FS_CardinalityType
  <2>3. left = Cardinality(Active(f, y) \ {c})
    BY <1>6, <1>14, <2>1
  <2> QED
    BY <2>1, <2>2, <2>3, FS_EmptySet
<1>16. completed => b[y].done
  BY <1>5, <1>7, <1>10 DEF Waiting
<1>17. /\ g \in [FlushCall -> Calls] /\ \A z \in FlushCall : z # c => g[z] = f[z]
       /\ g[c].pc = "returned" /\ g[c].barrier = y
  BY <1>5, <1>8, <1>9 DEF Calls, FlushPC
<1>18. PICK v : v = [b[y] EXCEPT !.waiters = left, !.acknowledged = @ \/ completed,
                                 !.settled = @ \/ left = 0]
  OBVIOUS
<1>19. /\ v \in Barrier /\ v.target = b[y].target /\ v.done = b[y].done
       /\ v.baseFailed = b[y].baseFailed /\ v.failedAtTarget = b[y].failedAtTarget
       /\ v.predecessor = b[y].predecessor /\ v.acknowledged = (b[y].acknowledged \/ completed)
       /\ v.settled = (b[y].settled \/ left = 0) /\ v.waiters = left
  <2>1. b[y] \in Barrier
    BY <1>9, <1>11
  <2> QED
    BY <1>15, <1>18, <2>1 DEF Barrier
<1>20. bb \in [FlushCall -> Barrier] /\ bb[y] = v /\ \A z \in FlushCall : z # y => bb[z] = b[z]
  <2>1. bb = [b EXCEPT ![y] = v]
    BY <1>8, <1>18
  <2> QED
    BY <1>9, <1>11, <1>19, <2>1
<1>21. /\ SameRange(b, bb)
       /\ \A z \in FlushCall : bb[z].target = b[z].target /\ bb[z].done = b[z].done
                               /\ bb[z].baseFailed = b[z].baseFailed
                               /\ bb[z].failedAtTarget = b[z].failedAtTarget
  BY <1>14, <1>19, <1>20 DEF SameRange
<1>22. \A z \in FlushCall : (Idle(g, z) <=> Idle(f, z)) /\ g[z].barrier = f[z].barrier
  BY <1>5, <1>11, <1>17 DEF Idle
<1>23. PICK n : n = w'.ackedFailures
  OBVIOUS
<1>24. /\ w' \in Counters /\ w'.queuedWrites = w.queuedWrites /\ w'.pending = w.pending
       /\ w'.pendingBytes = w.pendingBytes /\ w'.acceptedSeq = w.acceptedSeq
       /\ w'.latestBarrier = w.latestBarrier /\ w'.failed = w.failed /\ w'.closeFrom = w.closeFrom
       /\ n = IF completed /\ b[y].failedAtTarget > w.ackedFailures
                THEN b[y].failedAtTarget ELSE w.ackedFailures
  BY <1>8, <1>9, <1>12, <1>23 DEF Counters
<1>25. Known(operations, worker, w', g, bb)
  <2>1. \A i \in DOMAIN operations : IsFlush(operations[i]) => operations[i].barrier \in FlushCall
    <3>1. \A i \in DOMAIN operations : operations[i] \in Operation
      BY <1>9
    <3> QED
      BY <3>1, OpFields
  <2>2. \A z \in FlushCall : (bb[z].done \/ bb[z].settled => ~Idle(g, z)) /\ bb[z].target <= w'.acceptedSeq
    <3>1. \A z \in FlushCall : bb[z].target <= w'.acceptedSeq
      BY <1>10, <1>21, <1>24 DEF Known
    <3>2. \A z \in FlushCall : z # y => (bb[z].done \/ bb[z].settled => ~Idle(g, z))
      BY <1>10, <1>20, <1>22 DEF Known
    <3> QED
      BY <1>11, <1>22, <3>1, <3>2
  <2>3. \A z \in FlushCall : ~Idle(g, z) => g[z].barrier \in FlushCall /\ ~Idle(g, g[z].barrier)
    BY <1>10, <1>22 DEF Known
  <2> QED
    BY <1>10, <1>22, <1>24, <2>1, <2>2, <2>3 DEF Known
<1>26. \A x \in FlushCall : c \notin Active(g, x) /\ (c \in Active(f, x) <=> x = y)
  BY <1>5, <1>13, <1>17 DEF Active
<1>27. \A x \in FlushCall : (x # y => Active(g, x) = Active(f, x))
                            /\ (x = y => Active(g, x) = Active(f, x) \ {c})
  BY <1>9, <1>17, <1>26, ActiveFacts
<1>28. Waiting(g, bb)
  <2>1. IsFiniteSet(Active(g, y)) /\ bb[y].waiters = Cardinality(Active(g, y))
    BY <1>11, <1>15, <1>19, <1>20, <1>27
  <2>2. \A x \in FlushCall : IsFiniteSet(Active(g, x)) /\ bb[x].waiters = Cardinality(Active(g, x))
    BY <1>10, <1>20, <1>27, <2>1 DEF Waiting
  <2>3. bb[y].settled => Active(g, y) = {}
    BY <1>11, <1>14, <1>15, <1>19, <1>20, <1>27
  <2>4. \A x \in FlushCall : bb[x].settled => Active(g, x) = {}
    BY <1>10, <1>20, <1>27, <2>3 DEF Waiting
  <2>5. bb[y].acknowledged => bb[y].done
    BY <1>10, <1>11, <1>16, <1>19, <1>20 DEF Waiting
  <2>6. \A x \in FlushCall : bb[x].acknowledged => bb[x].done
    BY <1>10, <1>20, <2>5 DEF Waiting
  <2>7. \A x \in FlushCall : g[x].pc = "completed" => bb[g[x].barrier].done
    <3> SUFFICES ASSUME NEW x \in FlushCall, g[x].pc = "completed" PROVE bb[g[x].barrier].done
      OBVIOUS
    <3>1. x # c /\ g[x] = f[x]
      BY <1>17
    <3>2. f[x].barrier \in FlushCall /\ b[f[x].barrier].done
      BY <1>10, <3>1 DEF Known, Idle, Waiting
    <3> QED
      BY <1>21, <3>1, <3>2
  <2> QED
    BY <2>2, <2>4, <2>6, <2>7 DEF Waiting
<1>29. /\ Queued(operations, worker, b) /\ Running(operations, worker, b, lost)
       /\ Exact(WorkList(worker, operations), worker, b, lost) /\ Chain(operations, worker, w, b)
       /\ Told(w, b, told) /\ Ranges(worker, w, b)
  BY <1>3 DEF Inv
<1>30. /\ Queued(operations, worker, bb) /\ Running(operations, worker, bb, lost)
       /\ Exact(WorkList(worker, operations), worker, bb, lost) /\ Chain(operations, worker, w', bb)
  BY <1>9, <1>21, <1>24, <1>29, SameRangeKeeps
<1>31. Told(w', bb, told')
  <2>1. told \subseteq told'
    BY <1>8
  <2>2. completed => 1 .. b[y].failedAtTarget \subseteq told'
    <3>1. 1 .. b[y].baseFailed \subseteq told
      BY <1>11, <1>29 DEF Told
    <3>2. completed => b[y].baseFailed + 1 .. b[y].failedAtTarget \subseteq told'
      BY <1>8
    <3>3. \A i \in 1 .. b[y].failedAtTarget :
            i \in 1 .. b[y].baseFailed \/ i \in b[y].baseFailed + 1 .. b[y].failedAtTarget
      BY <1>12
    <3> QED
      BY <2>1, <3>1, <3>2, <3>3
  <2>3. 1 .. n \subseteq told'
    BY <1>24, <1>29, <2>1, <2>2 DEF Told
  <2>4. 1 .. w'.closeFrom \subseteq told'
    BY <1>24, <1>29, <2>1 DEF Told
  <2>5. \A z \in FlushCall : 1 .. bb[z].baseFailed \subseteq told'
    BY <1>21, <1>29, <2>1 DEF Told
  <2>6. bb[y].acknowledged => 1 .. bb[y].failedAtTarget \subseteq told'
    BY <1>11, <1>19, <1>20, <1>29, <2>1, <2>2 DEF Told
  <2>7. \A z \in FlushCall : bb[z].acknowledged => 1 .. bb[z].failedAtTarget \subseteq told'
    BY <1>20, <1>29, <2>1, <2>6 DEF Told
  <2> QED
    BY <1>23, <2>3, <2>4, <2>5, <2>7 DEF Told
<1>32. Ranges(worker, w', bb)
  <2>1. worker.pc \in {"flushing", "acking"} => worker.barrier \in FlushCall
    BY <1>9 DEF WorkerOK, Flushing
  <2>2. NoneGivenUp(bb) => NoneGivenUp(b)
    BY <1>14, <1>20 DEF NoneGivenUp
  <2>3. \/ n = 0
        \/ \E z \in FlushCall : bb[z].done /\ n <= bb[z].failedAtTarget
    <3>1. CASE completed /\ b[y].failedAtTarget > w.ackedFailures
      <4>1. n = b[y].failedAtTarget /\ bb[y].done /\ bb[y].failedAtTarget = b[y].failedAtTarget
        BY <1>11, <1>16, <1>21, <1>24, <3>1
      <4> QED
        BY <1>11, <1>12, <4>1
    <3>2. CASE ~(completed /\ b[y].failedAtTarget > w.ackedFailures)
      <4>1. n = w.ackedFailures
        BY <1>24, <3>2
      <4> QED
        BY <1>21, <1>29, <4>1 DEF Ranges
    <3> QED
      BY <3>1, <3>2
  <2> QED
    BY <1>21, <1>23, <1>29, <2>1, <2>2, <2>3 DEF Ranges
<1>33. WorkInv(WorkList(worker, operations), w', lost) /\ CapacityInv(operations, worker, w')
  BY <1>24 DEF Inv, WorkInv, CapacityInv
<1>34. Types'
  BY <1>2, <1>4, <1>8, <1>17, <1>20, <1>24 DEF Inv, Types
<1> QED
  BY <1>2, <1>4, <1>8, <1>25, <1>28, <1>30, <1>31, <1>32, <1>33, <1>34 DEF Inv
\* Flush queues a barrier.
LEMMA FlushCreatesInv ==
  ASSUME Inv, NEW c \in FlushCall, FlushCreates(c)
  PROVE  Inv'
<1>1. PICK f : f = flush
  OBVIOUS
<1>2. PICK g : g = flush'
  OBVIOUS
<1>3. PICK b : b = barrier
  OBVIOUS
<1>4. PICK bb : bb = barrier'
  OBVIOUS
<1>5. PICK q : q = operations
  OBVIOUS
<1>6. PICK o : o = FlushOp(w.acceptedSeq, c)
  OBVIOUS
<1>7. PICK v : v = [NewBarrier(w.acceptedSeq, w.ackedFailures, w.latestBarrier) EXCEPT !.waiters = 1]
  OBVIOUS
<1>8. /\ f[c].pc = "idle" /\ bb = [b EXCEPT ![c] = v] /\ w' = [w EXCEPT !.latestBarrier = c]
      /\ operations' = Append(q, o) /\ g = [f EXCEPT ![c] = [pc |-> "waiting", barrier |-> c]]
      /\ UNCHANGED <<worker, lost, told>>
  BY <1>1, <1>2, <1>3, <1>4, <1>5, <1>6, <1>7, Zenon DEF FlushCreates
<1>9. /\ q \in Seq(Operation) /\ w \in Counters /\ b \in [FlushCall -> Barrier]
      /\ WorkerOK(worker) /\ f \in [FlushCall -> Calls] /\ lost \in SUBSET (1 .. MaxWrites)
  BY <1>1, <1>3, <1>5 DEF Inv, Types
<1>10. /\ w.acceptedSeq \in Seqs /\ w.acceptedSeq \in Nat /\ w.ackedFailures \in Nat
       /\ w.latestBarrier \in Barriers
  BY <1>9, CounterFields
<1>11. /\ o \in Operation /\ o.kind = "flush" /\ IsFlush(o) /\ o.seq = w.acceptedSeq
       /\ o.barrier = c /\ o.size = 0
  BY <1>6, <1>10 DEF FlushOp, Operation, FlushOps, IsFlush
<1>12. /\ v \in Barrier /\ v.target = w.acceptedSeq /\ v.baseFailed = w.ackedFailures
       /\ v.failedAtTarget = 0 /\ v.predecessor = w.latestBarrier /\ ~v.done /\ ~v.acknowledged
       /\ ~v.settled /\ v.waiters = 1
  BY <1>7, <1>10 DEF NewBarrier, Barrier
<1>13. bb \in [FlushCall -> Barrier] /\ bb[c] = v /\ \A z \in FlushCall : z # c => bb[z] = b[z]
  BY <1>8, <1>9, <1>12
<1>14. /\ g \in [FlushCall -> Calls] /\ \A z \in FlushCall : z # c => g[z] = f[z]
       /\ g[c].pc = "waiting" /\ g[c].barrier = c
  BY <1>8, <1>9 DEF Calls, FlushPC, Barriers
<1>15. /\ w' \in Counters /\ w'.queuedWrites = w.queuedWrites /\ w'.pending = w.pending
       /\ w'.pendingBytes = w.pendingBytes /\ w'.acceptedSeq = w.acceptedSeq
       /\ w'.latestBarrier = c /\ w'.failed = w.failed /\ w'.closeFrom = w.closeFrom
       /\ w'.ackedFailures = w.ackedFailures
  BY <1>8, <1>9 DEF Counters, Barriers
<1>16. /\ Known(q, worker, w, f, b) /\ Queued(q, worker, b) /\ Running(q, worker, b, lost)
       /\ Exact(WorkList(worker, q), worker, b, lost) /\ Waiting(f, b) /\ Told(w, b, told)
       /\ Chain(q, worker, w, b) /\ Ranges(worker, w, b) /\ WorkInv(WorkList(worker, q), w, lost)
       /\ CapacityInv(q, worker, w)
  BY <1>1, <1>3, <1>5 DEF Inv
<1>17. Idle(f, c) /\ ~Idle(g, c) /\ \A z \in FlushCall : z # c => (Idle(g, z) <=> Idle(f, z))
  BY <1>8, <1>14 DEF Idle
<1>18. ~b[c].done /\ ~b[c].settled /\ worker.barrier # c /\ w.latestBarrier # c
  BY <1>16, <1>17 DEF Known
<1>19. \A i \in DOMAIN q : IsFlush(q[i]) => /\ q[i].barrier \in FlushCall /\ q[i].barrier # c
                                            /\ ~Idle(f, q[i].barrier)
  <2>1. \A i \in DOMAIN q : q[i] \in Operation
    BY <1>9
  <2> QED
    BY <1>16, <1>17, <2>1, OpFields DEF Known
<1>20. PICK r : r = Append(q, o)
  OBVIOUS
<1>21. /\ Len(q) \in Nat /\ Len(r) = Len(q) + 1 /\ r \in Seq(Operation)
       /\ DOMAIN q = 1 .. Len(q) /\ DOMAIN r = 1 .. Len(q) + 1
       /\ \A i \in 1 .. Len(q) : r[i] = q[i]
       /\ r[Len(q) + 1] = o
       /\ \A i \in 1 .. Len(q) + 1 : i \in 1 .. Len(q) \/ i = Len(q) + 1
  BY <1>9, <1>11, <1>20, AppendElems
<1>22. \A i \in DOMAIN r : (i \in DOMAIN q /\ r[i] = q[i]) \/ (i = Len(q) + 1 /\ r[i] = o)
  BY <1>21
<1>23. Known(r, worker, w', g, bb)
  <2>1. \A i \in DOMAIN r : IsFlush(r[i]) => ~Idle(g, r[i].barrier)
    BY <1>11, <1>17, <1>19, <1>22
  <2>2. worker.barrier \in FlushCall => ~Idle(g, worker.barrier)
    BY <1>16, <1>17, <1>18 DEF Known
  <2>3. w'.latestBarrier \in FlushCall => ~Idle(g, w'.latestBarrier)
    BY <1>15, <1>17
  <2>4. \A z \in FlushCall : bb[z].done \/ bb[z].settled => ~Idle(g, z)
    BY <1>12, <1>13, <1>16, <1>17 DEF Known
  <2>5. \A z \in FlushCall : bb[z].target <= w'.acceptedSeq
    BY <1>10, <1>12, <1>13, <1>15, <1>16 DEF Known
  <2>6. \A z \in FlushCall : ~Idle(g, z) => g[z].barrier \in FlushCall /\ ~Idle(g, g[z].barrier)
    <3>1. ASSUME NEW z \in FlushCall, ~Idle(g, z), z # c
          PROVE  g[z].barrier \in FlushCall /\ ~Idle(g, g[z].barrier)
      <4>1. g[z] = f[z] /\ ~Idle(f, z)
        BY <1>14, <1>17, <3>1
      <4>2. f[z].barrier \in FlushCall /\ ~Idle(f, f[z].barrier)
        BY <1>16, <4>1 DEF Known
      <4> QED
        BY <1>17, <4>1, <4>2
    <3> QED
      BY <1>14, <1>17, <3>1
  <2> QED
    BY <2>1, <2>2, <2>3, <2>4, <2>5, <2>6 DEF Known
<1>24. Queued(r, worker, bb)
  <2> SUFFICES ASSUME NEW i \in DOMAIN r, IsFlush(r[i])
               PROVE  /\ ~bb[r[i].barrier].done /\ bb[r[i].barrier].target = r[i].seq
                      /\ r[i].barrier # worker.barrier
                      /\ \A j \in DOMAIN r : IsFlush(r[j]) /\ r[j].barrier = r[i].barrier => i = j
    BY DEF Queued
  <2>1. CASE i \in DOMAIN q /\ r[i] = q[i]
    <3>1. q[i].barrier \in FlushCall /\ q[i].barrier # c /\ bb[q[i].barrier] = b[q[i].barrier]
      BY <1>13, <1>19, <2>1
    <3>2. /\ ~b[q[i].barrier].done /\ b[q[i].barrier].target = q[i].seq
          /\ q[i].barrier # worker.barrier
          /\ \A j \in DOMAIN q : IsFlush(q[j]) /\ q[j].barrier = q[i].barrier => i = j
      BY <1>16, <2>1 DEF Queued
    <3>3. \A j \in DOMAIN r : IsFlush(r[j]) /\ r[j].barrier = r[i].barrier => i = j
      BY <1>11, <1>22, <2>1, <3>1, <3>2
    <3> QED
      BY <2>1, <3>1, <3>2, <3>3
  <2>2. CASE i = Len(q) + 1 /\ r[i] = o
    <3>1. \A j \in DOMAIN r : IsFlush(r[j]) /\ r[j].barrier = c => i = j
      BY <1>19, <1>22, <2>2
    <3> QED
      BY <1>11, <1>12, <1>13, <1>18, <2>2, <3>1
  <2> QED
    BY <1>22, <2>1, <2>2
<1>25. Running(r, worker, bb, lost)
  <2> SUFFICES ASSUME worker.barrier \in FlushCall
               PROVE  /\ bb[worker.barrier].done <=> worker.pc = "acking"
                      /\ \A s \in lost : s <= bb[worker.barrier].target
                      /\ \A i \in DOMAIN r : r[i].kind = "write" =>
                           r[i].seq > bb[worker.barrier].target
    BY DEF Running
  <2>1. bb[worker.barrier] = b[worker.barrier]
    BY <1>13, <1>18
  <2> QED
    BY <1>11, <1>16, <1>22, <2>1 DEF Running
<1>26. PICK u : u = WorkList(worker, q)
  OBVIOUS
<1>27. worker.batch \in Seq(Operation)
  BY <1>9 DEF WorkerOK, WorkerType, Operation
<1>28. u \in Seq(Operation)
  BY <1>9, <1>26, <1>27, ConcatFacts DEF WorkList
<1>29. WorkList(worker, r) = Append(u, o)
  BY <1>9, <1>11, <1>20, <1>26, <1>27, AppendWorkList DEF WorkList
<1>30. PICK x : x = Append(u, o)
  OBVIOUS
<1>31. /\ DOMAIN u = 1 .. Len(u) /\ DOMAIN x = 1 .. Len(u) + 1
       /\ \A i \in 1 .. Len(u) : x[i] = u[i]
       /\ x[Len(u) + 1] = o
       /\ \A i \in 1 .. Len(u) + 1 : i \in 1 .. Len(u) \/ i = Len(u) + 1
  BY <1>11, <1>28, <1>30, AppendElems
<1>32. \A i \in DOMAIN x : x[i].kind = "write" => i \in DOMAIN u /\ x[i] = u[i]
  BY <1>11, <1>31
<1>33. Exact(x, worker, bb, lost)
  <2> SUFFICES ASSUME NEW z \in FlushCall, Ran(worker, bb, z)
               PROVE  /\ \A i \in DOMAIN x : x[i].kind = "write" => x[i].seq > bb[z].target
                      /\ bb[z].failedAtTarget = Cardinality({s \in lost : s <= bb[z].target})
    BY DEF Exact
  <2>1. z # c
    BY <1>12, <1>13, <1>18 DEF Ran
  <2>2. bb[z] = b[z] /\ Ran(worker, b, z)
    BY <1>13, <2>1 DEF Ran
  <2>3. Exact(u, worker, b, lost)
    BY <1>16, <1>26
  <2> QED
    BY <1>32, <2>2, <2>3 DEF Exact
<1>34. WorkInv(x, w', lost)
  <2>1. WorkInv(u, w, lost)
    BY <1>16, <1>26
  <2>2. Before(w.acceptedSeq, o) /\ o.seq <= w'.acceptedSeq /\ w.acceptedSeq <= w'.acceptedSeq
    BY <1>10, <1>11, <1>15 DEF Before
  <2>3. WorkInv(Append(u, o), w', lost)
    BY <1>9, <1>11, <1>15, <1>28, <2>1, <2>2, AppendWork
  <2> QED
    BY <1>30, <2>3
<1>35. CapacityInv(r, worker, w')
  <2>1. /\ Bytes(r) = Bytes(q) + o.size /\ Bytes(q) \in Nat /\ Cardinality(Writes(q)) \in Nat
        /\ Cardinality(Writes(r)) = Cardinality(Writes(q)) + (IF o.kind = "write" THEN 1 ELSE 0)
    BY <1>9, <1>11, <1>20, AppendCounts
  <2>2. Bytes(r) = Bytes(q) /\ Cardinality(Writes(r)) = Cardinality(Writes(q))
    BY <1>11, <2>1
  <2> QED
    BY <1>15, <1>16, <2>2 DEF CapacityInv
<1>36. Waiting(g, bb)
  <2>1. Active(f, c) = {}
    BY <1>16, <1>17 DEF Known, Active, Idle
  <2>2. \A z \in FlushCall : c \notin Active(f, z) /\ (c \in Active(g, z) <=> z = c)
    BY <1>14, <1>17 DEF Active, Idle
  <2>3. \A z \in FlushCall : (z # c => Active(g, z) = Active(f, z))
                             /\ (z = c => Active(g, z) = Active(f, z) \cup {c})
    BY <1>9, <1>14, <2>2, ActiveFacts
  <2>4. Active(g, c) = {c}
    BY <2>1, <2>3
  <2>5. IsFiniteSet({c}) /\ Cardinality({c}) = 1
    BY FS_Singleton
  <2>6. \A z \in FlushCall : IsFiniteSet(Active(g, z)) /\ bb[z].waiters = Cardinality(Active(g, z))
    BY <1>12, <1>13, <1>16, <2>3, <2>4, <2>5, ZenonT(40) DEF Waiting
  <2>7. \A z \in FlushCall : bb[z].settled => Active(g, z) = {}
    BY <1>12, <1>13, <1>16, <2>3 DEF Waiting
  <2>8. \A z \in FlushCall : bb[z].acknowledged => bb[z].done
    BY <1>12, <1>13, <1>16 DEF Waiting
  <2>9. \A z \in FlushCall : g[z].pc = "completed" => bb[g[z].barrier].done
    <3> SUFFICES ASSUME NEW z \in FlushCall, g[z].pc = "completed" PROVE bb[g[z].barrier].done
      OBVIOUS
    <3>1. z # c /\ g[z] = f[z]
      BY <1>14
    <3>2. f[z].barrier \in FlushCall /\ b[f[z].barrier].done
      BY <1>16, <3>1 DEF Known, Idle, Waiting
    <3>3. f[z].barrier # c
      BY <1>18, <3>2
    <3> QED
      BY <1>13, <3>1, <3>2, <3>3
  <2> QED
    BY <2>6, <2>7, <2>8, <2>9 DEF Waiting
<1>37. Told(w', bb, told)
  <2>1. \A z \in FlushCall : 1 .. bb[z].baseFailed \subseteq told
    BY <1>12, <1>13, <1>16 DEF Told
  <2>2. \A z \in FlushCall : bb[z].acknowledged => 1 .. bb[z].failedAtTarget \subseteq told
    BY <1>12, <1>13, <1>16 DEF Told
  <2> QED
    BY <1>15, <1>16, <2>1, <2>2 DEF Told
<1>38. ASSUME NEW p, Latest(b, p) PROVE Latest(bb, p)
  <2>1. \A z \in FlushCall : bb[z].done => b[z].done /\ bb[z] = b[z]
    BY <1>12, <1>13
  <2>2. CASE p \notin FlushCall
    BY <1>38, <2>1, <2>2 DEF Latest
  <2>3. CASE p \in FlushCall
    <3>1. b[p].done /\ bb[p] = b[p]
      BY <1>13, <1>18, <1>38, <2>3 DEF Latest
    <3> QED
      BY <1>38, <2>1, <2>3, <3>1 DEF Latest
  <2> QED
    BY <2>2, <2>3
<1>39. Chain(r, worker, w', bb)
  <2>1. ASSUME NEW p, NEW i \in 1 .. Len(q) + 1, Precedes(q, worker, b, p, i)
        PROVE  Precedes(r, worker, bb, p, i)
    <3>1. Precedes(q, worker, bb, p, i)
      BY <1>38, <2>1 DEF Precedes
    <3>2. i \in Nat /\ \A j \in 1 .. i - 1 : r[j] = q[j]
      BY <1>21
    <3> QED
      BY <3>1, <3>2, PrecedesPrefix
  <2>2. Precedes(r, worker, bb, c, Len(r) + 1)
    <3>1. Len(q) + 1 \in 1 .. (Len(r) + 1) - 1
      BY <1>21
    <3>2. \A h \in (Len(q) + 1) + 1 .. (Len(r) + 1) - 1 : FALSE
      BY <1>21
    <3> QED
      BY <1>11, <1>21, <3>1, <3>2 DEF Precedes
  <2>3. ASSUME NEW i \in DOMAIN r, IsFlush(r[i])
        PROVE  Precedes(r, worker, bb, bb[r[i].barrier].predecessor, i)
    <3>1. CASE i \in DOMAIN q /\ r[i] = q[i]
      <4>1. bb[r[i].barrier] = b[q[i].barrier]
        BY <1>13, <1>19, <2>3, <3>1
      <4>2. Precedes(q, worker, b, b[q[i].barrier].predecessor, i)
        BY <1>16, <2>3, <3>1 DEF Chain
      <4> QED
        BY <1>21, <2>1, <4>1, <4>2
    <3>2. CASE i = Len(q) + 1 /\ r[i] = o
      <4>1. bb[r[i].barrier].predecessor = w.latestBarrier
        BY <1>11, <1>12, <1>13, <3>2
      <4>2. Precedes(q, worker, b, w.latestBarrier, i)
        BY <1>16, <3>2 DEF Chain
      <4> QED
        BY <1>21, <2>1, <4>1, <4>2
    <3> QED
      BY <1>22, <3>1, <3>2
  <2>4. worker.pc = "flush" => Latest(bb, bb[worker.barrier].predecessor)
    <3>1. worker.pc = "flush" => worker.barrier \in FlushCall /\ bb[worker.barrier] = b[worker.barrier]
      BY <1>9, <1>13, <1>18 DEF WorkerOK, Flushing
    <3> QED
      BY <1>16, <1>38, <3>1 DEF Chain
  <2> QED
    BY <1>15, <2>2, <2>3, <2>4 DEF Chain
<1>40. Ranges(worker, w', bb)
  <2>1. worker.pc \in {"flushing", "acking"} => bb[worker.barrier] = b[worker.barrier]
    BY <1>9, <1>13, <1>18 DEF WorkerOK, Flushing
  <2>2. NoneGivenUp(bb) => NoneGivenUp(b)
    BY <1>13, <1>18 DEF NoneGivenUp
  <2>3. \A z \in FlushCall : bb[z].done => b[z].done /\ bb[z] = b[z]
    BY <1>12, <1>13
  <2>4. \A z \in FlushCall : b[z].done => bb[z] = b[z]
    BY <1>13, <1>18
  <2>5. \/ w'.ackedFailures = 0
        \/ \E z \in FlushCall : bb[z].done /\ w'.ackedFailures <= bb[z].failedAtTarget
    BY <1>15, <1>16, <2>4 DEF Ranges
  <2>6. worker.pc \in {"flushing", "acking"} =>
          \A z \in FlushCall : bb[z].done => bb[z].failedAtTarget <= bb[worker.barrier].failedAtTarget
    BY <1>16, <2>1, <2>3 DEF Ranges
  <2>7. worker.pc = "flushing" /\ NoneGivenUp(bb) =>
          \A z \in FlushCall : bb[z].done => bb[z].failedAtTarget <= bb[worker.barrier].baseFailed
    BY <1>16, <2>1, <2>2, <2>3 DEF Ranges
  <2> QED
    BY <2>5, <2>6, <2>7 DEF Ranges
<1>41. operations' = r
  BY <1>8, <1>20
<1>42. Types'
  BY <1>2, <1>4, <1>8, <1>13, <1>14, <1>15, <1>21, <1>41 DEF Inv, Types
<1>43. WorkList(worker, r) = x
  BY <1>29, <1>30
<1> QED
  BY <1>2, <1>4, <1>8, <1>23, <1>24, <1>25, <1>33, <1>34, <1>35, <1>36, <1>37, <1>39, <1>40,
     <1>41, <1>42, <1>43 DEF Inv
-------------------------------------------------------------------------------
(* The invariant *)

\* The writer starts with the invariant.
LEMMA InvInit ==
  ASSUME Init
  PROVE  Inv
<1>1. /\ operations = <<>> /\ worker = [pc |-> "next", batch |-> <<>>, barrier |-> NoBarrier]
      /\ barrier = [c \in FlushCall |-> NewBarrier(0, 0, NoBarrier)]
      /\ flush = [c \in FlushCall |-> [pc |-> "idle", barrier |-> NoBarrier]]
      /\ lost = {} /\ told = {}
  BY Zenon DEF Init
<1>2. w = [queuedWrites |-> 0, pending |-> 0, pendingBytes |-> 0, acceptedSeq |-> 0,
           latestBarrier |-> NoBarrier, ackedFailures |-> 0, failed |-> 0,
           closing |-> FALSE, cancelled |-> FALSE, closeFinished |-> FALSE, closeFrom |-> 0]
  BY Zenon DEF Init
<1>3. NoBarrier \in Barriers /\ 0 \in Seqs /\ NoBarrier \notin FlushCall
  BY DEF Barriers, Seqs
<1>4. /\ w \in Counters /\ w.queuedWrites = 0 /\ w.pending = 0 /\ w.pendingBytes = 0
      /\ w.acceptedSeq = 0 /\ w.latestBarrier = NoBarrier /\ w.ackedFailures = 0
      /\ w.failed = 0 /\ w.closeFrom = 0
  BY <1>2, <1>3 DEF Counters
<1>5. /\ barrier \in [FlushCall -> Barrier]
      /\ \A x \in FlushCall : /\ ~barrier[x].done /\ ~barrier[x].settled /\ ~barrier[x].acknowledged
                              /\ barrier[x].target = 0 /\ barrier[x].waiters = 0
                              /\ barrier[x].baseFailed = 0
  BY <1>1, <1>3 DEF NewBarrier, Barrier
<1>6. /\ flush \in [FlushCall -> Calls]
      /\ \A x \in FlushCall : flush[x].pc = "idle"
  BY <1>1, <1>3 DEF Calls, FlushPC
<1>7. worker.pc = "next" /\ worker.batch = <<>> /\ worker.barrier = NoBarrier
  BY <1>1
<1>8. WorkerOK(worker)
  <2>1. worker \in WorkerType
    BY <1>1, <1>3 DEF WorkerType, WorkerPC
  <2> QED
    BY <1>3, <1>7, <2>1 DEF WorkerOK, Flushing
<1>9. Types
  BY <1>1, <1>4, <1>5, <1>6, <1>8 DEF Types
<1>10. WorkList(worker, operations) = <<>>
  BY <1>1, <1>7 DEF WorkList
<1>11. WorkInv(<<>>, w, lost)
  BY <1>1, <1>4, FS_EmptySet DEF WorkInv, Ordered
<1>12. CapacityInv(operations, worker, w)
  <2>1. CloseOp(0) \in Operation
    BY <1>3 DEF CloseOp, Operation, CloseOps
  <2>2. Bytes(<<>>) = 0
    BY <2>1, BytesOne
  <2>3. Writes(<<>>) = {}
    BY DEF Writes
  <2>4. Bytes(operations) = 0 /\ Bytes(worker.batch) = 0 /\ Len(worker.batch) = 0
    BY <1>1, <1>7, <2>2
  <2>5. Cardinality(Writes(operations)) = 0
    BY <1>1, <2>3, FS_EmptySet
  <2>6. 0 <= QueueSize /\ 0 <= QueueBytes /\ 0 = 0 + 0
    OBVIOUS
  <2> QED
    BY <1>4, <2>4, <2>5, <2>6 DEF CapacityInv
<1>13. Known(operations, worker, w, flush, barrier)
  BY <1>1, <1>3, <1>4, <1>5, <1>6, <1>7 DEF Known, Idle
<1>14. Queued(operations, worker, barrier) /\ Running(operations, worker, barrier, lost)
  BY <1>1, <1>3, <1>7 DEF Queued, Running
<1>15. Exact(<<>>, worker, barrier, lost)
  BY <1>5, <1>7 DEF Exact, Ran
<1>16. Waiting(flush, barrier)
  <2>1. \A x \in FlushCall : Active(flush, x) = {}
    BY <1>6 DEF Active
  <2> QED
    BY <1>5, <1>6, <2>1, FS_EmptySet DEF Waiting
<1>17. Told(w, barrier, told)
  BY <1>1, <1>4, <1>5 DEF Told
<1>18. Chain(operations, worker, w, barrier)
  <2>1. Latest(barrier, NoBarrier)
    BY <1>3, <1>5 DEF Latest
  <2>2. Precedes(operations, worker, barrier, NoBarrier, 1)
    BY <1>3, <1>7, <2>1 DEF Precedes
  <2>3. Len(operations) + 1 = 1
    BY <1>1
  <2> QED
    BY <1>1, <1>4, <1>7, <2>2, <2>3 DEF Chain
<1>19. Ranges(worker, w, barrier)
  BY <1>4, <1>7 DEF Ranges
<1> QED
  BY <1>9, <1>10, <1>11, <1>12, <1>13, <1>14, <1>15, <1>16, <1>17, <1>18, <1>19 DEF Inv

\* Every step keeps it.
LEMMA InvNext ==
  ASSUME Inv, [Next]_vars
  PROVE  Inv'
<1>1. CASE UNCHANGED vars
  BY <1>1 DEF vars, Inv, Types
<1>2. CASE Next
  <2>1. ASSUME NEW size \in Size, Write(size) PROVE Inv'
    BY <2>1, WriteInv
  <2>2. ASSUME NEW c \in FlushCall, FlushCreates(c) \/ FlushJoins(c) \/ FlushSelects(c) \/ FlushReturns(c)
        PROVE  Inv'
    BY <2>2, FlushCreatesInv, FlushJoinsInv, FlushSelectsInv, FlushReturnsInv
  <2>3. ASSUME NEW c \in CloseCall, Close(c) \/ CloseReturns(c) \/ CloseTimesOut(c)
        PROVE  Inv'
    BY <2>3, CloseInv, CloseReturnsInv, CloseTimesOutInv
  <2>4. ASSUME NEW ok \in BOOLEAN, FinishWriteBatch(ok) PROVE Inv'
    BY <2>4, FinishWriteBatchInv
  <2>5. ASSUME Worker PROVE Inv'
    BY <2>4, <2>5, NextOperationInv, TakeWriteBatchInv, RunFlushInv, FlushDoneInv,
       FlushAckedInv, RunCloseInv, WorkerEndsInv DEF Worker
  <2> QED
    BY <1>2, <2>1, <2>2, <2>3, <2>5 DEF Next
<1> QED
  BY <1>1, <1>2

\* The invariant holds in every state.
THEOREM AsyncLogInv == Spec => []Inv
<1>1. Init => Inv
  BY InvInit
<1>2. Inv /\ [Next]_vars => Inv'
  BY InvNext
<1> QED
  BY <1>1, <1>2, PTL DEF Spec

-------------------------------------------------------------------------------
(* What the runs check *)

\* Every variable holds what the code's types allow.
THEOREM AsyncLogTyped == Spec => []TypeOK
<1>1. ASSUME Inv PROVE TypeOK
  <2>1. /\ operations \in Seq(Operation) /\ w \in Counters /\ barrier \in [FlushCall -> Barrier]
        /\ worker \in WorkerType /\ flush \in [FlushCall -> Calls]
    BY <1>1 DEF Inv, Types, WorkerOK
  <2>2. \A i \in DOMAIN operations : OpOK(operations[i])
    <3>1. \A i \in DOMAIN operations : operations[i] \in Operation
      BY <2>1
    <3> QED
      BY <3>1, OpFields DEF OpOK, Seqs
  <2>3. \A f \in {"queuedWrites", "pending", "pendingBytes", "acceptedSeq",
                  "ackedFailures", "failed", "closeFrom"} : w[f] \in Nat
    BY <2>1 DEF Counters, Seqs
  <2>4. /\ {w.closing, w.cancelled, w.closeFinished} \subseteq BOOLEAN
        /\ w.latestBarrier \in FlushCall \cup {NoBarrier}
    BY <2>1, CounterFields DEF Barriers
  <2>5. \A c \in FlushCall :
          /\ barrier[c].waiters \in Nat /\ barrier[c].target \in 0 .. MaxWrites
          /\ barrier[c].predecessor \in FlushCall \cup {NoBarrier}
          /\ flush[c].pc \in {"idle", "waiting", "completed", "cancelled", "returned"}
    BY <2>1 DEF Barrier, Seqs, Barriers, Calls, FlushPC
  <2>6. worker.pc \in {"next", "write", "writing", "failing", "flush", "flushing",
                       "acking", "close", "closed", "done"}
    BY <2>1 DEF WorkerType, WorkerPC, Writing, Flushing
  <2> QED
    BY <2>2, <2>3, <2>4, <2>5, <2>6 DEF TypeOK
<1> QED
  BY <1>1, AsyncLogInv, PTL

\* The counters that admit a Write are exact, for any sequence of writes, batches
\* and failures: Write's admission test is the one of the true queue.
THEOREM CapacityIsExactThm == Spec => []CapacityIsExact
<1>1. ASSUME Inv PROVE CapacityIsExact
  BY <1>1 DEF Inv, CapacityInv, CapacityIsExact, Writes
<1> QED
  BY <1>1, AsyncLogInv, PTL

\* A barrier is answered when every write accepted before it has been tried, and
\* counts exactly the failures of those writes.
THEOREM BarrierIsExactThm == Spec => []BarrierIsExact
<1>1. ASSUME Inv PROVE BarrierIsExact
  <2> SUFFICES ASSUME NEW c \in FlushCall, barrier[c].done
               PROVE  /\ \A i \in DOMAIN operations :
                           operations[i].kind = "write" => operations[i].seq > barrier[c].target
                      /\ barrier[c].failedAtTarget = Cardinality({s \in lost : s <= barrier[c].target})
    BY DEF BarrierIsExact
  <2>1. PICK u : u = WorkList(worker, operations)
    OBVIOUS
  <2>2. /\ \A i \in DOMAIN u : u[i].kind = "write" => u[i].seq > barrier[c].target
        /\ barrier[c].failedAtTarget = Cardinality({s \in lost : s <= barrier[c].target})
    BY <1>1, <2>1 DEF Inv, Exact, Ran
  <2>3. operations \in Seq(Operation) /\ worker.batch \in Seq(Operation)
    BY <1>1 DEF Inv, Types, WorkerOK, WorkerType, Operation
  <2>4. PICK m : m = Len(worker.batch)
    OBVIOUS
  <2>5. \A i \in DOMAIN operations : m + i \in DOMAIN u /\ u[m + i] = operations[i]
    BY <2>1, <2>3, <2>4, ConcatFacts DEF WorkList
  <2> QED
    BY <2>2, <2>5
<1> QED
  BY <1>1, AsyncLogInv, PTL

\* No failure is lost: one that counts as acknowledged was returned to a Flush call
\* that completed, and every other one is in the error of Close.
THEOREM FailuresAreReportedThm == Spec => []FailuresAreReported
<1>1. ASSUME Inv PROVE FailuresAreReported
  <2>1. w.failed = Cardinality(lost)
    BY <1>1 DEF Inv, WorkInv
  <2>2. 1 .. w.ackedFailures \subseteq told /\ 1 .. w.closeFrom \subseteq told
    BY <1>1 DEF Inv, Told
  <2>3. w.failed \in Nat /\ w.closeFrom \in Nat
    BY <1>1, CounterFields DEF Inv, Types
  <2>4. \A i \in 1 .. w.failed : i \in 1 .. w.closeFrom \/ i \in w.closeFrom + 1 .. w.failed
    BY <2>3
  <2> QED
    BY <2>1, <2>2, <2>4 DEF FailuresAreReported
<1> QED
  BY <1>1, AsyncLogInv, PTL

\* A barrier does not report what the callers of the one before it have acknowledged,
\* unless a barrier was given up by all its callers.
THEOREM AcknowledgedIsNotRepeatedThm == Spec => []AcknowledgedIsNotRepeated
<1>1. ASSUME Inv PROVE AcknowledgedIsNotRepeated
  <2> SUFFICES ASSUME worker.pc = "flushing",
                      \A c \in FlushCall : barrier[c].settled => barrier[c].acknowledged
               PROVE  barrier[worker.barrier].baseFailed >= w.ackedFailures
    BY DEF AcknowledgedIsNotRepeated
  <2>1. PICK x : x = worker.barrier
    OBVIOUS
  <2>2. barrier \in [FlushCall -> Barrier] /\ w \in Counters /\ x \in FlushCall
    BY <1>1, <2>1 DEF Inv, Types, WorkerOK, Flushing
  <2>3. \A z \in FlushCall : barrier[z].done => barrier[z].failedAtTarget <= barrier[x].baseFailed
    BY <1>1, <2>1 DEF Inv, Ranges, NoneGivenUp
  <2>4. barrier[x].baseFailed \in Nat /\ w.ackedFailures \in Nat
    BY <2>2, BarrierFields, CounterFields
  <2>5. CASE w.ackedFailures = 0
    BY <2>1, <2>4, <2>5
  <2>6. CASE w.ackedFailures # 0
    <3>1. PICK z \in FlushCall : barrier[z].done /\ w.ackedFailures <= barrier[z].failedAtTarget
      BY <1>1, <2>6 DEF Inv, Ranges
    <3>2. barrier[z].failedAtTarget \in Nat /\ barrier[z].failedAtTarget <= barrier[x].baseFailed
      BY <2>2, <2>3, <3>1, BarrierFields
    <3> QED
      BY <2>1, <2>4, <3>1, <3>2
  <2> QED
    BY <2>5, <2>6
<1> QED
  BY <1>1, AsyncLogInv, PTL

=============================================================================
