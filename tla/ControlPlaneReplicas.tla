------------------------ MODULE ControlPlaneReplicas ------------------------
(***************************************************************************)
(* Proofs about the composed control plane, for any number of nodes,       *)
(* terms, epochs, revisions, nonces, payloads and crashes.                 *)
(*                                                                         *)
(* The argument is about the raft log.  The epoch a replica is in is the   *)
(* number of terms whose leadership is in the log up to its own term, and  *)
(* the commits in the log carry strictly increasing revisions and ledgers  *)
(* that extend one another.  What a replica, PostgreSQL, a call or         *)
(* Bootstrap holds is then compared with the log instead of with each      *)
(* other.                                                                  *)
(***************************************************************************)
EXTENDS ControlPlaneTypes

IsLead(e) == e.kind = "lead"
IsCommit(e) == e.kind = "commit"

\* The terms up to t whose leadership the log s holds; their number is the epoch.
LeadTerms(s, t) == {u \in 1 .. t : \E i \in DOMAIN s : IsLead(s[i]) /\ s[i].term = u}
EpochOf(s, t) == Cardinality(LeadTerms(s, t))

\* One of the first k entries of s is the leadership of t by l.
LeadAt(s, k, t, l) == \E i \in 1 .. k : IsLead(s[i]) /\ s[i].term = t /\ s[i].leader = l

\* x is in a leadership that one of the first k entries of s established, or in none.
Led(x, s, k) ==
  /\ x.epoch = EpochOf(s, x.term)
  /\ (x.term = 0 /\ x.leader = NoNode) \/ LeadAt(s, k, x.term, x.leader)

LedgerWithin(a, b) == \A x \in Nonce : a[x] # 0 => b[x] = a[x]
Follows(c, d) ==
  d.state.revision < c.state.revision /\ LedgerWithin(d.state.ledger, c.state.ledger)

GoodCommit(c) ==
  /\ WellFormedSnapshot(c.state) /\ c.state.revision > 0 /\ c.state.leader # NoNode
  /\ ~Frozen(c.state) /\ c.state.ledger[c.nonce] = c.state.revision

EntryOK(e) ==
  /\ e.at >= 1
  /\ IsLead(e) => e.at = e.term
  /\ IsCommit(e) => e.at = e.commit.state.term /\ GoodCommit(e.commit)

Ordered(s) == \A i, j \in DOMAIN s : i <= j => s[i].at <= s[j].at
OneLeader(s) ==
  \A i, j \in DOMAIN s : IsLead(s[i]) /\ IsLead(s[j]) /\ s[i].term = s[j].term =>
                           s[i].leader = s[j].leader

\* What every proof about a log starts from.
LogOK(s) ==
  /\ s \in Seq(Entry) /\ \A i \in DOMAIN s : EntryOK(s[i])
  /\ Ordered(s) /\ OneLeader(s)

-------------------------------------------------------------------------------
(* Epochs count the terms in the log *)

\* The terms of a log up to t are a finite set of numbers.
LEMMA LeadTermsFinite ==
  ASSUME NEW s, NEW t \in Nat
  PROVE  IsFiniteSet(LeadTerms(s, t)) /\ EpochOf(s, t) \in Nat
<1>1. IsFiniteSet(1 .. t)
  BY FS_Interval
<1>2. LeadTerms(s, t) \in SUBSET (1 .. t)
  BY DEF LeadTerms
<1>3. IsFiniteSet(LeadTerms(s, t))
  BY <1>1, <1>2, FS_Subset
<1> QED
  BY <1>3, FS_CardinalityType DEF EpochOf

\* No term, no epoch.
LEMMA EpochZero == \A s : EpochOf(s, 0) = 0
<1>1. \A s : LeadTerms(s, 0) = {}
  BY DEF LeadTerms
<1> QED
  BY <1>1, FS_EmptySet DEF EpochOf

\* A later term that is in the log has a greater epoch.
LEMMA EpochGrows ==
  ASSUME NEW s, NEW t \in Nat, NEW u \in Nat, t < u, u \in LeadTerms(s, u)
  PROVE  EpochOf(s, t) < EpochOf(s, u)
<1>1. LeadTerms(s, t) \in SUBSET LeadTerms(s, u) /\ u \notin LeadTerms(s, t)
  BY DEF LeadTerms
<1>2. IsFiniteSet(LeadTerms(s, u)) /\ EpochOf(s, u) \in Nat /\ EpochOf(s, t) \in Nat
  BY LeadTermsFinite
<1>3. /\ Cardinality(LeadTerms(s, t)) <= Cardinality(LeadTerms(s, u))
      /\ Cardinality(LeadTerms(s, u)) = Cardinality(LeadTerms(s, t)) =>
           LeadTerms(s, u) = LeadTerms(s, t)
  BY <1>1, <1>2, FS_Subset
<1>4. LeadTerms(s, u) # LeadTerms(s, t)
  BY <1>1
<1> QED
  BY <1>2, <1>3, <1>4 DEF EpochOf

\* The next term in the log has the next epoch.
LEMMA EpochNext ==
  ASSUME NEW s, NEW t \in Nat, NEW u \in Nat, t < u, u \in LeadTerms(s, u),
         \A v \in LeadTerms(s, u) : v <= t \/ v = u
  PROVE  EpochOf(s, u) = EpochOf(s, t) + 1
<1>1. LeadTerms(s, u) = LeadTerms(s, t) \cup {u}
  BY DEF LeadTerms
<1>2. u \notin LeadTerms(s, t)
  BY DEF LeadTerms
<1>3. IsFiniteSet(LeadTerms(s, t))
  BY LeadTermsFinite
<1> QED
  BY <1>1, <1>2, <1>3, FS_AddElement DEF EpochOf

\* A leadership that the log holds is one of its terms.
LEMMA LedTerm ==
  ASSUME NEW s, LogOK(s), NEW k \in 0 .. Len(s), NEW x \in State, Led(x, s, k)
  PROVE  x.term = 0 \/ x.term \in LeadTerms(s, x.term)
<1>1. x.term \in Nat
  BY Bounds DEF State, Term
<1>2. CASE x.term # 0
  <2>1. PICK i \in 1 .. k : IsLead(s[i]) /\ s[i].term = x.term
    BY <1>2 DEF Led, LeadAt
  <2>2. i \in DOMAIN s
    BY DEF LogOK
  <2> QED
    BY <1>1, <1>2, <2>1, <2>2 DEF LeadTerms
<1> QED
  BY <1>2

\* Two replicas in one epoch are in one leadership; epochs order terms.
LEMMA LedAgree ==
  ASSUME NEW s, LogOK(s), NEW j \in 0 .. Len(s), NEW k \in 0 .. Len(s),
         NEW x \in State, NEW y \in State, Led(x, s, j), Led(y, s, k)
  PROVE  /\ x.epoch = y.epoch => SameLeadership(x, y)
         /\ x.epoch < y.epoch => x.term < y.term
         /\ x.term < y.term => x.epoch < y.epoch
<1>1. x.term \in Nat /\ y.term \in Nat
  BY Bounds DEF State, Term
<1>2. x.epoch = EpochOf(s, x.term) /\ y.epoch = EpochOf(s, y.term)
  BY DEF Led
<1>3. x.term < y.term => x.epoch < y.epoch
  BY <1>1, <1>2, LedTerm, EpochGrows
<1>4. y.term < x.term => y.epoch < x.epoch
  BY <1>1, <1>2, LedTerm, EpochGrows
<1>5. x.epoch \in Nat /\ y.epoch \in Nat
  BY Bounds DEF State, Epoch
<1>6. ASSUME x.term = y.term PROVE x.leader = y.leader
  <2>1. CASE x.term = 0
    <3>1. \A i \in DOMAIN s : IsLead(s[i]) => s[i].term # 0
      BY DEF LogOK, EntryOK
    <3>2. ~LeadAt(s, j, 0, x.leader) /\ ~LeadAt(s, k, 0, y.leader)
      BY <3>1 DEF LeadAt, LogOK
    <3> QED
      BY <1>6, <2>1, <3>2 DEF Led
  <2>2. CASE x.term # 0
    <3>1. PICK a \in 1 .. j : IsLead(s[a]) /\ s[a].term = x.term /\ s[a].leader = x.leader
      BY <2>2 DEF Led, LeadAt
    <3>2. PICK b \in 1 .. k : IsLead(s[b]) /\ s[b].term = y.term /\ s[b].leader = y.leader
      BY <1>6, <2>2 DEF Led, LeadAt
    <3>3. a \in DOMAIN s /\ b \in DOMAIN s
      BY DEF LogOK
    <3> QED
      BY <1>6, <3>1, <3>2, <3>3 DEF LogOK, OneLeader
  <2> QED
    BY <2>1, <2>2
<1> QED
  BY <1>1, <1>2, <1>3, <1>4, <1>5, <1>6 DEF SameLeadership

\* A log that grows keeps the leaderships it has established.
LEMMA LedAppend ==
  ASSUME NEW s, LogOK(s), NEW e \in Entry, EntryOK(e), \A i \in DOMAIN s : s[i].at <= e.at,
         NEW k \in 0 .. Len(s), NEW x \in State, Led(x, s, k)
  PROVE  Led(x, Append(s, e), k)
<1> DEFINE r == Append(s, e)
           t == x.term
<1>1. /\ Len(r) = Len(s) + 1 /\ r[Len(s) + 1] = e /\ Len(s) \in Nat
      /\ \A i \in 1 .. Len(s) : r[i] = s[i]
      /\ DOMAIN s = 1 .. Len(s) /\ DOMAIN r = 1 .. Len(s) + 1
  BY DEF LogOK
<1> HIDE DEF r
<1>2. t \in Nat /\ e.at \in Nat
  BY Bounds, EntryKinds DEF State, Term
<1>3. LeadAt(s, k, t, x.leader) => LeadAt(r, k, t, x.leader)
  BY <1>1 DEF LeadAt
<1>4. LeadTerms(r, t) = LeadTerms(s, t)
  <2>1. ASSUME NEW u \in 1 .. t, NEW i \in DOMAIN s, IsLead(s[i]), s[i].term = u
        PROVE  \E j \in DOMAIN r : IsLead(r[j]) /\ r[j].term = u
    BY <1>1, <2>1
  <2>2. ASSUME NEW u \in 1 .. t, IsLead(e), e.term = u
        PROVE  \E i \in DOMAIN s : IsLead(s[i]) /\ s[i].term = u
    <3>1. PICK i \in 1 .. k : IsLead(s[i]) /\ s[i].term = t
      BY <1>2, <2>2 DEF Led, LeadAt
    <3>2. i \in DOMAIN s /\ s[i].at = t /\ s[i].at <= e.at /\ e.at = u
      BY <1>1, <2>2, <3>1 DEF LogOK, EntryOK
    <3>3. u = t
      BY <1>2, <3>2
    <3> QED
      BY <3>1, <3>2, <3>3
  <2>3. ASSUME NEW u \in 1 .. t, NEW i \in DOMAIN r, IsLead(r[i]), r[i].term = u
        PROVE  \E j \in DOMAIN s : IsLead(s[j]) /\ s[j].term = u
    <3>1. CASE i \in DOMAIN s
      BY <1>1, <2>3, <3>1
    <3>2. CASE i = Len(s) + 1
      BY <1>1, <2>2, <2>3, <3>2
    <3> QED
      BY <1>1, <3>1, <3>2
  <2> QED
    BY <2>1, <2>3 DEF LeadTerms
<1> QED
  BY <1>3, <1>4 DEF Led, EpochOf, r

-------------------------------------------------------------------------------
(* Raft: one leader in a term, terms that grow along the log *)

USE ControlStateAssumption

Known == Entries(log) \cup Entries(tail)

\* A leader's own term holds no other leader's entry.
OwnTerm(e) ==
  IsLead(e) => \A n \in Node : IsLeader(n) /\ curTerm[n] = e.term => e.leader = n

LeadersInv ==
  /\ lead # NoNode => known[lead] = lead /\ curTerm[lead] = term
  /\ \A n \in Node : curTerm[n] >= 1
  /\ \A a, b \in Node : IsLeader(a) /\ IsLeader(b) /\ curTerm[a] = curTerm[b] => a = b

EntriesInv ==
  /\ \A e \in Known : EntryOK(e) /\ e.at <= term /\ OwnTerm(e)
  /\ \A e, f \in Known : IsLead(e) /\ IsLead(f) /\ e.term = f.term => e.leader = f.leader

OrderInv ==
  /\ Ordered(log) /\ Ordered(tail)
  /\ \A i \in DOMAIN log, j \in DOMAIN tail : log[i].at <= tail[j].at

RaftInv == LeadersInv /\ EntriesInv /\ OrderInv

\* The entries of the log and of the tail, one by one.
LEMMA KnownEntries ==
  ASSUME RaftTypes
  PROVE  /\ \A i \in DOMAIN log : log[i] \in Known /\ log[i] \in Entry
         /\ \A i \in DOMAIN tail : tail[i] \in Known /\ tail[i] \in Entry
         /\ \A e \in Known : e \in Entry /\ e.at \in Nat
         /\ DOMAIN log = 1 .. Len(log) /\ DOMAIN tail = 1 .. Len(tail)
         /\ Len(log) \in Nat /\ Len(tail) \in Nat
<1>1. log \in Seq(Entry) /\ tail \in Seq(Entry)
  BY DEF RaftTypes
<1>2. /\ \A i \in DOMAIN log : log[i] \in Known /\ log[i] \in Entry
      /\ \A i \in DOMAIN tail : tail[i] \in Known /\ tail[i] \in Entry
  BY <1>1 DEF Known, Entries
<1>3. \A e \in Known : e \in Entry
  BY <1>1 DEF Known, Entries
<1>4. \A e \in Known : e.at \in Nat
  BY <1>3, EntryKinds, Bounds DEF Term
<1> QED
  BY <1>1, <1>2, <1>3, <1>4

\* The raft log is as the lemmas about epochs want it.
LEMMA RaftLog == RaftTypes /\ RaftInv => LogOK(log)
<1> SUFFICES ASSUME RaftTypes, RaftInv PROVE LogOK(log)
  OBVIOUS
<1>1. \A i \in DOMAIN log : log[i] \in Known
  BY KnownEntries
<1>2. OneLeader(log)
  BY <1>1 DEF OneLeader, RaftInv, EntriesInv
<1>3. \A i \in DOMAIN log : EntryOK(log[i])
  BY <1>1 DEF RaftInv, EntriesInv
<1> QED
  BY <1>2, <1>3 DEF LogOK, RaftTypes, RaftInv, OrderInv

\* A step that leaves raft alone.
LEMMA RaftSame == RaftInv /\ UNCHANGED raft => RaftInv'
BY DEF RaftInv, LeadersInv, EntriesInv, OrderInv, Known, Entries, OwnTerm, IsLeader, raft,
       EntryOK, GoodCommit, Ordered, IsLead, IsCommit

\* The leader of the newest term appends an entry of that term.
LEMMA RaftSubmit ==
  ASSUME RaftTypes, RaftInv, NEW e \in Entry, EntryOK(e), e.at = term, lead # NoNode,
         IsLead(e) => e.leader = lead, tail' = Append(tail, e),
         UNCHANGED <<log, term, lead, curTerm, known>>
  PROVE  RaftInv'
<1>1. /\ log \in Seq(Entry) /\ tail \in Seq(Entry) /\ lead \in Node /\ term \in Nat
      /\ curTerm \in [Node -> Term] /\ known \in [Node -> Node \cup {NoNode}]
  BY Bounds DEF RaftTypes, Term
<1>2. LeadersInv' /\ IsLeader(lead) /\ curTerm[lead] = term
  BY <1>1 DEF RaftInv, LeadersInv, IsLeader
<1>3. /\ Len(tail') = Len(tail) + 1 /\ tail'[Len(tail) + 1] = e /\ Len(tail) \in Nat
      /\ \A i \in 1 .. Len(tail) : tail'[i] = tail[i]
      /\ DOMAIN tail' = 1 .. Len(tail) + 1 /\ DOMAIN tail = 1 .. Len(tail)
  BY <1>1
<1>4. \A f \in Known' : f \in Known \/ f = e
  BY <1>3 DEF Known, Entries
<1>5. \A f \in Known : /\ EntryOK(f) /\ f.at <= term /\ f.at \in Nat
                       /\ IsLead(f) /\ f.term = term => f.leader = lead
  BY <1>1, <1>2, KnownEntries DEF RaftInv, EntriesInv, OwnTerm
<1>6. IsLead(e) => e.term = term
  BY DEF EntryOK
<1>7. OwnTerm(e)
  BY <1>1, <1>2, <1>6 DEF OwnTerm, RaftInv, LeadersInv
<1>8. \A f : OwnTerm(f) => OwnTerm(f)'
  BY DEF OwnTerm, IsLeader
<1>9. EntriesInv'
  <2>1. \A f \in Known' : EntryOK(f) /\ f.at <= term
    BY <1>1, <1>4, <1>5
  <2>2. \A f \in Known' : OwnTerm(f)'
    BY <1>4, <1>7, <1>8 DEF RaftInv, EntriesInv
  <2>3. ASSUME NEW f \in Known', NEW g \in Known', IsLead(f), IsLead(g), f.term = g.term
        PROVE  f.leader = g.leader
    BY <1>4, <1>5, <1>6, <2>3 DEF RaftInv, EntriesInv
  <2> QED
    BY <2>1, <2>2, <2>3 DEF EntriesInv
<1>10. OrderInv'
  <2>1. \A i \in DOMAIN log : log[i].at <= term
    BY KnownEntries DEF RaftInv, EntriesInv
  <2>2. \A i \in DOMAIN tail : tail[i].at <= term
    BY KnownEntries DEF RaftInv, EntriesInv
  <2>3. Ordered(tail)'
    BY <1>1, <1>3, <2>2 DEF RaftInv, OrderInv, Ordered
  <2>4. \A i \in DOMAIN log, j \in DOMAIN tail' : log[i].at <= tail'[j].at
    BY <1>3, <2>1 DEF RaftInv, OrderInv
  <2> QED
    BY <2>3, <2>4 DEF RaftInv, OrderInv, Ordered
<1> QED
  BY <1>2, <1>9, <1>10 DEF RaftInv

\* Leadership changes and commits of raft.
LEMMA RaftKeeps ==
  ASSUME RaftTypes, RaftInv, NEW n \in Node,
         Elect(n) \/ StepDown(n) \/ Learn(n) \/ (\E i \in DOMAIN tail : CommitTail(i))
         \/ ProcessEnds(n)
  PROVE  RaftInv'
<1>0. /\ term \in Nat /\ curTerm \in [Node -> Nat] /\ known \in [Node -> Node \cup {NoNode}]
      /\ lead \in Node \cup {NoNode} /\ \A x \in Node : curTerm[x] <= term
      /\ \A e \in Known : e.at \in Nat
  BY Bounds, KnownEntries DEF RaftTypes, Term
<1>1. ASSUME UNCHANGED <<log, tail>>, term' \in Nat, term <= term',
             \A x \in Node : /\ known'[x] = x => known[x] = x \/ curTerm'[x] > term
                             /\ known'[x] = x /\ known[x] = x => curTerm'[x] = curTerm[x]
      PROVE  EntriesInv' /\ OrderInv'
  <2>1. Known' = Known /\ OrderInv'
    BY <1>1 DEF Known, Entries, RaftInv, OrderInv, Ordered
  <2>2. \A e \in Known : OwnTerm(e)'
    <3> SUFFICES ASSUME NEW e \in Known, IsLead(e), NEW x \in Node, known'[x] = x,
                        curTerm'[x] = e.term
                 PROVE  e.leader = x
      BY DEF OwnTerm, IsLeader
    <3>1. e.at <= term /\ e.at = e.term /\ OwnTerm(e)
      BY DEF RaftInv, EntriesInv, EntryOK
    <3>2. known[x] = x /\ curTerm'[x] = curTerm[x]
      BY <1>0, <1>1, <3>1
    <3> QED
      BY <3>1, <3>2 DEF OwnTerm, IsLeader
  <2>3. \A e \in Known : e.at <= term'
    BY <1>0, <1>1 DEF RaftInv, EntriesInv
  <2> QED
    BY <2>1, <2>2, <2>3 DEF RaftInv, EntriesInv
<1>2. CASE Elect(n)
  <2>1. /\ ~(known[n] = n) /\ term' = term + 1 /\ lead' = n
        /\ curTerm' = [curTerm EXCEPT ![n] = term + 1] /\ known' = [known EXCEPT ![n] = n]
        /\ UNCHANGED <<log, tail>>
    BY <1>2 DEF Elect, IsLeader
  <2>2. EntriesInv' /\ OrderInv'
    BY <1>0, <1>1, <2>1
  <2>3. LeadersInv'
    BY <1>0, <2>1 DEF RaftInv, LeadersInv, IsLeader
  <2> QED
    BY <2>2, <2>3 DEF RaftInv
<1>3. CASE StepDown(n) \/ ProcessEnds(n)
  <2>1. /\ lead' = (IF lead = n THEN NoNode ELSE lead) /\ known' = [known EXCEPT ![n] = NoNode]
        /\ UNCHANGED <<log, tail, term, curTerm>>
    BY <1>3, Zenon DEF StepDown, ProcessEnds
  <2>2. EntriesInv' /\ OrderInv'
    BY <1>0, <1>1, <2>1
  <2>3. LeadersInv'
    BY <1>0, <2>1 DEF RaftInv, LeadersInv, IsLeader
  <2> QED
    BY <2>2, <2>3 DEF RaftInv
<1>4. CASE Learn(n)
  <2>1. /\ known[n] # n /\ lead # NoNode
        /\ curTerm' = [curTerm EXCEPT ![n] = term] /\ known' = [known EXCEPT ![n] = lead]
        /\ UNCHANGED <<log, tail, term, lead>>
    BY <1>4 DEF Learn, IsLeader
  <2>2. lead # n
    BY <2>1 DEF RaftInv, LeadersInv
  <2>3. EntriesInv' /\ OrderInv'
    BY <1>0, <1>1, <2>1, <2>2
  <2>4. LeadersInv'
    BY <1>0, <2>1, <2>2 DEF RaftInv, LeadersInv, IsLeader
  <2> QED
    BY <2>3, <2>4 DEF RaftInv
<1>5. ASSUME NEW i \in DOMAIN tail, CommitTail(i) PROVE RaftInv'
  <2>1. /\ log' = Append(log, tail[i]) /\ tail' = SubSeq(tail, i + 1, Len(tail))
        /\ UNCHANGED <<term, lead, curTerm, known>>
    BY <1>5, Zenon DEF CommitTail
  <2>2. log \in Seq(Entry) /\ tail \in Seq(Entry) /\ i \in 1 .. Len(tail) /\ tail[i] \in Entry
    BY DEF RaftTypes
  <2>3. /\ Len(log') = Len(log) + 1 /\ log'[Len(log) + 1] = tail[i] /\ Len(log) \in Nat
        /\ \A j \in 1 .. Len(log) : log'[j] = log[j]
        /\ DOMAIN log' = 1 .. Len(log) + 1 /\ DOMAIN log = 1 .. Len(log)
    BY <2>1, <2>2
  <2>4. /\ Len(tail) \in Nat /\ DOMAIN tail = 1 .. Len(tail)
        /\ DOMAIN tail' = 1 .. Len(tail) - i
        /\ \A j \in 1 .. Len(tail) - i : tail'[j] = tail[j + i] /\ j + i \in 1 .. Len(tail)
    BY <2>1, <2>2
  <2>5. Known' \subseteq Known
    <3>1. \A j \in DOMAIN log' : log'[j] \in Known
      <4>1. \A j \in DOMAIN log : log[j] \in Known
        BY KnownEntries
      <4>2. tail[i] \in Known
        BY KnownEntries
      <4> QED
        BY <2>3, <4>1, <4>2
    <3>2. \A j \in DOMAIN tail' : tail'[j] \in Known
      BY <2>4, KnownEntries
    <3> QED
      BY <3>1, <3>2 DEF Known, Entries
  <2>6. EntriesInv'
    BY <2>1, <2>5 DEF RaftInv, EntriesInv, OwnTerm, IsLeader
  <2>7. OrderInv'
    <3>1. Ordered(log)'
      <4> SUFFICES ASSUME NEW a \in DOMAIN log', NEW b \in DOMAIN log', a <= b
                   PROVE  log'[a].at <= log'[b].at
        BY DEF Ordered
      <4>1. tail[i].at \in Nat
        BY <1>0, KnownEntries
      <4>2. a \in DOMAIN log => log[a].at <= tail[i].at
        BY DEF RaftInv, OrderInv
      <4>3. a \in DOMAIN log /\ b \in DOMAIN log => log[a].at <= log[b].at
        BY DEF RaftInv, OrderInv, Ordered
      <4> QED
        BY <2>3, <4>1, <4>2, <4>3
    <3>2. Ordered(tail)'
      BY <2>2, <2>4 DEF RaftInv, OrderInv, Ordered
    <3>3. \A a \in DOMAIN log', b \in DOMAIN tail' : log'[a].at <= tail'[b].at
      <4> SUFFICES ASSUME NEW a \in DOMAIN log', NEW b \in DOMAIN tail'
                   PROVE  log'[a].at <= tail'[b].at
        OBVIOUS
      <4>1. b + i \in DOMAIN tail /\ tail'[b] = tail[b + i] /\ i <= b + i
        BY <2>2, <2>4
      <4>2. tail[i].at <= tail[b + i].at
        BY <2>2, <2>4, <4>1 DEF RaftInv, OrderInv, Ordered
      <4>3. a \in DOMAIN log => log[a].at <= tail[b + i].at
        BY <4>1 DEF RaftInv, OrderInv
      <4> QED
        BY <2>3, <4>1, <4>2, <4>3
    <3> QED
      BY <3>1, <3>2, <3>3 DEF OrderInv
  <2>8. LeadersInv'
    BY <2>1 DEF RaftInv, LeadersInv, IsLeader
  <2> QED
    BY <2>6, <2>7, <2>8 DEF RaftInv
<1> QED
  BY <1>2, <1>3, <1>4, <1>5, Zenon

-------------------------------------------------------------------------------
(* Commits in the log: revisions grow, ledgers extend one another *)

CommitsOK(s) ==
  /\ \A i \in DOMAIN s : IsCommit(s[i]) => Led(s[i].commit.state, s, i)
  /\ \A i, j \in DOMAIN s : i < j /\ IsCommit(s[i]) /\ IsCommit(s[j]) =>
                              Follows(s[j].commit, s[i].commit)

\* The one commit that may still be in the tail is the next one of the log.
TailInv ==
  \A i \in DOMAIN tail : IsCommit(tail[i]) =>
    /\ Led(tail[i].commit.state, log, Len(log))
    /\ \A j \in DOMAIN log : IsCommit(log[j]) => Follows(tail[i].commit, log[j].commit)
    /\ \A j \in DOMAIN tail : IsCommit(tail[j]) => i = j

LogInv == CommitsOK(log) /\ TailInv

\* A step that submits nothing and commits nothing.
LEMMA LogSame == LogInv /\ UNCHANGED <<log, tail>> => LogInv'
BY DEF LogInv, CommitsOK, TailInv

\* An entry is submitted; a commit only when it follows the whole log.
LEMMA LogSubmit ==
  ASSUME RaftTypes, LogInv, NEW e \in Entry, tail' = Append(tail, e), UNCHANGED log,
         IsCommit(e) => /\ Led(e.commit.state, log, Len(log))
                        /\ \A j \in DOMAIN log : IsCommit(log[j]) => Follows(e.commit, log[j].commit)
                        /\ \A j \in DOMAIN tail : ~IsCommit(tail[j])
  PROVE  LogInv'
<1>1. /\ tail'[Len(tail) + 1] = e /\ Len(tail) \in Nat
      /\ \A i \in 1 .. Len(tail) : tail'[i] = tail[i]
      /\ DOMAIN tail' = 1 .. Len(tail) + 1 /\ DOMAIN tail = 1 .. Len(tail)
  BY DEF RaftTypes
<1>2. CommitsOK(log)'
  BY DEF LogInv, CommitsOK
<1>3. ASSUME NEW i \in DOMAIN tail', IsCommit(tail'[i])
      PROVE  /\ Led(tail'[i].commit.state, log, Len(log))
             /\ \A j \in DOMAIN log : IsCommit(log[j]) => Follows(tail'[i].commit, log[j].commit)
             /\ \A j \in DOMAIN tail' : IsCommit(tail'[j]) => i = j
  <2>1. CASE i \in DOMAIN tail
    BY <1>1, <1>3, <2>1 DEF LogInv, TailInv
  <2>2. CASE i = Len(tail) + 1
    BY <1>1, <1>3, <2>2
  <2> QED
    BY <1>1, <2>1, <2>2
<1> QED
  BY <1>2, <1>3 DEF LogInv, TailInv

\* Raft commits an entry of the tail.
LEMMA LogCommit ==
  ASSUME RaftTypes, RaftInv, LogInv, NEW i \in DOMAIN tail, CommitTail(i)
  PROVE  LogInv'
<1>1. /\ log' = Append(log, tail[i]) /\ tail' = SubSeq(tail, i + 1, Len(tail))
  BY Zenon DEF CommitTail
<1>2. log \in Seq(Entry) /\ tail \in Seq(Entry) /\ i \in 1 .. Len(tail) /\ tail[i] \in Entry
  BY DEF RaftTypes
<1>3. /\ Len(log') = Len(log) + 1 /\ log'[Len(log) + 1] = tail[i] /\ Len(log) \in Nat
      /\ \A j \in 1 .. Len(log) : log'[j] = log[j]
      /\ DOMAIN log' = 1 .. Len(log) + 1 /\ DOMAIN log = 1 .. Len(log)
  BY <1>1, <1>2
<1>4. /\ DOMAIN tail' = 1 .. Len(tail) - i /\ DOMAIN tail = 1 .. Len(tail)
      /\ \A j \in 1 .. Len(tail) - i : tail'[j] = tail[j + i] /\ j + i \in 1 .. Len(tail)
  BY <1>1, <1>2
<1>5. LogOK(log) /\ EntryOK(tail[i]) /\ \A j \in DOMAIN log : log[j].at <= tail[i].at
  BY RaftLog, KnownEntries DEF RaftInv, EntriesInv, OrderInv
<1>6. ASSUME NEW x \in State, NEW k \in 0 .. Len(log), Led(x, log, k)
      PROVE  Led(x, log', k)
  <2>1. Led(x, Append(log, tail[i]), k)
    BY <1>2, <1>5, <1>6, LedAppend
  <2> QED
    BY <1>1, <2>1
<1>7. \A j \in DOMAIN log' : IsCommit(log'[j]) => log'[j].commit.state \in State
  <2>1. \A e \in Entry : IsCommit(e) => e.commit.state \in State
    BY EntryKinds DEF IsCommit, Commit
  <2>2. \A j \in DOMAIN log : log[j] \in Entry
    BY <1>2
  <2> QED
    BY <1>2, <1>3, <2>1, <2>2
<1>8. CommitsOK(log)'
  <2>1. ASSUME NEW j \in DOMAIN log', IsCommit(log'[j])
        PROVE  Led(log'[j].commit.state, log', j)
    <3>1. CASE j \in DOMAIN log
      <4>1. Led(log[j].commit.state, log, j) /\ log'[j] = log[j] /\ j \in 0 .. Len(log)
        BY <1>3, <2>1, <3>1 DEF LogInv, CommitsOK
      <4> QED
        BY <1>6, <1>7, <2>1, <4>1
    <3>2. CASE j = Len(log) + 1
      <4>1. Led(log'[j].commit.state, log, Len(log))
        BY <1>3, <2>1, <3>2 DEF LogInv, TailInv
      <4>2. Led(log'[j].commit.state, log', Len(log))
        BY <1>3, <1>6, <1>7, <2>1, <4>1
      <4> QED
        BY <1>3, <3>2, <4>2 DEF Led, LeadAt
    <3> QED
      BY <1>3, <3>1, <3>2
  <2>2. ASSUME NEW a \in DOMAIN log', NEW b \in DOMAIN log', a < b, IsCommit(log'[a]),
               IsCommit(log'[b])
        PROVE  Follows(log'[b].commit, log'[a].commit)
    <3>1. a \in DOMAIN log /\ log'[a] = log[a]
      BY <1>3, <2>2
    <3>2. CASE b \in DOMAIN log
      BY <1>3, <2>2, <3>1, <3>2 DEF LogInv, CommitsOK
    <3>3. CASE b = Len(log) + 1
      BY <1>3, <2>2, <3>1, <3>3 DEF LogInv, TailInv
    <3> QED
      BY <1>3, <3>2, <3>3
  <2> QED
    BY <2>1, <2>2 DEF CommitsOK
<1>9. TailInv'
  <2> SUFFICES ASSUME NEW j \in DOMAIN tail', IsCommit(tail'[j])
               PROVE  /\ Led(tail'[j].commit.state, log', Len(log'))
                      /\ \A a \in DOMAIN log' : IsCommit(log'[a]) =>
                                                  Follows(tail'[j].commit, log'[a].commit)
                      /\ \A a \in DOMAIN tail' : IsCommit(tail'[a]) => j = a
    BY DEF TailInv
  <2>1. j + i \in DOMAIN tail /\ tail'[j] = tail[j + i] /\ j + i # i
    BY <1>2, <1>4
  <2>2. /\ Led(tail'[j].commit.state, log, Len(log))
        /\ \A a \in DOMAIN log : IsCommit(log[a]) => Follows(tail'[j].commit, log[a].commit)
        /\ \A a \in DOMAIN tail : IsCommit(tail[a]) => j + i = a
    BY <2>1 DEF LogInv, TailInv
  <2>3. ~IsCommit(tail[i])
    BY <2>1, <2>2
  <2>4. tail'[j].commit.state \in State
    <3>1. tail'[j] \in Entry
      BY <1>2, <2>1
    <3> QED
      BY <3>1, EntryKinds DEF IsCommit, Commit
  <2>5. Led(tail'[j].commit.state, log', Len(log'))
    <3>1. Led(tail'[j].commit.state, log', Len(log))
      BY <1>3, <1>6, <2>2, <2>4
    <3> QED
      BY <1>3, <3>1 DEF Led, LeadAt
  <2>6. \A a \in DOMAIN log' : IsCommit(log'[a]) => Follows(tail'[j].commit, log'[a].commit)
    BY <1>3, <2>2, <2>3
  <2>7. \A a \in DOMAIN tail' : IsCommit(tail'[a]) => j = a
    BY <1>2, <1>4, <2>2
  <2> QED
    BY <2>5, <2>6, <2>7
<1> QED
  BY <1>8, <1>9 DEF LogInv

-------------------------------------------------------------------------------
(* The leadership of a replica: x is its committed state, y its consensus   *)
(* state, and it has applied the first k entries of the log s.              *)

LeadOK(x, y, s, k) ==
  /\ Led(x, s, k) /\ Led(y, s, k)
  /\ x.epoch < MaxEpoch => \A i \in 1 .. k : IsLead(s[i]) => s[i].term <= x.term
  /\ y.freeze = IF y.epoch = 0 THEN "closed" ELSE "open"

\* Led looks at the leadership of a state only.
LEMMA LedSame ==
  ASSUME NEW s, NEW k, NEW x, NEW y, SameLeadership(x, y), Led(x, s, k)
  PROVE  Led(y, s, k)
BY DEF Led, SameLeadership

\* Led holds of a longer prefix.
LEMMA LedLonger ==
  ASSUME NEW s, NEW k \in Nat, NEW j \in Nat, k <= j, NEW x, Led(x, s, k)
  PROVE  Led(x, s, j)
BY DEF Led, LeadAt

\* A new machine is in no leadership.
LEMMA LeadNew == \A s : LeadOK(NewState, NewState, s, 0)
BY EpochZero DEF LeadOK, Led, NewState

\* The log grows.
LEMMA LeadAppend ==
  ASSUME NEW s, LogOK(s), NEW e \in Entry, EntryOK(e), \A i \in DOMAIN s : s[i].at <= e.at,
         NEW k \in 0 .. Len(s), NEW x \in State, NEW y \in State, LeadOK(x, y, s, k)
  PROVE  LeadOK(x, y, Append(s, e), k)
<1>1. \A i \in 1 .. k : Append(s, e)[i] = s[i]
  BY DEF LogOK
<1>2. Led(x, Append(s, e), k) /\ Led(y, Append(s, e), k)
  BY LedAppend DEF LeadOK
<1> QED
  BY <1>1, <1>2 DEF LeadOK

\* An entry that moves neither state: a refused commit.
LEMMA LeadSkip ==
  ASSUME NEW s, NEW k \in Nat, NEW x, NEW y, LeadOK(x, y, s, k),
         ~IsLead(s[k + 1])
  PROVE  LeadOK(x, y, s, k + 1)
<1>1. Led(x, s, k + 1) /\ Led(y, s, k + 1)
  BY LedLonger DEF LeadOK
<1>2. \A i \in 1 .. k + 1 : i \in 1 .. k \/ i = k + 1
  OBVIOUS
<1> QED
  BY <1>1, <1>2 DEF LeadOK

\* A commit of the log is loaded.
LEMMA LeadApplyCommit ==
  ASSUME NEW s, LogOK(s), NEW k \in Nat, k < Len(s), IsCommit(s[k + 1]),
         Led(s[k + 1].commit.state, s, k + 1), NEW x, SameLeadership(x, s[k + 1].commit.state)
  PROVE  LeadOK(x, s[k + 1].commit.state, s, k + 1)
<1> DEFINE c == s[k + 1].commit
<1>1. k + 1 \in DOMAIN s /\ EntryOK(s[k + 1])
  BY DEF LogOK
<1>2. c.state.term = s[k + 1].at /\ GoodCommit(c)
  BY <1>1 DEF EntryOK
<1>3. ASSUME NEW i \in 1 .. k + 1, IsLead(s[i]) PROVE s[i].term <= c.state.term
  <2>1. i \in DOMAIN s /\ i <= k + 1
    BY DEF LogOK
  <2>2. s[i].at <= s[k + 1].at /\ EntryOK(s[i])
    BY <1>1, <2>1 DEF LogOK, Ordered
  <2> QED
    BY <1>2, <1>3, <2>2 DEF EntryOK
<1>4. c.state.epoch # 0 /\ c.state.freeze = "open"
  BY <1>2 DEF GoodCommit, WellFormedSnapshot, Frozen
<1>5. Led(x, s, k + 1)
  BY LedSame DEF SameLeadership
<1>6. x.term = c.state.term
  BY DEF SameLeadership
<1> QED
  BY <1>3, <1>4, <1>5, <1>6 DEF LeadOK

\* A leadership entry is applied.
LEMMA LeadApplyLead ==
  ASSUME NEW s, LogOK(s), NEW k \in Nat, k < Len(s), IsLead(s[k + 1]),
         NEW m, Machine(m), Coherent(m), NEW y \in State, LeadOK(m.committed, y, s, k)
  PROVE  LET t == s[k + 1].term
             l == s[k + 1].leader
             r == InstallLeadership(m, t, l)
             z == IF InstallLeadershipFails(m, t, l) THEN y
                  ELSE AdvanceConsensusLeadership(y, r.state, t, l)
         IN LeadOK(r.committed, z, s, k + 1)
<1> DEFINE e == s[k + 1]
           t == e.term
           l == e.leader
           x == m.committed
           r == InstallLeadership(m, t, l)
           z == IF InstallLeadershipFails(m, t, l) THEN y
                ELSE AdvanceConsensusLeadership(y, r.state, t, l)
<1>1. /\ k + 1 \in DOMAIN s /\ e \in Entry /\ EntryOK(e) /\ DOMAIN s = 1 .. Len(s)
      /\ Len(s) \in Nat
  BY DEF LogOK
<1>2. t \in Term /\ l \in Node /\ t \in Nat /\ t = e.at /\ t >= 1
  <2>1. t \in Term /\ l \in Node
    BY <1>1, EntryKinds, Zenon DEF IsLead
  <2>2. t \in Nat
    BY <2>1, Bounds DEF Term
  <2> QED
    BY <1>1, <2>1, <2>2 DEF EntryOK
<1>3. x \in State /\ x.term \in Nat /\ x.epoch \in 0 .. MaxEpoch /\ MaxEpoch \in Nat
  BY Bounds DEF Machine, State, Term, Epoch
<1>4. Led(x, s, k + 1) /\ Led(y, s, k + 1)
  BY LedLonger DEF LeadOK
<1>5. \A i \in 1 .. k + 1 : i \in 1 .. k \/ i = k + 1
  OBVIOUS
<1>6. ASSUME t <= x.term PROVE LeadOK(x, y, s, k + 1)
  BY <1>4, <1>5, <1>6 DEF LeadOK
<1>7. ASSUME x.epoch = MaxEpoch PROVE LeadOK(x, y, s, k + 1)
  BY <1>3, <1>4, <1>7 DEF LeadOK
<1>7a. SameLeadership(r.state, r.committed)
  <2>1. \/ r = m \/ r = FreezeWrites(m, "closed")
        \/ x.epoch < MaxEpoch /\ r = AdvanceLeadership(m, t, l)
    BY <1>2, LeadershipFields
  <2>2. CASE r = m
    BY <2>2 DEF Coherent
  <2>3. CASE r = FreezeWrites(m, "closed")
    <3> "closed" \in FreezeKind
      BY DEF FreezeKind
    <3>1. SameLeadership(r.state, m.state) /\ SameLeadership(r.committed, m.committed)
      BY <2>3, FreezeFields
    <3> QED
      BY <3>1 DEF Coherent, SameLeadership
  <2>4. CASE x.epoch < MaxEpoch /\ r = AdvanceLeadership(m, t, l)
    BY <1>2, <2>4, AdvanceFields DEF Coherent
  <2> QED
    BY <2>1, <2>2, <2>3, <2>4
<1>8. z = y \/ (z \in State /\ SameLeadership(r.committed, z) /\ z.freeze = "open" /\ z.epoch # 0)
  <2>1. y.epoch \in Nat
    BY Bounds DEF State, Epoch
  <2>2. LET q == AdvanceConsensusLeadership(y, r.state, t, l)
        IN q = y \/ (q \in State /\ SameLeadership(r.state, q) /\ q.freeze = "open"
                     /\ q.epoch = y.epoch + 1)
    BY <1>2, AdvanceConsensusFields
  <2> HIDE DEF r, t, l
  <2> QED
    BY <1>7a, <2>1, <2>2 DEF SameLeadership
<1>9. ASSUME r = m \/ r = FreezeWrites(m, "closed"),
             z = y \/ t <= x.term,
             t <= x.term \/ x.epoch = MaxEpoch
      PROVE  LeadOK(r.committed, z, s, k + 1)
  <2>1. SameLeadership(x, r.committed)
    BY <1>9, FreezeFields DEF FreezeKind, SameLeadership
  <2>2. Led(r.committed, s, k + 1) /\ r.committed.epoch = x.epoch /\ r.committed.term = x.term
    BY <1>4, <2>1, LedSame DEF SameLeadership
  <2>3. Led(z, s, k + 1) /\ z.freeze = IF z.epoch = 0 THEN "closed" ELSE "open"
    <3>1. CASE z = y
      BY <1>4, <3>1 DEF LeadOK
    <3>2. CASE z # y
      BY <1>8, <2>2, <3>2, LedSame
    <3> QED
      BY <3>1, <3>2
  <2>4. LeadOK(x, y, s, k + 1)
    BY <1>6, <1>7, <1>9
  <2> HIDE DEF r, z
  <2> QED
    BY <2>2, <2>3, <2>4 DEF LeadOK
<1>10. ASSUME t > x.term, x.epoch < MaxEpoch, r = AdvanceLeadership(m, t, l)
       PROVE  LeadOK(r.committed, z, s, k + 1)
  <2>1. r.committed.leader = l /\ r.committed.term = t /\ r.committed.epoch = x.epoch + 1
    BY <1>2, <1>10, AdvanceFields
  <2>2. t \in LeadTerms(s, t)
    BY <1>1, <1>2 DEF LeadTerms
  <2>3. ASSUME NEW v \in LeadTerms(s, t) PROVE v <= x.term \/ v = t
    <3>1. PICK i \in DOMAIN s : IsLead(s[i]) /\ s[i].term = v
      BY DEF LeadTerms
    <3>2. v \in 1 .. t
      BY DEF LeadTerms
    <3>3. CASE i <= k
      BY <1>1, <1>10, <3>1, <3>3 DEF LeadOK
    <3>4. CASE ~(i <= k)
      <4>1. s[k + 1].at <= s[i].at /\ s[i].at = v
        BY <1>1, <3>1, <3>4 DEF LogOK, Ordered, EntryOK
      <4> QED
        BY <1>2, <3>2, <4>1
    <3> QED
      BY <3>3, <3>4
  <2>4. EpochOf(s, t) = EpochOf(s, x.term) + 1
    BY <1>2, <1>3, <1>10, <2>2, <2>3, EpochNext
  <2>5. r.committed.epoch = EpochOf(s, r.committed.term)
    BY <2>1, <2>4 DEF LeadOK, Led
  <2>6. LeadAt(s, k + 1, r.committed.term, r.committed.leader)
    BY <2>1 DEF LeadAt
  <2>7. Led(r.committed, s, k + 1)
    BY <2>5, <2>6 DEF Led
  <2>8. Led(z, s, k + 1) /\ z.freeze = IF z.epoch = 0 THEN "closed" ELSE "open"
    <3>1. CASE z = y
      BY <1>4, <3>1 DEF LeadOK
    <3>2. CASE z # y
      BY <1>8, <2>7, <3>2, LedSame
    <3> QED
      BY <3>1, <3>2
  <2>9. \A i \in 1 .. k + 1 : IsLead(s[i]) => s[i].term <= t
    <3> SUFFICES ASSUME NEW i \in 1 .. k + 1, IsLead(s[i]) PROVE s[i].term <= t
      OBVIOUS
    <3>1. i \in DOMAIN s /\ i <= k + 1
      BY <1>1
    <3> QED
      BY <1>1, <1>2, <3>1 DEF LogOK, Ordered, EntryOK
  <2> HIDE DEF r, z
  <2> QED
    BY <2>1, <2>7, <2>8, <2>9 DEF LeadOK
<1>11. \/ t <= x.term /\ r = m
       \/ t > x.term /\ x.epoch = MaxEpoch /\ r = FreezeWrites(m, "closed")
          /\ InstallLeadershipFails(m, t, l)
       \/ t > x.term /\ x.epoch < MaxEpoch /\ r = AdvanceLeadership(m, t, l)
  BY <1>2, LeadershipFields
<1>12. InstallLeadershipFails(m, t, l) => z = y
  OBVIOUS
<1> HIDE DEF r, z, t, l, e, x
<1>13. LeadOK(r.committed, z, s, k + 1)
  BY <1>9, <1>10, <1>11, <1>12
<1> QED
  BY <1>13 DEF r, z, t, l, e, x

\* The checks of a snapshot that only look at the leadership.
LEMMA LeadLoad ==
  ASSUME NEW s, LogOK(s), NEW k \in 0 .. Len(s), NEW m, Machine(m), NEW y \in State, NEW x,
         LeadOK(m.committed, y, s, k),
         CanLoadSnapshot(m, y), SameLeadership(x, y)
  PROVE  LeadOK(x, y, s, k)
<1>1. /\ m.committed.epoch \in 0 .. MaxEpoch /\ y.epoch \in 0 .. MaxEpoch /\ MaxEpoch \in Nat
      /\ m.committed.term \in Nat /\ y.term \in Nat
  BY Bounds DEF Machine, State, Term, Epoch
<1>2. y.epoch >= m.committed.epoch /\ y.term >= m.committed.term
  BY <1>1 DEF CanLoadSnapshot, SameLeadership
<1>3. Led(x, s, k) /\ x.term = y.term /\ x.epoch = y.epoch
  BY LedSame DEF LeadOK, SameLeadership, Led
<1>4. ASSUME x.epoch < MaxEpoch, NEW i \in 1 .. k, IsLead(s[i])
      PROVE  s[i].term <= x.term
  <2>1. s[i] \in Entry
    BY DEF LogOK
  <2>2. s[i].term \in Nat
    BY <1>4, <2>1, EntryKinds, Bounds DEF IsLead, Term
  <2> QED
    BY <1>1, <1>2, <1>3, <1>4, <2>2 DEF LeadOK
<1> QED
  BY <1>3, <1>4 DEF LeadOK

-------------------------------------------------------------------------------
(* The content of a replica: m is its machine, y its consensus state, w its *)
(* call, f whether a call has failed, ph its phase.                         *)

Empty(x) == x.revision = 0 /\ x.desired = NoPayload /\ x.ledger = EmptyLedger
CommitAt(s, i, x) == IsCommit(s[i]) /\ SamePayload(x, s[i].commit.state)

\* x has the content of the newest, of some commit among the first k entries of s.
Newest(x, s, k) ==
  \/ Empty(x) /\ \A i \in 1 .. k : ~IsCommit(s[i])
  \/ \E i \in 1 .. k : CommitAt(s, i, x) /\ \A j \in 1 .. k : IsCommit(s[j]) => j <= i
Replicated(x, s, k) == Empty(x) \/ \E i \in 1 .. k : CommitAt(s, i, x)

\* A fence of m is that of a commit which m has applied and whose revision it holds.
FenceAt(m, s, i, r) ==
  /\ IsCommit(s[i]) /\ s[i].commit.state.revision = r /\ r = m.committed.revision
  /\ m.committedFences[r] = s[i].commit.state.desired
  /\ \A x \in Nonce : m.nonces[x] = r <=> s[i].commit.state.ledger[x] = r
FencesOK(m, s, k) == \A r \in DOMAIN m.committedFences : \E i \in 1 .. k : FenceAt(m, s, i, r)

\* No applied commit is newer than the committed state.
UpToDate(m, s, k) ==
  \A i \in 1 .. k : IsCommit(s[i]) => s[i].commit.state.revision <= m.committed.revision

ContentOK(m, y, s, k) ==
  Coherent(m) /\ Replicated(y, s, k) /\ UpToDate(m, s, k) /\ FencesOK(m, s, k)

\* A call that has not been answered by the log yet, and one that has.
Active(w) == w.pc \in {"proposed", "checked", "submitted", "lost"}
Answered(w) == w.pc \in {"replicated", "durable", "installed"}

\* Only a call that failed, or one that a later leadership overtook, lets a
\* machine promote a proposal the log does not hold.
WorkOK(m, w, f, ph, s, k) ==
  /\ \/ Newest(m.committed, s, k)
     \/ f
     \/ Active(w) /\ w.commit.state.term < m.committed.term
  /\ m.state.revision # m.committed.revision =>
       f \/ (Active(w) /\ w.commit.state.term = m.committed.term)
  /\ Answered(w) => m.proposals = NoEntries
  /\ Active(w) => w.commit.state.term <= m.committed.term
  /\ f => w.pc = "idle"
  /\ ph # "ready" => w.pc = "idle" /\ ~f

\* A process that starts holds nothing.
LEMMA ContentNew ==
  \A s : /\ ContentOK(NewMachine, NewState, s, 0)
         /\ \A ph : WorkOK(NewMachine, NoCall, FALSE, ph, s, 0)
<1>1. /\ Coherent(NewMachine) /\ Empty(NewState) /\ NewMachine.committed = NewState
      /\ NewMachine.state = NewState /\ NewMachine.committedFences = NoEntries
  BY DEF NewMachine, NewState, Coherent, Empty, SameLeadership, SamePayload
<1>2. DOMAIN NoEntries = {}
  BY DEF NoEntries
<1>3. NoCall.pc = "idle"
  BY DEF NoCall
<1> QED
  BY <1>1, <1>2, <1>3 DEF ContentOK, WorkOK, Replicated, UpToDate, FencesOK, Newest, Active, Answered

\* Only the first k entries matter.
LEMMA ContentPrefix ==
  ASSUME NEW s, NEW z, NEW k, \A i \in 1 .. k : z[i] = s[i]
  PROVE  /\ \A m, y : ContentOK(m, y, s, k) => ContentOK(m, y, z, k)
         /\ \A m, w, f, ph : WorkOK(m, w, f, ph, s, k) => WorkOK(m, w, f, ph, z, k)
<1>1. \A x : /\ Newest(x, s, k) => Newest(x, z, k)
             /\ Replicated(x, s, k) => Replicated(x, z, k)
  BY DEF Newest, Replicated, CommitAt
<1>2. \A m : UpToDate(m, s, k) => UpToDate(m, z, k)
  BY DEF UpToDate
<1>3. \A m : FencesOK(m, s, k) => FencesOK(m, z, k)
  BY DEF FencesOK, FenceAt
<1> QED
  BY <1>1, <1>2, <1>3 DEF ContentOK, WorkOK

\* The freeze overlay is no content.
LEMMA ContentFreeze ==
  ASSUME NEW s, NEW k, NEW m, Machine(m), NEW kind \in FreezeKind
  PROVE  LET r == FreezeWrites(m, kind)
         IN /\ \A y : ContentOK(m, y, s, k) => ContentOK(r, y, s, k)
            /\ \A w, f, ph : WorkOK(m, w, f, ph, s, k) => WorkOK(r, w, f, ph, s, k)
<1> DEFINE r == FreezeWrites(m, kind)
<1>1. /\ SameLeadership(r.state, m.state) /\ SamePayload(r.state, m.state)
      /\ SameLeadership(r.committed, m.committed) /\ SamePayload(r.committed, m.committed)
      /\ r.committedFences = m.committedFences /\ r.nonces = m.nonces /\ r.proposals = m.proposals
  BY FreezeFields
<1> HIDE DEF r
<1>2. Coherent(m) => Coherent(r)
  BY <1>1 DEF Coherent, SameLeadership, SamePayload
<1>3. Newest(m.committed, s, k) => Newest(r.committed, s, k)
  BY <1>1 DEF Newest, Empty, CommitAt, SamePayload
<1>4. UpToDate(m, s, k) => UpToDate(r, s, k)
  BY <1>1 DEF UpToDate, SamePayload
<1>5. FencesOK(m, s, k) => FencesOK(r, s, k)
  BY <1>1 DEF FencesOK, FenceAt, SamePayload
<1>6. \A w, f, ph : WorkOK(m, w, f, ph, s, k) => WorkOK(r, w, f, ph, s, k)
  BY <1>1, <1>3 DEF WorkOK, SamePayload, SameLeadership
<1> QED
  BY <1>2, <1>4, <1>5, <1>6 DEF ContentOK, r

\* An applied entry that is no commit and leaves the machine alone.
LEMMA ContentSkip ==
  ASSUME NEW s, NEW k \in Nat, ~IsCommit(s[k + 1]), NEW m
  PROVE  /\ \A y : ContentOK(m, y, s, k) => ContentOK(m, y, s, k + 1)
         /\ \A w, f, ph : WorkOK(m, w, f, ph, s, k) => WorkOK(m, w, f, ph, s, k + 1)
<1>1. \A i \in 1 .. k + 1 : i \in 1 .. k \/ i = k + 1
  OBVIOUS
<1>2. \A x : Newest(x, s, k) => Newest(x, s, k + 1)
  BY <1>1 DEF Newest, CommitAt
<1>3. \A x : Replicated(x, s, k) => Replicated(x, s, k + 1)
  BY <1>1 DEF Replicated
<1>4. UpToDate(m, s, k) => UpToDate(m, s, k + 1)
  BY <1>1 DEF UpToDate
<1>5. FencesOK(m, s, k) => FencesOK(m, s, k + 1)
  BY <1>1 DEF FencesOK
<1> QED
  BY <1>2, <1>3, <1>4, <1>5 DEF ContentOK, WorkOK

\* A log entry that is a commit is a typed, well-formed commit.
LEMMA CommitFields ==
  ASSUME NEW s, LogOK(s), NEW i \in DOMAIN s, IsCommit(s[i])
  PROVE  /\ s[i].commit \in Commit /\ s[i].commit.state \in State
         /\ s[i].commit.state.revision \in Nat /\ s[i].commit.state.revision > 0
         /\ s[i].commit.state.term \in Nat /\ s[i].commit.state.term = s[i].at
         /\ GoodCommit(s[i].commit) /\ ~IsLead(s[i]) /\ s[i].commit.nonce \in Nonce
<1>1. s[i] \in Entry /\ EntryOK(s[i])
  BY DEF LogOK
<1>2. s[i].commit \in Commit
  BY <1>1, EntryKinds DEF IsCommit
<1>3. s[i].commit.state \in State /\ s[i].commit.nonce \in Nonce
  BY <1>2 DEF Commit
<1> QED
  BY <1>1, <1>2, <1>3, Bounds DEF EntryOK, GoodCommit, State, Revision, Term, IsCommit, IsLead

\* A leadership entry is applied: the content stays, or a proposal is promoted
\* whose call has failed or is overtaken.
LEMMA ContentApplyLead ==
  ASSUME NEW s, LogOK(s), NEW k \in Nat, k < Len(s), ~IsCommit(s[k + 1]),
         NEW m, Machine(m), NEW t \in Term, NEW l \in Node, NEW y \in State,
         NEW w, NEW f \in BOOLEAN, NEW ph,
         w.pc # "idle" => w.commit.state.term \in Nat,
         ContentOK(m, y, s, k), WorkOK(m, w, f, ph, s, k)
  PROVE  LET r == InstallLeadership(m, t, l)
             z == IF InstallLeadershipFails(m, t, l) THEN y
                  ELSE AdvanceConsensusLeadership(y, r.state, t, l)
         IN ContentOK(r, z, s, k + 1) /\ WorkOK(r, w, f, ph, s, k + 1)
<1> DEFINE r == InstallLeadership(m, t, l)
           z == IF InstallLeadershipFails(m, t, l) THEN y
                ELSE AdvanceConsensusLeadership(y, r.state, t, l)
<1> SUFFICES ContentOK(r, z, s, k + 1) /\ WorkOK(r, w, f, ph, s, k + 1)
  OBVIOUS
<1>1. SamePayload(z, y)
  <2> DEFINE q == AdvanceConsensusLeadership(y, r.state, t, l)
  <2>1. SamePayload(q, y) \/ q = y
    BY AdvanceConsensusFields
  <2>2. z = q \/ z = y
    OBVIOUS
  <2> HIDE DEF q, z
  <2> QED
    BY <2>1, <2>2 DEF SamePayload
<1>2. Coherent(m)
  BY DEF ContentOK
<1>3. \/ t <= m.committed.term /\ r = m
      \/ t > m.committed.term /\ r = FreezeWrites(m, "closed")
      \/ /\ t > m.committed.term /\ m.committed.epoch < MaxEpoch
         /\ r = AdvanceLeadership(m, t, l)
  BY <1>2, LeadershipFields
<1> HIDE DEF r, z
<1>4. ContentOK(m, y, s, k + 1) /\ WorkOK(m, w, f, ph, s, k + 1)
  BY ContentSkip
<1>5. Replicated(z, s, k + 1)
  BY <1>1, <1>4 DEF ContentOK, Replicated, CommitAt, Empty, SamePayload
<1>10. ContentOK(r, y, s, k + 1) => ContentOK(r, z, s, k + 1)
  BY <1>5 DEF ContentOK
<1>6. CASE r = m
  BY <1>4, <1>6, <1>10, Zenon
<1>7. CASE r = FreezeWrites(m, "closed")
  <2>1. ContentOK(r, y, s, k + 1) /\ WorkOK(r, w, f, ph, s, k + 1)
    BY <1>4, <1>7, ContentFreeze DEF FreezeKind
  <2> QED
    BY <1>10, <2>1, Zenon
<1>8. CASE t > m.committed.term /\ m.committed.epoch < MaxEpoch /\ r = AdvanceLeadership(m, t, l)
  <2>1. /\ Coherent(r) /\ r.committed.term = t /\ r.state = r.committed
        /\ r.committedFences = NoEntries /\ r.proposals = NoEntries
        /\ \/ SamePayload(r.committed, m.committed)
           \/ m.state.revision # m.committed.revision /\ SamePayload(r.committed, m.state)
    BY <1>2, <1>8, AdvanceFields
  <2>2. DOMAIN r.committedFences = {}
    BY <2>1 DEF NoEntries
  <2>3. /\ m.committed.revision \in Nat /\ m.state.revision \in Nat /\ m.committed.term \in Nat
        /\ t \in Nat /\ m.committed.revision <= m.state.revision
    BY <1>2, Bounds DEF Machine, State, Revision, Term, Coherent
  <2>4. m.committed.revision <= r.committed.revision
    BY <2>1, <2>3 DEF SamePayload
  <2>5. UpToDate(r, s, k + 1)
    <3> SUFFICES ASSUME NEW i \in 1 .. k + 1, IsCommit(s[i])
                 PROVE  s[i].commit.state.revision <= r.committed.revision
      BY DEF UpToDate
    <3>1. s[i].commit.state.revision <= m.committed.revision
      BY <1>4 DEF ContentOK, UpToDate
    <3>2. s[i].commit.state.revision \in Nat
      BY CommitFields DEF LogOK
    <3>3. r.committed.revision \in Nat
      BY <2>1, <2>3 DEF SamePayload
    <3> QED
      BY <2>3, <2>4, <3>1, <3>2, <3>3
  <2>6. ContentOK(r, z, s, k + 1)
    BY <1>5, <2>1, <2>2, <2>5 DEF ContentOK, FencesOK
  <2>7. \/ Newest(r.committed, s, k + 1)
        \/ f
        \/ Active(w) /\ w.commit.state.term < r.committed.term
    <3>1. Active(w) => w.commit.state.term \in Nat
      BY DEF Active
    <3>2. CASE SamePayload(r.committed, m.committed)
      <4>1. Newest(m.committed, s, k + 1) => Newest(r.committed, s, k + 1)
        BY <3>2 DEF Newest, CommitAt, Empty, SamePayload
      <4> QED
        BY <1>4, <1>8, <2>1, <2>3, <3>1, <4>1 DEF WorkOK
    <3>3. CASE m.state.revision # m.committed.revision
      BY <1>4, <1>8, <2>1, <2>3, <3>1, <3>3 DEF WorkOK
    <3> QED
      BY <2>1, <3>2, <3>3
  <2>8. Active(w) => w.commit.state.term <= r.committed.term
    BY <1>4, <1>8, <2>1, <2>3 DEF WorkOK, Active
  <2>9. WorkOK(r, w, f, ph, s, k + 1)
    BY <1>4, <2>1, <2>7, <2>8 DEF WorkOK
  <2> QED
    BY <2>6, <2>9, Zenon
<1> QED
  BY <1>3, <1>6, <1>7, <1>8, Zenon

\* Commits of one revision are one commit.
LEMMA SameRevision ==
  ASSUME NEW s, LogOK(s), CommitsOK(s), NEW i \in DOMAIN s, NEW j \in DOMAIN s,
         IsCommit(s[i]), IsCommit(s[j])
  PROVE  /\ s[i].commit.state.revision = s[j].commit.state.revision => i = j
         /\ i < j => s[i].commit.state.revision < s[j].commit.state.revision
         /\ s[i].commit.state.revision < s[j].commit.state.revision => i < j
<1>1. /\ s[i].commit.state.revision \in Nat /\ s[j].commit.state.revision \in Nat
      /\ i \in Nat /\ j \in Nat
  BY CommitFields DEF LogOK
<1>2. i < j => s[i].commit.state.revision < s[j].commit.state.revision
  BY DEF CommitsOK, Follows
<1>3. j < i => s[j].commit.state.revision < s[i].commit.state.revision
  BY DEF CommitsOK, Follows
<1> QED
  BY <1>1, <1>2, <1>3

\* When a machine refuses a commit of the log, its own content is not the newest
\* one, and it is at least as new; a commit it loads has no older leadership.
LEMMA LoadDecision ==
  ASSUME NEW s, LogOK(s), CommitsOK(s), NEW k \in Nat, k < Len(s), IsCommit(s[k + 1]),
         NEW m, Machine(m), Led(m.committed, s, k)
  PROVE  LET c == s[k + 1].commit
         IN /\ CanLoadSnapshot(m, c.state) => m.committed.term <= c.state.term
            /\ ~CanLoadSnapshot(m, c.state) => /\ c.state.revision <= m.committed.revision
                                               /\ ~Newest(m.committed, s, k)
<1> DEFINE c == s[k + 1].commit
           x == m.committed
<1>1. k + 1 \in DOMAIN s /\ k \in 0 .. Len(s) /\ k + 1 \in 0 .. Len(s)
  BY DEF LogOK
<1>2. c.state \in State /\ c.state.term = s[k + 1].at /\ GoodCommit(c) /\ c.state.term \in Nat
      /\ c.state.revision \in Nat /\ c.state.revision > 0 /\ WellFormedSnapshot(c.state)
  BY <1>1, CommitFields DEF GoodCommit
<1>3. x \in State /\ x.term \in Nat /\ x.revision \in Nat /\ x.epoch \in Nat
  BY Bounds DEF Machine, State, Term, Revision, Epoch
<1>4. x.term <= c.state.term
  <2>1. CASE x.term = 0
    BY <1>2, <2>1
  <2>2. CASE x.term # 0
    <3>1. PICK i \in 1 .. k : IsLead(s[i]) /\ s[i].term = x.term
      BY <2>2 DEF Led, LeadAt
    <3>2. i \in DOMAIN s /\ i <= k + 1
      BY DEF LogOK
    <3>3. s[i].at <= s[k + 1].at /\ s[i].at = s[i].term
      BY <1>1, <3>1, <3>2 DEF LogOK, Ordered, EntryOK
    <3> QED
      BY <1>2, <3>1, <3>3
  <2> QED
    BY <2>1, <2>2
<1>5. Led(c.state, s, k + 1)
  BY <1>1 DEF CommitsOK
<1>6. /\ x.epoch = c.state.epoch => SameLeadership(x, c.state)
      /\ x.epoch < c.state.epoch => x.term < c.state.term
      /\ c.state.epoch < x.epoch => c.state.term < x.term
  BY <1>1, <1>2, <1>3, <1>5, LedAgree
<1>7. c.state.epoch \in Nat
  BY <1>2, Bounds DEF State, Epoch
<1>8. /\ c.state.epoch >= x.epoch
      /\ c.state.epoch = x.epoch => SameLeadership(c.state, x)
      /\ c.state.epoch > x.epoch => c.state.term > x.term
  BY <1>2, <1>3, <1>4, <1>6, <1>7 DEF SameLeadership
<1>9. ~CanLoadSnapshot(m, c.state) => c.state.revision <= x.revision
  BY <1>2, <1>3, <1>8 DEF CanLoadSnapshot
<1>10. Newest(x, s, k) => x.revision < c.state.revision
  <2>1. CASE Empty(x)
    BY <1>2, <2>1 DEF Empty
  <2>2. ASSUME NEW i \in 1 .. k, CommitAt(s, i, x) PROVE x.revision < c.state.revision
    <3>1. i \in DOMAIN s /\ i < k + 1 /\ IsCommit(s[i]) /\ x.revision = s[i].commit.state.revision
      BY <2>2 DEF LogOK, CommitAt, SamePayload
    <3> QED
      BY <1>1, <3>1 DEF CommitsOK, Follows
  <2> QED
    BY <2>1, <2>2 DEF Newest
<1> QED
  BY <1>2, <1>3, <1>4, <1>9, <1>10

\* The machine loads a commit of the log; the call that waits for it is answered.
LEMMA ContentApplyCommit ==
  ASSUME NEW s, LogOK(s), CommitsOK(s), NEW k \in Nat, k < Len(s), IsCommit(s[k + 1]),
         NEW m, Machine(m), Led(m.committed, s, k), CanLoadSnapshot(m, s[k + 1].commit.state),
         NEW w, NEW v, NEW f \in BOOLEAN, NEW ph, WorkOK(m, w, f, ph, s, k),
         w.pc # "idle" => w.commit.state.term \in Nat,
         v.commit = w.commit, v.pc = w.pc \/ (w.pc = "submitted" /\ v.pc = "replicated")
  PROVE  LET c == s[k + 1].commit
             r == LoadSnapshot(m, c.state)
         IN ContentOK(r, c.state, s, k + 1) /\ WorkOK(r, v, f, ph, s, k + 1)
<1> DEFINE c == s[k + 1].commit
           r == LoadSnapshot(m, c.state)
<1> SUFFICES ContentOK(r, c.state, s, k + 1) /\ WorkOK(r, v, f, ph, s, k + 1)
  OBVIOUS
<1>1. k + 1 \in DOMAIN s /\ k + 1 \in 1 .. k + 1
  BY DEF LogOK
<1>2. /\ c.state \in State /\ c.state.revision \in Nat /\ c.state.revision > 0
      /\ c.state.term \in Nat /\ GoodCommit(c)
  BY <1>1, CommitFields
<1>3. m.committed.term <= c.state.term /\ m.committed.term \in Nat
  BY LoadDecision, Bounds, SMTT(30) DEF Machine, State, Term
<1>4. /\ r.state = r.committed /\ r.nonces = c.state.ledger /\ r.proposals = NoEntries
      /\ SameLeadership(r.committed, c.state) /\ SamePayload(r.committed, c.state)
      /\ \A j \in DOMAIN r.committedFences : j = c.state.revision
      /\ \A j \in DOMAIN r.committedFences : r.committedFences[j] = c.state.desired
  BY <1>2, LoadFields
<1> HIDE DEF r
<1>5. Coherent(r)
  BY <1>2, <1>4 DEF Coherent, SameLeadership, SamePayload
<1>6. CommitAt(s, k + 1, r.committed) /\ CommitAt(s, k + 1, c.state)
  BY <1>4 DEF CommitAt, SamePayload
<1>7. Newest(r.committed, s, k + 1) /\ Replicated(c.state, s, k + 1)
  BY <1>1, <1>6 DEF Newest, Replicated
<1>8. UpToDate(r, s, k + 1)
  <2> SUFFICES ASSUME NEW i \in 1 .. k + 1, IsCommit(s[i])
               PROVE  s[i].commit.state.revision <= c.state.revision
    BY <1>4 DEF UpToDate, SamePayload
  <2>1. i \in DOMAIN s /\ (i = k + 1 \/ i < k + 1)
    BY DEF LogOK
  <2>2. s[i].commit.state.revision \in Nat
    BY <2>1, CommitFields
  <2>3. i < k + 1 => s[i].commit.state.revision < c.state.revision
    BY <1>1, <2>1, SameRevision
  <2> QED
    BY <1>2, <2>1, <2>2, <2>3
<1>9. FencesOK(r, s, k + 1)
  <2> SUFFICES ASSUME NEW j \in DOMAIN r.committedFences PROVE FenceAt(r, s, k + 1, j)
    BY <1>1 DEF FencesOK
  <2>1. j = c.state.revision /\ r.committedFences[j] = c.state.desired
    BY <1>4
  <2>2. j = r.committed.revision /\ \A x \in Nonce : r.nonces[x] = j <=> c.state.ledger[x] = j
    BY <1>4, <2>1 DEF SamePayload
  <2> QED
    BY <2>1, <2>2 DEF FenceAt
<1>10. ContentOK(r, c.state, s, k + 1)
  BY <1>5, <1>7, <1>8, <1>9 DEF ContentOK
<1>11. Active(v) => v.commit.state.term <= r.committed.term
  <2>1. Active(v) => Active(w) /\ w.pc # "idle" /\ v.commit = w.commit
    BY DEF Active
  <2>2. r.committed.term = c.state.term
    BY <1>4 DEF SameLeadership
  <2>3. Active(w) => w.commit.state.term <= m.committed.term
    BY DEF WorkOK
  <2> QED
    BY <1>2, <1>3, <2>1, <2>2, <2>3
<1>12. /\ f => v.pc = "idle"
       /\ ph # "ready" => v.pc = "idle" /\ ~f
  BY DEF WorkOK
<1>13. WorkOK(r, v, f, ph, s, k + 1)
  BY <1>4, <1>7, <1>11, <1>12 DEF WorkOK
<1> QED
  BY <1>10, <1>13

\* The machine refuses a commit of the log; the call that waits for it fails.
LEMMA ContentRefuse ==
  ASSUME NEW s, LogOK(s), CommitsOK(s), NEW k \in Nat, k < Len(s), IsCommit(s[k + 1]),
         NEW m, Machine(m), Led(m.committed, s, k), ~CanLoadSnapshot(m, s[k + 1].commit.state),
         NEW w, NEW v, NEW f \in BOOLEAN, NEW ph, WorkOK(m, w, f, ph, s, k),
         NEW y, ContentOK(m, y, s, k),
         v.commit = w.commit, v.pc = w.pc \/ (w.pc = "submitted" /\ v.pc = "lost")
  PROVE  ContentOK(m, y, s, k + 1) /\ WorkOK(m, v, f, ph, s, k + 1)
<1>1. \A i \in 1 .. k + 1 : i \in 1 .. k \/ i = k + 1
  OBVIOUS
<1>2. /\ s[k + 1].commit.state.revision <= m.committed.revision
      /\ ~Newest(m.committed, s, k)
  BY LoadDecision
<1>3. Replicated(y, s, k + 1)
  BY <1>1 DEF ContentOK, Replicated
<1>4. UpToDate(m, s, k + 1)
  BY <1>1, <1>2 DEF ContentOK, UpToDate
<1>5. FencesOK(m, s, k + 1)
  BY <1>1 DEF ContentOK, FencesOK
<1>6. (Active(w) => Active(v)) /\ (Active(v) => Active(w))
  BY DEF Active
<1>7. f => v.pc = "idle"
  BY DEF WorkOK
<1>8. Answered(v) => Answered(w)
  BY DEF Answered
<1>9. WorkOK(m, v, f, ph, s, k + 1)
  BY <1>2, <1>6, <1>7, <1>8 DEF WorkOK
<1> QED
  BY <1>3, <1>4, <1>5, <1>9 DEF ContentOK

\* A call proposes on an idle, open machine.
LEMMA ContentPropose ==
  ASSUME NEW s, NEW k, NEW m, Machine(m), NEW p \in Payload, NEW x \in Nonce,
         m.state.revision < MaxRevision, m.nonces[x] = 0,
         m.committed.revision = m.state.revision,
         NEW y, ContentOK(m, y, s, k), \A i \in 1 .. k : IsCommit(s[i]) => s[i].commit.state.revision > 0,
         NEW w, w.pc = "idle", WorkOK(m, w, FALSE, "ready", s, k)
  PROVE  LET r == Propose(m, p, x)
             v == [pc |-> "proposed", commit |-> ProposedCommit(m, p, x)]
         IN ContentOK(r, y, s, k) /\ WorkOK(r, v, FALSE, "ready", s, k)
<1> DEFINE r == Propose(m, p, x)
           c == ProposedCommit(m, p, x)
           v == [pc |-> "proposed", commit |-> c]
<1> SUFFICES ContentOK(r, y, s, k) /\ WorkOK(r, v, FALSE, "ready", s, k)
  OBVIOUS
<1>1. /\ r.committed = m.committed /\ r.committedFences = m.committedFences
      /\ r.state = c.state /\ SameLeadership(r.state, m.state)
      /\ r.state.revision = m.state.revision + 1
      /\ r.nonces = [m.nonces EXCEPT ![x] = m.state.revision + 1]
      /\ r.state.ledger = r.nonces
  BY ProposeFields
<1>2. v.pc = "proposed" /\ v.commit = c
  OBVIOUS
<1> HIDE DEF r, c, v
<1>3. m.state.revision \in Nat /\ m.nonces \in [Nonce -> Revision] /\ m.state.term \in Nat
  BY Bounds DEF Machine, State, Revision, Ledger, Term
<1>4. Coherent(r)
  BY <1>1, <1>3 DEF ContentOK, Coherent, SameLeadership
<1>5. UpToDate(r, s, k)
  BY <1>1 DEF ContentOK, UpToDate
<1>6. FencesOK(r, s, k)
  <2> SUFFICES ASSUME NEW j \in DOMAIN r.committedFences
               PROVE  \E i \in 1 .. k : FenceAt(r, s, i, j)
    BY DEF FencesOK
  <2>1. PICK i \in 1 .. k : FenceAt(m, s, i, j)
    BY <1>1 DEF ContentOK, FencesOK
  <2>2. j = m.state.revision /\ j > 0
    BY <2>1 DEF FenceAt
  <2>3. \A z \in Nonce : r.nonces[z] = j <=> m.nonces[z] = j
    BY <1>1, <1>3, <2>2
  <2> QED
    BY <1>1, <2>1, <2>3 DEF FenceAt
<1>7. ContentOK(r, y, s, k)
  BY <1>4, <1>5, <1>6 DEF ContentOK
<1>8. Active(v) /\ v.commit.state.term = r.committed.term /\ r.committed.term \in Nat
  BY <1>1, <1>2, <1>3 DEF Active, ContentOK, Coherent, SameLeadership
<1>9. Newest(r.committed, s, k)
  BY <1>1 DEF WorkOK, Active
<1>10. WorkOK(r, v, FALSE, "ready", s, k)
  BY <1>2, <1>8, <1>9 DEF WorkOK, Answered
<1> QED
  BY <1>7, <1>10

\* Bootstrap loads the consensus state into an idle machine.
LEMMA ContentReload ==
  ASSUME NEW s, LogOK(s), CommitsOK(s), NEW k \in 0 .. Len(s), NEW m, Machine(m),
         NEW y \in State, ContentOK(m, y, s, k), CanLoadSnapshot(m, y),
         NEW w, w.pc = "idle", NEW ph, WorkOK(m, w, FALSE, ph, s, k)
  PROVE  LET r == LoadSnapshot(m, y)
         IN ContentOK(r, y, s, k) /\ WorkOK(r, w, FALSE, ph, s, k)
<1> DEFINE r == LoadSnapshot(m, y)
           x == m.committed
<1> SUFFICES ContentOK(r, y, s, k) /\ WorkOK(r, w, FALSE, ph, s, k)
  OBVIOUS
<1>1. /\ r.state = r.committed /\ r.nonces = y.ledger /\ r.proposals = NoEntries
      /\ SameLeadership(r.committed, y) /\ SamePayload(r.committed, y)
      /\ \A j \in DOMAIN r.committedFences : j = y.revision
      /\ \A j \in DOMAIN r.committedFences : r.committedFences[j] = y.desired /\ j > 0
  BY LoadFields
<1> HIDE DEF r
<1>2. y.revision \in Nat /\ x.revision \in Nat /\ x.revision <= y.revision
  BY Bounds DEF Machine, State, Revision, CanLoadSnapshot
<1>3. Coherent(r)
  BY <1>1, <1>2 DEF Coherent, SameLeadership, SamePayload
<1>4. Newest(x, s, k)
  BY DEF WorkOK, Active
<1>5. Newest(y, s, k)
  <2>1. CASE \E i \in 1 .. k : CommitAt(s, i, y)
    <3>1. PICK i \in 1 .. k : CommitAt(s, i, y)
      BY <2>1
    <3>2. i \in DOMAIN s /\ IsCommit(s[i]) /\ y.revision = s[i].commit.state.revision
      BY <3>1 DEF LogOK, CommitAt, SamePayload
    <3>3. PICK j \in 1 .. k : CommitAt(s, j, x) /\ \A a \in 1 .. k : IsCommit(s[a]) => a <= j
      BY <1>4, <3>2 DEF Newest
    <3>4. j \in DOMAIN s /\ IsCommit(s[j]) /\ x.revision = s[j].commit.state.revision /\ i <= j
      BY <3>2, <3>3 DEF LogOK, CommitAt, SamePayload
    <3>5. ~(i < j)
      BY <1>2, <3>2, <3>4, SameRevision
    <3>6. i = j
      BY <3>4, <3>5
    <3> QED
      BY <3>1, <3>3, <3>6 DEF Newest
  <2>2. CASE Empty(y)
    <3>1. \A i \in 1 .. k : ~CommitAt(s, i, x)
      <4> SUFFICES ASSUME NEW i \in 1 .. k, CommitAt(s, i, x) PROVE FALSE
        OBVIOUS
      <4>1. i \in DOMAIN s
        BY DEF LogOK
      <4>2. x.revision > 0
        BY <4>1, CommitFields DEF CommitAt, SamePayload
      <4> QED
        BY <1>2, <2>2, <4>2 DEF Empty
    <3> QED
      BY <1>4, <2>2, <3>1 DEF Newest
  <2> QED
    BY <2>1, <2>2 DEF ContentOK, Replicated
<1>6. Newest(r.committed, s, k)
  BY <1>1, <1>5 DEF Newest, CommitAt, Empty, SamePayload
<1>7. UpToDate(r, s, k)
  <2> SUFFICES ASSUME NEW i \in 1 .. k, IsCommit(s[i])
               PROVE  s[i].commit.state.revision <= y.revision
    BY <1>1 DEF UpToDate, SamePayload
  <2>1. s[i].commit.state.revision <= x.revision
    BY DEF ContentOK, UpToDate
  <2>2. s[i].commit.state.revision \in Nat
    BY CommitFields DEF LogOK
  <2> QED
    BY <1>2, <2>1, <2>2
<1>8. FencesOK(r, s, k)
  <2> SUFFICES ASSUME NEW j \in DOMAIN r.committedFences
               PROVE  \E i \in 1 .. k : FenceAt(r, s, i, j)
    BY DEF FencesOK
  <2>1. j = y.revision /\ r.committedFences[j] = y.desired /\ j > 0
    BY <1>1
  <2>2. PICK i \in 1 .. k : CommitAt(s, i, y)
    BY <2>1 DEF ContentOK, Replicated, Empty
  <2>3. /\ s[i].commit.state.revision = j /\ j = r.committed.revision
        /\ r.committedFences[j] = s[i].commit.state.desired
        /\ r.nonces = s[i].commit.state.ledger /\ IsCommit(s[i])
    BY <1>1, <2>1, <2>2 DEF CommitAt, SamePayload
  <2> QED
    BY <2>3 DEF FenceAt
<1>9. ContentOK(r, y, s, k)
  BY <1>3, <1>7, <1>8 DEF ContentOK
<1>10. WorkOK(r, w, FALSE, ph, s, k)
  BY <1>1, <1>6 DEF WorkOK, Active
<1> QED
  BY <1>9, <1>10

\* A call moves on and the machine stays.
LEMMA WorkAdvance ==
  ASSUME NEW m, NEW w, NEW v, NEW f \in BOOLEAN, NEW ph, NEW s, NEW k, WorkOK(m, w, f, ph, s, k),
         v.commit = w.commit, w.pc # "idle",
         (Active(w) /\ Active(v)) \/ (Answered(w) /\ Answered(v))
  PROVE  WorkOK(m, v, f, ph, s, k)
BY DEF WorkOK, Active, Answered

\* A call that the log has answered returns.
LEMMA WorkDone ==
  ASSUME NEW m, NEW w, NEW f \in BOOLEAN, NEW ph, NEW s, NEW k, WorkOK(m, w, f, ph, s, k),
         Answered(w)
  PROVE  WorkOK(m, NoCall, f, ph, s, k)
<1>1. NoCall.pc = "idle"
  BY DEF NoCall
<1> QED
  BY <1>1 DEF WorkOK, Active, Answered

\* A call fails.
LEMMA WorkFail ==
  ASSUME NEW m, NEW w, NEW f \in BOOLEAN, NEW ph, NEW s, NEW k, WorkOK(m, w, f, ph, s, k),
         w.pc # "idle"
  PROVE  \A r : WorkOK(r, NoCall, TRUE, ph, s, k)
<1>1. NoCall.pc = "idle"
  BY DEF NoCall
<1> QED
  BY <1>1 DEF WorkOK, Active, Answered

-------------------------------------------------------------------------------
(* The replicas *)

ReplicaOK(n) ==
  /\ LeadOK(mach[n].committed, cons[n], log, applied[n])
  /\ ContentOK(mach[n], cons[n], log, applied[n])
  /\ WorkOK(mach[n], call[n], failed[n], phase[n], log, applied[n])

ReplicaInv == \A n \in Node : ReplicaOK(n)

\* What a node's part of the invariant depends on.
Local(n) == <<mach[n], cons[n], applied[n], call[n], failed[n], phase[n]>>

\* A step of node n leaves the other replicas alone.
LEMMA ReplicaFrame ==
  ASSUME ReplicaInv, NEW n \in Node, UNCHANGED log, ReplicaOK(n)',
         \A x \in Node \ {n} : UNCHANGED Local(x)
  PROVE  ReplicaInv'
<1> SUFFICES ASSUME NEW x \in Node PROVE ReplicaOK(x)'
  BY DEF ReplicaInv
<1>1. CASE x = n
  BY <1>1
<1>2. CASE x # n
  <2>1. ReplicaOK(x)
    BY DEF ReplicaInv
  <2>2. /\ mach'[x] = mach[x] /\ cons'[x] = cons[x] /\ applied'[x] = applied[x]
        /\ call'[x] = call[x] /\ failed'[x] = failed[x] /\ phase'[x] = phase[x]
    BY <1>2 DEF Local
  <2> QED
    BY <2>1, <2>2 DEF ReplicaOK
<1> QED
  BY <1>1, <1>2

\* A step that touches no replica.
LEMMA ReplicaSame ==
  ReplicaInv /\ UNCHANGED <<log, mach, cons, applied, call, failed, phase>> => ReplicaInv'
BY DEF ReplicaInv, ReplicaOK

\* Raft commits an entry.
LEMMA ReplicaCommit ==
  ASSUME Types, RaftInv, ReplicaInv, NEW i \in DOMAIN tail, CommitTail(i)
  PROVE  ReplicaInv'
<1>1. /\ log' = Append(log, tail[i]) /\ UNCHANGED <<mach, cons, applied, call, failed, phase>>
  BY Zenon DEF CommitTail, fsm, proc
<1>2. LogOK(log) /\ tail[i] \in Entry /\ EntryOK(tail[i])
      /\ \A j \in DOMAIN log : log[j].at <= tail[i].at
  BY RaftLog, KnownEntries DEF Types, RaftInv, EntriesInv, OrderInv
<1> SUFFICES ASSUME NEW n \in Node PROVE ReplicaOK(n)'
  BY DEF ReplicaInv
<1>3. /\ applied[n] \in 0 .. Len(log) /\ mach[n].committed \in State /\ cons[n] \in State
      /\ Len(log) \in Nat /\ log \in Seq(Entry)
  BY DEF Types, RaftTypes, MachTypes, Machine, NodeTypes
<1>4. ReplicaOK(n)
  BY DEF ReplicaInv
<1> DEFINE z == Append(log, tail[i])
<1>5. LeadOK(mach[n].committed, cons[n], z, applied[n])
  BY <1>2, <1>3, <1>4, LeadAppend DEF ReplicaOK
<1>6. \A j \in 1 .. applied[n] : z[j] = log[j]
  BY <1>3
<1> HIDE DEF z
<1>7. /\ ContentOK(mach[n], cons[n], z, applied[n])
      /\ WorkOK(mach[n], call[n], failed[n], phase[n], z, applied[n])
  BY <1>4, <1>6, ContentPrefix DEF ReplicaOK
<1>8. log' = z
  BY <1>1 DEF z
<1> QED
  BY <1>1, <1>5, <1>7, <1>8 DEF ReplicaOK

\* A step that freezes or resumes a machine and nothing else.
LEMMA ReplicaFreeze ==
  ASSUME Types, ReplicaInv, NEW n \in Node, NEW kind \in FreezeKind,
         mach' = [mach EXCEPT ![n] = FreezeWrites(mach[n], kind)],
         UNCHANGED <<log, cons, applied, call, failed, phase>>
  PROVE  ReplicaInv'
<1>1. Machine(mach[n]) /\ DOMAIN mach = Node /\ ReplicaOK(n)
  BY DEF Types, MachTypes, ReplicaInv
<1> DEFINE r == FreezeWrites(mach[n], kind)
<1>2. /\ \A y : ContentOK(mach[n], y, log, applied[n]) => ContentOK(r, y, log, applied[n])
      /\ \A w, f, ph : WorkOK(mach[n], w, f, ph, log, applied[n]) =>
                         WorkOK(r, w, f, ph, log, applied[n])
  BY <1>1, ContentFreeze
<1>3. SameLeadership(mach[n].committed, r.committed)
  BY <1>1, FreezeFields DEF SameLeadership
<1>4. mach'[n] = r /\ \A x \in Node \ {n} : mach'[x] = mach[x]
  BY <1>1
<1> HIDE DEF r
<1>5. LeadOK(r.committed, cons[n], log, applied[n])
  BY <1>1, <1>3, LedSame DEF ReplicaOK, LeadOK, SameLeadership
<1>6. ReplicaOK(n)'
  BY <1>1, <1>2, <1>4, <1>5 DEF ReplicaOK
<1>7. \A x \in Node \ {n} : UNCHANGED Local(x)
  BY <1>4 DEF Local
<1> QED
  BY <1>6, <1>7, ReplicaFrame

\* FailCall of a call in progress.
LEMMA ReplicaFail ==
  ASSUME Types, ReplicaInv, NEW n \in Node, call[n].pc # "idle", FailCall(n),
         UNCHANGED <<log, cons, applied, phase>>
  PROVE  ReplicaInv'
<1> DEFINE r == FreezeWrites(mach[n], "closed")
<1>1. /\ mach' = [mach EXCEPT ![n] = r] /\ failed' = [failed EXCEPT ![n] = TRUE]
      /\ call' = [call EXCEPT ![n] = NoCall]
  BY DEF FailCall
<1>2. Machine(mach[n]) /\ DOMAIN mach = Node /\ ReplicaOK(n)
      /\ failed \in [Node -> BOOLEAN] /\ call \in [Node -> Calls]
  BY DEF Types, MachTypes, NodeTypes, ProcTypes, ReplicaInv
<1>3. ContentOK(mach[n], cons[n], log, applied[n]) => ContentOK(r, cons[n], log, applied[n])
  BY <1>2, ContentFreeze DEF FreezeKind
<1>4. SameLeadership(mach[n].committed, r.committed)
  BY <1>2, FreezeFields DEF SameLeadership, FreezeKind
<1> HIDE DEF r
<1>5. WorkOK(r, NoCall, TRUE, phase[n], log, applied[n])
  <2>1. failed[n] \in BOOLEAN /\ call[n].pc # "idle"
        /\ WorkOK(mach[n], call[n], failed[n], phase[n], log, applied[n])
    BY <1>2 DEF ReplicaOK
  <2> QED
    BY <2>1, WorkFail, ZenonT(30)
<1>6. /\ mach'[n] = r /\ failed'[n] = TRUE /\ call'[n] = NoCall
      /\ \A x \in Node \ {n} : mach'[x] = mach[x] /\ failed'[x] = failed[x] /\ call'[x] = call[x]
  BY <1>1, <1>2
<1>7. LeadOK(r.committed, cons[n], log, applied[n])
  BY <1>2, <1>4, LedSame DEF ReplicaOK, LeadOK, SameLeadership
<1>8. ReplicaOK(n)'
  BY <1>2, <1>3, <1>5, <1>6, <1>7 DEF ReplicaOK
<1>9. \A x \in Node \ {n} : UNCHANGED Local(x)
  BY <1>6 DEF Local
<1> QED
  BY <1>8, <1>9, ReplicaFrame

\* A call moves on and the machine stays.
LEMMA ReplicaAdvance ==
  ASSUME Types, ReplicaInv, NEW n \in Node, call[n].pc # "idle", NEW pc,
         call' = [call EXCEPT ![n].pc = pc], \A x \in Node : mach'[x] = mach[x],
         UNCHANGED <<log, cons, applied, failed, phase>>,
         \/ {call[n].pc, pc} \subseteq {"proposed", "checked", "submitted", "lost"}
         \/ {call[n].pc, pc} \subseteq {"replicated", "durable", "installed"}
  PROVE  ReplicaInv'
<1>1. call \in [Node -> Calls] /\ failed[n] \in BOOLEAN /\ ReplicaOK(n)
  BY DEF Types, ProcTypes, NodeTypes, ReplicaInv
<1>2. /\ call'[n].pc = pc /\ call'[n].commit = call[n].commit
      /\ \A x \in Node \ {n} : call'[x] = call[x]
  BY <1>1 DEF Calls
<1>3. WorkOK(mach[n], call'[n], failed[n], phase[n], log, applied[n])
  <2> DEFINE v == call'[n]
  <2>1. WorkOK(mach[n], call[n], failed[n], phase[n], log, applied[n])
    BY <1>1 DEF ReplicaOK
  <2>2. /\ \/ Active(call[n]) /\ Active(v)
           \/ Answered(call[n]) /\ Answered(v)
        /\ v.commit = call[n].commit
    BY <1>2 DEF Active, Answered
  <2> HIDE DEF v
  <2>3. WorkOK(mach[n], v, failed[n], phase[n], log, applied[n])
    BY <1>1, <2>1, <2>2, WorkAdvance
  <2> QED
    BY <2>3 DEF v
<1>4. ReplicaOK(n)'
  BY <1>1, <1>3 DEF ReplicaOK
<1>5. \A x \in Node \ {n} : UNCHANGED Local(x)
  BY <1>2 DEF Local
<1> QED
  BY <1>4, <1>5, ReplicaFrame

-------------------------------------------------------------------------------
(* The commits a leader waits for *)

\* What node n has not applied yet.
Unapplied(n) == Entries(tail) \cup {log[i] : i \in {j \in DOMAIN log : j > applied[n]}}
Waits(n, e) == failed[n] \/ (call[n].pc = "submitted" /\ call[n].commit = e.commit)

\* A leader's commits of its own term are the one its call waits for, unless that
\* call has failed, and then it makes no other.
OwnOK(n) ==
  IsLeader(n) =>
    \A e \in Unapplied(n) :
      IsCommit(e) /\ e.commit.state.leader = n /\ e.at = curTerm[n] => Waits(n, e)

OwnInv == \A n \in Node : OwnOK(n)

\* A step that leaves the log, the leaders, the calls and the applied entries alone.
LEMMA OwnSame ==
  OwnInv /\ UNCHANGED <<log, tail, known, curTerm, applied, call, failed>> => OwnInv'
BY DEF OwnInv, OwnOK, Unapplied, Entries, Waits, IsLeader

\* The nodes other than n, when n submits at most one entry of its own.
LEMMA OwnOthers ==
  ASSUME OwnInv, RaftTypes, NEW n \in Node, UNCHANGED <<log, known, curTerm>>,
         \A x \in Node \ {n} : UNCHANGED Local(x),
         \/ UNCHANGED tail
         \/ \E e \in Entry : /\ tail' = Append(tail, e)
                             /\ IsCommit(e) => e.commit.state.leader = n
  PROVE  \A x \in Node \ {n} : OwnOK(x)'
<1> SUFFICES ASSUME NEW x \in Node \ {n} PROVE OwnOK(x)'
  OBVIOUS
<1>1. applied'[x] = applied[x] /\ call'[x] = call[x] /\ failed'[x] = failed[x]
  BY DEF Local
<1>2. \A e : Waits(x, e)' = Waits(x, e)
  BY <1>1 DEF Waits
<1>3. \A e \in Unapplied(x)' : e \in Unapplied(x) \/ ~(IsCommit(e) /\ e.commit.state.leader = x)
  <2>1. CASE UNCHANGED tail
    BY <1>1, <2>1 DEF Unapplied, Entries
  <2>2. ASSUME NEW d \in Entry, tail' = Append(tail, d), IsCommit(d) => d.commit.state.leader = n
        PROVE  \A e \in Unapplied(x)' :
                 e \in Unapplied(x) \/ ~(IsCommit(e) /\ e.commit.state.leader = x)
    <3>1. /\ DOMAIN tail' = 1 .. Len(tail) + 1 /\ DOMAIN tail = 1 .. Len(tail) /\ Len(tail) \in Nat
          /\ tail'[Len(tail) + 1] = d /\ \A i \in 1 .. Len(tail) : tail'[i] = tail[i]
      BY <2>2 DEF RaftTypes
    <3>2. \A e \in Unapplied(x)' : e \in Unapplied(x) \/ e = d
      BY <1>1, <3>1 DEF Unapplied, Entries
    <3> QED
      BY <2>2, <3>2
  <2> QED
    BY <2>1, <2>2
<1>4. OwnOK(x)
  BY DEF OwnInv
<1> QED
  BY <1>2, <1>3, <1>4 DEF OwnOK, IsLeader

\* Leaders come and go, raft commits entries.
LEMMA OwnRaft ==
  ASSUME Types, RaftInv, OwnInv, NEW n \in Node,
         Elect(n) \/ StepDown(n) \/ Learn(n) \/ ProcessEnds(n)
         \/ (\E i \in DOMAIN tail : CommitTail(i))
  PROVE  OwnInv'
<1>0. /\ known \in [Node -> Node \cup {NoNode}] /\ curTerm \in [Node -> Term] /\ term \in Nat
      /\ applied \in [Node -> Nat] /\ call \in [Node -> Calls] /\ failed \in [Node -> BOOLEAN]
  BY Bounds DEF Types, RaftTypes, NodeTypes, ProcTypes, Term
<1>1. ASSUME UNCHANGED <<log, tail>>, OwnOK(n)',
             \A x \in Node \ {n} : /\ known'[x] = known[x] /\ curTerm'[x] = curTerm[x]
                                   /\ applied'[x] = applied[x] /\ call'[x] = call[x]
                                   /\ failed'[x] = failed[x]
      PROVE  OwnInv'
  <2> SUFFICES ASSUME NEW x \in Node \ {n} PROVE OwnOK(x)'
    BY <1>1 DEF OwnInv
  <2>1. OwnOK(x)
    BY DEF OwnInv
  <2>2. Unapplied(x)' = Unapplied(x) /\ \A e : Waits(x, e)' = Waits(x, e)
    BY <1>1 DEF Unapplied, Entries, Waits
  <2> QED
    BY <1>1, <2>1, <2>2 DEF OwnOK, IsLeader
<1>2. CASE Elect(n)
  <2>1. /\ UNCHANGED <<log, tail, applied, call, failed>> /\ term' = term + 1
        /\ curTerm' = [curTerm EXCEPT ![n] = term + 1] /\ known' = [known EXCEPT ![n] = n]
    BY <1>2, Zenon DEF Elect, fsm, proc
  <2>2. \A e \in Unapplied(n)' : e.at <= term /\ e.at \in Nat
    <3>1. \A e \in Known : e.at <= term /\ e.at \in Nat
      BY KnownEntries DEF RaftInv, EntriesInv, Types
    <3>2. Unapplied(n)' \subseteq Known
      BY <2>1 DEF Unapplied, Known, Entries
    <3> QED
      BY <3>1, <3>2
  <2>3. OwnOK(n)'
    BY <1>0, <2>1, <2>2 DEF OwnOK
  <2> QED
    BY <1>0, <1>1, <2>1, <2>3
<1>3. CASE StepDown(n)
  <2>1. /\ UNCHANGED <<log, tail, applied, curTerm, failed>>
        /\ known' = [known EXCEPT ![n] = NoNode]
        /\ call' = call \/ call' = [call EXCEPT ![n].pc = "lost"]
    BY <1>3, Zenon DEF StepDown, fsm
  <2>2. OwnOK(n)'
    BY <1>0, <2>1 DEF OwnOK, IsLeader
  <2> QED
    BY <1>0, <1>1, <2>1, <2>2
<1>4. CASE ProcessEnds(n)
  <2>1. /\ UNCHANGED <<log, tail, curTerm>>
        /\ known' = [known EXCEPT ![n] = NoNode] /\ applied' = [applied EXCEPT ![n] = 0]
        /\ call' = [call EXCEPT ![n] = NoCall] /\ failed' = [failed EXCEPT ![n] = FALSE]
    BY <1>4, Zenon DEF ProcessEnds
  <2>2. OwnOK(n)'
    BY <1>0, <2>1 DEF OwnOK, IsLeader
  <2> QED
    BY <1>0, <1>1, <2>1, <2>2
<1>5. CASE Learn(n)
  <2>1. /\ UNCHANGED <<log, tail, applied, call, failed, lead>> /\ known[n] # n /\ lead # NoNode
        /\ curTerm' = [curTerm EXCEPT ![n] = term] /\ known' = [known EXCEPT ![n] = lead]
    BY <1>5, Zenon DEF Learn, IsLeader, fsm, proc
  <2>2. lead # n
    BY <2>1 DEF RaftInv, LeadersInv
  <2>3. OwnOK(n)'
    BY <1>0, <2>1, <2>2 DEF OwnOK, IsLeader
  <2> QED
    BY <1>0, <1>1, <2>1, <2>3
<1>6. ASSUME NEW i \in DOMAIN tail, CommitTail(i) PROVE OwnInv'
  <2>1. /\ log' = Append(log, tail[i]) /\ tail' = SubSeq(tail, i + 1, Len(tail))
        /\ UNCHANGED <<known, curTerm, applied, call, failed>>
    BY <1>6, Zenon DEF CommitTail, fsm, proc
  <2>2. log \in Seq(Entry) /\ tail \in Seq(Entry) /\ i \in 1 .. Len(tail)
    BY DEF Types, RaftTypes
  <2>3. /\ DOMAIN log' = 1 .. Len(log) + 1 /\ DOMAIN log = 1 .. Len(log) /\ Len(log) \in Nat
        /\ log'[Len(log) + 1] = tail[i] /\ \A j \in 1 .. Len(log) : log'[j] = log[j]
    BY <2>1, <2>2
  <2>4. \A j \in DOMAIN tail' : j + i \in DOMAIN tail /\ tail'[j] = tail[j + i]
    BY <2>1, <2>2
  <2> SUFFICES ASSUME NEW x \in Node PROVE OwnOK(x)'
    BY DEF OwnInv
  <2>5. Unapplied(x)' \subseteq Unapplied(x)
    <3>1. \A j \in DOMAIN tail' : tail'[j] \in Unapplied(x)
      BY <2>4 DEF Unapplied, Entries
    <3>2. \A j \in DOMAIN log' : j > applied[x] => log'[j] \in Unapplied(x)
      BY <2>3 DEF Unapplied, Entries
    <3> QED
      BY <2>1, <3>1, <3>2 DEF Unapplied, Entries
  <2>6. OwnOK(x) /\ \A e : Waits(x, e)' = Waits(x, e)
    BY <2>1 DEF OwnInv, Waits
  <2> QED
    BY <2>1, <2>5, <2>6 DEF OwnOK, IsLeader
<1> QED
  BY <1>2, <1>3, <1>4, <1>5, <1>6, Zenon

-------------------------------------------------------------------------------
(* The FSM applies the next entry *)

\* The facts both kinds of entry need.
LEMMA ApplyFacts ==
  ASSUME Types, RaftInv, LogInv, ReplicaInv, NEW n \in Node, ApplyEntry(n)
  PROVE  /\ LogOK(log) /\ CommitsOK(log) /\ applied[n] \in Nat /\ applied[n] < Len(log)
         /\ applied[n] + 1 \in DOMAIN log /\ log[applied[n] + 1] \in Entry
         /\ Machine(mach[n]) /\ cons[n] \in State /\ failed[n] \in BOOLEAN
         /\ call[n].pc # "idle" => call[n].commit.state.term \in Nat
         /\ ReplicaOK(n) /\ applied' = [applied EXCEPT ![n] = applied[n] + 1]
         /\ UNCHANGED <<log, tail, term, lead, curTerm, known, notify, phase, boot, failed, pg, hist>>
<1>1. /\ applied[n] < Len(log) /\ applied' = [applied EXCEPT ![n] = applied[n] + 1]
      /\ UNCHANGED <<log, tail, term, lead, curTerm, known, notify, phase, boot, failed, pg, hist>>
  BY Zenon DEF ApplyEntry, raft
<1>2. /\ log \in Seq(Entry) /\ applied[n] \in Nat /\ Machine(mach[n]) /\ cons[n] \in State
      /\ failed[n] \in BOOLEAN
  BY DEF Types, RaftTypes, NodeTypes, MachTypes
<1>3. applied[n] + 1 \in DOMAIN log /\ log[applied[n] + 1] \in Entry
  BY <1>1, <1>2
<1>4. call[n].pc # "idle" => call[n].commit.state.term \in Nat
  BY Bounds DEF Types, ProcTypes, Commit, State, Term
<1> QED
  BY <1>1, <1>2, <1>3, <1>4, RaftLog DEF LogInv, ReplicaInv, Types

\* Other commits are still waited for when the one of log[k] has been applied.
LEMMA OwnApply ==
  ASSUME Types, RaftInv, LogInv, NEW n \in Node, OwnOK(n),
         applied[n] + 1 \in DOMAIN log,
         applied' = [applied EXCEPT ![n] = applied[n] + 1],
         UNCHANGED <<log, tail, curTerm, known, failed>>,
         call'[n] = call[n] \/ (IsCommit(log[applied[n] + 1])
                                /\ call[n].commit = log[applied[n] + 1].commit)
  PROVE  OwnOK(n)'
<1> DEFINE k == applied[n] + 1
<1>1. applied \in [Node -> Nat] /\ applied'[n] = k /\ LogOK(log) /\ DOMAIN log = 1 .. Len(log)
  BY RaftLog, KnownEntries DEF Types, NodeTypes
<1>2. \A e \in Unapplied(n)' : e \in Unapplied(n)
  BY <1>1 DEF Unapplied, Entries
<1>3. CASE call'[n] = call[n]
  <2>1. \A e : Waits(n, e)' = Waits(n, e)
    BY <1>3 DEF Waits
  <2> QED
    BY <1>2, <2>1 DEF OwnOK, IsLeader
<1>4. CASE IsCommit(log[k]) /\ call[n].commit = log[k].commit
  <2>1. ASSUME NEW e \in Unapplied(n)', IsCommit(e) PROVE e.commit # log[k].commit
    <3>1. /\ log[k].commit.state.revision \in Nat
      BY <1>1, <1>4, CommitFields
    <3>2. CASE \E i \in DOMAIN tail : e = tail[i]
      BY <1>4, <2>1, <3>1, <3>2 DEF LogInv, TailInv, Follows
    <3>3. CASE \E i \in DOMAIN log : e = log[i] /\ i > k
      <4>1. PICK i \in DOMAIN log : e = log[i] /\ i > k
        BY <3>3
      <4>2. i \in Nat /\ k \in Nat
        BY <1>1
      <4>3. Follows(e.commit, log[k].commit)
        BY <1>4, <2>1, <4>1, <4>2 DEF LogInv, CommitsOK
      <4> QED
        BY <3>1, <4>3 DEF Follows
    <3> QED
      BY <1>1, <3>2, <3>3 DEF Unapplied, Entries
  <2>2. \A e \in Unapplied(n)' : IsCommit(e) /\ Waits(n, e) => Waits(n, e)'
    BY <1>4, <2>1 DEF Waits
  <2> QED
    BY <1>2, <2>2 DEF OwnOK, IsLeader
<1> QED
  BY <1>3, <1>4

\* Runtime.Apply keeps the replicas and what they wait for.
LEMMA ApplyKeeps ==
  ASSUME Types, RaftInv, LogInv, ReplicaInv, OwnInv, NEW n \in Node, ApplyEntry(n)
  PROVE  ReplicaInv' /\ OwnInv'
<1> DEFINE k == applied[n]
           e == log[k + 1]
           m == mach[n]
           y == cons[n]
<1>0. /\ LogOK(log) /\ CommitsOK(log) /\ k \in Nat /\ k < Len(log)
      /\ k + 1 \in DOMAIN log /\ e \in Entry
      /\ Machine(m) /\ y \in State /\ failed[n] \in BOOLEAN
      /\ call[n].pc # "idle" => call[n].commit.state.term \in Nat
      /\ applied' = [applied EXCEPT ![n] = k + 1]
      /\ UNCHANGED <<log, tail, curTerm, known, phase, failed>>
  BY ApplyFacts
<1>1. /\ LeadOK(m.committed, y, log, k) /\ ContentOK(m, y, log, k)
      /\ WorkOK(m, call[n], failed[n], phase[n], log, k)
  BY DEF ReplicaInv, ReplicaOK
<1>2. /\ DOMAIN mach = Node /\ cons \in [Node -> State] /\ applied \in [Node -> Nat]
      /\ call \in [Node -> Calls]
  BY DEF Types, MachTypes, NodeTypes, ProcTypes
<1>3. /\ e.kind = "lead" => ApplyLeadership(n, e)
      /\ e.kind # "lead" => ApplyCommit(n, e.commit)
  BY Zenon DEF ApplyEntry
<1>4. /\ e.kind = "lead" => e.term \in Term /\ e.leader \in Node /\ ~IsCommit(e)
      /\ e.kind # "lead" => IsCommit(e) /\ e.commit \in Commit
  BY <1>0, EntryKinds DEF IsCommit
<1>5. ASSUME NEW M, NEW Y, NEW W,
             mach'[n] = M, \A x \in Node \ {n} : mach'[x] = mach[x],
             cons' = [cons EXCEPT ![n] = Y],
             call' = [call EXCEPT ![n] = W],
             LeadOK(M.committed, Y, log, k + 1), ContentOK(M, Y, log, k + 1),
             WorkOK(M, W, failed[n], phase[n], log, k + 1),
             W = call[n] \/ (IsCommit(e) /\ call[n].commit = e.commit)
      PROVE  ReplicaInv' /\ OwnInv'
  <2>1. /\ mach'[n] = M /\ cons'[n] = Y /\ call'[n] = W /\ applied'[n] = k + 1
        /\ \A x \in Node \ {n} : /\ mach'[x] = mach[x] /\ cons'[x] = cons[x]
                                 /\ call'[x] = call[x] /\ applied'[x] = applied[x]
    BY <1>0, <1>2, <1>5
  <2>2. ReplicaOK(n)'
    BY <1>0, <1>5, <2>1 DEF ReplicaOK
  <2>3. \A x \in Node \ {n} : UNCHANGED Local(x)
    BY <1>0, <2>1 DEF Local
  <2>4. ReplicaInv'
    BY <1>0, <2>2, <2>3, ReplicaFrame
  <2>5. \A x \in Node \ {n} : OwnOK(x)'
    BY <1>0, <2>3, OwnOthers DEF Types
  <2>6. OwnOK(n)
    BY DEF OwnInv
  <2>7. OwnOK(n)'
    BY <1>0, <1>5, <2>1, <2>6, OwnApply
  <2> QED
    BY <2>4, <2>5, <2>7 DEF OwnInv
<1>6. CASE e.kind = "lead"
  <2> DEFINE t == e.term
             l == e.leader
             M == InstallLeadership(m, t, l)
             Y == IF InstallLeadershipFails(m, t, l) THEN y
                  ELSE AdvanceConsensusLeadership(y, M.state, t, l)
  <2>1. /\ mach' = [mach EXCEPT ![n] = M] /\ cons' = [cons EXCEPT ![n] = Y] /\ call' = call
    BY <1>3, <1>6 DEF ApplyLeadership
  <2>2. /\ call' = [call EXCEPT ![n] = call[n]]
        /\ mach'[n] = M /\ \A x \in Node \ {n} : mach'[x] = mach[x]
    BY <1>2, <2>1
  <2>3. t \in Term /\ l \in Node /\ ~IsCommit(e) /\ IsLead(e)
    BY <1>4, <1>6 DEF IsLead
  <2>4. LeadOK(M.committed, Y, log, k + 1)
    BY <1>0, <1>1, <2>3, LeadApplyLead DEF ContentOK
  <2>5. ContentOK(M, Y, log, k + 1) /\ WorkOK(M, call[n], failed[n], phase[n], log, k + 1)
    BY <1>0, <1>1, <2>3, ContentApplyLead
  <2> HIDE DEF M, Y
  <2> QED
    BY <1>5, <2>1, <2>2, <2>4, <2>5
<1>7. CASE e.kind # "lead"
  <2> DEFINE c == e.commit
             ok == CanLoadSnapshot(m, c.state)
             v == [call[n] EXCEPT !.pc = IF @ = "submitted" /\ call[n].commit = c
                                           THEN IF ok THEN "replicated" ELSE "lost" ELSE @]
  <2>1. IsCommit(e) /\ c \in Commit /\ c.state \in State
    BY <1>4, <1>7 DEF Commit
  <2>2. call' = [call EXCEPT ![n] = v]
    BY <1>2, <1>3, <1>7 DEF ApplyCommit
  <2>3. /\ v.commit = call[n].commit
        /\ ok => v.pc = call[n].pc \/ (call[n].pc = "submitted" /\ v.pc = "replicated")
        /\ ~ok => v.pc = call[n].pc \/ (call[n].pc = "submitted" /\ v.pc = "lost")
        /\ v = call[n] \/ call[n].commit = c
    <3>1. call[n] \in Calls
      BY <1>2
    <3> QED
      BY <3>1 DEF Calls
  <2> HIDE DEF v
  <2>4. CASE ok
    <3> DEFINE M == LoadSnapshot(m, c.state)
    <3>1. mach' = [mach EXCEPT ![n] = M] /\ cons' = [cons EXCEPT ![n] = c.state]
      BY <1>3, <1>7, <2>4 DEF ApplyCommit
    <3>6. mach'[n] = M /\ \A x \in Node \ {n} : mach'[x] = mach[x]
      BY <1>2, <3>1
    <3>2. SameLeadership(M.committed, c.state)
      BY <1>0, <2>1, LoadFields
    <3>3. ContentOK(M, c.state, log, k + 1) /\ WorkOK(M, v, failed[n], phase[n], log, k + 1)
      BY <1>0, <1>1, <2>1, <2>3, <2>4, ContentApplyCommit DEF LeadOK
    <3> HIDE DEF M
    <3>4. Led(c.state, log, k + 1)
      BY <1>0, <2>1 DEF CommitsOK
    <3>5. LeadOK(M.committed, c.state, log, k + 1)
      BY <1>0, <2>1, <3>2, <3>4, LeadApplyCommit
    <3> QED
      BY <1>5, <2>1, <2>2, <2>3, <3>1, <3>3, <3>5, <3>6
  <2>5. CASE ~ok
    <3>1. UNCHANGED mach /\ cons' = [cons EXCEPT ![n] = y]
      <4>1. UNCHANGED <<mach, cons>>
        BY <1>3, <1>7, <2>5 DEF ApplyCommit
      <4> QED
        BY <1>2, <4>1
    <3>2. ~IsLead(e)
      BY <1>7 DEF IsLead
    <3>3. LeadOK(m.committed, y, log, k + 1)
      BY <1>0, <1>1, <3>2, LeadSkip
    <3>4. ContentOK(m, y, log, k + 1) /\ WorkOK(m, v, failed[n], phase[n], log, k + 1)
      BY <1>0, <1>1, <2>1, <2>3, <2>5, ContentRefuse DEF LeadOK
    <3> QED
      BY <1>5, <2>1, <2>2, <2>3, <3>1, <3>3, <3>4
  <2> QED
    BY <2>4, <2>5
<1> QED
  BY <1>6, <1>7

-------------------------------------------------------------------------------
(* The leader submits a commit *)

CoreInv == Types /\ RaftInv /\ LogInv /\ ReplicaInv /\ OwnInv

\* Every commit that Runtime.Propose lets through is the next commit of the log.
LEMMA SubmitFacts ==
  ASSUME CoreInv, NEW n \in Node, call[n].pc = "checked", lead = n,
         CanReplicate(n, call[n].commit)
  PROVE  LET c == call[n].commit
         IN /\ c \in Commit /\ curTerm[n] = term /\ c.state.term = term /\ c.state.leader = n
            /\ GoodCommit(c) /\ Led(c.state, log, Len(log))
            /\ \A j \in DOMAIN log : IsCommit(log[j]) => Follows(c, log[j].commit)
            /\ \A j \in DOMAIN tail : ~IsCommit(tail[j])
<1> DEFINE c == call[n].commit
           x == mach[n].committed
           k == applied[n]
<1> USE DEF CoreInv
<1>1. /\ c \in Commit /\ c.state \in State /\ c.nonce \in Nonce /\ c.state.revision \in Nat
      /\ x \in State /\ x.revision \in Nat /\ x.ledger \in [Nonce -> Revision]
      /\ x.term \in Nat /\ c.state.term \in Nat
  BY Bounds DEF Types, ProcTypes, Commit, MachTypes, Machine, State, Revision, Ledger, Term
<1>2. /\ LogOK(log) /\ CommitsOK(log) /\ k \in 0 .. Len(log) /\ Len(log) \in Nat
      /\ DOMAIN log = 1 .. Len(log) /\ term \in Nat
  BY RaftLog, KnownEntries, Bounds DEF LogInv, Types, NodeTypes, RaftTypes, Term
<1>3. /\ known[n] = n /\ x.leader = n /\ x.term = curTerm[n] /\ SameLeadership(c.state, x)
      /\ c.state.revision = x.revision + 1
      /\ LedgerExtends(x.ledger, c.state.ledger, c.nonce, c.state.revision)
      /\ c.state.revision >= 1 /\ c.state.desired # NoPayload /\ ~Frozen(c.state)
      /\ ValidLedger(c.state.ledger, c.state.revision)
  BY <1>1 DEF CanReplicate, EnsureLeader, EnsureLeaderForRetry, HealthReady, IsLeader, ValidateCommit
<1>4. curTerm[n] = term /\ term >= 1
  BY <1>3 DEF RaftInv, LeadersInv
<1>5. c.state.term = term /\ c.state.leader = n
  BY <1>3, <1>4 DEF SameLeadership
<1>6. /\ LeadOK(x, cons[n], log, k) /\ Led(x, log, k)
      /\ WorkOK(mach[n], call[n], failed[n], phase[n], log, k)
  BY DEF ReplicaInv, ReplicaOK, LeadOK
<1>7. PICK i \in 1 .. k : IsLead(log[i]) /\ log[i].term = term /\ log[i].at = term /\ i \in DOMAIN log
  <2>1. PICK i \in 1 .. k : IsLead(log[i]) /\ log[i].term = x.term
    BY <1>3, <1>4, <1>6 DEF Led, LeadAt
  <2>2. i \in DOMAIN log
    BY <1>2
  <2> QED
    BY <1>2, <1>3, <1>4, <2>1, <2>2 DEF LogOK, EntryOK
<1>8. ~failed[n] /\ Newest(x, log, k)
  <2>1. ~failed[n]
    BY <1>6 DEF WorkOK
  <2>2. ~(call[n].commit.state.term < x.term)
    BY <1>1, <1>3, <1>4, <1>5
  <2> QED
    BY <1>6, <2>1, <2>2 DEF WorkOK
<1>9. ASSUME NEW e \in Unapplied(n) PROVE ~IsCommit(e)
  <2> SUFFICES ASSUME IsCommit(e) PROVE FALSE
    OBVIOUS
  <2>1. e \in Known /\ e.at \in Nat /\ e.at <= term
    <3>1. e \in Known
      BY DEF Unapplied, Known, Entries
    <3> QED
      BY <3>1, KnownEntries DEF RaftInv, EntriesInv, Types
  <2>2. e.at >= term /\ Led(e.commit.state, log, Len(log))
    <3>1. CASE \E j \in DOMAIN tail : e = tail[j]
      BY <1>7, <3>1 DEF RaftInv, OrderInv, LogInv, TailInv
    <3>2. CASE \E j \in DOMAIN log : j > k /\ e = log[j]
      <4>1. PICK j \in DOMAIN log : j > k /\ e = log[j]
        BY <3>2
      <4>2. log[i].at <= log[j].at
        BY <1>2, <1>7, <4>1 DEF LogOK, Ordered
      <4>3. Led(e.commit.state, log, j)
        BY <1>2, <4>1 DEF CommitsOK
      <4> QED
        BY <1>2, <1>7, <4>1, <4>2, <4>3, LedLonger
    <3> QED
      BY <3>1, <3>2 DEF Unapplied, Entries
  <2>3. e.at = term /\ e.commit.state.term = term /\ e.commit.state \in State
    <3>1. EntryOK(e) /\ e \in Entry
      BY <2>1, KnownEntries DEF RaftInv, EntriesInv, Types
    <3>2. e.commit \in Commit
      BY <3>1, EntryKinds DEF IsCommit
    <3> QED
      BY <1>2, <2>1, <2>2, <3>1, <3>2 DEF EntryOK, Commit
  <2>4. e.commit.state.epoch = x.epoch
    BY <1>3, <1>4, <1>6, <2>2, <2>3 DEF Led
  <2>5. Len(log) \in 0 .. Len(log)
    BY <1>2
  <2>6. e.commit.state.leader = n
    BY <1>1, <1>2, <1>3, <1>6, <2>2, <2>3, <2>4, <2>5, LedAgree, SMTT(30) DEF SameLeadership
  <2>7. Waits(n, e)
    BY <1>3, <1>4, <2>3, <2>6 DEF OwnInv, OwnOK, IsLeader
  <2> QED
    BY <1>8, <2>7 DEF Waits
<1>10. \A j \in DOMAIN tail : ~IsCommit(tail[j])
  BY <1>9 DEF Unapplied, Entries
<1>11. ASSUME NEW j \in DOMAIN log, IsCommit(log[j]) PROVE Follows(c, log[j].commit)
  <2>1. j \in 1 .. k
    <3>1. ~(j > k)
      BY <1>9, <1>11 DEF Unapplied
    <3> QED
      BY <1>2, <3>1
  <2>2. PICK a \in 1 .. k : CommitAt(log, a, x) /\ \A b \in 1 .. k : IsCommit(log[b]) => b <= a
    BY <1>8, <1>11, <2>1 DEF Newest
  <2>3. a \in DOMAIN log /\ IsCommit(log[a]) /\ j <= a /\ SamePayload(x, log[a].commit.state)
    BY <1>2, <1>11, <2>1, <2>2 DEF CommitAt
  <2>4. LedgerWithin(x.ledger, c.state.ledger)
    BY <1>1, <1>3 DEF LedgerExtends, LedgerWithin
  <2>5. /\ log[j].commit.state.revision <= x.revision
        /\ LedgerWithin(log[j].commit.state.ledger, x.ledger)
        /\ log[j].commit.state.revision \in Nat
    <3>1. log[j].commit.state.revision \in Nat
      BY <1>2, <1>11, CommitFields
    <3>2. CASE j = a
      BY <1>1, <2>3, <3>1, <3>2 DEF SamePayload, LedgerWithin
    <3>3. CASE j < a
      <4>1. Follows(log[a].commit, log[j].commit)
        BY <1>2, <1>11, <2>3, <3>3 DEF CommitsOK
      <4> QED
        BY <1>1, <2>3, <3>1, <4>1 DEF SamePayload, Follows
    <3> QED
      BY <1>2, <2>3, <3>2, <3>3
  <2>6. LedgerWithin(log[j].commit.state.ledger, c.state.ledger)
    BY <2>4, <2>5 DEF LedgerWithin
  <2> QED
    BY <1>1, <1>3, <2>5, <2>6 DEF Follows
<1>12. Led(c.state, log, Len(log))
  <2>1. Led(x, log, Len(log))
    BY <1>2, <1>6, LedLonger
  <2> QED
    BY <1>3, <2>1, LedSame DEF SameLeadership
<1>13. c.state.epoch > 0
  <2>1. term \in LeadTerms(log, term)
    BY <1>2, <1>4, <1>7 DEF LeadTerms
  <2>2. EpochOf(log, 0) < EpochOf(log, term)
    BY <1>2, <1>4, <2>1, EpochGrows
  <2> QED
    BY <1>5, <1>12, <2>2, EpochZero DEF Led
<1>14. GoodCommit(c)
  <2>1. c.state.ledger[c.nonce] = c.state.revision
    BY <1>1, <1>3 DEF LedgerExtends
  <2>2. n # NoNode
    OBVIOUS
  <2> QED
    BY <1>1, <1>3, <1>4, <1>5, <1>13, <2>1, <2>2 DEF GoodCommit, WellFormedSnapshot
<1> QED
  BY <1>1, <1>4, <1>5, <1>10, <1>11, <1>12, <1>14
===============================================================================
