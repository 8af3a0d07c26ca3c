-------------------------- MODULE ControlPlaneProofs --------------------------
(***************************************************************************)
(* The theorems about the composed control plane, for any number of nodes, *)
(* terms, epochs, revisions, nonces, payloads and crashes.                 *)
(*                                                                         *)
(* CoreInv, about the raft log and the replicas, is shown inductive action *)
(* by action from the lemmas of ControlPlaneReplicas.  DurableInv adds     *)
(* what PostgreSQL, the calls in progress and Bootstrap hold: every commit *)
(* that any of them can put into PostgreSQL is in the raft log.            *)
(***************************************************************************)
EXTENDS ControlPlaneReplicas

USE ControlStateAssumption

-------------------------------------------------------------------------------
(* The initial states *)

\* The migration handoff leaves a log of one leadership and one commit.
LEMMA CoreInit == Init => CoreInv
<1> SUFFICES ASSUME Init PROVE CoreInv
  OBVIOUS
<1>0. Types
  BY TypesInit
<1>1. PICK n \in Node, p \in Payload :
        /\ log = <<LeadEntry(1, n), CommitEntry(1, InitialCommit(n, p))>> /\ tail = <<>>
        /\ term = 1 /\ lead = NoNode
        /\ curTerm = [x \in Node |-> 1] /\ known = [x \in Node |-> NoNode]
        /\ applied = [x \in Node |-> 0] /\ mach = [x \in Node |-> NewMachine]
        /\ cons = [x \in Node |-> NewState]
        /\ phase = [x \in Node |-> "down"] /\ call = [x \in Node |-> NoCall]
        /\ failed = [x \in Node |-> FALSE]
  BY Zenon DEF Init
<1> DEFINE c == InitialCommit(n, p)
<1>2. /\ DOMAIN log = {1, 2} /\ Len(log) = 2 /\ log[1] = LeadEntry(1, n) /\ log[2] = CommitEntry(1, c)
      /\ DOMAIN tail = {} /\ Len(tail) = 0
  BY <1>1
<1>3. /\ IsLead(log[1]) /\ ~IsCommit(log[1]) /\ log[1].at = 1 /\ log[1].term = 1 /\ log[1].leader = n
      /\ IsCommit(log[2]) /\ ~IsLead(log[2]) /\ log[2].at = 1 /\ log[2].commit = c
  BY <1>2 DEF LeadEntry, CommitEntry, IsLead, IsCommit
<1>4. /\ c.state.leader = n /\ c.state.term = 1 /\ c.state.epoch = 1 /\ c.state.revision = 1
      /\ c.state.desired = p /\ c.state.freeze = "open"
      /\ c.state.ledger = [EmptyLedger EXCEPT ![1] = 1] /\ c.nonce = 1
  BY DEF InitialCommit
<1> HIDE DEF c
<1>5. GoodCommit(c)
  <2>1. /\ 1 \in Nonce /\ c.state.ledger[1] = 1 /\ \A x \in Nonce : x # 1 => c.state.ledger[x] = 0
    BY <1>4, NonceAssumption DEF EmptyLedger
  <2>2. ValidLedger(c.state.ledger, 1)
    BY <2>1 DEF ValidLedger
  <2> QED
    BY <1>4, <2>1, <2>2 DEF GoodCommit, WellFormedSnapshot, Frozen
<1>6. Known = {log[1], log[2]}
  BY <1>2 DEF Known, Entries
<1>7. RaftInv
  <2>1. LeadersInv
    BY <1>1 DEF LeadersInv, IsLeader
  <2>2. \A x \in Node : ~IsLeader(x)
    BY <1>1 DEF IsLeader
  <2>3. EntriesInv
    BY <1>1, <1>3, <1>4, <1>5, <1>6, <2>2 DEF EntriesInv, EntryOK, OwnTerm
  <2>4. OrderInv
    BY <1>2, <1>3 DEF OrderInv, Ordered
  <2> QED
    BY <2>1, <2>3, <2>4 DEF RaftInv
<1>8. EpochOf(log, 1) = 1
  <2>1. 1 \in LeadTerms(log, 1)
    BY <1>2, <1>3 DEF LeadTerms
  <2>2. \A v \in LeadTerms(log, 1) : v <= 0 \/ v = 1
    BY DEF LeadTerms
  <2> QED
    BY <2>1, <2>2, EpochNext, EpochZero
<1>9. LogInv
  <2>1. Led(c.state, log, 2)
    BY <1>3, <1>4, <1>8 DEF Led, LeadAt
  <2> QED
    BY <1>2, <1>3, <2>1 DEF LogInv, CommitsOK, TailInv
<1>10. ReplicaInv
  <2> SUFFICES ASSUME NEW x \in Node PROVE ReplicaOK(x)
    BY DEF ReplicaInv
  <2>1. /\ mach[x] = NewMachine /\ cons[x] = NewState /\ applied[x] = 0 /\ call[x] = NoCall
        /\ failed[x] = FALSE
    BY <1>1
  <2>2. NewMachine.committed = NewState
    BY DEF NewMachine
  <2> QED
    BY <2>1, <2>2, LeadNew, ContentNew DEF ReplicaOK
<1>11. OwnInv
  BY <1>1 DEF OwnInv, OwnOK, IsLeader
<1> QED
  BY <1>0, <1>7, <1>9, <1>10, <1>11 DEF CoreInv

-------------------------------------------------------------------------------
(* A policy write *)

\* A node that moves its call: nothing it waits for is forgotten, and a commit it
\* submits is what it then waits for.
LEMMA OwnCall ==
  ASSUME OwnInv, RaftTypes, NEW n \in Node, UNCHANGED <<log, known, curTerm, applied>>,
         \A x \in Node \ {n} : UNCHANGED Local(x),
         \/ failed'[n]
         \/ ~failed[n] /\ call[n].pc # "submitted"
         \/ failed'[n] = failed[n] /\ call'[n] = call[n],
         \/ UNCHANGED tail
         \/ \E e \in Entry : /\ tail' = Append(tail, e)
                             /\ IsCommit(e) => /\ e.commit.state.leader = n
                                               /\ call'[n].pc = "submitted"
                                               /\ call'[n].commit = e.commit
  PROVE  OwnInv'
<1>1. \A x \in Node \ {n} : OwnOK(x)'
  BY OwnOthers
<1>2. OwnOK(n)
  BY DEF OwnInv
<1>3. \A e \in Unapplied(n)' : e \in Unapplied(n) \/ (IsCommit(e) => Waits(n, e)')
  <2>1. CASE UNCHANGED tail
    BY <2>1 DEF Unapplied, Entries
  <2>2. ASSUME NEW d \in Entry, tail' = Append(tail, d), IsCommit(d) => Waits(n, d)'
        PROVE  \A e \in Unapplied(n)' : e \in Unapplied(n) \/ (IsCommit(e) => Waits(n, e)')
    <3>1. /\ DOMAIN tail' = 1 .. Len(tail) + 1 /\ DOMAIN tail = 1 .. Len(tail) /\ Len(tail) \in Nat
          /\ tail'[Len(tail) + 1] = d /\ \A i \in 1 .. Len(tail) : tail'[i] = tail[i]
      BY <2>2 DEF RaftTypes
    <3>2. \A e \in Unapplied(n)' : e \in Unapplied(n) \/ e = d
      BY <3>1 DEF Unapplied, Entries
    <3> QED
      BY <2>2, <3>2
  <2> QED
    BY <2>1, <2>2 DEF Waits
<1>4. \A e : Waits(n, e) => Waits(n, e)'
  BY DEF Waits
<1>5. OwnOK(n)'
  BY <1>2, <1>3, <1>4 DEF OwnOK, IsLeader
<1> QED
  BY <1>1, <1>5 DEF OwnInv

\* What the steps below show; the types have lemmas of their own.
Kept == RaftInv' /\ LogInv' /\ ReplicaInv' /\ OwnInv'

\* A call fails.
LEMMA CoreFail ==
  ASSUME CoreInv, NEW n \in Node, call[n].pc # "idle", FailCall(n),
         UNCHANGED <<raft, applied, cons, phase>>
  PROVE  Kept
<1>1. UNCHANGED <<log, tail, known, curTerm>>
  BY DEF raft
<1>2. ReplicaInv'
  BY <1>1, ReplicaFail DEF CoreInv
<1>3. /\ failed'[n] = TRUE
      /\ \A x \in Node \ {n} : mach'[x] = mach[x] /\ failed'[x] = failed[x] /\ call'[x] = call[x]
  BY DEF FailCall, CoreInv, Types, MachTypes, NodeTypes, ProcTypes
<1>4. OwnInv'
  <2>1. \A x \in Node \ {n} : UNCHANGED Local(x)
    BY <1>3 DEF Local
  <2>2. OwnInv /\ RaftTypes
    BY DEF CoreInv, Types
  <2> QED
    BY <1>1, <1>3, <2>1, <2>2, OwnCall
<1> QED
  BY <1>1, <1>2, <1>4, RaftSame, LogSame DEF CoreInv, Kept

\* A call moves on; the machine stays and nothing is submitted.
LEMMA CoreAdvance ==
  ASSUME CoreInv, NEW n \in Node, call[n].pc \notin {"idle", "submitted"}, NEW pc,
         call' = [call EXCEPT ![n].pc = pc], \A x \in Node : mach'[x] = mach[x],
         UNCHANGED <<raft, applied, cons, failed, phase>>,
         \/ {call[n].pc, pc} \subseteq {"proposed", "checked", "submitted", "lost"}
         \/ {call[n].pc, pc} \subseteq {"replicated", "durable", "installed"}
  PROVE  Kept
<1>1. UNCHANGED <<log, tail, known, curTerm>>
  BY DEF raft
<1>2. ReplicaInv'
  BY <1>1, ReplicaAdvance DEF CoreInv
<1>3. /\ ~failed[n] /\ \A x \in Node \ {n} : call'[x] = call[x]
  BY DEF CoreInv, Types, ProcTypes, ReplicaInv, ReplicaOK, WorkOK
<1>4. OwnInv'
  <2>1. \A x \in Node \ {n} : UNCHANGED Local(x)
    BY <1>3 DEF Local
  <2>2. OwnInv /\ RaftTypes
    BY DEF CoreInv, Types
  <2> QED
    BY <1>1, <1>3, <2>1, <2>2, OwnCall
<1> QED
  BY <1>1, <1>2, <1>4, RaftSame, LogSame DEF CoreInv, Kept

\* Runtime.Propose submits the commit, or its checks fail.
LEMMA CoreReplicate ==
  ASSUME CoreInv, NEW n \in Node, Replicate(n)
  PROVE  Kept
<1> DEFINE c == call[n].commit
           e == CommitEntry(curTerm[n], c)
<1>1. /\ call[n].pc = "checked"
      /\ UNCHANGED <<log, term, lead, curTerm, known, applied, cons, phase>>
  BY Zenon DEF Replicate
<1>2. \/ /\ CanReplicate(n, c) /\ tail' = IF lead = n THEN Append(tail, e) ELSE tail
         /\ call' = [call EXCEPT ![n].pc = "submitted"] /\ UNCHANGED <<mach, failed>>
      \/ FailCall(n) /\ UNCHANGED tail
  BY Zenon DEF Replicate, Submit, Advance
<1>3. CASE FailCall(n) /\ UNCHANGED tail
  BY <1>1, <1>3, CoreFail DEF raft
<1>4. CASE /\ call' = [call EXCEPT ![n].pc = "submitted"] /\ UNCHANGED <<mach, failed>>
           /\ UNCHANGED tail
  <2>1. /\ \A x \in Node : mach'[x] = mach[x]
        /\ {call[n].pc, "submitted"} \subseteq {"proposed", "checked", "submitted", "lost"}
        /\ UNCHANGED <<raft, applied, cons, failed, phase>>
    BY <1>1, <1>4 DEF raft
  <2> QED
    BY <1>1, <1>4, <2>1, CoreAdvance
<1>5. CASE /\ CanReplicate(n, c) /\ lead = n /\ tail' = Append(tail, e)
           /\ call' = [call EXCEPT ![n].pc = "submitted"] /\ UNCHANGED <<mach, failed>>
  <2>1. /\ c \in Commit /\ curTerm[n] = term /\ c.state.term = term /\ c.state.leader = n
        /\ GoodCommit(c) /\ Led(c.state, log, Len(log))
        /\ \A j \in DOMAIN log : IsCommit(log[j]) => Follows(c, log[j].commit)
        /\ \A j \in DOMAIN tail : ~IsCommit(tail[j])
    BY <1>1, <1>5, SubmitFacts
  <2>2. /\ e \in Entry /\ e.at = term /\ e.commit = c /\ IsCommit(e) /\ ~IsLead(e)
        /\ term >= 1 /\ lead # NoNode
    <3>1. term \in Term /\ curTerm[n] >= 1
      BY DEF CoreInv, Types, RaftTypes, RaftInv, LeadersInv
    <3>2. CommitEntry(term, c) \in Entry
      BY <2>1, <3>1, EntryFields
    <3> QED
      BY <1>5, <2>1, <3>1, <3>2 DEF CommitEntry, IsCommit, IsLead
  <2>3. EntryOK(e)
    BY <2>1, <2>2 DEF EntryOK
  <2> HIDE DEF e
  <2>4. RaftTypes /\ RaftInv /\ LogInv /\ ReplicaInv /\ OwnInv /\ Types
    BY DEF CoreInv, Types
  <2>5. RaftInv'
    BY <1>1, <1>5, <2>2, <2>3, <2>4, RaftSubmit
  <2>6. LogInv'
    BY <1>1, <1>5, <2>1, <2>2, <2>4, LogSubmit
  <2>7. ReplicaInv'
    <3>1. /\ \A x \in Node : mach'[x] = mach[x]
          /\ {call[n].pc, "submitted"} \subseteq {"proposed", "checked", "submitted", "lost"}
      BY <1>1, <1>5
    <3> QED
      BY <1>1, <1>5, <2>4, <3>1, ReplicaAdvance
  <2>8. OwnInv'
    <3>1. /\ call'[n].pc = "submitted" /\ call'[n].commit = c
          /\ \A x \in Node \ {n} : call'[x] = call[x]
      BY <1>5, <2>4 DEF Types, ProcTypes, Calls
    <3>2. \A x \in Node \ {n} : UNCHANGED Local(x)
      BY <1>1, <1>5, <3>1 DEF Local
    <3>3. ~failed[n]
      BY <1>1, <2>4 DEF ReplicaInv, ReplicaOK, WorkOK
    <3>4. \E d \in Entry : /\ tail' = Append(tail, d)
                           /\ IsCommit(d) => /\ d.commit.state.leader = n
                                             /\ call'[n].pc = "submitted"
                                             /\ call'[n].commit = d.commit
      BY <1>5, <2>1, <2>2, <3>1
    <3> QED
      BY <1>1, <2>4, <3>2, <3>3, <3>4, OwnCall
  <2> QED
    BY <2>5, <2>6, <2>7, <2>8 DEF Kept
<1> QED
  BY <1>2, <1>3, <1>4, <1>5

\* The commit is materialized and the caller told so, or the call fails.
LEMMA CoreMaterialize ==
  ASSUME CoreInv, NEW n \in Node, Materialize(n)
  PROVE  Kept
<1>1. /\ call[n].pc = "installed"
      /\ UNCHANGED <<raft, applied, cons, phase>>
      /\ FailCall(n) \/ (call' = [call EXCEPT ![n] = NoCall] /\ UNCHANGED <<mach, failed>>)
  BY Zenon DEF Materialize
<1>2. CASE FailCall(n)
  BY <1>1, <1>2, CoreFail
<1>3. CASE call' = [call EXCEPT ![n] = NoCall] /\ UNCHANGED <<mach, failed>>
  <2>1. UNCHANGED <<log, tail, known, curTerm>>
    BY <1>1 DEF raft
  <2>2. /\ ReplicaOK(n) /\ failed[n] \in BOOLEAN /\ Answered(call[n]) /\ call'[n] = NoCall
        /\ \A x \in Node \ {n} : call'[x] = call[x]
    BY <1>1, <1>3 DEF CoreInv, ReplicaInv, Types, NodeTypes, ProcTypes, Answered
  <2>3. WorkOK(mach[n], NoCall, failed[n], phase[n], log, applied[n])
    BY <2>2, WorkDone DEF ReplicaOK
  <2>4. ReplicaOK(n)'
    BY <1>1, <1>3, <2>1, <2>2, <2>3 DEF ReplicaOK
  <2>5. \A x \in Node \ {n} : UNCHANGED Local(x)
    BY <1>1, <1>3, <2>2 DEF Local
  <2>6. ReplicaInv'
    BY <2>1, <2>4, <2>5, ReplicaFrame DEF CoreInv
  <2>7. OwnInv'
    <3>1. ~failed[n] /\ call[n].pc # "submitted" /\ OwnInv /\ RaftTypes
      BY <1>1, <2>2 DEF ReplicaOK, WorkOK, CoreInv, Types
    <3> QED
      BY <1>1, <2>1, <2>5, <3>1, OwnCall
  <2> QED
    BY <1>1, <2>1, <2>6, <2>7, RaftSame, LogSame DEF CoreInv, Kept
<1> QED
  BY <1>1, <1>2, <1>3

\* A commit that the log has answered is already in the machine.
LEMMA CoreInstall ==
  ASSUME CoreInv, NEW n \in Node, Install(n)
  PROVE  Kept
<1> DEFINE c == call[n].commit
           carried == CarriesExactCommit(mach[n].committed, c)
<1>1. call[n].pc = "durable" /\ UNCHANGED <<raft, applied, cons, phase>>
  BY Zenon DEF Install
<1>2. \/ /\ carried \/ ValidateCommit(mach[n], c)
         /\ mach' = [mach EXCEPT ![n] = IF carried THEN mach[n] ELSE InstallCommit(mach[n], c)]
         /\ call' = [call EXCEPT ![n].pc = "installed"] /\ UNCHANGED failed
      \/ FailCall(n)
  BY Zenon DEF Install
<1>3. CASE FailCall(n)
  BY <1>1, <1>3, CoreFail
<1>4. CASE /\ carried \/ ValidateCommit(mach[n], c)
           /\ mach' = [mach EXCEPT ![n] = IF carried THEN mach[n] ELSE InstallCommit(mach[n], c)]
           /\ call' = [call EXCEPT ![n].pc = "installed"] /\ UNCHANGED failed
  <2>1. mach[n].proposals = NoEntries
    BY <1>1 DEF CoreInv, ReplicaInv, ReplicaOK, WorkOK, Answered
  <2>2. carried
    BY <1>4, <2>1 DEF ValidateCommit, NoEntries
  <2>3. \A x \in Node : mach'[x] = mach[x]
    BY <1>4, <2>2 DEF CoreInv, Types, MachTypes
  <2>4. {call[n].pc, "installed"} \subseteq {"replicated", "durable", "installed"}
    BY <1>1
  <2> QED
    BY <1>1, <1>4, <2>3, <2>4, CoreAdvance
<1> QED
  BY <1>2, <1>3, <1>4

\* The stages of a policy write.
LEMMA CoreCall ==
  ASSUME CoreInv, NEW n \in Node, CallStep(n)
  PROVE  CoreInv'
<1>1. Types'
  BY TypesCall DEF CoreInv
<1>2. CASE CheckBaseline(n)
  <2>1. /\ call[n].pc = "proposed" /\ UNCHANGED <<raft, applied, cons, phase>>
        /\ FailCall(n) \/ (call' = [call EXCEPT ![n].pc = "checked"] /\ UNCHANGED <<mach, failed>>)
    BY <1>2, Zenon DEF CheckBaseline, Advance
  <2>2. ASSUME FailCall(n) PROVE Kept
    BY <2>1, <2>2, CoreFail
  <2>3. ASSUME call' = [call EXCEPT ![n].pc = "checked"] /\ UNCHANGED <<mach, failed>>
        PROVE  Kept
    <3>1. /\ \A x \in Node : mach'[x] = mach[x]
          /\ {call[n].pc, "checked"} \subseteq {"proposed", "checked", "submitted", "lost"}
      BY <2>1, <2>3
    <3> QED
      BY <2>1, <2>3, <3>1, CoreAdvance
  <2>4. Kept
    BY <2>1, <2>2, <2>3, Zenon
  <2> QED
    BY <1>1, <2>4 DEF CoreInv, Kept
<1>3. CASE Replicate(n)
  BY <1>1, <1>3, CoreReplicate DEF CoreInv, Kept
<1>4. CASE ReplicateFails(n)
  <2>1. call[n].pc = "lost" /\ FailCall(n) /\ UNCHANGED <<raft, applied, cons, phase>>
    BY <1>4, Zenon DEF ReplicateFails
  <2>2. Kept
    BY <2>1, CoreFail
  <2> QED
    BY <1>1, <2>2 DEF CoreInv, Kept
<1>5. CASE Persist(n)
  <2>1. /\ call[n].pc = "replicated" /\ UNCHANGED <<raft, applied, cons, phase>>
        /\ FailCall(n) \/ (call' = [call EXCEPT ![n].pc = "durable"] /\ UNCHANGED <<mach, failed>>)
    BY <1>5, Zenon DEF Persist, Advance
  <2>2. ASSUME FailCall(n) PROVE Kept
    BY <2>1, <2>2, CoreFail
  <2>3. ASSUME call' = [call EXCEPT ![n].pc = "durable"] /\ UNCHANGED <<mach, failed>>
        PROVE  Kept
    <3>1. /\ \A x \in Node : mach'[x] = mach[x]
          /\ {call[n].pc, "durable"} \subseteq {"replicated", "durable", "installed"}
      BY <2>1, <2>3
    <3> QED
      BY <2>1, <2>3, <3>1, CoreAdvance
  <2>4. Kept
    BY <2>1, <2>2, <2>3, Zenon
  <2> QED
    BY <1>1, <2>4 DEF CoreInv, Kept
<1>6. CASE Install(n)
  BY <1>1, <1>6, CoreInstall DEF CoreInv, Kept
<1>7. CASE Materialize(n)
  BY <1>1, <1>7, CoreMaterialize DEF CoreInv, Kept
<1> QED
  BY <1>2, <1>3, <1>4, <1>5, <1>6, <1>7, Zenon DEF CallStep

\* A call starts on a node with no other call and no failed one.
LEMMA CoreStartCall ==
  ASSUME CoreInv, NEW n \in Node, NEW p \in Payload, StartCall(n, p)
  PROVE  CoreInv'
<1> DEFINE m == mach[n]
           x == drawn + 1
           r == Propose(m, p, x)
           v == [pc |-> "proposed", commit |-> ProposedCommit(m, p, x)]
<1>1. /\ phase[n] = "ready" /\ ~failed[n] /\ call[n].pc = "idle" /\ x \in Nonce
      /\ CanPropose(m, m.committed.leader, m.committed.epoch, m.committed.revision, x)
      /\ m.state.revision < MaxRevision
      /\ mach' = [mach EXCEPT ![n] = r] /\ call' = [call EXCEPT ![n] = v]
      /\ UNCHANGED <<raft, applied, cons, phase, failed>>
  BY Zenon DEF StartCall
<1>2. m.nonces[x] = 0 /\ m.committed.revision = m.state.revision
  BY <1>1 DEF CanPropose
<1>3. UNCHANGED <<log, tail, known, curTerm>>
  BY <1>1 DEF raft
<1>4. /\ ReplicaOK(n) /\ Machine(m) /\ DOMAIN mach = Node /\ call \in [Node -> Calls]
      /\ failed[n] = FALSE /\ LogOK(log) /\ applied[n] \in 0 .. Len(log) /\ OwnInv /\ RaftTypes
      /\ DOMAIN log = 1 .. Len(log) /\ Len(log) \in Nat
  BY <1>1, RaftLog, KnownEntries DEF CoreInv, ReplicaInv, Types, MachTypes, NodeTypes, ProcTypes
<1>5. \A i \in 1 .. applied[n] : IsCommit(log[i]) => log[i].commit.state.revision > 0
  BY <1>4, CommitFields
<1>6. /\ ContentOK(r, cons[n], log, applied[n])
      /\ WorkOK(r, v, FALSE, "ready", log, applied[n])
  <2>1. /\ ContentOK(m, cons[n], log, applied[n])
        /\ WorkOK(m, call[n], FALSE, "ready", log, applied[n])
    BY <1>1, <1>4 DEF ReplicaOK
  <2> HIDE DEF x
  <2> QED
    BY <1>1, <1>2, <1>4, <1>5, <2>1, ContentPropose
<1>7. r.committed = m.committed
  BY <1>1, <1>4, ProposeFields
<1>8. /\ mach'[n] = r /\ call'[n] = v
      /\ \A y \in Node \ {n} : mach'[y] = mach[y] /\ call'[y] = call[y]
  BY <1>1, <1>4
<1> HIDE DEF m, x, r, v
<1>9. ReplicaOK(n)'
  BY <1>1, <1>3, <1>4, <1>6, <1>7, <1>8 DEF ReplicaOK, m
<1>10. \A y \in Node \ {n} : UNCHANGED Local(y)
  BY <1>1, <1>8 DEF Local
<1>11. ReplicaInv'
  BY <1>3, <1>9, <1>10, ReplicaFrame DEF CoreInv
<1>12. OwnInv'
  BY <1>1, <1>3, <1>4, <1>10, OwnCall
<1> QED
  BY <1>1, <1>3, <1>11, <1>12, RaftSame, LogSame, TypesStartCall DEF CoreInv

-------------------------------------------------------------------------------
(* The runtime *)

\* The new leader submits its leadership.
LEMMA CoreObserveWon ==
  ASSUME CoreInv, NEW n \in Node, ObserveWon(n)
  PROVE  Kept
<1> DEFINE e == LeadEntry(curTerm[n], n)
<1>1. /\ UNCHANGED <<log, term, lead, curTerm, known, applied, mach, cons, phase, call, failed>>
      /\ tail' = tail \/ (lead = n /\ tail' = Append(tail, e))
  BY Zenon DEF ObserveWon, Submit, fsm, proc
<1>2. RaftTypes /\ RaftInv /\ LogInv /\ ReplicaInv /\ OwnInv
  BY DEF CoreInv, Types
<1>3. ReplicaInv'
  BY <1>1, <1>2, ReplicaSame
<1>4. CASE tail' = tail
  BY <1>1, <1>2, <1>3, <1>4, RaftSame, LogSame, OwnSame DEF Kept, raft
<1>5. CASE lead = n /\ tail' = Append(tail, e)
  <2>1. curTerm[n] = term /\ term >= 1 /\ lead # NoNode /\ term \in Term
    BY <1>2, <1>5 DEF RaftInv, LeadersInv, RaftTypes
  <2>2. /\ e \in Entry /\ e.at = term /\ e.term = term /\ e.leader = n /\ IsLead(e) /\ ~IsCommit(e)
    <3>1. LeadEntry(term, n) \in Entry
      BY <2>1, EntryFields
    <3> QED
      BY <2>1, <3>1 DEF LeadEntry, IsLead, IsCommit
  <2>3. EntryOK(e)
    BY <2>1, <2>2 DEF EntryOK
  <2> HIDE DEF e
  <2>4. RaftInv'
    BY <1>1, <1>2, <1>5, <2>1, <2>2, <2>3, RaftSubmit
  <2>5. LogInv'
    BY <1>1, <1>2, <1>5, <2>2, LogSubmit
  <2>6. OwnInv'
    <3>1. \A x \in Node \ {n} : UNCHANGED Local(x)
      BY <1>1 DEF Local
    <3>2. failed'[n] = failed[n] /\ call'[n] = call[n]
      BY <1>1
    <3>3. \E d \in Entry : tail' = Append(tail, d) /\ ~IsCommit(d)
      BY <1>5, <2>2
    <3> QED
      BY <1>1, <1>2, <3>1, <3>2, <3>3, OwnCall
  <2> QED
    BY <1>3, <2>4, <2>5, <2>6 DEF Kept
<1> QED
  BY <1>1, <1>4, <1>5

\* The leadership observer and the FSM.
LEMMA CoreRuntime ==
  ASSUME CoreInv, NEW n \in Node, Runtime(n)
  PROVE  CoreInv'
<1>1. Types'
  <2>1. \A x \in Node : Coherent(mach[x])
    BY DEF CoreInv, ReplicaInv, ReplicaOK, ContentOK
  <2> QED
    BY <2>1, TypesRuntime DEF CoreInv
<1>2. CASE ObserveLost(n)
  <2>1. /\ mach' = [mach EXCEPT ![n] = FreezeWrites(mach[n], "unavailable")]
        /\ UNCHANGED <<raft, applied, cons, phase, call, failed>>
    BY <1>2, Zenon DEF ObserveLost, proc
  <2>2. UNCHANGED <<log, tail, known, curTerm>> /\ "unavailable" \in FreezeKind
    BY <2>1 DEF raft, FreezeKind
  <2>3. ReplicaInv'
    BY <2>1, <2>2, ReplicaFreeze DEF CoreInv
  <2> QED
    BY <1>1, <2>1, <2>2, <2>3, RaftSame, LogSame, OwnSame DEF CoreInv
<1>3. CASE ObserveWon(n)
  BY <1>1, <1>3, CoreObserveWon DEF CoreInv, Kept
<1>4. CASE ApplyEntry(n)
  <2>1. UNCHANGED raft
    BY <1>4, Zenon DEF ApplyEntry
  <2>2. ReplicaInv' /\ OwnInv'
    BY <1>4, ApplyKeeps DEF CoreInv
  <2> QED
    BY <1>1, <2>1, <2>2, RaftSame, LogSame DEF CoreInv, raft
<1> QED
  BY <1>2, <1>3, <1>4, Zenon DEF Runtime

-------------------------------------------------------------------------------
(* Raft and the processes *)

\* Elections, elections noticed, and commits.
LEMMA CoreRaft ==
  ASSUME CoreInv, Raft
  PROVE  CoreInv'
<1>1. ASSUME NEW n \in Node, Elect(n) \/ StepDown(n) \/ Learn(n)
      PROVE  CoreInv'
  <2>1. Types' /\ RaftInv' /\ OwnInv'
    <3>1. Types /\ RaftTypes /\ RaftInv /\ OwnInv
      BY DEF CoreInv, Types
    <3> QED
      BY <1>1, <3>1, TypesRaft, RaftKeeps, OwnRaft, Zenon
  <2>2. UNCHANGED <<log, tail, mach, cons, applied, failed, phase>>
    BY <1>1, Zenon DEF Elect, StepDown, Learn, fsm, proc
  <2>3. \/ UNCHANGED call
        \/ call[n].pc = "submitted" /\ call' = [call EXCEPT ![n].pc = "lost"]
    BY <1>1, Zenon DEF Elect, StepDown, Learn, proc
  <2>4. ReplicaInv'
    <3>1. CASE UNCHANGED call
      BY <2>2, <3>1, ReplicaSame DEF CoreInv
    <3>2. CASE call[n].pc = "submitted" /\ call' = [call EXCEPT ![n].pc = "lost"]
      <4>1. /\ \A x \in Node : mach'[x] = mach[x]
            /\ {call[n].pc, "lost"} \subseteq {"proposed", "checked", "submitted", "lost"}
        BY <2>2, <3>2
      <4> QED
        BY <2>2, <3>2, <4>1, ReplicaAdvance DEF CoreInv
    <3> QED
      BY <2>3, <3>1, <3>2
  <2> QED
    BY <2>1, <2>2, <2>4, LogSame DEF CoreInv
<1>2. ASSUME NEW i \in DOMAIN tail, CommitTail(i), NEW n \in Node
      PROVE  CoreInv'
  <2>1. Types' /\ RaftInv' /\ OwnInv'
    <3>1. Types /\ RaftTypes /\ RaftInv /\ OwnInv
      BY DEF CoreInv, Types
    <3> QED
      BY <1>2, <3>1, TypesRaft, RaftKeeps, OwnRaft, Zenon
  <2>2. LogInv' /\ ReplicaInv'
    BY <1>2, LogCommit, ReplicaCommit DEF CoreInv, Types
  <2> QED
    BY <2>1, <2>2 DEF CoreInv
<1>3. ASSUME NEW i \in DOMAIN tail, CommitTail(i) PROVE lead \in Node
  <2>1. lead # NoNode
    BY <1>3, Zenon DEF CommitTail
  <2> QED
    BY <2>1 DEF CoreInv, Types, RaftTypes
<1> QED
  BY <1>1, <1>2, <1>3, Zenon DEF Raft

\* A process that ends loses its replica and its call, and is no leader any more.
LEMMA CoreProcess ==
  ASSUME CoreInv, NEW n \in Node, Start(n) \/ Crash(n) \/ BootFails(n)
  PROVE  CoreInv'
<1>1. Types'
  BY TypesProcess DEF CoreInv
<1>2. CASE Start(n)
  <2>1. /\ phase[n] = "down" /\ phase' = [phase EXCEPT ![n] = "booting"]
        /\ UNCHANGED <<raft, applied, mach, cons, call, failed>>
    BY <1>2, Zenon DEF Start, fsm
  <2>2. UNCHANGED <<log, tail, known, curTerm>>
    BY <2>1 DEF raft
  <2>3. /\ ReplicaOK(n) /\ phase'[n] = "booting" /\ \A x \in Node \ {n} : phase'[x] = phase[x]
    BY <2>1 DEF CoreInv, ReplicaInv, Types, NodeTypes
  <2>4. ReplicaOK(n)'
    BY <2>1, <2>2, <2>3 DEF ReplicaOK, WorkOK
  <2>5. \A x \in Node \ {n} : UNCHANGED Local(x)
    BY <2>1, <2>3 DEF Local
  <2>6. ReplicaInv'
    BY <2>2, <2>4, <2>5, ReplicaFrame DEF CoreInv
  <2> QED
    BY <1>1, <2>1, <2>2, <2>6, RaftSame, LogSame, OwnSame DEF CoreInv
<1>3. CASE Crash(n) \/ BootFails(n)
  <2>1. ProcessEnds(n)
    BY <1>3, Zenon DEF Crash, BootFails
  <2>2. RaftInv' /\ OwnInv'
    <3>1. Types /\ RaftTypes /\ RaftInv /\ OwnInv
      BY DEF CoreInv, Types
    <3> QED
      BY <2>1, <3>1, RaftKeeps, OwnRaft, Zenon
  <2>3. /\ UNCHANGED <<log, tail>> /\ phase' = [phase EXCEPT ![n] = "down"]
        /\ applied' = [applied EXCEPT ![n] = 0] /\ mach' = [mach EXCEPT ![n] = NewMachine]
        /\ cons' = [cons EXCEPT ![n] = NewState] /\ call' = [call EXCEPT ![n] = NoCall]
        /\ failed' = [failed EXCEPT ![n] = FALSE]
    BY <2>1, Zenon DEF ProcessEnds
  <2>4. /\ phase'[n] = "down" /\ applied'[n] = 0 /\ mach'[n] = NewMachine /\ cons'[n] = NewState
        /\ call'[n] = NoCall /\ failed'[n] = FALSE
        /\ \A x \in Node \ {n} : /\ phase'[x] = phase[x] /\ applied'[x] = applied[x]
                                 /\ mach'[x] = mach[x] /\ cons'[x] = cons[x]
                                 /\ call'[x] = call[x] /\ failed'[x] = failed[x]
    BY <2>3 DEF CoreInv, Types, MachTypes, NodeTypes, ProcTypes
  <2>5. NewMachine.committed = NewState
    BY DEF NewMachine
  <2>6. ReplicaOK(n)'
    BY <2>4, <2>5, LeadNew, ContentNew DEF ReplicaOK
  <2>7. \A x \in Node \ {n} : UNCHANGED Local(x)
    BY <2>4 DEF Local
  <2>8. ReplicaInv'
    BY <2>3, <2>6, <2>7, ReplicaFrame DEF CoreInv
  <2> QED
    BY <1>1, <2>2, <2>3, <2>8, LogSame DEF CoreInv
<1> QED
  BY <1>2, <1>3

-------------------------------------------------------------------------------
(* Bootstrap *)

\* A stage of Bootstrap that leaves the machine alone, or freezes or resumes it.
LEMMA CoreQuiet ==
  ASSUME CoreInv, NEW n \in Node, NEW kind \in FreezeKind, BootQuiet,
         UNCHANGED mach \/ mach' = [mach EXCEPT ![n] = FreezeWrites(mach[n], kind)]
  PROVE  Kept
<1>1. UNCHANGED <<raft, log, tail, known, curTerm, applied, cons, phase, call, failed>>
  BY Zenon DEF BootQuiet, raft
<1>2. ReplicaInv'
  <2>1. CASE UNCHANGED mach
    BY <1>1, <2>1, ReplicaSame DEF CoreInv
  <2>2. CASE mach' = [mach EXCEPT ![n] = FreezeWrites(mach[n], kind)]
    BY <1>1, <2>2, ReplicaFreeze DEF CoreInv
  <2> QED
    BY <2>1, <2>2
<1> QED
  BY <1>1, <1>2, RaftSame, LogSame, OwnSame DEF CoreInv, Kept

\* LoadSnapshotIfCurrent of the consensus state.
LEMMA CoreBootInstall ==
  ASSUME CoreInv, NEW n \in Node, BootInstall(n)
  PROVE  Kept
<1> DEFINE r == LoadSnapshot(mach[n], cons[n])
<1>1. /\ phase[n] = "booting" /\ CanLoadSnapshot(mach[n], cons[n])
      /\ mach' = [mach EXCEPT ![n] = r] /\ BootQuiet
  BY Zenon DEF BootInstall, Booting, CanLoadSnapshotIfCurrent
<1>2. UNCHANGED <<raft, log, tail, known, curTerm, applied, cons, phase, call, failed>>
  BY <1>1, Zenon DEF BootQuiet, raft
<1>3. /\ ReplicaOK(n) /\ Machine(mach[n]) /\ DOMAIN mach = Node /\ cons[n] \in State
      /\ LogOK(log) /\ CommitsOK(log) /\ applied[n] \in 0 .. Len(log) /\ failed[n] \in BOOLEAN
  BY RaftLog, KnownEntries DEF CoreInv, ReplicaInv, Types, MachTypes, NodeTypes, LogInv
<1>4. /\ LeadOK(mach[n].committed, cons[n], log, applied[n])
      /\ ContentOK(mach[n], cons[n], log, applied[n])
      /\ WorkOK(mach[n], call[n], FALSE, phase[n], log, applied[n])
      /\ call[n].pc = "idle" /\ failed[n] = FALSE
  <2>1. call[n].pc = "idle" /\ failed[n] = FALSE
    BY <1>1, <1>3 DEF ReplicaOK, WorkOK
  <2> QED
    BY <1>3, <2>1 DEF ReplicaOK
<1>5. SameLeadership(r.committed, cons[n])
  BY <1>3, LoadFields
<1>6. LeadOK(r.committed, cons[n], log, applied[n])
  <2> DEFINE x == r.committed
  <2>1. SameLeadership(x, cons[n])
    BY <1>5
  <2> HIDE DEF x
  <2>2. LeadOK(x, cons[n], log, applied[n])
    BY <1>1, <1>3, <1>4, <2>1, LeadLoad
  <2> QED
    BY <2>2 DEF x
<1>7. /\ ContentOK(r, cons[n], log, applied[n])
      /\ WorkOK(r, call[n], FALSE, phase[n], log, applied[n])
  BY <1>1, <1>3, <1>4, ContentReload
<1>8. mach'[n] = r /\ \A x \in Node \ {n} : mach'[x] = mach[x]
  BY <1>1, <1>3
<1> HIDE DEF r
<1>9. ReplicaOK(n)'
  BY <1>2, <1>4, <1>6, <1>7, <1>8 DEF ReplicaOK
<1>10. \A x \in Node \ {n} : UNCHANGED Local(x)
  BY <1>2, <1>8 DEF Local
<1>11. ReplicaInv'
  BY <1>2, <1>9, <1>10, ReplicaFrame DEF CoreInv
<1> QED
  BY <1>2, <1>11, RaftSame, LogSame, OwnSame DEF CoreInv, Kept

\* The listeners open.
LEMMA CoreBootPublish ==
  ASSUME CoreInv, NEW n \in Node, BootPublish(n)
  PROVE  Kept
<1>1. /\ phase' = [phase EXCEPT ![n] = "ready"]
      /\ UNCHANGED <<raft, log, tail, known, curTerm, applied, mach, cons, call, failed>>
  BY Zenon DEF BootPublish, raft, fsm
<1>2. /\ ReplicaOK(n) /\ phase'[n] = "ready" /\ \A x \in Node \ {n} : phase'[x] = phase[x]
  BY <1>1 DEF CoreInv, ReplicaInv, Types, NodeTypes
<1>3. ReplicaOK(n)'
  BY <1>1, <1>2 DEF ReplicaOK, WorkOK
<1>4. \A x \in Node \ {n} : UNCHANGED Local(x)
  BY <1>1, <1>2 DEF Local
<1>5. ReplicaInv'
  BY <1>1, <1>3, <1>4, ReplicaFrame DEF CoreInv
<1> QED
  BY <1>1, <1>5, RaftSame, LogSame, OwnSame DEF CoreInv, Kept

\* The stages of Bootstrap.
LEMMA CoreBoot ==
  ASSUME CoreInv, NEW n \in Node, BootStep(n)
  PROVE  CoreInv'
<1>1. "closed" \in FreezeKind /\ "open" \in FreezeKind
  BY DEF FreezeKind
<1>2. CASE BootLoadDurable(n) \/ BootHealth(n)
  <2>1. BootQuiet /\ mach' = [mach EXCEPT ![n] = FreezeWrites(mach[n], "closed")]
    BY <1>2, Zenon DEF BootLoadDurable, BootHealth
  <2> QED
    BY <1>1, <2>1, CoreQuiet, TypesBoot DEF CoreInv, Kept
<1>3. CASE BootCurrent(n) \/ BootRecover(n) \/ BootCheckpoint(n) \/ BootPersist(n) \/ BootFence(n)
  <2>1. BootQuiet /\ UNCHANGED mach
    BY <1>3, Zenon DEF BootCurrent, BootRecover, BootCheckpoint, BootPersist, BootFence
  <2> QED
    BY <1>1, <2>1, CoreQuiet, TypesBoot DEF CoreInv, Kept
<1>4. CASE BootInstall(n)
  BY <1>4, CoreBootInstall, TypesBoot DEF CoreInv, Kept
<1>5. CASE BootResume(n)
  <2>1. BootQuiet /\ mach' = [mach EXCEPT ![n] = ResumeWrites(mach[n])]
    BY <1>5, Zenon DEF BootResume
  <2>2. mach' = [mach EXCEPT ![n] = FreezeWrites(mach[n], "open")]
    BY <2>1, ResumeIsFreeze
  <2> QED
    BY <1>1, <2>1, <2>2, CoreQuiet, TypesBoot DEF CoreInv, Kept
<1>6. CASE BootPublish(n)
  BY <1>6, CoreBootPublish, TypesBoot DEF CoreInv, Kept
<1> QED
  BY <1>2, <1>3, <1>4, <1>5, <1>6, Zenon DEF BootStep

\* CoreInv is inductive.
LEMMA CoreNext == CoreInv /\ [Next]_vars => CoreInv'
<1> SUFFICES ASSUME CoreInv, [Next]_vars PROVE CoreInv'
  OBVIOUS
<1>1. CASE UNCHANGED vars
  <2>1. UNCHANGED <<raft, fsm, proc, obs, pg, hist>>
    BY <1>1, Zenon DEF vars
  <2>2. /\ UNCHANGED <<log, tail, term, lead, curTerm, known, applied, mach, cons, last>>
        /\ UNCHANGED <<phase, boot, call, failed, obs, pg, drawn, crashes, acked, published>>
    BY <2>1, Zenon DEF raft, fsm, proc, hist
  <2>3. Types'
    BY <2>2 DEF CoreInv, Types, RaftTypes, MachTypes, NodeTypes, ProcTypes
  <2> QED
    BY <2>1, <2>2, <2>3, RaftSame, LogSame, ReplicaSame, OwnSame DEF CoreInv
<1>2. CASE Raft
  BY <1>2, CoreRaft
<1>3. ASSUME NEW n \in Node,
             \/ Runtime(n) \/ CallStep(n) \/ BootStep(n) \/ Start(n) \/ Crash(n) \/ BootFails(n)
             \/ \E p \in Payload : StartCall(n, p)
      PROVE  CoreInv'
  BY <1>3, CoreRuntime, CoreCall, CoreBoot, CoreProcess, CoreStartCall, Zenon
<1> QED
  BY <1>1, <1>2, <1>3, Zenon DEF Next

-------------------------------------------------------------------------------
(* PostgreSQL *)

InLog(c) == \E i \in DOMAIN log : IsCommit(log[i]) /\ log[i].commit = c
Stored(s) == \E d \in pg.commits : SamePayload(d.state, s)

\* PostgreSQL holds commits of the log; its row has the content of one of them
\* and the nonce of every one.
StoreInv ==
  /\ \A c \in pg.commits : InLog(c) /\ pg.row.ledger[c.nonce] = c.state.revision
  /\ Stored(pg.row)
  /\ acked \subseteq pg.commits

\* What may still reach PostgreSQL, or came from it.
LastOK(n) == last[n] # NoCommit => InLog(last[n])
CallOK(n) ==
  /\ Answered(call[n]) => InLog(call[n].commit)
  /\ call[n].pc \in {"durable", "installed"} => call[n].commit \in pg.commits
BootOK(n) ==
  /\ boot[n].pc = "recover" => InLog(boot[n].commit)
  /\ boot[n].pc # "load" => Stored(boot[n].durable)
GivenOK(n) ==
  \E d \in pg.commits : d.nonce = published[n].nonce /\ SamePayload(d.state, published[n].state)

HoldsInv == \A n \in Node : LastOK(n) /\ CallOK(n) /\ BootOK(n) /\ GivenOK(n)

DurableInv == StoreInv /\ HoldsInv

\* The log and the commits of PostgreSQL only grow.
Grows == (\A c : InLog(c) => InLog(c)') /\ pg.commits \subseteq pg.commits'

\* A part of a node that a step leaves alone stays right when both grow.
LEMMA HoldsStep ==
  ASSUME HoldsInv, Grows,
         \A x \in Node : /\ last'[x] = last[x] \/ LastOK(x)'
                         /\ call'[x] = call[x] \/ CallOK(x)'
                         /\ boot'[x] = boot[x] \/ BootOK(x)'
                         /\ published'[x] = published[x] \/ GivenOK(x)'
  PROVE  HoldsInv'
<1> SUFFICES ASSUME NEW x \in Node
             PROVE  LastOK(x)' /\ CallOK(x)' /\ BootOK(x)' /\ GivenOK(x)'
  BY DEF HoldsInv
<1>1. LastOK(x) /\ CallOK(x) /\ BootOK(x) /\ GivenOK(x)
  BY DEF HoldsInv
<1>2. pg.commits \subseteq pg.commits' /\ \A s : Stored(s) => Stored(s)'
  BY DEF Grows, Stored
<1>3. \A c : InLog(c) => InLog(c)'
  BY DEF Grows
<1>4. LastOK(x)'
  BY <1>1, <1>3 DEF LastOK
<1>5. CallOK(x)'
  BY <1>1, <1>2, <1>3 DEF CallOK
<1>6. BootOK(x)'
  BY <1>1, <1>2, <1>3 DEF BootOK
<1>7. GivenOK(x)'
  BY <1>1, <1>2 DEF GivenOK
<1> QED
  BY <1>4, <1>5, <1>6, <1>7

\* A step that leaves the log and PostgreSQL alone.
LEMMA StoreSame ==
  ASSUME StoreInv, UNCHANGED <<log, pg, acked>>
  PROVE  StoreInv' /\ Grows
BY DEF StoreInv, Grows, InLog, Stored

\* A commit of the log is well formed and its nonce is the one of its revision.
LEMMA InLogGood ==
  ASSUME CoreInv, NEW c, InLog(c)
  PROVE  GoodCommit(c) /\ c \in Commit
<1>1. LogOK(log)
  BY RaftLog DEF CoreInv, Types
<1> QED
  BY <1>1, CommitFields DEF InLog

\* DurableStore.AppendCommit of a commit of the log.
LEMMA StoreAppend ==
  ASSUME CoreInv, StoreInv, NEW c, InLog(c), pg' = AppendCommit(pg, c), UNCHANGED <<log, acked>>
  PROVE  StoreInv' /\ Grows /\ (AppendSucceeds(pg, c) => c \in pg.commits')
<1>1. /\ c \in Commit /\ c.state \in State /\ c.nonce \in Nonce
      /\ pg.row \in State /\ pg.commits \subseteq Commit /\ pg.row.ledger \in [Nonce -> Revision]
      /\ \A d \in pg.commits : d.nonce \in Nonce
  BY InLogGood DEF CoreInv, Types, ProcTypes, Commit, State, Ledger
<1>2. \A d : InLog(d)' = InLog(d)
  BY DEF InLog
<1>3. CASE ~CanInsert(pg, c)
  <2>1. pg' = pg
    BY <1>3 DEF AppendCommit
  <2> QED
    BY <1>2, <1>3, <2>1 DEF StoreInv, Grows, Stored, AppendSucceeds, AlreadyAppended
<1>4. CASE CanInsert(pg, c)
  <2>1. pg.row' = c.state /\ pg.commits' = pg.commits \cup {c}
    BY <1>4 DEF AppendCommit
  <2>2. pg.commits # {}
    BY DEF StoreInv, Stored
  <2>3. /\ LedgerExtends(pg.row.ledger, c.state.ledger, c.nonce, c.state.revision)
        /\ \A d \in pg.commits : d.nonce # c.nonce
        /\ c.state.ledger[c.nonce] = c.state.revision
    BY <1>4, <2>2 DEF CanInsert, ValidTransition, ValidCommitFields
  <2>4. \A d \in pg.commits : c.state.ledger[d.nonce] = pg.row.ledger[d.nonce]
    BY <1>1, <2>3 DEF LedgerExtends
  <2>5. \A d \in pg.commits' : InLog(d) /\ c.state.ledger[d.nonce] = d.state.revision
    BY <2>1, <2>3, <2>4 DEF StoreInv
  <2>6. Stored(c.state)'
    BY <2>1 DEF Stored, SamePayload
  <2> QED
    BY <1>2, <2>1, <2>5, <2>6 DEF StoreInv, Grows, Stored
<1> QED
  BY <1>3, <1>4

\* A step of n that moves only its call, to a stage that asks for nothing.
LEMMA DurableIdle ==
  ASSUME DurableInv, NEW n \in Node, UNCHANGED <<log, pg, acked, last, boot, published>>,
         \A x \in Node \ {n} : call'[x] = call[x],
         call'[n] = call[n] \/ (~Answered(call[n]))'
  PROVE  DurableInv'
<1>1. StoreInv' /\ Grows
  BY StoreSame DEF DurableInv
<1>2. call'[n] = call[n] \/ CallOK(n)'
  BY DEF CallOK, Answered
<1>3. HoldsInv'
  BY <1>1, <1>2, HoldsStep DEF DurableInv
<1> QED
  BY <1>1, <1>3 DEF DurableInv

\* FailCall leaves an idle call.
LEMMA FailIdle ==
  ASSUME Types, NEW n \in Node, FailCall(n)
  PROVE  (\A x \in Node \ {n} : call'[x] = call[x]) /\ (~Answered(call[n]))'
<1>1. call' = [call EXCEPT ![n] = NoCall] /\ call \in [Node -> Calls] /\ NoCall.pc = "idle"
  BY DEF FailCall, Types, ProcTypes, NoCall
<1> QED
  BY <1>1 DEF Answered

\* A call moves to the stage pc.
LEMMA CallAdvances ==
  ASSUME Types, NEW n \in Node, NEW pc, call' = [call EXCEPT ![n].pc = pc]
  PROVE  /\ \A x \in Node \ {n} : call'[x] = call[x]
         /\ call'[n].pc = pc /\ call'[n].commit = call[n].commit
BY DEF Types, ProcTypes, Calls

\* The stages of a policy write.
LEMMA DurableCall ==
  ASSUME CoreInv, DurableInv, NEW n \in Node, CallStep(n)
  PROVE  DurableInv'
<1> DEFINE c == call[n].commit
<1>0. Types
  BY DEF CoreInv
<1>1. CASE CheckBaseline(n)
  <2>1. /\ UNCHANGED <<log, pg, acked, last, boot, published>>
        /\ FailCall(n) \/ call' = [call EXCEPT ![n].pc = "checked"]
    BY <1>1, Zenon DEF CheckBaseline, Advance, raft, hist
  <2>2. (\A x \in Node \ {n} : call'[x] = call[x]) /\ (~Answered(call[n]))'
    BY <1>0, <2>1, FailIdle, CallAdvances DEF Answered
  <2> QED
    BY <2>1, <2>2, DurableIdle
<1>2. CASE Replicate(n)
  <2>1. /\ UNCHANGED <<log, pg, acked, last, boot, published>>
        /\ FailCall(n) \/ call' = [call EXCEPT ![n].pc = "submitted"]
    BY <1>2, Zenon DEF Replicate, Advance, hist
  <2>2. (\A x \in Node \ {n} : call'[x] = call[x]) /\ (~Answered(call[n]))'
    BY <1>0, <2>1, FailIdle, CallAdvances DEF Answered
  <2> QED
    BY <2>1, <2>2, DurableIdle
<1>3. CASE ReplicateFails(n)
  <2>1. UNCHANGED <<log, pg, acked, last, boot, published>> /\ FailCall(n)
    BY <1>3, Zenon DEF ReplicateFails, raft, hist
  <2> QED
    BY <1>0, <2>1, FailIdle, DurableIdle
<1>4. CASE Persist(n)
  <2>1. /\ call[n].pc = "replicated" /\ UNCHANGED <<log, acked, last, boot, published>>
        /\ \/ /\ AppendSucceeds(pg, c) /\ pg' = AppendCommit(pg, c)
              /\ call' = [call EXCEPT ![n].pc = "durable"]
           \/ pg' \in {pg, AppendCommit(pg, c)} /\ FailCall(n)
    BY <1>4, Zenon DEF Persist, Advance, raft, hist
  <2>2. InLog(c) /\ StoreInv /\ HoldsInv
    BY <2>1 DEF DurableInv, HoldsInv, CallOK, Answered
  <2>3. /\ StoreInv' /\ Grows
        /\ AppendSucceeds(pg, c) /\ pg' = AppendCommit(pg, c) => c \in pg.commits'
    <3>1. CASE pg' = pg
      BY <2>1, <2>2, <3>1, StoreSame, StoreAppend
    <3>2. CASE pg' = AppendCommit(pg, c)
      BY <2>1, <2>2, <3>2, StoreAppend
    <3> QED
      BY <2>1, <3>1, <3>2
  <2>4. (\A x \in Node \ {n} : call'[x] = call[x]) /\ CallOK(n)'
    <3>1. CASE /\ AppendSucceeds(pg, c) /\ pg' = AppendCommit(pg, c)
               /\ call' = [call EXCEPT ![n].pc = "durable"]
      <4>1. /\ \A x \in Node \ {n} : call'[x] = call[x]
            /\ call'[n].commit = c /\ InLog(c)'
        BY <1>0, <2>2, <2>3, <3>1, CallAdvances DEF Grows
      <4> QED
        BY <2>3, <3>1, <4>1 DEF CallOK
    <3>2. CASE FailCall(n)
      <4>1. (\A x \in Node \ {n} : call'[x] = call[x]) /\ (~Answered(call[n]))'
        BY <1>0, <3>2, FailIdle
      <4> QED
        BY <4>1 DEF CallOK, Answered
    <3> QED
      BY <2>1, <3>1, <3>2
  <2>5. HoldsInv'
    BY <2>1, <2>2, <2>3, <2>4, HoldsStep
  <2> QED
    BY <2>3, <2>5 DEF DurableInv
<1>5. CASE Install(n)
  <2>1. /\ call[n].pc = "durable" /\ UNCHANGED <<log, pg, acked, last, boot, published>>
        /\ FailCall(n) \/ call' = [call EXCEPT ![n].pc = "installed"]
    BY <1>5, Zenon DEF Install, raft, hist
  <2>2. CASE FailCall(n)
    BY <1>0, <2>1, <2>2, FailIdle, DurableIdle
  <2>3. CASE call' = [call EXCEPT ![n].pc = "installed"]
    <3>1. /\ \A x \in Node \ {n} : call'[x] = call[x]
          /\ call'[n].pc = "installed" /\ call'[n].commit = c
      BY <1>0, <2>3, CallAdvances
    <3>2. StoreInv' /\ Grows /\ HoldsInv /\ InLog(c) /\ c \in pg.commits
      BY <2>1, StoreSame DEF DurableInv, HoldsInv, CallOK, Answered
    <3>3. CallOK(n)'
      BY <3>1, <3>2 DEF CallOK, Grows
    <3>4. HoldsInv'
      BY <2>1, <3>1, <3>2, <3>3, HoldsStep
    <3> QED
      BY <3>2, <3>4 DEF DurableInv
  <2> QED
    BY <2>1, <2>2, <2>3
<1>6. CASE Materialize(n)
  <2>1. /\ call[n].pc = "installed" /\ UNCHANGED <<log, pg, last, boot>>
        /\ \/ /\ published' = [published EXCEPT ![n] = c] /\ acked' = acked \cup {c}
              /\ call' = [call EXCEPT ![n] = NoCall]
           \/ FailCall(n) /\ UNCHANGED <<acked, published>>
    BY <1>6, Zenon DEF Materialize, raft
  <2>2. CASE FailCall(n) /\ UNCHANGED <<acked, published>>
    BY <1>0, <2>1, <2>2, FailIdle, DurableIdle
  <2>3. CASE /\ published' = [published EXCEPT ![n] = c] /\ acked' = acked \cup {c}
             /\ call' = [call EXCEPT ![n] = NoCall]
    <3>1. StoreInv /\ HoldsInv /\ c \in pg.commits
      BY <2>1 DEF DurableInv, HoldsInv, CallOK
    <3>2. StoreInv' /\ Grows
      BY <2>1, <2>3, <3>1 DEF StoreInv, Grows, InLog, Stored
    <3>3. /\ published'[n] = c /\ call'[n] = NoCall
          /\ \A x \in Node \ {n} : published'[x] = published[x] /\ call'[x] = call[x]
      BY <1>0, <2>3 DEF Types, ProcTypes
    <3>4. CallOK(n)'
      BY <3>3 DEF CallOK, Answered, NoCall
    <3>5. GivenOK(n)'
      BY <2>1, <3>1, <3>3 DEF GivenOK, SamePayload
    <3>6. HoldsInv'
      BY <2>1, <3>1, <3>2, <3>3, <3>4, <3>5, HoldsStep
    <3> QED
      BY <3>2, <3>6 DEF DurableInv
  <2> QED
    BY <2>1, <2>2, <2>3
<1> QED
  BY <1>1, <1>2, <1>3, <1>4, <1>5, <1>6, Zenon DEF CallStep

\* Raft commits entries, the FSM applies them, processes start, stop and call.
LEMMA DurableOthers ==
  ASSUME CoreInv, DurableInv, NEW n \in Node,
         \/ Elect(n) \/ StepDown(n) \/ Learn(n) \/ (\E i \in DOMAIN tail : CommitTail(i))
         \/ Runtime(n) \/ Start(n) \/ Crash(n) \/ BootFails(n)
         \/ \E p \in Payload : StartCall(n, p)
  PROVE  DurableInv'
<1>0. Types /\ StoreInv /\ HoldsInv
  BY DEF CoreInv, DurableInv
<1>1. CASE Elect(n) \/ Learn(n) \/ ObserveLost(n) \/ ObserveWon(n) \/ Start(n)
  <2>1. UNCHANGED <<log, pg, acked, last, boot, published, call>>
    BY <1>1, Zenon DEF Elect, Learn, ObserveLost, ObserveWon, Start, raft, fsm, proc, hist
  <2> QED
    BY <2>1, DurableIdle
<1>2. CASE StepDown(n)
  <2>1. /\ UNCHANGED <<log, pg, acked, last, boot, published>>
        /\ UNCHANGED call \/ call' = [call EXCEPT ![n].pc = "lost"]
    BY <1>2, Zenon DEF StepDown, fsm, hist
  <2>2. CASE UNCHANGED call
    BY <2>1, <2>2, DurableIdle
  <2>3. CASE call' = [call EXCEPT ![n].pc = "lost"]
    <3>1. (\A x \in Node \ {n} : call'[x] = call[x]) /\ (~Answered(call[n]))'
      <4>1. (\A x \in Node \ {n} : call'[x] = call[x]) /\ call'[n].pc = "lost"
        BY <1>0, <2>3, CallAdvances, Zenon
      <4> QED
        BY <4>1 DEF Answered
    <3> QED
      BY <2>1, <3>1, DurableIdle
  <2> QED
    BY <2>1, <2>2, <2>3
<1>3. ASSUME NEW i \in DOMAIN tail, CommitTail(i) PROVE DurableInv'
  <2>1. log' = Append(log, tail[i]) /\ UNCHANGED <<pg, acked, last, boot, published, call>>
    BY <1>3, Zenon DEF CommitTail, fsm, proc, hist
  <2>2. \A j \in DOMAIN log : j \in DOMAIN log' /\ log'[j] = log[j]
    BY <1>0, <2>1 DEF Types, RaftTypes
  <2>3. \A c : InLog(c) => InLog(c)'
    BY <2>2 DEF InLog
  <2>4. StoreInv' /\ Grows
    BY <1>0, <2>1, <2>3 DEF StoreInv, Grows, Stored
  <2>5. HoldsInv'
    BY <1>0, <2>1, <2>4, HoldsStep
  <2> QED
    BY <2>4, <2>5 DEF DurableInv
<1>4. CASE ApplyEntry(n)
  <2> DEFINE e == log[applied[n] + 1]
  <2>1. /\ applied[n] + 1 \in DOMAIN log /\ e \in Entry
        /\ UNCHANGED <<log, pg, boot, acked, published>>
    <3>1. /\ UNCHANGED hist
          /\ applied[n] + 1 \in DOMAIN log /\ e \in Entry /\ UNCHANGED <<log, pg, boot>>
      BY <1>4, ApplyFacts DEF CoreInv
    <3> QED
      BY <3>1 DEF hist
  <2>2. StoreInv' /\ Grows
    BY <1>0, <2>1, StoreSame
  <2>3. CASE e.kind = "lead"
    <3>1. UNCHANGED <<last, call>>
      BY <1>4, <2>3, Zenon DEF ApplyEntry, ApplyLeadership
    <3> QED
      BY <2>1, <3>1, DurableIdle
  <2>4. CASE e.kind # "lead"
    <3>0. PICK c : c = e.commit
      OBVIOUS
    <3>1. /\ UNCHANGED last \/ last' = [last EXCEPT ![n] = c]
          /\ \E ok : call' = [call EXCEPT ![n].pc =
                               IF call[n].pc = "submitted" /\ call[n].commit = c
                                 THEN IF ok THEN "replicated" ELSE "lost"
                                 ELSE call[n].pc]
      BY <1>4, <2>4, <3>0, Zenon DEF ApplyEntry, ApplyCommit
    <3>2. InLog(c) /\ InLog(c)'
      <4>1. IsCommit(e)
        BY <2>1, <2>4, EntryKinds DEF IsCommit
      <4>2. InLog(c)
        BY <2>1, <3>0, <4>1 DEF InLog
      <4> QED
        BY <2>2, <4>2 DEF Grows
    <3>3. \A x \in Node : last'[x] = last[x] \/ LastOK(x)'
      <4>1. last \in [Node -> CommitOrNone]
        BY <1>0 DEF Types, NodeTypes
      <4> QED
        BY <3>1, <3>2, <4>1 DEF LastOK
    <3>4. \A x \in Node : call'[x] = call[x] \/ CallOK(x)'
      <4>1. call \in [Node -> Calls]
        BY <1>0 DEF Types, ProcTypes
      <4>2. /\ \A x \in Node \ {n} : call'[x] = call[x]
            /\ call'[n] = call[n] \/ call'[n].pc = "lost"
               \/ (call'[n].pc = "replicated" /\ call'[n].commit = c)
        BY <3>1, <4>1 DEF Calls
      <4> QED
        BY <3>2, <4>2 DEF CallOK, Answered
    <3>5. HoldsInv'
      BY <1>0, <2>1, <2>2, <3>3, <3>4, HoldsStep
    <3> QED
      BY <2>2, <3>5 DEF DurableInv
  <2> QED
    BY <2>3, <2>4
<1>5. CASE Crash(n) \/ BootFails(n)
  <2>1. /\ UNCHANGED <<log, pg, acked, published>> /\ last' = [last EXCEPT ![n] = NoCommit]
        /\ boot' = [boot EXCEPT ![n] = NoBoot] /\ call' = [call EXCEPT ![n] = NoCall]
    BY <1>5, Zenon DEF Crash, BootFails, ProcessEnds
  <2>2. StoreInv' /\ Grows
    BY <1>0, <2>1, StoreSame
  <2>3. /\ last'[n] = NoCommit /\ boot'[n] = NoBoot /\ call'[n] = NoCall
        /\ \A x \in Node \ {n} : last'[x] = last[x] /\ boot'[x] = boot[x] /\ call'[x] = call[x]
    BY <1>0, <2>1 DEF Types, NodeTypes, ProcTypes
  <2>4. LastOK(n)' /\ CallOK(n)' /\ BootOK(n)'
    BY <2>3 DEF LastOK, CallOK, BootOK, Answered, NoCall, NoBoot
  <2>5. HoldsInv'
    BY <1>0, <2>1, <2>2, <2>3, <2>4, HoldsStep
  <2> QED
    BY <2>2, <2>5 DEF DurableInv
<1>6. ASSUME NEW p \in Payload, StartCall(n, p) PROVE DurableInv'
  <2>1. /\ UNCHANGED <<log, pg, acked, last, boot, published>>
        /\ \E v : v.pc = "proposed" /\ call' = [call EXCEPT ![n] = v]
    <3>1. /\ UNCHANGED <<log, pg, acked, last, boot, published>>
          /\ call' = [call EXCEPT ![n] = [pc |-> "proposed",
                                          commit |-> ProposedCommit(mach[n], p, drawn + 1)]]
      BY <1>6, Zenon DEF StartCall, raft
    <3> QED
      BY <3>1
  <2>2. (\A x \in Node \ {n} : call'[x] = call[x]) /\ (~Answered(call[n]))'
    BY <1>0, <2>1 DEF Answered, Types, ProcTypes
  <2> QED
    BY <2>1, <2>2, DurableIdle
<1> QED
  BY <1>1, <1>2, <1>3, <1>4, <1>5, <1>6, Zenon DEF Runtime

\* A stage of Bootstrap of node n, in whatever way it changes PostgreSQL.
LEMMA DurableStage ==
  ASSUME Types, HoldsInv, NEW n \in Node, StoreInv', Grows, BootQuiet,
         NEW b, boot' = [boot EXCEPT ![n] = b], BootOK(n)'
  PROVE  DurableInv'
<1>1. UNCHANGED <<last, call, published>>
  BY Zenon DEF BootQuiet, hist
<1>2. \A x \in Node \ {n} : boot'[x] = boot[x]
  BY DEF Types, ProcTypes
<1>3. HoldsInv'
  BY <1>1, <1>2, HoldsStep
<1> QED
  BY <1>3 DEF DurableInv

\* A stage that leaves PostgreSQL alone and goes on with the same durable state.
LEMMA DurableSameStage ==
  ASSUME Types, DurableInv, NEW n \in Node, BootQuiet, UNCHANGED pg, boot[n].pc # "load",
         NEW b, boot' = [boot EXCEPT ![n] = b], b.durable = boot[n].durable, b.pc # "recover"
  PROVE  DurableInv'
<1>1. UNCHANGED <<log, acked>>
  BY Zenon DEF BootQuiet, raft, hist
<1>2. StoreInv' /\ Grows /\ HoldsInv
  BY <1>1, StoreSame DEF DurableInv
<1>3. boot'[n] = b
  BY DEF Types, ProcTypes
<1>4. BootOK(n)'
  BY <1>2, <1>3 DEF HoldsInv, BootOK, Stored
<1> QED
  BY <1>2, <1>4, DurableStage

\* The nonce of the startup commit is that of the stored commit with its content.
LEMMA StartupNonce ==
  ASSUME CoreInv, DurableInv, NEW s \in State, NEW d \in pg.commits, SamePayload(d.state, s)
  PROVE  NonceOf(s) = d.nonce
<1>1. GoodCommit(d) /\ d \in Commit
  BY InLogGood DEF DurableInv, StoreInv
<1>2. /\ ValidLedger(s.ledger, s.revision) /\ s.revision > 0 /\ s.ledger[d.nonce] = s.revision
      /\ d.nonce \in Nonce
  BY <1>1 DEF GoodCommit, WellFormedSnapshot, SamePayload, Commit
<1>3. NonceOf(s) \in Nonce /\ s.ledger[NonceOf(s)] = s.revision
  BY <1>2, NonceOfTyped
<1>4. s.revision # 0
  BY <1>2
<1> QED
  BY <1>2, <1>3, <1>4 DEF ValidLedger

\* The stages of Bootstrap.
LEMMA DurableBoot ==
  ASSUME CoreInv, DurableInv, NEW n \in Node, BootStep(n)
  PROVE  DurableInv'
<1>0. Types /\ StoreInv /\ HoldsInv /\ boot \in [Node -> Boots] /\ boot[n] \in Boots
  BY DEF CoreInv, DurableInv, Types, ProcTypes
<1>q. BootQuiet => UNCHANGED <<log, acked>>
  BY Zenon DEF BootQuiet, raft, hist
<1>1. CASE BootLoadDurable(n)
  <2>1. /\ BootQuiet /\ UNCHANGED pg
        /\ boot' = [boot EXCEPT ![n] = [boot[n] EXCEPT !.pc = "health", !.durable = pg.row]]
    BY <1>1, Zenon DEF BootLoadDurable
  <2>2. StoreInv' /\ Grows
    BY <1>0, <1>q, <2>1, StoreSame
  <2>3. boot'[n].pc = "health" /\ boot'[n].durable = pg.row
    BY <1>0, <2>1 DEF Boots
  <2>4. BootOK(n)'
    BY <2>1, <2>2, <2>3 DEF StoreInv, BootOK
  <2> QED
    BY <1>0, <2>1, <2>2, <2>4, DurableStage
<1>2. CASE BootHealth(n)
  <2>1. /\ boot[n].pc = "health" /\ BootQuiet /\ UNCHANGED pg
        /\ \E s : boot' = [boot EXCEPT ![n] = [boot[n] EXCEPT !.pc = "current", !.baseline = s]]
    BY <1>2, Zenon DEF BootHealth, Booting
  <2>2. PICK s : boot' = [boot EXCEPT ![n] = [boot[n] EXCEPT !.pc = "current", !.baseline = s]]
    BY <2>1
  <2> DEFINE b == [boot[n] EXCEPT !.pc = "current", !.baseline = s]
  <2>3. b.durable = boot[n].durable /\ b.pc # "recover" /\ boot' = [boot EXCEPT ![n] = b]
    BY <1>0, <2>2 DEF Boots
  <2> HIDE DEF b
  <2> QED
    BY <1>0, <2>1, <2>3, DurableSameStage
<1>3. CASE BootCurrent(n)
  <2> DEFINE cur == cons[n]
  <2>1. /\ boot[n].pc = "current" /\ BootQuiet /\ UNCHANGED pg
        /\ \/ boot' = [boot EXCEPT ![n] = [boot[n] EXCEPT
                         !.pc = AgreedStage(boot[n].durable, cur), !.consensus = cur]]
           \/ /\ RecoverableAhead(boot[n].durable, cur, last[n])
              /\ boot' = [boot EXCEPT ![n] = [boot[n] EXCEPT
                           !.pc = "recover", !.consensus = cur, !.commit = last[n]]]
    BY <1>3, Zenon DEF BootCurrent, Booting
  <2>2. CASE boot' = [boot EXCEPT ![n] = [boot[n] EXCEPT
                       !.pc = AgreedStage(boot[n].durable, cur), !.consensus = cur]]
    <3> DEFINE b == [boot[n] EXCEPT !.pc = AgreedStage(boot[n].durable, cur), !.consensus = cur]
    <3>1. b.durable = boot[n].durable /\ b.pc # "recover" /\ boot' = [boot EXCEPT ![n] = b]
      BY <1>0, <2>2 DEF Boots, AgreedStage
    <3> HIDE DEF b
    <3> QED
      BY <1>0, <2>1, <3>1, DurableSameStage
  <2>3. CASE /\ RecoverableAhead(boot[n].durable, cur, last[n])
             /\ boot' = [boot EXCEPT ![n] = [boot[n] EXCEPT
                          !.pc = "recover", !.consensus = cur, !.commit = last[n]]]
    <3>1. StoreInv' /\ Grows
      BY <1>0, <1>q, <2>1, StoreSame
    <3>2. last[n].state.revision > 0
      BY <2>3 DEF RecoverableAhead, ValidCommitFields
    <3>3. last[n] # NoCommit
      BY <3>2 DEF NoCommit, NewState
    <3>4. InLog(last[n]) /\ Stored(boot[n].durable)
      BY <1>0, <2>1, <3>3 DEF HoldsInv, LastOK, BootOK
    <3>5. boot'[n].commit = last[n] /\ boot'[n].durable = boot[n].durable
      BY <1>0, <2>3 DEF Boots
    <3>6. BootOK(n)'
      BY <2>1, <3>1, <3>4, <3>5 DEF BootOK, Grows, Stored
    <3> QED
      BY <1>0, <2>1, <2>3, <3>1, <3>6, DurableStage
  <2> QED
    BY <2>1, <2>2, <2>3
<1>4. CASE BootRecover(n)
  <2> DEFINE c == boot[n].commit
  <2>1. /\ boot[n].pc = "recover" /\ BootQuiet /\ AppendSucceeds(pg, c) /\ pg' = AppendCommit(pg, c)
        /\ boot' = [boot EXCEPT ![n] = [boot[n] EXCEPT
                     !.pc = AgreedStage(c.state, boot[n].consensus),
                     !.durable = c.state, !.commit = NoCommit]]
    BY <1>4, Zenon DEF BootRecover, Booting
  <2>2. InLog(c)
    BY <1>0, <2>1 DEF HoldsInv, BootOK
  <2>3. StoreInv' /\ Grows /\ c \in pg.commits'
    BY <1>0, <1>q, <2>1, <2>2, StoreAppend
  <2>4. boot'[n].durable = c.state /\ boot'[n].pc # "recover"
    BY <1>0, <2>1 DEF Boots, AgreedStage
  <2>5. BootOK(n)'
    BY <2>3, <2>4 DEF BootOK, Stored, SamePayload
  <2> QED
    BY <1>0, <2>1, <2>3, <2>5, DurableStage
<1>5. CASE BootCheckpoint(n)
  <2>1. /\ boot[n].pc = "checkpoint" /\ BootQuiet /\ UNCHANGED pg
        /\ boot' = [boot EXCEPT ![n] = [boot[n] EXCEPT !.pc = "persist"]]
    BY <1>5, Zenon DEF BootCheckpoint, Booting
  <2> DEFINE b == [boot[n] EXCEPT !.pc = "persist"]
  <2>2. b.durable = boot[n].durable /\ b.pc # "recover" /\ boot' = [boot EXCEPT ![n] = b]
    BY <1>0, <2>1 DEF Boots
  <2> HIDE DEF b
  <2> QED
    BY <1>0, <2>1, <2>2, DurableSameStage
<1>6. CASE BootPersist(n)
  <2> DEFINE s == boot[n].consensus
  <2>1. /\ BootQuiet /\ CheckpointSucceeds(pg, s) /\ pg' = CheckpointLeadership(pg, s)
        /\ boot' = [boot EXCEPT ![n] = [boot[n] EXCEPT !.pc = "fence", !.durable = s]]
    BY <1>6, Zenon DEF BootPersist
  <2>2. SamePayload(s, pg.row)
    BY <2>1 DEF CheckpointSucceeds
  <2>3. pg.row' = s /\ pg.commits' = pg.commits
    BY <1>0, <2>1 DEF CheckpointLeadership, Types, ProcTypes
  <2>4. \A x : Stored(x)' = Stored(x)
    BY <2>3 DEF Stored
  <2>5. Stored(s)
    BY <1>0, <2>2 DEF StoreInv, Stored, SamePayload
  <2>6. \A d : InLog(d)' = InLog(d)
    BY <1>q, <2>1 DEF InLog
  <2>7. \A d \in pg.commits : s.ledger[d.nonce] = d.state.revision
    BY <1>0, <2>2 DEF StoreInv, SamePayload
  <2>8. StoreInv' /\ Grows
    BY <1>0, <1>q, <2>1, <2>3, <2>4, <2>5, <2>6, <2>7 DEF StoreInv, Grows
  <2>9. boot'[n].durable = s /\ boot'[n].pc = "fence"
    BY <1>0, <2>1 DEF Boots
  <2>10. BootOK(n)'
    BY <2>4, <2>5, <2>9 DEF BootOK
  <2> QED
    BY <1>0, <2>1, <2>8, <2>10, DurableStage
<1>7. CASE BootFence(n)
  <2>1. /\ boot[n].pc = "fence" /\ BootQuiet /\ UNCHANGED pg
        /\ boot' = [boot EXCEPT ![n] = [boot[n] EXCEPT !.pc = "install", !.consensus = NewState]]
    BY <1>7, Zenon DEF BootFence, Booting
  <2> DEFINE b == [boot[n] EXCEPT !.pc = "install", !.consensus = NewState]
  <2>2. b.durable = boot[n].durable /\ b.pc # "recover" /\ boot' = [boot EXCEPT ![n] = b]
    BY <1>0, <2>1 DEF Boots
  <2> HIDE DEF b
  <2> QED
    BY <1>0, <2>1, <2>2, DurableSameStage
<1>8. CASE BootInstall(n)
  <2>1. /\ boot[n].pc = "install" /\ BootQuiet /\ UNCHANGED pg
        /\ boot' = [boot EXCEPT ![n] = [boot[n] EXCEPT !.pc = "resume", !.baseline = NewState]]
    BY <1>8, Zenon DEF BootInstall, Booting
  <2> DEFINE b == [boot[n] EXCEPT !.pc = "resume", !.baseline = NewState]
  <2>2. b.durable = boot[n].durable /\ b.pc # "recover" /\ boot' = [boot EXCEPT ![n] = b]
    BY <1>0, <2>1 DEF Boots
  <2> HIDE DEF b
  <2> QED
    BY <1>0, <2>1, <2>2, DurableSameStage
<1>9. CASE BootResume(n)
  <2>1. /\ boot[n].pc = "resume" /\ BootQuiet /\ UNCHANGED pg
        /\ boot' = [boot EXCEPT ![n] = [boot[n] EXCEPT !.pc = "publish"]]
    BY <1>9, Zenon DEF BootResume, Booting
  <2> DEFINE b == [boot[n] EXCEPT !.pc = "publish"]
  <2>2. b.durable = boot[n].durable /\ b.pc # "recover" /\ boot' = [boot EXCEPT ![n] = b]
    BY <1>0, <2>1 DEF Boots
  <2> HIDE DEF b
  <2> QED
    BY <1>0, <2>1, <2>2, DurableSameStage
<1>10. CASE BootPublish(n)
  <2> DEFINE s == boot[n].durable
  <2>1. /\ boot[n].pc = "publish" /\ UNCHANGED <<log, pg, acked, last, call>>
        /\ published' = [published EXCEPT ![n] = [state |-> s, nonce |-> NonceOf(s)]]
        /\ boot' = [boot EXCEPT ![n] = NoBoot]
    BY <1>10, Zenon DEF BootPublish, Booting, StartupCommit, raft, fsm
  <2>2. PICK d \in pg.commits : SamePayload(d.state, s)
    BY <1>0, <2>1 DEF HoldsInv, BootOK, Stored
  <2>3. NonceOf(s) = d.nonce
    BY <1>0, <2>2, StartupNonce DEF Boots
  <2>4. StoreInv' /\ Grows
    BY <1>0, <2>1, StoreSame
  <2>5. /\ boot'[n] = NoBoot /\ published'[n].nonce = d.nonce /\ published'[n].state = s
        /\ \A x \in Node \ {n} : boot'[x] = boot[x] /\ published'[x] = published[x]
    BY <1>0, <2>1, <2>3 DEF Types, ProcTypes
  <2>6. BootOK(n)' /\ GivenOK(n)'
    BY <2>1, <2>2, <2>5 DEF BootOK, GivenOK, NoBoot
  <2>7. HoldsInv'
    BY <1>0, <2>1, <2>4, <2>5, <2>6, HoldsStep
  <2> QED
    BY <2>4, <2>7 DEF DurableInv
<1> QED
  BY <1>1, <1>2, <1>3, <1>4, <1>5, <1>6, <1>7, <1>8, <1>9, <1>10, Zenon DEF BootStep

\* The first commit is replicated, durable and in every data plane.
LEMMA DurableInit == Init => DurableInv
<1> SUFFICES ASSUME Init PROVE DurableInv
  OBVIOUS
<1>1. PICK n \in Node, p \in Payload :
        LET c == InitialCommit(n, p)
        IN /\ log = <<LeadEntry(1, n), CommitEntry(1, c)>>
           /\ last = [x \in Node |-> NoCommit] /\ boot = [x \in Node |-> NoBoot]
           /\ call = [x \in Node |-> NoCall] /\ pg = [row |-> c.state, commits |-> {c}]
           /\ acked = {c} /\ published = [x \in Node |-> c]
  BY Zenon DEF Init
<1> DEFINE c == InitialCommit(n, p)
<1>2. c.state.ledger[c.nonce] = c.state.revision
  BY NonceAssumption DEF InitialCommit, EmptyLedger
<1>3. IsCommit(log[2]) /\ log[2].commit = c /\ 2 \in DOMAIN log
  BY <1>1 DEF CommitEntry, IsCommit
<1>4. pg.row = c.state /\ pg.commits = {c} /\ acked = {c}
  BY <1>1
<1>5. /\ NoCall.pc = "idle" /\ NoBoot.pc = "load"
      /\ \A x \in Node : /\ last[x] = NoCommit /\ call[x] = NoCall /\ boot[x] = NoBoot
                         /\ published[x] = c
  BY <1>1 DEF NoCall, NoBoot
<1> HIDE DEF c
<1>6. InLog(c)
  BY <1>3 DEF InLog
<1>7. StoreInv
  BY <1>2, <1>4, <1>6 DEF StoreInv, Stored, SamePayload
<1>8. HoldsInv
  BY <1>4, <1>5 DEF HoldsInv, LastOK, CallOK, Answered, BootOK, GivenOK, SamePayload
<1> QED
  BY <1>7, <1>8 DEF DurableInv

\* DurableInv is inductive on top of CoreInv.
LEMMA DurableNext == CoreInv /\ DurableInv /\ [Next]_vars => DurableInv'
<1> SUFFICES ASSUME CoreInv, DurableInv, [Next]_vars PROVE DurableInv'
  OBVIOUS
<1>1. CASE UNCHANGED vars
  <2>1. UNCHANGED <<log, pg, acked, last, boot, published, call>>
    BY <1>1, Zenon DEF vars, raft, fsm, proc, hist
  <2>2. StoreInv' /\ Grows /\ HoldsInv
    BY <2>1, StoreSame DEF DurableInv
  <2>3. HoldsInv'
    BY <2>1, <2>2, HoldsStep
  <2> QED
    BY <2>2, <2>3 DEF DurableInv
<1>2. ASSUME NEW n \in Node, Elect(n) \/ StepDown(n) \/ Learn(n) PROVE DurableInv'
  BY <1>2, DurableOthers, Zenon
<1>3. ASSUME NEW i \in DOMAIN tail, CommitTail(i) PROVE DurableInv'
  <2>1. lead \in Node
    <3>1. lead # NoNode
      BY <1>3, Zenon DEF CommitTail
    <3> QED
      BY <3>1 DEF CoreInv, Types, RaftTypes
  <2> QED
    BY <1>3, <2>1, DurableOthers, Zenon
<1>4. ASSUME NEW n \in Node,
             \/ Runtime(n) \/ CallStep(n) \/ BootStep(n) \/ Start(n) \/ Crash(n) \/ BootFails(n)
             \/ \E p \in Payload : StartCall(n, p)
      PROVE  DurableInv'
  BY <1>4, DurableOthers, DurableCall, DurableBoot, Zenon
<1> QED
  BY <1>1, <1>2, <1>3, <1>4, Zenon DEF Next, Raft

-------------------------------------------------------------------------------
(* The theorems *)

\* Both invariants hold in every reachable state.
LEMMA Inductive == Spec => [](CoreInv /\ DurableInv)
<1>1. Init => CoreInv /\ DurableInv
  BY CoreInit, DurableInit
<1>2. CoreInv /\ DurableInv /\ [Next]_vars => (CoreInv /\ DurableInv)'
  BY CoreNext, DurableNext
<1> QED
  BY <1>1, <1>2, PTL DEF Spec

\* Every variable of the control plane keeps its type, whatever elections, crashes,
\* recoveries and policy writes happen.
THEOREM ControlPlaneTyped == Spec => []TypeOK
<1>1. CoreInv /\ DurableInv => TypeOK
  <2> SUFFICES ASSUME Types PROVE TypeOK
    BY DEF CoreInv
  <2>1. \A e \in Entries(log) \cup Entries(tail) : e.kind \in {"lead", "commit"}
    <3>1. \A e \in Known : e \in Entry
      BY KnownEntries DEF Types
    <3> QED
      BY <3>1, EntryKinds DEF Known
  <2>2. ASSUME NEW n \in Node
        PROVE  /\ curTerm[n] \in 0 .. term /\ known[n] \in Node \cup {NoNode}
               /\ applied[n] \in 0 .. Len(log) /\ obs[n] \in Term
               /\ phase[n] \in {"down", "booting", "ready"} /\ failed[n] \in BOOLEAN
    BY Bounds DEF Types, RaftTypes, NodeTypes, Term
  <2>3. ASSUME NEW n \in Node
        PROVE  /\ StateOK(cons[n]) /\ CommitOK(last[n])
               /\ StateOK(mach[n].state) /\ StateOK(mach[n].committed)
               /\ boot[n].pc \in BootPCs /\ call[n].pc \in PCs /\ CommitOK(call[n].commit)
    BY DEF Types, MachTypes, Machine, NodeTypes, ProcTypes, Calls, Boots, CommitOrNone,
           StateOK, CommitOK
  <2>4. /\ StateOK(pg.row) /\ pg.commits \subseteq Commit /\ acked \subseteq Commit
        /\ term \in Term /\ lead \in Node \cup {NoNode}
    BY DEF Types, RaftTypes, ProcTypes, StateOK
  <2> QED
    BY <2>1, <2>2, <2>3, <2>4 DEF TypeOK
<1> QED
  BY <1>1, Inductive, PTL

\* PostgreSQL never holds a commit that the raft log does not hold: AppendCommit
\* only ever gets a commit that Runtime.Apply has answered or that a restart found
\* in the FSM.
THEOREM DurableIsReplicatedThm == Spec => []DurableIsReplicated
<1>1. CoreInv /\ DurableInv => DurableIsReplicated
  BY DEF DurableInv, StoreInv, InLog, DurableIsReplicated, Entries, IsCommit
<1> QED
  BY <1>1, Inductive, PTL

\* Two replicas in one epoch are in one leadership, and in one revision of it they
\* hold the same consensus state.
THEOREM ConsensusAgreesThm == Spec => []ConsensusAgrees
<1>1. CoreInv /\ DurableInv => ConsensusAgrees
  <2> SUFFICES ASSUME CoreInv, NEW a \in Node, NEW b \in Node
               PROVE  /\ cons[a].epoch = cons[b].epoch => SameLeadership(cons[a], cons[b])
                      /\ cons[a].epoch = cons[b].epoch /\ cons[a].revision = cons[b].revision =>
                           cons[a] = cons[b]
                      /\ mach[a].committed.epoch = mach[b].committed.epoch =>
                           SameLeadership(mach[a].committed, mach[b].committed)
    BY DEF ConsensusAgrees
  <2>1. LogOK(log) /\ CommitsOK(log)
    BY RaftLog DEF CoreInv, Types, LogInv
  <2>2. ASSUME NEW n \in Node
        PROVE  /\ cons[n] \in State /\ mach[n].committed \in State /\ applied[n] \in 0 .. Len(log)
               /\ Len(log) \in Nat /\ DOMAIN log = 1 .. Len(log)
               /\ LeadOK(mach[n].committed, cons[n], log, applied[n])
               /\ Replicated(cons[n], log, applied[n])
    BY KnownEntries DEF CoreInv, Types, NodeTypes, MachTypes, Machine, RaftTypes,
                        ReplicaInv, ReplicaOK, ContentOK
  <2>3. /\ cons[a].epoch = cons[b].epoch => SameLeadership(cons[a], cons[b])
        /\ mach[a].committed.epoch = mach[b].committed.epoch =>
             SameLeadership(mach[a].committed, mach[b].committed)
    <3>1. /\ Led(cons[a], log, applied[a]) /\ Led(cons[b], log, applied[b])
          /\ Led(mach[a].committed, log, applied[a]) /\ Led(mach[b].committed, log, applied[b])
      BY <2>2 DEF LeadOK
    <3> QED
      BY <2>1, <2>2, <3>1, LedAgree
  <2>4. ASSUME cons[a].epoch = cons[b].epoch, cons[a].revision = cons[b].revision
        PROVE  cons[a] = cons[b]
    <3>1. SamePayload(cons[a], cons[b])
      <4>1. CASE Empty(cons[a]) /\ Empty(cons[b])
        BY <4>1 DEF Empty, SamePayload
      <4>2. ASSUME NEW n \in Node, ~Empty(cons[n])
            PROVE  \E i \in DOMAIN log : CommitAt(log, i, cons[n]) /\ cons[n].revision > 0
        <5>1. PICK i \in 1 .. applied[n] : CommitAt(log, i, cons[n])
          BY <2>2, <4>2 DEF Replicated
        <5>2. i \in DOMAIN log
          BY <2>2
        <5> QED
          BY <2>1, <5>1, <5>2, CommitFields DEF CommitAt, SamePayload
      <4>3. CASE ~(Empty(cons[a]) /\ Empty(cons[b]))
        <5>1. ~Empty(cons[a]) /\ ~Empty(cons[b])
          BY <2>4, <4>2, <4>3 DEF Empty
        <5>2. PICK i \in DOMAIN log : CommitAt(log, i, cons[a])
          BY <4>2, <5>1
        <5>3. PICK j \in DOMAIN log : CommitAt(log, j, cons[b])
          BY <4>2, <5>1
        <5>4. i = j
          <6>1. /\ IsCommit(log[i]) /\ IsCommit(log[j])
                /\ log[i].commit.state.revision = log[j].commit.state.revision
            BY <2>4, <5>2, <5>3 DEF CommitAt, SamePayload
          <6> QED
            BY <2>1, <6>1, SameRevision
        <5> QED
          BY <5>2, <5>3, <5>4 DEF CommitAt, SamePayload
      <4> QED
        BY <4>1, <4>3
    <3>2. cons[a].freeze = cons[b].freeze
      BY <2>2, <2>4 DEF LeadOK
    <3>3. cons[a] \in State /\ cons[b] \in State
      BY <2>2
    <3> QED
      BY <2>3, <2>4, <3>1, <3>2, <3>3 DEF SamePayload, SameLeadership, State
  <2> QED
    BY <2>3, <2>4
<1> QED
  BY <1>1, Inductive, PTL

\* The fence tokens that two replicas accept for one revision have the same content
\* and the same nonce, whatever the epochs of the replicas.
THEOREM FencesAgreeThm == Spec => []FencesAgree
<1>1. CoreInv /\ DurableInv => FencesAgree
  <2> SUFFICES ASSUME CoreInv, NEW a \in Node, NEW b \in Node,
                      NEW r \in DOMAIN mach[a].committedFences \cap DOMAIN mach[b].committedFences
               PROVE  /\ mach[a].committedFences[r] = mach[b].committedFences[r]
                      /\ \A x \in Nonce : mach[a].nonces[x] = r <=> mach[b].nonces[x] = r
    BY DEF FencesAgree
  <2>1. LogOK(log) /\ CommitsOK(log) /\ DOMAIN log = 1 .. Len(log) /\ Len(log) \in Nat
    BY RaftLog, KnownEntries DEF CoreInv, Types, LogInv
  <2>2. ASSUME NEW n \in Node, r \in DOMAIN mach[n].committedFences
        PROVE  \E i \in DOMAIN log : FenceAt(mach[n], log, i, r)
    <3>1. FencesOK(mach[n], log, applied[n]) /\ applied[n] \in 0 .. Len(log)
      BY DEF CoreInv, Types, NodeTypes, ReplicaInv, ReplicaOK, ContentOK
    <3> QED
      BY <2>1, <2>2, <3>1 DEF FencesOK
  <2>3. PICK i \in DOMAIN log : FenceAt(mach[a], log, i, r)
    BY <2>2
  <2>4. PICK j \in DOMAIN log : FenceAt(mach[b], log, j, r)
    BY <2>2
  <2>5. i = j
    BY <2>1, <2>3, <2>4, SameRevision DEF FenceAt
  <2> QED
    BY <2>3, <2>4, <2>5 DEF FenceAt
<1> QED
  BY <1>1, Inductive, PTL

\* What a caller was told is committed stays: in PostgreSQL, in its row, and in the
\* consensus state of every replica that has come so far.
THEOREM AckedIsKeptThm == Spec => []AckedIsKept
<1>1. CoreInv /\ DurableInv => AckedIsKept
  <2> SUFFICES ASSUME CoreInv, DurableInv, NEW c \in acked
               PROVE  /\ c \in pg.commits /\ pg.row.ledger[c.nonce] = c.state.revision
                      /\ \A n \in Node : cons[n].revision >= c.state.revision =>
                                           cons[n].ledger[c.nonce] = c.state.revision
    BY DEF AckedIsKept
  <2>1. c \in pg.commits /\ pg.row.ledger[c.nonce] = c.state.revision /\ InLog(c)
    BY DEF DurableInv, StoreInv
  <2>2. LogOK(log) /\ CommitsOK(log) /\ DOMAIN log = 1 .. Len(log) /\ Len(log) \in Nat
    BY RaftLog, KnownEntries DEF CoreInv, Types, LogInv
  <2>3. PICK i \in DOMAIN log : IsCommit(log[i]) /\ log[i].commit = c
    BY <2>1 DEF InLog
  <2>4. /\ c.state.revision \in Nat /\ c.state.revision > 0 /\ c.nonce \in Nonce
        /\ c.state.ledger[c.nonce] = c.state.revision
    BY <2>2, <2>3, CommitFields DEF GoodCommit
  <2>5. ASSUME NEW n \in Node, cons[n].revision >= c.state.revision
        PROVE  cons[n].ledger[c.nonce] = c.state.revision
    <3>1. /\ Replicated(cons[n], log, applied[n]) /\ applied[n] \in 0 .. Len(log)
          /\ cons[n].revision \in Nat
      BY Bounds DEF CoreInv, Types, NodeTypes, ReplicaInv, ReplicaOK, ContentOK, State, Revision
    <3>2. ~Empty(cons[n])
      BY <2>4, <2>5 DEF Empty
    <3>3. PICK j \in DOMAIN log : CommitAt(log, j, cons[n])
      BY <2>2, <3>1, <3>2 DEF Replicated
    <3>4. log[j].commit.state.revision >= c.state.revision /\ IsCommit(log[j])
      BY <2>5, <3>3 DEF CommitAt, SamePayload
    <3>5. log[j].commit.state.ledger[c.nonce] = c.state.revision
      <4>1. CASE i = j
        BY <2>3, <2>4, <4>1
      <4>2. CASE i # j
        <5>1. i < j
          <6>1. ~(j < i)
            <7>1. log[j].commit.state.revision \in Nat
              BY <2>2, <3>4, CommitFields
            <7> QED
              BY <2>2, <2>3, <2>4, <3>4, <7>1, SameRevision
          <6> QED
            BY <2>2, <4>2, <6>1
        <5>2. Follows(log[j].commit, c)
          BY <2>2, <2>3, <3>4, <5>1 DEF CommitsOK
        <5> QED
          BY <2>4, <5>2 DEF Follows, LedgerWithin
      <4> QED
        BY <4>1, <4>2
    <3> QED
      BY <3>3, <3>5 DEF CommitAt, SamePayload
  <2> QED
    BY <2>1, <2>5
<1> QED
  BY <1>1, Inductive, PTL

\* What a data plane was last given is in PostgreSQL under the nonce it was given
\* with, also after a restart that published the durable state.
THEOREM PublishedIsDurableThm == Spec => []PublishedIsDurable
<1>1. CoreInv /\ DurableInv => PublishedIsDurable
  <2> SUFFICES ASSUME DurableInv, NEW n \in Node
               PROVE  LET c == published[n]
                      IN /\ pg.row.ledger[c.nonce] = c.state.revision
                         /\ \E d \in pg.commits : d.nonce = c.nonce /\ SamePayload(d.state, c.state)
    BY DEF PublishedIsDurable
  <2>1. PICK d \in pg.commits : d.nonce = published[n].nonce
                                /\ SamePayload(d.state, published[n].state)
    BY DEF DurableInv, HoldsInv, GivenOK
  <2>2. pg.row.ledger[d.nonce] = d.state.revision
    BY DEF DurableInv, StoreInv
  <2> QED
    BY <2>1, <2>2 DEF SamePayload
<1> QED
  BY <1>1, Inductive, PTL
===============================================================================
