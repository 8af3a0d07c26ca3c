--------------------------- MODULE ControlPlaneTypes ---------------------------
(***************************************************************************)
(* What the operations of a machine do to its fields, and that every step  *)
(* of the composed control plane keeps the types.  ControlPlaneProofs      *)
(* rests on these lemmas.                                                  *)
(***************************************************************************)
EXTENDS ControlPlane, FiniteSetTheorems, TLAPS

-------------------------------------------------------------------------------
(* Types *)

LeadEntries == [kind : {"lead"}, at : Term, term : Term, leader : Node]
CommitEntries == [kind : {"commit"}, at : Term, commit : Commit]
Entry == LeadEntries \cup CommitEntries

\* A machine is the six fields of controlplane.StateMachine.
Machine(m) ==
  /\ m = [state |-> m.state, committed |-> m.committed, fences |-> m.fences,
          committedFences |-> m.committedFences, nonces |-> m.nonces,
          proposals |-> m.proposals]
  /\ m.state \in State /\ m.committed \in State /\ m.nonces \in Ledger

CommitOrNone == Commit \cup {NoCommit}
Calls == [pc : PCs, commit : CommitOrNone]
Boots == [pc : BootPCs, durable : State, consensus : State, baseline : State,
          commit : CommitOrNone]

RaftTypes ==
  /\ log \in Seq(Entry) /\ tail \in Seq(Entry)
  /\ term \in Term /\ lead \in Node \cup {NoNode}
  /\ curTerm \in [Node -> Term] /\ known \in [Node -> Node \cup {NoNode}]
  /\ \A n \in Node : curTerm[n] <= term

MachTypes ==
  /\ DOMAIN mach = Node /\ \A n \in Node : Machine(mach[n])

NodeTypes ==
  /\ applied \in [Node -> Nat] /\ \A n \in Node : applied[n] <= Len(log)
  /\ cons \in [Node -> State] /\ last \in [Node -> CommitOrNone]
  /\ obs \in [Node -> Term]
  /\ phase \in [Node -> {"down", "booting", "ready"}]
  /\ failed \in [Node -> BOOLEAN]

ProcTypes ==
  /\ boot \in [Node -> Boots] /\ call \in [Node -> Calls]
  /\ pg \in [row : State, commits : SUBSET Commit]
  /\ drawn \in Nat /\ acked \subseteq Commit /\ published \in [Node -> Commit]
  /\ \A n \in Node : call[n].pc # "idle" => call[n].commit \in Commit
  /\ \A n \in Node : boot[n].pc = "recover" => boot[n].commit \in Commit

Types == RaftTypes /\ MachTypes /\ NodeTypes /\ ProcTypes

-------------------------------------------------------------------------------
(* The operations of a machine, one by one *)

USE ControlStateAssumption

\* What the bounds say of the numbers of a state.
LEMMA Bounds == /\ MaxTerm \in Nat /\ MaxEpoch \in Nat /\ MaxRevision \in Nat
                /\ 0 \in Term /\ 1 \in Term /\ 1 \in Epoch /\ 1 \in Revision
BY BoundAssumption DEF Term, Epoch, Revision

\* A new machine is typed.
LEMMA NewTyped == NewState \in State /\ Machine(NewMachine) /\ NoCommit.state \in State
BY Bounds DEF NewState, NewMachine, Machine, State, Ledger, EmptyLedger, FreezeKind, NoCommit,
     Term, Epoch, Revision

\* FreezeWrites and ResumeWrites change the freeze overlay and nothing else.
LEMMA FreezeFields ==
  ASSUME NEW m, Machine(m), NEW kind \in FreezeKind
  PROVE  LET r == FreezeWrites(m, kind)
         IN /\ Machine(r)
            /\ r.state = Freeze(m.state, kind) /\ r.committed = Freeze(m.committed, kind)
            /\ SameLeadership(r.state, m.state) /\ SamePayload(r.state, m.state)
            /\ SameLeadership(r.committed, m.committed) /\ SamePayload(r.committed, m.committed)
            /\ r.committedFences = m.committedFences /\ r.nonces = m.nonces
            /\ r.proposals = m.proposals /\ r.fences = m.fences
<1>1. \A s \in State : /\ Freeze(s, kind) \in State
                       /\ SameLeadership(Freeze(s, kind), s) /\ SamePayload(Freeze(s, kind), s)
  BY DEF Freeze, State, SameLeadership, SamePayload
<1>2. FreezeWrites(m, kind) =
        [state |-> Freeze(m.state, kind), committed |-> Freeze(m.committed, kind),
         fences |-> m.fences, committedFences |-> m.committedFences, nonces |-> m.nonces,
         proposals |-> m.proposals]
  <2>1. PICK a, b, f, g, h, k :
          m = [state |-> a, committed |-> b, fences |-> f, committedFences |-> g,
               nonces |-> h, proposals |-> k]
    BY DEF Machine
  <2> DEFINE x == Freeze(m.state, kind)
             y == Freeze(m.committed, kind)
  <2>2. FreezeWrites(m, kind) = [m EXCEPT !.state = x, !.committed = y]
    BY DEF FreezeWrites
  <2> HIDE DEF x, y
  <2>3. FreezeWrites(m, kind) =
          [state |-> x, committed |-> y, fences |-> m.fences,
           committedFences |-> m.committedFences, nonces |-> m.nonces,
           proposals |-> m.proposals]
    BY <2>1, <2>2
  <2> QED
    BY <2>3 DEF x, y
<1> QED
  BY <1>1, <1>2 DEF Machine

\* ResumeWrites is the overlay "open".
LEMMA ResumeIsFreeze == \A m : ResumeWrites(m) = FreezeWrites(m, "open")
BY DEF ResumeWrites, FreezeWrites

\* LoadSnapshot takes the snapshot over, fences its revision and forgets proposals.
LEMMA LoadFields ==
  ASSUME NEW m, Machine(m), NEW s \in State
  PROVE  LET r == LoadSnapshot(m, s)
         IN /\ Machine(r)
            /\ r.state = r.committed /\ r.nonces = s.ledger
            /\ SameLeadership(r.committed, s) /\ SamePayload(r.committed, s)
            /\ r.proposals = NoEntries
            /\ \A k \in DOMAIN r.committedFences : k = s.revision
            /\ \A k \in DOMAIN r.committedFences : r.committedFences[k] = s.desired /\ k > 0
<1> DEFINE loaded == IF Frozen(m.state) THEN Freeze(s, m.state.freeze) ELSE s
           seeded == IF s.revision > 0 THEN Put(NoEntries, s.revision, s.desired) ELSE NoEntries
<1>1. loaded \in State /\ SameLeadership(loaded, s) /\ SamePayload(loaded, s)
  BY DEF Freeze, State, SameLeadership, SamePayload, Machine
<1>2. /\ \A k \in DOMAIN seeded : k = s.revision /\ k > 0 /\ seeded[k] = s.desired
  BY DEF Put, NoEntries
<1>3. s.ledger \in Ledger
  BY DEF State
<1>4. LoadSnapshot(m, s) = [state |-> loaded, committed |-> loaded, fences |-> seeded,
                            committedFences |-> seeded, nonces |-> s.ledger,
                            proposals |-> NoEntries]
  BY DEF LoadSnapshot
<1> QED
  BY <1>1, <1>2, <1>3, <1>4 DEF Machine

\* Propose moves the working state only.
LEMMA ProposeFields ==
  ASSUME NEW m, Machine(m), NEW p \in Payload, NEW x \in Nonce,
         m.state.revision < MaxRevision
  PROVE  LET r == Propose(m, p, x)
             c == ProposedCommit(m, p, x)
         IN /\ Machine(r) /\ c \in Commit
            /\ r.committed = m.committed /\ r.committedFences = m.committedFences
            /\ r.state = c.state /\ SameLeadership(r.state, m.state)
            /\ r.state.revision = m.state.revision + 1
            /\ r.nonces = [m.nonces EXCEPT ![x] = m.state.revision + 1]
            /\ r.state.ledger = r.nonces
<1> DEFINE rev == m.state.revision + 1
           c == ProposedCommit(m, p, x)
<1>1. rev \in Revision /\ m.state.revision \in Nat
  BY Bounds DEF Machine, State, Revision
<1>2. [m.nonces EXCEPT ![x] = rev] \in Ledger
  BY <1>1 DEF Machine, Ledger
<1>3. c.state \in State /\ c \in Commit /\ SameLeadership(c.state, m.state)
      /\ c.state.revision = rev /\ c.state.ledger = [m.nonces EXCEPT ![x] = rev]
  BY <1>1, <1>2 DEF ProposedCommit, Machine, State, Commit, SameLeadership
<1>4. Propose(m, p, x) =
        [state |-> c.state, committed |-> m.committed, fences |-> Put(m.fences, rev, p),
         committedFences |-> m.committedFences, nonces |-> c.state.ledger,
         proposals |-> Put(m.proposals, rev, c)]
  <2>1. PICK a, b, f, g, h, k :
          m = [state |-> a, committed |-> b, fences |-> f, committedFences |-> g,
               nonces |-> h, proposals |-> k]
    BY DEF Machine
  <2> HIDE DEF c, rev
  <2>2. Propose(m, p, x) = [m EXCEPT !.state = c.state, !.fences = Put(@, rev, p),
                                     !.nonces = c.state.ledger, !.proposals = Put(@, rev, c)]
    BY <1>3 DEF Propose, c, rev
  <2> QED
    BY <2>1, <2>2
<1> HIDE DEF c, rev
<1>5. Propose(m, p, x).nonces = c.state.ledger /\ Propose(m, p, x).state = c.state
      /\ Propose(m, p, x).committed = m.committed
      /\ Propose(m, p, x).committedFences = m.committedFences
  BY <1>4
<1>6. Machine(Propose(m, p, x))
  BY <1>2, <1>3, <1>4 DEF Machine
<1> QED
  BY <1>3, <1>5, <1>6 DEF c, rev

\* A promoted or retried commit keeps a machine typed.
LEMMA InstallCommitType ==
  ASSUME NEW m, Machine(m), NEW c, c.state \in State
  PROVE  Machine(InstallCommit(m, c))
<1> DEFINE s == Freeze(c.state, m.state.freeze)
<1>1. s \in State
  BY DEF Freeze, State, Machine
<1> DEFINE newer == s.revision >= m.committed.revision
<1>2. InstallCommit(m, c) =
        [state |-> IF Frozen(m.state) \/ s.revision >= m.state.revision THEN s ELSE m.state,
         committed |-> IF newer THEN s ELSE m.committed, fences |-> m.fences,
         committedFences |-> IF newer THEN Put(m.committedFences, s.revision, s.desired)
                             ELSE m.committedFences,
         nonces |-> m.nonces, proposals |-> m.proposals]
  <2>1. PICK a, b, f, g, h, k :
          m = [state |-> a, committed |-> b, fences |-> f, committedFences |-> g,
               nonces |-> h, proposals |-> k]
    BY DEF Machine
  <2> DEFINE x == IF newer THEN s ELSE m.committed
             y == IF newer THEN Put(m.committedFences, s.revision, s.desired)
                  ELSE m.committedFences
             z == IF Frozen(m.state) \/ s.revision >= m.state.revision THEN s ELSE m.state
  <2>2. InstallCommit(m, c) = [m EXCEPT !.committed = x, !.committedFences = y, !.state = z]
    BY DEF InstallCommit
  <2> HIDE DEF x, y, z
  <2>3. InstallCommit(m, c) =
          [state |-> z, committed |-> x, fences |-> m.fences, committedFences |-> y,
           nonces |-> m.nonces, proposals |-> m.proposals]
    BY <2>1, <2>2
  <2> QED
    BY <2>3 DEF x, y, z
<1> HIDE DEF s, newer
<1> QED
  BY <1>1, <1>2 DEF Machine

\* The working and the committed state have one leadership; without a pending
\* proposal they have one content.
Coherent(m) ==
  /\ SameLeadership(m.state, m.committed) /\ m.nonces = m.state.ledger
  /\ m.committed.revision <= m.state.revision
  /\ m.state.revision = m.committed.revision => SamePayload(m.state, m.committed)

\* AdvanceLeadership starts the next epoch with the committed content, or with the
\* pending proposal of a machine that is open.
LEMMA AdvanceFields ==
  ASSUME NEW m, Machine(m), Coherent(m), NEW t \in Term, NEW l \in Node,
         m.committed.epoch < MaxEpoch
  PROVE  LET r == AdvanceLeadership(m, t, l)
         IN /\ Machine(r) /\ Coherent(r)
            /\ r.committed.leader = l /\ r.committed.term = t
            /\ r.committed.epoch = m.committed.epoch + 1
            /\ r.state = r.committed
            /\ r.committedFences = NoEntries /\ r.proposals = NoEntries
            /\ \/ SamePayload(r.committed, m.committed)
               \/ m.state.revision # m.committed.revision /\ SamePayload(r.committed, m.state)
<1> DEFINE drop == Frozen(m.state) /\ m.committed.revision # m.state.revision
           base == IF drop THEN m.committed ELSE m.state
           ledger == IF drop THEN m.committed.ledger ELSE m.nonces
           reopen == \/ ~Frozen(m.state)
                     \/ m.committed.revision = 0
                     \/ m.state.freeze = "unavailable"
           next == [leader |-> l, term |-> t, epoch |-> base.epoch + 1,
                    revision |-> base.revision, desired |-> base.desired,
                    freeze |-> IF reopen THEN "open" ELSE m.state.freeze,
                    ledger |-> ledger]
<1>1. /\ base \in State /\ base.epoch = m.committed.epoch /\ ledger = base.ledger
      /\ base.epoch + 1 \in Epoch
  BY Bounds DEF Machine, Coherent, SameLeadership, State, Epoch
<1>2. \/ SamePayload(base, m.committed)
      \/ m.state.revision # m.committed.revision /\ base = m.state
  BY DEF Coherent, SamePayload
<1>3. (IF reopen THEN "open" ELSE m.state.freeze) \in FreezeKind
  BY DEF Machine, State, FreezeKind
<1> HIDE DEF base, ledger, reopen
<1>4. next \in State
  BY <1>1, <1>3 DEF State
<1>5. SamePayload(next, base)
  BY <1>1 DEF SamePayload
<1>6. AdvanceLeadership(m, t, l) =
        [state |-> next, committed |-> next, fences |-> NoEntries,
         committedFences |-> NoEntries, nonces |-> ledger, proposals |-> NoEntries]
  BY DEF AdvanceLeadership, base, ledger, reopen
<1>7. next.leader = l /\ next.term = t /\ next.epoch = m.committed.epoch + 1 /\ next.ledger = ledger
  BY <1>1
<1> HIDE DEF next
<1>8. /\ AdvanceLeadership(m, t, l).state = next /\ AdvanceLeadership(m, t, l).committed = next
      /\ AdvanceLeadership(m, t, l).nonces = ledger
      /\ AdvanceLeadership(m, t, l).committedFences = NoEntries
      /\ AdvanceLeadership(m, t, l).proposals = NoEntries
  BY <1>6
<1>9. ledger \in Ledger
  BY <1>1 DEF State
<1>10. Machine(AdvanceLeadership(m, t, l))
  BY <1>4, <1>6, <1>9 DEF Machine
<1>11. Coherent(AdvanceLeadership(m, t, l))
  BY <1>4, <1>7, <1>8, Bounds DEF Coherent, SameLeadership, SamePayload, State, Revision
<1>12. \/ SamePayload(next, m.committed)
       \/ m.state.revision # m.committed.revision /\ SamePayload(next, m.state)
  BY <1>2, <1>5 DEF SamePayload
<1> QED
  BY <1>7, <1>8, <1>10, <1>11, <1>12

\* InstallLeadership ignores an old term, freezes at the last epoch, or advances.
LEMMA LeadershipFields ==
  ASSUME NEW m, Machine(m), Coherent(m), NEW t \in Term, NEW l \in Node
  PROVE  LET r == InstallLeadership(m, t, l)
         IN \/ t <= m.committed.term /\ r = m
            \/ /\ t > m.committed.term /\ m.committed.epoch = MaxEpoch
               /\ r = FreezeWrites(m, "closed") /\ InstallLeadershipFails(m, t, l)
            \/ /\ t > m.committed.term /\ m.committed.epoch < MaxEpoch
               /\ r = AdvanceLeadership(m, t, l) /\ ~InstallLeadershipFails(m, t, l)
<1>1. /\ m.state.term = m.committed.term /\ m.state.epoch = m.committed.epoch
      /\ m.committed.term \in Nat /\ m.committed.epoch \in 0 .. MaxEpoch /\ t \in Nat
  BY Bounds DEF Machine, Coherent, SameLeadership, State, Term, Epoch
<1> QED
  BY <1>1, Bounds DEF InstallLeadership, InstallLeadershipFails, LeadershipIsOld, LeadershipConflicts

-------------------------------------------------------------------------------
(* Types are kept *)

\* One node's machine changes.
LEMMA MachUpdate ==
  ASSUME MachTypes, NEW n \in Node, NEW X, Machine(X), mach' = [mach EXCEPT ![n] = X]
  PROVE  MachTypes'
BY DEF MachTypes

\* The entries of the log have a term, and their kind says which fields there are.
LEMMA EntryKinds ==
  \A e \in Entry : /\ e.at \in Term
                   /\ e.kind = "lead" => e.term \in Term /\ e.leader \in Node
                   /\ e.kind # "lead" => e.kind = "commit" /\ e.commit \in Commit
BY DEF Entry, LeadEntries, CommitEntries

\* A leadership entry and a commit entry are entries of the log.
LEMMA EntryFields ==
  /\ \A t \in Term, l \in Node : LeadEntry(t, l) \in Entry
  /\ \A t \in Term, c \in Commit : CommitEntry(t, c) \in Entry
BY DEF Entry, LeadEntries, CommitEntries, LeadEntry, CommitEntry

\* The protected initial commit is typed.
LEMMA InitialTyped ==
  ASSUME NEW n \in Node, NEW p \in Payload
  PROVE  InitialCommit(n, p) \in Commit
<1>1. [EmptyLedger EXCEPT ![1] = 1] \in Ledger
  BY Bounds, NonceAssumption DEF EmptyLedger, Ledger, Revision
<1> QED
  BY <1>1, Bounds, NonceAssumption DEF InitialCommit, Commit, State, FreezeKind, Term, Epoch, Revision

\* The types hold initially.
LEMMA TypesInit == Init => Types
<1> SUFFICES ASSUME Init PROVE Types
  OBVIOUS
<1>1. PICK n \in Node, p \in Payload :
        LET c == InitialCommit(n, p)
        IN /\ log = <<LeadEntry(1, n), CommitEntry(1, c)>>
           /\ pg = [row |-> c.state, commits |-> {c}] /\ acked = {c}
           /\ published = [x \in Node |-> c]
  BY DEF Init
<1> DEFINE c == InitialCommit(n, p)
<1>2. c \in Commit /\ c.state \in State
  BY InitialTyped DEF Commit
<1>3. log \in Seq(Entry) /\ Len(log) \in Nat
  BY <1>1, <1>2, Bounds, EntryFields
<1> HIDE DEF c
<1>4. RaftTypes
  BY <1>3, Bounds DEF Init, RaftTypes, Term
<1>5. MachTypes
  BY NewTyped DEF Init, MachTypes
<1>6. NodeTypes
  BY <1>3, Bounds, NewTyped DEF Init, NodeTypes, CommitOrNone
<1>7. ProcTypes
  <2>1. NoCall \in Calls /\ NoBoot \in Boots
    BY NewTyped DEF NoCall, NoBoot, Calls, Boots, CommitOrNone, PCs, BootPCs
  <2>4. NoCall.pc = "idle" /\ NoBoot.pc = "load"
    BY DEF NoCall, NoBoot
  <2>2. /\ boot = [x \in Node |-> NoBoot] /\ call = [x \in Node |-> NoCall] /\ drawn = 1
    BY DEF Init
  <2>3. pg \in [row : State, commits : SUBSET Commit] /\ acked \subseteq Commit
        /\ published \in [Node -> Commit]
    BY <1>1, <1>2 DEF c
  <2> QED
    BY <2>1, <2>2, <2>3, <2>4 DEF ProcTypes
<1> QED
  BY <1>4, <1>5, <1>6, <1>7 DEF Types

\* A call moves to its next stage.
LEMMA AdvanceCall ==
  ASSUME ProcTypes, NEW n \in Node, NEW pc \in PCs, call[n].pc # "idle",
         call' = [call EXCEPT ![n].pc = pc]
  PROVE  /\ call' \in [Node -> Calls]
         /\ \A x \in Node : call'[x].pc # "idle" => call'[x].commit \in Commit
BY DEF ProcTypes, Calls

\* Raft and the process around a node, as a type sees them.
LEMMA TypesRaft ==
  ASSUME Types, NEW n \in Node,
         Elect(n) \/ StepDown(n) \/ Learn(n) \/ (\E i \in DOMAIN tail : CommitTail(i))
  PROVE  Types'
<1> USE DEF Types, raft, fsm, proc, hist, vars, Alive, IsLeader
<1>1. CASE Elect(n)
  BY <1>1, Bounds DEF Elect, RaftTypes, MachTypes, NodeTypes, ProcTypes, Term
<1>2. CASE StepDown(n)
  <2>1. RaftTypes'
    BY <1>2, Bounds DEF StepDown, RaftTypes
  <2>2. NodeTypes' /\ MachTypes'
    BY <1>2, Bounds DEF StepDown, NodeTypes, MachTypes
  <2>3. ProcTypes'
    <3>1. call' = call \/ (call[n].pc = "submitted" /\ call' = [call EXCEPT ![n].pc = "lost"])
      BY <1>2, Zenon DEF StepDown
    <3>2. UNCHANGED <<boot, pg, drawn, acked, published>>
      BY <1>2, Zenon DEF StepDown, hist
    <3>3. /\ call' \in [Node -> Calls]
          /\ \A x \in Node : call'[x].pc # "idle" => call'[x].commit \in Commit
      <4>1. CASE call' = call
        BY <4>1 DEF ProcTypes
      <4>2. CASE call[n].pc = "submitted" /\ call' = [call EXCEPT ![n].pc = "lost"]
        BY <4>2, AdvanceCall DEF PCs
      <4> QED
        BY <3>1, <4>1, <4>2
    <3> QED
      BY <3>2, <3>3 DEF ProcTypes
  <2> QED BY <2>1, <2>2, <2>3
<1>3. CASE Learn(n)
  <2>1. /\ UNCHANGED <<log, tail, term, lead, fsm, obs, proc, pg, hist>>
        /\ curTerm' = [curTerm EXCEPT ![n] = term] /\ known' = [known EXCEPT ![n] = lead]
    BY <1>3, Zenon DEF Learn
  <2>2. RaftTypes'
    BY <2>1, Bounds DEF RaftTypes, Term
  <2> QED
    BY <2>1, <2>2 DEF MachTypes, NodeTypes, ProcTypes
<1>4. CASE \E i \in DOMAIN tail : CommitTail(i)
  <2>1. PICK i \in DOMAIN tail :
          /\ log' = Append(log, tail[i]) /\ tail' = SubSeq(tail, i + 1, Len(tail))
          /\ UNCHANGED <<term, lead, curTerm, known, fsm, obs, proc, pg, hist>>
    BY <1>4, Zenon DEF CommitTail
  <2>2. log \in Seq(Entry) /\ tail \in Seq(Entry) /\ Len(log) \in Nat
    BY DEF RaftTypes
  <2>3. tail[i] \in Entry /\ i \in 1 .. Len(tail)
    BY <2>2
  <2>4. log' \in Seq(Entry) /\ Len(log') = Len(log) + 1
    BY <2>1, <2>2, <2>3
  <2>5. tail' \in Seq(Entry)
    BY <2>1, <2>2, <2>3
  <2>6. RaftTypes'
    BY <2>1, <2>4, <2>5 DEF RaftTypes
  <2>7. NodeTypes'
    BY <2>1, <2>2, <2>4 DEF NodeTypes
  <2> QED
    BY <2>1, <2>6, <2>7 DEF MachTypes, ProcTypes
<1> QED
  BY <1>1, <1>2, <1>3, <1>4

\* advanceConsensusLeadership keeps the state, or moves it to the leadership (t, l)
\* that the machine's state x already has, with the content both share.
LEMMA AdvanceConsensusFields ==
  ASSUME NEW s \in State, NEW x, NEW t \in Term, NEW l \in Node
  PROVE  LET r == AdvanceConsensusLeadership(s, x, t, l)
         IN /\ r \in State
            /\ \/ r = s
               \/ /\ t > s.term /\ s.epoch < MaxEpoch
                  /\ SameLeadership(x, r) /\ SamePayload(x, r) /\ SamePayload(r, s)
                  /\ r.leader = l /\ r.term = t /\ r.epoch = s.epoch + 1 /\ r.freeze = "open"
<1> DEFINE up == s.epoch + 1
           next == [s EXCEPT !.leader = l, !.term = t, !.epoch = up, !.freeze = "open"]
<1>1. ASSUME s.epoch < MaxEpoch PROVE next \in State
  <2>1. up \in Epoch
    BY <1>1, Bounds DEF State, Epoch
  <2> HIDE DEF up
  <2>2. [s EXCEPT !.leader = l] \in State
    BY DEF State
  <2>3. \A u \in State : [u EXCEPT !.term = t] \in State
    BY DEF State
  <2>4. \A u \in State : [u EXCEPT !.epoch = up] \in State
    BY <2>1 DEF State
  <2>5. \A u \in State : [u EXCEPT !.freeze = "open"] \in State
    BY DEF State, FreezeKind
  <2> QED
    BY <2>2, <2>3, <2>4, <2>5
<1>2. /\ next.leader = l /\ next.term = t /\ next.epoch = up /\ next.freeze = "open"
      /\ next.revision = s.revision /\ next.desired = s.desired /\ next.ledger = s.ledger
  BY DEF State
<1> HIDE DEF next
<1>3. \/ AdvanceConsensusLeadership(s, x, t, l) = s
      \/ /\ AdvanceConsensusLeadership(s, x, t, l) = next /\ s.epoch < MaxEpoch /\ t > s.term
         /\ SameLeadership(x, next) /\ SamePayload(x, next)
  BY DEF AdvanceConsensusLeadership, next
<1> QED
  BY <1>1, <1>2, <1>3 DEF SamePayload

\* The leadership observer and the FSM keep the types.
LEMMA TypesRuntime ==
  ASSUME Types, \A n \in Node : Coherent(mach[n]), NEW n \in Node, Runtime(n)
  PROVE  Types'
<1> USE DEF Types, raft, fsm, proc, hist, vars, Alive, IsLeader
<1>1. CASE ObserveLost(n)
  <2>1. MachTypes'
    BY <1>1, FreezeFields, MachUpdate DEF ObserveLost, MachTypes, FreezeKind
  <2>2. NodeTypes'
    BY <1>1 DEF ObserveLost, NodeTypes
  <2> QED
    BY <1>1, <2>1, <2>2 DEF ObserveLost, RaftTypes, ProcTypes
<1>2. CASE ObserveWon(n)
  <2>1. LeadEntry(curTerm[n], n) \in Entry /\ curTerm[n] \in Term
    BY EntryFields DEF RaftTypes
  <2>2. RaftTypes'
    <3>1. tail' \in Seq(Entry)
      <4>1. tail' = tail \/ tail' = Append(tail, LeadEntry(curTerm[n], n))
        BY <1>2, Zenon DEF ObserveWon, Submit
      <4> QED
        BY <2>1, <4>1 DEF RaftTypes
    <3> QED
      BY <1>2, <3>1 DEF ObserveWon, RaftTypes
  <2>3. NodeTypes'
    BY <1>2, <2>1 DEF ObserveWon, NodeTypes
  <2> QED
    BY <1>2, <2>2, <2>3 DEF ObserveWon, MachTypes, ProcTypes
<1>3. CASE ApplyEntry(n)
  <2> DEFINE e == log[applied[n] + 1]
  <2>0. /\ applied[n] < Len(log) /\ applied' = [applied EXCEPT ![n] = @ + 1]
        /\ UNCHANGED <<raft, notify, phase, boot, failed, pg, hist>>
        /\ e.kind = "lead" => ApplyLeadership(n, e)
        /\ e.kind # "lead" => ApplyCommit(n, e.commit)
    BY <1>3, Zenon DEF ApplyEntry
  <2>1. e \in Entry /\ applied[n] + 1 <= Len(log)
    BY <2>0 DEF RaftTypes, NodeTypes
  <2>5. applied' \in [Node -> Nat] /\ \A x \in Node : applied'[x] <= Len(log')
    BY <2>0, <2>1 DEF RaftTypes, NodeTypes
  <2> HIDE DEF e
  <2>2. RaftTypes'
    BY <2>0 DEF RaftTypes
  <2>3. CASE e.kind = "lead"
    <3>0. ApplyLeadership(n, e)
      BY <2>0, <2>3, Zenon
    <3>1. e.term \in Term /\ e.leader \in Node
      BY <2>1, <2>3, EntryKinds, Zenon
    <3> DEFINE next == InstallLeadership(mach[n], e.term, e.leader)
    <3>2. Machine(mach[n]) /\ Coherent(mach[n])
      BY DEF MachTypes
    <3>3. Machine(next)
      BY <3>1, <3>2, LeadershipFields, AdvanceFields, FreezeFields DEF FreezeKind
    <3>4. MachTypes'
      BY <3>0, <3>3, MachUpdate DEF ApplyLeadership
    <3>5. cons' \in [Node -> State]
      <4>1. cons[n] \in State
        BY DEF NodeTypes
      <4>2. AdvanceConsensusLeadership(cons[n], next.state, e.term, e.leader) \in State
        BY <3>1, <4>1, AdvanceConsensusFields
      <4> QED
        BY <3>0, <4>2 DEF ApplyLeadership, NodeTypes
    <3>6. obs' \in [Node -> Term] /\ UNCHANGED <<last, call>>
      BY <3>0, <3>1, Bounds DEF ApplyLeadership, NodeTypes
    <3> QED
      BY <2>0, <2>2, <2>5, <3>4, <3>5, <3>6 DEF NodeTypes, ProcTypes
  <2>4. CASE e.kind # "lead"
    <3>0. ApplyCommit(n, e.commit)
      BY <2>0, <2>4, Zenon
    <3>1. e.commit \in Commit
      BY <2>1, <2>4, EntryKinds, Zenon
    <3>2. e.commit.state \in State
      BY <3>1 DEF Commit
    <3>5. MachTypes'
      BY <3>0, <3>2, LoadFields, MachUpdate DEF ApplyCommit, MachTypes
    <3>3. /\ cons' \in [Node -> State] /\ last' \in [Node -> CommitOrNone] /\ UNCHANGED obs
      BY <3>0, <3>1, <3>2 DEF ApplyCommit, NodeTypes, CommitOrNone
    <3>4. /\ call' \in [Node -> Calls]
          /\ \A x \in Node : call'[x].pc # "idle" => call'[x].commit \in Commit
      <4>1. \E v \in PCs : call' = [call EXCEPT ![n].pc = v] /\ (v # "idle" => call[n].pc # "idle")
        BY <3>0, <3>1 DEF ApplyCommit, ProcTypes, Calls, PCs
      <4> QED
        BY <4>1 DEF ProcTypes, Calls
    <3> QED
      BY <2>0, <2>2, <2>5, <3>5, <3>3, <3>4 DEF NodeTypes, ProcTypes
  <2> QED
    BY <2>3, <2>4
<1> QED
  BY <1>1, <1>2, <1>3 DEF Runtime

\* A call that ends, with or without an error.
LEMMA EndCall ==
  ASSUME ProcTypes, NEW n \in Node, call' = [call EXCEPT ![n] = NoCall]
  PROVE  /\ call' \in [Node -> Calls]
         /\ \A x \in Node : call'[x].pc # "idle" => call'[x].commit \in Commit
<1>1. NoCall \in Calls /\ NoCall.pc = "idle"
  BY DEF NoCall, Calls, CommitOrNone, PCs
<1> QED
  BY <1>1 DEF ProcTypes

\* FailCall keeps the types.
LEMMA FailTypes ==
  ASSUME Types, NEW n \in Node, FailCall(n)
  PROVE  /\ MachTypes' /\ failed' \in [Node -> BOOLEAN] /\ call' \in [Node -> Calls]
         /\ \A x \in Node : call'[x].pc # "idle" => call'[x].commit \in Commit
<1>1. /\ mach' = [mach EXCEPT ![n] = FreezeWrites(mach[n], "closed")]
      /\ failed' = [failed EXCEPT ![n] = TRUE] /\ call' = [call EXCEPT ![n] = NoCall]
  BY DEF FailCall
<1>2. Machine(FreezeWrites(mach[n], "closed"))
  BY FreezeFields DEF Types, MachTypes, FreezeKind
<1>3. MachTypes'
  BY <1>1, <1>2, MachUpdate DEF Types
<1>4. /\ call' \in [Node -> Calls]
      /\ \A x \in Node : call'[x].pc # "idle" => call'[x].commit \in Commit
  BY <1>1, EndCall DEF Types
<1> QED
  BY <1>1, <1>3, <1>4 DEF Types, NodeTypes

\* AppendCommit keeps the store typed.
LEMMA AppendTypes ==
  ASSUME NEW db \in [row : State, commits : SUBSET Commit], NEW c \in Commit
  PROVE  AppendCommit(db, c) \in [row : State, commits : SUBSET Commit]
<1>1. c.state \in State
  BY DEF Commit
<1> QED
  BY <1>1 DEF AppendCommit

\* A policy write keeps the types.
LEMMA TypesCall ==
  ASSUME Types, NEW n \in Node, CallStep(n)
  PROVE  Types'
<1> DEFINE c == call[n].commit
           rest == <<log, term, lead, curTerm, known, applied, cons, last, obs, phase, boot, drawn>>
           calls == /\ call' \in [Node -> Calls]
                    /\ \A x \in Node : call'[x].pc # "idle" => call'[x].commit \in Commit
<1>0. SUFFICES /\ UNCHANGED rest /\ tail' \in Seq(Entry)
               /\ MachTypes' /\ failed' \in [Node -> BOOLEAN] /\ calls
               /\ pg' \in [row : State, commits : SUBSET Commit]
               /\ acked' \subseteq Commit /\ published' \in [Node -> Commit]
  BY DEF Types, RaftTypes, NodeTypes, ProcTypes
<1>1. /\ tail \in Seq(Entry) /\ failed \in [Node -> BOOLEAN] /\ MachTypes
      /\ pg \in [row : State, commits : SUBSET Commit]
      /\ acked \subseteq Commit /\ published \in [Node -> Commit] /\ ProcTypes
  BY DEF Types, RaftTypes, NodeTypes, ProcTypes
<1>2. call[n].pc # "idle" => c \in Commit
  BY <1>1 DEF ProcTypes
<1> HIDE DEF rest, calls
<1>3. UNCHANGED <<mach, failed>> => MachTypes' /\ failed' \in [Node -> BOOLEAN]
  BY <1>1 DEF MachTypes
<1>4. ASSUME NEW pc \in PCs, call[n].pc # "idle", Advance(n, pc)
      PROVE  MachTypes' /\ failed' \in [Node -> BOOLEAN] /\ calls
  <2>1. call' = [call EXCEPT ![n].pc = pc] /\ UNCHANGED <<mach, failed>>
    BY <1>4 DEF Advance
  <2> QED
    BY <1>1, <1>3, <1>4, <2>1, AdvanceCall DEF calls
<1>5. FailCall(n) => MachTypes' /\ failed' \in [Node -> BOOLEAN] /\ calls
  BY FailTypes DEF calls
<1>6. CASE CheckBaseline(n)
  <2>1. /\ call[n].pc = "proposed"
        /\ Advance(n, "checked") \/ FailCall(n)
        /\ UNCHANGED rest /\ UNCHANGED <<tail, pg, acked, published>>
    BY <1>6, Zenon DEF CheckBaseline, rest, raft, hist
  <2> QED
    BY <1>1, <1>4, <1>5, <2>1 DEF PCs
<1>7. CASE Replicate(n)
  <2>1. call[n].pc = "checked" /\ (Advance(n, "submitted") \/ FailCall(n))
    BY <1>7, Zenon DEF Replicate
  <2>4. /\ call[n].pc = "checked"
        /\ tail' = tail \/ tail' = Append(tail, CommitEntry(curTerm[n], c))
        /\ UNCHANGED rest /\ UNCHANGED <<pg, acked, published>>
    BY <1>7, Zenon DEF Replicate, Submit, rest, hist
  <2>2. CommitEntry(curTerm[n], c) \in Entry
    BY <1>2, <2>4, EntryFields DEF Types, RaftTypes
  <2>3. tail' \in Seq(Entry)
    BY <1>1, <2>4, <2>2
  <2> QED
    BY <1>1, <1>4, <1>5, <2>1, <2>3, <2>4 DEF PCs
<1>8. CASE ReplicateFails(n)
  <2>1. FailCall(n) /\ UNCHANGED rest /\ UNCHANGED <<tail, pg, acked, published>>
    BY <1>8, Zenon DEF ReplicateFails, rest, raft, hist
  <2> QED
    BY <1>1, <1>5, <2>1
<1>9. CASE Persist(n)
  <2>1. call[n].pc = "replicated" /\ (Advance(n, "durable") \/ FailCall(n))
    BY <1>9, Zenon DEF Persist
  <2>3. /\ call[n].pc = "replicated"
        /\ pg' = pg \/ pg' = AppendCommit(pg, c)
        /\ UNCHANGED rest /\ UNCHANGED <<tail, acked, published>>
    BY <1>9, Zenon DEF Persist, rest, raft, hist
  <2>2. pg' \in [row : State, commits : SUBSET Commit]
    BY <1>1, <1>2, <2>3, AppendTypes
  <2> QED
    BY <1>1, <1>4, <1>5, <2>1, <2>2, <2>3 DEF PCs
<1>10. CASE Install(n)
  <2>1. UNCHANGED rest /\ UNCHANGED <<tail, pg, acked, published>> /\ call[n].pc = "durable"
    BY <1>10, Zenon DEF Install, rest, raft, hist
  <2>2. CASE FailCall(n)
    BY <1>1, <1>5, <2>1, <2>2
  <2>3. CASE ~FailCall(n)
    <3>1. /\ UNCHANGED failed /\ call' = [call EXCEPT ![n].pc = "installed"]
          /\ \/ mach' = [mach EXCEPT ![n] = mach[n]]
             \/ mach' = [mach EXCEPT ![n] = InstallCommit(mach[n], c)]
      BY <1>10, <2>3 DEF Install
    <3>2. Machine(mach[n]) /\ c.state \in State
      BY <1>1, <1>2, <2>1 DEF MachTypes, Commit
    <3>3. MachTypes'
      BY <1>1, <3>1, <3>2, InstallCommitType, MachUpdate
    <3>4. calls
      BY <1>1, <2>1, <3>1, AdvanceCall DEF PCs, calls
    <3> QED
      BY <1>1, <2>1, <3>1, <3>3, <3>4
  <2> QED
    BY <2>2, <2>3
<1>11. CASE Materialize(n)
  <2>1. /\ UNCHANGED rest /\ UNCHANGED <<tail, pg>> /\ call[n].pc = "installed"
        /\ \/ /\ acked' = acked \cup {c} /\ published' = [published EXCEPT ![n] = c]
              /\ call' = [call EXCEPT ![n] = NoCall] /\ UNCHANGED <<mach, failed>>
           \/ FailCall(n) /\ UNCHANGED <<acked, published>>
    BY <1>11, Zenon DEF Materialize, rest, raft
  <2>2. CASE FailCall(n) /\ UNCHANGED <<acked, published>>
    BY <1>1, <1>5, <2>1, <2>2
  <2>3. CASE ~(FailCall(n) /\ UNCHANGED <<acked, published>>)
    <3>1. /\ acked' = acked \cup {c} /\ published' = [published EXCEPT ![n] = c]
          /\ call' = [call EXCEPT ![n] = NoCall] /\ UNCHANGED <<mach, failed>>
      BY <2>1, <2>3, Zenon
    <3>2. calls
      BY <1>1, <3>1, EndCall DEF calls
    <3> QED
      BY <1>1, <1>2, <1>3, <2>1, <3>1, <3>2
  <2> QED
    BY <2>2, <2>3
<1> QED
  BY <1>6, <1>7, <1>8, <1>9, <1>10, <1>11, Zenon DEF CallStep

\* The start of a policy write keeps the types.
LEMMA TypesStartCall ==
  ASSUME Types, NEW n \in Node, NEW p \in Payload, StartCall(n, p)
  PROVE  Types'
<1> DEFINE m == mach[n]
           x == drawn + 1
           c == ProposedCommit(m, p, x)
           start == [pc |-> "proposed", commit |-> c]
<1>1. /\ x \in Nonce /\ m.state.revision < MaxRevision /\ drawn' = x
      /\ mach' = [mach EXCEPT ![n] = Propose(m, p, x)]
      /\ call' = [call EXCEPT ![n] = start]
      /\ UNCHANGED <<raft, applied, cons, last, obs, phase, failed>>
      /\ UNCHANGED <<boot, pg, acked, published>>
  BY DEF StartCall
<1>2. Machine(m)
  BY DEF Types, MachTypes
<1>3. Machine(Propose(m, p, x)) /\ c \in Commit
  BY <1>1, <1>2, ProposeFields
<1> HIDE DEF c
<1>4. start \in Calls /\ start.commit \in Commit
  BY <1>3 DEF Calls, PCs, CommitOrNone
<1> HIDE DEF start
<1>5. MachTypes'
  BY <1>1, <1>3, MachUpdate DEF Types
<1>6. RaftTypes' /\ NodeTypes'
  BY <1>1 DEF Types, RaftTypes, NodeTypes, raft
<1>7. ProcTypes'
  BY <1>1, <1>4 DEF Types, ProcTypes
<1> QED
  BY <1>5, <1>6, <1>7 DEF Types

\* A commit that ValidateCommit accepts has a nonce of its own ledger.
LEMMA NonceOfTyped ==
  ASSUME NEW s \in State, s.revision > 0, ValidLedger(s.ledger, s.revision)
  PROVE  NonceOf(s) \in Nonce /\ s.ledger[NonceOf(s)] = s.revision
<1>1. s.revision \in 1 .. s.revision
  BY Bounds DEF State, Revision
<1>2. \E x \in Nonce : s.ledger[x] = s.revision
  BY <1>1 DEF ValidLedger
<1> QED
  BY <1>2 DEF NonceOf

\* One node's Bootstrap moves on.
LEMMA BootUpdate ==
  ASSUME Types, NEW n \in Node, NEW X \in Boots, X.pc = "recover" => X.commit \in Commit,
         boot' = [boot EXCEPT ![n] = X],
         UNCHANGED <<raft, applied, cons, last, obs, phase, call, failed>>,
         UNCHANGED <<drawn, acked, published>>,
         pg' \in [row : State, commits : SUBSET Commit], MachTypes'
  PROVE  Types'
BY DEF Types, RaftTypes, NodeTypes, ProcTypes, raft

\* Bootstrap keeps the types.
LEMMA TypesBoot ==
  ASSUME Types, NEW n \in Node, BootStep(n)
  PROVE  Types'
<1> DEFINE b == boot[n]
           quiet == /\ UNCHANGED <<raft, applied, cons, last, obs, phase, call, failed>>
                    /\ UNCHANGED <<drawn, acked, published>>
<1>0. BootQuiet => quiet
  BY DEF BootQuiet, hist
<1>1. /\ MachTypes /\ Machine(mach[n]) /\ b \in Boots /\ boot \in [Node -> Boots]
      /\ pg \in [row : State, commits : SUBSET Commit]
      /\ cons[n] \in State /\ last[n] \in CommitOrNone /\ pg.row \in State
      /\ b.pc = "recover" => b.commit \in Commit
  BY DEF Types, MachTypes, NodeTypes, ProcTypes
<1>2. \A kind \in FreezeKind : Machine(FreezeWrites(mach[n], kind))
  BY <1>1, FreezeFields
<1>3. UNCHANGED mach => MachTypes'
  BY <1>1 DEF MachTypes
<1>4. NewState \in State /\ NoCommit \in CommitOrNone
  BY NewTyped DEF CommitOrNone
<1> HIDE DEF quiet
<1>5. CASE BootLoadDurable(n)
  <2>1. /\ quiet /\ UNCHANGED pg
        /\ mach' = [mach EXCEPT ![n] = FreezeWrites(mach[n], "closed")]
        /\ boot' = [boot EXCEPT ![n] = [b EXCEPT !.pc = "health", !.durable = pg.row]]
    BY <1>0, <1>1, <1>5 DEF BootLoadDurable
  <2>2. MachTypes'
    BY <1>1, <1>2, <2>1, MachUpdate DEF FreezeKind
  <2>3. [b EXCEPT !.pc = "health", !.durable = pg.row] \in Boots
    BY <1>1 DEF Boots, BootPCs
  <2> QED
    BY <1>1, <2>1, <2>2, <2>3, BootUpdate DEF quiet, Boots
<1>6. CASE BootHealth(n)
  <2> DEFINE m == FreezeWrites(mach[n], "closed")
  <2>1. /\ quiet /\ UNCHANGED pg
        /\ mach' = [mach EXCEPT ![n] = m]
        /\ boot' = [boot EXCEPT ![n] = [b EXCEPT !.pc = "current", !.baseline = m.committed]]
    BY <1>0, <1>1, <1>6 DEF BootHealth
  <2>2. MachTypes' /\ m.committed \in State
    BY <1>1, <1>2, <2>1, MachUpdate DEF FreezeKind, Machine
  <2> HIDE DEF m
  <2>3. [b EXCEPT !.pc = "current", !.baseline = m.committed] \in Boots
    BY <1>1, <2>2 DEF Boots, BootPCs
  <2> QED
    BY <1>1, <2>1, <2>2, <2>3, BootUpdate DEF quiet, Boots
<1>7. CASE BootCurrent(n)
  <2> DEFINE pc == AgreedStage(b.durable, cons[n])
  <2>1. /\ quiet /\ UNCHANGED pg /\ MachTypes'
        /\ \/ boot' = [boot EXCEPT ![n] = [b EXCEPT !.pc = pc, !.consensus = cons[n]]]
           \/ /\ ValidCommitFields(last[n])
              /\ boot' = [boot EXCEPT ![n] = [b EXCEPT !.pc = "recover", !.consensus = cons[n],
                                                       !.commit = last[n]]]
    BY <1>0, <1>1, <1>3, <1>7 DEF BootCurrent, RecoverableAhead
  <2>2. pc \in {"fence", "checkpoint"}
    BY DEF AgreedStage
  <2> HIDE DEF pc
  <2>3. [b EXCEPT !.pc = pc, !.consensus = cons[n]] \in Boots
    BY <1>1, <2>2 DEF Boots, BootPCs
  <2>4. [b EXCEPT !.pc = "recover", !.consensus = cons[n], !.commit = last[n]] \in Boots
    <3>1. [b EXCEPT !.pc = "recover"] \in Boots
      BY <1>1 DEF Boots, BootPCs
    <3>2. \A u \in Boots : [u EXCEPT !.consensus = cons[n]] \in Boots
      BY <1>1 DEF Boots
    <3>3. \A u \in Boots : [u EXCEPT !.commit = last[n]] \in Boots
      BY <1>1 DEF Boots
    <3> QED
      BY <3>1, <3>2, <3>3
  <2>5. ValidCommitFields(last[n]) => last[n] \in Commit
    BY <1>1 DEF ValidCommitFields, CommitOrNone, NoCommit, NewState
  <2>6. CASE boot' = [boot EXCEPT ![n] = [b EXCEPT !.pc = pc, !.consensus = cons[n]]]
    BY <1>1, <2>1, <2>2, <2>3, <2>6, BootUpdate DEF quiet, Boots
  <2>7. CASE ValidCommitFields(last[n]) /\
             boot' = [boot EXCEPT ![n] = [b EXCEPT !.pc = "recover", !.consensus = cons[n],
                                                   !.commit = last[n]]]
    <3> DEFINE X == [b EXCEPT !.pc = "recover", !.consensus = cons[n], !.commit = last[n]]
    <3>1. X.commit = last[n]
      BY <1>1 DEF Boots
    <3>2. boot' = [boot EXCEPT ![n] = X] /\ X \in Boots
      BY <2>7, <2>4
    <3> HIDE DEF X
    <3> QED
      BY <1>1, <2>1, <2>5, <2>7, <3>1, <3>2, BootUpdate DEF quiet
  <2> QED
    BY <2>1, <2>6, <2>7
<1>8. CASE BootRecover(n)
  <2> DEFINE c == b.commit
             pc == AgreedStage(c.state, b.consensus)
             X == [b EXCEPT !.pc = pc, !.durable = c.state, !.commit = NoCommit]
  <2>1. /\ quiet /\ MachTypes' /\ b.pc = "recover" /\ pg' = AppendCommit(pg, c)
        /\ boot' = [boot EXCEPT ![n] = X]
    BY <1>0, <1>1, <1>3, <1>8 DEF BootRecover, Booting
  <2>2. pc \in {"fence", "checkpoint"}
    BY DEF AgreedStage
  <2>3. c \in Commit /\ c.state \in State
    BY <1>1, <2>1 DEF Commit
  <2> HIDE DEF pc, c
  <2>4. X \in Boots
    <3>1. [b EXCEPT !.pc = pc] \in Boots
      BY <1>1, <2>2 DEF Boots, BootPCs
    <3>2. \A u \in Boots : [u EXCEPT !.durable = c.state] \in Boots
      BY <2>3 DEF Boots
    <3>3. \A u \in Boots : [u EXCEPT !.commit = NoCommit] \in Boots
      BY <1>4 DEF Boots
    <3> QED
      BY <3>1, <3>2, <3>3
  <2>5. X.pc = pc
    BY <1>1 DEF Boots
  <2>6. pg' \in [row : State, commits : SUBSET Commit]
    BY <1>1, <2>1, <2>3, AppendTypes
  <2> HIDE DEF X
  <2> QED
    BY <2>1, <2>2, <2>4, <2>5, <2>6, BootUpdate DEF quiet
<1>9. CASE BootCheckpoint(n)
  <2>1. /\ quiet /\ MachTypes' /\ UNCHANGED pg
        /\ boot' = [boot EXCEPT ![n] = [b EXCEPT !.pc = "persist"]]
    BY <1>0, <1>1, <1>3, <1>9 DEF BootCheckpoint
  <2>2. [b EXCEPT !.pc = "persist"] \in Boots
    BY <1>1 DEF Boots, BootPCs
  <2> QED
    BY <1>1, <2>1, <2>2, BootUpdate DEF quiet, Boots
<1>10. CASE BootPersist(n)
  <2>1. /\ quiet /\ MachTypes' /\ pg' = CheckpointLeadership(pg, b.consensus)
        /\ boot' = [boot EXCEPT ![n] = [b EXCEPT !.pc = "fence", !.durable = b.consensus]]
    BY <1>0, <1>1, <1>3, <1>10 DEF BootPersist
  <2>2. [b EXCEPT !.pc = "fence", !.durable = b.consensus] \in Boots
    BY <1>1 DEF Boots, BootPCs
  <2>3. pg' \in [row : State, commits : SUBSET Commit]
    BY <1>1, <2>1 DEF CheckpointLeadership, Boots
  <2> QED
    BY <1>1, <2>1, <2>2, <2>3, BootUpdate DEF quiet, Boots
<1>11. CASE BootFence(n)
  <2>1. /\ quiet /\ MachTypes' /\ UNCHANGED pg
        /\ boot' = [boot EXCEPT ![n] = [b EXCEPT !.pc = "install", !.consensus = NewState]]
    BY <1>0, <1>1, <1>3, <1>11 DEF BootFence
  <2>2. [b EXCEPT !.pc = "install", !.consensus = NewState] \in Boots
    BY <1>1, <1>4 DEF Boots, BootPCs
  <2> QED
    BY <1>1, <2>1, <2>2, BootUpdate DEF quiet, Boots
<1>12. CASE BootInstall(n)
  <2>1. /\ quiet /\ UNCHANGED pg
        /\ mach' = [mach EXCEPT ![n] = LoadSnapshot(mach[n], b.durable)]
        /\ boot' = [boot EXCEPT ![n] = [b EXCEPT !.pc = "resume", !.baseline = NewState]]
    BY <1>0, <1>1, <1>12 DEF BootInstall
  <2>2. MachTypes'
    BY <1>1, <2>1, LoadFields, MachUpdate DEF Boots
  <2>3. [b EXCEPT !.pc = "resume", !.baseline = NewState] \in Boots
    BY <1>1, <1>4 DEF Boots, BootPCs
  <2> QED
    BY <1>1, <2>1, <2>2, <2>3, BootUpdate DEF quiet, Boots
<1>13. CASE BootResume(n)
  <2>1. /\ quiet /\ UNCHANGED pg
        /\ mach' = [mach EXCEPT ![n] = FreezeWrites(mach[n], "open")]
        /\ boot' = [boot EXCEPT ![n] = [b EXCEPT !.pc = "publish"]]
    BY <1>0, <1>1, <1>13, ResumeIsFreeze DEF BootResume
  <2>2. MachTypes'
    BY <1>1, <1>2, <2>1, MachUpdate DEF FreezeKind
  <2>3. [b EXCEPT !.pc = "publish"] \in Boots
    BY <1>1 DEF Boots, BootPCs
  <2> QED
    BY <1>1, <2>1, <2>2, <2>3, BootUpdate DEF quiet, Boots
<1>14. CASE BootPublish(n)
  <2> DEFINE c == StartupCommit(n)
  <2>1. /\ UNCHANGED <<raft, fsm, obs, call, failed, pg, drawn, acked>>
        /\ ClaimCurrentCommit(mach[n], c)
        /\ published' = [published EXCEPT ![n] = c]
        /\ phase' = [phase EXCEPT ![n] = "ready"] /\ boot' = [boot EXCEPT ![n] = NoBoot]
    BY <1>14 DEF BootPublish
  <2>2. c.state = b.durable /\ c.nonce = NonceOf(b.durable) /\ b.durable \in State
        /\ c = [state |-> b.durable, nonce |-> NonceOf(b.durable)]
    BY <1>1 DEF StartupCommit, Boots
  <2> HIDE DEF c
  <2>3. b.durable.revision > 0 /\ ValidLedger(b.durable.ledger, b.durable.revision)
    BY <1>1, <2>1, <2>2, Bounds DEF ClaimCurrentCommit, ValidateCommit, Machine, State, Revision
  <2>4. c \in Commit
    BY <2>2, <2>3, NonceOfTyped DEF Commit
  <2>5. NoBoot \in Boots /\ NoBoot.pc = "load"
    BY <1>4 DEF NoBoot, Boots, BootPCs
  <2>6. RaftTypes' /\ MachTypes' /\ NodeTypes'
    BY <2>1 DEF Types, RaftTypes, MachTypes, NodeTypes, raft, fsm
  <2>7. ProcTypes'
    BY <2>1, <2>4, <2>5 DEF Types, ProcTypes
  <2> QED
    BY <2>6, <2>7 DEF Types
<1> QED
  BY <1>5, <1>6, <1>7, <1>8, <1>9, <1>10, <1>11, <1>12, <1>13, <1>14, Zenon DEF BootStep

\* A process that starts or ends keeps the types.
LEMMA TypesProcess ==
  ASSUME Types, NEW n \in Node, Start(n) \/ Crash(n) \/ BootFails(n)
  PROVE  Types'
<1>1. CASE Start(n)
  BY <1>1 DEF Start, Types, RaftTypes, MachTypes, NodeTypes, ProcTypes, raft, fsm, hist
<1>2. CASE ProcessEnds(n)
  <2>1. RaftTypes'
    BY <1>2 DEF ProcessEnds, Types, RaftTypes
  <2>2. MachTypes'
    BY <1>2, NewTyped, MachUpdate DEF ProcessEnds, Types
  <2>3. NodeTypes'
    <3>1. NewState \in State /\ NoCommit \in CommitOrNone /\ 0 \in Term
      BY NewTyped, Bounds DEF CommitOrNone
    <3>2. Len(log) \in Nat
      BY DEF Types, RaftTypes
    <3> QED
      BY <1>2, <3>1, <3>2 DEF ProcessEnds, Types, NodeTypes
  <2>4. ProcTypes'
    <3>1. NoCall \in Calls /\ NoCall.pc = "idle" /\ NoBoot \in Boots /\ NoBoot.pc = "load"
      BY NewTyped DEF NoCall, NoBoot, Calls, Boots, PCs, BootPCs, CommitOrNone
    <3> QED
      BY <1>2, <3>1 DEF ProcessEnds, Types, ProcTypes
  <2> QED
    BY <2>1, <2>2, <2>3, <2>4 DEF Types
<1> QED
  BY <1>1, <1>2, Zenon DEF Crash, BootFails
===============================================================================
