-------------------------- MODULE StateMachineProofs --------------------------
(***************************************************************************)
(* Proofs about one controlplane.StateMachine, for any sets of nodes,      *)
(* nonces and payloads and any bounds.  MachineInv is inductive: the five  *)
(* named parts need each other.  LedgersComplete needs the shape of the    *)
(* pending proposal (PendingIsOneProposal), which needs the remembered     *)
(* proposals (ProposalsAreCurrent), and InstallCommit keeps a fence right  *)
(* only because a remembered proposal is the pending one.                  *)
(***************************************************************************)
EXTENDS StateMachine, TLAPS

USE ControlStateAssumption

\* NewStateMachine (state.go:126) returns a machine that is well formed.
LEMMA InitInv == Init => TypeOK /\ MachineInv
<1> SUFFICES ASSUME Init PROVE TypeOK /\ MachineInv
  OBVIOUS
<1>1. TypeOK
  BY DEF Init, NewMachine, NewState, TypeOK, PartialMap, State, Ledger, EmptyLedger, Term, Epoch, Revision, FreezeKind, NoEntries
<1>2. PendingIsOneProposal
  BY DEF Init, NewMachine, PendingIsOneProposal, SameLeadership, SamePayload
<1>3. LedgersComplete
  BY DEF Init, NewMachine, NewState, LedgersComplete, ValidLedger, EmptyLedger
<1>4. FencesAreCommitted
  BY DEF Init, NewMachine, FencesAreCommitted, NoEntries
<1>5. ProposalsAreCurrent
  BY DEF Init, NewMachine, ProposalsAreCurrent, NoEntries
<1>6. ContentHasRevision
  BY DEF Init, NewMachine, NewState, ContentHasRevision, Frozen
<1> QED BY <1>1, <1>2, <1>3, <1>4, <1>5, <1>6 DEF MachineInv

\* FreezeWrites (state.go:215) freezes the working and the committed state alike
\* and changes nothing else, so it preserves every part of the invariant.
LEMMA FreezeInv ==
  ASSUME TypeOK, MachineInv, NEW kind \in FreezeKind, DoFreezeWrites(kind)
  PROVE TypeOK' /\ MachineInv'
<1> USE DEF MachineInv, DoFreezeWrites, FreezeWrites, Freeze
<1>1. TypeOK'
  BY DEF TypeOK, PartialMap, State
<1>2. PendingIsOneProposal'
  BY DEF TypeOK, State, PendingIsOneProposal, SameLeadership, SamePayload, LedgerExtends
<1>3. LedgersComplete'
  BY DEF TypeOK, State, LedgersComplete, ValidLedger
<1>4. FencesAreCommitted'
  BY DEF TypeOK, State, FencesAreCommitted
<1>5. ProposalsAreCurrent'
  BY DEF TypeOK, State, ProposalsAreCurrent, SameLeadership, SamePayload
<1>6. ContentHasRevision'
  BY DEF TypeOK, State, ContentHasRevision, Frozen
<1> QED BY <1>1, <1>2, <1>3, <1>4, <1>5, <1>6

\* ResumeWrites (state.go:235) reopens both states; the fence it asks for names a
\* leader, so a machine without a leader is never reopened.
LEMMA ResumeInv ==
  ASSUME TypeOK, MachineInv, NEW token \in FenceToken, DoResumeWrites(token)
  PROVE TypeOK' /\ MachineInv'
<1> USE DEF MachineInv, DoResumeWrites, ResumeWrites, Freeze
<1>1. TypeOK'
  BY DEF TypeOK, PartialMap, State, FreezeKind
<1>2. PendingIsOneProposal'
  BY DEF TypeOK, State, PendingIsOneProposal, SameLeadership, SamePayload, LedgerExtends
<1>3. LedgersComplete'
  BY DEF TypeOK, State, LedgersComplete, ValidLedger
<1>4. FencesAreCommitted'
  BY DEF TypeOK, State, FencesAreCommitted
<1>5. ProposalsAreCurrent'
  BY DEF TypeOK, State, ProposalsAreCurrent, SameLeadership, SamePayload
<1>6. ContentHasRevision'
  <2>1. m.committed.leader # NoNode
    BY DEF ValidateResumeFence, ValidateFence, FenceToken
  <2> QED
    BY <2>1 DEF TypeOK, State, ContentHasRevision, Frozen, PendingIsOneProposal, SameLeadership
<1> QED BY <1>1, <1>2, <1>3, <1>4, <1>5, <1>6

\* loadSnapshot (state.go:476) replaces all six fields of the machine together:
\* the checks of the snapshot are what the invariant asks of the new machine.
LEMMA LoadSnapshotInv ==
  ASSUME TypeOK, MachineInv, NEW s \in State, DoLoadSnapshot(s)
  PROVE TypeOK' /\ MachineInv'
<1> DEFINE loaded == IF Frozen(m.state) THEN Freeze(s, m.state.freeze) ELSE s
           seeded == IF s.revision > 0 THEN Put(NoEntries, s.revision, s.desired)
                                       ELSE NoEntries
<1>1. m' = [state |-> loaded, committed |-> loaded, fences |-> seeded,
            committedFences |-> seeded, nonces |-> s.ledger, proposals |-> NoEntries]
  BY DEF DoLoadSnapshot, LoadSnapshot
<1>2. /\ loaded \in State
      /\ SameLeadership(loaded, s) /\ SamePayload(loaded, s)
      /\ Frozen(s) => Frozen(loaded)
  BY DEF Frozen, Freeze, State, SameLeadership, SamePayload, TypeOK
<1>3. WellFormedSnapshot(s)
  BY DEF DoLoadSnapshot, CanLoadSnapshot
<1>4. /\ DOMAIN seeded \subseteq {s.revision}
      /\ DOMAIN seeded \subseteq 1 .. MaxRevision
      /\ \A r \in DOMAIN seeded : seeded[r] = s.desired /\ s.desired \in Payload
  BY <1>3 DEF Put, NoEntries, State, Revision, WellFormedSnapshot
<1>5. TypeOK'
  BY <1>1, <1>2, <1>4 DEF TypeOK, PartialMap, NoEntries, State
<1>6. PendingIsOneProposal'
  BY <1>1 DEF PendingIsOneProposal, SameLeadership, SamePayload
<1>7. LedgersComplete'
  BY <1>1, <1>2, <1>3 DEF LedgersComplete, WellFormedSnapshot, SamePayload
<1>8. FencesAreCommitted'
  BY <1>1, <1>2, <1>4 DEF FencesAreCommitted, SamePayload, State, Revision
<1>9. ProposalsAreCurrent'
  BY <1>1 DEF ProposalsAreCurrent, NoEntries
<1>10. ContentHasRevision'
  BY <1>1, <1>2, <1>3 DEF ContentHasRevision, WellFormedSnapshot, SamePayload, SameLeadership
<1> QED BY <1>5, <1>6, <1>7, <1>8, <1>9, <1>10 DEF MachineInv

\* Propose (state.go:253) puts exactly one proposal on top of the committed state
\* and records its nonce, fence and content consistently.
LEMMA ProposeInv ==
  ASSUME TypeOK, MachineInv, NEW p \in Payload, NEW n \in Nonce, DoPropose(p, n)
  PROVE TypeOK' /\ MachineInv'
<1> DEFINE r == m.state.revision + 1
           c == ProposedCommit(m, p, n)
<1>1. /\ c.nonce = n
      /\ c.state = [m.state EXCEPT !.revision = r, !.desired = p,
                                   !.ledger = [m.nonces EXCEPT ![n] = r]]
  BY DEF ProposedCommit
<1>2. /\ r \in Revision /\ r # 0 /\ r = m.committed.revision + 1
      /\ m.state.freeze = "open"
      /\ m.nonces[n] = 0
      /\ SamePayload(m.state, m.committed)
  BY DEF DoPropose, CanPropose, TypeOK, State, Revision, Frozen, MachineInv, PendingIsOneProposal
<1>3. /\ c.state \in State
      /\ c.state.revision = r /\ c.state.desired = p
      /\ c.state.freeze = "open"
      /\ c.state.ledger = [m.nonces EXCEPT ![n] = r]
      /\ SameLeadership(c.state, m.state)
  <2>1. [m.nonces EXCEPT ![n] = r] \in Ledger
    BY <1>2 DEF TypeOK, Ledger
  <2>2. c.state = [leader |-> m.state.leader, term |-> m.state.term,
                   epoch |-> m.state.epoch, revision |-> r, desired |-> p,
                   freeze |-> m.state.freeze,
                   ledger |-> [m.nonces EXCEPT ![n] = r]]
    BY <1>1 DEF TypeOK, State
  <2> HIDE DEF c, r
  <2> QED
    BY <1>2, <2>1, <2>2 DEF TypeOK, State, SameLeadership
<1>4. m' = [m EXCEPT !.state = c.state, !.fences = Put(m.fences, r, p),
                     !.nonces = c.state.ledger, !.proposals = Put(m.proposals, r, c)]
  BY <1>3 DEF DoPropose, Propose
<1>5. /\ m'.state = c.state /\ m'.committed = m.committed
      /\ m'.fences = Put(m.fences, r, p)
      /\ m'.committedFences = m.committedFences
      /\ m'.nonces = c.state.ledger
      /\ m'.proposals = Put(m.proposals, r, c)
      /\ m' = [state |-> m'.state, committed |-> m'.committed, fences |-> m'.fences,
               committedFences |-> m'.committedFences, nonces |-> m'.nonces,
               proposals |-> m'.proposals]
  BY <1>4 DEF TypeOK
<1>6. /\ DOMAIN m'.fences = DOMAIN m.fences \cup {r}
      /\ m'.fences[r] = p
      /\ \A x \in DOMAIN m.fences : x # r => m'.fences[x] = m.fences[x]
      /\ DOMAIN m'.proposals = DOMAIN m.proposals \cup {r}
      /\ m'.proposals[r] = c
      /\ \A x \in DOMAIN m.proposals : x # r => m'.proposals[x] = m.proposals[x]
  BY <1>5 DEF Put
<1>7. TypeOK'
  <2>1. c \in Commit
    BY <1>1, <1>3 DEF Commit, ProposedCommit
  <2> QED
    BY <1>2, <1>3, <1>5, <1>6, <2>1 DEF TypeOK, PartialMap, State, Revision
<1>8. PendingIsOneProposal'
  <2>1. m.nonces = m.committed.ledger
    BY <1>2 DEF MachineInv, LedgersComplete, SamePayload
  <2>2. LedgerExtends(m.committed.ledger, m'.state.ledger, m'.proposals[r].nonce, r)
    BY <1>1, <1>2, <1>3, <1>5, <1>6, <2>1, SMTT(30) DEF LedgerExtends
  <2>3. /\ m'.state.revision = r /\ r = m'.committed.revision + 1
        /\ r \in DOMAIN m'.proposals
        /\ LedgerExtends(m'.committed.ledger, m'.state.ledger, m'.proposals[r].nonce, r)
    BY <1>2, <1>3, <1>5, <1>6, <2>2
  <2>4. SameLeadership(m'.state, m'.committed) /\ m'.state.freeze = m'.committed.freeze
    BY <1>2, <1>3, <1>5 DEF MachineInv, PendingIsOneProposal, SameLeadership
  <2> HIDE DEF c, r
  <2> QED
    BY <2>3, <2>4 DEF PendingIsOneProposal
<1>9. LedgersComplete'
  <2>1. ValidLedger(m.nonces, m.state.revision)
    BY DEF MachineInv, LedgersComplete
  <2> DEFINE next == c.state.ledger
  <2>2. /\ next[n] = r
        /\ \A x \in Nonce : x # n => next[x] = m.nonces[x]
        /\ m.nonces[n] = 0
        /\ r = m.state.revision + 1 /\ m.state.revision \in Nat
    BY <1>2, <1>3 DEF TypeOK, Ledger, State, Revision
  <2> HIDE DEF next, r
  <2>3. ValidLedger(next, r)
    <3>1. \A x \in Nonce : next[x] \in 0 .. r
      BY <2>1, <2>2 DEF ValidLedger
    <3>2. ASSUME NEW i \in 1 .. r PROVE \E x \in Nonce : next[x] = i
      <4>1. CASE i = r
        BY <2>2, <4>1
      <4>2. CASE i # r
        <5>1. PICK x \in Nonce : m.nonces[x] = i
          BY <2>1, <2>2, <4>2 DEF ValidLedger
        <5> QED BY <2>2, <5>1
      <4> QED BY <4>1, <4>2
    <3>3. \A x, y \in Nonce : next[x] = next[y] /\ next[x] # 0 => x = y
      BY <2>1, <2>2 DEF ValidLedger
    <3> QED BY <3>1, <3>2, <3>3 DEF ValidLedger
  <2> QED
    BY <1>3, <1>5, <2>3 DEF MachineInv, LedgersComplete, next
<1>10. FencesAreCommitted'
  BY <1>2, <1>3, <1>5, <1>6
     DEF MachineInv, FencesAreCommitted, TypeOK, State, Revision, PartialMap
<1>11. ProposalsAreCurrent'
  <2> SUFFICES ASSUME NEW x \in DOMAIN m'.proposals
               PROVE LET d == m'.proposals[x]
                     IN /\ d.state.revision = x
                        /\ x <= m'.state.revision
                        /\ SameLeadership(d.state, m'.state)
                        /\ d.state.freeze = "open"
                        /\ d.state.ledger[d.nonce] = x
                        /\ x \in DOMAIN m'.fences /\ m'.fences[x] = d.state.desired
                        /\ x = m'.state.revision => SamePayload(d.state, m'.state)
                        /\ x = m'.committed.revision => SamePayload(d.state, m'.committed)
    BY DEF ProposalsAreCurrent
  <2>1. CASE x = r
    <3>1. c.state.ledger[n] = r
      BY <1>2, <1>3 DEF TypeOK, Ledger
    <3> HIDE DEF c
    <3>2. r <= r /\ r # m'.committed.revision
      BY <1>2, <1>5 DEF Revision, TypeOK, State
    <3> QED
      BY <1>1, <1>3, <1>5, <1>6, <2>1, <3>1, <3>2, ZenonT(40) DEF SameLeadership, SamePayload
  <2>2. CASE x # r
    <3>1. x \in DOMAIN m.proposals /\ m'.proposals[x] = m.proposals[x]
      BY <1>6, <2>2
    <3>2. x \in Nat /\ x <= m.state.revision
      BY <3>1 DEF MachineInv, ProposalsAreCurrent, TypeOK, PartialMap
    <3> QED
      BY <1>3, <1>5, <1>6, <2>2, <3>1, <3>2
         DEF MachineInv, ProposalsAreCurrent, SameLeadership, TypeOK, State, Revision
  <2> QED BY <2>1, <2>2
<1>12. ContentHasRevision'
  BY <1>2, <1>3, <1>5
     DEF MachineInv, ContentHasRevision, SameLeadership, DoPropose
<1> QED BY <1>7, <1>8, <1>9, <1>10, <1>11, <1>12 DEF MachineInv

\* InstallCommit (state.go:567) of a remembered proposal moves the committed state
\* up to the pending one, and fences it with the content that was proposed.
LEMMA InstallCommitInv ==
  ASSUME TypeOK, MachineInv, NEW r \in DOMAIN m.proposals,
         DoInstallCommit(m.proposals[r])
  PROVE TypeOK' /\ MachineInv'
<1> DEFINE c == m.proposals[r]
           s == Freeze(c.state, m.state.freeze)
<1>1. /\ r \in 1 .. MaxRevision /\ c \in Commit
      /\ c.state.revision = r /\ r <= m.state.revision
      /\ SameLeadership(c.state, m.state)
      /\ c.state.ledger[c.nonce] = r
      /\ r \in DOMAIN m.fences /\ m.fences[r] = c.state.desired
      /\ r = m.state.revision => SamePayload(c.state, m.state)
      /\ r = m.committed.revision => SamePayload(c.state, m.committed)
  BY DEF TypeOK, PartialMap, MachineInv, ProposalsAreCurrent
<1>2. /\ m.state \in State /\ m.committed \in State
      /\ r \in Nat /\ m.state.revision \in Nat /\ m.committed.revision \in Nat
  BY <1>1 DEF TypeOK, State, Revision
<1>3. r = m.state.revision /\ r = m.committed.revision + 1
  <2>1. r >= m.committed.revision
    BY <1>1 DEF DoInstallCommit
  <2>2. r # m.committed.revision
    <3>1. SUFFICES ASSUME r = m.committed.revision PROVE FALSE
      OBVIOUS
    <3>2. CarriesExactCommit(m.committed, c)
      BY <1>1, <3>1 DEF CarriesExactCommit, SamePayload, SameLeadership,
                        MachineInv, PendingIsOneProposal
    <3> QED BY <3>2 DEF DoInstallCommit
  <2>3. \/ m.state.revision = m.committed.revision
        \/ m.state.revision = m.committed.revision + 1
    BY DEF MachineInv, PendingIsOneProposal, SamePayload
  <2> QED BY <1>1, <1>2, <2>1, <2>2, <2>3
<1>4. /\ c.state \in State /\ s \in State
      /\ SamePayload(s, c.state) /\ SameLeadership(s, c.state)
      /\ s.freeze = m.state.freeze
      /\ s.revision = r /\ s.desired = c.state.desired
  BY <1>1, <1>2 DEF Commit, State, Freeze, SamePayload, SameLeadership
<1>5. /\ m'.state = s /\ m'.committed = s
      /\ m'.committedFences = Put(m.committedFences, r, s.desired)
      /\ m'.fences = m.fences /\ m'.nonces = m.nonces /\ m'.proposals = m.proposals
      /\ m' = [state |-> m'.state, committed |-> m'.committed, fences |-> m'.fences,
               committedFences |-> m'.committedFences, nonces |-> m'.nonces,
               proposals |-> m'.proposals]
  <2>1. s.revision >= m.committed.revision /\ s.revision >= m.state.revision
    <3> HIDE DEF c, s
    <3> QED BY <1>2, <1>3, <1>4
  <2>2. m' = [m EXCEPT !.committed = s,
                       !.committedFences = Put(m.committedFences, s.revision, s.desired),
                       !.state = s]
    BY <2>1 DEF DoInstallCommit, InstallCommit
  <2> HIDE DEF c, s
  <2> QED BY <1>4, <2>2 DEF TypeOK
<1>6. /\ DOMAIN m'.committedFences = DOMAIN m.committedFences \cup {r}
      /\ m'.committedFences[r] = s.desired
      /\ \A x \in DOMAIN m.committedFences :
           x # r => m'.committedFences[x] = m.committedFences[x]
  BY <1>5 DEF Put
<1>7. SamePayload(s, m.state) /\ SameLeadership(s, m.state)
  BY <1>1, <1>3, <1>4 DEF SamePayload, SameLeadership
<1>8. m.fences[r] \in Payload /\ s.desired = m.fences[r]
  BY <1>1, <1>4 DEF TypeOK, PartialMap
<1> HIDE DEF c, s
<1>9. TypeOK'
  BY <1>1, <1>4, <1>5, <1>6, <1>8 DEF TypeOK, PartialMap
<1>10. PendingIsOneProposal'
  BY <1>5 DEF PendingIsOneProposal, SameLeadership, SamePayload
<1>11. LedgersComplete'
  BY <1>5, <1>7 DEF MachineInv, LedgersComplete, SamePayload
<1>12. FencesAreCommitted'
  <2>1. \A x \in DOMAIN m.committedFences : x <= r /\ x # r
    BY <1>2, <1>3 DEF MachineInv, FencesAreCommitted, TypeOK, PartialMap
  <2>2. r <= r
    BY <1>2
  <2> QED
    BY <1>1, <1>3, <1>4, <1>5, <1>6, <1>8, <2>1, <2>2 DEF MachineInv, FencesAreCommitted
<1>13. ProposalsAreCurrent'
  BY <1>3, <1>4, <1>5, <1>7
     DEF MachineInv, ProposalsAreCurrent, SamePayload, SameLeadership
<1>14. ContentHasRevision'
  BY <1>4, <1>5, <1>7 DEF MachineInv, ContentHasRevision, SamePayload, SameLeadership, Frozen
<1> QED BY <1>9, <1>10, <1>11, <1>12, <1>13, <1>14 DEF MachineInv

\* What a new leadership leaves behind: one state, built from the working or
\* the committed one, with a ledger that is complete for its revision.
\* What InstallLeadership (state.go:162) builds for a new term: one state that is
\* both working and committed, no fences or proposals, the next epoch, and a
\* revision and content that are the committed or the pending ones.
LEMMA AdvanceResult ==
  ASSUME TypeOK, MachineInv, NEW t \in Term, NEW l \in Node,
         m.state.epoch # MaxEpoch
  PROVE  LET n == AdvanceLeadership(m, t, l)
         IN /\ n = [state |-> n.state, committed |-> n.state, fences |-> NoEntries,
                    committedFences |-> NoEntries, nonces |-> n.state.ledger,
                    proposals |-> NoEntries]
            /\ n.state \in State
            /\ n.state.leader = l /\ n.state.term = t
            /\ n.state.epoch = m.state.epoch + 1
            /\ SamePayload(n.state, m.state) \/ SamePayload(n.state, m.committed)
            /\ ValidLedger(n.state.ledger, n.state.revision)
            /\ n.state.revision = 0 <=> n.state.desired = NoPayload
<1> DEFINE n == AdvanceLeadership(m, t, l)
           drop == Frozen(m.state) /\ m.committed.revision # m.state.revision
           base == IF drop THEN m.committed ELSE m.state
           ledger == IF drop THEN m.committed.ledger ELSE m.nonces
           reopen == \/ ~Frozen(m.state)
                     \/ m.committed.revision = 0
                     \/ m.state.freeze = "unavailable"
           kind == IF reopen THEN "open" ELSE m.state.freeze
           next == [leader |-> l, term |-> t, epoch |-> base.epoch + 1,
                    revision |-> base.revision, desired |-> base.desired,
                    freeze |-> kind, ledger |-> ledger]
<1>1. n = [state |-> next, committed |-> next, fences |-> NoEntries,
           committedFences |-> NoEntries, nonces |-> ledger, proposals |-> NoEntries]
  BY DEF AdvanceLeadership
<1>2. /\ base \in State /\ base.epoch = m.state.epoch
      /\ ledger = base.ledger
      /\ base = m.state \/ base = m.committed
      /\ ValidLedger(base.ledger, base.revision)
      /\ base.revision = 0 <=> base.desired = NoPayload
  <2>1. /\ m.state \in State /\ m.committed \in State
        /\ m.committed.epoch = m.state.epoch
        /\ m.nonces = m.state.ledger
        /\ ValidLedger(m.committed.ledger, m.committed.revision)
        /\ ValidLedger(m.state.ledger, m.state.revision)
        /\ m.state.revision = 0 <=> m.state.desired = NoPayload
        /\ m.committed.revision = 0 <=> m.committed.desired = NoPayload
    BY DEF TypeOK, MachineInv, PendingIsOneProposal, SameLeadership, LedgersComplete,
           ContentHasRevision
  <2>2. CASE drop
    <3>1. base = m.committed /\ ledger = m.committed.ledger
      BY <2>2
    <3> HIDE DEF base, ledger, drop
    <3> QED BY <2>1, <3>1
  <2>3. CASE ~drop
    <3>1. base = m.state /\ ledger = m.nonces
      BY <2>3
    <3> HIDE DEF base, ledger, drop
    <3> QED BY <2>1, <3>1
  <2> QED BY <2>2, <2>3
<1>3. kind \in FreezeKind
  BY DEF TypeOK, State, FreezeKind
<1>4. m.state.epoch \in Epoch /\ m.state.epoch + 1 \in Epoch
  BY DEF TypeOK, State, Epoch
<1> HIDE DEF base, ledger, kind
<1>5. next = [leader |-> l, term |-> t, epoch |-> m.state.epoch + 1,
              revision |-> base.revision, desired |-> base.desired,
              freeze |-> kind, ledger |-> base.ledger]
  BY <1>2
<1> HIDE DEF next
<1>6. /\ next \in State /\ next.leader = l /\ next.term = t
      /\ next.epoch = m.state.epoch + 1
      /\ SamePayload(next, base) /\ next.ledger = ledger
  BY <1>2, <1>3, <1>4, <1>5 DEF State, SamePayload
<1>7. n.state = next /\ n.nonces = n.state.ledger /\ n.committed = n.state
  BY <1>1, <1>6
<1> QED BY <1>1, <1>2, <1>6, <1>7 DEF SamePayload

\* InstallLeadership (state.go:162) preserves the invariant, whether it drops the
\* pending proposal, promotes it, or freezes because the epoch is exhausted.
LEMMA LeadershipInv ==
  ASSUME TypeOK, MachineInv, NEW t \in Term, NEW l \in Node, DoInstallLeadership(t, l)
  PROVE TypeOK' /\ MachineInv'
<1>1. CASE m.state.epoch = MaxEpoch
  <2>1. DoFreezeWrites("closed")
    BY <1>1 DEF DoInstallLeadership, InstallLeadership, DoFreezeWrites
  <2> QED BY <2>1, FreezeInv DEF FreezeKind
<1>2. CASE m.state.epoch # MaxEpoch
  <2> DEFINE n == AdvanceLeadership(m, t, l)
  <2>1. m' = n
    BY <1>2 DEF DoInstallLeadership, InstallLeadership
  <2>2. /\ n = [state |-> n.state, committed |-> n.state, fences |-> NoEntries,
                committedFences |-> NoEntries, nonces |-> n.state.ledger,
                proposals |-> NoEntries]
        /\ n.state \in State
        /\ n.state.leader = l
        /\ ValidLedger(n.state.ledger, n.state.revision)
        /\ n.state.revision = 0 <=> n.state.desired = NoPayload
    BY <1>2, AdvanceResult
  <2> HIDE DEF n
  <2>3. /\ m'.state = n.state /\ m'.committed = n.state /\ m'.fences = NoEntries
        /\ m'.committedFences = NoEntries /\ m'.nonces = n.state.ledger
        /\ m'.proposals = NoEntries
        /\ m' = [state |-> m'.state, committed |-> m'.committed, fences |-> m'.fences,
                 committedFences |-> m'.committedFences, nonces |-> m'.nonces,
                 proposals |-> m'.proposals]
    BY <2>1, <2>2
  <2>4. TypeOK'
    BY <2>2, <2>3 DEF TypeOK, PartialMap, NoEntries, State
  <2>5. PendingIsOneProposal'
    BY <2>3 DEF PendingIsOneProposal, SameLeadership, SamePayload
  <2>6. LedgersComplete'
    BY <2>2, <2>3 DEF LedgersComplete
  <2>7. FencesAreCommitted' /\ ProposalsAreCurrent'
    BY <2>3 DEF FencesAreCommitted, ProposalsAreCurrent, NoEntries
  <2>8. ContentHasRevision'
    BY <2>2, <2>3 DEF ContentHasRevision
  <2> QED BY <2>4, <2>5, <2>6, <2>7, <2>8 DEF MachineInv
<1> QED BY <1>1, <1>2

\* Every method of the machine preserves the invariant.
LEMMA NextInv == TypeOK /\ MachineInv /\ [Next]_m => TypeOK' /\ MachineInv'
<1> SUFFICES ASSUME TypeOK, MachineInv, [Next]_m PROVE TypeOK' /\ MachineInv'
  OBVIOUS
<1>1. ASSUME NEW t \in Term, NEW l \in Node, DoInstallLeadership(t, l)
      PROVE TypeOK' /\ MachineInv'
  BY <1>1, LeadershipInv
<1>2. ASSUME NEW kind \in FreezeKind, DoFreezeWrites(kind)
      PROVE TypeOK' /\ MachineInv'
  BY <1>2, FreezeInv
<1>3. ASSUME NEW token \in FenceToken, DoResumeWrites(token)
      PROVE TypeOK' /\ MachineInv'
  BY <1>3, ResumeInv
<1>4. ASSUME NEW p \in Payload, NEW n \in Nonce, DoPropose(p, n)
      PROVE TypeOK' /\ MachineInv'
  BY <1>4, ProposeInv
<1>5. ASSUME NEW s \in Snapshots, DoLoadSnapshot(s)
      PROVE TypeOK' /\ MachineInv'
  BY <1>5, LoadSnapshotInv DEF Snapshots
<1>6. ASSUME NEW r \in DOMAIN m.proposals, DoInstallCommit(m.proposals[r])
      PROVE TypeOK' /\ MachineInv'
  BY <1>6, InstallCommitInv
<1>7. CASE UNCHANGED m
  BY <1>7 DEF TypeOK, PartialMap, MachineInv, PendingIsOneProposal, LedgersComplete,
              FencesAreCommitted, ProposalsAreCurrent, ContentHasRevision
<1> QED BY <1>1, <1>2, <1>3, <1>4, <1>5, <1>6, <1>7 DEF Next

\* Whatever order freezes, leaderships, snapshots, proposals and commits come in,
\* the machine's six fields (state.go:113) stay mutually consistent.
THEOREM MachineSafe == Spec => [](TypeOK /\ MachineInv)
BY InitInv, NextInv, PTL DEF Spec

\* state.go:317: ValidateFence never has a committed fence for a revision that is
\* only proposed, and the current fence names the committed content.
THEOREM FencesAreCommittedThm == Spec => []FencesAreCommitted
<1>1. TypeOK /\ MachineInv => FencesAreCommitted
  BY DEF MachineInv
<1> QED BY <1>1, MachineSafe, PTL

\* state.go:114: the working state is the committed one or exactly one proposal on
\* top of it, in the same leadership and freeze state.
THEOREM PendingIsOneProposalThm == Spec => []PendingIsOneProposal
<1>1. TypeOK /\ MachineInv => PendingIsOneProposal
  BY DEF MachineInv
<1> QED BY <1>1, MachineSafe, PTL

\* state.go:678: validNonceLedger holds of the committed and of the working ledger
\* for ever, so no nonce is ever used by two revisions and no revision lacks one.
THEOREM LedgersCompleteThm == Spec => []LedgersComplete
<1>1. TypeOK /\ MachineInv => LedgersComplete
  BY DEF MachineInv
<1> QED BY <1>1, MachineSafe, PTL

\* state.go:439: what validateCommitLocked compares a retried commit with always
\* belongs to the installed leadership and to the fence of its revision, so no
\* proposal of a former leadership can be installed.
THEOREM ProposalsAreCurrentThm == Spec => []ProposalsAreCurrent
<1>1. TypeOK /\ MachineInv => ProposalsAreCurrent
  BY DEF MachineInv
<1> QED BY <1>1, MachineSafe, PTL

\* state.go:527: a machine never has a revision without content, content without a
\* revision, or open writes without a leader.
THEOREM ContentHasRevisionThm == Spec => []ContentHasRevision
<1>1. TypeOK /\ MachineInv => ContentHasRevision
  BY DEF MachineInv
<1> QED BY <1>1, MachineSafe, PTL

-------------------------------------------------------------------------------
(* Action properties *)

Advances ==
  /\ m'.committed.revision >= m.committed.revision
  /\ m'.committed.epoch >= m.committed.epoch
  /\ m'.committed.epoch > m.committed.epoch => m'.committed.term > m.committed.term
  /\ m'.committed.epoch = m.committed.epoch => SameLeadership(m'.committed, m.committed)

Immutable ==
  m'.committed.revision = m.committed.revision => SamePayload(m'.committed, m.committed)

StableFences ==
  m'.committed.epoch = m.committed.epoch =>
    \A r \in DOMAIN m.committedFences \cap DOMAIN m'.committedFences :
      m'.committedFences[r] = m.committedFences[r]

\* A step that leaves the committed state alone but for its freeze, and the
\* committed fences, satisfies all three.
\* A step that leaves leadership, payload and fences of the committed state alone
\* (FreezeWrites, ResumeWrites, Propose) satisfies the three action properties.
LEMMA QuietStep ==
  ASSUME TypeOK, SameLeadership(m'.committed, m.committed),
         SamePayload(m'.committed, m.committed),
         m'.committedFences = m.committedFences
  PROVE Advances /\ Immutable /\ StableFences
<1>1. m.committed.revision \in Nat /\ m.committed.epoch \in Nat /\ m.committed.term \in Nat
  BY DEF TypeOK, State, Revision, Epoch, Term
<1> QED BY <1>1 DEF Advances, Immutable, StableFences, SameLeadership, SamePayload

\* InstallLeadership (state.go:162) only moves to a higher term and epoch; when it
\* promotes a pending proposal the revision moves, so nothing committed changes.
LEMMA LeadershipStep ==
  ASSUME TypeOK, MachineInv, NEW t \in Term, NEW l \in Node, DoInstallLeadership(t, l)
  PROVE Advances /\ Immutable /\ StableFences
<1>1. CASE m.state.epoch = MaxEpoch
  <2>1. m' = FreezeWrites(m, "closed")
    BY <1>1 DEF DoInstallLeadership, InstallLeadership
  <2>2. /\ m'.committedFences = m.committedFences
        /\ SameLeadership(m'.committed, m.committed)
        /\ SamePayload(m'.committed, m.committed)
    BY <2>1 DEF FreezeWrites, Freeze, TypeOK, State, SameLeadership, SamePayload
  <2> QED BY <2>2, QuietStep
<1>2. CASE m.state.epoch # MaxEpoch
  <2> DEFINE n == AdvanceLeadership(m, t, l)
  <2>1. m' = n
    BY <1>2 DEF DoInstallLeadership, InstallLeadership
  <2>2. /\ n = [state |-> n.state, committed |-> n.state, fences |-> NoEntries,
                committedFences |-> NoEntries, nonces |-> n.state.ledger,
                proposals |-> NoEntries]
        /\ n.state.term = t /\ n.state.epoch = m.state.epoch + 1
        /\ SamePayload(n.state, m.state) \/ SamePayload(n.state, m.committed)
    BY <1>2, AdvanceResult
  <2> HIDE DEF n
  <2>3. m'.committed = n.state
    BY <2>1, <2>2
  <2>4. /\ m.committed.revision \in Nat /\ m.committed.epoch \in Nat
        /\ m.state.revision \in Nat /\ m.state.term \in Nat
        /\ m.state.epoch = m.committed.epoch /\ m.state.term = m.committed.term
    BY DEF TypeOK, State, Revision, Epoch, Term, MachineInv, PendingIsOneProposal, SameLeadership
  <2>5. t > m.state.term
    BY <2>4 DEF DoInstallLeadership, LeadershipIsOld, LeadershipConflicts, Term
  <2>6. \/ SamePayload(m.state, m.committed)
        \/ m.state.revision = m.committed.revision + 1
    BY DEF MachineInv, PendingIsOneProposal
  <2>7. Advances
    BY <2>2, <2>3, <2>4, <2>5, <2>6 DEF Advances, SamePayload
  <2>8. Immutable
    BY <2>2, <2>3, <2>4, <2>6 DEF Immutable, SamePayload
  <2>9. StableFences
    BY <2>2, <2>3, <2>4 DEF StableFences
  <2> QED BY <2>7, <2>8, <2>9
<1> QED BY <1>1, <1>2

\* loadSnapshot (state.go:503-526) refuses every snapshot that would take the
\* committed state back or replace the content of its revision.
LEMMA LoadSnapshotStep ==
  ASSUME TypeOK, MachineInv, NEW s \in State, DoLoadSnapshot(s)
  PROVE Advances /\ Immutable /\ StableFences
<1> DEFINE seeded == IF s.revision > 0 THEN Put(NoEntries, s.revision, s.desired)
                                       ELSE NoEntries
<1>1. /\ SameLeadership(m'.committed, s) /\ SamePayload(m'.committed, s)
      /\ m'.committedFences = seeded
  BY DEF DoLoadSnapshot, LoadSnapshot, Freeze, State, SameLeadership, SamePayload
<1>2. CanLoadSnapshot(m, s)
  BY DEF DoLoadSnapshot
<1>3. /\ m.committed.revision \in Nat /\ m.committed.epoch \in Nat /\ m.committed.term \in Nat
      /\ s.revision \in Nat /\ s.epoch \in Nat /\ s.term \in Nat
  BY DEF TypeOK, State, Revision, Epoch, Term
<1>4. Advances
  BY <1>1, <1>2, <1>3 DEF Advances, CanLoadSnapshot, SameLeadership, SamePayload
<1>5. s.revision = m.committed.revision => SamePayload(s, m.committed)
  <2>1. CASE s.revision > 0
    BY <1>2, <2>1 DEF CanLoadSnapshot
  <2>2. CASE s.revision = 0 /\ m.committed.revision = 0
    <3>1. s.desired = NoPayload /\ m.committed.desired = NoPayload
      BY <1>2, <2>2 DEF CanLoadSnapshot, WellFormedSnapshot, MachineInv, ContentHasRevision
    <3>2. \A n \in Nonce : s.ledger[n] = 0 /\ m.committed.ledger[n] = 0
      BY <1>2, <2>2 DEF CanLoadSnapshot, WellFormedSnapshot, ValidLedger, MachineInv, LedgersComplete
    <3>3. s.ledger = m.committed.ledger
      BY <3>2 DEF TypeOK, State, Ledger
    <3> QED BY <2>2, <3>1, <3>3 DEF SamePayload
  <2> QED BY <1>3, <2>1, <2>2
<1>6. Immutable
  BY <1>1, <1>5 DEF Immutable, SamePayload
<1>7. StableFences
  <2>1. \A r \in DOMAIN seeded : r = s.revision /\ seeded[r] = s.desired
    BY DEF Put, NoEntries
  <2> HIDE DEF seeded
  <2>2. ASSUME NEW r \in DOMAIN m.committedFences \cap DOMAIN seeded
        PROVE seeded[r] = m.committedFences[r]
    <3>1. /\ r = s.revision /\ r \in Nat /\ r <= m.committed.revision
          /\ r = m.committed.revision => m.committedFences[r] = m.committed.desired
      BY <2>1, <2>2 DEF MachineInv, FencesAreCommitted, TypeOK, PartialMap
    <3>2. r = m.committed.revision
      BY <1>2, <1>3, <3>1 DEF CanLoadSnapshot
    <3> QED BY <1>5, <2>1, <3>1, <3>2 DEF SamePayload
  <2> QED BY <1>1, <2>2 DEF StableFences
<1> QED BY <1>4, <1>6, <1>7

\* InstallCommit (state.go:567) moves the committed state only to the proposal the
\* machine remembers, in the same epoch and at a revision not below the current.
LEMMA InstallCommitStep ==
  ASSUME TypeOK, MachineInv, NEW r \in DOMAIN m.proposals,
         DoInstallCommit(m.proposals[r])
  PROVE Advances /\ Immutable /\ StableFences
<1> DEFINE c == m.proposals[r]
           s == Freeze(c.state, m.state.freeze)
<1>1. /\ r \in 1 .. MaxRevision /\ c \in Commit /\ c.state.revision = r
      /\ SameLeadership(c.state, m.state)
      /\ c.state.ledger[c.nonce] = r
      /\ r = m.committed.revision => SamePayload(c.state, m.committed)
  BY DEF TypeOK, PartialMap, MachineInv, ProposalsAreCurrent
<1>2. /\ m.committed.revision \in Nat /\ m.committed.epoch \in Nat /\ m.committed.term \in Nat
      /\ SameLeadership(m.state, m.committed)
  BY DEF TypeOK, State, Revision, Epoch, Term, MachineInv, PendingIsOneProposal
<1>3. r > m.committed.revision
  <2>1. r >= m.committed.revision
    BY <1>1 DEF DoInstallCommit
  <2>2. r # m.committed.revision
    <3>1. SUFFICES ASSUME r = m.committed.revision PROVE FALSE
      OBVIOUS
    <3>2. CarriesExactCommit(m.committed, c)
      BY <1>1, <1>2, <3>1 DEF CarriesExactCommit, SamePayload, SameLeadership
    <3> QED BY <3>2 DEF DoInstallCommit
  <2> QED BY <1>1, <1>2, <2>1, <2>2
<1>4. s.revision = r /\ SameLeadership(s, c.state)
  BY <1>1 DEF Commit, State, Freeze, SameLeadership
<1>5. /\ m'.committed = s
      /\ m'.committedFences = Put(m.committedFences, r, s.desired)
  <2>1. s.revision >= m.committed.revision
    BY <1>1, <1>2, <1>3, <1>4
  <2>2. m' = [m EXCEPT !.committed = s,
                       !.committedFences = Put(m.committedFences, s.revision, s.desired),
                       !.state = IF Frozen(m.state) \/ s.revision >= m.state.revision
                                   THEN s ELSE m.state]
    BY <2>1 DEF DoInstallCommit, InstallCommit
  <2> HIDE DEF c, s
  <2> QED BY <1>4, <2>2 DEF TypeOK
<1> HIDE DEF c, s
<1>6. Advances
  BY <1>1, <1>2, <1>3, <1>4, <1>5 DEF Advances, SameLeadership
<1>7. Immutable
  BY <1>1, <1>2, <1>3, <1>4, <1>5 DEF Immutable
<1>8. StableFences
  <2>1. \A x \in DOMAIN m.committedFences : x # r
    BY <1>1, <1>2, <1>3 DEF MachineInv, FencesAreCommitted, TypeOK, PartialMap
  <2> QED BY <1>5, <2>1 DEF StableFences, Put
<1> QED BY <1>6, <1>7, <1>8

\* Every method of the machine satisfies the three action properties.
LEMMA NextStep ==
  TypeOK /\ MachineInv /\ Next => Advances /\ Immutable /\ StableFences
<1> SUFFICES ASSUME TypeOK, MachineInv, Next
             PROVE Advances /\ Immutable /\ StableFences
  OBVIOUS
<1>1. ASSUME NEW t \in Term, NEW l \in Node, DoInstallLeadership(t, l)
      PROVE Advances /\ Immutable /\ StableFences
  BY <1>1, LeadershipStep
<1>2. ASSUME NEW kind \in FreezeKind, DoFreezeWrites(kind)
      PROVE Advances /\ Immutable /\ StableFences
  BY <1>2, QuietStep DEF DoFreezeWrites, FreezeWrites, Freeze, TypeOK, State,
                         SameLeadership, SamePayload
<1>3. ASSUME NEW token \in FenceToken, DoResumeWrites(token)
      PROVE Advances /\ Immutable /\ StableFences
  BY <1>3, QuietStep DEF DoResumeWrites, ResumeWrites, Freeze, TypeOK, State,
                         SameLeadership, SamePayload
<1>4. ASSUME NEW p \in Payload, NEW n \in Nonce, DoPropose(p, n)
      PROVE Advances /\ Immutable /\ StableFences
  <2>1. m'.committed = m.committed /\ m'.committedFences = m.committedFences
    BY <1>4 DEF DoPropose, Propose, TypeOK
  <2> QED BY <2>1, QuietStep DEF SameLeadership, SamePayload
<1>5. ASSUME NEW s \in Snapshots, DoLoadSnapshot(s)
      PROVE Advances /\ Immutable /\ StableFences
  BY <1>5, LoadSnapshotStep DEF Snapshots
<1>6. ASSUME NEW r \in DOMAIN m.proposals, DoInstallCommit(m.proposals[r])
      PROVE Advances /\ Immutable /\ StableFences
  BY <1>6, InstallCommitStep
<1> QED BY <1>1, <1>2, <1>3, <1>4, <1>5, <1>6 DEF Next

\* The committed revision, epoch and term of a machine never go back and leadership
\* is fixed within an epoch (the regression checks of state.go:503-526).
THEOREM CommittedAdvancesThm == Spec => CommittedAdvances
<1>1. TypeOK /\ MachineInv /\ [Next]_m =>
        [ /\ m'.committed.revision >= m.committed.revision
          /\ m'.committed.epoch >= m.committed.epoch
          /\ m'.committed.epoch > m.committed.epoch =>
               m'.committed.term > m.committed.term
          /\ m'.committed.epoch = m.committed.epoch =>
               SameLeadership(m'.committed, m.committed) ]_m
  BY NextStep DEF Advances
<1> QED BY <1>1, MachineSafe, PTL DEF Spec, CommittedAdvances

\* The content and nonces of the committed revision are never replaced while it is
\* current (state.go:524, 571), by no snapshot, retry or leadership change.
THEOREM CommittedIsImmutableThm == Spec => CommittedIsImmutable
<1>1. TypeOK /\ MachineInv /\ [Next]_m =>
        [ m'.committed.revision = m.committed.revision =>
            SamePayload(m'.committed, m.committed) ]_m
  BY NextStep DEF Immutable
<1> QED BY <1>1, MachineSafe, PTL DEF Spec, CommittedIsImmutable

\* Within an epoch a committed fence keeps its digest (state.go:311-323): two tokens
\* that ValidateFence accepts for one epoch and revision name the same content.
THEOREM FenceDigestIsStableThm == Spec => FenceDigestIsStable
<1>1. TypeOK /\ MachineInv /\ [Next]_m =>
        [ m'.committed.epoch = m.committed.epoch =>
            \A r \in DOMAIN m.committedFences \cap DOMAIN m'.committedFences :
              m'.committedFences[r] = m.committedFences[r] ]_m
  BY NextStep DEF StableFences
<1> QED BY <1>1, MachineSafe, PTL DEF Spec, FenceDigestIsStable

===============================================================================
