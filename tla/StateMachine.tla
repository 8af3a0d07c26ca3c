----------------------------- MODULE StateMachine -----------------------------
(***************************************************************************)
(* One controlplane.StateMachine driven through its public methods, as the *)
(* Coordinator, the raft FSM and Bootstrap drive it.  Leadership terms,    *)
(* snapshots and fence tokens are arbitrary; what the machine rejects      *)
(* leaves it unchanged and is a stuttering step.                           *)
(***************************************************************************)
EXTENDS ControlState

VARIABLE m   \* the machine: state, committed, fences, nonces, proposals

Init == m = NewMachine

\* A raft "leadership" entry, and the overflow path of InstallLeadership.
DoInstallLeadership(t, l) ==
  /\ t > 0
  /\ ~LeadershipIsOld(m, t, l) /\ ~LeadershipConflicts(m, t, l)
  /\ m' = InstallLeadership(m, t, l)

DoFreezeWrites(kind) ==
  /\ kind # "open"
  /\ m' = FreezeWrites(m, kind)

DoResumeWrites(token) ==
  /\ ValidateResumeFence(m, token)
  /\ m' = ResumeWrites(m)

\* The proposing service takes its compare-and-swap baseline from Snapshot(),
\* the committed state, so a pending proposal blocks the next one.
DoPropose(p, n) ==
  /\ CanPropose(m, m.committed.leader, m.committed.epoch, m.committed.revision, n)
  /\ m.state.leader # NoNode
  /\ m.state.revision < MaxRevision
  /\ m' = Propose(m, p, n)

DoLoadSnapshot(s) ==
  /\ CanLoadSnapshot(m, s)
  /\ m' = LoadSnapshot(m, s)

\* Coordinator.installCommitIfNeeded.  applyLocked reaches it only with a
\* commit that is not behind the durable baseline; InstallCommit of a frozen
\* machine does not check it.
DoInstallCommit(c) ==
  /\ ValidateCommit(m, c)
  /\ c.state.revision >= m.committed.revision
  /\ ~CarriesExactCommit(m.committed, c)
  /\ m' = InstallCommit(m, c)

Snapshots == {s \in State : WellFormedSnapshot(s)}

Next ==
  \/ \E t \in Term, l \in Node : DoInstallLeadership(t, l)
  \/ \E kind \in FreezeKind : DoFreezeWrites(kind)
  \/ \E token \in FenceToken : DoResumeWrites(token)
  \/ \E p \in Payload, n \in Nonce : DoPropose(p, n)
  \/ \E s \in Snapshots : DoLoadSnapshot(s)
  \/ \E r \in DOMAIN m.proposals : DoInstallCommit(m.proposals[r])

Spec == Init /\ [][Next]_m

-------------------------------------------------------------------------------
(* Invariants *)

PartialMap(f, S) == DOMAIN f \subseteq 1 .. MaxRevision
                    /\ \A r \in DOMAIN f : f[r] \in S

\* Every field of the machine has the type of the Go struct's field.
TypeOK ==
  /\ m = [state |-> m.state, committed |-> m.committed, fences |-> m.fences,
          committedFences |-> m.committedFences, nonces |-> m.nonces,
          proposals |-> m.proposals]
  /\ m.state \in State /\ m.committed \in State /\ m.nonces \in Ledger
  /\ PartialMap(m.fences, Payload)
  /\ PartialMap(m.committedFences, Payload)
  /\ PartialMap(m.proposals, Commit)

\* state.go:123: a snapshot, a proposal, a freeze and a leadership change never
\* pull the working state and the committed state apart: same leadership and
\* freeze, and the working state is the committed one or the single pending
\* proposal on top of it, whose nonce is the only one the committed ledger lacks.
PendingIsOneProposal ==
  /\ SameLeadership(m.state, m.committed)
  /\ m.state.freeze = m.committed.freeze
  /\ \/ SamePayload(m.state, m.committed)
     \/ /\ m.state.revision = m.committed.revision + 1
        /\ m.state.revision \in DOMAIN m.proposals
        /\ LedgerExtends(m.committed.ledger, m.state.ledger,
                         m.proposals[m.state.revision].nonce, m.state.revision)

\* state.go:678: the nonces used so far number the revisions 1, 2, ... without
\* a gap or a repetition, in the committed ledger and in the working one, so no
\* accepted proposal can ever be refused for its ledger.
LedgersComplete ==
  /\ ValidLedger(m.committed.ledger, m.committed.revision)
  /\ ValidLedger(m.nonces, m.state.revision)
  /\ m.nonces = m.state.ledger

\* state.go:317: a revision has a committed fence only once it is committed, and
\* the fence of the committed revision names the committed content: no token of
\* a pending proposal is accepted by ValidateFence.
FencesAreCommitted ==
  /\ \A r \in DOMAIN m.committedFences :
       /\ r <= m.committed.revision
       /\ r \in DOMAIN m.fences /\ m.fences[r] = m.committedFences[r]
       /\ r = m.committed.revision => m.committedFences[r] = m.committed.desired
  /\ \A r \in DOMAIN m.fences : r <= m.state.revision

\* state.go:439: each remembered proposal belongs to the installed leadership and
\* is exactly what validateCommitLocked compares a retried commit with.
ProposalsAreCurrent ==
  \A r \in DOMAIN m.proposals :
    LET c == m.proposals[r]
    IN /\ c.state.revision = r
       /\ r <= m.state.revision
       /\ SameLeadership(c.state, m.state)
       /\ c.state.freeze = "open"
       /\ c.state.ledger[c.nonce] = r
       /\ r \in DOMAIN m.fences /\ m.fences[r] = c.state.desired
       /\ r = m.state.revision => SamePayload(c.state, m.state)
       /\ r = m.committed.revision => SamePayload(c.state, m.committed)

\* A machine has content exactly when it has a revision, and an open machine has
\* a leader (loadSnapshot refuses a leader-less snapshot that is not frozen).
ContentHasRevision ==
  /\ m.state.revision = 0 <=> m.state.desired = NoPayload
  /\ m.committed.revision = 0 <=> m.committed.desired = NoPayload
  /\ m.state.leader = NoNode => Frozen(m.state)

\* The inductive invariant of the machine.
MachineInv ==
  /\ PendingIsOneProposal
  /\ LedgersComplete
  /\ FencesAreCommitted
  /\ ProposalsAreCurrent
  /\ ContentHasRevision

-------------------------------------------------------------------------------
(* What a step may never do *)

\* state.go:527-541: the committed revision and epoch never go back, a new epoch
\* comes with a new term, and leadership is fixed within an epoch.
CommittedAdvances ==
  [][ /\ m'.committed.revision >= m.committed.revision
      /\ m'.committed.epoch >= m.committed.epoch
      /\ m'.committed.epoch > m.committed.epoch =>
           m'.committed.term > m.committed.term
      /\ m'.committed.epoch = m.committed.epoch =>
           SameLeadership(m'.committed, m.committed) ]_m

\* state.go:539, 571: the content and nonce ledger of a committed revision are
\* never replaced while it is the current one, whatever snapshot, retried commit
\* or leadership change arrives.
CommittedIsImmutable ==
  [][ m'.committed.revision = m.committed.revision =>
        SamePayload(m'.committed, m.committed) ]_m

\* state.go:311-323: within an epoch the fence of a revision never changes its
\* digest, so two tokens a data plane accepts for one epoch and revision agree.
FenceDigestIsStable ==
  [][ m'.committed.epoch = m.committed.epoch =>
        \A r \in DOMAIN m.committedFences \cap DOMAIN m'.committedFences :
          m'.committedFences[r] = m.committedFences[r] ]_m
===============================================================================
