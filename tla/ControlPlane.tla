----------------------------- MODULE ControlPlane -----------------------------
(***************************************************************************)
(* The production control plane: nodes that run native raft, Bootstrap,    *)
(* the Coordinator and the protection-policy consumer over one PostgreSQL. *)
(*                                                                         *)
(* Raft itself (hashicorp/raft) is external: "log" is its committed log,   *)
(* "tail" the entries a leader accepted that may yet commit, in order.     *)
(* Terms of commits do not decrease, and an entry that commits discards    *)
(* the uncommitted entries of older terms before it.  Voters that never    *)
(* run the control plane are not modelled, they only give a quorum.        *)
(*                                                                         *)
(* The cluster starts with its first desired state committed and durable   *)
(* (the migration handoff) and every process down.  Nonces are random in   *)
(* the code, so a call draws one that was never drawn before.              *)
(***************************************************************************)
EXTENDS DurableState, Sequences

CONSTANT MaxCrash   \* bound on crashes of processes that serve

ASSUME NonceAssumption == 1 \in Nonce /\ Nonce \subseteq Nat \ {0}

\* The bounds leave room for the first commit.
ASSUME BoundAssumption == MaxTerm > 0 /\ MaxEpoch > 0 /\ MaxRevision > 0 /\ MaxCrash \in Nat

VARIABLES
  log, tail,       \* raft: committed entries, accepted entries
  term, lead,      \* raft: newest term that elected a leader, and that leader
  curTerm, known,  \* raft, per node: CurrentTerm and LeaderWithID
  notify,          \* per node: NotifyCh, leadership gained or lost
  applied,         \* per node: log entries the FSM has applied
  mach,            \* per node: Runtime.machine
  cons, last,      \* per node: Runtime.consensusState, Runtime.lastCommit
  obs,             \* per node: term observeLeadership is persisting, or 0
  phase,           \* per node: "down", "booting", "ready"
  boot,            \* per node: Bootstrap's locals
  call,            \* per node: the consumer's call in progress
  failed,          \* per node: consumer.failed
  pg,              \* the PostgreSQL store
  drawn, crashes,  \* how many nonces were drawn, serving processes crashed
  acked,           \* history: commits a caller was told have succeeded
  published        \* per node: the last commit its data plane was given

raft == <<log, tail, term, lead, curTerm, known>>
fsm  == <<applied, mach, cons, last>>
proc == <<phase, boot, call, failed>>
hist == <<drawn, crashes, acked, published>>
vars == <<raft, notify, fsm, obs, proc, pg, hist>>

LeadEntry(t, l) == [kind |-> "lead", at |-> t, term |-> t, leader |-> l]
CommitEntry(t, c) == [kind |-> "commit", at |-> t, commit |-> c]

NoCommit == [state |-> NewState, nonce |-> 0]
NoCall == [pc |-> "idle", commit |-> NoCommit]
NoBoot == [pc |-> "load", durable |-> NewState, consensus |-> NewState,
           baseline |-> NewState, commit |-> NoCommit]

\* The protected initial commit, made by the leader of term 1.
InitialCommit(n, p) ==
  [state |-> [leader |-> n, term |-> 1, epoch |-> 1, revision |-> 1,
              desired |-> p, freeze |-> "open",
              ledger |-> [EmptyLedger EXCEPT ![1] = 1]],
   nonce |-> 1]

Init ==
  \E n \in Node, p \in Payload :
    LET c == InitialCommit(n, p)
    IN /\ log = <<LeadEntry(1, n), CommitEntry(1, c)>>
       /\ tail = <<>>
       /\ term = 1 /\ lead = NoNode
       /\ curTerm = [x \in Node |-> 1] /\ known = [x \in Node |-> NoNode]
       /\ notify = [x \in Node |-> <<>>]
       /\ applied = [x \in Node |-> 0] /\ mach = [x \in Node |-> NewMachine]
       /\ cons = [x \in Node |-> NewState] /\ last = [x \in Node |-> NoCommit]
       /\ obs = [x \in Node |-> 0]
       /\ phase = [x \in Node |-> "down"]
       /\ boot = [x \in Node |-> NoBoot] /\ call = [x \in Node |-> NoCall]
       /\ failed = [x \in Node |-> FALSE]
       /\ pg = [row |-> c.state, commits |-> {c}]
       /\ drawn = 1 /\ crashes = 0
       /\ acked = {c}
       /\ published = [x \in Node |-> c]

Alive(n) == phase[n] # "down"
IsLeader(n) == known[n] = n
Entries(s) == {s[i] : i \in DOMAIN s}

-------------------------------------------------------------------------------
(* Raft, external *)

\* n wins an election; the previous leader may not know yet.
Elect(n) ==
  /\ Alive(n) /\ ~IsLeader(n) /\ term < MaxTerm
  /\ term' = term + 1 /\ lead' = n
  /\ curTerm' = [curTerm EXCEPT ![n] = term + 1]
  /\ known' = [known EXCEPT ![n] = n]
  /\ notify' = [notify EXCEPT ![n] = Append(@, TRUE)]
  /\ UNCHANGED <<log, tail, fsm, obs, proc, pg, hist>>

\* A leader gives up (lease timeout, higher term).  The futures of entries that
\* have not committed fail; one that has committed may still be answered.
StepDown(n) ==
  /\ Alive(n) /\ IsLeader(n)
  /\ lead' = IF lead = n THEN NoNode ELSE lead
  /\ known' = [known EXCEPT ![n] = NoNode]
  /\ notify' = [notify EXCEPT ![n] = Append(@, FALSE)]
  /\ obs' = [obs EXCEPT ![n] = 0]
  /\ \/ /\ call[n].pc = "submitted"
        /\ call' = [call EXCEPT ![n].pc = "lost"]
     \/ /\ \/ call[n].pc # "submitted"
           \/ \E e \in Entries(log) : e.kind = "commit" /\ e.commit = call[n].commit
        /\ UNCHANGED call
  /\ UNCHANGED <<log, tail, term, curTerm, fsm, phase, boot, failed, pg, hist>>

\* A node hears from the current leader.
Learn(n) ==
  /\ Alive(n) /\ ~IsLeader(n) /\ lead # NoNode
  /\ known[n] # lead \/ curTerm[n] # term
  /\ curTerm' = [curTerm EXCEPT ![n] = term]
  /\ known' = [known EXCEPT ![n] = lead]
  /\ UNCHANGED <<log, tail, term, lead, notify, fsm, obs, proc, pg, hist>>

\* The current leader commits an accepted entry.
CommitTail(i) ==
  /\ lead # NoNode
  /\ \A j \in 1 .. i - 1 : tail[j].at < tail[i].at
  /\ log' = Append(log, tail[i])
  /\ tail' = SubSeq(tail, i + 1, Len(tail))
  /\ UNCHANGED <<term, lead, curTerm, known, notify, fsm, obs, proc, pg, hist>>

\* raft.Apply on a node that takes itself for the leader: only the current
\* leader's entry can ever commit.
Submit(n, e) == tail' = IF lead = n THEN Append(tail, e) ELSE tail

-------------------------------------------------------------------------------
(* nativeraft.Runtime: the leadership observer and the replicated FSM *)

\* observeLeadership: a lost leadership freezes, whatever froze it before.
ObserveLost(n) ==
  /\ Alive(n) /\ obs[n] = 0
  /\ notify[n] # <<>> /\ ~Head(notify[n])
  /\ notify' = [notify EXCEPT ![n] = Tail(@)]
  /\ mach' = [mach EXCEPT ![n] = FreezeWrites(@, "unavailable")]
  /\ UNCHANGED <<raft, applied, cons, last, obs, proc, pg, hist>>

LeadershipInstalled(n) ==
  LET s == mach[n].committed
  IN s.leader = n /\ s.term = curTerm[n] /\ ~Frozen(s)

\* observeLeadership, persistLeadership: put the leadership in the log and wait.
ObserveWon(n) ==
  /\ Alive(n) /\ obs[n] = 0
  /\ notify[n] # <<>> /\ Head(notify[n])
  /\ notify' = [notify EXCEPT ![n] = Tail(@)]
  /\ IF IsLeader(n) /\ ~LeadershipInstalled(n)
       THEN /\ Submit(n, LeadEntry(curTerm[n], n))
            /\ obs' = [obs EXCEPT ![n] = curTerm[n]]
       ELSE UNCHANGED <<tail, obs>>
  /\ UNCHANGED <<log, term, lead, curTerm, known, fsm, proc, pg, hist>>

\* Mutant: the machine's state is taken over without comparing payloads.
AdvanceConsensusFromMachine(current, machineState, t, l) ==
  IF t > current.term THEN machineState ELSE current

\* advanceConsensusLeadership: the consensus state moves only if the machine
\* moved to the same leadership with the same payload.
AdvanceConsensusLeadership(current, machineState, t, l) ==
  LET next == [current EXCEPT !.leader = l, !.term = t, !.epoch = @ + 1,
                              !.freeze = "open"]
  IN IF /\ t > current.term /\ current.epoch < MaxEpoch
        /\ SameLeadership(machineState, next) /\ SamePayload(machineState, next)
       THEN next ELSE current

\* Runtime.Apply of a "leadership" command; the machine returns its working state.
ApplyLeadership(n, e) ==
  LET next == InstallLeadership(mach[n], e.term, e.leader)
  IN /\ mach' = [mach EXCEPT ![n] = next]
     /\ cons' = [cons EXCEPT ![n] =
                   IF InstallLeadershipFails(mach[n], e.term, e.leader) THEN @
                   ELSE AdvanceConsensusLeadership(@, next.state, e.term, e.leader)]
     /\ obs' = [obs EXCEPT ![n] = IF e.leader = n /\ e.term = @ THEN 0 ELSE @]
     /\ UNCHANGED <<last, call>>

\* Runtime.Apply of a "commit" command; the submitter gets its response.
ApplyCommit(n, c) ==
  LET ok == CanLoadSnapshot(mach[n], c.state)
  IN /\ IF ok THEN /\ mach' = [mach EXCEPT ![n] = LoadSnapshot(@, c.state)]
                   /\ cons' = [cons EXCEPT ![n] = c.state]
                   /\ last' = [last EXCEPT ![n] = c]
              ELSE UNCHANGED <<mach, cons, last>>
     /\ call' = [call EXCEPT ![n].pc =
                   IF @ = "submitted" /\ call[n].commit = c
                     THEN IF ok THEN "replicated" ELSE "lost"
                     ELSE @]
     /\ UNCHANGED obs

\* Mutant: the apply index moves past an entry that was not applied.
ApplyEntrySkips(n) ==
  /\ Alive(n) /\ applied[n] < Len(log)
  /\ LET e == log[applied[n] + 1]
     IN /\ e.at <= curTerm[n]
        /\ IF e.kind = "lead" THEN ApplyLeadership(n, e) ELSE ApplyCommit(n, e.commit)
  /\ applied' = [applied EXCEPT ![n] = @ + 2]
  /\ UNCHANGED <<raft, notify, phase, boot, failed, pg, hist>>

\* A node knows of a committed entry only from a leader of that term or later.
ApplyEntry(n) ==
  /\ Alive(n) /\ applied[n] < Len(log)
  /\ LET e == log[applied[n] + 1]
     IN /\ e.at <= curTerm[n]
        /\ IF e.kind = "lead" THEN ApplyLeadership(n, e) ELSE ApplyCommit(n, e.commit)
  /\ applied' = [applied EXCEPT ![n] = @ + 1]
  /\ UNCHANGED <<raft, notify, phase, boot, failed, pg, hist>>

HealthReady(n) ==
  /\ known[n] # NoNode
  /\ mach[n].committed.leader = known[n] /\ mach[n].committed.term = curTerm[n]

\* ensureLeaderForReplicatedRetry; ensureLeader also wants the machine open.
EnsureLeaderForRetry(n) ==
  IsLeader(n) /\ mach[n].committed.leader = n /\ HealthReady(n)

EnsureLeader(n) == EnsureLeaderForRetry(n) /\ ~Frozen(mach[n].committed)

-------------------------------------------------------------------------------
(* A policy write: consumer, Coordinator.ProposeAndApply, Runtime.Propose *)

\* Every error once a commit exists: the coordinator or the consumer freezes
\* the machine and the consumer refuses every later call of this process.
FailCall(n) ==
  /\ mach' = [mach EXCEPT ![n] = FreezeWrites(@, "closed")]
  /\ failed' = [failed EXCEPT ![n] = TRUE]
  /\ call' = [call EXCEPT ![n] = NoCall]

Advance(n, pc) == call' = [call EXCEPT ![n].pc = pc] /\ UNCHANGED <<mach, failed>>

\* proposeAndApplyLocked and StateMachine.Propose with the committed state as
\* the compare-and-swap baseline.  A refused proposal changes nothing.
StartCall(n, p) ==
  LET m == mach[n]
      nonce == drawn + 1
  IN /\ phase[n] = "ready" /\ ~failed[n] /\ call[n].pc = "idle"
     /\ nonce \in Nonce
     /\ CanPropose(m, m.committed.leader, m.committed.epoch, m.committed.revision, nonce)
     /\ m.state.revision < MaxRevision
     /\ drawn' = nonce
     /\ mach' = [mach EXCEPT ![n] = Propose(m, p, nonce)]
     /\ call' = [call EXCEPT ![n] = [pc |-> "proposed",
                                     commit |-> ProposedCommit(m, p, nonce)]]
     /\ UNCHANGED <<raft, notify, applied, cons, last, obs, phase, boot, failed,
                    pg, crashes, acked, published>>

\* Mutant: the commit goes to PostgreSQL without waiting for consensus.
CheckBaselineDurableFirst(n) ==
  LET c == call[n].commit
  IN /\ call[n].pc = "proposed"
     /\ \/ /\ ValidateCommit(mach[n], c)
           /\ pg.row.epoch <= c.state.epoch
           /\ pg.row.epoch = c.state.epoch => pg.row.revision < c.state.revision
           /\ Advance(n, "replicated")
        \/ FailCall(n)
     /\ UNCHANGED <<raft, notify, applied, cons, last, obs, phase, boot, pg, hist>>

\* applyLocked up to the consensus stage: ValidateCommit, then the durable
\* baseline (the nonce is new, so PostgreSQL cannot hold this very commit).
CheckBaseline(n) ==
  LET c == call[n].commit
  IN /\ call[n].pc = "proposed"
     /\ \/ /\ ValidateCommit(mach[n], c)
           /\ pg.row.epoch <= c.state.epoch
           /\ pg.row.epoch = c.state.epoch => pg.row.revision < c.state.revision
           /\ Advance(n, "checked")
        \/ FailCall(n)   \* a failed check, a cancelled context, PostgreSQL down
     /\ UNCHANGED <<raft, notify, applied, cons, last, obs, phase, boot, pg, hist>>

\* Runtime.Propose: ensureLeader, validateIncomingCommit, ValidateCommit, then
\* the entry goes to raft and the call waits for its future.
CanReplicate(n, c) ==
  LET current == mach[n].committed
  IN /\ EnsureLeader(n)
     /\ SameLeadership(c.state, current)
     /\ c.state.revision = current.revision + 1
     /\ LedgerExtends(current.ledger, c.state.ledger, c.nonce, c.state.revision)
     /\ ValidateCommit(mach[n], c)

Replicate(n) ==
  LET c == call[n].commit
  IN /\ call[n].pc = "checked"
     /\ \/ /\ CanReplicate(n, c)
           /\ Submit(n, CommitEntry(curTerm[n], c))
           /\ Advance(n, "submitted")
        \/ /\ ~CanReplicate(n, c)
           /\ FailCall(n)
           /\ UNCHANGED tail
     /\ UNCHANGED <<log, term, lead, curTerm, known, notify, applied, cons, last,
                    obs, phase, boot, pg, hist>>

\* Mutant: a call that lost its leadership waits for it to come back.
ReplicateFailsWaits(n) ==
  /\ call[n].pc = "lost" /\ EnsureLeader(n)
  /\ FailCall(n)
  /\ UNCHANGED <<raft, notify, applied, cons, last, obs, phase, boot, pg, hist>>

\* Leadership lost before the future answered, or the FSM refused the commit.
ReplicateFails(n) ==
  /\ call[n].pc = "lost"
  /\ FailCall(n)
  /\ UNCHANGED <<raft, notify, applied, cons, last, obs, phase, boot, pg, hist>>

\* Mutant: an error of the append is ignored.
PersistIgnoresError(n) ==
  LET c == call[n].commit
  IN /\ call[n].pc = "replicated"
     /\ pg' \in {pg, AppendCommit(pg, c)}
     /\ Advance(n, "durable")
     /\ UNCHANGED <<raft, notify, applied, cons, last, obs, phase, boot, hist>>

\* DurableStore.AppendCommit.  On an error the transaction may have committed.
Persist(n) ==
  LET c == call[n].commit
  IN /\ call[n].pc = "replicated"
     /\ \/ /\ AppendSucceeds(pg, c)
           /\ pg' = AppendCommit(pg, c)
           /\ Advance(n, "durable")
        \/ /\ pg' \in {pg, AppendCommit(pg, c)}
           /\ FailCall(n)
     /\ UNCHANGED <<raft, notify, applied, cons, last, obs, phase, boot, hist>>

\* installCommitIfNeeded: the FSM has normally loaded the commit already.
Install(n) ==
  LET c == call[n].commit
      m == mach[n]
      carried == CarriesExactCommit(m.committed, c)
  IN /\ call[n].pc = "durable"
     /\ \/ /\ carried \/ ValidateCommit(m, c)
           /\ mach' = [mach EXCEPT ![n] = IF carried THEN m ELSE InstallCommit(m, c)]
           /\ call' = [call EXCEPT ![n].pc = "installed"]
           /\ UNCHANGED failed
        \/ ~carried /\ ~ValidateCommit(m, c) /\ FailCall(n)
     /\ UNCHANGED <<raft, notify, applied, cons, last, obs, phase, boot, pg, hist>>

\* applyCommittedAndPublish, then the answer to the caller.
Materialize(n) ==
  LET c == call[n].commit
  IN /\ call[n].pc = "installed"
     /\ \/ /\ ClaimCurrentCommit(mach[n], c)
           /\ published' = [published EXCEPT ![n] = c]
           /\ acked' = acked \cup {c}
           /\ call' = [call EXCEPT ![n] = NoCall]
           /\ UNCHANGED <<mach, failed>>
        \/ FailCall(n) /\ UNCHANGED <<acked, published>>
     /\ UNCHANGED <<raft, notify, applied, cons, last, obs, phase, boot, pg, drawn, crashes>>

-------------------------------------------------------------------------------
(* Bootstrap.  A stage whose check fails returns an error: BootFails.         *)

Start(n) ==
  /\ phase[n] = "down"
  /\ phase' = [phase EXCEPT ![n] = "booting"]
  /\ UNCHANGED <<raft, notify, fsm, obs, boot, call, failed, pg, hist>>

\* The process ends: only the raft log, its term and PostgreSQL survive.
ProcessEnds(n) ==
  /\ phase' = [phase EXCEPT ![n] = "down"]
  /\ lead' = IF lead = n THEN NoNode ELSE lead
  /\ known' = [known EXCEPT ![n] = NoNode]
  /\ notify' = [notify EXCEPT ![n] = <<>>]
  /\ applied' = [applied EXCEPT ![n] = 0]
  /\ mach' = [mach EXCEPT ![n] = NewMachine]
  /\ cons' = [cons EXCEPT ![n] = NewState]
  /\ last' = [last EXCEPT ![n] = NoCommit]
  /\ obs' = [obs EXCEPT ![n] = 0]
  /\ boot' = [boot EXCEPT ![n] = NoBoot]
  /\ call' = [call EXCEPT ![n] = NoCall]
  /\ failed' = [failed EXCEPT ![n] = FALSE]
  /\ UNCHANGED <<log, tail, term, curTerm, pg, drawn, acked, published>>

Crash(n) ==
  /\ phase[n] = "ready" /\ crashes < MaxCrash
  /\ crashes' = crashes + 1
  /\ ProcessEnds(n)

\* Bootstrap returned an error (a check failed, its context expired, PostgreSQL
\* did not answer) and serve exits; the same for a crash during Bootstrap.
BootFails(n) == phase[n] = "booting" /\ ProcessEnds(n) /\ UNCHANGED crashes

Booting(n, pc) == phase[n] = "booting" /\ boot[n].pc = pc

\* What one stage of Bootstrap leaves alone.
BootQuiet == UNCHANGED <<raft, notify, applied, cons, last, obs, phase, call, failed, hist>>

\* Freeze, then Durable.LoadState.
BootLoadDurable(n) ==
  /\ Booting(n, "load")
  /\ mach' = [mach EXCEPT ![n] = FreezeWrites(@, "closed")]
  /\ boot' = [boot EXCEPT ![n].pc = "health", ![n].durable = pg.row]
  /\ BootQuiet /\ UNCHANGED pg

\* Consensus.Health has returned: freeze again and anchor the baseline.  The
\* snapshot Bootstrap took on entry is not newer, so its check is implied.
BootHealth(n) ==
  LET m == FreezeWrites(mach[n], "closed")
  IN /\ Booting(n, "health") /\ HealthReady(n)
     /\ mach' = [mach EXCEPT ![n] = m]
     /\ boot' = [boot EXCEPT ![n].pc = "current", ![n].baseline = m.committed]
     /\ BootQuiet /\ UNCHANGED pg

\* validateConsensusAheadRecovery.
RecoverableAhead(durable, consensus, c) ==
  /\ consensus.revision = durable.revision + 1
  /\ ValidCommitFields(c)
  /\ SamePayload(c.state, consensus)
  /\ ValidTransition(durable, c)
  /\ SameLeadership(c.state, consensus) => c.state = consensus

\* The stage after durable and consensus carry the same payload.
AgreedStage(durable, consensus) == IF durable = consensus THEN "fence" ELSE "checkpoint"

\* Consensus.Current and CurrentCommit: consensus agrees with PostgreSQL on the
\* payload, or is exactly one recoverable commit ahead.
BootCurrent(n) ==
  LET durable == boot[n].durable
      current == cons[n]
  IN /\ Booting(n, "current")
     /\ durable.revision > 0 /\ current.leader # NoNode
     /\ \/ /\ SamePayload(durable, current)
           /\ boot' = [boot EXCEPT ![n].pc = AgreedStage(durable, current),
                                   ![n].consensus = current]
        \/ /\ RecoverableAhead(durable, current, last[n])
           /\ SamePayload(last[n].state, current)
           /\ boot' = [boot EXCEPT ![n].pc = "recover", ![n].consensus = current,
                                   ![n].commit = last[n]]
     /\ BootQuiet /\ UNCHANGED <<mach, pg>>

BootRecover(n) ==
  LET c == boot[n].commit
  IN /\ Booting(n, "recover")
     /\ AppendSucceeds(pg, c)
     /\ pg' = AppendCommit(pg, c)
     /\ boot' = [boot EXCEPT ![n].pc = AgreedStage(c.state, boot[n].consensus),
                             ![n].durable = c.state, ![n].commit = NoCommit]
     /\ BootQuiet /\ UNCHANGED mach

\* validateLeadershipCheckpoint.
ValidCheckpoint(previous, next) ==
  /\ SamePayload(previous, next)
  /\ next.epoch >= previous.epoch
  /\ next.epoch = previous.epoch => SameLeadership(previous, next)
  /\ next.epoch > previous.epoch => next.term > previous.term
  /\ next.leader # NoNode /\ ~Frozen(next)

\* Runtime.CheckpointLeadership: the consensus leadership is still current.
BootCheckpoint(n) ==
  LET consensus == boot[n].consensus
  IN /\ Booting(n, "checkpoint")
     /\ known[n] # NoNode /\ consensus.leader = known[n]
     /\ consensus.term = curTerm[n] /\ ~Frozen(consensus)
     /\ SamePayload(cons[n], consensus) /\ SameLeadership(cons[n], consensus)
     /\ ValidCheckpoint(boot[n].durable, consensus)
     /\ boot' = [boot EXCEPT ![n].pc = "persist"]
     /\ BootQuiet /\ UNCHANGED <<mach, pg>>

BootPersist(n) ==
  LET consensus == boot[n].consensus
  IN /\ Booting(n, "persist")
     /\ CheckpointSucceeds(pg, consensus)
     /\ pg' = CheckpointLeadership(pg, consensus)
     /\ boot' = [boot EXCEPT ![n].pc = "fence", ![n].durable = consensus]
     /\ BootQuiet /\ UNCHANGED mach

\* startupSnapshotRegresses.
Regresses(previous, next) ==
  /\ previous.revision > 0
  /\ \/ next.revision < previous.revision \/ next.epoch < previous.epoch
     \/ next.epoch = previous.epoch /\ ~SameLeadership(previous, next)
     \/ next.epoch > previous.epoch /\ next.term <= previous.term
     \/ next.revision = previous.revision /\ ~SamePayload(previous, next)

NonceOf(s) == CHOOSE x \in Nonce : s.ledger[x] = s.revision
StartupCommit(n) == [state |-> boot[n].durable, nonce |-> NonceOf(boot[n].durable)]

\* The regression check, the candidate machine and Fencer.Establish.
BootFence(n) ==
  LET durable == boot[n].durable
  IN /\ Booting(n, "fence")
     /\ ~Regresses(boot[n].baseline, durable)
     /\ CanLoadSnapshot(NewMachine, durable)
     /\ EnsureLeaderForRetry(n)
     /\ SameLeadership(durable, cons[n]) /\ durable.revision = cons[n].revision
     /\ durable.desired = cons[n].desired
     /\ cons[n].ledger[NonceOf(durable)] = durable.revision
     /\ boot' = [boot EXCEPT ![n].pc = "install", ![n].consensus = NewState]
     /\ BootQuiet /\ UNCHANGED <<mach, pg>>

\* The consensus state is unchanged after fencing; LoadSnapshotIfCurrent.
BootInstall(n) ==
  LET durable == boot[n].durable
  IN /\ Booting(n, "install")
     /\ cons[n] = durable
     /\ CanLoadSnapshotIfCurrent(mach[n], boot[n].baseline, durable)
     /\ mach' = [mach EXCEPT ![n] = LoadSnapshot(@, durable)]
     /\ boot' = [boot EXCEPT ![n].pc = "resume", ![n].baseline = NewState]
     /\ BootQuiet /\ UNCHANGED pg

BootResume(n) ==
  /\ Booting(n, "resume")
  /\ ValidateResumeFence(mach[n], FenceOf(StartupCommit(n)))
  /\ mach' = [mach EXCEPT ![n] = ResumeWrites(@)]
  /\ boot' = [boot EXCEPT ![n].pc = "publish"]
  /\ BootQuiet /\ UNCHANGED pg

\* consumer.applyStartup, after which the listeners open.
BootPublish(n) ==
  /\ Booting(n, "publish")
  /\ ClaimCurrentCommit(mach[n], StartupCommit(n))
  /\ published' = [published EXCEPT ![n] = StartupCommit(n)]
  /\ phase' = [phase EXCEPT ![n] = "ready"]
  /\ boot' = [boot EXCEPT ![n] = NoBoot]
  /\ UNCHANGED <<raft, notify, fsm, obs, call, failed, pg, drawn, crashes, acked>>

-------------------------------------------------------------------------------

Raft == \/ \E n \in Node : Elect(n) \/ StepDown(n) \/ Learn(n)
        \/ \E i \in DOMAIN tail : CommitTail(i)

Runtime(n) == ObserveLost(n) \/ ObserveWon(n) \/ ApplyEntry(n)

CallStep(n) == \/ CheckBaseline(n) \/ Replicate(n) \/ ReplicateFails(n)
               \/ Persist(n) \/ Install(n) \/ Materialize(n)

BootStep(n) == \/ BootLoadDurable(n) \/ BootHealth(n) \/ BootCurrent(n)
               \/ BootRecover(n) \/ BootCheckpoint(n) \/ BootPersist(n)
               \/ BootFence(n) \/ BootInstall(n) \/ BootResume(n) \/ BootPublish(n)

Next == \/ Raft
        \/ \E n \in Node : \/ Runtime(n) \/ CallStep(n) \/ BootStep(n)
                           \/ Start(n) \/ Crash(n) \/ BootFails(n)
                           \/ \E p \in Payload : StartCall(n, p)

Spec == Init /\ [][Next]_vars

\* The goroutines of a live process run.  Raft commits what its leader accepts
\* and a deposed leader finds out (its lease is 25 ms); nothing is assumed of
\* elections, crashes, Bootstrap or callers.
Fairness ==
  /\ WF_vars(\E i \in DOMAIN tail : CommitTail(i))
  /\ \A n \in Node : /\ WF_vars(lead # n /\ StepDown(n))
                     /\ WF_vars(ObserveLost(n) \/ ObserveWon(n))
                     /\ WF_vars(ApplyEntry(n))
                     /\ WF_vars(CallStep(n))

FairSpec == Spec /\ Fairness

-------------------------------------------------------------------------------
(* Properties *)

StateOK(s) == s \in State
CommitOK(c) == c \in Commit \cup {NoCommit}
PCs == {"idle", "proposed", "checked", "submitted", "lost", "replicated",
        "durable", "installed"}
BootPCs == {"load", "health", "current", "recover", "checkpoint", "persist",
            "fence", "install", "resume", "publish"}

\* Every variable holds what the code's types allow.
TypeOK ==
  /\ term \in Term /\ lead \in Node \cup {NoNode}
  /\ \A e \in Entries(log) \cup Entries(tail) : e.kind \in {"lead", "commit"}
  /\ \A n \in Node :
       /\ curTerm[n] \in 0 .. term /\ known[n] \in Node \cup {NoNode}
       /\ applied[n] \in 0 .. Len(log) /\ obs[n] \in Term
       /\ StateOK(cons[n]) /\ CommitOK(last[n])
       /\ StateOK(mach[n].state) /\ StateOK(mach[n].committed)
       /\ phase[n] \in {"down", "booting", "ready"} /\ failed[n] \in BOOLEAN
       /\ boot[n].pc \in BootPCs /\ call[n].pc \in PCs /\ CommitOK(call[n].commit)
  /\ StateOK(pg.row) /\ pg.commits \subseteq Commit /\ acked \subseteq Commit

\* coordinator.go:26: consensus comes before PostgreSQL.  Whatever crashes, lost
\* answers and recoveries happen, PostgreSQL never holds a commit that the raft
\* log does not hold.
DurableIsReplicated ==
  \A c \in pg.commits :
    \E e \in Entries(log) : e.kind = "commit" /\ e.commit = c

\* coordinator.go:254: a caller that was told "committed" is never contradicted:
\* its commit is in PostgreSQL and its nonce stays at its revision in the durable
\* row and in the consensus state of every node that has reached that revision.
AckedIsKept ==
  \A c \in acked :
    /\ c \in pg.commits
    /\ pg.row.ledger[c.nonce] = c.state.revision
    /\ \A n \in Node : cons[n].revision >= c.state.revision =>
                         cons[n].ledger[c.nonce] = c.state.revision

\* runtime.go:793: replicas apply the same log, so nodes that are in the same
\* epoch name the same leader and term, and the consensus states of one epoch
\* and revision are equal.
ConsensusAgrees ==
  \A a, b \in Node :
    /\ cons[a].epoch = cons[b].epoch => SameLeadership(cons[a], cons[b])
    /\ cons[a].epoch = cons[b].epoch /\ cons[a].revision = cons[b].revision =>
         cons[a] = cons[b]
    /\ mach[a].committed.epoch = mach[b].committed.epoch =>
         SameLeadership(mach[a].committed, mach[b].committed)

\* state.go:302: the fence tokens that two nodes accept for one revision agree on
\* content and nonce, also while the nodes are in different epochs.
FencesAgree ==
  \A a, b \in Node :
    \A r \in DOMAIN mach[a].committedFences \cap DOMAIN mach[b].committedFences :
      /\ mach[a].committedFences[r] = mach[b].committedFences[r]
      /\ \A n \in Nonce : mach[a].nonces[n] = r <=> mach[b].nonces[n] = r

\* consumer.applyCommittedAndPublish: what a data plane was given is durable.
PublishedIsDurable ==
  \A n \in Node :
    LET c == published[n]
    IN /\ pg.row.ledger[c.nonce] = c.state.revision
       /\ \E d \in pg.commits : d.nonce = c.nonce /\ SamePayload(d.state, c.state)

\* A policy write always comes back to its caller: no future, lock or lost
\* leadership leaves it waiting for ever.
CallsReturn == \A n \in Node : call[n].pc # "idle" ~> call[n].pc = "idle"

-------------------------------------------------------------------------------
(* What the documents and comments say and the code does not do *)

\* control-plane-contract.md:19: a committed fence is installed only once both
\* the consensus log and PostgreSQL have confirmed the revision.
FenceImpliesDurable ==
  \A n \in Node : \A r \in DOMAIN mach[n].committedFences : r <= pg.row.revision
===============================================================================
