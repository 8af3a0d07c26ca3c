----------------------------- MODULE ControlState -----------------------------
(***************************************************************************)
(* The replicated control-plane State, its commits and fence tokens, and   *)
(* the operations of controlplane.StateMachine as functions from machine   *)
(* to machine (internal/controlplane/state.go).  StateMachine.tla drives   *)
(* one machine with them, ControlPlane.tla one machine per node.           *)
(*                                                                         *)
(* Abstractions.  There is one cluster, so ClusterID is dropped.  SHA-256  *)
(* is injective, so the version, digest and payload of a DesiredState are  *)
(* one member of Payload.  UpdatedAt is dropped.  WriteFrozen and          *)
(* FreezeReason are one field: "open" is WriteFrozen = false,              *)
(* "unavailable" is frozen with the reason "native-raft leadership         *)
(* unavailable" (the one reason InstallLeadership compares with), "closed" *)
(* is frozen with any other reason.  A Go map lookup of an absent nonce    *)
(* yields 0, so a nonce ledger is total on Nonce and 0 means absent.       *)
(***************************************************************************)
EXTENDS Naturals

CONSTANTS Node,         \* identities that may lead
          NoNode,       \* the empty LeaderID
          Nonce,        \* one-time proposal nonces
          Payload,      \* desired-state contents
          NoPayload,    \* the empty DesiredState
          MaxTerm,      \* bound on raft terms
          MaxEpoch,     \* largest Epoch: ^Epoch(0) in the code
          MaxRevision   \* bound on revisions

ASSUME ControlStateAssumption ==
  /\ NoNode \notin Node
  /\ NoPayload \notin Payload
  /\ MaxTerm \in Nat /\ MaxEpoch \in Nat /\ MaxRevision \in Nat

Term == 0 .. MaxTerm
Epoch == 0 .. MaxEpoch
Revision == 0 .. MaxRevision
FreezeKind == {"open", "unavailable", "closed"}
Ledger == [Nonce -> Revision]

State == [leader : Node \cup {NoNode}, term : Term, epoch : Epoch,
          revision : Revision, desired : Payload \cup {NoPayload},
          freeze : FreezeKind, ledger : Ledger]

\* A Commit's FenceToken repeats fields of its State and adds the nonce.
Commit == [state : State, nonce : Nonce]

\* Tokens are issued for a leader's commit only, so the leader is never empty.
FenceToken == [leader : Node, epoch : Epoch, revision : Revision,
               digest : Payload \cup {NoPayload}, nonce : Nonce]

FenceOf(c) == [leader |-> c.state.leader, epoch |-> c.state.epoch,
               revision |-> c.state.revision, digest |-> c.state.desired,
               nonce |-> c.nonce]

EmptyLedger == [n \in Nonce |-> 0]
Frozen(s) == s.freeze # "open"
Freeze(s, kind) == [s EXCEPT !.freeze = kind]

\* validNonceLedger: the used nonces are numbered 1 .. revision, one each.
ValidLedger(ledger, revision) ==
  /\ \A n \in Nonce : ledger[n] \in 0 .. revision
  /\ \A r \in 1 .. revision : \E n \in Nonce : ledger[n] = r
  /\ \A m, n \in Nonce : ledger[m] = ledger[n] /\ ledger[m] # 0 => m = n

\* nonceLedgerExtends, nonceLedgerExtendsCurrent and validateTransition.
LedgerExtends(current, next, nonce, revision) ==
  /\ revision # 0
  /\ current[nonce] = 0
  /\ next = [current EXCEPT ![nonce] = revision]

\* startupPayloadEquivalent, sameNativePayload.
SamePayload(a, b) ==
  a.revision = b.revision /\ a.desired = b.desired /\ a.ledger = b.ledger

SameLeadership(a, b) ==
  a.leader = b.leader /\ a.term = b.term /\ a.epoch = b.epoch

\* stateCarriesExactCommit: equality that ignores the local freeze overlay.
CarriesExactCommit(s, c) ==
  /\ SameLeadership(s, c.state)
  /\ SamePayload(s, c.state)
  /\ s.ledger[c.nonce] = s.revision

-------------------------------------------------------------------------------
(* The machine *)

\* A partial map updated at one key, and the empty partial map.
Put(f, k, v) == [x \in DOMAIN f \cup {k} |-> IF x = k THEN v ELSE f[x]]
NoEntries == [r \in {} |-> NoPayload]

NewState == [leader |-> NoNode, term |-> 0, epoch |-> 0, revision |-> 0,
             desired |-> NoPayload, freeze |-> "closed", ledger |-> EmptyLedger]

NewMachine == [state |-> NewState, committed |-> NewState,
               fences |-> NoEntries, committedFences |-> NoEntries,
               nonces |-> EmptyLedger, proposals |-> NoEntries]

\* Mutant: only the working state is frozen.
FreezeWritesWorkingOnly(m, kind) == [m EXCEPT !.state = Freeze(@, kind)]

FreezeWrites(m, kind) ==
  [m EXCEPT !.state = Freeze(@, kind), !.committed = Freeze(@, kind)]

LeadershipIsOld(m, t, l) ==
  t < m.state.term \/ (t = m.state.term /\ l = m.state.leader)

LeadershipConflicts(m, t, l) == t = m.state.term /\ l # m.state.leader

\* Mutant: a promoted proposal is fenced although no commit was confirmed.
AdvanceLeadershipFenced(m, t, l) ==
  LET next   == [m.state EXCEPT !.leader = l, !.term = t, !.epoch = @ + 1,
                                !.freeze = "open", !.ledger = m.nonces]
      fences == Put(NoEntries, next.revision, next.desired)
  IN [state |-> next, committed |-> next, fences |-> fences,
      committedFences |-> fences, nonces |-> m.nonces, proposals |-> NoEntries]

\* A frozen machine drops an uncommitted proposal; an open one keeps it, and
\* the working state becomes the committed one.
AdvanceLeadership(m, t, l) ==
  LET drop   == Frozen(m.state) /\ m.committed.revision # m.state.revision
      base   == IF drop THEN m.committed ELSE m.state
      ledger == IF drop THEN m.committed.ledger ELSE m.nonces
      reopen == \/ ~Frozen(m.state)
                \/ m.committed.revision = 0
                \/ m.state.freeze = "unavailable"
      next   == [leader |-> l, term |-> t, epoch |-> base.epoch + 1,
                 revision |-> base.revision, desired |-> base.desired,
                 freeze |-> IF reopen THEN "open" ELSE m.state.freeze,
                 ledger |-> ledger]
  IN [state |-> next, committed |-> next, fences |-> NoEntries,
      committedFences |-> NoEntries, nonces |-> ledger, proposals |-> NoEntries]

\* InstallLeadership returns an error, or the (possibly unchanged) machine.
InstallLeadershipFails(m, t, l) ==
  /\ ~LeadershipIsOld(m, t, l)
  /\ LeadershipConflicts(m, t, l) \/ m.state.epoch = MaxEpoch

\* Mutant: the epoch is incremented without the overflow check.
InstallLeadershipUnchecked(m, t, l) ==
  IF LeadershipIsOld(m, t, l) \/ LeadershipConflicts(m, t, l) THEN m
  ELSE AdvanceLeadership(m, t, l)

InstallLeadership(m, t, l) ==
  IF LeadershipIsOld(m, t, l) \/ LeadershipConflicts(m, t, l) THEN m
  ELSE IF m.state.epoch = MaxEpoch THEN FreezeWrites(m, "closed")
  ELSE AdvanceLeadership(m, t, l)

ValidateFence(m, token) ==
  /\ token.leader = m.committed.leader
  /\ token.epoch = m.committed.epoch
  /\ token.revision \in 1 .. m.committed.revision
  /\ token.revision \in DOMAIN m.committedFences
  /\ m.committedFences[token.revision] = token.digest
  /\ m.nonces[token.nonce] = token.revision

ValidateResumeFence(m, token) ==
  token.revision = m.committed.revision /\ ValidateFence(m, token)

ResumeWrites(m) ==
  [m EXCEPT !.state = Freeze(@, "open"), !.committed = Freeze(@, "open")]

CanPropose(m, l, e, r, n) ==
  /\ ~Frozen(m.state)
  /\ l = m.state.leader
  /\ e = m.state.epoch
  /\ r = m.state.revision
  /\ m.nonces[n] = 0

ProposedCommit(m, p, n) ==
  LET r == m.state.revision + 1
  IN [state |-> [m.state EXCEPT !.revision = r, !.desired = p,
                                !.ledger = [m.nonces EXCEPT ![n] = r]],
      nonce |-> n]

\* Mutants: the nonce is not recorded; a proposal is fenced as if committed.
ProposeKeepsNonce(m, p, n) ==
  LET c == ProposedCommit(m, p, n)
      r == c.state.revision
  IN [m EXCEPT !.state = c.state, !.fences = Put(@, r, p),
               !.proposals = Put(@, r, c)]

ProposeFenced(m, p, n) ==
  LET c == ProposedCommit(m, p, n)
      r == c.state.revision
  IN [m EXCEPT !.state = c.state, !.fences = Put(@, r, p),
               !.committedFences = Put(@, r, p),
               !.nonces = c.state.ledger, !.proposals = Put(@, r, c)]

Propose(m, p, n) ==
  LET c == ProposedCommit(m, p, n)
      r == c.state.revision
  IN [m EXCEPT !.state = c.state, !.fences = Put(@, r, p),
               !.nonces = c.state.ledger, !.proposals = Put(@, r, c)]

\* validateCommitLocked: a commit this machine proposed, or the exact one it
\* holds as committed.
ValidateCommit(m, c) ==
  LET r == c.state.revision
  IN /\ r \in 1 .. m.state.revision
     /\ c.state.desired # NoPayload
     /\ ~Frozen(c.state)
     /\ ValidLedger(c.state.ledger, r)
     /\ SameLeadership(c.state, m.state)
     /\ r \in DOMAIN m.fences /\ m.fences[r] = c.state.desired
     /\ m.nonces[c.nonce] = r
     /\ \A n \in Nonce : c.state.ledger[n] # 0 => m.nonces[n] = c.state.ledger[n]
     /\ \/ r \in DOMAIN m.proposals /\ m.proposals[r] = c
        \/ /\ r \notin DOMAIN m.proposals
           /\ r = m.committed.revision /\ CarriesExactCommit(m.committed, c)

\* ClaimCurrentCommit: the test a materializer makes before it starts I/O.
ClaimCurrentCommit(m, c) ==
  /\ ValidateCommit(m, c)
  /\ c.state.revision = m.committed.revision
  /\ CarriesExactCommit(m.committed, c)
  /\ c.state.revision \in DOMAIN m.committedFences
  /\ m.committedFences[c.state.revision] = c.state.desired

\* Mutant: the content of a snapshot is not compared with its revision.
WellFormedSnapshotOpen(s) ==
  /\ ValidLedger(s.ledger, s.revision)
  /\ IF s.leader = NoNode THEN s.term = 0 /\ s.epoch = 0 /\ Frozen(s)
                          ELSE s.term > 0 /\ s.epoch > 0

\* loadSnapshot, the checks that only look at the snapshot.
WellFormedSnapshot(s) ==
  /\ s.revision = 0 <=> s.desired = NoPayload
  /\ ValidLedger(s.ledger, s.revision)
  /\ IF s.leader = NoNode THEN s.term = 0 /\ s.epoch = 0 /\ Frozen(s)
                          ELSE s.term > 0 /\ s.epoch > 0

\* Mutants: the epoch, the content of the current revision are not compared.
CanLoadSnapshotAnyEpoch(m, s) ==
  WellFormedSnapshot(s) /\ s.revision >= m.committed.revision

CanLoadSnapshotAnyPayload(m, s) ==
  LET current == m.committed
  IN /\ WellFormedSnapshot(s)
     /\ s.revision >= current.revision /\ s.epoch >= current.epoch
     /\ s.epoch = current.epoch => SameLeadership(s, current)
     /\ s.epoch > current.epoch => s.term > current.term

\* loadSnapshot, the checks against the committed state.
CanLoadSnapshot(m, s) ==
  LET current == m.committed
  IN /\ WellFormedSnapshot(s)
     /\ s.revision >= current.revision /\ s.epoch >= current.epoch
     /\ s.epoch = current.epoch => SameLeadership(s, current)
     /\ s.epoch > current.epoch => s.term > current.term
     /\ s.revision = current.revision /\ s.revision > 0 => SamePayload(s, current)

CanLoadSnapshotIfCurrent(m, expected, s) ==
  SameLeadership(m.committed, expected) /\ CanLoadSnapshot(m, s)

\* Mutant: proposals of the old leadership survive the load.
LoadSnapshotKeepsProposals(m, s) ==
  LET loaded == IF Frozen(m.state) THEN Freeze(s, m.state.freeze) ELSE s
      seeded == IF s.revision > 0 THEN Put(NoEntries, s.revision, s.desired)
                                  ELSE NoEntries
  IN [state |-> loaded, committed |-> loaded, fences |-> seeded,
      committedFences |-> seeded, nonces |-> s.ledger, proposals |-> m.proposals]

LoadSnapshot(m, s) ==
  LET loaded == IF Frozen(m.state) THEN Freeze(s, m.state.freeze) ELSE s
      seeded == IF s.revision > 0 THEN Put(NoEntries, s.revision, s.desired)
                                  ELSE NoEntries
  IN [state |-> loaded, committed |-> loaded, fences |-> seeded,
      committedFences |-> seeded, nonces |-> s.ledger, proposals |-> NoEntries]

InstallCommit(m, c) ==
  LET s == Freeze(c.state, m.state.freeze)
      newer == s.revision >= m.committed.revision
  IN [m EXCEPT !.committed = IF newer THEN s ELSE @,
               !.committedFences = IF newer THEN Put(@, s.revision, s.desired) ELSE @,
               !.state = IF Frozen(@) \/ s.revision >= @.revision THEN s ELSE @]
===============================================================================
