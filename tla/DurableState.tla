---------------------------- MODULE DurableState ----------------------------
(***************************************************************************)
(* The PostgreSQL control-plane store (internal/controlplane/postgres) as  *)
(* functions on a record: "row" is the row of cheesewaf_controlplane_state *)
(* (NewState when the table is empty), "commits" the rows of               *)
(* cheesewaf_controlplane_commits.  Each method is one transaction under   *)
(* the cluster's advisory lock, so it is atomic.                           *)
(***************************************************************************)
EXTENDS ControlState

EmptyDb == [row |-> NewState, commits |-> {}]

\* validateCommitFields.
ValidCommitFields(c) ==
  /\ c.state.revision > 0 /\ c.state.epoch > 0 /\ c.state.term > 0
  /\ c.state.leader # NoNode
  /\ c.state.desired # NoPayload
  /\ ~Frozen(c.state)
  /\ c.state.ledger[c.nonce] = c.state.revision
  /\ ValidLedger(c.state.ledger, c.state.revision)

\* validateTransition against the current row.
ValidTransition(row, c) ==
  LET next == c.state
  IN /\ next.term >= row.term /\ next.epoch >= row.epoch
     /\ ~Frozen(row)
     /\ next.revision = row.revision + 1
     /\ row.revision > 0 /\ next.epoch = row.epoch => SameLeadership(next, row)
     /\ row.revision > 0 /\ next.epoch > row.epoch => next.term > row.term
     /\ LedgerExtends(row.ledger, next.ledger, c.nonce, next.revision)

SameKey(a, b) ==
  a.state.epoch = b.state.epoch /\ a.state.revision = b.state.revision
  /\ a.nonce = b.nonce

\* A second append of the exact commit succeeds and writes nothing; a different
\* commit under an existing (epoch, revision, nonce) is a conflict.
AlreadyAppended(db, c) ==
  ValidCommitFields(c) /\ c \in db.commits

\* The INSERT path, with UNIQUE (cluster_id, revision) and (cluster_id, nonce).
CanInsert(db, c) ==
  /\ ValidCommitFields(c)
  /\ \A d \in db.commits : ~SameKey(d, c)
  /\ IF db.row.revision = 0 /\ db.commits = {}
       THEN c.state.revision = 1
       ELSE ValidTransition(db.row, c)
  /\ \A d \in db.commits : d.state.revision # c.state.revision /\ d.nonce # c.nonce

AppendSucceeds(db, c) == AlreadyAppended(db, c) \/ CanInsert(db, c)

AppendCommit(db, c) ==
  IF CanInsert(db, c) THEN [row |-> c.state, commits |-> db.commits \cup {c}]
                      ELSE db

\* CheckpointLeadership and validateLeadershipCheckpointTransition.
CheckpointSucceeds(db, next) ==
  LET row == db.row
  IN /\ next.revision # 0
     /\ SamePayload(next, row)
     /\ next.leader # NoNode /\ next.term > 0 /\ next.epoch > 0 /\ ~Frozen(next)
     /\ next.epoch >= row.epoch /\ next.term >= row.term
     /\ next.epoch = row.epoch => SameLeadership(next, row)
     /\ next.epoch > row.epoch => next.term > row.term

CheckpointLeadership(db, next) == [db EXCEPT !.row = next]
===============================================================================
