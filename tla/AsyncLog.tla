------------------------------ MODULE AsyncLog ------------------------------
(***************************************************************************)
(* asyncLogWriter (internal/storage/log_sink/async.go): a bounded queue of *)
(* log entries, one worker that writes them to a remote backend in         *)
(* batches, Flush barriers that carry the failures of the writes before    *)
(* them to their callers, and Close, which may give up on the worker.      *)
(*                                                                         *)
(* An action is one critical section of the writer's mutex, or the end of  *)
(* a backend call.  An entry is its size.  The dropped counter and the     *)
(* alerts are telemetry and are left out, as is a refused Write, which     *)
(* changes nothing else.  All sinks of the program set writeBatch.         *)
(***************************************************************************)
EXTENDS Naturals, Sequences, FiniteSets

CONSTANTS FlushCall, CloseCall,   \* calls of Flush and of Close, each made once
          NoBarrier,
          QueueSize, QueueBytes, BatchSize,
          Size,                   \* the sizes of entries
          MaxWrites               \* bound on the accepted writes

ASSUME AsyncLogAssumption ==
  /\ NoBarrier \notin FlushCall
  /\ QueueSize \in Nat \ {0} /\ QueueBytes \in Nat \ {0} /\ BatchSize \in Nat \ {0}
  /\ Size \subseteq Nat \ {0} /\ MaxWrites \in Nat

VARIABLES
  operations,  \* the queue
  w,           \* the counters and flags of asyncLogWriter
  barrier,     \* asyncLogBarrier by the Flush call that created it
  worker,      \* the worker goroutine: where it is, its batch, its barrier
  flush,       \* the Flush calls
  closer,      \* the Close calls
  lost,        \* history: sequence numbers of the writes that failed
  told         \* history: the failures, by number, that a Flush call returned

vars == <<operations, w, barrier, worker, flush, closer, lost, told>>

WriteOp(seq, size) == [kind |-> "write", seq |-> seq, size |-> size, barrier |-> NoBarrier]
FlushOp(seq, b) == [kind |-> "flush", seq |-> seq, size |-> 0, barrier |-> b]
CloseOp(seq) == [kind |-> "close", seq |-> seq, size |-> 0, barrier |-> NoBarrier]

NewBarrier(target, base, predecessor) ==
  [target |-> target, baseFailed |-> base, failedAtTarget |-> 0,
   predecessor |-> predecessor, done |-> FALSE, acknowledged |-> FALSE,
   settled |-> FALSE, waiters |-> 0]

Init ==
  /\ operations = <<>>
  /\ w = [queuedWrites |-> 0, pending |-> 0, pendingBytes |-> 0, acceptedSeq |-> 0,
          latestBarrier |-> NoBarrier, ackedFailures |-> 0, failed |-> 0,
          closing |-> FALSE, cancelled |-> FALSE, closeFinished |-> FALSE,
          closeFrom |-> 0]
  /\ barrier = [c \in FlushCall |-> NewBarrier(0, 0, NoBarrier)]
  /\ worker = [pc |-> "next", batch |-> <<>>, barrier |-> NoBarrier]
  /\ flush = [c \in FlushCall |-> [pc |-> "idle", barrier |-> NoBarrier]]
  /\ closer = [c \in CloseCall |-> "idle"]
  /\ lost = {} /\ told = {}

-------------------------------------------------------------------------------
(* Callers *)

\* The admission of Write; the two preflights before it refuse no less.
Write(size) ==
  /\ w.acceptedSeq < MaxWrites
  /\ ~w.closing
  /\ w.queuedWrites < QueueSize
  /\ w.pendingBytes + size <= QueueBytes
  /\ operations' = Append(operations, WriteOp(w.acceptedSeq + 1, size))
  /\ w' = [w EXCEPT !.acceptedSeq = @ + 1, !.queuedWrites = @ + 1,
                    !.pending = @ + 1, !.pendingBytes = @ + size]
  /\ UNCHANGED <<barrier, worker, flush, closer, lost, told>>

\* A new caller may share the latest barrier.
SharesBarrier ==
  LET b == w.latestBarrier
  IN /\ b # NoBarrier
     /\ barrier[b].target = w.acceptedSeq
     /\ ~barrier[b].acknowledged /\ ~barrier[b].settled

\* Flush joins the latest barrier, or queues a new one.
FlushCreates(c) ==
  /\ flush[c].pc = "idle" /\ ~w.closing /\ ~SharesBarrier
  /\ barrier' = [barrier EXCEPT ![c] =
                   [NewBarrier(w.acceptedSeq, w.ackedFailures, w.latestBarrier)
                      EXCEPT !.waiters = 1]]
  /\ w' = [w EXCEPT !.latestBarrier = c]
  /\ operations' = Append(operations, FlushOp(w.acceptedSeq, c))
  /\ flush' = [flush EXCEPT ![c] = [pc |-> "waiting", barrier |-> c]]
  /\ UNCHANGED <<worker, closer, lost, told>>

FlushJoins(c) ==
  /\ flush[c].pc = "idle" /\ ~w.closing /\ SharesBarrier
  /\ barrier' = [barrier EXCEPT ![w.latestBarrier].waiters = @ + 1]
  /\ flush' = [flush EXCEPT ![c] = [pc |-> "waiting", barrier |-> w.latestBarrier]]
  /\ UNCHANGED <<operations, w, worker, closer, lost, told>>

\* The select of Flush: the barrier is done, or the context is and the barrier
\* is not.
FlushSelects(c) ==
  /\ flush[c].pc = "waiting"
  /\ flush' = [flush EXCEPT ![c].pc =
                 IF barrier[flush[c].barrier].done THEN "completed" ELSE "cancelled"]
  /\ UNCHANGED <<operations, w, barrier, worker, closer, lost, told>>

\* Mutant: a caller that gave up acknowledges as well.
FlushReturnsAcking(c) ==
  LET b == flush[c].barrier
      left == barrier[b].waiters - 1
      completed == flush[c].pc = "completed"
  IN /\ flush[c].pc \in {"completed", "cancelled"}
     /\ flush' = [flush EXCEPT ![c].pc = "returned"]
     /\ barrier' = [barrier EXCEPT ![b].waiters = left,
                                   ![b].acknowledged = TRUE,
                                   ![b].settled = @ \/ left = 0]
     /\ w' = [w EXCEPT !.ackedFailures =
                IF barrier[b].failedAtTarget > @ THEN barrier[b].failedAtTarget ELSE @]
     /\ told' = told \cup (IF completed
                             THEN barrier[b].baseFailed + 1 .. barrier[b].failedAtTarget
                             ELSE {})
     /\ UNCHANGED <<operations, worker, closer, lost>>

\* Mutant: only a caller that was answered lets the worker go on.
FlushReturnsUnsettled(c) ==
  LET b == flush[c].barrier
      left == barrier[b].waiters - 1
      completed == flush[c].pc = "completed"
  IN /\ flush[c].pc \in {"completed", "cancelled"}
     /\ flush' = [flush EXCEPT ![c].pc = "returned"]
     /\ barrier' = [barrier EXCEPT ![b].waiters = left,
                                   ![b].acknowledged = @ \/ completed,
                                   ![b].settled = @ \/ (completed /\ left = 0)]
     /\ w' = [w EXCEPT !.ackedFailures =
                IF completed /\ barrier[b].failedAtTarget > @
                  THEN barrier[b].failedAtTarget ELSE @]
     /\ told' = told \cup (IF completed
                             THEN barrier[b].baseFailed + 1 .. barrier[b].failedAtTarget
                             ELSE {})
     /\ UNCHANGED <<operations, worker, closer, lost>>

\* The deferred section of Flush, then its return.
FlushReturns(c) ==
  LET b == flush[c].barrier
      left == barrier[b].waiters - 1
      completed == flush[c].pc = "completed"
  IN /\ flush[c].pc \in {"completed", "cancelled"}
     /\ flush' = [flush EXCEPT ![c].pc = "returned"]
     /\ barrier' = [barrier EXCEPT ![b].waiters = left,
                                   ![b].acknowledged = @ \/ completed,
                                   ![b].settled = @ \/ left = 0]
     /\ w' = [w EXCEPT !.ackedFailures =
                IF completed /\ barrier[b].failedAtTarget > @
                  THEN barrier[b].failedAtTarget ELSE @]
     /\ told' = told \cup (IF completed
                             THEN barrier[b].baseFailed + 1 .. barrier[b].failedAtTarget
                             ELSE {})
     /\ UNCHANGED <<operations, worker, closer, lost>>

\* Close queues the close operation once and waits for the worker.
Close(c) ==
  /\ closer[c] = "idle"
  /\ closer' = [closer EXCEPT ![c] = "waiting"]
  /\ w' = [w EXCEPT !.closing = TRUE]
  /\ operations' = IF w.closing THEN operations
                                ELSE Append(operations, CloseOp(w.acceptedSeq))
  /\ UNCHANGED <<barrier, worker, flush, lost, told>>

CloseReturns(c) ==
  /\ closer[c] = "waiting" /\ worker.pc = "done"
  /\ closer' = [closer EXCEPT ![c] = "returned"]
  /\ UNCHANGED <<operations, w, barrier, worker, flush, lost, told>>

\* The timer fires first.  Unless the result is there by now, the worker's
\* context is cancelled (which also stands for closeTimeoutErr).
CloseTimesOut(c) ==
  /\ closer[c] = "waiting" /\ worker.pc # "done"
  /\ closer' = [closer EXCEPT ![c] = "returned"]
  /\ w' = [w EXCEPT !.cancelled = @ \/ ~w.closeFinished]
  /\ UNCHANGED <<operations, barrier, worker, flush, lost, told>>

-------------------------------------------------------------------------------
(* The worker *)

\* Mutant: every operation counts as a write.
DequeuedAny(op) == [w EXCEPT !.queuedWrites = @ - 1]

\* nextOperation counts the writes that leave the queue.
Dequeued(op) == [w EXCEPT !.queuedWrites = IF op.kind = "write" THEN @ - 1 ELSE @]

\* nextOperation.
NextOperation ==
  LET op == Head(operations)
  IN /\ worker.pc = "next" /\ operations # <<>>
     /\ operations' = Tail(operations)
     /\ w' = Dequeued(op)
     /\ worker' = [pc |-> op.kind, batch |-> IF op.kind = "write" THEN <<op>> ELSE <<>>,
                   barrier |-> op.barrier]
     /\ UNCHANGED <<barrier, flush, closer, lost, told>>

\* How many of the queued operations are writes that come before any barrier.
LeadingWrites ==
  LET others == {i \in DOMAIN operations : operations[i].kind # "write"}
  IN IF others = {} THEN Len(operations) ELSE (CHOOSE i \in others : \A j \in others : i <= j) - 1

\* Mutant: the batch takes writes from behind a barrier.
TakeWriteBatchAcross ==
  LET writes == SelectSeq(operations, LAMBDA o : o.kind = "write")
      more == IF BatchSize - 1 < Len(writes) THEN BatchSize - 1 ELSE Len(writes)
      taken == {writes[i] : i \in 1 .. more}
  IN /\ worker.pc = "write"
     /\ worker' = [worker EXCEPT !.pc = IF w.cancelled THEN "failing" ELSE "writing",
                                 !.batch = @ \o SubSeq(writes, 1, more)]
     /\ operations' = SelectSeq(operations, LAMBDA o : o \notin taken)
     /\ w' = [w EXCEPT !.queuedWrites = @ - more]
     /\ UNCHANGED <<barrier, flush, closer, lost, told>>

\* takeWriteBatch, then the test of the worker's context.
TakeWriteBatch ==
  LET more == IF BatchSize - 1 < LeadingWrites THEN BatchSize - 1 ELSE LeadingWrites
  IN /\ worker.pc = "write"
     /\ worker' = [worker EXCEPT !.pc = IF w.cancelled THEN "failing" ELSE "writing",
                                 !.batch = @ \o SubSeq(operations, 1, more)]
     /\ operations' = SubSeq(operations, more + 1, Len(operations))
     /\ w' = [w EXCEPT !.queuedWrites = @ - more]
     /\ UNCHANGED <<barrier, flush, closer, lost, told>>

\* The bytes of operations; a barrier or a close has none.
Bytes(ops) ==
  LET sum[i \in 0 .. Len(ops)] == IF i = 0 THEN 0 ELSE sum[i - 1] + ops[i].size
  IN sum[Len(ops)]

\* Mutant: a batch that failed keeps its bytes.
FinishWriteBatchKeepsBytes(ok) ==
  LET batch == worker.batch
  IN /\ worker.pc = "writing" \/ (worker.pc = "failing" /\ ~ok)
     /\ w' = [w EXCEPT !.failed = IF ok THEN @ ELSE @ + Len(batch),
                       !.pending = @ - Len(batch),
                       !.pendingBytes = IF ok THEN @ - Bytes(batch) ELSE @]
     /\ lost' = IF ok THEN lost ELSE lost \cup {batch[i].seq : i \in DOMAIN batch}
     /\ worker' = [worker EXCEPT !.pc = "next", !.batch = <<>>]
     /\ UNCHANGED <<operations, barrier, flush, closer, told>>

\* The backend answered, or was not asked because the context is cancelled:
\* finishWriteBatch.  A batch fails as a whole.
FinishWriteBatch(ok) ==
  LET batch == worker.batch
  IN /\ worker.pc = "writing" \/ (worker.pc = "failing" /\ ~ok)
     /\ w' = [w EXCEPT !.failed = IF ok THEN @ ELSE @ + Len(batch),
                       !.pending = @ - Len(batch),
                       !.pendingBytes = IF Bytes(batch) > @ THEN 0 ELSE @ - Bytes(batch)]
     /\ lost' = IF ok THEN lost ELSE lost \cup {batch[i].seq : i \in DOMAIN batch}
     /\ worker' = [worker EXCEPT !.pc = "next", !.batch = <<>>]
     /\ UNCHANGED <<operations, barrier, flush, closer, told>>

\* Mutant: the barrier keeps the range it was created with.
RunFlushStale ==
  LET b == worker.barrier
  IN /\ worker.pc = "flush"
     /\ barrier' = [barrier EXCEPT ![b].failedAtTarget = w.failed,
                                   ![b].predecessor = NoBarrier]
     /\ worker' = [worker EXCEPT !.pc = "flushing"]
     /\ UNCHANGED <<operations, w, flush, closer, lost, told>>

\* runFlush, the locked section: the range of failures this barrier reports.
RunFlush ==
  LET b == worker.barrier
      p == barrier[b].predecessor
      base == IF /\ p # NoBarrier /\ barrier[p].acknowledged
                 /\ barrier[p].failedAtTarget > barrier[b].baseFailed
                THEN barrier[p].failedAtTarget ELSE barrier[b].baseFailed
  IN /\ worker.pc = "flush"
     /\ barrier' = [barrier EXCEPT ![b].baseFailed = base,
                                   ![b].failedAtTarget = w.failed,
                                   ![b].predecessor = NoBarrier]
     /\ worker' = [worker EXCEPT !.pc = "flushing"]
     /\ UNCHANGED <<operations, w, flush, closer, lost, told>>

\* The backend's flush returned: close(barrier.done).
FlushDone ==
  /\ worker.pc = "flushing"
  /\ barrier' = [barrier EXCEPT ![worker.barrier].done = TRUE]
  /\ worker' = [worker EXCEPT !.pc = "acking"]
  /\ UNCHANGED <<operations, w, flush, closer, lost, told>>

\* <-barrier.ackDone.
FlushAcked ==
  /\ worker.pc = "acking" /\ barrier[worker.barrier].settled
  /\ worker' = [worker EXCEPT !.pc = "next", !.barrier = NoBarrier]
  /\ UNCHANGED <<operations, w, barrier, flush, closer, lost, told>>

\* runClose after the backend's flush and close: closeErr reports the failures
\* after closeFrom.
RunClose ==
  /\ worker.pc = "close"
  /\ w' = [w EXCEPT !.closeFinished = TRUE, !.closeFrom = w.ackedFailures]
  /\ worker' = [worker EXCEPT !.pc = "closed"]
  /\ UNCHANGED <<operations, barrier, flush, closer, lost, told>>

\* The deferred end of run: close(workerDone).
WorkerEnds ==
  /\ worker.pc = "closed"
  /\ w' = [w EXCEPT !.cancelled = TRUE]
  /\ worker' = [worker EXCEPT !.pc = "done"]
  /\ UNCHANGED <<operations, barrier, flush, closer, lost, told>>

Worker == \/ NextOperation \/ TakeWriteBatch \/ RunFlush \/ FlushDone \/ FlushAcked
          \/ RunClose \/ WorkerEnds
          \/ \E ok \in BOOLEAN : FinishWriteBatch(ok)

Next == \/ \E size \in Size : Write(size)
        \/ \E c \in FlushCall : \/ FlushCreates(c) \/ FlushJoins(c)
                                \/ FlushSelects(c) \/ FlushReturns(c)
        \/ \E c \in CloseCall : Close(c) \/ CloseReturns(c) \/ CloseTimesOut(c)
        \/ Worker

Spec == Init /\ [][Next]_vars

\* The worker runs and backend calls return (they have a deadline, and run must
\* be let return); a caller whose channel is ready runs.  No context or timer is
\* assumed to expire.
Fairness ==
  /\ WF_vars(Worker)
  /\ \A c \in FlushCall : WF_vars(FlushReturns(c))
                          /\ WF_vars(flush[c].pc = "waiting"
                                     /\ barrier[flush[c].barrier].done /\ FlushSelects(c))
  /\ \A c \in CloseCall : WF_vars(CloseReturns(c))

FairSpec == Spec /\ Fairness

-------------------------------------------------------------------------------
(* Properties *)

OpOK(op) == op.kind \in {"write", "flush", "close"} /\ op.seq \in 0 .. MaxWrites

\* Every variable holds what the code's types allow.
TypeOK ==
  /\ \A i \in DOMAIN operations : OpOK(operations[i])
  /\ \A f \in {"queuedWrites", "pending", "pendingBytes", "acceptedSeq",
               "ackedFailures", "failed", "closeFrom"} : w[f] \in Nat
  /\ {w.closing, w.cancelled, w.closeFinished} \subseteq BOOLEAN
  /\ w.latestBarrier \in FlushCall \cup {NoBarrier}
  /\ \A c \in FlushCall :
       /\ barrier[c].waiters \in Nat /\ barrier[c].target \in 0 .. MaxWrites
       /\ barrier[c].predecessor \in FlushCall \cup {NoBarrier}
       /\ flush[c].pc \in {"idle", "waiting", "completed", "cancelled", "returned"}
  /\ worker.pc \in {"next", "write", "writing", "failing", "flush", "flushing",
                    "acking", "close", "closed", "done"}

\* async.go:239, 548: the counters that admit a Write are exact: what is queued
\* and what the worker holds, never above the configured capacities, so that a
\* queue that drained admits again.
CapacityIsExact ==
  /\ w.queuedWrites = Cardinality({i \in DOMAIN operations : operations[i].kind = "write"})
  /\ w.queuedWrites <= QueueSize
  /\ w.pending = w.queuedWrites + Len(worker.batch)
  /\ w.pendingBytes = Bytes(operations) + Bytes(worker.batch)
  /\ w.pendingBytes <= QueueBytes

\* async.go:298, 570: a barrier is answered when every write accepted before it
\* has been tried, and counts exactly the failures of those writes.
BarrierIsExact ==
  \A c \in FlushCall :
    barrier[c].done =>
      /\ \A i \in DOMAIN operations :
           operations[i].kind = "write" => operations[i].seq > barrier[c].target
      /\ barrier[c].failedAtTarget =
           Cardinality({s \in lost : s <= barrier[c].target})

\* async.go:327, 612: no failure is lost: one that counts as acknowledged was
\* returned to a Flush call that completed, and once the writer has closed every
\* other one is in the error of Close.
FailuresAreReported ==
  /\ w.failed = Cardinality(lost)
  /\ 1 .. w.ackedFailures \subseteq told
  /\ w.closeFinished => 1 .. w.failed \subseteq told \cup (w.closeFrom + 1 .. w.failed)

\* async.go:592: neither a cancelled nor a shared Flush leaves the worker or a
\* caller waiting: each Flush returns, and a writer that is closed ends.
CallsEnd ==
  /\ \A c \in FlushCall : flush[c].pc = "waiting" ~> flush[c].pc = "returned"
  /\ w.closing ~> worker.pc = "done"

\* async.go:565: a barrier queued while an earlier one was unanswered does not
\* report again what the earlier one's callers have acknowledged, unless some
\* barrier in between was given up by all its callers.
AcknowledgedIsNotRepeated ==
  (/\ worker.pc = "flushing"
   /\ \A c \in FlushCall : barrier[c].settled => barrier[c].acknowledged)
  => barrier[worker.barrier].baseFailed >= w.ackedFailures
=============================================================================
