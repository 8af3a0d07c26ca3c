# TLA+ verification of CheeseWAF

CheeseWAF is a web application firewall. Its data plane inspects requests; its
control plane decides which protection policy the data plane enforces, replicates
that decision with native raft, makes it durable in PostgreSQL, and materializes
it on each node as YAML and running configuration. This project models the control
plane, where concurrency, crashes and partial failures meet, the approval gate that
lets dangerous operations through, the durable queue of diagnostic uploads and the
asynchronous writer of the log sinks. Paths below are relative to the repository (`src/`).

## 1. Inventory

### The parts and their state

| Part | Source | State | Operations |
|---|---|---|---|
| State machine | `internal/controlplane/state.go` | working `state`, `committed` state, `fences`, `committedFences`, `nonces`, `proposals`, one mutex | InstallLeadership, FreezeWrites, ResumeWrites, Propose, LoadSnapshot, LoadSnapshotIfCurrent, InstallCommit; ValidateFence, ValidateCommit, ClaimCurrentCommit read it |
| PostgreSQL store | `internal/controlplane/postgres/store.go` | one state row and one commit table per cluster | AppendCommit, CheckpointLeadership, LoadState, each one transaction under an advisory lock |
| Native-raft runtime | `internal/controlplane/nativeraft/runtime.go` | the raft node, its log, `consensusState`, `lastCommit`, a buffered NotifyCh | FSM Apply, leadership observer, Propose, Establish, CheckpointLeadership, Health |
| Coordinator | `internal/controlplane/coordinator.go` | a mutex; the stages of one commit | ProposeAndApply, Apply, Initialize, LoadSnapshot, ResumeWrites |
| Bootstrap | `internal/controlplane/startup.go` | the locals of one start | load durable, wait for consensus, recover a commit PostgreSQL lacks, checkpoint leadership, fence, install, resume |
| Policy consumer | `internal/cli/protection_policy_consumer.go` | the failure latch `failed`, previews | ProposeAndApply, applyStartup |
| Materializer | `internal/controlplane/materializer/*.go` | mirrored journal and LKG files, baseline, runtime receipt, directory lease | ApplyCommitted |
| Materializer adapter, handler | `internal/cli/materializer_adapter.go`, `internal/api/handler/{protection_runtime,handler,site}.go` | YAML file, published configuration, data-plane policy | Query, Apply, PersistMaterializedConfig, PublishMaterializedConfig, configuration edits |
| Log sink | `internal/storage/log_sink/async.go` | bounded queue, chained flush barriers, byte and failure counters, one worker | Write, Flush, Close; the worker's nextOperation, takeWriteBatch, finishWriteBatch, runFlush, runClose |
| Approval gate | `internal/approval/{gate.go,postgres/store.go,runtime/service.go}`, the lookup of `internal/api/handler/cluster.go` | per process: records, used confirmation IDs, their owners, event counts, epoch; in PostgreSQL: epoch, records, events | Submit, Confirm, Revoke, ConsumeAuthorization, AdvanceEpoch, Restore, Open |
| Diagnostics queue | `internal/diagnostics/{queue/store.go,integration/runtime.go,envelope/replay.go}` | `state.json` with the entries, objects named by digest, a memory copy, one worker, a replay guard | Enqueue, Retry, Cancel, Delete, Pause, Resume, Purge, Status and the like, NewStore; the worker's Claim, handler and Complete |
| Others | audit journal, netlease, crp, cwedp, tokens, Redis adapter, rolling deployment, timekeeper, detection engine, proxy, API, console | see `PROJECT.json` | |

### How they interact

A policy write runs in the API process of the leader: the consumer takes the
committed state as its compare-and-swap baseline, the state machine makes a commit
with a fence token and a one-time nonce, the coordinator sends the commit through
raft, then appends it to PostgreSQL, then installs it in the machine, and the
materializer writes journal, baseline, YAML, data plane and last-known-good record.
Meanwhile the raft FSM, on its own goroutine, loads every applied commit into the
same machine, and the leadership observer freezes it or puts "leadership" entries
into the log. A start runs Bootstrap against the same machine while the FSM replays.

### What is hard

Three goroutines share the machine and each takes its lock for one method only;
leadership may change between any two of these methods. PostgreSQL and raft are two
stores without a common transaction: an append may fail, or succeed and lose its
answer. Notices of leadership changes are buffered and read late. A process may die
between any two file writes of the materializer, and a runtime callback may outlive
the call that started it. Callers of the log writer give up, share a barrier or
close while the worker waits for them. Several processes hold copies of one approval
and only the ledger's transaction tells who may use it, while an answer may be lost
after the commit; and a handler that looks a request up copies the gate's maps
without its mutex. A diagnostic upload is cancelled, expires or is retried while it is
being sent, and the process ends between the state file and the objects.
`PROJECT.json` lists each hazard at its line.

### What makes each part correct

* State machine: committed state never goes back or changes its content; a fence
  exists only for committed content; ledgers number revisions without a gap.
* Control plane: PostgreSQL never holds what raft does not; a commit a caller was
  told about is never lost or contradicted; two nodes never fence different content
  for one revision; every write returns.
* Materializer: the last-known-good record is backed by evidence; a late callback
  never overwrites a later commit; at rest all local copies agree.
* Log sink: queue budgets are exact; a Flush answers for exactly the writes before
  it; every failed write is reported; nobody waits for ever.
* Approval gate: an approval is used at most once and never after its revocation or in
  another epoch; three confirmations are three; memory never claims more than the ledger.
  An unlocked snapshot that is put back breaks this (`TornSnapshot`).
* Diagnostics queue: an accepted upload is kept until it ends; quota and attempts hold
  across restarts; no ciphertext outlives its entries; every entry ends.

## 2. Modules

| Module | Models | Built on |
|---|---|---|
| `ControlState` | types, validity checks and the methods of the state machine as functions from machine to machine | |
| `StateMachine` | one machine, driven by any sequence of its public methods, but a commit is installed only if it is not older than the committed state | `ControlState` |
| `StateMachineProofs` | the inductive invariant and its theorems | `StateMachine`, TLAPS |
| `DurableState` | the two PostgreSQL tables and their transactions as functions | `ControlState` |
| `ControlPlane` | nodes with raft, FSM, observer, consumer, coordinator and Bootstrap over one PostgreSQL | `DurableState` |
| `ControlPlaneTypes` | lemmas on the machine's operations, and the types of the composition | `ControlPlane`, TLAPS |
| `ControlPlaneReplicas` | lemmas on the raft log, and what each replica holds of it | `ControlPlaneTypes` |
| `ControlPlaneProofs` | one lemma per action, PostgreSQL, and the theorems | `ControlPlaneReplicas` |
| `Materializer` | the materializer, its adapter and the handler on one node, with faults | |
| `MaterializerProofs` | its invariants, for every caller and as serve wires it | `Materializer`, TLAPS |
| `AsyncLog` | the asynchronous log writer, its callers and its worker | |
| `AsyncLogProofs` | its invariants | `AsyncLog`, TLAPS |
| `Grant` | what the approval gate promises of each request (abstract) | |
| `ApprovalGate` | the gates of several processes over one ledger; implements `Grant` | `Grant` (INSTANCE) |
| `ApprovalGateProofs` | its invariants and the refinement of `Grant` | `ApprovalGate`, TLAPS |
| `DiagnosticsQueue` | the upload queue, its callers, worker, process and medium | |
| `DiagnosticsQueueProofs` | its invariants | `DiagnosticsQueue`, TLAPS |
| `MCStateMachine`, `MCControlPlane`, `MCMaterializer`, `MCAsyncLog`, `MCApprovalGate`, `MCDiagnosticsQueue` | what TLC needs: symmetry sets and state constraints | |

Operators named `...Unchecked`, `...Late`, `...Skips` and the like, marked "Mutant"
or "Mutation", are plausible bugs. No specification uses them; replacing the operator
that follows by one of them must break the property `PROJECT.json` names.

### Correspondence with the code

`ControlState` keeps the field names of `State`, without `ClusterID` (one cluster)
and `UpdatedAt`; `WriteFrozen` and `FreezeReason` are one field with the three
values the code tells apart. A Go map from nonce to revision is a total function
with 0 for absent. Digest, version and payload are one model value, because the
code accepts a payload only with its own SHA-256.

In `ControlPlane` an action is the code between two points where another goroutine,
node or store can interfere: the raft future, a PostgreSQL transaction, a method of
the machine. `call[n].pc` is the stage of the consumer's call, `boot[n].pc` that of
Bootstrap. An error path is a disjunct of the stage that can fail. The FSM's
`Runtime.Apply` is `ApplyEntry`, the observer goroutine is `ObserveLost` and
`ObserveWon`, whose wait for its own entry is `obs`.

Raft (hashicorp/raft) is external: a committed log, the accepted entries that may
still commit (`tail`), terms and notices. An entry of an older term may commit as
long as no newer one has, a deposed leader learns of it late, and its futures fail
unless the entry has committed. Voters that only give a quorum are not modelled.

Where the code checks and then acts without a lock, one action stands for both if the
window between them shows only as an error that the action has anyway: `Replicate`
checks leadership and submits, and the future of a leader that was deposed in between
fails; `Materialize` is claim, publication and acknowledgement of the consumer, whose
stages are the subject of `Materializer`. `ValidLedger` omits the refusal of the last
64-bit revision, which no instance reaches. `DoInstallCommit` demands that the commit is
not older than the committed state: `applyLocked` guarantees it, `InstallCommit` on a
frozen machine (state.go:590) does not check it.

In `Materializer` an action is one step of `applyCommitted`; what it writes is
queued in `op.writes` and each file is written by its own step (`WriteOne`), so a
crash, an I/O error (before or after the rename) or a timeout falls between any two,
and before the configuration is published (`PublishFails`).
`RetryModes` lists the environments considered: the component's contract, where a caller may
bring the same commit again, or the wiring of `serve`, where the failure latch stops
retries and a restart is always a new epoch because only a newly elected leader
passes Bootstrap.

In `AsyncLog` an action is one critical section of the writer's mutex, a backend
call's end or a channel operation that another goroutine can observe. A barrier is
named by the Flush call that created it. An entry is its size. The history variables
`lost` (writes that failed) and `told` (failures a completed Flush returned) say what
the counters `failed`, `ackedFailures`, `baseFailed` and `failedAtTarget` are meant
to count. Close gives up at any time, a Flush call's context may be cancelled at any
time before its barrier is done, and a batch the backend was asked to write may fail.
`NextOperation` waits for work; the buffered channel `wakeWorker`, whose one token makes
the worker look again, is not modelled, so a lost wake-up is outside the model.

In `ApprovalGate` a method of `Gate` changes the gate's maps and then waits for its
transaction with the mutex held: `Begin`, and then `Persist`, which returns, or
`PersistFails`, which failed before the commit or after it and puts the maps back.
`call[g]` is the method in between; no other method runs beside it. `Gate.Restore` is
not under the mutex as a whole: `Restore` (a handler has not found the request) or `Open`
and `ListIDs` (a start), then four `Copy` steps, `RestoreRecord` for each request and
`RestoreEnds` or `RestoreFails`. `Copy` is `snapshot`, which reads the maps one after the
other and without the mutex, beside a method in its transaction or around whole methods,
for any number of handlers at once. One map is copied, or written by a method, in one
step; where Go detects the concurrent access and ends the process, that is `Crash`. The
history variable `torn` names the requests of which a Restore has put back a record
that does not belong to the sequence number it put back. Three properties and `Grant`
speak of the other requests.

A record keeps its epoch, status, confirmation, approver and step; an event carries the
record that its mutation stores, so the ledger of a request is the sequence of its
records. `SameInstant`
says whether two calls may carry the same time: then the fingerprints of their events
may agree and the store takes the second for a replay of the first. Whether a TTL has
elapsed and whether a confirmation is valid are free choices. `used` and `closed`
record which calls have returned success. The audit slice is left out.

In `DiagnosticsQueue` an operation of `Store` is one action under the root lock, with
the ends that its writes allow: done, failed with the old or the new state file in
place, or cut off by the end of the process before some objects were removed. What
most operations do first, the refresh and the expiry of what is due, is the action
`Expire`; the rest of them waits for `Settled`. Claim takes the entry nearest to its
expiry; the model lets it take any. An Enqueue finds a fresh ID: the IDs that the broker
gives out again after a restart only make Complete refuse, which `Complete` may do anyway.
A call that is refused, such as an Enqueue over a damaged object of another size, is no step.
`Faults` chooses what may go wrong, `Guarded`
whether the handler has a replay guard, `DeleteOn` the cleanup policy.

## 3. Runs

All bounds are CONSTANTS in the `.cfg` files.

| Run | Question | Bounds and why they are enough |
|---|---|---|
| `StateMachine` | does one machine stay consistent under anything? | two nodes, three terms and epochs, two revisions: a pending proposal, its commit, a leadership change, the epoch overflow and every snapshot between them |
| `Failover` | do raft log, PostgreSQL and replicas agree, is an acknowledged write ever lost, can two nodes accept different fence tokens? | two nodes, two writes by one leader or by two competing ones, one crash of a serving process, three terms; processes boot side by side until a crash or the third term, one after the other from then on |
| `Liveness` | does every write return? | one node (others matter only by electing), four terms, two writes, one crash |
| `Materializer` | what survives faults, and are all local copies consistent at rest? | two policies, three revisions, three epochs, four faults at any points, one unrelated edit, both kinds of caller: faults in a call, in its recovery and in the restart that follows, with a later commit behind them |
| `AsyncLog` | are budgets, barriers and failure reports right, and does everyone return? | three Flush calls (a barrier with two predecessors), one Close, two writes of size 1 or 2 against one queued entry, three bytes and batches of two: shared, chained and cancelled barriers, a full queue by entries and by bytes |
| `ApprovalGate` | is an approval used once, and does the ledger implement `Grant`? | two processes, one request of each kind of approval, one confirmation ID, two approvers, two epochs, four events: submit, checkpoint, authorise, use, with a stale process, failed calls, lost answers and restores between them. A lookup and its four copies are separate steps, so a snapshot holds the records of calls that ran since, torn ones included; such a snapshot ends the search once it is put back. `OneAtATime`: transactions of two processes do not overlap (PostgreSQL serializes them), one process restores at a time, a rejected confirmation ends the search |
| `DiagnosticsQueue` | is an accepted upload kept, do quota and attempts hold? | two entries with one ciphertext (the sharing case), two keys, a quota of one, two attempts; failed writes and crashes at every write |
| `DiagnosticsLiveness` | does every entry end, and is every unneeded ciphertext gone? | two entries, quota of two, one attempt, unreadable objects, a replay guard; no failed write, which may leave orphans until the next start; the proof adds crashes |

Deadlock checking is off where a run ends by design: terms, revisions, nonces and
faults are bounded, a node that refuses to start stops, a closed log writer ends, a
ledger is full, and a queue whose entries have all ended waits.

Fairness (`FairSpec`): raft commits what its current leader has accepted and a
deposed leader finds out (its lease times out); the observer, the FSM and the
calling goroutine run. Nothing is assumed of elections, crashes, starts or callers.
For the materializer the process is restarted by its supervisor, the caller retries,
a callback returns, and faults are finitely many.
For the log writer the worker runs, its backend calls return (they have a deadline;
the comment on `close` asks the same of that callback), and a caller whose channel is
ready runs; no context or timer is assumed to expire.
For the diagnostics queue the worker's goroutine runs (it polls on a timer, and every
poll expires what is due) and the time of an entry passes. The uploader is external and
has to return: the worker gives it a context without a deadline. Callers are free to
stop the worker, to pause the queue or to do nothing.

### Where code and documents disagree

Four runs show a statement of a document, comment or test that the code does not
meet; `PROJECT.json` quotes each line.

* `FenceBeforeDurable`: the FSM installs the committed fence before PostgreSQL has
  the commit, against the contract document.
* `TornSnapshot`: `Gate.Restore` takes its snapshot without the mutex. One process, two
  requests: a handler looks for a request that is nowhere, copies the records, another
  handler uses an approval, the first copies the sequence numbers, finds nothing in the
  ledger and puts both back. The approval is in memory again, with the number of its use,
  and the ledger accepts a second use. The same window lets in records of a call that is
  still in its transaction. If that call commits, memory holds the new record with the old
  number and the request is refused until a restart; if it fails, memory holds a
  checkpoint or an approval that the ledger never had, and the next call builds on it. The
  mutex around `snapshot` alone closes the window: an intact snapshot, however old, breaks none of the
  properties.
* `TornMirrors`: a crash between the two mirror writes of a journal phase is never
  repaired, because loading refuses mirrors that differ.
* `CancelledUpload`: an upload that succeeds while the worker is being stopped is made
  again by the next process, because Complete refuses the cancelled context.

Known limits of the code that the models exhibit and no run is about:

* A machine frozen by a failed append is reopened by losing and regaining leadership,
  without a retry; notices read late can freeze a leader after its leadership entry
  was applied; two leaders in succession can leave consensus two revisions ahead of
  PostgreSQL, where Bootstrap recovers a gap of one; a crash while a baseline is on
  disk makes the next start, whose commit has a new epoch, refuse that baseline.
* `Gate.Restore` may put back an intact snapshot older than a concurrent Revoke, so that
  the process again holds the request as approved; the ledger refuses its use, because the
  sequence number is as old as the record (`SingleUse`, `MemoryIsDurable`; for a torn
  snapshot see `TornSnapshot`). Two processes may accept the same confirmation ID
  for two requests, because used IDs are per process. After AdvanceEpoch (which has no
  caller in serve) a record of the old epoch makes Restore and Open fail.
* `SingleUse` needs distinct times: with `SameInstant = TRUE` two processes that
  consume one approval at one instant both succeed.
* `AcceptedIsKept` needs the directory sync to succeed: with the fault `"sync"` Enqueue
  fails after its rename, deletes the ciphertext and leaves the entry, and a
  repetition of the call returns a receipt for it.
* A worker whose Complete was refused (its entry was cancelled, deleted or has expired
  meanwhile) stops; `Runtime.Start` does nothing until `Stop` has been called. An entry
  that runs out of attempts in Claim keeps its ciphertext until it is forgotten or the
  process restarts, also when the policy deletes on failure (the default does not).

Two properties are worded with care for similar reasons. A
leadership entry applied while a proposal is pending and the machine is open makes
the proposal the committed state of that node, though raft may never commit it;
`FencesAgree` and `AckedIsKept` show that no fence and no answer follow from it. And
`AcknowledgedIsNotRepeated` needs its condition on cancelled barriers: `runFlush`
looks at the direct predecessor only, so when the middle one of three queued barriers
was given up, the third reports again what the first has acknowledged.

## 4. Proofs

`StateMachineProofs` proves for every set of nodes, nonces and payloads and every
bound, from `ControlStateAssumption` (the empty values are not members of their
sets, the bounds are natural numbers):

* `MachineSafe`: `Spec => [](TypeOK /\ MachineInv)`. `MachineInv` is inductive and
  is the conjunction of the five invariants the run `StateMachine` checks. None of
  them is inductive alone. For example, `FencesAreCommitted` needs, for
  `InstallCommit`, that the proposal being installed has the fence recorded for its
  revision (`ProposalsAreCurrent`); `LedgersComplete` needs, for a leadership change
  that drops a proposal, that the committed ledger is complete by itself; and
  `PendingIsOneProposal` needs `ContentHasRevision` when a snapshot arrives.
* `FencesAreCommittedThm`, `PendingIsOneProposalThm`, `LedgersCompleteThm`,
  `ProposalsAreCurrentThm`, `ContentHasRevisionThm`: its parts.
* `CommittedAdvancesThm`, `CommittedIsImmutableThm`, `FenceDigestIsStableThm`: the
  action properties, from the same invariant.

The proof has one lemma per action, with one step per conjunct the action can
disturb, over lemmas about the operators (ledgers, partial maps, records).

`ApprovalGateProofs` proves for any number of processes, requests, confirmations,
approvers, epochs and events, from `ApprovalAssumption` and `NoneAssumption`:

The theorems hold for the code as it is, with its unlocked snapshots, and say of each
request what holds until a torn snapshot of it is put back:

* `GateSafe`, `GateTyped`: `Spec => [](TypeOK /\ MemoryIsDurable)`. The inductive invariant
  `GateInv` adds that no ledger exceeds the bound, and `InFlight`: what a method in its
  transaction has changed is one record, whose sequence number it has left alone, and the
  last of its events carries that record. `MemoryIsDurable` speaks of the memory at rest
  (the one a failing method goes back to) and of finished snapshots, because RestoreFails
  makes them the memory. Every step either starts a method (`Starts`), ends one
  (`Persist`, `PersistFails`) or leaves ledger and methods alone (`Administer`), by
  `NextCases`. `CopySafe` is about the unlocked snapshot: once the sequence numbers are
  copied, each record it holds is the record at rest or counts as torn.
* `EpochFencedThm`: from the invariant, as an action property, for torn requests too.
* `SingleUseThm`, assuming distinct times: `SpentIsRevoked`, that a request used or
  revoked is revoked in the ledger, is inductive since a method that commits started from
  the ledger's last record (`CommitIsCurrent`, `ReturnIsCurrent`).
* `GrantRefinement`, assuming distinct times: `Spec => GrantSpec`; the status of a
  request in `Grant` is the status of its last record in the ledger, and "void" once a
  torn snapshot of it is put back, after which `Grant` promises nothing of it.
* `GrantIsConfirmedThm`: strengthened to every record at its second step.

`DiagnosticsQueueProofs` proves for any finite set of entries and any keys,
ciphertexts, bounds, cleanup policy and faults, from `QueueAssumption`:

* `QueueSafe`, `QuotaHoldsThm`, `QueueTyped`: types, quota and attempts. The inductive
  invariant `QueueInv` relates memory to disk (the entries of memory are entries of
  disk, with the same ciphertext), and asks quota and attempts of both, because Purge
  persists the memory that a failed write left; and it bounds the handler's calls by
  the attempts each copy records.
* `AcceptedIsKeptThm`, assuming no failed sync: `KeepInv` says that every active entry
  on disk, and in memory while the process runs, has its ciphertext unless the medium
  has lost it.
* `NoOrphansThm`, assuming that no write and no sync fails and that the policy does not
  delete on failure: `CleanInv` adds that the memory of a running process is what is on
  disk, for the sake of Purge. Crashes are allowed: a process that was cut off between
  the state file and its objects is down, and NewStore cleans up before it opens. Each
  hypothesis is needed. A failed write leaves memory and disk apart, and Claim of an
  entry that has no attempt left makes it fail without looking at the policy.

`ControlPlaneProofs`, with `ControlPlaneTypes` and `ControlPlaneReplicas`, proves the six
invariants of the composed control plane for any number of nodes, terms, epochs,
revisions, nonces, payloads, calls and crashes, from `ControlStateAssumption`,
`NonceAssumption` and `BoundAssumption` (there is room for the initial commit):
`ControlPlaneTyped`, `DurableIsReplicatedThm`, `ConsensusAgreesThm`, `FencesAgreeThm`,
`AckedIsKeptThm` and `PublishedIsDurableThm`. The nodes cannot be compared with each
other, since each lags by its own number of entries; all of them are compared with the
log. `CoreInv` is inductive:

* `RaftInv`: entries are ordered by the term in which they were accepted, and a term has
  one leader; so the leaderships up to a term are the same for every replica that has
  applied so many entries, and their number is its epoch (`Led`, `EpochOf`).
* `LogInv`: each commit in the log has a greater revision than those before it and a
  ledger that extends theirs. A leader proposes on its own committed state, so this needs
  that a leader has applied every commit before its own term.
* `ReplicaInv`: consensus state and committed fences are those of log entries the
  replica has applied. The machine's committed state need not be: a leadership entry may
  promote a proposal that raft never commits. `WorkOK` says when that can be, namely
  after a call that failed or was overtaken, whose latch or stale term stops it.
* `OwnInv`: a leader's own commits in flight are the one its call waits for.

`DurableInv` then says that PostgreSQL, Bootstrap and the calls hold only commits of the
log, and `AckedIsKept` follows because ledgers only grow along the log. The proof showed
that `FencesAgree` needs no equality of epochs, and the property is stated without it.

`MaterializerProofs` proves for any policies, epochs, revisions and number of faults,
from `MaterializerAssumption` and `NoneAssumption`:

* for every caller, also one that repeats a commit: `MaterializerTyped`,
  `LKGIsProvenThm`, `LateCallbackIsCurrentThm`, `LKGFollowsJournalThm`. `SafeInv` speaks
  of the files and of the writes a call has pending: each is of the receipt the call is
  at, the mirrors hold that receipt once they are done, the baseline is the call's while
  it may be needed, an applied phase in a journal mirror has its runtime receipt (so that
  a save of the LKG cannot precede the evidence), and a running callback holds the lease.
* as serve wires it (`exactRetry = FALSE`): `RuntimeIsRecordedThm` and
  `RestIsConsistentThm`, from `Wired`, which says how far each stage of a call has
  brought data plane, YAML and files, and that a call's commit is newer than all that
  the directory names.

`LateCallbackIsCurrent` is about every mirror that is present, not about the loaded
journal: while a save is under way the two may be in different phases of the commit.

`AsyncLogProofs` proves for any number of Flush and Close calls, any capacities, batch
size and entry sizes, from `AsyncLogAssumption`: `AsyncLogTyped`, `CapacityIsExactThm`,
`BarrierIsExactThm`, `FailuresAreReportedThm`, `AcknowledgedIsNotRepeatedThm`. `Inv`
speaks of the work list, the worker's batch followed by the queue: it is ordered by
sequence number, everything in it comes after every write that has failed, and taking a
batch does not change it. A barrier that was run therefore counts all failures up to its
target and no later one. `Waiting` counts the callers of a barrier, `Told` says that the
base of a barrier's range and what it has acknowledged were returned to a caller, and
`Chain` that a barrier's predecessor is the one run just before it, for chains of any
length. `Bytes` is a recursive function; that it is additive, and loses a write's size
with the write, is proved by induction over the length of the queue (`SetInduction`: a
set of naturals that has 0 and is closed under successor is Nat, from the library's
theorem on minimal elements).

Only model-checked: the liveness properties (`CallsReturn`, `CallsEnd`, `EntriesEnd`),
since fairness and ENABLED are out of the prover's reach. Every invariant and every
action property of the passing runs, and the refinement of `Grant`, is a theorem. What
happens after a torn snapshot is put back is shown by the run `TornSnapshot` alone.

## 5. Plan

1. Done: `ControlState`, `StateMachine`, `DurableState`, `ControlPlane`,
   `Materializer`, `AsyncLog`, `Grant`, `ApprovalGate`, `DiagnosticsQueue`; proofs about
   all of them.
2. Each node of `ControlPlane` as a refinement of `StateMachine`: its machine takes only
   steps of that specification, so that the action properties carry over.
3. `DurableStore`: the PostgreSQL store on its own, refining an abstract append-only log.
4. An abstract specification of the materializer (apply exactly once, in order) and
   the refinement from `Materializer`.
5. The import of the initial state and raft snapshots in `ControlPlane`; previews of
   the consumer.
6. The audit journal's spool and outbox, netlease sessions, token rotation.

## 6. Not modelled

Detection, proxying, the console, the AI assistant and the corpus tool are pure
computation over text or I/O. Cryptography and TLS are assumed to work. Wall-clock
time is dropped, so the comparison of `UpdatedAt` in
`validateConsensusAheadRecovery`, which clock skew can fail, is not covered. Raft's
own safety is assumed.

Of the approval gate, what a confirmation binds, credentials and sessions are one
condition that holds or not, and events are not hashed. Of the diagnostics queue, the
byte quota, the retry delay, the backup copy of the state file and its corruption are
left out, as are several processes on one directory (the lock file is created and never
locked) and the packaging and audit events of `Runtime`.
