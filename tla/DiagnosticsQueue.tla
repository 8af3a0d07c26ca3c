-------------------------- MODULE DiagnosticsQueue --------------------------
(***************************************************************************)
(* The durable queue of diagnostic uploads and its worker                  *)
(* (internal/diagnostics/queue/store.go), with the handler that the        *)
(* diagnostics runtime gives it (diagnostics/integration/runtime.go) and   *)
(* the process-local replay guard (diagnostics/envelope/replay.go).        *)
(*                                                                         *)
(* An operation of Store holds the root lock from the read of the state    *)
(* file to the last object it removes, so operations interleave with       *)
(* nothing but crashes and the worker's upload.  Most begin by refreshing  *)
(* the memory from disk and by expiring what is due: that beginning is the *)
(* action Expire, which is also all that Status, Stats, Snapshot and       *)
(* ReadEnvelope do, and the rest of the operation is enabled when nothing  *)
(* is due.                                                                 *)
(*                                                                         *)
(* Times are abstract: age tells whether the TTL and then the retention of *)
(* an entry have elapsed.  Data stands for a ciphertext, its digest, the   *)
(* object named by it and the ID of its envelope.                          *)
(***************************************************************************)
EXTENDS Naturals, FiniteSets

CONSTANTS Id,          \* entry IDs
          Key,         \* idempotency keys
          Data,        \* ciphertexts
          None,
          MaxItems, MaxAttempts,  \* Config
          DeleteOn,    \* the end states after which CleanupPolicy deletes the object
          Guarded,     \* whether the runtime has a replay guard
          Faults       \* "crash", "write": nothing written, "sync": written, then an
                       \* error, "rot": an object becomes unreadable

VARIABLES
  disk,      \* state.json
  objects,   \* objects/sha256
  memory,    \* Store.state, which Purge does not refresh
  age,       \* time of each entry
  up,        \* whether the process runs
  worker,    \* runWorker and the entry it handles
  guard,     \* MemoryReplayGuard: reserved or committed envelopes
  accepted,  \* history: the entries whose submitter has a receipt
  delivered, \* history: handler calls per entry
  uploaded,  \* history: the entries that were uploaded
  rotten     \* history: the objects that the medium has lost

vars == <<disk, objects, memory, age, up, worker, guard, accepted, delivered, uploaded, rotten>>

Active == {"queued", "retrying", "processing"}
Ended == {"completed", "failed", "expired", "canceled"}
Entry == [key : Key, data : Data, state : Active \cup Ended, attempt : 0 .. MaxAttempts + 1]
State == [entries : [Id -> Entry \cup {None}], paused : BOOLEAN]

ASSUME QueueAssumption ==
  /\ IsFiniteSet(Id)
  /\ None \notin Id \cup Key \cup Data \cup Entry
  /\ MaxItems \in Nat \ {0} /\ MaxAttempts \in Nat \ {0}
  /\ DeleteOn \subseteq {"completed", "failed", "expired"} /\ Guarded \in BOOLEAN
  /\ Faults \subseteq {"crash", "write", "sync", "rot"}

Empty == [entries |-> [i \in Id |-> None], paused |-> FALSE]
Idle == [mode |-> "idle", id |-> None, data |-> None, cancelled |-> FALSE]
Off == [Idle EXCEPT !.mode = "off"]

Init ==
  /\ disk = Empty /\ objects = {} /\ memory = Empty
  /\ age = [i \in Id |-> 0]
  /\ up = FALSE /\ worker = Off /\ guard = {}
  /\ accepted = {} /\ delivered = [i \in Id |-> 0] /\ uploaded = {}
  /\ rotten = {}

-------------------------------------------------------------------------------
(* Entries and their objects *)

IsActive(s, i) == s.entries[i] # None /\ s.entries[i].state \in Active

\* objectReferencedLocked, and what cleanupOrphansLocked keeps.
Referenced(s) ==
  {s.entries[i].data : i \in {j \in Id : /\ s.entries[j] # None
                                         /\ s.entries[j].state \notin DeleteOn \cup {"canceled"}}}

\* Mutant: an object is deleted with the first of its entries.
RemovableAlways(s, datas) == datas

\* The objects among datas that no entry of s needs.
Removable(s, datas) == datas \ Referenced(s)

\* Mutant: an entry that is being processed does not expire.
DueQueued(s, i) == IsActive(s, i) /\ s.entries[i].state # "processing" /\ age[i] > 0

\* An entry whose TTL has elapsed.
Due(s, i) == IsActive(s, i) /\ age[i] > 0

\* An entry that has ended and whose retention has elapsed.
Forgotten(s, i) == s.entries[i] # None /\ s.entries[i].state \in Ended /\ age[i] = 2

\* expireLocked, on the entries.
Expired(s) ==
  [s EXCEPT !.entries = [i \in Id |->
     IF Due(s, i) THEN [s.entries[i] EXCEPT !.state = "expired"]
     ELSE IF Forgotten(s, i) THEN None ELSE s.entries[i]]]

\* Mutant: what is forgotten leaves its object behind.
ExpiredObjectsDue(s) ==
  {s.entries[i].data : i \in {j \in Id : Due(s, j) /\ "expired" \in DeleteOn}}

\* The objects of the entries that expireLocked changes and whose deletion it asks for.
ExpiredObjects(s) ==
  {s.entries[i].data :
     i \in {j \in Id : Forgotten(s, j) \/ (Due(s, j) /\ "expired" \in DeleteOn)}}

\* Nothing is due: an operation that refreshes and expires goes on at once.
Settled == Expired(disk) = disk

With(s, i, entry) == [s EXCEPT !.entries[i] = entry]
Count(s) == Cardinality({i \in Id : IsActive(s, i)})

\* The process is gone, and with it its memory, worker and replay guard.
Down ==
  up' = FALSE /\ memory' = Empty /\ worker' = Off /\ guard' = {}

\* persistStateLocked of s, then the deletion of the objects in gone.
Persists(s, gone) ==
  disk' = s /\ memory' = s /\ objects' = objects \ gone /\ UNCHANGED up

\* It returns an error: with the old state in place, or, when the directory
\* could not be synced or an object not deleted, with the new one.
PersistFails(s, gone) ==
  /\ \/ "write" \in Faults /\ UNCHANGED disk
     \/ ("sync" \in Faults \/ ("write" \in Faults /\ gone # {})) /\ disk' = s
  /\ memory' = s /\ UNCHANGED <<objects, up>>

\* The process ends between the rename of the state file and the last deletion.
PersistCut(s, gone) ==
  /\ "crash" \in Faults /\ disk' = s
  /\ \E some \in SUBSET gone : objects' = objects \ some
  /\ Down

-------------------------------------------------------------------------------
(* The operations of Store *)

\* What is recorded of the entries that are still there, as 0 for the others.
Remaining(ids) == {i \in ids : disk'.entries[i] # None}
Kept(f) == [i \in Id |-> IF i \in Remaining(Id) THEN f[i] ELSE 0]

\* An operation other than the worker's.
Operate(s, gone) ==
  /\ \/ Persists(s, gone) /\ UNCHANGED <<worker, guard>>
     \/ PersistFails(s, gone) /\ UNCHANGED <<worker, guard>>
     \/ PersistCut(s, gone)
  /\ age' = Kept(age) /\ delivered' = Kept(delivered) /\ uploaded' = Remaining(uploaded)
  /\ UNCHANGED rotten

\* refreshLocked and expireLocked.
Expire ==
  LET s == Expired(disk)
  IN /\ up /\ ~Settled
     /\ Operate(s, Removable(s, ExpiredObjects(disk)))
     /\ accepted' = {i \in accepted : ~Forgotten(disk, i)}

\* Purge: expireLocked without a refresh.
Purge ==
  LET s == Expired(memory)
  IN /\ up /\ s # memory
     /\ Operate(s, Removable(s, ExpiredObjects(memory)))
     /\ accepted' = {i \in accepted : ~Forgotten(memory, i)}

\* enqueueOpaque of a key that is there already, with the same fingerprint.
EnqueueAgain(i, k, d) ==
  /\ up /\ Settled /\ disk.entries[i] # None
  /\ disk.entries[i].key = k /\ disk.entries[i].data = d /\ disk.entries[i].state # "expired"
  /\ memory' = disk /\ accepted' = accepted \cup (IF d \in rotten THEN {} ELSE {i})
  /\ UNCHANGED <<disk, objects, age, up, worker, guard, delivered, uploaded, rotten>>

\* Mutant: the quota counts entries that wait, not the one in processing.
HasRoomWaiting == Cardinality({i \in Id : IsActive(disk, i) /\ disk.entries[i].state # "processing"}) < MaxItems

\* activeUsage leaves room for an entry.
HasRoom == Count(disk) < MaxItems

\* The process ends after the object was written, before or after the state was.
EnqueueCut(s, d) == disk' \in {disk, s} /\ objects' = objects \cup {d}

\* enqueueOpaque of a new key, with an ID that no entry has and that was not
\* given out before in the life of the process.
Enqueue(i, k, d) ==
  LET s == With(disk, i, [key |-> k, data |-> d, state |-> "queued", attempt |-> 0])
  IN /\ up /\ Settled /\ disk.entries[i] = None /\ i # worker.id
     /\ \A j \in Id : disk.entries[j] # None => disk.entries[j].key # k
     /\ HasRoom
     /\ \/ /\ disk' = s /\ memory' = s /\ objects' = objects \cup {d}
           /\ accepted' = accepted \cup {i} /\ UNCHANGED <<up, worker, guard>>
        \/ /\ \/ "write" \in Faults /\ UNCHANGED disk
              \/ "sync" \in Faults /\ disk' = s
           /\ memory' = disk /\ objects' = (objects \cup {d}) \ Removable(disk, {d})
           /\ UNCHANGED <<up, worker, guard, accepted>>
        \/ "crash" \in Faults /\ EnqueueCut(s, d) /\ Down /\ UNCHANGED accepted
     /\ UNCHANGED <<age, delivered, uploaded>>
     /\ rotten' = rotten \ {d}

\* Mutant: a failed entry may be tried again.
RetryableForever(e) == e.state \in {"retrying", "failed"}

Retryable(e) == e.state \in {"retrying", "failed"} /\ e.attempt < MaxAttempts

Retry(i) ==
  LET e == disk.entries[i]
  IN /\ up /\ Settled /\ e # None /\ Retryable(e) /\ e.data \in objects
     /\ Operate(With(disk, i, [e EXCEPT !.state = "queued"]), {})
     /\ UNCHANGED accepted

\* Cancel and Delete refresh but do not expire.
Cancel(i) ==
  LET e == disk.entries[i]
      s == With(disk, i, [e EXCEPT !.state = "canceled"])
  IN /\ up /\ IsActive(disk, i)
     /\ Operate(s, Removable(s, {e.data}))
     /\ UNCHANGED accepted

Delete(i) ==
  LET e == disk.entries[i]
      s == With(disk, i, None)
  IN /\ up /\ e # None
     /\ Operate(s, Removable(s, {e.data}))
     /\ accepted' = accepted \ {i}

SetPaused(paused) ==
  /\ up /\ disk.paused # paused
  /\ Operate([disk EXCEPT !.paused = paused], {})
  /\ UNCHANGED accepted

-------------------------------------------------------------------------------
(* The worker *)

\* Runtime.Start: nothing when it was called before and Stop was not.
Start ==
  /\ up /\ worker.mode = "off"
  /\ worker' = Idle
  /\ UNCHANGED <<disk, objects, memory, age, up, guard, accepted, delivered, uploaded, rotten>>

\* Stop: the worker's context is cancelled, and a worker that has stopped by
\* itself may be started again.
Stop ==
  /\ up /\ worker.mode # "off" /\ ~worker.cancelled
  /\ worker' = IF worker.mode = "dead" THEN Off ELSE [worker EXCEPT !.cancelled = TRUE]
  /\ UNCHANGED <<disk, objects, memory, age, up, guard, accepted, delivered, uploaded, rotten>>

\* runWorker returns at the top of its loop, or because Complete has found the
\* context cancelled.
WorkerExits ==
  /\ worker.cancelled /\ worker.mode \in {"idle", "uploaded", "failed"}
  /\ worker' = Off
  /\ UNCHANGED <<disk, objects, memory, age, up, guard, accepted, delivered, uploaded, rotten>>

\* The worker's persistStateLocked of s: a worker in mode w, or in mode f when
\* it failed.
WorkerStep(s, gone, w, f) ==
  /\ \/ Persists(s, gone) /\ worker' = w /\ UNCHANGED guard
     \/ PersistFails(s, gone) /\ worker' = f /\ UNCHANGED guard
     \/ PersistCut(s, gone)
  /\ age' = Kept(age) /\ uploaded' = Remaining(uploaded) /\ UNCHANGED rotten

\* Claim found entry i to be the one to take.
Claiming(i) ==
  /\ up /\ worker.mode = "idle" /\ ~worker.cancelled
  /\ Settled /\ ~disk.paused
  /\ disk.entries[i] # None /\ disk.entries[i].state \in {"queued", "retrying"}

\* Mutant: the attempt is not counted before the handler runs.
AttemptedLater(e) == [e EXCEPT !.state = "processing"]

Attempted(e) == [e EXCEPT !.state = "processing", !.attempt = e.attempt + 1]

Claim(i) ==
  LET e == disk.entries[i]
      s == With(disk, i, Attempted(e))
  IN /\ Claiming(i) /\ e.data \in objects /\ e.attempt < MaxAttempts
     /\ WorkerStep(s, {}, [worker EXCEPT !.mode = "claimed", !.id = i, !.data = e.data], worker)
     /\ delivered' = [delivered EXCEPT ![i] = IF worker'.mode = "claimed" THEN @ + 1 ELSE @]
     /\ UNCHANGED accepted

\* Claim of an entry whose attempts were used up by crashes.
ClaimExceeded(i) ==
  LET e == disk.entries[i]
      s == With(disk, i, [e EXCEPT !.state = "failed", !.attempt = e.attempt + 1])
  IN /\ Claiming(i) /\ e.data \in objects /\ e.attempt >= MaxAttempts
     /\ WorkerStep(s, {}, worker, worker)
     /\ UNCHANGED <<accepted, delivered>>

\* Claim of an entry whose object cannot be read.
ClaimCorrupt(i) ==
  LET s == With(disk, i, None)
  IN /\ Claiming(i) /\ disk.entries[i].data \notin objects
     /\ WorkerStep(s, {}, worker, worker)
     /\ delivered' = Kept(delivered) /\ UNCHANGED accepted

\* handle: the envelope is reserved, uploaded and committed.
UploadSucceeds ==
  /\ worker.mode = "claimed" /\ (Guarded => worker.data \notin guard)
  /\ worker' = [worker EXCEPT !.mode = "uploaded"]
  /\ guard' = IF Guarded THEN guard \cup {worker.data} ELSE guard
  /\ uploaded' = uploaded \cup {i \in {worker.id} : disk.entries[i] # None}
  /\ UNCHANGED <<disk, objects, memory, age, up, accepted, delivered, rotten>>

\* handle: the upload failed and its reservation was released, or the guard
\* knows the envelope.
UploadFails ==
  /\ worker.mode = "claimed"
  /\ worker' = [worker EXCEPT !.mode = "failed"]
  /\ UNCHANGED <<disk, objects, memory, age, up, guard, accepted, delivered, uploaded, rotten>>

\* CompleteWithError of the entry that the worker has handled.
Completing ==
  up /\ worker.mode \in {"uploaded", "failed"} /\ ~worker.cancelled /\ Settled

Released == [worker EXCEPT !.mode = "idle", !.id = None, !.data = None]
Dead == [Released EXCEPT !.mode = "dead"]

\* The state of an entry that was handled.
After(e) ==
  IF worker.mode = "uploaded" THEN "completed"
  ELSE IF e.attempt >= MaxAttempts THEN "failed" ELSE "retrying"

Complete ==
  LET i == worker.id
      e == disk.entries[i]
      s == With(disk, i, [e EXCEPT !.state = After(e)])
      gone == IF After(e) \in DeleteOn THEN Removable(s, {e.data}) ELSE {}
  IN /\ Completing /\ e # None /\ e.state = "processing"
     /\ WorkerStep(s, gone, Released, Dead)
     /\ UNCHANGED <<accepted, delivered>>

\* The entry was cancelled, deleted or has expired meanwhile: the worker stops.
CompleteRefused ==
  LET e == disk.entries[worker.id]
  IN /\ Completing /\ (e # None => e.state # "processing")
     /\ worker' = Dead /\ memory' = disk
     /\ UNCHANGED <<disk, objects, age, up, guard, accepted, delivered, uploaded, rotten>>

\* Its state could not be read, or what is due not be expired: the worker stops.
CompleteFails ==
  /\ up /\ worker.mode \in {"uploaded", "failed"} /\ ~worker.cancelled
  /\ "write" \in Faults /\ worker' = Dead
  /\ UNCHANGED <<disk, objects, memory, age, up, guard, accepted, delivered, uploaded, rotten>>

-------------------------------------------------------------------------------
(* The process, the clock and the medium *)

\* loadInitialLocked, on the entries: what was in processing waits again, what
\* is due has expired, and what has lost its object is dropped.
Recovered(e, i) ==
  IF e = None THEN None
  ELSE IF e.state \in Active /\ age[i] > 0 THEN [e EXCEPT !.state = "expired"]
  ELSE IF e.state \in Active /\ e.data \notin objects THEN None
  ELSE IF e.state = "processing" THEN [e EXCEPT !.state = "queued"] ELSE e

\* NewStore: recovery, the removal of orphans, and a persist that may fail.
Open ==
  LET s == [disk EXCEPT !.entries = [i \in Id |-> Recovered(disk.entries[i], i)]]
      orphans == objects \ Referenced(s)
  IN /\ ~up
     /\ \/ disk' = s /\ memory' = s /\ up' = TRUE /\ objects' = objects \ orphans
        \/ /\ "write" \in Faults \/ "crash" \in Faults
           /\ \E some \in SUBSET orphans : objects' = objects \ some
           /\ UNCHANGED <<disk, memory, up>>
     /\ age' = Kept(age) /\ delivered' = Kept(delivered) /\ uploaded' = Remaining(uploaded)
     /\ UNCHANGED <<worker, guard, accepted, rotten>>

\* The process ends: after Close, or at any time.
Exit ==
  /\ up /\ (worker.mode \in {"off", "dead"} \/ "crash" \in Faults)
  /\ Down
  /\ UNCHANGED <<disk, objects, age, accepted, delivered, uploaded, rotten>>

\* The TTL of an entry elapses, and once the entry has ended, its retention.
Elapse(i) ==
  /\ disk.entries[i] # None
  /\ \/ age[i] = 0
     \/ age[i] = 1 /\ disk.entries[i].state \in Ended
  /\ age' = [age EXCEPT ![i] = @ + 1]
  /\ UNCHANGED <<disk, objects, memory, up, worker, guard, accepted, delivered, uploaded, rotten>>

\* An object becomes unreadable, and nothing is promised of its entries any more.
Rot(d) ==
  /\ "rot" \in Faults /\ d \in objects
  /\ objects' = objects \ {d}
  /\ accepted' = {i \in accepted : disk.entries[i] # None => disk.entries[i].data # d}
  /\ rotten' = rotten \cup {d}
  /\ UNCHANGED <<disk, memory, age, up, worker, guard, delivered, uploaded>>

WorkerNext ==
  \/ WorkerExits \/ UploadSucceeds \/ UploadFails
  \/ Complete \/ CompleteRefused \/ CompleteFails
  \/ \E i \in Id : Claim(i) \/ ClaimExceeded(i) \/ ClaimCorrupt(i)

Next ==
  \/ Expire \/ Purge \/ Start \/ Stop \/ Open \/ Exit \/ WorkerNext
  \/ \E paused \in BOOLEAN : SetPaused(paused)
  \/ \E d \in Data : Rot(d)
  \/ \E i \in Id :
       \/ Retry(i) \/ Cancel(i) \/ Delete(i) \/ Elapse(i)
       \/ \E k \in Key, d \in Data : Enqueue(i, k, d) \/ EnqueueAgain(i, k, d)

Spec == Init /\ [][Next]_vars

WorkerExpires == worker.mode \in {"idle", "uploaded", "failed"} /\ ~worker.cancelled /\ Expire

\* The worker's goroutine runs (it polls with a timer, and each poll expires
\* what is due) and time passes.
Fairness ==
  /\ WF_vars(WorkerNext) /\ WF_vars(WorkerExpires)
  /\ \A i \in Id : WF_vars(age[i] = 0 /\ Elapse(i))

FairSpec == Spec /\ Fairness

-------------------------------------------------------------------------------
(* Properties *)

\* Every variable holds what the code's types allow.
TypeOK ==
  /\ disk \in State /\ memory \in State /\ objects \subseteq Data /\ guard \subseteq Data
  /\ age \in [Id -> 0 .. 2] /\ up \in BOOLEAN
  /\ worker \in [mode : {"off", "idle", "claimed", "uploaded", "failed", "dead"},
                 id : Id \cup {None}, data : Data \cup {None}, cancelled : BOOLEAN]
  /\ accepted \subseteq Id /\ delivered \in [Id -> Nat] /\ uploaded \subseteq Id
  /\ rotten \subseteq Data

\* store.go:1095, 1317: an upload that was accepted stays in the queue until its
\* retention has elapsed or it is deleted, and while it is active its ciphertext
\* is there, whatever write fails and wherever the process ends.
AcceptedIsKept ==
  \A i \in accepted : /\ disk.entries[i] # None
                      /\ IsActive(disk, i) /\ ~Due(disk, i) => disk.entries[i].data \in objects

\* store.go:1405: the handler is called for an entry at most MaxAttempts times,
\* across crashes, restarts, failed writes and Retry.
AttemptsAreBounded == \A i \in Id : delivered[i] <= MaxAttempts

\* store.go:1038: no sequence of calls, retries and restarts has more active
\* entries on disk than the quota.
QuotaHolds == Count(disk) <= MaxItems

\* store.go:800, 1328: while no write fails, the ciphertext of an entry that was
\* deleted, cancelled or forgotten, or that has ended in a state of the cleanup
\* policy, is gone when the process runs, unless another entry needs it.
NoOrphans == up => objects \subseteq Referenced(disk)

\* store.go:1291, 1945: while the worker runs, every entry ends.
EntriesEnd ==
  \A i \in Id : IsActive(disk, i) ~>
                  (~IsActive(disk, i) \/ worker.mode \in {"off", "dead"} \/ worker.cancelled)

\* runtime.go:353: an entry that was uploaded is not handed to the uploader again.
UploadedOnce == worker.mode = "claimed" => worker.id \notin uploaded
=============================================================================
