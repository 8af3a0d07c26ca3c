------------------------ MODULE DiagnosticsQueueProofs ------------------------
(***************************************************************************)
(* The quota and the bound on attempts hold, an accepted upload is kept,   *)
(* and what no entry needs is removed, for any number of entries, keys and *)
(* ciphertexts, any quota and any number of attempts.                      *)
(***************************************************************************)
EXTENDS DiagnosticsQueue, FiniteSetTheorems, TLAPS

\* An entry for which the handler was called n times: its attempts count the
\* calls, an active one may still be tried, a failed one may not.
Right(e, n) ==
  /\ n <= e.attempt
  /\ e.state \in Active => e.attempt <= MaxAttempts
  /\ e.state = "failed" => e.attempt >= MaxAttempts

Sound(s) ==
  /\ Count(s) <= MaxItems
  /\ \A i \in Id : s.entries[i] # None => Right(s.entries[i], delivered[i])

\* The entries of s are entries of t, with the same ciphertext.
Within(s, t) ==
  \A i \in Id : s.entries[i] # None => /\ t.entries[i] # None
                                       /\ s.entries[i].data = t.entries[i].data

\* Nothing is recorded of an entry that is not there.
Absent == \A i \in Id : disk.entries[i] = None => delivered[i] = 0 /\ age[i] = 0

WorkerType ==
  /\ worker \in [mode : {"off", "idle", "claimed", "uploaded", "failed", "dead"},
                 id : Id \cup {None}, data : Data \cup {None}, cancelled : BOOLEAN]
  /\ worker.mode \in {"claimed", "uploaded", "failed"} => worker.id \in Id /\ worker.data \in Data

QueueInv ==
  /\ TypeOK /\ WorkerType
  /\ Sound(disk) /\ Sound(memory) /\ AttemptsAreBounded
  /\ Within(memory, disk) /\ Absent

\* The part of a step that persistStateLocked accounts for.
Wrote(s, gone) ==
  /\ Persists(s, gone) \/ PersistFails(s, gone) \/ PersistCut(s, gone)
  /\ age' = Kept(age)

-------------------------------------------------------------------------------
(* Sets of entries *)

\* What the assumptions say of the bounds and of None.
LEMMA Bounds == MaxItems \in Nat /\ MaxAttempts \in Nat /\ MaxAttempts > 0
BY QueueAssumption

\* An entry is there or it is not.
LEMMA NoneIsNoEntry == \A e \in Entry : e # None
BY QueueAssumption

\* The number of active entries is a natural number.
LEMMA CountType ==
  ASSUME NEW s PROVE Count(s) \in Nat
<1>1. IsFiniteSet({i \in Id : IsActive(s, i)})
  <2>1. {i \in Id : IsActive(s, i)} \subseteq Id
    OBVIOUS
  <2> QED
    BY <2>1, QueueAssumption, FS_Subset
<1> QED
  BY <1>1, FS_CardinalityType DEF Count

\* A state whose active entries are active in another has no more of them.
LEMMA CountMonotone ==
  ASSUME NEW s, NEW t, \A i \in Id : IsActive(s, i) => IsActive(t, i)
  PROVE  Count(s) <= Count(t)
<1>1. {i \in Id : IsActive(s, i)} \subseteq {i \in Id : IsActive(t, i)}
  OBVIOUS
<1>2. IsFiniteSet({i \in Id : IsActive(t, i)})
  <2>1. {i \in Id : IsActive(t, i)} \subseteq Id
    OBVIOUS
  <2> QED
    BY <2>1, QueueAssumption, FS_Subset
<1> QED
  BY <1>1, <1>2, FS_Subset DEF Count

\* One entry more is at most one active entry more.
LEMMA CountAdd ==
  ASSUME NEW s, NEW t, NEW j \in Id,
         \A i \in Id : i # j /\ IsActive(s, i) => IsActive(t, i)
  PROVE  Count(s) <= Count(t) + 1
<1> DEFINE S == {i \in Id : IsActive(s, i)}
           T == {i \in Id : IsActive(t, i)}
<1>1. S \subseteq T \cup {j}
  OBVIOUS
<1>2. IsFiniteSet(T)
  <2>1. T \subseteq Id
    OBVIOUS
  <2> QED
    BY <2>1, QueueAssumption, FS_Subset
<1>3. /\ IsFiniteSet(T \cup {j})
      /\ Cardinality(T \cup {j}) = IF j \in T THEN Cardinality(T) ELSE Cardinality(T) + 1
  BY <1>2, FS_AddElement
<1>4. Cardinality(S) <= Cardinality(T \cup {j}) /\ IsFiniteSet(S)
  BY <1>1, <1>3, FS_Subset
<1>5. Cardinality(T) \in Nat /\ Cardinality(S) \in Nat
  BY <1>2, <1>4, FS_CardinalityType
<1> QED
  BY <1>3, <1>4, <1>5 DEF Count

\* A state with one entry replaced.
LEMMA WithState ==
  ASSUME NEW s \in State, NEW i \in Id, NEW e \in Entry \cup {None}
  PROVE  /\ With(s, i, e) \in State
         /\ With(s, i, e).entries[i] = e
         /\ \A j \in Id : j # i => With(s, i, e).entries[j] = s.entries[j]
         /\ With(s, i, e).paused = s.paused
BY DEF With, State

\* An entry with a new state and a new number of attempts.
Updated(e, st, n) == [e EXCEPT !.state = st, !.attempt = n]

\* An updated entry is an entry with the same key and ciphertext.
LEMMA EntryUpdate ==
  ASSUME NEW e \in Entry, NEW st \in Active \cup Ended, NEW n \in 0 .. MaxAttempts + 1
  PROVE  /\ Updated(e, st, n) \in Entry
         /\ Updated(e, st, n).data = e.data
         /\ Updated(e, st, n).state = st
         /\ Updated(e, st, n).attempt = n
<1> DEFINE N == 0 .. MaxAttempts + 1
           St == Active \cup Ended
<1>1. e \in [key : Key, data : Data, state : St, attempt : N]
  BY DEF Entry
<1>2. n \in N /\ st \in St
  OBVIOUS
<1> HIDE DEF N, St
<1>3. Updated(e, st, n) \in [key : Key, data : Data, state : St, attempt : N]
  BY <1>1, <1>2 DEF Updated
<1> QED
  BY <1>1, <1>3 DEF N, St, Entry, Updated

\* What expireLocked makes of a state.
LEMMA ExpiredState ==
  ASSUME NEW s \in State
  PROVE  /\ Expired(s) \in State
         /\ \A i \in Id : Expired(s).entries[i] =
              IF Due(s, i) THEN [s.entries[i] EXCEPT !.state = "expired"]
              ELSE IF Forgotten(s, i) THEN None ELSE s.entries[i]
<1>1. \A i \in Id : s.entries[i] # None => s.entries[i] \in Entry
  BY DEF State
<1>2. \A i \in Id : Due(s, i) => [s.entries[i] EXCEPT !.state = "expired"] \in Entry
  BY <1>1 DEF Due, IsActive, Entry, Ended
<1> QED
  BY <1>2 DEF Expired, State

\* The empty state.
LEMMA EmptyState ==
  /\ Empty \in State /\ \A i \in Id : Empty.entries[i] = None
  /\ Count(Empty) <= MaxItems
<1>1. Empty \in State /\ \A i \in Id : Empty.entries[i] = None
  BY DEF Empty, State
<1>2. {i \in Id : IsActive(Empty, i)} = {}
  BY <1>1 DEF IsActive
<1> QED
  BY <1>1, <1>2, QueueAssumption, FS_EmptySet DEF Count

-------------------------------------------------------------------------------
(* One step *)

\* What a persist of s may leave behind, whatever fails.
LEMMA WroteOutcome ==
  ASSUME TypeOK, NEW s \in State, NEW gone, Wrote(s, gone)
  PROVE  /\ disk' \in {disk, s} /\ memory' \in {s, Empty}
         /\ (up' => memory' = s) /\ (up' \in BOOLEAN)
         /\ objects' \subseteq objects /\ objects \ gone \subseteq objects'
         /\ disk' = disk => memory' = s \/ disk = s
         /\ age' = Kept(age)
<1>1. CASE Persists(s, gone)
  BY <1>1 DEF Persists, Wrote, TypeOK
<1>2. CASE PersistFails(s, gone)
  BY <1>2 DEF PersistFails, Wrote, TypeOK
<1>3. CASE PersistCut(s, gone)
  BY <1>3 DEF PersistCut, Wrote, TypeOK, Down
<1> QED
  BY <1>1, <1>2, <1>3 DEF Wrote

\* A step that installs s keeps the invariant, if s has entries of disk only,
\* no more than the quota, and the attempts of each count the handler's calls.
LEMMA InstallKeepsInv ==
  ASSUME QueueInv, NEW s \in State,
         disk' \in {disk, s}, memory' \in {s, Empty}, up' \in BOOLEAN,
         objects' \subseteq objects, age' = Kept(age),
         Within(s, disk), Count(s) <= MaxItems,
         delivered' \in [Id -> 0 .. MaxAttempts],
         \A i \in Id : disk'.entries[i] = None => delivered'[i] = 0,
         \A i \in Id : disk'.entries[i] # None => Right(disk'.entries[i], delivered'[i]),
         \A i \in Id : s.entries[i] # None => Right(s.entries[i], delivered'[i]),
         accepted' \subseteq Id, uploaded' \subseteq Id, rotten' \subseteq Data,
         guard' \subseteq Data, WorkerType'
  PROVE  QueueInv'
<1> USE DEF QueueInv
<1>1. /\ disk' \in {disk, s} /\ memory' \in {s, Empty} /\ up' \in BOOLEAN
      /\ objects' \subseteq objects /\ age' = Kept(age)
  OBVIOUS
<1>2. disk \in State /\ memory \in State /\ age \in [Id -> 0 .. 2]
  BY DEF TypeOK
<1>3. disk' \in State /\ memory' \in State
  BY <1>1, <1>2, EmptyState
<1>4. age' \in [Id -> 0 .. 2] /\ \A i \in Id : disk'.entries[i] = None => age'[i] = 0
  BY <1>1, <1>2 DEF Kept, Remaining
<1>5. TypeOK'
  <2>1. objects' \subseteq Data
    BY <1>1 DEF TypeOK
  <2>2. delivered' \in [Id -> Nat]
    BY QueueAssumption
  <2> QED
    BY <1>1, <1>3, <1>4, <2>1, <2>2 DEF TypeOK, WorkerType
<1>6. Count(disk') <= MaxItems /\ Count(memory') <= MaxItems
  BY <1>1, EmptyState DEF Sound
<1>7. Sound(disk)' /\ Sound(memory)'
  <2>1. \A i \in Id : memory'.entries[i] # None => Right(memory'.entries[i], delivered'[i])
    BY <1>1, EmptyState
  <2>2. Count(disk)' = Count(disk') /\ Count(memory)' = Count(memory')
    BY DEF Count, IsActive
  <2> QED
    BY <1>6, <2>1, <2>2 DEF Sound, Right
<1>8. AttemptsAreBounded'
  BY QueueAssumption DEF AttemptsAreBounded
<1>9. Within(memory, disk)'
  <2>1. CASE memory' = Empty
    BY <2>1, EmptyState DEF Within
  <2>2. CASE memory' = s
    BY <2>2, <1>1 DEF Within
  <2> QED
    BY <1>1, <2>1, <2>2
<1>10. Absent'
  BY <1>4 DEF Absent
<1> QED
  BY <1>5, <1>7, <1>8, <1>9, <1>10

\* The same for a step that persists s.
LEMMA PersistKeepsInv ==
  ASSUME QueueInv, NEW s \in State, NEW gone, Wrote(s, gone),
         Within(s, disk), Count(s) <= MaxItems,
         delivered' \in [Id -> 0 .. MaxAttempts],
         \A i \in Id : disk'.entries[i] = None => delivered'[i] = 0,
         \A i \in Id : disk'.entries[i] # None => Right(disk'.entries[i], delivered'[i]),
         \A i \in Id : s.entries[i] # None => Right(s.entries[i], delivered'[i]),
         accepted' \subseteq Id, uploaded' \subseteq Id, rotten' \subseteq Data,
         guard' \subseteq Data, WorkerType'
  PROVE  QueueInv'
<1>1. TypeOK
  BY DEF QueueInv
<1>2. /\ disk' \in {disk, s} /\ memory' \in {s, Empty} /\ up' \in BOOLEAN
      /\ objects' \subseteq objects /\ age' = Kept(age)
  BY <1>1, WroteOutcome
<1> QED
  BY <1>2, InstallKeepsInv

\* An operation of a caller, which leaves no entry with more calls than attempts.
LEMMA OperateKeepsInv ==
  ASSUME QueueInv, NEW s \in State, NEW gone, Operate(s, gone),
         Within(s, disk), Count(s) <= MaxItems, accepted' \subseteq Id,
         \A i \in Id : s.entries[i] # None => Right(s.entries[i], delivered[i])
  PROVE  QueueInv'
<1> USE DEF QueueInv
<1>1. Wrote(s, gone)
  BY DEF Operate, Wrote
<1>2. disk' \in {disk, s}
  BY <1>1, WroteOutcome
<1>3. /\ delivered \in [Id -> 0 .. MaxAttempts]
  BY QueueAssumption DEF TypeOK, AttemptsAreBounded
<1>4. /\ delivered' = Kept(delivered) /\ uploaded' = Remaining(uploaded) /\ rotten' = rotten
  BY DEF Operate
<1>5. /\ delivered' \in [Id -> 0 .. MaxAttempts]
      /\ \A i \in Id : delivered'[i] = IF disk'.entries[i] = None THEN 0 ELSE delivered[i]
  BY <1>3, <1>4, QueueAssumption DEF Kept, Remaining
<1>6. \A i \in Id : disk'.entries[i] # None => Right(disk'.entries[i], delivered'[i])
  BY <1>2, <1>5 DEF Sound
<1>7. \A i \in Id : s.entries[i] # None => Right(s.entries[i], delivered'[i])
  <2> SUFFICES ASSUME NEW i \in Id, s.entries[i] # None
               PROVE  Right(s.entries[i], delivered'[i])
    OBVIOUS
  <2>1. Right(s.entries[i], delivered[i])
    OBVIOUS
  <2>2. disk'.entries[i] # None
    BY <1>2 DEF Within
  <2> QED
    BY <1>5, <2>1, <2>2
<1>8. guard' \subseteq Data /\ WorkerType'
  <2>1. worker' \in {worker, Off} /\ guard' \in {guard, {}}
    BY DEF Operate, PersistCut, Down
  <2>2. guard' \subseteq Data
    BY <2>1 DEF TypeOK
  <2>3. CASE worker' = worker
    BY <2>2, <2>3 DEF WorkerType
  <2>4. CASE worker' = Off
    BY <2>2, <2>4 DEF WorkerType, Off, Idle
  <2> QED
    BY <2>1, <2>2, <2>3, <2>4
<1>9. uploaded' \subseteq Id /\ rotten' \subseteq Data
  BY <1>4 DEF TypeOK, Remaining
<1> QED
  BY <1>1, <1>5, <1>6, <1>7, <1>8, <1>9, PersistKeepsInv

-------------------------------------------------------------------------------
(* The operations of Store *)

\* expireLocked keeps a sound state sound.
LEMMA ExpiredIsSound ==
  ASSUME QueueInv, NEW t \in State, Sound(t), Within(t, disk)
  PROVE  /\ Within(Expired(t), disk) /\ Count(Expired(t)) <= MaxItems
         /\ \A i \in Id : Expired(t).entries[i] # None => Right(Expired(t).entries[i], delivered[i])
<1> DEFINE s == Expired(t)
<1>1. \A i \in Id : s.entries[i] =
         IF Due(t, i) THEN [t.entries[i] EXCEPT !.state = "expired"]
         ELSE IF Forgotten(t, i) THEN None ELSE t.entries[i]
  BY ExpiredState
<1>2. \A i \in Id : t.entries[i] # None => t.entries[i] \in Entry
  BY DEF State
<1>3. \A i \in Id : Due(t, i) =>
         /\ t.entries[i] # None /\ s.entries[i].state = "expired"
         /\ s.entries[i].data = t.entries[i].data /\ s.entries[i].attempt = t.entries[i].attempt
  BY <1>1, <1>2 DEF Due, IsActive, Entry
<1>4. \A i \in Id : ~Due(t, i) => s.entries[i] \in {None, t.entries[i]}
  BY <1>1
<1> HIDE DEF s
<1>5. \A i \in Id : IsActive(s, i) => IsActive(t, i)
  BY <1>3, <1>4 DEF IsActive, Active
<1>6. Count(s) <= MaxItems
  <2>1. Count(s) <= Count(t) /\ Count(t) <= MaxItems
    BY <1>5, CountMonotone DEF Sound
  <2> QED
    BY <2>1, CountType, QueueAssumption
<1>7. Within(s, disk)
  BY <1>3, <1>4 DEF Within
<1>8. \A i \in Id : s.entries[i] # None => Right(s.entries[i], delivered[i])
  BY <1>3, <1>4 DEF Sound, Right, Active
<1> QED
  BY <1>6, <1>7, <1>8 DEF s

\* Replacing an entry of disk by one with the same ciphertext and the same
\* attempts, active only if the entry was, keeps the state sound.
LEMMA ReplacedIsSound ==
  ASSUME QueueInv, NEW i \in Id, NEW e \in Entry \cup {None},
         e # None => /\ disk.entries[i] # None /\ e.data = disk.entries[i].data
                     /\ Right(e, delivered[i])
                     /\ e.state \in Active => disk.entries[i].state \in Active
  PROVE  /\ Within(With(disk, i, e), disk) /\ Count(With(disk, i, e)) <= MaxItems
         /\ With(disk, i, e) \in State
         /\ \A j \in Id : With(disk, i, e).entries[j] # None =>
                           Right(With(disk, i, e).entries[j], delivered[j])
<1> DEFINE s == With(disk, i, e)
<1>1. disk \in State
  BY DEF QueueInv, TypeOK
<1>2. s \in State /\ s.entries[i] = e /\ \A j \in Id : j # i => s.entries[j] = disk.entries[j]
  BY <1>1, WithState
<1> HIDE DEF s
<1>3. \A j \in Id : IsActive(s, j) => IsActive(disk, j)
  BY <1>2 DEF IsActive
<1>4. Count(s) <= MaxItems
  <2>1. Count(s) <= Count(disk) /\ Count(disk) <= MaxItems
    BY <1>3, CountMonotone DEF Sound, QueueInv
  <2> QED
    BY <2>1, CountType, QueueAssumption
<1>5. Within(s, disk)
  BY <1>2 DEF Within
<1>6. \A j \in Id : s.entries[j] # None => Right(s.entries[j], delivered[j])
  BY <1>2 DEF Sound, QueueInv
<1> QED
  BY <1>2, <1>4, <1>5, <1>6 DEF s

\* expireLocked, on a refreshed memory or, in Purge, on a stale one.
LEMMA ExpireKeepsInv == QueueInv /\ (Expire \/ Purge) => QueueInv'
<1> SUFFICES ASSUME QueueInv, Expire \/ Purge PROVE QueueInv'
  OBVIOUS
<1>1. /\ disk \in State /\ memory \in State /\ Sound(disk) /\ Sound(memory)
      /\ Within(disk, disk) /\ Within(memory, disk) /\ accepted \subseteq Id
  BY DEF QueueInv, TypeOK, Within
<1>2. CASE Expire
  <2> DEFINE s == Expired(disk)
  <2>1. /\ s \in State /\ Within(s, disk) /\ Count(s) <= MaxItems
        /\ \A i \in Id : s.entries[i] # None => Right(s.entries[i], delivered[i])
    BY <1>1, ExpiredState, ExpiredIsSound
  <2>2. PICK gone : Operate(s, gone)
    BY <1>2 DEF Expire
  <2>3. accepted' \subseteq Id
    BY <1>1, <1>2 DEF Expire
  <2> HIDE DEF s
  <2> QED
    BY <2>1, <2>2, <2>3, OperateKeepsInv
<1>3. CASE Purge
  <2> DEFINE s == Expired(memory)
  <2>1. /\ s \in State /\ Within(s, disk) /\ Count(s) <= MaxItems
        /\ \A i \in Id : s.entries[i] # None => Right(s.entries[i], delivered[i])
    BY <1>1, ExpiredState, ExpiredIsSound
  <2>2. PICK gone : Operate(s, gone)
    BY <1>3 DEF Purge
  <2>3. accepted' \subseteq Id
    BY <1>1, <1>3 DEF Purge
  <2> HIDE DEF s
  <2> QED
    BY <2>1, <2>2, <2>3, OperateKeepsInv
<1> QED
  BY <1>2, <1>3

\* Retry, Cancel and Delete.
LEMMA ReplaceKeepsInv ==
  ASSUME QueueInv, NEW i \in Id, Retry(i) \/ Cancel(i) \/ Delete(i)
  PROVE  QueueInv'
<1> DEFINE e == disk.entries[i]
<1>1. disk \in State /\ accepted \subseteq Id /\ (e # None => e \in Entry /\ Right(e, delivered[i]))
  BY DEF QueueInv, TypeOK, State, Sound
<1>2. CASE Retry(i)
  <2> DEFINE f == [e EXCEPT !.state = "queued"]
             s == With(disk, i, f)
  <2>1. e # None /\ Retryable(e) /\ Operate(s, {}) /\ accepted' = accepted
    BY <1>2 DEF Retry
  <2>2. /\ f \in Entry /\ f.data = e.data /\ f.attempt = e.attempt /\ f.state = "queued"
    BY <1>1, <2>1 DEF Entry, Active
  <2>3. e.attempt <= MaxAttempts /\ e.state \in Active
    BY <1>1, <2>1, QueueAssumption DEF Retryable, Right, Active, Entry
  <2>4. Right(f, delivered[i])
    BY <1>1, <2>1, <2>2, <2>3 DEF Right
  <2> HIDE DEF f
  <2>5. /\ Within(s, disk) /\ Count(s) <= MaxItems /\ s \in State
        /\ \A j \in Id : s.entries[j] # None => Right(s.entries[j], delivered[j])
    BY <2>1, <2>2, <2>3, <2>4, ReplacedIsSound
  <2> HIDE DEF s
  <2> QED
    BY <1>1, <2>1, <2>5, OperateKeepsInv
<1>3. CASE Cancel(i)
  <2> DEFINE f == [e EXCEPT !.state = "canceled"]
             s == With(disk, i, f)
             gone == Removable(s, {e.data})
  <2>1. e # None /\ Operate(s, gone) /\ accepted' = accepted
    BY <1>3 DEF Cancel, IsActive
  <2>2. /\ f \in Entry /\ f.data = e.data /\ f.attempt = e.attempt /\ f.state = "canceled"
    BY <1>1, <2>1 DEF Entry, Ended
  <2>3. Right(f, delivered[i]) /\ f.state \notin Active
    BY <1>1, <2>1, <2>2 DEF Right, Active
  <2> HIDE DEF f
  <2>4. /\ Within(s, disk) /\ Count(s) <= MaxItems /\ s \in State
        /\ \A j \in Id : s.entries[j] # None => Right(s.entries[j], delivered[j])
    BY <2>1, <2>2, <2>3, ReplacedIsSound
  <2> HIDE DEF s, gone
  <2> QED
    BY <1>1, <2>1, <2>4, OperateKeepsInv
<1>4. CASE Delete(i)
  <2> DEFINE s == With(disk, i, None)
             gone == Removable(s, {e.data})
  <2>1. Operate(s, gone) /\ accepted' \subseteq Id
    BY <1>1, <1>4 DEF Delete
  <2>2. /\ Within(s, disk) /\ Count(s) <= MaxItems /\ s \in State
        /\ \A j \in Id : s.entries[j] # None => Right(s.entries[j], delivered[j])
    BY ReplacedIsSound
  <2> HIDE DEF s, gone
  <2> QED
    BY <2>1, <2>2, OperateKeepsInv
<1> QED
  BY <1>2, <1>3, <1>4

\* Pause and Resume.
LEMMA SetPausedKeepsInv ==
  ASSUME QueueInv, NEW paused \in BOOLEAN, SetPaused(paused)
  PROVE  QueueInv'
<1> DEFINE s == [disk EXCEPT !.paused = paused]
<1>1. disk \in State /\ accepted \subseteq Id /\ Sound(disk)
  BY DEF QueueInv, TypeOK
<1>2. s \in State /\ s.entries = disk.entries
  BY <1>1 DEF State
<1>3. Operate(s, {}) /\ accepted' = accepted
  BY DEF SetPaused
<1> HIDE DEF s
<1>4. Count(s) = Count(disk)
  BY <1>2 DEF Count, IsActive
<1>5. Within(s, disk)
  BY <1>2 DEF Within
<1> QED
  BY <1>1, <1>2, <1>3, <1>4, <1>5, OperateKeepsInv DEF Sound

\* A step that changes none of the invariant's parts but memory, which it may
\* refresh, and the worker.
LEMMA RefreshKeepsInv ==
  ASSUME QueueInv, disk' = disk, memory' \in {memory, disk, Empty}, objects' \subseteq Data,
         up' \in BOOLEAN, age' = age, delivered' = delivered, accepted' \subseteq Id,
         uploaded' \subseteq Id, rotten' \subseteq Data, guard' \subseteq Data, WorkerType'
  PROVE  QueueInv'
<1> USE DEF QueueInv
<1>1. memory' \in State /\ Sound(memory') /\ Within(memory', disk)
  BY EmptyState DEF TypeOK, Sound, Within
<1>2. TypeOK'
  BY <1>1 DEF TypeOK, WorkerType
<1>3. Sound(disk)' /\ Sound(memory)'
  <2>1. Count(disk)' = Count(disk) /\ Count(memory)' = Count(memory')
    BY DEF Count, IsActive
  <2> QED
    BY <1>1, <2>1 DEF Sound
<1>4. Within(memory, disk)'
  BY <1>1 DEF Within
<1> QED
  BY <1>2, <1>3, <1>4 DEF AttemptsAreBounded, Absent

\* enqueueOpaque of a new key, which the quota has room for.
LEMMA EnqueueKeepsInv ==
  ASSUME QueueInv, NEW i \in Id, NEW k \in Key, NEW d \in Data, Enqueue(i, k, d)
  PROVE  QueueInv'
<1> USE DEF QueueInv
<1> DEFINE e == [key |-> k, data |-> d, state |-> "queued", attempt |-> 0]
           s == With(disk, i, e)
<1>1. disk \in State /\ disk.entries[i] = None /\ delivered[i] = 0 /\ delivered \in [Id -> Nat]
  BY DEF TypeOK, Enqueue, Absent
<1>2. e \in Entry
  BY QueueAssumption DEF Entry, Active
<1>3. s \in State /\ s.entries[i] = e /\ \A j \in Id : j # i => s.entries[j] = disk.entries[j]
  BY <1>1, <1>2, WithState
<1>4. /\ disk' \in {disk, s} /\ memory' \in {s, disk, Empty} /\ (memory' = s => disk' = s)
      /\ objects' \subseteq Data /\ up' \in BOOLEAN
      /\ worker' \in {worker, Off} /\ guard' \in {guard, {}} /\ accepted' \subseteq Id
      /\ age' = age /\ delivered' = delivered /\ uploaded' = uploaded /\ rotten' \subseteq Data
  <2>1. /\ up /\ age' = age /\ delivered' = delivered /\ uploaded' = uploaded
        /\ rotten' \subseteq Data
    BY DEF Enqueue, TypeOK
  <2>2. CASE /\ disk' = s /\ memory' = s /\ objects' = objects \cup {d}
             /\ accepted' = accepted \cup {i} /\ UNCHANGED <<up, worker, guard>>
    BY <2>1, <2>2 DEF TypeOK
  <2>3. CASE /\ \/ "write" \in Faults /\ UNCHANGED disk
                \/ "sync" \in Faults /\ disk' = s
             /\ memory' = disk /\ objects' = (objects \cup {d}) \ Removable(disk, {d})
             /\ UNCHANGED <<up, worker, guard, accepted>>
    <3>1. memory' = s => disk' = s
      <4>1. disk # s
        BY <1>1, <1>2, <1>3, QueueAssumption
      <4> QED
        BY <2>3, <4>1
    <3> QED
      BY <2>1, <2>3, <3>1 DEF TypeOK
  <2>4. CASE "crash" \in Faults /\ EnqueueCut(s, d) /\ Down /\ UNCHANGED accepted
    <3>1. Empty # s
      BY <1>2, <1>3, EmptyState, QueueAssumption
    <3> QED
      BY <2>1, <2>4, <3>1 DEF TypeOK, EnqueueCut, Down
  <2> QED
    BY <2>2, <2>3, <2>4 DEF Enqueue
<1>5. Count(s) <= MaxItems
  <2>1. Count(s) <= Count(disk) + 1
    BY <1>3, CountAdd DEF IsActive
  <2>2. Count(disk) < MaxItems
    BY DEF Enqueue, HasRoom
  <2> QED
    BY <2>1, <2>2, CountType, QueueAssumption
<1>6. \A j \in Id : s.entries[j] # None => Right(s.entries[j], delivered[j])
  <2>1. Right(e, delivered[i])
    BY <1>1, QueueAssumption DEF Right
  <2> QED
    BY <1>3, <2>1 DEF Sound
<1>7. Within(disk, s)
  BY <1>1, <1>3 DEF Within
<1> HIDE DEF s
<1>8. TypeOK' /\ WorkerType'
  <2>1. WorkerType'
    <3>1. CASE worker' = worker
      BY <3>1 DEF WorkerType
    <3>2. CASE worker' = Off
      BY <3>2 DEF WorkerType, Off, Idle
    <3> QED
      BY <1>4, <3>1, <3>2
  <2>2. disk' \in State /\ memory' \in State
    BY <1>1, <1>3, <1>4, EmptyState
  <2> QED
    BY <1>4, <2>1, <2>2 DEF TypeOK, WorkerType
<1>9. Sound(disk)' /\ Sound(memory)'
  <2>1. Count(disk)' = Count(disk') /\ Count(memory)' = Count(memory')
    BY DEF Count, IsActive
  <2>2. Count(disk') <= MaxItems /\ Count(memory') <= MaxItems
    BY <1>4, <1>5, EmptyState DEF Sound
  <2>3. \A j \in Id : /\ disk'.entries[j] # None => Right(disk'.entries[j], delivered[j])
                      /\ memory'.entries[j] # None => Right(memory'.entries[j], delivered[j])
    BY <1>4, <1>6, EmptyState DEF Sound
  <2> QED
    BY <1>4, <2>1, <2>2, <2>3 DEF Sound
<1>10. Within(memory, disk)'
  BY <1>4, <1>7, EmptyState DEF Within
<1>11. Absent' /\ AttemptsAreBounded'
  BY <1>1, <1>3, <1>4 DEF Absent, AttemptsAreBounded
<1> QED
  BY <1>8, <1>9, <1>10, <1>11

-------------------------------------------------------------------------------
(* The worker *)

\* A step of the worker that gives no entry to the handler.
LEMMA WorkerKeepsInv ==
  ASSUME QueueInv, NEW s \in State, NEW gone, NEW w, NEW f, WorkerStep(s, gone, w, f),
         delivered' = delivered \/ delivered' = Kept(delivered),
         \A i \in Id : disk'.entries[i] = None => delivered'[i] = 0,
         Within(s, disk), Count(s) <= MaxItems, accepted' \subseteq Id, WorkerType',
         \A i \in Id : s.entries[i] # None => Right(s.entries[i], delivered[i])
  PROVE  QueueInv'
<1> USE DEF QueueInv
<1>1. Wrote(s, gone)
  BY DEF WorkerStep, Wrote
<1>2. disk' \in {disk, s}
  BY <1>1, WroteOutcome
<1>3. delivered \in [Id -> 0 .. MaxAttempts]
  BY QueueAssumption DEF TypeOK, AttemptsAreBounded
<1>4. /\ delivered' \in [Id -> 0 .. MaxAttempts]
      /\ \A i \in Id : delivered'[i] = IF disk'.entries[i] = None THEN 0 ELSE delivered[i]
  <2>1. CASE delivered' = Kept(delivered)
    BY <1>3, <2>1, QueueAssumption DEF Kept, Remaining
  <2>2. CASE delivered' = delivered
    BY <1>3, <2>2
  <2> QED
    BY <2>1, <2>2
<1>5. \A i \in Id : disk'.entries[i] # None => Right(disk'.entries[i], delivered'[i])
  BY <1>2, <1>4 DEF Sound
<1>6. \A i \in Id : s.entries[i] # None => Right(s.entries[i], delivered'[i])
  <2> SUFFICES ASSUME NEW i \in Id, s.entries[i] # None
               PROVE  Right(s.entries[i], delivered'[i])
    OBVIOUS
  <2>1. Right(s.entries[i], delivered[i])
    OBVIOUS
  <2>2. disk'.entries[i] # None
    BY <1>2 DEF Within
  <2> QED
    BY <1>4, <2>1, <2>2
<1>7. guard' \subseteq Data /\ uploaded' \subseteq Id /\ rotten' \subseteq Data
  BY DEF WorkerStep, PersistCut, Down, TypeOK, Remaining
<1> QED
  BY <1>1, <1>4, <1>5, <1>6, <1>7, PersistKeepsInv

\* Claim counts the attempt before the handler is called.
LEMMA ClaimKeepsInv ==
  ASSUME QueueInv, NEW i \in Id, Claim(i)
  PROVE  QueueInv'
<1> USE DEF QueueInv
<1> DEFINE e == disk.entries[i]
           f == Attempted(e)
           s == With(disk, i, f)
           w == [worker EXCEPT !.mode = "claimed", !.id = i, !.data = e.data]
<1>1. /\ disk \in State /\ e \in Entry /\ e.state \in Active /\ Right(e, delivered[i])
      /\ delivered \in [Id -> Nat] /\ delivered[i] <= e.attempt
  BY DEF TypeOK, State, Claim, Claiming, Sound, Active, Right
<1>2. e # None /\ e.attempt < MaxAttempts /\ WorkerStep(s, {}, w, worker) /\ accepted' = accepted
  BY DEF Claim, Claiming
<1>3. delivered' = [delivered EXCEPT ![i] = IF worker'.mode = "claimed" THEN @ + 1 ELSE @]
  BY DEF Claim
<1>4. /\ f \in Entry /\ f.data = e.data /\ f.state = "processing" /\ f.attempt = e.attempt + 1
  <2> DEFINE n == e.attempt + 1
  <2>1. n \in 0 .. MaxAttempts + 1
    BY <1>1, <1>2, Bounds DEF Entry
  <2>2. "processing" \in Active \cup Ended
    BY DEF Active
  <2>3. f = Updated(e, "processing", n)
    BY DEF Attempted, Updated
  <2>4. f \in Entry /\ f.data = e.data /\ f.state = "processing" /\ f.attempt = n
    <3> HIDE DEF n, e, f
    <3> QED
      BY <1>1, <2>1, <2>2, <2>3, EntryUpdate
  <2> QED
    BY <2>4
<1>5. s \in State /\ s.entries[i] = f /\ \A j \in Id : j # i => s.entries[j] = disk.entries[j]
  BY <1>1, <1>4, WithState
<1> HIDE DEF f
<1>6. Wrote(s, {})
  BY <1>2 DEF WorkerStep, Wrote
<1> HIDE DEF s
<1>7. disk' \in {disk, s}
  BY <1>5, <1>6, WroteOutcome
<1>8. /\ worker' \in {w, worker, Off} /\ (worker' = w => disk' = s \/ w = worker \/ w = Off)
      /\ guard' \subseteq Data /\ uploaded' \subseteq Id /\ rotten' \subseteq Data
  BY <1>2 DEF WorkerStep, Persists, PersistFails, PersistCut, Down, TypeOK, Remaining
<1>9. worker.mode = "idle" /\ Off.mode = "off" /\ w.mode = "claimed"
  BY DEF Claim, Claiming, Off, Idle, TypeOK
<1>10. (worker'.mode = "claimed" => disk' = s) /\ w # worker /\ w # Off
  BY <1>8, <1>9
<1>11. /\ delivered' \in [Id -> 0 .. MaxAttempts]
       /\ \A j \in Id : j # i => delivered'[j] = delivered[j]
       /\ delivered'[i] \in {delivered[i], delivered[i] + 1}
       /\ (delivered'[i] # delivered[i] => disk' = s)
  <2>1. delivered \in [Id -> 0 .. MaxAttempts] /\ delivered[i] + 1 \in 0 .. MaxAttempts
    <3>1. e.attempt \in Nat
      BY <1>1 DEF Entry
    <3> QED
      BY <1>1, <1>2, <3>1, QueueAssumption DEF AttemptsAreBounded
  <2> QED
    BY <1>3, <1>10, <2>1
<1>12. Right(f, delivered'[i])
  <2>1. e.attempt \in Nat /\ delivered[i] \in Nat
    BY <1>1 DEF Entry
  <2> QED
    BY <1>1, <1>2, <1>4, <1>11, <2>1, QueueAssumption DEF Right
<1>13. Within(s, disk)
  BY <1>2, <1>4, <1>5 DEF Within
<1>14. Count(s) <= MaxItems
  <2>1. \A j \in Id : IsActive(s, j) => IsActive(disk, j)
    BY <1>1, <1>2, <1>5 DEF IsActive
  <2>2. Count(s) <= Count(disk) /\ Count(disk) <= MaxItems
    BY <2>1, CountMonotone DEF Sound
  <2> QED
    BY <2>2, CountType, QueueAssumption
<1>15. \A j \in Id : s.entries[j] # None => Right(s.entries[j], delivered'[j])
  BY <1>5, <1>11, <1>12 DEF Sound
<1>16. \A j \in Id : disk'.entries[j] # None => Right(disk'.entries[j], delivered'[j])
  <2>1. CASE disk' = s
    BY <1>15, <2>1
  <2>2. CASE disk' = disk /\ disk' # s
    BY <1>11, <2>2 DEF Sound
  <2> QED
    BY <1>7, <2>1, <2>2
<1>17. \A j \in Id : disk'.entries[j] = None => delivered'[j] = 0
  <2>1. f # None
    BY <1>4, QueueAssumption
  <2> QED
    BY <1>2, <1>5, <1>7, <1>11, <2>1 DEF Absent
<1>18. WorkerType'
  <2>1. CASE worker' = w
    BY <2>1, <1>1 DEF WorkerType, Entry
  <2>2. CASE worker' = worker
    BY <2>2 DEF WorkerType
  <2>3. CASE worker' = Off
    BY <2>3 DEF WorkerType, Off, Idle
  <2> QED
    BY <1>8, <2>1, <2>2, <2>3
<1>19. accepted' \subseteq Id
  BY <1>2 DEF TypeOK
<1> QED
  BY <1>5, <1>6, <1>8, <1>11, <1>13, <1>14, <1>15, <1>16, <1>17, <1>18, <1>19, PersistKeepsInv

\* Claim of an entry without attempts or without a readable object.
LEMMA ClaimEndsKeepsInv ==
  ASSUME QueueInv, NEW i \in Id, ClaimExceeded(i) \/ ClaimCorrupt(i)
  PROVE  QueueInv'
<1> USE DEF QueueInv
<1> DEFINE e == disk.entries[i]
<1>1. /\ disk \in State /\ e \in Entry /\ e.state \in Active /\ Right(e, delivered[i])
      /\ accepted \subseteq Id /\ e # None
  BY DEF TypeOK, State, ClaimExceeded, ClaimCorrupt, Claiming, Sound, Active
<1>2. worker.mode = "idle"
  BY DEF ClaimExceeded, ClaimCorrupt, Claiming
<1>3. CASE ClaimExceeded(i)
  <2> DEFINE f == [e EXCEPT !.state = "failed", !.attempt = e.attempt + 1]
             s == With(disk, i, f)
  <2>1. e.attempt >= MaxAttempts /\ WorkerStep(s, {}, worker, worker)
        /\ accepted' = accepted /\ delivered' = delivered
    BY <1>3 DEF ClaimExceeded
  <2>2. e.attempt \in Nat /\ e.attempt = MaxAttempts
    BY <1>1, <2>1, QueueAssumption DEF Entry, Right
  <2>3. f \in Entry /\ f.data = e.data /\ f.state = "failed" /\ f.attempt = e.attempt + 1
    <3> DEFINE n == e.attempt + 1
    <3>1. n \in 0 .. MaxAttempts + 1
      BY <2>2, Bounds
    <3>2. "failed" \in Active \cup Ended
      BY DEF Ended
    <3>3. f = Updated(e, "failed", n)
      BY DEF Updated
    <3>4. f \in Entry /\ f.data = e.data /\ f.state = "failed" /\ f.attempt = n
      <4> HIDE DEF n, e, f
      <4> QED
        BY <1>1, <3>1, <3>2, <3>3, EntryUpdate
    <3> QED
      BY <3>4
  <2>4. Right(f, delivered[i])
    <3>1. delivered[i] \in Nat
      BY DEF TypeOK
    <3> QED
      BY <1>1, <2>2, <2>3, <3>1, QueueAssumption DEF Right, Active
  <2>5. f.state \notin Active
    BY <2>3 DEF Active
  <2> HIDE DEF f
  <2>6. /\ Within(s, disk) /\ Count(s) <= MaxItems /\ s \in State
        /\ \A j \in Id : s.entries[j] # None => Right(s.entries[j], delivered[j])
    BY <1>1, <2>3, <2>4, <2>5, ReplacedIsSound
  <2>7. \A j \in Id : disk.entries[j] # None => s.entries[j] # None
    <3>1. s.entries[i] = f /\ \A j \in Id : j # i => s.entries[j] = disk.entries[j]
      BY <1>1, <2>3, WithState
    <3> QED
      BY <2>3, <3>1, NoneIsNoEntry
  <2> HIDE DEF s
  <2>8. worker' \in {worker, Off}
    BY <2>1 DEF WorkerStep, PersistCut, Down
  <2>9. WorkerType'
    BY <1>2, <2>8 DEF WorkerType, Off, Idle
  <2>10. disk' \in {disk, s}
    BY <2>1 DEF WorkerStep, Persists, PersistFails, PersistCut
  <2>11. \A j \in Id : disk'.entries[j] = None => delivered'[j] = 0
    BY <2>1, <2>7, <2>10 DEF Absent
  <2> QED
    BY <1>1, <2>1, <2>6, <2>9, <2>11, WorkerKeepsInv
<1>4. CASE ClaimCorrupt(i)
  <2> DEFINE s == With(disk, i, None)
  <2>1. WorkerStep(s, {}, worker, worker) /\ accepted' = accepted /\ delivered' = Kept(delivered)
    BY <1>4 DEF ClaimCorrupt
  <2>2. /\ Within(s, disk) /\ Count(s) <= MaxItems /\ s \in State
        /\ \A j \in Id : s.entries[j] # None => Right(s.entries[j], delivered[j])
    BY ReplacedIsSound
  <2> HIDE DEF s
  <2>3. worker' \in {worker, Off}
    BY <2>1 DEF WorkerStep, PersistCut, Down
  <2>4. WorkerType'
    BY <1>2, <2>3 DEF WorkerType, Off, Idle
  <2>5. \A j \in Id : disk'.entries[j] = None => delivered'[j] = 0
    BY <2>1 DEF Kept, Remaining
  <2> QED
    BY <1>1, <2>1, <2>2, <2>4, <2>5, WorkerKeepsInv
<1> QED
  BY <1>3, <1>4

\* CompleteWithError.
LEMMA CompleteKeepsInv ==
  ASSUME QueueInv, Complete
  PROVE  QueueInv'
<1> USE DEF QueueInv
<1> DEFINE i == worker.id
           e == disk.entries[i]
           a == After(e)
           f == [e EXCEPT !.state = a]
           s == With(disk, i, f)
           gone == IF a \in DeleteOn THEN Removable(s, {e.data}) ELSE {}
<1>1. /\ i \in Id /\ e # None /\ e.state = "processing" /\ worker.mode \in {"uploaded", "failed"}
      /\ WorkerStep(s, gone, Released, Dead) /\ accepted' = accepted /\ delivered' = delivered
  BY DEF Complete, Completing, WorkerType
<1>2. disk \in State /\ e \in Entry /\ Right(e, delivered[i]) /\ accepted \subseteq Id
  BY <1>1 DEF TypeOK, State, Sound
<1>3. /\ a \in {"completed", "failed", "retrying"} /\ (a = "failed" => e.attempt >= MaxAttempts)
      /\ a \in Active \cup Ended
  BY DEF After, Active, Ended
<1> HIDE DEF a
<1>4. f \in Entry /\ f.data = e.data /\ f.state = a /\ f.attempt = e.attempt
  BY <1>2, <1>3 DEF Entry
<1>5. Right(f, delivered[i])
  BY <1>1, <1>2, <1>3, <1>4 DEF Right, Active
<1> HIDE DEF f
<1>6. /\ Within(s, disk) /\ Count(s) <= MaxItems /\ s \in State
      /\ \A j \in Id : s.entries[j] # None => Right(s.entries[j], delivered[j])
  BY <1>1, <1>4, <1>5, ReplacedIsSound DEF Active
<1>7. \A j \in Id : disk.entries[j] # None => s.entries[j] # None
  <2>1. s.entries[i] = f /\ \A j \in Id : j # i => s.entries[j] = disk.entries[j]
    BY <1>1, <1>2, <1>4, WithState
  <2> QED
    BY <1>4, <2>1, NoneIsNoEntry
<1> HIDE DEF s, gone
<1>8. disk' \in {disk, s} /\ worker' \in {Released, Dead, Off}
  BY <1>1 DEF WorkerStep, Persists, PersistFails, PersistCut, Down
<1>9. WorkerType'
  <2>1. worker' \in [mode : {"off", "idle", "dead"}, id : {None}, data : {None}, cancelled : BOOLEAN]
    BY <1>8 DEF WorkerType, Released, Dead, Off, Idle
  <2> QED
    BY <2>1 DEF WorkerType
<1>10. \A j \in Id : disk'.entries[j] = None => delivered'[j] = 0
  BY <1>1, <1>7, <1>8 DEF Absent
<1> QED
  BY <1>1, <1>2, <1>6, <1>9, <1>10, WorkerKeepsInv

\* Steps that write no state.
LEMMA UnwrittenKeepsInv ==
  ASSUME QueueInv,
         \/ Start \/ Stop \/ Exit \/ WorkerExits \/ UploadSucceeds \/ UploadFails
         \/ CompleteRefused \/ CompleteFails \/ (\E d \in Data : Rot(d))
         \/ (\E i \in Id, k \in Key, d \in Data : EnqueueAgain(i, k, d))
  PROVE  QueueInv'
<1>1. /\ TypeOK /\ WorkerType
  BY DEF QueueInv
<1>2. /\ objects \subseteq Data /\ guard \subseteq Data /\ up \in BOOLEAN /\ accepted \subseteq Id
      /\ uploaded \subseteq Id /\ rotten \subseteq Data
  BY <1>1 DEF TypeOK
<1>3. Idle \in [mode : {"idle"}, id : {None}, data : {None}, cancelled : BOOLEAN]
  BY DEF Idle
<1>4. Off \in [mode : {"off"}, id : {None}, data : {None}, cancelled : BOOLEAN]
  BY DEF Off, Idle
<1>5. CASE Start
  <2>1. WorkerType'
    BY <1>3, <1>5 DEF Start, WorkerType
  <2> QED
    BY <1>2, <1>5, <2>1, RefreshKeepsInv DEF Start
<1>6. CASE Stop
  <2>1. WorkerType'
    BY <1>1, <1>4, <1>6 DEF Stop, WorkerType
  <2> QED
    BY <1>2, <1>6, <2>1, RefreshKeepsInv DEF Stop
<1>7. CASE Exit
  <2>1. WorkerType'
    BY <1>4, <1>7 DEF Exit, Down, WorkerType
  <2> QED
    BY <1>2, <1>7, <2>1, RefreshKeepsInv DEF Exit, Down
<1>8. CASE WorkerExits
  <2>1. WorkerType'
    BY <1>4, <1>8 DEF WorkerExits, WorkerType
  <2> QED
    BY <1>2, <1>8, <2>1, RefreshKeepsInv DEF WorkerExits
<1>9. CASE UploadSucceeds
  <2>1. WorkerType'
    BY <1>1, <1>9 DEF UploadSucceeds, WorkerType
  <2>2. guard' \subseteq Data /\ uploaded' \subseteq Id
    BY <1>1, <1>2, <1>9 DEF UploadSucceeds, WorkerType
  <2> QED
    BY <1>2, <1>9, <2>1, <2>2, RefreshKeepsInv DEF UploadSucceeds
<1>10. CASE UploadFails
  <2>1. WorkerType'
    BY <1>1, <1>10 DEF UploadFails, WorkerType
  <2> QED
    BY <1>2, <1>10, <2>1, RefreshKeepsInv DEF UploadFails
<1>11. Dead \in [mode : {"dead"}, id : {None}, data : {None}, cancelled : BOOLEAN]
  BY <1>1 DEF Dead, Released, WorkerType
<1>12. CASE CompleteRefused
  <2>1. WorkerType'
    BY <1>11, <1>12 DEF CompleteRefused, WorkerType
  <2> QED
    BY <1>2, <1>12, <2>1, RefreshKeepsInv DEF CompleteRefused
<1>13. CASE CompleteFails
  <2>1. WorkerType'
    BY <1>11, <1>13 DEF CompleteFails, WorkerType
  <2> QED
    BY <1>2, <1>13, <2>1, RefreshKeepsInv DEF CompleteFails
<1>14. ASSUME NEW d \in Data, Rot(d) PROVE QueueInv'
  <2>1. WorkerType'
    BY <1>1, <1>14 DEF Rot, WorkerType
  <2> QED
    BY <1>2, <1>14, <2>1, RefreshKeepsInv DEF Rot
<1>15. ASSUME NEW i \in Id, NEW k \in Key, NEW d \in Data, EnqueueAgain(i, k, d) PROVE QueueInv'
  <2>1. WorkerType'
    BY <1>1, <1>15 DEF EnqueueAgain, WorkerType
  <2>2. accepted' \subseteq Id
    BY <1>2, <1>15 DEF EnqueueAgain
  <2> QED
    BY <1>2, <1>15, <2>1, <2>2, RefreshKeepsInv DEF EnqueueAgain
<1> QED
  BY <1>5, <1>6, <1>7, <1>8, <1>9, <1>10, <1>12, <1>13, <1>14, <1>15

-------------------------------------------------------------------------------
(* The process, the clock, and the theorems *)

\* The state that NewStore makes of the one on disk.
Reopened == [disk EXCEPT !.entries = [i \in Id |-> Recovered(disk.entries[i], i)]]

\* What loadInitialLocked makes of one entry.
LEMMA RecoveredEntry ==
  ASSUME QueueInv, NEW i \in Id
  PROVE  LET e == disk.entries[i]
             r == Reopened.entries[i]
         IN /\ r \in Entry \cup {None}
            /\ r # None => /\ e # None /\ r.data = e.data /\ r.attempt = e.attempt
                           /\ r.state \in Active => e.state \in Active /\ age[i] = 0 /\ e.data \in objects
                           /\ r.state = "failed" => e.state = "failed"
            /\ (r = None /\ e # None) => e.state \in Active /\ age[i] = 0 /\ e.data \notin objects
            /\ (e # None /\ e.state \in Active /\ age[i] = 0 /\ e.data \in objects) =>
                 r # None /\ r.state \in Active
<1> DEFINE e == disk.entries[i]
           r == Reopened.entries[i]
<1>1. disk \in State /\ age[i] \in 0 .. 2
  BY DEF QueueInv, TypeOK
<1>2. r = Recovered(e, i)
  BY <1>1 DEF Reopened, State
<1>3. e # None => e \in Entry
  BY <1>1 DEF State
<1>4. CASE e = None
  BY <1>2, <1>4 DEF Recovered
<1>5. CASE e # None /\ e.state \in Active /\ age[i] > 0
  <2>1. r = [e EXCEPT !.state = "expired"]
    BY <1>2, <1>5 DEF Recovered
  <2>2. r \in Entry /\ r.data = e.data /\ r.attempt = e.attempt /\ r.state = "expired"
    BY <1>3, <1>5, <2>1 DEF Entry, Ended
  <2> QED
    BY <1>5, <2>2, NoneIsNoEntry DEF Active
<1>6. CASE e # None /\ e.state \in Active /\ ~(age[i] > 0) /\ e.data \notin objects
  BY <1>1, <1>2, <1>6 DEF Recovered
<1>7. CASE e # None /\ e.state = "processing" /\ ~(age[i] > 0) /\ e.data \in objects
  <2>1. r = [e EXCEPT !.state = "queued"]
    BY <1>2, <1>7 DEF Recovered, Active
  <2>2. r \in Entry /\ r.data = e.data /\ r.attempt = e.attempt /\ r.state = "queued"
    BY <1>3, <1>7, <2>1 DEF Entry, Active
  <2> QED
    BY <1>1, <1>7, <2>2, NoneIsNoEntry DEF Active
<1>8. CASE e # None /\ e.state # "processing" /\ (e.state \in Active => ~(age[i] > 0) /\ e.data \in objects)
  <2>1. r = e
    BY <1>2, <1>8 DEF Recovered
  <2> QED
    BY <1>1, <1>3, <1>8, <2>1 DEF Active
<1> QED
  BY <1>4, <1>5, <1>6, <1>7, <1>8 DEF Active

\* NewStore.
LEMMA OpenKeepsInv == ASSUME QueueInv, Open PROVE QueueInv'
<1> DEFINE s == Reopened
<1>1. /\ disk \in State /\ age \in [Id -> 0 .. 2] /\ delivered \in [Id -> 0 .. MaxAttempts]
      /\ accepted \subseteq Id /\ uploaded \subseteq Id /\ rotten \subseteq Data /\ guard \subseteq Data
      /\ up \in BOOLEAN /\ objects \subseteq Data
  BY QueueAssumption DEF QueueInv, TypeOK, AttemptsAreBounded
<1>2. /\ age' = Kept(age) /\ delivered' = Kept(delivered) /\ uploaded' = Remaining(uploaded)
      /\ worker' = worker /\ guard' = guard /\ accepted' = accepted /\ rotten' = rotten
      /\ objects' \subseteq objects
  BY DEF Open
<1>3. WorkerType'
  BY <1>2 DEF QueueInv, WorkerType
<1>4. CASE disk' = s /\ memory' = s /\ up' = TRUE
  <2>1. \A i \in Id : s.entries[i] \in Entry \cup {None}
    BY RecoveredEntry
  <2>2. s \in State
    BY <1>1, <2>1 DEF Reopened, State
  <2>3. Within(s, disk)
    BY RecoveredEntry DEF Within
  <2>4. Count(s) <= MaxItems
    <3>1. \A i \in Id : IsActive(s, i) => IsActive(disk, i)
      BY RecoveredEntry DEF IsActive
    <3>2. Count(s) <= Count(disk) /\ Count(disk) <= MaxItems
      BY <3>1, CountMonotone DEF Sound, QueueInv
    <3> QED
      BY <3>2, CountType, Bounds
  <2>5. \A i \in Id : s.entries[i] # None => Right(s.entries[i], delivered[i])
    BY RecoveredEntry DEF Right, QueueInv, Sound
  <2> HIDE DEF s
  <2>6. /\ delivered' \in [Id -> 0 .. MaxAttempts]
        /\ \A i \in Id : delivered'[i] = IF disk'.entries[i] = None THEN 0 ELSE delivered[i]
    BY <1>1, <1>2, Bounds DEF Kept, Remaining
  <2>7. \A i \in Id : s.entries[i] # None => Right(s.entries[i], delivered'[i])
    BY <1>4, <2>5, <2>6
  <2>8. uploaded' \subseteq Id
    BY <1>1, <1>2 DEF Remaining
  <2> QED
    BY <1>1, <1>2, <1>3, <1>4, <2>2, <2>3, <2>4, <2>6, <2>7, <2>8, InstallKeepsInv
<1>5. CASE disk' = disk /\ memory' = memory /\ up' = up
  <2>1. \A i \in Id : disk.entries[i] = None => age[i] = 0 /\ delivered[i] = 0
    BY DEF QueueInv, Absent
  <2>2. age' = age /\ delivered' = delivered
    BY <1>1, <1>2, <1>5, <2>1 DEF Kept, Remaining
  <2>3. objects' \subseteq Data /\ uploaded' \subseteq Id
    BY <1>1, <1>2 DEF Remaining
  <2> QED
    BY <1>1, <1>2, <1>3, <1>5, <2>2, <2>3, RefreshKeepsInv
<1> QED
  BY <1>4, <1>5 DEF Open, Reopened

\* The clock.
LEMMA ElapseKeepsInv == ASSUME QueueInv, NEW i \in Id, Elapse(i) PROVE QueueInv'
<1> USE DEF QueueInv
<1>1. /\ age \in [Id -> 0 .. 2] /\ age[i] \in {0, 1} /\ disk.entries[i] # None
      /\ age' = [age EXCEPT ![i] = @ + 1]
      /\ UNCHANGED <<disk, objects, memory, up, worker, guard, accepted, delivered, uploaded, rotten>>
  BY DEF TypeOK, Elapse
<1>2. age' \in [Id -> 0 .. 2]
  BY <1>1
<1>3. TypeOK' /\ WorkerType'
  BY <1>1, <1>2 DEF TypeOK, WorkerType
<1>4. Sound(disk)' /\ Sound(memory)' /\ AttemptsAreBounded' /\ Within(memory, disk)'
  BY <1>1 DEF Sound, Count, IsActive, AttemptsAreBounded, Within
<1>5. Absent'
  BY <1>1 DEF Absent
<1> QED
  BY <1>3, <1>4, <1>5

\* Every step keeps the invariant.
LEMMA StepKeepsInv == QueueInv /\ [Next]_vars => QueueInv'
<1> SUFFICES ASSUME QueueInv, [Next]_vars PROVE QueueInv'
  OBVIOUS
<1>1. CASE UNCHANGED vars
  BY <1>1 DEF vars, QueueInv, TypeOK, WorkerType, Sound, Count, IsActive, AttemptsAreBounded, Within, Absent
<1>2. CASE Expire \/ Purge
  BY <1>2, ExpireKeepsInv
<1>3. CASE Open
  BY <1>3, OpenKeepsInv
<1>4. CASE Complete
  BY <1>4, CompleteKeepsInv
<1>5. CASE Start \/ Stop \/ Exit \/ WorkerExits \/ UploadSucceeds \/ UploadFails
           \/ CompleteRefused \/ CompleteFails
  BY <1>5, UnwrittenKeepsInv
<1>6. ASSUME NEW i \in Id, Claim(i) \/ ClaimExceeded(i) \/ ClaimCorrupt(i) PROVE QueueInv'
  BY <1>6, ClaimKeepsInv, ClaimEndsKeepsInv
<1>7. ASSUME NEW i \in Id, Retry(i) \/ Cancel(i) \/ Delete(i) \/ Elapse(i) PROVE QueueInv'
  BY <1>7, ReplaceKeepsInv, ElapseKeepsInv
<1>8. ASSUME NEW i \in Id, NEW k \in Key, NEW d \in Data, Enqueue(i, k, d) \/ EnqueueAgain(i, k, d)
      PROVE  QueueInv'
  BY <1>8, EnqueueKeepsInv, UnwrittenKeepsInv
<1>9. ASSUME NEW paused \in BOOLEAN, SetPaused(paused) PROVE QueueInv'
  BY <1>9, SetPausedKeepsInv
<1>10. ASSUME NEW d \in Data, Rot(d) PROVE QueueInv'
  BY <1>10, UnwrittenKeepsInv
<1> QED
  BY <1>1, <1>2, <1>3, <1>4, <1>5, <1>6, <1>7, <1>8, <1>9, <1>10 DEF Next, WorkerNext

\* The queue is empty and the process down at first.
LEMMA InitInv == Init => QueueInv
<1> SUFFICES ASSUME Init PROVE QueueInv
  OBVIOUS
<1>1. disk = Empty /\ memory = Empty
  BY DEF Init
<1>2. worker = Off
  BY DEF Init
<1>3. WorkerType
  BY <1>2 DEF WorkerType, Off, Idle
<1>4. TypeOK
  <2>1. disk \in State /\ memory \in State
    BY <1>1, EmptyState
  <2>2. age \in [Id -> 0 .. 2] /\ delivered \in [Id -> Nat]
    BY DEF Init
  <2>3. /\ objects \subseteq Data /\ guard \subseteq Data /\ up \in BOOLEAN /\ accepted \subseteq Id
        /\ uploaded \subseteq Id /\ rotten \subseteq Data
    BY DEF Init
  <2> QED
    BY <1>3, <2>1, <2>2, <2>3 DEF TypeOK, WorkerType
<1>5. Sound(disk) /\ Sound(memory)
  BY <1>1, EmptyState DEF Sound
<1>6. AttemptsAreBounded /\ Absent
  BY Bounds DEF Init, AttemptsAreBounded, Absent
<1>7. Within(memory, disk)
  BY <1>1, EmptyState DEF Within
<1> QED
  BY <1>3, <1>4, <1>5, <1>6, <1>7 DEF QueueInv

\* In every behaviour of the queue and its worker the quota holds and the handler is
\* called for an entry at most MaxAttempts times, whatever fails (store.go:1038, 1405).
THEOREM QueueSafe == Spec => [](TypeOK /\ QuotaHolds /\ AttemptsAreBounded)
<1>1. QueueInv => TypeOK /\ QuotaHolds /\ AttemptsAreBounded
  BY DEF QueueInv, Sound, QuotaHolds
<1> QED
  BY <1>1, InitInv, StepKeepsInv, PTL DEF Spec

\* store.go:1038: a restart, a Retry or an Enqueue whose write failed half way
\* never leaves more active entries on disk than the quota.
THEOREM QuotaHoldsThm == Spec => []QuotaHolds
<1>1. QueueInv => QuotaHolds
  BY DEF QueueInv, Sound, QuotaHolds
<1> QED
  BY <1>1, InitInv, StepKeepsInv, PTL DEF Spec

\* The disk, the memory and the worker keep the types of the Go structs.
THEOREM QueueTyped == Spec => []TypeOK
<1>1. QueueInv => TypeOK
  BY DEF QueueInv
<1> QED
  BY <1>1, InitInv, StepKeepsInv, PTL DEF Spec

-------------------------------------------------------------------------------
(* What was accepted is kept *)

\* The entries of s that wait for their upload have their ciphertext, unless the
\* medium has lost it.
Backed(s) ==
  \A i \in Id : (IsActive(s, i) /\ age[i] = 0 /\ s.entries[i].data \notin rotten) =>
                 s.entries[i].data \in objects

\* The entries of accepted are on disk and in memory, and the medium has their object.
Holds == \A i \in accepted : /\ disk.entries[i] # None /\ disk.entries[i].data \notin rotten
                             /\ up => memory.entries[i] # None

KeepInv == Backed(disk) /\ (up => Backed(memory)) /\ Holds

\* An object that an active entry needs is referenced.
LEMMA ActiveIsReferenced ==
  ASSUME NEW s, NEW i \in Id, IsActive(s, i)
  PROVE  s.entries[i].data \in Referenced(s)
<1>1. s.entries[i].state \notin DeleteOn \cup {"canceled"}
  BY QueueAssumption DEF IsActive, Active
<1> QED
  BY <1>1 DEF Referenced, IsActive

\* A step that persists a backed s, and deletes what s does not reference.
LEMMA PersistKeepsAccepted ==
  ASSUME QueueInv, QueueInv', KeepInv, NEW s \in State, NEW gone, Wrote(s, gone),
         gone \cap Referenced(s) = {}, Backed(s), Within(s, disk),
         accepted' \subseteq accepted, \A i \in accepted' : s.entries[i] # None,
         rotten' = rotten
  PROVE  KeepInv'
<1>1. /\ disk' \in {disk, s} /\ memory' \in {s, Empty} /\ (up' => memory' = s)
      /\ (disk' = s \/ objects' = objects) /\ objects \ gone \subseteq objects'
      /\ age' = Kept(age)
  <2>1. CASE Persists(s, gone)
    BY <2>1 DEF Persists, Wrote
  <2>2. CASE PersistFails(s, gone)
    BY <2>2 DEF PersistFails, Wrote
  <2>3. CASE PersistCut(s, gone)
    BY <2>3 DEF PersistCut, Wrote, Down
  <2> QED
    BY <2>1, <2>2, <2>3 DEF Wrote
<1>2. \A i \in Id : disk'.entries[i] # None => age'[i] = age[i]
  BY <1>1 DEF Kept, Remaining
<1>3. \A i \in Id : memory'.entries[i] # None => disk'.entries[i] # None
  BY DEF QueueInv, Within
<1>4. \A i \in Id : (IsActive(s, i) /\ age[i] = 0 /\ s.entries[i].data \notin rotten) =>
                     s.entries[i].data \in objects'
  BY <1>1, ActiveIsReferenced DEF Backed
<1>5. Backed(disk)'
  <2> SUFFICES ASSUME NEW i \in Id, disk'.entries[i] # None, disk'.entries[i].state \in Active,
                      age'[i] = 0, disk'.entries[i].data \notin rotten
               PROVE  disk'.entries[i].data \in objects'
    BY DEF Backed, IsActive
  <2>1. age[i] = 0
    BY <1>2
  <2>2. CASE disk' = s
    BY <1>4, <2>1, <2>2 DEF IsActive
  <2>3. CASE disk' = disk /\ objects' = objects
    BY <2>1, <2>3 DEF KeepInv, Backed, IsActive
  <2> QED
    BY <1>1, <2>2, <2>3
<1>6. Backed(memory)'
  <2> SUFFICES ASSUME NEW i \in Id, memory'.entries[i] # None, memory'.entries[i].state \in Active,
                      age'[i] = 0, memory'.entries[i].data \notin rotten
               PROVE  memory'.entries[i].data \in objects'
    BY DEF Backed, IsActive
  <2>1. age[i] = 0
    BY <1>2, <1>3
  <2>2. memory' = s
    BY <1>1, EmptyState
  <2> QED
    BY <1>4, <2>1, <2>2 DEF IsActive
<1>7. Holds'
  <2> SUFFICES ASSUME NEW i \in accepted'
               PROVE  /\ disk'.entries[i] # None /\ disk'.entries[i].data \notin rotten
                      /\ up' => memory'.entries[i] # None
    BY DEF Holds
  <2>1. i \in Id /\ i \in accepted
    BY DEF QueueInv, TypeOK
  <2>2. s.entries[i] # None /\ disk.entries[i] # None /\ disk.entries[i].data \notin rotten
    BY <2>1 DEF KeepInv, Holds
  <2>3. s.entries[i].data = disk.entries[i].data
    BY <2>1, <2>2 DEF Within
  <2> QED
    BY <1>1, <2>2, <2>3
<1> QED
  BY <1>5, <1>6, <1>7 DEF KeepInv

\* expireLocked leaves a backed state backed, and keeps every entry but those
\* whose retention has elapsed.
LEMMA ExpiredIsBacked ==
  ASSUME NEW t \in State, Backed(t)
  PROVE  /\ Backed(Expired(t))
         /\ \A i \in Id : t.entries[i] # None /\ ~Forgotten(t, i) => Expired(t).entries[i] # None
<1> DEFINE s == Expired(t)
<1>1. \A i \in Id : s.entries[i] =
         IF Due(t, i) THEN [t.entries[i] EXCEPT !.state = "expired"]
         ELSE IF Forgotten(t, i) THEN None ELSE t.entries[i]
  BY ExpiredState
<1>2. \A i \in Id : t.entries[i] # None => t.entries[i] \in Entry
  BY DEF State
<1>3. \A i \in Id : Due(t, i) => s.entries[i] \in Entry /\ s.entries[i].state = "expired"
  BY <1>1, <1>2 DEF Due, IsActive, Entry, Ended
<1>4. \A i \in Id : ~Due(t, i) => s.entries[i] = IF Forgotten(t, i) THEN None ELSE t.entries[i]
  BY <1>1
<1> HIDE DEF s
<1>5. Backed(s)
  BY <1>3, <1>4 DEF Backed, IsActive, Active
<1>6. \A i \in Id : t.entries[i] # None /\ ~Forgotten(t, i) => s.entries[i] # None
  BY <1>3, <1>4, NoneIsNoEntry
<1> QED
  BY <1>5, <1>6 DEF s

\* A step that persists disk with one entry deleted, or replaced by one with the
\* same ciphertext that is active only if the entry was.
LEMMA ReplaceKeepsAccepted ==
  ASSUME QueueInv, QueueInv', KeepInv, NEW i \in Id, NEW e \in Entry \cup {None},
         e # None => /\ disk.entries[i] # None /\ e.data = disk.entries[i].data
                     /\ e.state \in Active => disk.entries[i].state \in Active,
         NEW gone, Wrote(With(disk, i, e), gone), gone \cap Referenced(With(disk, i, e)) = {},
         accepted' \subseteq accepted, e = None => i \notin accepted', rotten' = rotten
  PROVE  KeepInv'
<1> DEFINE s == With(disk, i, e)
<1>1. disk \in State /\ accepted \subseteq Id
  BY DEF QueueInv, TypeOK
<1>2. s \in State /\ s.entries[i] = e /\ \A j \in Id : j # i => s.entries[j] = disk.entries[j]
  BY <1>1, WithState
<1>3. Wrote(s, gone) /\ gone \cap Referenced(s) = {}
  OBVIOUS
<1> HIDE DEF s
<1>4. Backed(s)
  BY <1>2 DEF KeepInv, Backed, IsActive
<1>5. Within(s, disk)
  BY <1>2 DEF Within
<1>6. \A j \in accepted' : s.entries[j] # None
  BY <1>1, <1>2 DEF KeepInv, Holds
<1> QED
  BY <1>2, <1>3, <1>4, <1>5, <1>6, PersistKeepsAccepted

\* The two beginnings of an operation.
LEMMA ExpireKeepsAccepted ==
  ASSUME QueueInv, QueueInv', KeepInv, Expire \/ Purge
  PROVE  KeepInv'
<1>1. /\ disk \in State /\ memory \in State /\ Within(disk, disk) /\ Within(memory, disk)
      /\ Sound(disk) /\ Sound(memory) /\ Backed(disk) /\ (up => Backed(memory))
      /\ accepted \subseteq Id
  BY DEF QueueInv, TypeOK, Within, KeepInv
<1>2. CASE Expire
  <2> DEFINE s == Expired(disk)
             gone == Removable(s, ExpiredObjects(disk))
  <2>1. Wrote(s, gone) /\ rotten' = rotten
    BY <1>2 DEF Expire, Operate, Wrote
  <2>2. gone \cap Referenced(s) = {}
    BY DEF Removable
  <2>3. s \in State /\ Backed(s) /\ Within(s, disk)
    BY <1>1, ExpiredState, ExpiredIsBacked, ExpiredIsSound
  <2>4. accepted' \subseteq accepted /\ \A i \in accepted' : s.entries[i] # None
    <3>1. accepted' = {i \in accepted : ~Forgotten(disk, i)}
      BY <1>2 DEF Expire
    <3>2. \A i \in Id : disk.entries[i] # None /\ ~Forgotten(disk, i) => s.entries[i] # None
      BY <1>1, ExpiredIsBacked
    <3> QED
      BY <1>1, <3>1, <3>2 DEF KeepInv, Holds
  <2> HIDE DEF s, gone
  <2> QED
    BY <2>1, <2>2, <2>3, <2>4, PersistKeepsAccepted
<1>3. CASE Purge
  <2> DEFINE s == Expired(memory)
             gone == Removable(s, ExpiredObjects(memory))
  <2>1. Wrote(s, gone) /\ rotten' = rotten /\ up
    BY <1>3 DEF Purge, Operate, Wrote
  <2>2. gone \cap Referenced(s) = {}
    BY DEF Removable
  <2>3. s \in State /\ Backed(s) /\ Within(s, disk)
    BY <1>1, <2>1, ExpiredState, ExpiredIsBacked, ExpiredIsSound
  <2>4. accepted' \subseteq accepted /\ \A i \in accepted' : s.entries[i] # None
    <3>1. accepted' = {i \in accepted : ~Forgotten(memory, i)}
      BY <1>3 DEF Purge
    <3>2. \A i \in Id : memory.entries[i] # None /\ ~Forgotten(memory, i) => s.entries[i] # None
      BY <1>1, <2>1, ExpiredIsBacked
    <3> QED
      BY <1>1, <2>1, <3>1, <3>2 DEF KeepInv, Holds
  <2> HIDE DEF s, gone
  <2> QED
    BY <2>1, <2>2, <2>3, <2>4, PersistKeepsAccepted
<1> QED
  BY <1>2, <1>3

\* The operations of Store keep what was accepted.
LEMMA OperationKeepsAccepted ==
  ASSUME QueueInv, QueueInv', KeepInv, NEW i \in Id, Retry(i) \/ Cancel(i) \/ Delete(i)
  PROVE  KeepInv'
<1> DEFINE e == disk.entries[i]
<1>1. e # None => e \in Entry /\ Right(e, delivered[i]) /\ e.attempt \in Nat
  BY DEF QueueInv, TypeOK, State, Sound, Entry
<1>2. CASE Retry(i)
  <2> DEFINE f == [e EXCEPT !.state = "queued"]
             s == With(disk, i, f)
  <2>1. e # None /\ Retryable(e) /\ Operate(s, {}) /\ accepted' = accepted
    BY <1>2 DEF Retry
  <2>2. e.state \in Active
    BY <1>1, <2>1, Bounds DEF Retryable, Right, Active
  <2>3. f \in Entry /\ f.data = e.data
    BY <1>1, <2>1 DEF Entry, Active
  <2>4. Wrote(s, {}) /\ rotten' = rotten
    BY <2>1 DEF Operate, Wrote
  <2> HIDE DEF f
  <2> QED
    BY <2>1, <2>2, <2>3, <2>4, NoneIsNoEntry, ReplaceKeepsAccepted
<1>3. CASE Cancel(i)
  <2> DEFINE f == [e EXCEPT !.state = "canceled"]
             s == With(disk, i, f)
             gone == Removable(s, {e.data})
  <2>1. e # None /\ Operate(s, gone) /\ accepted' = accepted /\ e.state \in Active
    BY <1>3 DEF Cancel, IsActive
  <2>2. f \in Entry /\ f.data = e.data
    BY <1>1, <2>1 DEF Entry, Ended
  <2>3. Wrote(s, gone) /\ rotten' = rotten /\ gone \cap Referenced(s) = {}
    BY <2>1 DEF Operate, Wrote, Removable
  <2> HIDE DEF f, gone
  <2> QED
    BY <2>1, <2>2, <2>3, NoneIsNoEntry, ReplaceKeepsAccepted
<1>4. CASE Delete(i)
  <2> DEFINE s == With(disk, i, None)
             gone == Removable(s, {e.data})
  <2>1. Operate(s, gone) /\ accepted' = accepted \ {i}
    BY <1>4 DEF Delete
  <2>2. Wrote(s, gone) /\ rotten' = rotten /\ gone \cap Referenced(s) = {}
    BY <2>1 DEF Operate, Wrote, Removable
  <2> HIDE DEF gone
  <2> QED
    BY <2>1, <2>2, ReplaceKeepsAccepted
<1> QED
  BY <1>2, <1>3, <1>4

\* Pause and Resume keep what was accepted.
LEMMA PauseKeepsAccepted ==
  ASSUME QueueInv, QueueInv', KeepInv, NEW paused \in BOOLEAN, SetPaused(paused)
  PROVE  KeepInv'
<1> DEFINE s == [disk EXCEPT !.paused = paused]
<1>1. disk \in State /\ accepted \subseteq Id
  BY DEF QueueInv, TypeOK
<1>2. s \in State /\ s.entries = disk.entries
  BY <1>1 DEF State
<1>3. Wrote(s, {}) /\ accepted' = accepted /\ rotten' = rotten
  BY DEF SetPaused, Operate, Wrote
<1> HIDE DEF s
<1>4. Backed(s) /\ Within(s, disk) /\ \A i \in accepted : s.entries[i] # None
  BY <1>2 DEF KeepInv, Backed, Holds, Within, IsActive
<1> QED
  BY <1>2, <1>3, <1>4, PersistKeepsAccepted

\* An operation that finds nothing due finds no active entry past its TTL.
LEMMA SettledIsCurrent ==
  ASSUME QueueInv, Settled, NEW i \in Id, IsActive(disk, i)
  PROVE  age[i] = 0
<1>1. disk \in State /\ age[i] \in 0 .. 2
  BY DEF QueueInv, TypeOK
<1>2. SUFFICES ASSUME Due(disk, i) PROVE FALSE
  BY <1>1 DEF Due
<1>3. disk.entries[i] = [disk.entries[i] EXCEPT !.state = "expired"]
  BY <1>1, <1>2, ExpiredState DEF Settled
<1>4. disk.entries[i] \in Entry
  BY <1>1 DEF State, IsActive
<1>5. disk.entries[i].state = "expired"
  BY <1>3, <1>4 DEF Entry
<1> QED
  BY <1>5 DEF IsActive, Active

\* A claim keeps what was accepted.
LEMMA WorkerKeepsAccepted ==
  ASSUME QueueInv, QueueInv', KeepInv, NEW i \in Id, Claim(i) \/ ClaimExceeded(i) \/ ClaimCorrupt(i)
  PROVE  KeepInv'
<1> DEFINE e == disk.entries[i]
<1>1. /\ e # None /\ e.state \in Active /\ Settled /\ disk \in State /\ e \in Entry
  BY DEF Claim, ClaimExceeded, ClaimCorrupt, Claiming, Active, QueueInv, TypeOK, State
<1>2. e.attempt \in Nat /\ e.attempt <= MaxAttempts
  BY <1>1 DEF QueueInv, Sound, Right, Entry
<1>3. CASE Claim(i)
  <2> DEFINE f == Attempted(e)
             s == With(disk, i, f)
             w == [worker EXCEPT !.mode = "claimed", !.id = i, !.data = e.data]
             n == e.attempt + 1
  <2>1. WorkerStep(s, {}, w, worker) /\ accepted' = accepted
    BY <1>3 DEF Claim
  <2>2. n \in 0 .. MaxAttempts + 1 /\ "processing" \in Active \cup Ended
    BY <1>2, Bounds DEF Active
  <2>3. f = Updated(e, "processing", n)
    BY DEF Attempted, Updated
  <2>4. f \in Entry /\ f.data = e.data
    <3> HIDE DEF n, e, f
    <3> QED
      BY <1>1, <2>2, <2>3, EntryUpdate
  <2>5. Wrote(s, {}) /\ rotten' = rotten
    BY <2>1 DEF WorkerStep, Wrote
  <2> HIDE DEF f
  <2> QED
    BY <1>1, <2>1, <2>4, <2>5, NoneIsNoEntry, ReplaceKeepsAccepted
<1>4. CASE ClaimExceeded(i)
  <2> DEFINE n == e.attempt + 1
             f == [e EXCEPT !.state = "failed", !.attempt = n]
             s == With(disk, i, f)
  <2>1. WorkerStep(s, {}, worker, worker) /\ accepted' = accepted
    BY <1>4 DEF ClaimExceeded
  <2>2. n \in 0 .. MaxAttempts + 1 /\ "failed" \in Active \cup Ended
    BY <1>2, Bounds DEF Ended
  <2>3. f = Updated(e, "failed", n)
    BY DEF Updated
  <2>4. f \in Entry /\ f.data = e.data
    <3> HIDE DEF n, e, f
    <3> QED
      BY <1>1, <2>2, <2>3, EntryUpdate
  <2>5. Wrote(s, {}) /\ rotten' = rotten
    BY <2>1 DEF WorkerStep, Wrote
  <2> HIDE DEF f
  <2> QED
    BY <1>1, <2>1, <2>4, <2>5, NoneIsNoEntry, ReplaceKeepsAccepted
<1>5. CASE ClaimCorrupt(i)
  <2> DEFINE s == With(disk, i, None)
  <2>1. WorkerStep(s, {}, worker, worker) /\ accepted' = accepted /\ e.data \notin objects
    BY <1>5 DEF ClaimCorrupt
  <2>2. age[i] = 0
    BY <1>1, SettledIsCurrent DEF IsActive
  <2>3. i \notin accepted
    BY <1>1, <2>1, <2>2 DEF KeepInv, Backed, Holds, IsActive
  <2>4. Wrote(s, {}) /\ rotten' = rotten
    BY <2>1 DEF WorkerStep, Wrote
  <2> QED
    BY <2>1, <2>3, <2>4, ReplaceKeepsAccepted
<1> QED
  BY <1>3, <1>4, <1>5

\* CompleteWithError keeps what was accepted.
LEMMA CompleteKeepsAccepted ==
  ASSUME QueueInv, QueueInv', KeepInv, Complete
  PROVE  KeepInv'
<1> DEFINE i == worker.id
           e == disk.entries[i]
           a == After(e)
           f == [e EXCEPT !.state = a]
           s == With(disk, i, f)
           gone == IF a \in DeleteOn THEN Removable(s, {e.data}) ELSE {}
<1>1. /\ i \in Id /\ e # None /\ e.state = "processing"
      /\ WorkerStep(s, gone, Released, Dead) /\ accepted' = accepted
  BY DEF Complete, Completing, QueueInv, WorkerType
<1>2. e \in Entry
  BY <1>1 DEF QueueInv, TypeOK, State
<1>3. a \in Active \cup Ended
  BY DEF After, Active, Ended
<1> HIDE DEF a
<1>4. f \in Entry /\ f.data = e.data
  BY <1>2, <1>3 DEF Entry
<1> HIDE DEF f
<1>5. Wrote(s, gone) /\ rotten' = rotten /\ gone \cap Referenced(s) = {}
  BY <1>1 DEF WorkerStep, Wrote, Removable
<1> HIDE DEF gone
<1>6. e.state \in Active
  BY <1>1 DEF Active
<1> QED
  BY <1>1, <1>4, <1>5, <1>6, NoneIsNoEntry, ReplaceKeepsAccepted

\* Steps that write nothing: memory may be refreshed or lost.
LEMMA UnwrittenKeepsAccepted ==
  ASSUME QueueInv, KeepInv,
         \/ Start \/ Stop \/ Exit \/ WorkerExits \/ UploadSucceeds \/ UploadFails
         \/ CompleteRefused \/ CompleteFails
  PROVE  KeepInv'
<1>1. /\ disk' = disk /\ objects' = objects /\ age' = age /\ accepted' = accepted /\ rotten' = rotten
      /\ \/ memory' = disk
         \/ memory' = memory /\ up' = up
         \/ memory' = Empty /\ up' = FALSE
  <2>1. CASE Exit
    BY <2>1 DEF Exit, Down
  <2>2. CASE CompleteRefused
    BY <2>2 DEF CompleteRefused
  <2>3. CASE Start \/ Stop \/ WorkerExits
    BY <2>3 DEF Start, Stop, WorkerExits
  <2>4. CASE UploadSucceeds \/ UploadFails \/ CompleteFails
    BY <2>4 DEF UploadSucceeds, UploadFails, CompleteFails
  <2> QED
    BY <2>1, <2>2, <2>3, <2>4
<1>2. Backed(disk)'
  BY <1>1 DEF KeepInv, Backed, IsActive
<1>3. (up => Backed(memory))'
  <2>1. CASE memory' = disk
    BY <1>1, <2>1 DEF KeepInv, Backed, IsActive
  <2>2. CASE memory' = memory /\ up' = up
    BY <1>1, <2>2 DEF KeepInv, Backed, IsActive
  <2>3. CASE memory' = Empty
    BY <1>1, <2>3, EmptyState DEF KeepInv, Backed, IsActive
  <2> QED
    BY <1>1, <2>1, <2>2, <2>3
<1>4. Holds'
  BY <1>1 DEF KeepInv, Holds
<1> QED
  BY <1>2, <1>3, <1>4 DEF KeepInv

\* enqueueOpaque of a known key gives a receipt for an entry that is there.
LEMMA EnqueueAgainKeepsAccepted ==
  ASSUME QueueInv, KeepInv, NEW i \in Id, NEW k \in Key, NEW d \in Data, EnqueueAgain(i, k, d)
  PROVE  KeepInv'
<1>1. /\ disk' = disk /\ objects' = objects /\ age' = age /\ rotten' = rotten /\ memory' = disk
      /\ disk.entries[i] # None /\ disk.entries[i].data = d
      /\ accepted' = accepted \cup (IF d \in rotten THEN {} ELSE {i})
  BY DEF EnqueueAgain
<1>2. Backed(disk)' /\ Backed(memory)'
  BY <1>1 DEF KeepInv, Backed, IsActive
<1>3. Holds'
  BY <1>1 DEF KeepInv, Holds
<1> QED
  BY <1>2, <1>3 DEF KeepInv

\* An object that is lost takes the promise about its entries with it.
LEMMA RotKeepsAccepted ==
  ASSUME QueueInv, KeepInv, NEW d \in Data, Rot(d)
  PROVE  KeepInv'
<1>1. /\ disk' = disk /\ memory' = memory /\ age' = age /\ up' = up
      /\ objects' = objects \ {d} /\ rotten' = rotten \cup {d}
      /\ accepted' = {i \in accepted : disk.entries[i] # None => disk.entries[i].data # d}
  BY DEF Rot
<1>2. Backed(disk)' /\ (up => Backed(memory))'
  BY <1>1 DEF KeepInv, Backed, IsActive
<1>3. Holds'
  BY <1>1 DEF KeepInv, Holds
<1> QED
  BY <1>2, <1>3 DEF KeepInv

\* The clock keeps what was accepted.
LEMMA ElapseKeepsAccepted ==
  ASSUME QueueInv, KeepInv, NEW i \in Id, Elapse(i)
  PROVE  KeepInv'
<1>1. /\ disk' = disk /\ memory' = memory /\ up' = up /\ objects' = objects
      /\ rotten' = rotten /\ accepted' = accepted
      /\ age' = [age EXCEPT ![i] = @ + 1] /\ age \in [Id -> 0 .. 2]
  BY DEF Elapse, QueueInv, TypeOK
<1>2. \A j \in Id : age'[j] = 0 => age[j] = 0
  BY <1>1
<1>3. Backed(disk)' /\ (up => Backed(memory))'
  BY <1>1, <1>2 DEF KeepInv, Backed, IsActive
<1>4. Holds'
  BY <1>1 DEF KeepInv, Holds
<1> QED
  BY <1>3, <1>4 DEF KeepInv

\* enqueueOpaque of a new key: without a sync error after the rename, the object
\* is removed again only if the entry is not on disk.
LEMMA EnqueueKeepsAccepted ==
  ASSUME QueueInv, KeepInv, "sync" \notin Faults,
         NEW i \in Id, NEW k \in Key, NEW d \in Data, Enqueue(i, k, d)
  PROVE  KeepInv'
<1> DEFINE e == [key |-> k, data |-> d, state |-> "queued", attempt |-> 0]
           s == With(disk, i, e)
<1>1. /\ disk \in State /\ disk.entries[i] = None /\ i \notin accepted /\ accepted \subseteq Id /\ up
  BY DEF QueueInv, TypeOK, Enqueue, KeepInv, Holds
<1>2. e \in Entry
  BY Bounds DEF Entry, Active
<1>3. /\ s.entries[i] = e /\ e.data = d /\ e # None
      /\ \A j \in Id : j # i => s.entries[j] = disk.entries[j]
  BY <1>1, <1>2, WithState, NoneIsNoEntry
<1>4. age' = age /\ rotten' = rotten \ {d}
  BY DEF Enqueue
<1> DEFINE Found(t, o) ==
             \A j \in Id : (IsActive(t, j) /\ age[j] = 0 /\ t.entries[j].data \notin rotten \ {d}) =>
                            t.entries[j].data \in o
<1>5. Found(disk, objects \cup {d}) /\ Found(s, objects \cup {d})
  BY <1>3 DEF KeepInv, Backed, IsActive
<1>6. Found(disk, (objects \cup {d}) \ Removable(disk, {d}))
  BY <1>5, ActiveIsReferenced DEF Removable
<1>7. Found(Empty, objects')
  BY EmptyState DEF IsActive
<1>8. SUFFICES Found(disk', objects') /\ Found(memory', objects') /\ Holds'
  BY <1>4 DEF KeepInv, Backed, IsActive
<1>9. CASE /\ disk' = s /\ memory' = s /\ objects' = objects \cup {d}
           /\ accepted' = accepted \cup {i} /\ UNCHANGED <<up, worker, guard>>
  <2>1. Found(disk', objects') /\ Found(memory', objects')
    BY <1>5, <1>9
  <2> HIDE DEF s, Found
  <2>2. Holds'
    BY <1>1, <1>3, <1>4, <1>9 DEF KeepInv, Holds
  <2> QED
    BY <2>1, <2>2
<1>10. CASE /\ "write" \in Faults /\ UNCHANGED disk
            /\ memory' = disk /\ objects' = (objects \cup {d}) \ Removable(disk, {d})
            /\ UNCHANGED <<up, worker, guard, accepted>>
  <2>1. Found(disk', objects') /\ Found(memory', objects')
    BY <1>6, <1>10
  <2> HIDE DEF s, Found
  <2>2. Holds'
    BY <1>4, <1>10 DEF KeepInv, Holds
  <2> QED
    BY <2>1, <2>2
<1>11. CASE "crash" \in Faults /\ EnqueueCut(s, d) /\ Down /\ UNCHANGED accepted
  <2>1. /\ disk' \in {disk, s} /\ memory' = Empty /\ objects' = objects \cup {d}
        /\ up' = FALSE /\ accepted' = accepted
    BY <1>11 DEF EnqueueCut, Down
  <2>2. Found(disk', objects') /\ Found(memory', objects')
    BY <1>5, <1>7, <2>1
  <2> HIDE DEF s, Found
  <2>3. Holds'
    BY <1>1, <1>3, <1>4, <2>1 DEF KeepInv, Holds
  <2> QED
    BY <2>2, <2>3
<1> QED
  BY <1>9, <1>10, <1>11 DEF Enqueue

\* NewStore drops only entries whose object is lost, and removes no object that
\* an entry on disk still waits with.
LEMMA OpenKeepsAccepted ==
  ASSUME QueueInv, QueueInv', KeepInv, Open
  PROVE  KeepInv'
<1> DEFINE s == Reopened
<1>1. /\ age' = Kept(age) /\ accepted' = accepted /\ rotten' = rotten /\ ~up
      /\ objects' \subseteq objects /\ objects \cap Referenced(s) \subseteq objects'
      /\ \/ disk' = s /\ memory' = s
         \/ disk' = disk /\ memory' = memory /\ up' = up
  BY DEF Open, Reopened
<1>2. \A i \in Id : disk'.entries[i] # None => age'[i] = age[i]
  BY <1>1 DEF Kept, Remaining
<1>3. \A i \in Id : memory'.entries[i] # None => disk'.entries[i] # None
  BY DEF QueueInv, Within
<1>4. \A i \in Id : IsActive(s, i) => s.entries[i].data \in objects'
  <2> SUFFICES ASSUME NEW i \in Id, IsActive(s, i) PROVE s.entries[i].data \in objects'
    OBVIOUS
  <2>1. s.entries[i].data \in Referenced(s)
    BY ActiveIsReferenced
  <2>2. s.entries[i].data \in objects
    BY RecoveredEntry DEF IsActive
  <2> QED
    BY <1>1, <2>1, <2>2
<1>5. \A i \in Id : (IsActive(disk, i) /\ age[i] = 0 /\ disk.entries[i].data \notin rotten) =>
                     disk.entries[i].data \in objects'
  <2> SUFFICES ASSUME NEW i \in Id, IsActive(disk, i), age[i] = 0, disk.entries[i].data \notin rotten
               PROVE  disk.entries[i].data \in objects'
    OBVIOUS
  <2>1. disk.entries[i].data \in objects
    BY DEF KeepInv, Backed
  <2>2. IsActive(s, i) /\ s.entries[i].data = disk.entries[i].data
    BY <2>1, RecoveredEntry DEF IsActive
  <2> QED
    BY <1>4, <2>2
<1>6. \A i \in accepted : /\ i \in Id /\ disk.entries[i] # None
                          /\ disk.entries[i].data \notin rotten
  BY DEF QueueInv, TypeOK, KeepInv, Holds
<1>7. \A i \in accepted : s.entries[i] # None /\ s.entries[i].data = disk.entries[i].data
  <2> SUFFICES ASSUME NEW i \in accepted
               PROVE  s.entries[i] # None /\ s.entries[i].data = disk.entries[i].data
    OBVIOUS
  <2>1. i \in Id /\ disk.entries[i] # None /\ disk.entries[i].data \notin rotten
    BY <1>6
  <2>2. s.entries[i] # None
    BY <2>1, RecoveredEntry DEF KeepInv, Backed, IsActive
  <2> QED
    BY <2>1, <2>2, RecoveredEntry
<1> HIDE DEF s
<1>8. CASE disk' = s /\ memory' = s
  <2>1. Backed(disk)' /\ Backed(memory)'
    BY <1>1, <1>4, <1>8 DEF Backed, IsActive
  <2>2. Holds'
    BY <1>1, <1>6, <1>7, <1>8 DEF Holds
  <2> QED
    BY <2>1, <2>2 DEF KeepInv
<1>9. CASE disk' = disk /\ memory' = memory /\ up' = up
  <2>1. Backed(disk)'
    BY <1>1, <1>2, <1>5, <1>9 DEF Backed, IsActive
  <2>2. (up => Backed(memory))'
    BY <1>1, <1>9
  <2>3. Holds'
    BY <1>1, <1>9 DEF Holds, KeepInv
  <2> QED
    BY <2>1, <2>2, <2>3 DEF KeepInv
<1> QED
  BY <1>1, <1>8, <1>9

\* An upload whose submitter has a receipt stays in the queue, with its ciphertext
\* while it waits, unless a directory sync fails after the rename of the state file
\* (store.go:1095, 1317).
THEOREM AcceptedIsKeptThm ==
  ASSUME "sync" \notin Faults
  PROVE  Spec => []AcceptedIsKept
<1>1. Init => KeepInv
  BY EmptyState DEF Init, KeepInv, Backed, Holds, IsActive
<1>2. QueueInv /\ KeepInv /\ [Next]_vars /\ QueueInv' => KeepInv'
  <2> SUFFICES ASSUME QueueInv, KeepInv, [Next]_vars, QueueInv' PROVE KeepInv'
    OBVIOUS
  <2>1. CASE UNCHANGED vars
    BY <2>1 DEF vars, KeepInv, Backed, Holds, IsActive
  <2>2. CASE Expire \/ Purge
    BY <2>2, ExpireKeepsAccepted
  <2>3. CASE Open
    BY <2>3, OpenKeepsAccepted
  <2>4. CASE Complete
    BY <2>4, CompleteKeepsAccepted
  <2>5. CASE Start \/ Stop \/ Exit \/ WorkerExits \/ UploadSucceeds \/ UploadFails
             \/ CompleteRefused \/ CompleteFails
    BY <2>5, UnwrittenKeepsAccepted
  <2>6. ASSUME NEW i \in Id, Claim(i) \/ ClaimExceeded(i) \/ ClaimCorrupt(i) PROVE KeepInv'
    BY <2>6, WorkerKeepsAccepted
  <2>7. ASSUME NEW i \in Id, Retry(i) \/ Cancel(i) \/ Delete(i) \/ Elapse(i) PROVE KeepInv'
    BY <2>7, OperationKeepsAccepted, ElapseKeepsAccepted
  <2>8. ASSUME NEW i \in Id, NEW k \in Key, NEW d \in Data,
               Enqueue(i, k, d) \/ EnqueueAgain(i, k, d)
        PROVE  KeepInv'
    BY <2>8, EnqueueKeepsAccepted, EnqueueAgainKeepsAccepted
  <2>9. ASSUME NEW paused \in BOOLEAN, SetPaused(paused) PROVE KeepInv'
    BY <2>9, PauseKeepsAccepted
  <2>10. ASSUME NEW d \in Data, Rot(d) PROVE KeepInv'
    BY <2>10, RotKeepsAccepted
  <2> QED
    BY <2>1, <2>2, <2>3, <2>4, <2>5, <2>6, <2>7, <2>8, <2>9, <2>10 DEF Next, WorkerNext
<1>3. QueueInv /\ KeepInv => AcceptedIsKept
  <2> SUFFICES ASSUME QueueInv, KeepInv, NEW i \in accepted
               PROVE  /\ disk.entries[i] # None
                      /\ IsActive(disk, i) /\ ~Due(disk, i) => disk.entries[i].data \in objects
    BY DEF AcceptedIsKept
  <2>1. i \in Id /\ age[i] \in 0 .. 2
    BY DEF QueueInv, TypeOK
  <2> QED
    BY <2>1 DEF KeepInv, Holds, Backed, Due
<1> QED
  BY <1>1, <1>2, <1>3, InitInv, StepKeepsInv, PTL DEF Spec

-------------------------------------------------------------------------------
(* What no entry needs is gone *)

\* A process that runs has in memory what is on disk, and keeps no object that
\* the entries on disk do not need.
CleanInv == up => memory = disk /\ objects \subseteq Referenced(disk)

\* The state of an entry that keeps its object.
Keeping(e) == e # None /\ e.state \notin DeleteOn \cup {"canceled"}

\* The object of an entry that keeps it is referenced, and no other is.
LEMMA ReferencedBy ==
  ASSUME NEW s, NEW o
  PROVE  o \in Referenced(s) <=> \E i \in Id : Keeping(s.entries[i]) /\ s.entries[i].data = o
BY DEF Referenced, Keeping

\* A persist that cannot fail, of a state whose unreferenced objects it removes.
LEMMA PersistKeepsClean ==
  ASSUME CleanInv, "write" \notin Faults, "sync" \notin Faults, NEW s, NEW gone,
         Wrote(s, gone), objects \ gone \subseteq Referenced(s)
  PROVE  CleanInv'
<1>1. ~PersistFails(s, gone)
  BY DEF PersistFails
<1>2. CASE Persists(s, gone)
  BY <1>2 DEF Persists, CleanInv, Referenced
<1>3. CASE PersistCut(s, gone)
  BY <1>3 DEF PersistCut, Down, CleanInv
<1> QED
  BY <1>1, <1>2, <1>3 DEF Wrote

\* A step that replaces one entry: the new one keeps the object, or the object is
\* not there, or it is removed unless another entry needs it.
LEMMA ReplaceKeepsClean ==
  ASSUME QueueInv, CleanInv, up, "write" \notin Faults, "sync" \notin Faults,
         NEW i \in Id, NEW e \in Entry \cup {None}, NEW gone,
         Wrote(With(disk, i, e), gone),
         \/ Keeping(e) /\ e.data = disk.entries[i].data
         \/ disk.entries[i].data \notin objects
         \/ gone = Removable(With(disk, i, e), {disk.entries[i].data})
  PROVE  CleanInv'
<1> DEFINE s == With(disk, i, e)
<1>1. disk \in State
  BY DEF QueueInv, TypeOK
<1>2. s.entries[i] = e /\ \A j \in Id : j # i => s.entries[j] = disk.entries[j]
  BY <1>1, WithState
<1>3. /\ Wrote(s, gone)
      /\ \/ Keeping(e) /\ e.data = disk.entries[i].data
         \/ disk.entries[i].data \notin objects
         \/ gone = Removable(s, {disk.entries[i].data})
  OBVIOUS
<1> HIDE DEF s
<1>4. objects \ gone \subseteq Referenced(s)
  <2> SUFFICES ASSUME NEW o \in objects, o \notin gone PROVE o \in Referenced(s)
    OBVIOUS
  <2>1. PICK j \in Id : Keeping(disk.entries[j]) /\ disk.entries[j].data = o
    BY ReferencedBy DEF CleanInv
  <2>2. CASE j # i
    BY <1>2, <2>1, <2>2, ReferencedBy
  <2>3. CASE j = i /\ Keeping(e) /\ e.data = disk.entries[i].data
    BY <1>2, <2>1, <2>3, ReferencedBy
  <2>4. CASE j = i /\ gone = Removable(s, {disk.entries[i].data})
    BY <2>1, <2>4 DEF Removable
  <2> QED
    BY <1>3, <2>1, <2>2, <2>3, <2>4
<1> QED
  BY <1>3, <1>4, PersistKeepsClean

\* expireLocked removes the objects of what it forgets, and of what expires if
\* the policy says so.
LEMMA ExpireKeepsClean ==
  ASSUME QueueInv, CleanInv, "write" \notin Faults, "sync" \notin Faults, Expire \/ Purge
  PROVE  CleanInv'
<1> DEFINE s == Expired(disk)
           gone == Removable(s, ExpiredObjects(disk))
<1>1. /\ disk \in State /\ up /\ Wrote(s, gone)
  <2>1. CASE Expire
    BY <2>1 DEF Expire, Operate, Wrote, QueueInv, TypeOK
  <2>2. CASE Purge
    <3>1. up /\ memory = disk
      BY <2>2 DEF Purge, CleanInv
    <3> QED
      BY <2>2, <3>1 DEF Purge, Operate, Wrote, QueueInv, TypeOK
  <2> QED
    BY <2>1, <2>2
<1>2. \A i \in Id : s.entries[i] =
         IF Due(disk, i) THEN [disk.entries[i] EXCEPT !.state = "expired"]
         ELSE IF Forgotten(disk, i) THEN None ELSE disk.entries[i]
  BY <1>1, ExpiredState
<1>3. \A i \in Id : Due(disk, i) => /\ s.entries[i] # None
                                    /\ s.entries[i].state = "expired"
                                    /\ s.entries[i].data = disk.entries[i].data
  <2> SUFFICES ASSUME NEW i \in Id, Due(disk, i)
               PROVE  /\ s.entries[i] # None /\ s.entries[i].state = "expired"
                      /\ s.entries[i].data = disk.entries[i].data
    OBVIOUS
  <2>1. disk.entries[i] \in Entry
    BY <1>1 DEF Due, IsActive, State
  <2>2. s.entries[i] = [disk.entries[i] EXCEPT !.state = "expired"]
    BY <1>2
  <2> HIDE DEF s
  <2>3. s.entries[i].state = "expired" /\ s.entries[i].data = disk.entries[i].data
    BY <2>1, <2>2 DEF Entry
  <2>4. s.entries[i] \in Entry
    BY <2>1, <2>2 DEF Entry, Ended
  <2> QED
    BY <2>3, <2>4, NoneIsNoEntry
<1>4. objects \ gone \subseteq Referenced(s)
  <2> SUFFICES ASSUME NEW o \in objects, o \notin gone PROVE o \in Referenced(s)
    OBVIOUS
  <2>1. PICK i \in Id : Keeping(disk.entries[i]) /\ disk.entries[i].data = o
    BY <1>1, ReferencedBy DEF CleanInv
  <2>2. o \notin ExpiredObjects(disk) \/ o \in Referenced(s)
    BY DEF Removable
  <2> HIDE DEF s, gone
  <2>3. CASE Due(disk, i) /\ "expired" \in DeleteOn
    BY <2>1, <2>2, <2>3 DEF ExpiredObjects
  <2>4. CASE Due(disk, i) /\ "expired" \notin DeleteOn
    BY <1>3, <2>1, <2>4, ReferencedBy DEF Keeping
  <2>5. CASE Forgotten(disk, i)
    BY <2>1, <2>2, <2>5 DEF ExpiredObjects
  <2>6. CASE ~Due(disk, i) /\ ~Forgotten(disk, i)
    BY <1>2, <2>1, <2>6, ReferencedBy
  <2> QED
    BY <2>3, <2>4, <2>5, <2>6
<1> HIDE DEF s, gone
<1> QED
  BY <1>1, <1>4, PersistKeepsClean

\* Retry, Cancel and Delete keep the store clean.
LEMMA OperationKeepsClean ==
  ASSUME QueueInv, CleanInv, "write" \notin Faults, "sync" \notin Faults,
         NEW i \in Id, Retry(i) \/ Cancel(i) \/ Delete(i)
  PROVE  CleanInv'
<1> DEFINE e == disk.entries[i]
<1>1. up /\ e # None /\ e \in Entry
  BY DEF Retry, Cancel, Delete, IsActive, QueueInv, TypeOK, State
<1>2. CASE Retry(i)
  <2> DEFINE f == [e EXCEPT !.state = "queued"]
  <2>1. Wrote(With(disk, i, f), {})
    BY <1>2 DEF Retry, Operate, Wrote
  <2>2. f \in Entry /\ f.data = e.data /\ f.state = "queued"
    BY <1>1 DEF Entry, Active
  <2> HIDE DEF f
  <2>3. Keeping(f)
    BY <2>2, NoneIsNoEntry, QueueAssumption DEF Keeping
  <2> QED
    BY <1>1, <2>1, <2>2, <2>3, ReplaceKeepsClean
<1>3. CASE Cancel(i)
  <2> DEFINE f == [e EXCEPT !.state = "canceled"]
             gone == Removable(With(disk, i, f), {e.data})
  <2>1. Wrote(With(disk, i, f), gone)
    BY <1>3 DEF Cancel, Operate, Wrote
  <2>2. f \in Entry
    BY <1>1 DEF Entry, Ended
  <2> HIDE DEF f
  <2> QED
    BY <1>1, <2>1, <2>2, ReplaceKeepsClean
<1>4. CASE Delete(i)
  <2> DEFINE gone == Removable(With(disk, i, None), {e.data})
  <2>1. Wrote(With(disk, i, None), gone)
    BY <1>4 DEF Delete, Operate, Wrote
  <2> QED
    BY <1>1, <2>1, ReplaceKeepsClean
<1> QED
  BY <1>2, <1>3, <1>4

\* A claim removes no object.  It may make an entry fail, whose object the store
\* then keeps: the policy must not ask for its deletion.
LEMMA ClaimKeepsClean ==
  ASSUME QueueInv, CleanInv, "write" \notin Faults, "sync" \notin Faults, "failed" \notin DeleteOn,
         NEW i \in Id, Claim(i) \/ ClaimExceeded(i) \/ ClaimCorrupt(i)
  PROVE  CleanInv'
<1> DEFINE e == disk.entries[i]
           n == e.attempt + 1
<1>1. up /\ e # None /\ e \in Entry /\ e.state \in Active
  BY DEF Claim, ClaimExceeded, ClaimCorrupt, Claiming, Active, QueueInv, TypeOK, State
<1>2. n \in 0 .. MaxAttempts + 1
  BY <1>1, Bounds DEF QueueInv, Sound, Right, Entry
<1>3. ASSUME NEW st \in {"processing", "failed"}, Wrote(With(disk, i, Updated(e, st, n)), {})
      PROVE  CleanInv'
  <2> DEFINE f == Updated(e, st, n)
  <2>1. f \in Entry /\ f.data = e.data /\ f.state = st
    <3>1. st \in Active \cup Ended
      BY DEF Active, Ended
    <3> HIDE DEF n, e
    <3> QED
      BY <1>1, <1>2, <3>1, EntryUpdate
  <2>2. Wrote(With(disk, i, f), {})
    BY <1>3
  <2> HIDE DEF f
  <2>3. Keeping(f)
    BY <2>1, NoneIsNoEntry, QueueAssumption DEF Keeping
  <2> QED
    BY <1>1, <2>1, <2>2, <2>3, ReplaceKeepsClean
<1>4. CASE Claim(i)
  <2>1. Wrote(With(disk, i, Attempted(e)), {})
    BY <1>4 DEF Claim, WorkerStep, Wrote
  <2>2. Attempted(e) = Updated(e, "processing", n)
    BY DEF Attempted, Updated
  <2> QED
    BY <1>3, <2>1, <2>2
<1>5. CASE ClaimExceeded(i)
  <2>1. Wrote(With(disk, i, [e EXCEPT !.state = "failed", !.attempt = n]), {})
    BY <1>5 DEF ClaimExceeded, WorkerStep, Wrote
  <2>2. [e EXCEPT !.state = "failed", !.attempt = n] = Updated(e, "failed", n)
    BY DEF Updated
  <2> QED
    BY <1>3, <2>1, <2>2
<1>6. CASE ClaimCorrupt(i)
  <2>1. Wrote(With(disk, i, None), {}) /\ e.data \notin objects
    BY <1>6 DEF ClaimCorrupt, WorkerStep, Wrote
  <2> QED
    BY <1>1, <2>1, ReplaceKeepsClean
<1> QED
  BY <1>4, <1>5, <1>6

\* CompleteWithError removes the object of an entry that ends as the policy says.
LEMMA CompleteKeepsClean ==
  ASSUME QueueInv, CleanInv, "write" \notin Faults, "sync" \notin Faults, Complete
  PROVE  CleanInv'
<1> DEFINE i == worker.id
           e == disk.entries[i]
           a == After(e)
           f == [e EXCEPT !.state = a]
           s == With(disk, i, f)
           gone == IF a \in DeleteOn THEN Removable(s, {e.data}) ELSE {}
<1>1. i \in Id /\ e # None /\ up /\ WorkerStep(s, gone, Released, Dead)
  BY DEF Complete, Completing, QueueInv, WorkerType
<1>2. e \in Entry
  BY <1>1 DEF QueueInv, TypeOK, State
<1>3. a \in Active \cup Ended /\ a # "canceled"
  BY DEF After, Active, Ended
<1>4. Wrote(s, gone)
  BY <1>1 DEF WorkerStep, Wrote
<1> HIDE DEF a
<1>5. f \in Entry /\ f.data = e.data /\ f.state = a
  BY <1>2, <1>3 DEF Entry
<1> HIDE DEF f
<1>6. CASE a \in DeleteOn
  BY <1>1, <1>4, <1>5, <1>6, ReplaceKeepsClean
<1>7. CASE a \notin DeleteOn
  <2>1. Keeping(f)
    BY <1>3, <1>5, <1>7, NoneIsNoEntry DEF Keeping
  <2> QED
    BY <1>1, <1>4, <1>5, <2>1, ReplaceKeepsClean
<1> QED
  BY <1>6, <1>7

\* An entry that is enqueued needs the object that is written for it.
LEMMA EnqueueKeepsClean ==
  ASSUME QueueInv, CleanInv, "write" \notin Faults, "sync" \notin Faults,
         NEW i \in Id, NEW k \in Key, NEW d \in Data, Enqueue(i, k, d)
  PROVE  CleanInv'
<1> DEFINE e == [key |-> k, data |-> d, state |-> "queued", attempt |-> 0]
           s == With(disk, i, e)
<1>1. disk \in State /\ disk.entries[i] = None /\ up
  BY DEF QueueInv, TypeOK, Enqueue
<1>2. e \in Entry /\ e.data = d /\ e.state = "queued"
  BY Bounds DEF Entry, Active
<1>3. \/ disk' = s /\ memory' = s /\ objects' = objects \cup {d}
      \/ up' = FALSE
  BY DEF Enqueue, Down
<1> HIDE DEF e
<1>4. s.entries[i] = e /\ \A j \in Id : j # i => s.entries[j] = disk.entries[j]
  BY <1>1, <1>2, WithState
<1> HIDE DEF s
<1>5. Keeping(e)
  BY <1>2, NoneIsNoEntry, QueueAssumption DEF Keeping
<1>6. objects \cup {d} \subseteq Referenced(s)
  <2> SUFFICES ASSUME NEW o \in objects \cup {d} PROVE o \in Referenced(s)
    OBVIOUS
  <2>1. CASE o = d
    BY <1>2, <1>4, <1>5, <2>1, ReferencedBy
  <2>2. CASE o \in objects
    <3>1. PICK j \in Id : Keeping(disk.entries[j]) /\ disk.entries[j].data = o
      BY <1>1, <2>2, ReferencedBy DEF CleanInv
    <3>2. j # i
      BY <1>1, <3>1 DEF Keeping
    <3> QED
      BY <1>4, <3>1, <3>2, ReferencedBy
  <2> QED
    BY <2>1, <2>2
<1> QED
  BY <1>3, <1>6 DEF CleanInv, Referenced

\* NewStore removes every object that the recovered entries do not need, and does
\* not open before it has.
LEMMA OpenKeepsClean ==
  ASSUME Open PROVE CleanInv'
<1> DEFINE s == Reopened
<1>1. \/ disk' = s /\ memory' = s /\ objects' = objects \ (objects \ Referenced(s))
      \/ up' = FALSE
  BY DEF Open, Reopened
<1> HIDE DEF s
<1> QED
  BY <1>1 DEF CleanInv, Referenced

\* While no write fails, and wherever the process ends, a running store keeps no
\* ciphertext that no entry on disk needs (store.go:800, 1328).  The policy must
\* not delete on failure, which is the default (store.go:464): Claim of an entry
\* whose attempts are used up makes it fail without removing its object
\* (store.go:1406), so that such a policy would find it only when the store is
\* opened again or the entry forgotten.
THEOREM NoOrphansThm ==
  ASSUME "write" \notin Faults, "sync" \notin Faults, "failed" \notin DeleteOn
  PROVE  Spec => []NoOrphans
<1>1. Init => CleanInv
  BY DEF Init, CleanInv
<1>2. QueueInv /\ CleanInv /\ [Next]_vars => CleanInv'
  <2> SUFFICES ASSUME QueueInv, CleanInv, [Next]_vars PROVE CleanInv'
    OBVIOUS
  <2>1. CASE UNCHANGED vars
    BY <2>1 DEF vars, CleanInv, Referenced
  <2>2. CASE Expire \/ Purge
    BY <2>2, ExpireKeepsClean
  <2>3. CASE Open
    BY <2>3, OpenKeepsClean
  <2>4. CASE Complete
    BY <2>4, CompleteKeepsClean
  <2>5. CASE Start \/ Stop \/ WorkerExits \/ UploadSucceeds \/ UploadFails \/ CompleteFails
    BY <2>5 DEF Start, Stop, WorkerExits, UploadSucceeds, UploadFails, CompleteFails,
                CleanInv, Referenced
  <2>6. CASE CompleteRefused \/ Exit
    BY <2>6 DEF CompleteRefused, Exit, Down, CleanInv, Referenced
  <2>7. ASSUME NEW i \in Id, Claim(i) \/ ClaimExceeded(i) \/ ClaimCorrupt(i) PROVE CleanInv'
    BY <2>7, ClaimKeepsClean
  <2>8. ASSUME NEW i \in Id, Retry(i) \/ Cancel(i) \/ Delete(i) PROVE CleanInv'
    BY <2>8, OperationKeepsClean
  <2>9. ASSUME NEW i \in Id, Elapse(i) PROVE CleanInv'
    BY <2>9 DEF Elapse, CleanInv, Referenced
  <2>10. ASSUME NEW i \in Id, NEW k \in Key, NEW d \in Data, Enqueue(i, k, d) PROVE CleanInv'
    BY <2>10, EnqueueKeepsClean
  <2>11. ASSUME NEW i \in Id, NEW k \in Key, NEW d \in Data, EnqueueAgain(i, k, d) PROVE CleanInv'
    BY <2>11 DEF EnqueueAgain, CleanInv, Referenced
  <2>12. ASSUME NEW paused \in BOOLEAN, SetPaused(paused) PROVE CleanInv'
    <3> DEFINE s == [disk EXCEPT !.paused = paused]
    <3>1. Wrote(s, {}) /\ up /\ disk \in State
      BY <2>12 DEF SetPaused, Operate, Wrote, QueueInv, TypeOK
    <3>2. s.entries = disk.entries
      BY <3>1 DEF State
    <3> HIDE DEF s
    <3>3. objects \ {} \subseteq Referenced(s)
      BY <3>1, <3>2 DEF CleanInv, Referenced
    <3> QED
      BY <3>1, <3>3, PersistKeepsClean
  <2>13. ASSUME NEW d \in Data, Rot(d) PROVE CleanInv'
    BY <2>13 DEF Rot, CleanInv, Referenced
  <2> QED
    BY <2>1, <2>2, <2>3, <2>4, <2>5, <2>6, <2>7, <2>8, <2>9, <2>10, <2>11, <2>12, <2>13
       DEF Next, WorkerNext
<1>3. CleanInv => NoOrphans
  BY DEF CleanInv, NoOrphans
<1> QED
  BY <1>1, <1>2, <1>3, InitInv, StepKeepsInv, PTL DEF Spec
=============================================================================
