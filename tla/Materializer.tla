---------------------------- MODULE Materializer ----------------------------
(***************************************************************************)
(* The node-local materializer (internal/controlplane/materializer) behind *)
(* the handler's runtime adapter and the protection-policy consumer        *)
(* (internal/cli): it takes the current commit through journal, baseline,  *)
(* YAML, data-plane runtime and last-known-good record (LKG), any of whose *)
(* writes may be the last before a crash.                                  *)
(*                                                                         *)
(* A commit identity is its epoch, revision and policy; its leader is a    *)
(* function of the epoch, its nonce of the revision.  A configuration is   *)
(* the protection policy and the rest, which other API calls change.       *)
(* writeOne renames a synced temporary file, so a file is replaced whole.  *)
(***************************************************************************)
EXTENDS Naturals, Sequences

CONSTANTS Policy, InitialPolicy, None,
          MaxEpoch, MaxRevision,   \* bounds on the commits of the cluster
          MaxFault,                \* bound on crashes, I/O errors and timeouts
          RetryModes               \* the callers considered: TRUE may bring the
                                   \* same commit again (the component's contract);
                                   \* FALSE is the wiring of serve, where a process
                                   \* never retries and a restart is a new epoch

ASSUME MaterializerAssumption ==
  /\ InitialPolicy \in Policy /\ None \notin Policy
  /\ MaxEpoch \in Nat \ {0} /\ MaxRevision \in Nat \ {0} /\ MaxFault \in Nat
  /\ RetryModes \subseteq BOOLEAN

VARIABLES
  disk,      \* the journal and LKG mirrors, baseline, runtime receipt, YAML
  served,    \* the handler's published configuration
  runtime,   \* the policy the data plane enforces
  up,        \* the process: "down", "starting", "serving"
  op,        \* the ApplyCommitted call in progress
  lease,     \* the operating system's lock on the directory is held
  callback,  \* the identity whose runtime callback is running, or None
  failed,    \* consumer.failed
  current,   \* the commit ClaimCurrentCommit accepts
  faults,          \* faults so far
  exactRetry        \* the caller's mode, fixed from the start

vars == <<disk, served, runtime, up, op, lease, callback, failed, current,
          faults, exactRetry>>

Phase == {"prepared", "baseline_persisted", "yaml_persisted", "runtime_intent",
          "runtime_applied", "compensation_pending", "applied"}
Id == [epoch : 1 .. MaxEpoch, revision : 1 .. MaxRevision, policy : Policy]
Receipt == [id : Id, phase : Phase]
Config == [policy : Policy, rest : 0 .. 1]
Baseline == [id : Id, previous : Config, target : Config]
RuntimeReceipt == [id : Id, target : Config]

\* The absence of a file is none of the values a file may hold.
ASSUME NoneAssumption == None \notin Id \cup Receipt \cup Baseline \cup RuntimeReceipt

NoOp == [pc |-> "idle", id |-> None, phase |-> "prepared", writes |-> <<>>]

-------------------------------------------------------------------------------
(* Receipts and mirrored files *)

Newer(a, b) ==
  a.epoch > b.epoch \/ (a.epoch = b.epoch /\ a.revision > b.revision)
SamePlace(a, b) == a.epoch = b.epoch /\ a.revision = b.revision

PhaseSteps ==
  {<<"prepared", "baseline_persisted">>, <<"baseline_persisted", "yaml_persisted">>,
   <<"yaml_persisted", "runtime_intent">>, <<"runtime_intent", "runtime_applied">>,
   <<"runtime_intent", "yaml_persisted">>, <<"runtime_applied", "applied">>,
   <<"compensation_pending", "runtime_intent">>}

\* ValidateTransition.
ValidTransition(previous, next) ==
  IF previous = None THEN next.phase = "prepared"
  ELSE IF SamePlace(previous.id, next.id)
  THEN /\ previous.id = next.id
       /\ \/ previous.phase = next.phase
          \/ previous.phase # "applied" /\ next.phase = "compensation_pending"
          \/ <<previous.phase, next.phase>> \in PhaseSteps
  ELSE Newer(next.id, previous.id) /\ next.phase = "prepared"

\* validateLKGTransition.
ValidLKG(previous, next) ==
  \/ previous = None
  \/ Newer(next.id, previous.id)
  \/ previous = next

\* validateRestoreTransition.
ValidRestore(previous, next) ==
  \/ previous = None \/ previous = next
  \/ Newer(next.id, previous.id) /\ next.phase = "applied"
  \/ previous.id = next.id /\ next.phase = "applied" /\ previous.phase # "applied"

\* loadMirror: two valid mirrors that differ are an error.
Ambiguous(m) == m[1] # None /\ m[2] # None /\ m[1] # m[2]
Loaded(m) == IF m[1] # None THEN m[1] ELSE m[2]

\* The validator SaveJournal, SaveLKG and RestoreJournalFromLKG give saveTransition.
Valid(save, previous, next) ==
  CASE save = "journal" -> ValidTransition(previous, next)
    [] save = "lkg"     -> ValidLKG(previous, next)
    [] save = "restore" -> ValidRestore(previous, next)

\* saveTransition: a mirror that already holds the receipt lets the other one
\* be repaired; otherwise the mirrors must agree.
CanSave(m, r, save) ==
  IF r \in {m[1], m[2]}
    THEN \A s \in 1 .. 2 : m[s] \in {r, None} \/ Valid(save, m[s], r)
    ELSE ~Ambiguous(m) /\ Valid(save, Loaded(m), r)

Write(file, side, value) == [file |-> file, side |-> side, value |-> value]

\* Mutation: the files receive the identity without the phase.
SaveWritesIdOnly(file, m, r) ==
  <<Write(file, 1, r.id), Write(file, 2, r.id)>>

\* saveMirrorEncoded and the one-sided repairs: the primary goes first.
SaveWrites(file, m, r) ==
  (IF m[1] = r THEN <<>> ELSE <<Write(file, 1, r)>>)
    \o (IF m[2] = r THEN <<>> ELSE <<Write(file, 2, r)>>)

Written(d, w) ==
  IF w.file \in {"journal", "lkg"} THEN [d EXCEPT ![w.file][w.side] = w.value]
                                   ELSE [d EXCEPT ![w.file] = w.value]

-------------------------------------------------------------------------------
(* The process and the cluster around it *)

FreshDisk == [journal |-> <<None, None>>, lkg |-> <<None, None>>, baseline |-> None,
              sealed |-> None, yaml |-> [policy |-> InitialPolicy, rest |-> 0]]

FirstId(p) == [epoch |-> 1, revision |-> 1, policy |-> p]

\* A node that has applied revision 1 and whose journal files were removed.
JournalRemoved ==
  LET applied == [id |-> FirstId(InitialPolicy), phase |-> "applied"]
  IN [FreshDisk EXCEPT !.lkg = <<applied, applied>>,
                       !.sealed = [id |-> applied.id, target |-> FreshDisk.yaml]]

Init ==
  /\ disk \in {FreshDisk, JournalRemoved}
  /\ served = disk.yaml /\ runtime = disk.yaml.policy
  /\ up = "down" /\ op = NoOp /\ lease = FALSE /\ callback = None
  /\ failed = FALSE
  /\ current \in IF disk = FreshDisk THEN {FirstId(p) : p \in Policy}
                                     ELSE {FirstId(InitialPolicy)}
  /\ faults = 0 /\ exactRetry \in RetryModes

\* serve builds handler and proxy from the YAML; only the leader of a new term
\* passes Bootstrap, so its startup commit has a new epoch.
Start ==
  /\ up = "down"
  /\ \E e \in {current.epoch + 1} \cup (IF exactRetry THEN {current.epoch} ELSE {}) :
       e <= MaxEpoch /\ current' = [current EXCEPT !.epoch = e]
  /\ up' = "starting" /\ served' = disk.yaml /\ runtime' = disk.yaml.policy
  /\ failed' = FALSE
  /\ UNCHANGED <<disk, op, lease, callback, faults, exactRetry>>

Crash ==
  /\ up # "down" /\ faults < MaxFault
  /\ up' = "down" /\ op' = NoOp /\ lease' = FALSE /\ callback' = None
  /\ faults' = faults + 1
  /\ UNCHANGED <<disk, served, runtime, failed, current, exactRetry>>

\* Another leader's commit or a re-election: the machine moves on.
ClusterAdvances ==
  /\ up # "down" /\ current.epoch < MaxEpoch
  /\ \/ current' = [current EXCEPT !.epoch = @ + 1]
     \/ /\ current.revision < MaxRevision
        /\ \E p \in Policy :
             current' = [epoch |-> current.epoch + 1, revision |-> current.revision + 1,
                         policy |-> p]
  /\ UNCHANGED <<disk, served, runtime, up, op, lease, callback, failed, faults, exactRetry>>

\* commitConfigMutation of an unrelated setting, kept out while a
\* materialization runs: it persists and publishes the served policy.
EditConfig ==
  /\ up = "serving" /\ op.pc = "idle" /\ served.rest = 0
  /\ served' = [served EXCEPT !.rest = 1]
  /\ disk' = [disk EXCEPT !.yaml = served']
  /\ UNCHANGED <<runtime, up, op, lease, callback, failed, current, faults, exactRetry>>

\* ApplyCommitted takes the directory lease; Enter or ClaimFails comes next.
Begin(id) ==
  /\ op.pc = "idle" /\ ~lease
  /\ lease' = TRUE
  /\ op' = [NoOp EXCEPT !.pc = "enter", !.id = id]

\* consumer.applyStartup, before the listeners open.
Startup ==
  /\ up = "starting" /\ Begin(current)
  /\ UNCHANGED <<disk, served, runtime, up, callback, failed, current, faults, exactRetry>>

\* A policy write: the coordinator has committed the next revision.
Propose ==
  /\ up = "serving" /\ ~failed /\ current.revision < MaxRevision
  /\ \E p \in Policy :
       LET id == [current EXCEPT !.revision = @ + 1, !.policy = p]
       IN current' = id /\ Begin(id)
  /\ UNCHANGED <<disk, served, runtime, up, callback, failed, faults, exactRetry>>

Retry ==
  /\ exactRetry /\ up = "serving" /\ failed /\ Begin(current)
  /\ UNCHANGED <<disk, served, runtime, up, callback, failed, current, faults, exactRetry>>

-------------------------------------------------------------------------------
(* applyCommitted *)

At(pc) == op.pc = pc /\ op.writes = <<>>

Continue(pc, phase, writes) ==
  /\ op' = [op EXCEPT !.pc = pc, !.phase = phase, !.writes = writes]
  /\ UNCHANGED <<disk, served, runtime, up, lease, callback, failed, current,
                 faults, exactRetry>>

\* An error: the consumer freezes; at startup serve exits.
Fail ==
  /\ op' = NoOp /\ failed' = TRUE
  /\ up' = IF up = "starting" THEN "down" ELSE up

\* An error that a check of the code raises.
Refuse ==
  /\ Fail /\ lease' = FALSE
  /\ UNCHANGED <<disk, served, runtime, callback, current, faults, exactRetry>>

Continues(ok, pc, phase, writes) ==
  IF ok THEN Continue(pc, phase, writes) ELSE Refuse

WriteOne ==
  /\ op.writes # <<>>
  /\ disk' = Written(disk, Head(op.writes))
  /\ op' = [op EXCEPT !.writes = Tail(@)]
  /\ UNCHANGED <<served, runtime, up, lease, callback, failed, current, faults, exactRetry>>

\* An I/O error: the rename failed, or it succeeded and the sync failed.
WriteFails ==
  /\ op.writes # <<>> /\ faults < MaxFault
  /\ disk' \in {disk, Written(disk, Head(op.writes))}
  /\ faults' = faults + 1
  /\ Fail /\ lease' = FALSE
  /\ UNCHANGED <<served, runtime, callback, current, exactRetry>>

\* validateIncoming.
ValidIncoming(journal, lkg, prepared) ==
  /\ ~(journal # None /\ lkg # None /\ journal.id = lkg.id /\ journal.phase # "applied")
  /\ \A r \in {journal, lkg} \ {None} : r.id = prepared.id \/ ValidTransition(r, prepared)

SaveJournal(previous, phase, pc) ==
  LET r == [id |-> op.id, phase |-> phase]
  IN Continues((previous # None => ValidTransition(previous, r))
                 /\ CanSave(disk.journal, r, "journal"),
               pc, phase, SaveWrites("journal", disk.journal, r))

\* ClaimCurrentCommit refuses: the cluster moved on before the lease was taken.
ClaimFails ==
  /\ At("enter") /\ op.id # current
  /\ Fail /\ lease' = FALSE
  /\ UNCHANGED <<disk, served, runtime, callback, current, faults, exactRetry>>

\* applyCommitted up to the first journal write.
Enter ==
  LET prepared == [id |-> op.id, phase |-> "prepared"]
      applied == [id |-> op.id, phase |-> "applied"]
      journal == Loaded(disk.journal)
      lkg == Loaded(disk.lkg)
      latest == IF journal # None THEN journal ELSE lkg
  IN /\ At("enter") /\ op.id = current
     /\ IF \/ Ambiguous(disk.journal) \/ Ambiguous(disk.lkg)
           \/ ~ValidIncoming(journal, lkg, prepared)
        THEN Refuse
        ELSE IF journal = applied
        THEN Continues(CanSave(disk.lkg, applied, "lkg"), "clean", "applied",
                       IF lkg = applied THEN <<>>
                       ELSE SaveWrites("lkg", disk.lkg, applied))
        ELSE IF journal = None /\ lkg = applied
        THEN Continues(CanSave(disk.journal, applied, "restore"), "clean", "applied",
                       SaveWrites("journal", disk.journal, applied))
        ELSE IF latest # None /\ latest.id = op.id
        THEN Continue("baseline", latest.phase, <<>>)
        ELSE SaveJournal(latest, "prepared", "baseline")

\* captureBaseline and SaveBaseline, or LoadBaseline of this very commit.
LoadBaseline ==
  LET target == [served EXCEPT !.policy = op.id.policy]
      captured == [id |-> op.id, previous |-> served, target |-> target]
  IN /\ At("baseline")
     /\ IF disk.baseline = None /\ op.phase = "prepared"
        THEN Continue("step", op.phase, <<Write("baseline", 0, captured)>>)
        ELSE Continues(disk.baseline # None /\ disk.baseline.id = op.id,
                       "step", op.phase, <<>>)

Step(phase) == At("step") /\ op.phase = phase
ThisReceipt == [id |-> op.id, phase |-> op.phase]

RecordBaseline ==
  Step("prepared") /\ SaveJournal(ThisReceipt, "baseline_persisted", "yaml")

\* On a resumed call the phase is already recorded.
ResumeYAML == Step("baseline_persisted") /\ Continue("yaml", op.phase, <<>>)

\* Mutation: the YAML is not written.
PersistConfigSkipped == At("yaml") /\ Continue("recordyaml", op.phase, <<>>)

PersistConfig ==
  /\ At("yaml")
  /\ Continue("recordyaml", op.phase, <<Write("yaml", 0, disk.baseline.target)>>)

RecordYAML == At("recordyaml") /\ SaveJournal(ThisReceipt, "yaml_persisted", "step")
RecordIntent == Step("yaml_persisted") /\ SaveJournal(ThisReceipt, "runtime_intent", "step")

\* SaveRuntimeReceipt's check, and the receipt of this commit's target.
Seal(id) == [id |-> id, target |-> disk.baseline.target]
CanSeal(r) ==
  \/ disk.sealed \in {None, r}
  \/ ~Newer(disk.sealed.id, r.id) /\ ~SamePlace(disk.sealed.id, r.id)

\* Mutation: without a runtime receipt the target is taken for granted.
RuntimeStateTrusting ==
  IF disk.sealed = None \/ disk.sealed = Seal(op.id) THEN "target" ELSE "previous"

\* runtimeState and the adapter's Query, which seals a target it observes.
RuntimeState ==
  IF disk.sealed = Seal(op.id) THEN "target"
  ELSE IF served = disk.baseline.target
  THEN IF CanSeal(Seal(op.id)) THEN "observed" ELSE "error"
  ELSE IF /\ served = disk.baseline.previous
          /\ disk.sealed # None => disk.sealed.id # op.id
  THEN "previous" ELSE "unknown"

QuerySeals ==
  IF RuntimeState = "observed" THEN <<Write("sealed", 0, Seal(op.id))>> ELSE <<>>

\* A pending compensation goes back to intent when the state is known.
RetryIntent ==
  /\ Step("compensation_pending")
  /\ LET r == [id |-> op.id, phase |-> "runtime_intent"]
     IN Continues(/\ RuntimeState \notin {"unknown", "error"}
                  /\ CanSave(disk.journal, r, "journal"),
                  "step", r.phase, QuerySeals \o SaveWrites("journal", disk.journal, r))

\* The query found the target: the data plane has it.
RuntimeIsTarget(pc) ==
  /\ At(pc) /\ op.phase = "runtime_intent"
  /\ RuntimeState \in {"target", "observed"}
  /\ LET r == [id |-> op.id, phase |-> "runtime_applied"]
     IN Continues(CanSave(disk.journal, r, "journal"), "step", r.phase,
                  QuerySeals \o SaveWrites("journal", disk.journal, r))

\* Neither target nor previous: record it and give up.
RuntimeIsUnknown(pc) ==
  /\ At(pc) /\ op.phase = "runtime_intent"
  /\ RuntimeState \in {"unknown", "error"}
  /\ IF RuntimeState = "error" THEN Refuse
     ELSE SaveJournal(ThisReceipt, "compensation_pending", "giveup")

GiveUp == At("giveup") /\ Refuse

\* callRuntime: the callback runs on a goroutine of its own.
CallRuntime ==
  /\ Step("runtime_intent") /\ RuntimeState = "previous"
  /\ callback' = op.id
  /\ op' = [op EXCEPT !.pc = "called"]
  /\ UNCHANGED <<disk, served, runtime, up, lease, failed, current, faults, exactRetry>>

\* Mutation: the timed-out caller also unlocks the directory.
CallTimesOutUnlocked ==
  /\ op.pc = "called" /\ faults < MaxFault
  /\ faults' = faults + 1
  /\ Fail /\ lease' = FALSE
  /\ UNCHANGED <<disk, served, runtime, callback, current, exactRetry>>

\* The caller gives up first; the operating system's lock stays with the callback.
CallTimesOut ==
  /\ op.pc = "called" /\ faults < MaxFault
  /\ faults' = faults + 1
  /\ Fail
  /\ callback' = IF up = "starting" THEN None ELSE callback
  /\ lease' = (up # "starting")
  /\ UNCHANGED <<disk, served, runtime, current, exactRetry>>

\* The callback ends: the caller inspects, or the retained lock is released.
CallbackEnds ==
  /\ callback' = None
  /\ IF op.pc = "called" THEN op' = [op EXCEPT !.pc = "inspect"] /\ UNCHANGED lease
                         ELSE lease' = FALSE /\ UNCHANGED op
  /\ UNCHANGED <<served, up, failed, current, exactRetry>>

\* ApplyProtectionRuntime, then the runtime receipt.
CallbackSucceeds ==
  /\ callback # None
  /\ runtime' = disk.baseline.target.policy
  /\ disk' = IF CanSeal(Seal(callback)) THEN [disk EXCEPT !.sealed = Seal(callback)]
                                        ELSE disk
  /\ UNCHANGED faults
  /\ CallbackEnds

\* The callback changed nothing, or it did and its receipt could not be written.
CallbackFails ==
  /\ callback # None /\ faults < MaxFault
  /\ runtime' \in {runtime, disk.baseline.target.policy}
  /\ faults' = faults + 1
  /\ UNCHANGED disk
  /\ CallbackEnds

\* Mutation: a failed runtime call cleans the baseline up.
InspectPreviousCleans ==
  /\ At("inspect") /\ RuntimeState = "previous"
  /\ Continue("giveup", op.phase, <<Write("baseline", 0, None)>>)

InspectPrevious == At("inspect") /\ RuntimeState = "previous" /\ Refuse

\* Mutation: the LKG is written before the journal says applied.
RecordAppliedLate == Step("runtime_applied") /\ Continue("lkg", "applied", <<>>)

RecordApplied == Step("runtime_applied") /\ SaveJournal(ThisReceipt, "applied", "lkg")

SaveLKG ==
  /\ At("lkg")
  /\ Continues(CanSave(disk.lkg, ThisReceipt, "lkg"), "clean", "applied",
               SaveWrites("lkg", disk.lkg, ThisReceipt))

DeleteBaseline ==
  /\ At("clean")
  /\ Continues(disk.baseline # None => disk.baseline.id = op.id, "publish", "applied",
               IF disk.baseline = None THEN <<>> ELSE <<Write("baseline", 0, None)>>)

\* PublishMaterializedConfig; after a startup the listeners open.
Publish ==
  /\ At("publish")
  /\ served' = [served EXCEPT !.policy = op.id.policy]
  /\ op' = NoOp /\ lease' = FALSE /\ failed' = FALSE /\ up' = "serving"
  /\ UNCHANGED <<disk, runtime, callback, current, faults, exactRetry>>

\* The context of the call has expired before the configuration is published.
PublishFails ==
  /\ At("publish") /\ faults < MaxFault
  /\ faults' = faults + 1
  /\ Fail /\ lease' = FALSE
  /\ UNCHANGED <<disk, served, runtime, callback, current, exactRetry>>

Apply ==
  \/ ClaimFails \/ Enter \/ WriteOne \/ LoadBaseline \/ RecordBaseline \/ ResumeYAML
  \/ PersistConfig \/ RecordYAML \/ RecordIntent \/ RetryIntent \/ CallRuntime
  \/ \E pc \in {"step", "inspect"} : RuntimeIsTarget(pc) \/ RuntimeIsUnknown(pc)
  \/ GiveUp \/ InspectPrevious \/ RecordApplied \/ SaveLKG \/ DeleteBaseline \/ Publish

Next ==
  \/ Start \/ Crash \/ ClusterAdvances \/ EditConfig
  \/ Startup \/ Propose \/ Retry \/ Apply
  \/ WriteFails \/ CallTimesOut \/ CallbackSucceeds \/ CallbackFails \/ PublishFails

Spec == Init /\ [][Next]_vars

\* A supervisor restarts the process, the caller retries, goroutines run and a
\* callback returns.  Faults stop: their number is bounded.
FairSpec ==
  /\ Spec
  /\ WF_vars(Start) /\ WF_vars(Startup) /\ WF_vars(Retry) /\ WF_vars(Apply)
  /\ WF_vars(CallbackSucceeds)

-------------------------------------------------------------------------------
(* Properties *)

\* Every variable holds what the code's types allow.
TypeOK ==
  /\ {disk.journal, disk.lkg} \subseteq [1 .. 2 -> Receipt \cup {None}]
  /\ disk.yaml \in Config /\ served \in Config /\ runtime \in Policy
  /\ disk.baseline \in Baseline \cup {None} /\ disk.sealed \in RuntimeReceipt \cup {None}
  /\ up \in {"down", "starting", "serving"} /\ current \in Id
  /\ op.id \in Id \cup {None} /\ op.phase \in Phase
  /\ {lease, failed, exactRetry} \subseteq BOOLEAN /\ faults \in 0 .. MaxFault

\* orchestrator.go:457: a last-known-good record is backed by evidence: a runtime
\* receipt of that commit, with its policy, or of a later commit.
LKGIsProven ==
  \A s \in 1 .. 2 :
    LET r == disk.lkg[s]
    IN r # None =>
         /\ r.phase = "applied" /\ disk.sealed # None
         /\ \/ Newer(disk.sealed.id, r.id)
            \/ disk.sealed.id = r.id /\ disk.sealed.target.policy = r.id.policy

\* orchestrator.go:330: as serve wires it, the data plane runs ahead of the
\* published configuration only with a durable record of what it runs: the
\* baseline or the LKG.
RuntimeIsRecorded ==
  ~exactRetry /\ up # "down" /\ runtime # served.policy =>
    \/ disk.baseline # None /\ disk.baseline.target.policy = runtime
    \/ Loaded(disk.lkg) # None /\ Loaded(disk.lkg).id.policy = runtime

\* protection_policy_consumer.go:237: as serve wires it, a process that serves, has
\* no call running and did not fail is at rest: data plane, published configuration
\* and YAML agree with the journal and the LKG, and nothing is left to compensate.
RestIsConsistent ==
  ~exactRetry /\ up = "serving" /\ op.pc = "idle" /\ ~failed =>
    /\ runtime = served.policy /\ disk.yaml = served
    /\ ~Ambiguous(disk.journal) /\ ~Ambiguous(disk.lkg)
    /\ Loaded(disk.journal) # None /\ Loaded(disk.journal) = Loaded(disk.lkg)
    /\ Loaded(disk.lkg).id.policy = runtime
    /\ disk.baseline = None /\ callback = None

\* directory_lock.go:131: a callback that outlives its caller still belongs to
\* the newest commit of the journal: it cannot overwrite a later policy.  (One
\* mirror may be missing, when every write of the commit was cut off half way.)
LateCallbackIsCurrent ==
  callback # None =>
    /\ Loaded(disk.journal) # None
    /\ \A s \in 1 .. 2 : disk.journal[s] # None => disk.journal[s].id = callback

\* orchestrator.go:381: the LKG never runs ahead of the journal: both mirrors of
\* a journal that exists record that commit as applied, or a later commit, so the
\* pair that validateIncoming calls ambiguous cannot arise.
LKGFollowsJournal ==
  \A s, t \in 1 .. 2 :
    LET l == disk.lkg[s]
        j == disk.journal[t]
    IN l # None /\ j # None => Newer(j.id, l.id) \/ j = l

-------------------------------------------------------------------------------
(* What comments say and the code does not do *)

\* store.go:266: a crash between the two mirror writes is repaired by a retry of
\* the exact commit.
MirrorsHeal == Ambiguous(disk.journal) ~> ~Ambiguous(disk.journal)
===============================================================================
