---------------------------- MODULE ApprovalGate ----------------------------
(***************************************************************************)
(* The approval gates of several processes over one PostgreSQL ledger      *)
(* (internal/approval/gate.go, approval/postgres/store.go,                 *)
(* approval/runtime/service.go, api/handler/cluster.go).                   *)
(*                                                                         *)
(* A method of Gate changes the gate's maps, runs its transaction and      *)
(* returns, all under the gate's mutex: Begin and then Persist, when the   *)
(* call succeeds, or PersistFails, when it fails before or after the       *)
(* commit and puts back the maps as they were.  Nobody else takes the      *)
(* mutex in between, but Gate.Restore copies the maps without it: one      *)
(* after the other, and whatever is in them at that moment.  A copy of a   *)
(* map is one step, as are the writes of a call to its maps.               *)
(*                                                                         *)
(* What a confirmation binds (actor, scope, session, digests, phrase,      *)
(* nonce) is either right or not.  Whether a request's TTL has elapsed is  *)
(* up to the clock of the process, so any call may find that it has.       *)
(* The audit slice is left out: a call only reads what it has appended.    *)
(***************************************************************************)
EXTENDS Naturals, Sequences, FiniteSets

CONSTANTS Gate,        \* processes
          Handler,     \* request handlers of a process that may run Gate.Restore
          Request,     \* request IDs
          Conf,        \* confirmation IDs of interactive confirmations
          Approver,    \* who confirms, with session, role and warning time
          Kinds,       \* how a request may be approved
          None,
          MaxEpoch, MaxEvents,   \* bounds on policy epochs and on events per request
          SameInstant  \* whether two calls may carry the same time

ASSUME ApprovalAssumption ==
  /\ None \notin Request \cup Conf \cup Approver
  /\ Kinds \subseteq {"preapproved", "plain", "third"}
  /\ MaxEpoch \in Nat \ {0} /\ MaxEvents \in Nat /\ SameInstant \in BOOLEAN

VARIABLES
  epoch,     \* cheesewaf_approval_epoch
  log,       \* cheesewaf_approval_events, each with the record of its mutation
  gate,      \* the Gate of each process
  call,      \* the call of each process that is in its transaction
  restoring, \* the Gate.Restore calls of each process
  used,      \* history: how often ConsumeAuthorization has succeeded
  closed,    \* history: the requests a Revoke call has revoked
  torn       \* history: the requests of which some Restore has put back a record
             \* that does not belong to the sequence number it put back

vars == <<epoch, log, gate, call, restoring, used, closed, torn>>

Epoch == 1 .. MaxEpoch
Status == {"pending", "approved", "revoked", "expired"}
EventType == {"submitted", "authorized", "checkpoint", "rejected", "revoked", "expired"}

Record == [kind : Kinds, epoch : Epoch, status : Status, conf : Conf \cup {None},
           by : Approver \cup {None}, step : {0, 2, 3}]
Entry == [type : EventType, conf : Conf \cup {None}, record : Record]

ASSUME NoneAssumption == None \notin Record

\* The maps of a Gate that snapshot copies and restore puts back.
Memory == [requests : [Request -> Record \cup {None}], usedIDs : SUBSET Conf,
           owners : [Conf -> Request \cup {None}], sequences : [Request -> 0 .. MaxEvents]]

EmptyMemory == [requests |-> [r \in Request |-> None], usedIDs |-> {},
                owners |-> [c \in Conf |-> None], sequences |-> [r \in Request |-> 0]]

\* What a gate does while no method of it is in a transaction.
Idle == [op |-> "idle", req |-> None, before |-> EmptyMemory, entries |-> <<>>]
Op == {"idle", "change", "revoke", "consume"}

\* A handler that runs no Restore.  pc is the map that the snapshot copies next.
NoRestore == [pc |-> "idle", todo |-> {}, snap |-> EmptyMemory, torn |-> {}]

\* A ledger that Service.Open has initialized, and processes that have not started.
Init ==
  /\ epoch = 1
  /\ log = [r \in Request |-> <<>>]
  /\ gate = [g \in Gate |-> [mode |-> "down", epoch |-> 1, mem |-> EmptyMemory]]
  /\ call = [g \in Gate |-> Idle]
  /\ restoring = [g \in Gate |-> [h \in Handler |-> NoRestore]]
  /\ used = [r \in Request |-> 0] /\ closed = {} /\ torn = {}

-------------------------------------------------------------------------------
(* persistSince and applyMutationTx *)

Mem(g) == gate[g].mem
Rec(g, r) == gate[g].mem.requests[r]

\* The gate's mutex is free.
Free(g) == call[g].op = "idle"
Serving(g) == gate[g].mode = "up" /\ Free(g)

WithRecord(m, r, record) == [m EXCEPT !.requests[r] = record]
EventOf(type, c, record) == [type |-> type, conf |-> c, record |-> record]

\* A call of g on r has left memory m and the events entries for the ledger.
Begin(g, r, m, entries, op) ==
  /\ gate' = [gate EXCEPT ![g].mem = m]
  /\ call' = [call EXCEPT ![g] = [op |-> op, req |-> r, before |-> Mem(g), entries |-> entries]]
  /\ UNCHANGED <<epoch, log, restoring, used, closed, torn>>

\* Mutant: the transaction does not compare the sequence of the event.
AppendableAnywhere(g) ==
  Rec(g, call[g].req).epoch = gate[g].epoch /\ epoch = gate[g].epoch

\* Mutant: the transaction does not compare the durable epoch.
AppendableAtAnyEpoch(g) ==
  /\ Rec(g, call[g].req).epoch = gate[g].epoch
  /\ Len(log[call[g].req]) = Mem(g).sequences[call[g].req]

\* The transaction accepts the events of gate g: the durable epoch is the
\* gate's, and the next sequence number is the one the gate expects.
Appendable(g) ==
  /\ Rec(g, call[g].req).epoch = gate[g].epoch /\ epoch = gate[g].epoch
  /\ Len(log[call[g].req]) = Mem(g).sequences[call[g].req]

\* The transaction appends the events of gate g.
Commit(g) ==
  /\ Appendable(g) /\ Len(log[call[g].req]) + Len(call[g].entries) <= MaxEvents
  /\ log' = [log EXCEPT ![call[g].req] = @ \o call[g].entries]

\* The events are in the ledger already, with the same fingerprint.
Replayed(g) ==
  LET n == Mem(g).sequences[call[g].req]
      k == n + Len(call[g].entries)
  IN /\ SameInstant /\ epoch = gate[g].epoch
     /\ k <= Len(log[call[g].req])
     /\ SubSeq(log[call[g].req], n + 1, k) = call[g].entries

\* The transaction has ended and the call returns.
Persist(g) ==
  LET r == call[g].req
  IN /\ ~Free(g)
     /\ Commit(g) \/ (Replayed(g) /\ UNCHANGED log)
     /\ gate' = [gate EXCEPT ![g].mem.sequences[r] = @ + Len(call[g].entries)]
     /\ call' = [call EXCEPT ![g] = Idle]
     /\ used' = IF call[g].op = "consume" THEN [used EXCEPT ![r] = @ + 1] ELSE used
     /\ closed' = IF call[g].op = "revoke" THEN closed \cup {r} ELSE closed
     /\ UNCHANGED <<epoch, restoring, torn>>

\* Mutant: a call that failed keeps the memory it has built.
RolledBackNever(g) == Mem(g)

\* restore(snap) of the call that failed.
RolledBack(g) == call[g].before

\* The call failed, before its transaction committed or after.
PersistFails(g) ==
  /\ ~Free(g)
  /\ Commit(g) \/ UNCHANGED log
  /\ gate' = [gate EXCEPT ![g].mem = RolledBack(g)]
  /\ call' = [call EXCEPT ![g] = Idle]
  /\ UNCHANGED <<epoch, restoring, used, closed, torn>>

-------------------------------------------------------------------------------
(* The methods of Gate *)

Submit(g, r, kind) ==
  LET pre == kind = "preapproved"
      record == [kind |-> kind, epoch |-> gate[g].epoch,
                 status |-> IF pre THEN "approved" ELSE "pending",
                 conf |-> None, by |-> None, step |-> 0]
      submitted == EventOf("submitted", None, record)
  IN /\ Serving(g) /\ Rec(g, r) = None
     /\ Begin(g, r, WithRecord(Mem(g), r, record),
              IF pre THEN <<submitted, EventOf("authorized", None, record)>>
                     ELSE <<submitted>>, "change")

\* Mutant: a request that has ended may be confirmed.
ConfirmableAgain(g, r, c, valid) ==
  /\ Rec(g, r).status \in {"pending", "revoked"}
  /\ Rec(g, r).epoch = gate[g].epoch /\ valid
  /\ c \notin Mem(g).usedIDs /\ Mem(g).owners[c] \in {r, None}

\* What Confirm demands of any confirmation.
Confirmable(g, r, c, valid) ==
  /\ Rec(g, r).status = "pending"
  /\ Rec(g, r).epoch = gate[g].epoch /\ valid
  /\ c \notin Mem(g).usedIDs /\ Mem(g).owners[c] \in {r, None}

\* sameCheckpoint.
SameCheckpoint(record, c, a) == record.conf = c /\ record.by = a

\* The confirmation asks for the second step of three: it is recorded, or it
\* repeats the one recorded.
IsCheckpoint(g, r, c, a, third) ==
  /\ Rec(g, r).kind = "third" /\ ~third
  /\ Rec(g, r).conf = None \/ SameCheckpoint(Rec(g, r), c, a)

\* Mutant: the third click needs no checkpoint.
IsFinalUnchecked(g, r, c, a, third) == Rec(g, r).kind = "third" => third

\* The confirmation is the last one the request needs.
IsFinal(g, r, c, a, third) ==
  Rec(g, r).kind = "third" => third /\ Rec(g, r).step = 2 /\ SameCheckpoint(Rec(g, r), c, a)

\* Confirm, by what it finds: a request whose TTL has elapsed,
ConfirmExpires(g, r, c) ==
  LET record == [Rec(g, r) EXCEPT !.status = "expired"]
  IN /\ Serving(g) /\ Rec(g, r) # None /\ Rec(g, r).status = "pending"
     /\ Begin(g, r, WithRecord(Mem(g), r, record), <<EventOf("expired", c, record)>>, "change")

\* a confirmation it rejects,
ConfirmRejects(g, r, c, a, third, valid) ==
  /\ Serving(g) /\ Rec(g, r) # None
  /\ ~ /\ Confirmable(g, r, c, valid)
       /\ IsCheckpoint(g, r, c, a, third) \/ IsFinal(g, r, c, a, third)
  /\ Begin(g, r, Mem(g), <<EventOf("rejected", c, Rec(g, r))>>, "change")

\* the second confirmation of three,
ConfirmCheckpoint(g, r, c, a, third, valid) ==
  LET record == [Rec(g, r) EXCEPT !.conf = c, !.by = a, !.step = 2]
      m == [WithRecord(Mem(g), r, record) EXCEPT !.owners[c] = r]
  IN /\ Serving(g) /\ Rec(g, r) # None
     /\ Confirmable(g, r, c, valid) /\ IsCheckpoint(g, r, c, a, third)
     /\ Begin(g, r, m, <<EventOf("checkpoint", c, record)>>, "change")

\* Mutant: the step of the final confirmation is counted on.
FinalStepCounted(record) == record.step + 1

FinalStep(record) == IF record.kind = "third" THEN 3 ELSE 2

\* or the one that authorises.
ConfirmAuthorizes(g, r, c, a, third, valid) ==
  LET record == [Rec(g, r) EXCEPT !.status = "approved", !.conf = c, !.by = a,
                   !.step = FinalStep(Rec(g, r))]
      m == [WithRecord(Mem(g), r, record) EXCEPT !.usedIDs = @ \cup {c}]
  IN /\ Serving(g) /\ Rec(g, r) # None
     /\ Confirmable(g, r, c, valid) /\ IsFinal(g, r, c, a, third)
     /\ Begin(g, r, m, <<EventOf("authorized", c, record)>>, "change")

\* The record of a request that Revoke or ConsumeAuthorization ends.
Ended(g, r) == [Rec(g, r) EXCEPT !.status = "revoked"]
EndedMemory(g, r) == WithRecord(Mem(g), r, Ended(g, r))

Revoke(g, r) ==
  /\ Serving(g) /\ Rec(g, r) # None /\ Rec(g, r).status # "revoked"
  /\ Begin(g, r, EndedMemory(g, r), <<EventOf("revoked", None, Ended(g, r))>>, "revoke")

\* ConsumeAuthorization of a caller whose scope and intent match and that finds
\* the TTL not elapsed.
ConsumeAuthorization(g, r) ==
  /\ Serving(g) /\ Rec(g, r) # None
  /\ Rec(g, r).status = "approved" /\ Rec(g, r).epoch = gate[g].epoch
  /\ Begin(g, r, EndedMemory(g, r), <<EventOf("revoked", Rec(g, r).conf, Ended(g, r))>>, "consume")

\* AdvanceEpoch to a later epoch: CompareAndSetEpoch, whose answer may be lost.
AdvanceEpoch(g) ==
  /\ Serving(g) /\ epoch = gate[g].epoch
  /\ epoch' \in {e \in Epoch : e > epoch}
  /\ \/ gate' = [gate EXCEPT ![g].epoch = epoch']
     \/ UNCHANGED gate
  /\ UNCHANGED <<log, call, restoring, used, closed, torn>>

-------------------------------------------------------------------------------
(* Restore *)

\* Service.Open of a process configured with the durable epoch (any other
\* epoch is refused), which goes on to Gate.Restore.
Open(g, h) ==
  /\ gate[g].mode = "down"
  /\ gate' = [gate EXCEPT ![g] = [mode |-> "opening", epoch |-> epoch, mem |-> EmptyMemory]]
  /\ restoring' = [restoring EXCEPT ![g][h] = [NoRestore EXCEPT !.pc = "list"]]
  /\ UNCHANGED <<epoch, log, call, used, closed, torn>>

\* Restore of every request in the ledger: ListIDs.
ListIDs(g, h) ==
  /\ restoring[g][h].pc = "list"
  /\ restoring' = [restoring EXCEPT ![g][h].pc = "requests",
                                    ![g][h].todo = {r \in Request : log[r] # <<>>}]
  /\ UNCHANGED <<epoch, log, gate, call, used, closed, torn>>

\* A request handler has not found r in memory (Gate.Get) and calls Gate.Restore.
Restore(g, h, r) ==
  /\ Serving(g) /\ restoring[g][h].pc = "idle" /\ Rec(g, r) = None
  /\ restoring' = [restoring EXCEPT ![g][h] =
                     [NoRestore EXCEPT !.pc = "requests", !.todo = {r}]]
  /\ UNCHANGED <<epoch, log, gate, call, used, closed, torn>>

\* The maps that snapshot copies, each with what follows it.
After == [requests |-> "usedIDs", usedIDs |-> "owners", owners |-> "sequences",
          sequences |-> "load"]

\* The memory that the events of its requests have reached, without the changes of
\* a call whose transaction has not ended.
AtRest(g) == IF Free(g) THEN Mem(g) ELSE call[g].before

\* snapshot, without the mutex: the next map as it is now.  Once the sequence
\* numbers are copied the records that do not belong to them are known.
Copy(g, h) ==
  LET c == restoring[g][h]
  IN /\ c.pc \in DOMAIN After
     /\ restoring' = [restoring EXCEPT ![g][h] =
          [c EXCEPT !.pc = After[c.pc], !.snap[c.pc] = Mem(g)[c.pc],
                    !.torn = IF c.pc = "sequences"
                             THEN {r \in Request : c.snap.requests[r] # AtRest(g).requests[r]}
                             ELSE {}]]
     /\ UNCHANGED <<epoch, log, gate, call, used, closed, torn>>

Last(s) == s[Len(s)]
ConfsOf(r, type) ==
  {c \in Conf : \E i \in DOMAIN log[r] : log[r][i].type = type /\ log[r][i].conf = c}

\* The memory of g with the record and the events of r.
Loaded(g, r) ==
  LET m == Mem(g)
  IN [requests |-> [m.requests EXCEPT ![r] = Last(log[r]).record],
      usedIDs |-> m.usedIDs \cup ConfsOf(r, "authorized"),
      owners |-> [c \in Conf |-> IF c \in ConfsOf(r, "checkpoint") THEN r ELSE m.owners[c]],
      sequences |-> [m.sequences EXCEPT ![r] = Len(log[r])]]

\* RestoreRecord finds what it needs: r is not in memory, it is in the ledger,
\* and its epoch is the durable one and the gate's.
Restorable(g, r) ==
  /\ Rec(g, r) = None /\ log[r] # <<>>
  /\ epoch = gate[g].epoch /\ Last(log[r]).record.epoch = gate[g].epoch

RestoreRecord(g, h, r) ==
  /\ restoring[g][h].pc = "load" /\ Free(g)
  /\ r \in restoring[g][h].todo /\ Restorable(g, r)
  /\ gate' = [gate EXCEPT ![g].mem = Loaded(g, r)]
  /\ restoring' = [restoring EXCEPT ![g][h].todo = @ \ {r}]
  /\ UNCHANGED <<epoch, log, call, used, closed, torn>>

\* RestoreRecord failed, or its query did: Gate.Restore puts back its snapshot
\* and fails, and with it Service.Open.
RestoreFails(g, h) ==
  /\ restoring[g][h].pc = "load" /\ Free(g) /\ restoring[g][h].todo # {}
  /\ gate' = [gate EXCEPT ![g].mem = restoring[g][h].snap,
                          ![g].mode = IF @ = "opening" THEN "down" ELSE @]
  /\ restoring' = [restoring EXCEPT ![g][h] = NoRestore]
  /\ torn' = torn \cup restoring[g][h].torn
  /\ UNCHANGED <<epoch, log, call, used, closed>>

RestoreEnds(g, h) ==
  /\ restoring[g][h].pc = "load" /\ restoring[g][h].todo = {}
  /\ gate' = [gate EXCEPT ![g].mode = "up"]
  /\ restoring' = [restoring EXCEPT ![g][h] = NoRestore]
  /\ UNCHANGED <<epoch, log, call, used, closed, torn>>

\* The process ends, in any state.
Crash(g) ==
  /\ gate[g].mode # "down"
  /\ gate' = [gate EXCEPT ![g].mode = "down", ![g].mem = EmptyMemory]
  /\ call' = [call EXCEPT ![g] = Idle]
  /\ restoring' = [restoring EXCEPT ![g] = [h \in Handler |-> NoRestore]]
  /\ UNCHANGED <<epoch, log, used, closed, torn>>

Confirm(g, r) ==
  \E c \in Conf, a \in Approver, third \in BOOLEAN, valid \in BOOLEAN :
    \/ ConfirmRejects(g, r, c, a, third, valid)
    \/ ConfirmCheckpoint(g, r, c, a, third, valid)
    \/ ConfirmAuthorizes(g, r, c, a, third, valid)

Next ==
  \E g \in Gate :
    \/ Persist(g) \/ PersistFails(g) \/ Crash(g) \/ AdvanceEpoch(g)
    \/ \E r \in Request :
         \/ \E kind \in Kinds : Submit(g, r, kind)
         \/ \E c \in Conf : ConfirmExpires(g, r, c)
         \/ Confirm(g, r) \/ Revoke(g, r) \/ ConsumeAuthorization(g, r)
    \/ \E h \in Handler :
         \/ Open(g, h) \/ ListIDs(g, h) \/ Copy(g, h) \/ RestoreFails(g, h) \/ RestoreEnds(g, h)
         \/ \E r \in Request : Restore(g, h, r) \/ RestoreRecord(g, h, r)

Spec == Init /\ [][Next]_vars

-------------------------------------------------------------------------------
(* Properties *)

\* Every variable holds what the code's types allow.
TypeOK ==
  /\ epoch \in Epoch
  /\ log \in [Request -> Seq(Entry)]
  /\ gate \in [Gate -> [mode : {"down", "opening", "up"}, epoch : Epoch, mem : Memory]]
  /\ call \in [Gate -> [op : Op, req : Request \cup {None}, before : Memory,
                        entries : Seq(Entry)]]
  /\ restoring \in [Gate -> [Handler ->
                      [pc : {"idle", "list", "load"} \cup DOMAIN After, todo : SUBSET Request,
                       snap : Memory, torn : SUBSET Request]]]
  /\ used \in [Request -> Nat] /\ closed \subseteq Request /\ torn \subseteq Request

\* What memory m says of r is what its events said when m had counted them.
Follows(m, r, events) ==
  /\ m.sequences[r] <= Len(events)
  /\ m.requests[r] = IF m.sequences[r] = 0 THEN None ELSE events[m.sequences[r]].record

\* gate.go:408, 366: whatever calls fail, lose their answers or race each other,
\* the memory of a gate, and what a finished snapshot may put back, is the ledger
\* at some earlier point, but for the requests that a snapshot has torn.
MemoryIsDurable ==
  \A g \in Gate, r \in Request :
    /\ r \notin torn => Follows(AtRest(g), r, log[r])
    /\ \A h \in Handler : LET c == restoring[g][h]
                          IN c.pc = "load" /\ r \notin c.torn \cup torn => Follows(c.snap, r, log[r])

\* gate.go:627: an approval of a request that needs three confirmations stands
\* on a durable checkpoint of the same confirmation by the same approver, made
\* before it, whichever processes took part, unless a torn snapshot of the
\* request was put back.
GrantIsConfirmed ==
  \A r \in Request \ torn : \A i \in DOMAIN log[r] :
    LET e == log[r][i]
    IN (e.type = "authorized" /\ e.record.kind = "third") =>
         \E j \in 1 .. i - 1 :
           /\ log[r][j].type = "checkpoint" /\ log[r][j].conf = e.conf
           /\ log[r][j].record.by = e.record.by

\* How often a request has authorised an operation, or was revoked in time.
Spent(r) == used[r] + (IF r \in closed THEN 1 ELSE 0)

\* gate.go:723: a request authorises one operation at most and none once a
\* Revoke has returned, whatever answers are lost and whichever processes hold a
\* stale copy of it, unless a torn snapshot of it was put back.
SingleUse == \A r \in Request \ torn : Spent(r) <= 1

\* gate.go:723: "atomically fences a bound grant before a single-use operation",
\* whatever else the process does.
AlwaysSingleUse == \A r \in Request : used[r] <= 1

\* store.go:343: nothing is written for an epoch other than the durable one.
EpochFenced ==
  [][\A r \in Request : log'[r] # log[r] => log'[r][Len(log'[r])].record.epoch = epoch]_vars

\* The status of the requests in the ledger.
DurableStatus ==
  [r \in Request |-> IF r \in torn THEN "void"
                     ELSE IF log[r] = <<>> THEN "none" ELSE Last(log[r]).record.status]

G == INSTANCE Grant WITH status <- DurableStatus,
                         used <- [r \in Request |-> IF r \in torn THEN 0 ELSE used[r]]

\* The ledger and the operations that were let through are those of an ideal
\* grant, for every request until a torn snapshot of it is put back.
GrantSpec == G!Spec
=============================================================================
