-------------------------- MODULE ApprovalGateProofs --------------------------
(***************************************************************************)
(* The memory of every gate follows the ledger, an authorisation is used   *)
(* at most once, and the gates implement Grant, for any number of          *)
(* processes, handlers, requests, confirmations, epochs and events, until  *)
(* a Gate.Restore puts back a torn snapshot of the request.                *)
(***************************************************************************)
EXTENDS ApprovalGate, TLAPS

Gates == [Gate -> [mode : {"down", "opening", "up"}, epoch : Epoch, mem : Memory]]
Calls == [op : Op, req : Request \cup {None}, before : Memory, entries : Seq(Entry)]
Restores == [pc : {"idle", "list", "load"} \cup DOMAIN After, todo : SUBSET Request,
             snap : Memory, torn : SUBSET Request]

\* What a method of Gate hands to persistSince: the memory m it has made of b,
\* which differs in request r only, and events that carry the new record.
Change(b, r, m, entries) ==
  /\ m \in Memory
  /\ entries \in Seq(Entry) /\ entries # <<>>
  /\ \A i \in 1 .. Len(entries) : entries[i].record = m.requests[r]
  /\ m.requests[r] \in Record
  /\ m.sequences = b.sequences
  /\ \A s \in Request : s # r => m.requests[s] = b.requests[s]

\* What a call does to the record of its request: it is new, it keeps its status,
\* it moves on from "pending", or it ends.
Outcome(record, status, op) ==
  \/ record = None /\ status \in {"pending", "approved"} /\ op = "change"
  \/ record # None /\ record.status = status /\ op = "change"
  \/ /\ record # None /\ record.status = "pending"
     /\ status \in {"approved", "expired"} /\ op = "change"
  \/ record # None /\ record.status # "revoked" /\ status = "revoked" /\ op = "revoke"
  \/ record # None /\ record.status = "approved" /\ status = "revoked" /\ op = "consume"

\* The record before entry e stands on the same checkpoint.
HeldFor(record, e) ==
  /\ record # None /\ record.kind = "third" /\ record.step = 2
  /\ record.conf = e.record.conf /\ record.by = e.record.by

\* Each of entries that leaves a three-confirmation request at its second step,
\* or authorises it, stands on a checkpoint: its own, or that of the record.
Backed(record, entries) ==
  \A i \in 1 .. Len(entries) :
    LET e == entries[i]
    IN e.record.kind = "third" =>
         /\ e.record.step = 2 =>
              HeldFor(record, e) \/ (e.type = "checkpoint" /\ e.conf = e.record.conf)
         /\ e.type = "authorized" => HeldFor(record, e) /\ e.conf = e.record.conf

\* A call on r that has made memory m of b.
Call(b, r, m, entries, op) ==
  /\ Change(b, r, m, entries) /\ Backed(b.requests[r], entries)
  /\ Outcome(b.requests[r], m.requests[r].status, op)

\* A call of g changes the maps and goes to its transaction.
Starts(g) ==
  \E r \in Request, op \in Op : \E m, entries :
    Serving(g) /\ Begin(g, r, m, entries, op) /\ Call(Mem(g), r, m, entries, op)

\* No request has more events than the model lets it have.
Bounded == \A r \in Request : Len(log[r]) <= MaxEvents

\* A call in its transaction is one of a live process, on the memory it keeps.
InFlight(g) ==
  ~Free(g) => /\ call[g].req \in Request /\ gate[g].mode # "down"
              /\ Call(call[g].before, call[g].req, Mem(g), call[g].entries, call[g].op)

GateInv == TypeOK /\ MemoryIsDurable /\ Bounded /\ \A g \in Gate : InFlight(g)

-------------------------------------------------------------------------------
(* Events and memories *)

\* Events appended to a request's leave every copy of them an earlier state.
LEMMA AppendKeepsCopies ==
  ASSUME NEW old \in Seq(Entry), NEW entries \in Seq(Entry),
         NEW c \in Memory, NEW s \in Request, Follows(c, s, old)
  PROVE  Follows(c, s, old \o entries)
<1> DEFINE k == c.sequences[s]
           new == old \o entries
<1>1. k \in Nat
  BY DEF Memory
<1>2. Len(old) \in Nat /\ Len(entries) \in Nat /\ Len(new) = Len(old) + Len(entries)
  OBVIOUS
<1>3. \A i \in 1 .. Len(old) : new[i] = old[i]
  OBVIOUS
<1>4. k <= Len(old) /\ c.requests[s] = IF k = 0 THEN None ELSE old[k].record
  BY DEF Follows
<1>5. k <= Len(new) /\ (k # 0 => new[k] = old[k])
  <2> HIDE DEF k, new
  <2> QED
    BY <1>1, <1>2, <1>3, <1>4
<1> HIDE DEF new
<1>6. Follows(c, s, new)
  BY <1>4, <1>5 DEF Follows
<1> QED
  BY <1>6 DEF new

\* A memory that counts the events up to one with its own record follows them.
LEMMA LastCounted ==
  ASSUME NEW m \in Memory, NEW r \in Request, NEW events, NEW k \in Nat \ {0},
         m.sequences[r] = k, k <= Len(events), events[k].record = m.requests[r]
  PROVE  Follows(m, r, events)
BY DEF Follows

\* The memory that persistSince leaves behind.
Counted(m, r, k) == [m EXCEPT !.sequences[r] = k]

\* Counting events within the bound leaves a memory.
LEMMA CountedIsMemory ==
  ASSUME NEW m \in Memory, NEW r \in Request, NEW k \in 0 .. MaxEvents
  PROVE  /\ Counted(m, r, k) \in Memory
         /\ Counted(m, r, k).sequences[r] = k
         /\ Counted(m, r, k).requests = m.requests
         /\ \A s \in Request : s # r => Counted(m, r, k).sequences[s] = m.sequences[s]
<1>1. m.sequences \in [Request -> 0 .. MaxEvents]
  BY DEF Memory
<1>2. [m.sequences EXCEPT ![r] = k] \in [Request -> 0 .. MaxEvents]
  BY <1>1
<1>3. Counted(m, r, k) = [m EXCEPT !.sequences = [m.sequences EXCEPT ![r] = k]]
  BY DEF Counted, Memory
<1> QED
  BY <1>1, <1>2, <1>3 DEF Memory

\* The last of entries appended to old.
LEMMA LastAppended ==
  ASSUME NEW old \in Seq(Entry), NEW entries \in Seq(Entry), entries # <<>>
  PROVE  /\ old \o entries \in Seq(Entry)
         /\ Len(old \o entries) = Len(old) + Len(entries)
         /\ Len(entries) \in Nat \ {0} /\ Len(old) \in Nat
         /\ (old \o entries)[Len(old) + Len(entries)] = entries[Len(entries)]
OBVIOUS

\* The last of entries found in events.
LEMMA LastReplayed ==
  ASSUME NEW events \in Seq(Entry), NEW entries \in Seq(Entry), entries # <<>>,
         NEW n \in Nat, n + Len(entries) <= Len(events),
         SubSeq(events, n + 1, n + Len(entries)) = entries
  PROVE  events[n + Len(entries)] = entries[Len(entries)]
<1>1. Len(entries) \in Nat \ {0}
  OBVIOUS
<1>2. SubSeq(events, n + 1, n + Len(entries))[Len(entries)] = events[n + 1 + Len(entries) - 1]
  BY <1>1
<1> QED
  BY <1>1, <1>2

\* A memory with one record replaced is a memory.
LEMMA WithRecordIsMemory ==
  ASSUME NEW m \in Memory, NEW r \in Request, NEW record \in Record
  PROVE  /\ WithRecord(m, r, record) \in Memory
         /\ WithRecord(m, r, record).requests[r] = record
         /\ WithRecord(m, r, record).sequences = m.sequences
         /\ WithRecord(m, r, record).owners = m.owners
         /\ WithRecord(m, r, record).usedIDs = m.usedIDs
         /\ \A s \in Request : s # r => WithRecord(m, r, record).requests[s] = m.requests[s]
<1>1. m.requests \in [Request -> Record \cup {None}]
  BY DEF Memory
<1>2. [m.requests EXCEPT ![r] = record] \in [Request -> Record \cup {None}]
  BY <1>1
<1>3. WithRecord(m, r, record) = [m EXCEPT !.requests = [m.requests EXCEPT ![r] = record]]
  BY DEF WithRecord, Memory
<1> QED
  BY <1>1, <1>2, <1>3 DEF Memory

\* The records and the memory a gate holds.
LEMMA Held ==
  ASSUME TypeOK, NEW g \in Gate, NEW r \in Request
  PROVE  /\ Mem(g) \in Memory /\ gate[g].epoch \in Epoch
         /\ Rec(g, r) = Mem(g).requests[r] /\ Rec(g, r) \in Record \cup {None}
BY DEF TypeOK, Mem, Rec, Memory
\* An empty memory follows any ledger.
LEMMA EmptyFollows ==
  /\ EmptyMemory \in Memory
  /\ \A r \in Request : \A events \in Seq(Entry) : Follows(EmptyMemory, r, events)
<1>1. EmptyMemory \in Memory
  BY ApprovalAssumption DEF EmptyMemory, Memory
<1>2. \A r \in Request : \A events \in Seq(Entry) : Follows(EmptyMemory, r, events)
  BY DEF EmptyMemory, Follows
<1> QED
  BY <1>1, <1>2

\* A process without a call and a handler without a Restore.
LEMMA IdleIsCall ==
  /\ Idle \in Calls /\ Idle.op = "idle"
  /\ NoRestore \in Restores /\ NoRestore.pc = "idle"
  /\ NoRestore.torn = {} /\ NoRestore.snap = EmptyMemory /\ NoRestore.todo = {}
<1>1. Idle \in Calls /\ Idle.op = "idle"
  BY EmptyFollows DEF Idle, Calls, Op
<1> QED
  BY <1>1, EmptyFollows DEF NoRestore, Restores

-------------------------------------------------------------------------------
(* The methods of Gate as one kind of step *)

\* Gate.Submit is a call: one event, or two for a request approved in advance.
LEMMA SubmitCall ==
  ASSUME TypeOK, NEW g \in Gate, NEW r \in Request, NEW kind \in Kinds, Submit(g, r, kind)
  PROVE  Starts(g)
<1> DEFINE pre == kind = "preapproved"
           record == [kind |-> kind, epoch |-> gate[g].epoch,
                      status |-> IF pre THEN "approved" ELSE "pending",
                      conf |-> None, by |-> None, step |-> 0]
           submitted == EventOf("submitted", None, record)
           authorized == EventOf("authorized", None, record)
           m == WithRecord(Mem(g), r, record)
           entries == IF pre THEN <<submitted, authorized>> ELSE <<submitted>>
<1>1. record \in Record
  BY Held DEF Record, Status
<1>2. submitted \in Entry /\ authorized \in Entry
  BY <1>1 DEF EventOf, Entry, EventType
<1>3. entries \in Seq(Entry) /\ entries # <<>>
  BY <1>2
<1>4. \A i \in 1 .. Len(entries) :
         /\ entries[i].record = record
         /\ entries[i].type = "authorized" => record.kind # "third"
  BY DEF EventOf
<1>5. Serving(g) /\ Begin(g, r, m, entries, "change") /\ Mem(g).requests[r] = None
  BY DEF Submit, Rec, Mem
<1>6. record.step # 2 /\ record.status \in {"pending", "approved"}
  OBVIOUS
<1> HIDE DEF record, entries
<1>7. /\ m \in Memory /\ m.requests[r] = record /\ m.sequences = Mem(g).sequences
      /\ \A s \in Request : s # r => m.requests[s] = Mem(g).requests[s]
  BY <1>1, Held, WithRecordIsMemory
<1>8. Change(Mem(g), r, m, entries)
  BY <1>1, <1>3, <1>4, <1>7 DEF Change
<1>9. Backed(Mem(g).requests[r], entries)
  BY <1>4, <1>6 DEF Backed
<1>10. Outcome(Mem(g).requests[r], m.requests[r].status, "change")
  BY <1>5, <1>6, <1>7 DEF Outcome
<1> HIDE DEF m
<1>11. Call(Mem(g), r, m, entries, "change") /\ "change" \in Op
  BY <1>8, <1>9, <1>10 DEF Call, Op
<1> QED
  BY <1>5, <1>11 DEF Starts

\* A call with one event.
LEMMA OneEventCall ==
  ASSUME TypeOK, NEW g \in Gate, NEW r \in Request, NEW m \in Memory, NEW e \in Entry,
         NEW op \in Op, e.record = m.requests[r], m.requests[r] \in Record,
         m.sequences = Mem(g).sequences,
         \A s \in Request : s # r => m.requests[s] = Mem(g).requests[s],
         Backed(Rec(g, r), <<e>>), Serving(g), Begin(g, r, m, <<e>>, op),
         Outcome(Rec(g, r), m.requests[r].status, op)
  PROVE  Starts(g)
<1>1. /\ <<e>> \in Seq(Entry) /\ <<e>> # <<>>
      /\ \A i \in 1 .. Len(<<e>>) : <<e>>[i].record = m.requests[r]
  OBVIOUS
<1>2. Rec(g, r) = Mem(g).requests[r]
  BY Held
<1>3. Call(Mem(g), r, m, <<e>>, op)
  BY <1>1, <1>2 DEF Call, Change
<1> QED
  BY <1>3 DEF Starts

\* Gate.Confirm of a request whose TTL has elapsed is a call.
LEMMA ExpiresCall ==
  ASSUME TypeOK, NEW g \in Gate, NEW r \in Request, NEW c \in Conf, ConfirmExpires(g, r, c)
  PROVE  Starts(g)
<1> DEFINE record == [Rec(g, r) EXCEPT !.status = "expired"]
           m == WithRecord(Mem(g), r, record)
           e == EventOf("expired", c, record)
<1>1. /\ Rec(g, r) # None /\ Rec(g, r).status = "pending"
      /\ Serving(g) /\ Begin(g, r, m, <<e>>, "change")
  BY DEF ConfirmExpires
<1>2. Rec(g, r) \in Record
  BY <1>1, Held
<1>3. /\ record \in Record /\ record.status = "expired" /\ record.kind = Rec(g, r).kind
      /\ record.step = Rec(g, r).step /\ record.conf = Rec(g, r).conf
      /\ record.by = Rec(g, r).by
  BY <1>2 DEF Record, Status
<1>4. e \in Entry /\ e.record = record /\ e.type = "expired"
  BY <1>3 DEF EventOf, Entry, EventType
<1> HIDE DEF record, e
<1>5. /\ m \in Memory /\ m.requests[r] = record /\ m.sequences = Mem(g).sequences
      /\ \A s \in Request : s # r => m.requests[s] = Mem(g).requests[s]
  BY <1>3, Held, WithRecordIsMemory
<1>6. Backed(Rec(g, r), <<e>>)
  BY <1>1, <1>3, <1>4 DEF Backed, HeldFor
<1>7. Outcome(Rec(g, r), m.requests[r].status, "change") /\ "change" \in Op
  BY <1>1, <1>3, <1>5 DEF Outcome, Op
<1> HIDE DEF m
<1> QED
  BY <1>1, <1>3, <1>4, <1>5, <1>6, <1>7, OneEventCall

\* Gate.Confirm that rejects is a call, which keeps the record.
LEMMA RejectsCall ==
  ASSUME TypeOK, NEW g \in Gate, NEW r \in Request, NEW c \in Conf, NEW a \in Approver,
         NEW third \in BOOLEAN, NEW valid \in BOOLEAN,
         ConfirmRejects(g, r, c, a, third, valid)
  PROVE  Starts(g)
<1> DEFINE e == EventOf("rejected", c, Rec(g, r))
<1>1. Rec(g, r) # None /\ Serving(g) /\ Begin(g, r, Mem(g), <<e>>, "change")
  BY DEF ConfirmRejects
<1>2. Rec(g, r) \in Record /\ Mem(g) \in Memory /\ Rec(g, r) = Mem(g).requests[r]
  BY <1>1, Held
<1>3. e \in Entry /\ e.record = Rec(g, r) /\ e.type = "rejected"
  BY <1>2 DEF EventOf, Entry, EventType
<1> HIDE DEF e
<1>4. Backed(Rec(g, r), <<e>>)
  BY <1>1, <1>3 DEF Backed, HeldFor
<1>5. Outcome(Rec(g, r), Mem(g).requests[r].status, "change") /\ "change" \in Op
  BY <1>1, <1>2 DEF Outcome, Op
<1> QED
  BY <1>1, <1>2, <1>3, <1>4, <1>5, OneEventCall

\* Gate.Confirm that records the second of three steps is a call.
LEMMA CheckpointCall ==
  ASSUME TypeOK, NEW g \in Gate, NEW r \in Request, NEW c \in Conf, NEW a \in Approver,
         NEW third \in BOOLEAN, NEW valid \in BOOLEAN,
         ConfirmCheckpoint(g, r, c, a, third, valid)
  PROVE  Starts(g)
<1> DEFINE record == [Rec(g, r) EXCEPT !.conf = c, !.by = a, !.step = 2]
           w == WithRecord(Mem(g), r, record)
           m == [w EXCEPT !.owners[c] = r]
           e == EventOf("checkpoint", c, record)
<1>1. /\ Rec(g, r) # None /\ Rec(g, r).status = "pending"
      /\ Serving(g) /\ Begin(g, r, m, <<e>>, "change")
  BY DEF ConfirmCheckpoint, Confirmable
<1>2. Rec(g, r) \in Record
  BY <1>1, Held
<1>3. record \in Record /\ record.status = "pending" /\ record.conf = c
  BY <1>1, <1>2 DEF Record
<1>4. e \in Entry /\ e.record = record /\ e.type = "checkpoint" /\ e.conf = c
  BY <1>3 DEF EventOf, Entry, EventType
<1> HIDE DEF record, e
<1>5. /\ w \in Memory /\ w.requests[r] = record /\ w.sequences = Mem(g).sequences
      /\ \A s \in Request : s # r => w.requests[s] = Mem(g).requests[s]
  BY <1>3, Held, WithRecordIsMemory
<1> HIDE DEF w
<1>6. m \in Memory /\ m.requests = w.requests /\ m.sequences = w.sequences
  <2>1. [w.owners EXCEPT ![c] = r] \in [Conf -> Request \cup {None}]
    BY <1>5 DEF Memory
  <2>2. m = [w EXCEPT !.owners = [w.owners EXCEPT ![c] = r]]
    BY <1>5 DEF Memory
  <2> QED
    BY <1>5, <2>1, <2>2 DEF Memory
<1>7. Backed(Rec(g, r), <<e>>)
  BY <1>3, <1>4 DEF Backed
<1> HIDE DEF m
<1>8. Outcome(Rec(g, r), m.requests[r].status, "change") /\ "change" \in Op
  BY <1>1, <1>3, <1>5, <1>6 DEF Outcome, Op
<1> QED
  BY <1>1, <1>3, <1>4, <1>5, <1>6, <1>7, <1>8, OneEventCall

\* Gate.Confirm that authorises is a call on a pending request.
LEMMA AuthorizesCall ==
  ASSUME TypeOK, NEW g \in Gate, NEW r \in Request, NEW c \in Conf, NEW a \in Approver,
         NEW third \in BOOLEAN, NEW valid \in BOOLEAN,
         ConfirmAuthorizes(g, r, c, a, third, valid)
  PROVE  Starts(g)
<1> DEFINE step == FinalStep(Rec(g, r))
           record == [Rec(g, r) EXCEPT !.status = "approved", !.conf = c, !.by = a,
                        !.step = step]
           w == WithRecord(Mem(g), r, record)
           m == [w EXCEPT !.usedIDs = @ \cup {c}]
           e == EventOf("authorized", c, record)
<1>1. /\ Rec(g, r) # None /\ Rec(g, r).status = "pending" /\ IsFinal(g, r, c, a, third)
      /\ Serving(g) /\ Begin(g, r, m, <<e>>, "change")
  BY DEF ConfirmAuthorizes, Confirmable
<1>2. Rec(g, r) \in Record
  BY <1>1, Held
<1>3. /\ step \in {2, 3}
      /\ Rec(g, r).kind = "third" => /\ step = 3 /\ Rec(g, r).step = 2
                                     /\ Rec(g, r).conf = c /\ Rec(g, r).by = a
  BY <1>1 DEF IsFinal, SameCheckpoint, FinalStep
<1> HIDE DEF step
<1>4. /\ record \in Record /\ record.status = "approved" /\ record.step = step
      /\ record.conf = c /\ record.by = a /\ record.kind = Rec(g, r).kind
  BY <1>2, <1>3 DEF Record, Status
<1>5. e \in Entry /\ e.record = record /\ e.type = "authorized" /\ e.conf = c
  BY <1>4 DEF EventOf, Entry, EventType
<1> HIDE DEF record, e
<1>6. /\ w \in Memory /\ w.requests[r] = record /\ w.sequences = Mem(g).sequences
      /\ \A s \in Request : s # r => w.requests[s] = Mem(g).requests[s]
  BY <1>4, Held, WithRecordIsMemory
<1> HIDE DEF w
<1>7. m \in Memory /\ m.requests = w.requests /\ m.sequences = w.sequences
  BY <1>6 DEF Memory
<1>8. Backed(Rec(g, r), <<e>>)
  BY <1>1, <1>3, <1>4, <1>5 DEF Backed, HeldFor
<1> HIDE DEF m
<1>9. Outcome(Rec(g, r), m.requests[r].status, "change") /\ "change" \in Op
  BY <1>1, <1>4, <1>6, <1>7 DEF Outcome, Op
<1> QED
  BY <1>1, <1>4, <1>5, <1>6, <1>7, <1>8, <1>9, OneEventCall

\* Revoke and ConsumeAuthorization.
LEMMA EndsCall ==
  ASSUME TypeOK, NEW g \in Gate, NEW r \in Request,
         Revoke(g, r) \/ ConsumeAuthorization(g, r)
  PROVE  Starts(g)
<1> DEFINE record == Ended(g, r)
           m == WithRecord(Mem(g), r, record)
<1>1. Rec(g, r) # None /\ Serving(g)
  BY DEF Revoke, ConsumeAuthorization
<1>2. Rec(g, r) \in Record
  BY <1>1, Held
<1>3. /\ record \in Record /\ record.status = "revoked" /\ record.kind = Rec(g, r).kind
      /\ record.step = Rec(g, r).step /\ record.conf = Rec(g, r).conf
      /\ record.by = Rec(g, r).by
  BY <1>2 DEF Ended, Record, Status
<1>4. PICK c \in {None, Rec(g, r).conf}, op \in {"revoke", "consume"} :
        /\ Begin(g, r, m, <<EventOf("revoked", c, record)>>, op)
        /\ Outcome(Rec(g, r), "revoked", op)
  <2>1. CASE Revoke(g, r)
    BY <1>1, <2>1 DEF Revoke, EndedMemory, Outcome
  <2>2. CASE ConsumeAuthorization(g, r)
    BY <1>1, <2>2 DEF ConsumeAuthorization, EndedMemory, Outcome
  <2> QED
    BY <2>1, <2>2
<1> DEFINE e == EventOf("revoked", c, record)
<1> HIDE DEF record
<1>5. e \in Entry /\ e.record = record /\ e.type = "revoked"
  BY <1>2, <1>3 DEF EventOf, Entry, EventType, Record
<1>6. Begin(g, r, m, <<e>>, op) /\ op \in Op
  BY <1>4 DEF Op
<1> HIDE DEF e
<1>7. /\ m \in Memory /\ m.requests[r] = record /\ m.sequences = Mem(g).sequences
      /\ \A s \in Request : s # r => m.requests[s] = Mem(g).requests[s]
  BY <1>3, Held, WithRecordIsMemory
<1>8. Backed(Rec(g, r), <<e>>)
  BY <1>1, <1>3, <1>5 DEF Backed, HeldFor
<1> HIDE DEF m
<1>9. Outcome(Rec(g, r), m.requests[r].status, op)
  BY <1>3, <1>4, <1>7
<1> QED
  BY <1>1, <1>3, <1>5, <1>6, <1>7, <1>8, <1>9, OneEventCall

\* A step that starts, restores or ends a process, or advances the epoch.
Administer(g) ==
  \/ Crash(g) \/ AdvanceEpoch(g)
  \/ \E h \in Handler :
       \/ Open(g, h) \/ ListIDs(g, h) \/ Copy(g, h) \/ RestoreFails(g, h) \/ RestoreEnds(g, h)
       \/ \E r \in Request : Restore(g, h, r) \/ RestoreRecord(g, h, r)

\* Every step begins a call, ends one, or is an administrative one.
LEMMA NextCases ==
  ASSUME TypeOK, Next
  PROVE  \E g \in Gate : Starts(g) \/ Persist(g) \/ PersistFails(g) \/ Administer(g)
<1>1. PICK g \in Gate :
        \/ Persist(g) \/ PersistFails(g) \/ Administer(g)
        \/ \E r \in Request :
             \/ \E kind \in Kinds : Submit(g, r, kind)
             \/ \E c \in Conf : ConfirmExpires(g, r, c)
             \/ Confirm(g, r) \/ Revoke(g, r) \/ ConsumeAuthorization(g, r)
  BY Zenon DEF Next, Administer
<1>2. ASSUME NEW r \in Request,
             \/ \E kind \in Kinds : Submit(g, r, kind)
             \/ \E c \in Conf : ConfirmExpires(g, r, c)
             \/ Confirm(g, r) \/ Revoke(g, r) \/ ConsumeAuthorization(g, r)
      PROVE  Starts(g)
  <2>1. CASE Confirm(g, r)
    <3>1. PICK c \in Conf, a \in Approver, third \in BOOLEAN, valid \in BOOLEAN :
            \/ ConfirmRejects(g, r, c, a, third, valid)
            \/ ConfirmCheckpoint(g, r, c, a, third, valid)
            \/ ConfirmAuthorizes(g, r, c, a, third, valid)
      BY <2>1 DEF Confirm
    <3> QED
      BY <3>1, RejectsCall, CheckpointCall, AuthorizesCall
  <2> QED
    BY <1>2, <2>1, SubmitCall, ExpiresCall, EndsCall
<1> QED
  BY <1>1, <1>2

-------------------------------------------------------------------------------
(* The memories follow the ledger *)

\* A call that begins changes no memory at rest.
LEMMA StartSafe ==
  ASSUME GateInv, NEW g \in Gate, Starts(g)
  PROVE  GateInv' /\ UNCHANGED <<log, used, closed, torn>>
<1>1. PICK r \in Request, op \in Op : \E m, entries :
        Serving(g) /\ Begin(g, r, m, entries, op) /\ Call(Mem(g), r, m, entries, op)
  BY DEF Starts
<1>2. PICK m, entries :
        Serving(g) /\ Begin(g, r, m, entries, op) /\ Call(Mem(g), r, m, entries, op)
  BY <1>1
<1> DEFINE k == [op |-> op, req |-> r, before |-> Mem(g), entries |-> entries]
<1>3. /\ TypeOK /\ MemoryIsDurable /\ Bounded /\ \A i \in Gate : InFlight(i)
      /\ gate \in Gates /\ call \in [Gate -> Calls]
  BY DEF GateInv, TypeOK, Gates, Calls
<1>4. /\ gate' = [gate EXCEPT ![g].mem = m] /\ call' = [call EXCEPT ![g] = k]
      /\ UNCHANGED <<epoch, log, restoring, used, closed, torn>>
      /\ Free(g) /\ gate[g].mode = "up"
  BY <1>2 DEF Begin, Serving
<1>5. m \in Memory /\ entries \in Seq(Entry) /\ Mem(g) \in Memory
  BY <1>2, <1>3, Held DEF Call, Change
<1>6. k \in Calls /\ op # "idle"
  BY <1>2, <1>5 DEF Calls, Call, Outcome
<1>7. gate' \in Gates /\ call' \in [Gate -> Calls]
  BY <1>3, <1>4, <1>5, <1>6 DEF Gates
<1>8. /\ gate'[g].mem = m /\ gate'[g].mode = "up" /\ call'[g] = k
      /\ \A i \in Gate : i # g => gate'[i] = gate[i] /\ call'[i] = call[i]
  BY <1>3, <1>4 DEF Gates
<1>9. TypeOK'
  BY <1>3, <1>4, <1>7 DEF TypeOK, Gates, Calls
<1>10. Bounded'
  BY <1>3, <1>4 DEF Bounded
<1>11. \A i \in Gate : AtRest(i)' = AtRest(i)
  BY <1>4, <1>6, <1>8 DEF AtRest, Free, Mem
<1>12. MemoryIsDurable'
  BY <1>3, <1>4, <1>11 DEF MemoryIsDurable
<1>13. \A i \in Gate : InFlight(i)'
  <2> SUFFICES ASSUME NEW i \in Gate PROVE InFlight(i)'
    OBVIOUS
  <2>1. CASE i = g
    BY <1>2, <1>8, <2>1 DEF InFlight, Mem
  <2>2. CASE i # g
    BY <1>3, <1>8, <2>2, SMTT(30) DEF InFlight, Mem, Free
  <2> QED
    BY <2>1, <2>2
<1> QED
  BY <1>4, <1>9, <1>10, <1>12, <1>13 DEF GateInv

\* What the end of a call does to the ledger and to the memory of its gate.
LEMMA ReturnStep ==
  ASSUME GateInv, NEW g \in Gate, Persist(g) \/ PersistFails(g)
  PROVE  LET r == call[g].req
             b == call[g].before
             entries == call[g].entries
             k == b.sequences[r] + Len(entries)
         IN /\ r \in Request /\ Call(b, r, Mem(g), entries, call[g].op)
            /\ log' \in [Request -> Seq(Entry)]
            /\ \A s \in Request : s # r => log'[s] = log[s]
            /\ \/ UNCHANGED log
               \/ Appendable(g) /\ log'[r] = log[r] \o entries
            /\ Len(log'[r]) <= MaxEvents
            /\ \/ gate' = [gate EXCEPT ![g].mem = b]
               \/ /\ gate' = [gate EXCEPT ![g].mem = Counted(Mem(g), r, k)]
                  /\ k \in 1 .. MaxEvents /\ k <= Len(log'[r])
                  /\ log'[r][k].record = Mem(g).requests[r]
<1> DEFINE r == call[g].req
           b == call[g].before
           entries == call[g].entries
           n == Mem(g).sequences[r]
           k == n + Len(entries)
<1>1. /\ ~Free(g) /\ TypeOK /\ Bounded /\ InFlight(g)
      /\ log \in [Request -> Seq(Entry)]
  BY DEF GateInv, TypeOK, Persist, PersistFails
<1>2. r \in Request /\ Call(b, r, Mem(g), entries, call[g].op)
  BY <1>1 DEF InFlight
<1>3. /\ entries \in Seq(Entry) /\ entries # <<>> /\ Mem(g) \in Memory
      /\ \A i \in 1 .. Len(entries) : entries[i].record = Mem(g).requests[r]
      /\ n = b.sequences[r]
  BY <1>2 DEF Call, Change
<1>4. /\ n \in Nat /\ log[r] \in Seq(Entry) /\ Len(log[r]) \in Nat /\ MaxEvents \in Nat
      /\ Len(log[r]) <= MaxEvents
  BY <1>1, <1>2, <1>3, ApprovalAssumption DEF Bounded, Memory
<1>5. Len(entries) \in Nat \ {0} /\ entries[Len(entries)].record = Mem(g).requests[r]
  BY <1>3
<1>6. log[r] \o entries \in Seq(Entry)
  BY <1>3, <1>4, LastAppended
<1>7. \/ gate' = [gate EXCEPT ![g].mem = b]
      \/ gate' = [gate EXCEPT ![g].mem = Counted(Mem(g), r, k)] /\ Persist(g)
  BY <1>1 DEF Persist, PersistFails, RolledBack, Counted, Mem
<1>8. ASSUME Commit(g)
      PROVE  /\ Appendable(g) /\ log'[r] = log[r] \o entries
             /\ log' \in [Request -> Seq(Entry)]
             /\ \A s \in Request : s # r => log'[s] = log[s]
             /\ Len(log'[r]) = k /\ k \in 1 .. MaxEvents
             /\ log'[r][k].record = Mem(g).requests[r]
  <2>1. /\ Appendable(g) /\ Len(log[r]) + Len(entries) <= MaxEvents
        /\ log' = [log EXCEPT ![r] = @ \o entries]
    BY <1>8 DEF Commit
  <2>2. n = Len(log[r])
    BY <2>1 DEF Appendable
  <2>3. /\ log'[r] = log[r] \o entries /\ log' \in [Request -> Seq(Entry)]
        /\ \A s \in Request : s # r => log'[s] = log[s]
    BY <1>1, <1>2, <1>6, <2>1
  <2> HIDE DEF n, entries, r
  <2>4. /\ Len(log'[r]) = Len(log[r]) + Len(entries)
        /\ log'[r][Len(log[r]) + Len(entries)] = entries[Len(entries)]
    BY <1>3, <1>4, <2>3, LastAppended
  <2>5. k \in 1 .. MaxEvents /\ Len(log'[r]) = k
    BY <1>4, <1>5, <2>1, <2>2, <2>4
  <2> QED
    BY <1>5, <2>1, <2>2, <2>3, <2>4, <2>5
<1>9. ASSUME Replayed(g), UNCHANGED log
      PROVE  /\ k \in 1 .. MaxEvents /\ k <= Len(log'[r])
             /\ log'[r][k].record = Mem(g).requests[r]
  <2>1. /\ n + Len(entries) <= Len(log[r])
        /\ SubSeq(log[r], n + 1, n + Len(entries)) = entries
    BY <1>9 DEF Replayed
  <2>2. log[r][n + Len(entries)] = entries[Len(entries)]
    BY <2>1, <1>3, <1>4, LastReplayed
  <2> HIDE DEF n, entries
  <2>3. n + Len(entries) \in 1 .. MaxEvents
    BY <1>4, <1>5, <2>1
  <2> QED
    BY <1>5, <1>9, <2>1, <2>2, <2>3
<1>10. Commit(g) \/ UNCHANGED log
  BY DEF Persist, PersistFails
<1>11. Persist(g) => Commit(g) \/ (Replayed(g) /\ UNCHANGED log)
  BY DEF Persist
<1>12. /\ log' \in [Request -> Seq(Entry)]
       /\ \A s \in Request : s # r => log'[s] = log[s]
       /\ UNCHANGED log \/ (Appendable(g) /\ log'[r] = log[r] \o entries)
       /\ Len(log'[r]) <= MaxEvents
  <2>1. CASE Commit(g)
    <3>1. k \in 1 .. MaxEvents /\ Len(log'[r]) = k
      BY <2>1, <1>8
    <3>2. Len(log'[r]) <= MaxEvents
      <4> HIDE DEF k
      <4> QED
        BY <3>1, <1>4
    <3> QED
      BY <2>1, <1>8, <3>2
  <2>2. CASE UNCHANGED log
    BY <2>2, <1>1, <1>4
  <2> QED
    BY <1>10, <2>1, <2>2
<1>13. Persist(g) => /\ k \in 1 .. MaxEvents /\ k <= Len(log'[r])
                     /\ log'[r][k].record = Mem(g).requests[r]
  <2>1. CASE Commit(g)
    <3>1. /\ k \in 1 .. MaxEvents /\ Len(log'[r]) = k
          /\ log'[r][k].record = Mem(g).requests[r]
      BY <2>1, <1>8
    <3> HIDE DEF k
    <3> QED
      BY <3>1, <1>4, SMTT(30)
  <2>2. CASE Replayed(g) /\ UNCHANGED log
    BY <2>2, <1>9
  <2> QED
    BY <1>11, <2>1, <2>2
<1> HIDE DEF n, entries, r, b
<1> QED
  BY <1>2, <1>3, <1>7, <1>12, <1>13 DEF n, entries, r, b

\* The end of a call, however it ends, keeps every memory at rest and every
\* finished snapshot an earlier state of the ledger.
LEMMA ReturnSafe ==
  ASSUME GateInv, NEW g \in Gate, Persist(g) \/ PersistFails(g)
  PROVE  GateInv'
<1> DEFINE r == call[g].req
           b == call[g].before
           entries == call[g].entries
           k == b.sequences[r] + Len(entries)
           m2 == Counted(Mem(g), r, k)
<1>0. /\ TypeOK /\ MemoryIsDurable /\ Bounded /\ \A i \in Gate : InFlight(i)
      /\ gate \in Gates /\ call \in [Gate -> Calls] /\ ~Free(g)
      /\ restoring \in [Gate -> [Handler -> Restores]]
  BY DEF GateInv, TypeOK, Gates, Calls, Restores, Persist, PersistFails
<1>1. /\ r \in Request /\ Change(b, r, Mem(g), entries)
      /\ log' \in [Request -> Seq(Entry)]
      /\ \A s \in Request : s # r => log'[s] = log[s]
      /\ UNCHANGED log \/ log'[r] = log[r] \o entries
      /\ Len(log'[r]) <= MaxEvents
      /\ \/ gate' = [gate EXCEPT ![g].mem = b]
         \/ /\ gate' = [gate EXCEPT ![g].mem = m2]
            /\ k \in 1 .. MaxEvents /\ k <= Len(log'[r])
            /\ log'[r][k].record = Mem(g).requests[r]
  BY ReturnStep, ZenonT(40) DEF Call
<1>2. call' = [call EXCEPT ![g] = Idle] /\ UNCHANGED <<epoch, restoring, torn>>
  BY SMTT(30) DEF Persist, PersistFails
<1>3. b \in Memory /\ b = AtRest(g) /\ entries \in Seq(Entry) /\ Mem(g) \in Memory
  BY <1>0, <1>1, SMTT(30) DEF Calls, AtRest, Change
<1>4. \A c \in Memory, s \in Request : Follows(c, s, log[s]) => Follows(c, s, log'[s])
  <2> SUFFICES ASSUME NEW c \in Memory, NEW s \in Request, Follows(c, s, log[s])
               PROVE  Follows(c, s, log'[s])
    OBVIOUS
  <2>1. log[s] \in Seq(Entry)
    BY <1>0 DEF TypeOK
  <2>2. Follows(c, s, log[s] \o entries)
    BY <1>3, <2>1, AppendKeepsCopies, SMTT(30)
  <2> QED
    BY <1>1, <2>2
<1>5. PICK m : /\ m \in Memory /\ gate' = [gate EXCEPT ![g].mem = m]
               /\ \A s \in Request \ torn : Follows(m, s, log'[s])
  <2>1. \A s \in Request \ torn : Follows(b, s, log'[s])
    BY <1>0, <1>3, <1>4 DEF MemoryIsDurable
  <2>2. CASE gate' = [gate EXCEPT ![g].mem = b]
    BY <1>3, <2>1, <2>2
  <2>3. CASE /\ gate' = [gate EXCEPT ![g].mem = m2]
             /\ k \in 1 .. MaxEvents /\ k <= Len(log'[r])
             /\ log'[r][k].record = Mem(g).requests[r]
    <3>1. /\ m2 \in Memory /\ m2.sequences[r] = k /\ m2.requests = Mem(g).requests
          /\ \A s \in Request : s # r => m2.sequences[s] = Mem(g).sequences[s]
      <4>1. k \in 0 .. MaxEvents
        BY <2>3
      <4> HIDE DEF k
      <4> QED
        BY <1>1, <1>3, <4>1, CountedIsMemory, SMTT(30)
    <3>2. Follows(m2, r, log'[r])
      <4>1. k \in Nat \ {0} /\ k <= Len(log'[r]) /\ log'[r][k].record = m2.requests[r]
        <5>1. /\ k \in 1 .. MaxEvents /\ k <= Len(log'[r])
              /\ log'[r][k].record = Mem(g).requests[r]
          BY <2>3
        <5> HIDE DEF k, m2
        <5> QED
          BY <3>1, <5>1, ApprovalAssumption
      <4> HIDE DEF k, m2
      <4> QED
        BY <1>1, <3>1, <4>1, LastCounted
    <3>3. ASSUME NEW s \in Request \ torn, s # r PROVE Follows(m2, s, log'[s])
      <4>1. m2.sequences[s] = b.sequences[s] /\ m2.requests[s] = b.requests[s]
        BY <1>1, <3>1, <3>3 DEF Change
      <4> HIDE DEF m2, b
      <4> QED
        BY <2>1, <4>1, SMTT(30) DEF Follows
    <3> HIDE DEF m2
    <3> QED
      BY <2>3, <3>1, <3>2, <3>3
  <2> QED
    BY <1>1, <2>2, <2>3
<1>6. /\ gate' \in Gates
      /\ gate'[g].mem = m /\ \A i \in Gate : i # g => gate'[i] = gate[i]
  BY <1>0, <1>5 DEF Gates
<1>7. Idle \in Calls /\ Idle.op = "idle"
  BY IdleIsCall
<1>8. /\ call' \in [Gate -> Calls]
      /\ call'[g] = Idle /\ \A i \in Gate : i # g => call'[i] = call[i]
  BY <1>0, <1>2, <1>7
<1>9. \A i \in Gate : AtRest(i)' = IF i = g THEN m ELSE AtRest(i)
  BY <1>6, <1>7, <1>8 DEF AtRest, Free, Mem
<1>10. MemoryIsDurable'
  <2>1. \A i \in Gate : AtRest(i) \in Memory
    BY <1>0 DEF AtRest, Mem, Gates, Calls
  <2>2. \A i \in Gate, s \in Request \ torn : Follows(AtRest(i)', s, log'[s])
    BY <1>0, <1>4, <1>5, <1>9, <2>1, SMTT(30) DEF MemoryIsDurable
  <2>3. \A i \in Gate, h \in Handler : restoring[i][h].snap \in Memory
    BY <1>0 DEF Restores
  <2>4. \A i \in Gate, h \in Handler, s \in Request :
          restoring[i][h].pc = "load" /\ s \notin restoring[i][h].torn \cup torn
            => Follows(restoring[i][h].snap, s, log'[s])
    BY <1>0, <1>4, <2>3 DEF MemoryIsDurable
  <2> QED
    BY <1>2, <2>2, <2>4 DEF MemoryIsDurable
<1>11. Bounded'
  BY <1>0, <1>1 DEF Bounded
<1>12. used' \in [Request -> Nat] /\ closed' \subseteq Request
  <2>1. used \in [Request -> Nat] /\ closed \subseteq Request
    BY <1>0 DEF TypeOK
  <2>2. used' = used \/ used' = [used EXCEPT ![r] = @ + 1]
    BY DEF Persist, PersistFails
  <2>3. closed' = closed \/ closed' = closed \cup {r}
    BY SMTT(30) DEF Persist, PersistFails
  <2>4. r \in Request
    BY <1>1
  <2> HIDE DEF r
  <2>5. used' \in [Request -> Nat]
    BY <2>1, <2>2, <2>4, SMTT(30)
  <2> QED
    BY <2>1, <2>3, <2>4, <2>5
<1>13. TypeOK'
  BY <1>0, <1>1, <1>2, <1>6, <1>8, <1>12 DEF TypeOK, Gates, Calls
<1>14. \A i \in Gate : InFlight(i)'
  <2> SUFFICES ASSUME NEW i \in Gate PROVE InFlight(i)'
    OBVIOUS
  <2>1. CASE i = g
    BY <1>7, <1>8, <2>1 DEF InFlight, Free
  <2>2. CASE i # g
    BY <1>0, <1>6, <1>8, <2>2 DEF InFlight, Mem, Free
  <2> QED
    BY <2>1, <2>2
<1> QED
  BY <1>10, <1>11, <1>13, <1>14 DEF GateInv

\* Restoring a request's record and events gives a memory that follows them.
LEMMA LoadedFollows ==
  ASSUME GateInv, NEW g \in Gate, Free(g), NEW r \in Request, log[r] # <<>>
  PROVE  /\ Loaded(g, r) \in Memory
         /\ \A s \in Request \ torn : Follows(Loaded(g, r), s, log[s])
<1> DEFINE m == Mem(g)
           requests == [m.requests EXCEPT ![r] = Last(log[r]).record]
           usedIDs == m.usedIDs \cup ConfsOf(r, "authorized")
           owners == [c \in Conf |-> IF c \in ConfsOf(r, "checkpoint") THEN r ELSE m.owners[c]]
           sequences == [m.sequences EXCEPT ![r] = Len(log[r])]
<1>1. m \in Memory
  BY Held DEF GateInv
<1>2. /\ log[r] \in Seq(Entry) /\ Len(log[r]) \in Nat \ {0} /\ Len(log[r]) <= MaxEvents
      /\ Last(log[r]) \in Entry
  BY DEF GateInv, TypeOK, Bounded, Last
<1>3. Last(log[r]).record \in Record
  BY <1>2 DEF Entry
<1>4. requests \in [Request -> Record \cup {None}]
  BY <1>1, <1>3 DEF Memory
<1>5. usedIDs \in SUBSET Conf
  <2>1. ConfsOf(r, "authorized") \subseteq Conf
    BY DEF ConfsOf
  <2> QED
    BY <1>1, <2>1 DEF Memory
<1>6. owners \in [Conf -> Request \cup {None}]
  BY <1>1 DEF Memory
<1>7. sequences \in [Request -> 0 .. MaxEvents]
  BY <1>1, <1>2, ApprovalAssumption DEF Memory
<1>8. Loaded(g, r) = [requests |-> requests, usedIDs |-> usedIDs, owners |-> owners,
                      sequences |-> sequences]
  BY DEF Loaded
<1>9. \A s \in Request \ torn : Follows(Loaded(g, r), s, log[s])
  <2> SUFFICES ASSUME NEW s \in Request, s \notin torn PROVE Follows(Loaded(g, r), s, log[s])
    OBVIOUS
  <2>1. Loaded(g, r).requests = requests /\ Loaded(g, r).sequences = sequences
    BY <1>8
  <2>2. CASE s = r
    <3>1. Loaded(g, r).sequences[r] = Len(log[r])
      BY <2>1, <1>1 DEF Memory
    <3>2. Loaded(g, r).requests[r] = log[r][Len(log[r])].record
      BY <2>1, <1>1 DEF Memory, Last
    <3> QED
      BY <2>2, <3>1, <3>2, <1>2 DEF Follows
  <2>3. CASE s # r
    <3>1. /\ Loaded(g, r).sequences[s] = m.sequences[s]
          /\ Loaded(g, r).requests[s] = m.requests[s]
      BY <2>1, <2>3, <1>1 DEF Memory
    <3>2. Follows(m, s, log[s])
      BY DEF GateInv, MemoryIsDurable, AtRest
    <3> HIDE DEF m
    <3> QED
      BY <3>1, <3>2 DEF Follows
  <2> QED
    BY <2>2, <2>3
<1> HIDE DEF requests, usedIDs, owners, sequences
<1> QED
  BY <1>4, <1>5, <1>6, <1>7, <1>8, <1>9 DEF Memory

\* What a handler may put back follows the ledger, but for the requests in torn.
Faithful(c, void) ==
  c.pc = "load" => \A r \in Request \ (c.torn \cup void) : Follows(c.snap, r, log[r])

\* A step of process g that leaves the ledger alone keeps the invariant when the
\* memory it leaves at rest and the snapshots it leaves follow the ledger.
LEMMA AdministerFrame ==
  ASSUME GateInv, NEW g \in Gate, UNCHANGED <<log, used, closed>>, epoch' \in Epoch,
         gate' \in Gates, call' \in [Gate -> Calls],
         restoring' \in [Gate -> [Handler -> Restores]],
         torn \subseteq torn', torn' \subseteq Request,
         \A i \in Gate : i # g => gate'[i] = gate[i] /\ call'[i] = call[i],
         \/ /\ call'[g].op = "idle"
            /\ \A r \in Request \ torn' : Follows(gate'[g].mem, r, log[r])
         \/ /\ call'[g] = call[g] /\ gate'[g].mem = gate[g].mem
            /\ gate'[g].mode = "down" => gate[g].mode = "down",
         \A i \in Gate, h \in Handler : Faithful(restoring'[i][h], torn')
  PROVE  GateInv'
<1>1. /\ TypeOK /\ MemoryIsDurable /\ Bounded /\ \A i \in Gate : InFlight(i)
  BY DEF GateInv
<1>2. TypeOK'
  BY <1>1 DEF TypeOK, Gates, Calls, Restores
<1>3. Bounded'
  BY <1>1 DEF Bounded
<1>4. \A i \in Gate : \A r \in Request \ torn' : Follows(AtRest(i)', r, log[r])
  <2> SUFFICES ASSUME NEW i \in Gate, NEW r \in Request, r \notin torn'
               PROVE  Follows(AtRest(i)', r, log[r])
    OBVIOUS
  <2>1. Follows(AtRest(i), r, log[r])
    BY <1>1 DEF MemoryIsDurable
  <2>2. CASE call'[i] = call[i] /\ gate'[i].mem = gate[i].mem
    BY <2>1, <2>2 DEF AtRest, Free, Mem
  <2>3. CASE i = g /\ call'[g].op = "idle" /\ Follows(gate'[g].mem, r, log[r])
    BY <2>3 DEF AtRest, Free, Mem
  <2> QED
    BY <2>2, <2>3
<1>5. MemoryIsDurable'
  BY <1>4 DEF MemoryIsDurable, Faithful
<1>6. \A i \in Gate : InFlight(i)'
  <2> SUFFICES ASSUME NEW i \in Gate PROVE InFlight(i)'
    OBVIOUS
  <2>1. CASE /\ call'[i] = call[i] /\ gate'[i].mem = gate[i].mem
             /\ gate'[i].mode = "down" => gate[i].mode = "down"
    BY <1>1, <2>1 DEF InFlight, Free, Mem
  <2>2. CASE call'[i].op = "idle"
    BY <2>2 DEF InFlight, Free
  <2> QED
    BY <2>1, <2>2
<1> QED
  BY <1>2, <1>3, <1>5, <1>6 DEF GateInv

\* What the invariant says of the parts that an administrative step touches.
LEMMA AtHand ==
  ASSUME GateInv
  PROVE  /\ epoch \in Epoch /\ gate \in Gates /\ call \in [Gate -> Calls]
         /\ restoring \in [Gate -> [Handler -> Restores]] /\ torn \subseteq Request
         /\ \A i \in Gate, h \in Handler : Faithful(restoring[i][h], torn)
         /\ \A i \in Gate : gate[i].mode = "down" => Free(i)
         /\ \A i \in Gate : Free(i) =>
              \A r \in Request \ torn : Follows(gate[i].mem, r, log[r])
<1>1. TypeOK /\ MemoryIsDurable /\ \A i \in Gate : InFlight(i)
  BY DEF GateInv
<1>2. /\ epoch \in Epoch /\ gate \in Gates /\ call \in [Gate -> Calls]
      /\ restoring \in [Gate -> [Handler -> Restores]] /\ torn \subseteq Request
  BY <1>1 DEF TypeOK, Gates, Calls, Restores
<1>3. \A i \in Gate, h \in Handler : Faithful(restoring[i][h], torn)
  BY <1>1 DEF Faithful, MemoryIsDurable
<1>4. \A i \in Gate : gate[i].mode = "down" => Free(i)
  BY <1>1 DEF InFlight
<1>5. \A i \in Gate : Free(i) =>
              \A r \in Request \ torn : Follows(gate[i].mem, r, log[r])
  BY <1>1 DEF MemoryIsDurable, AtRest, Mem
<1> QED
  BY <1>2, <1>3, <1>4, <1>5

\* A Restore that has not copied everything, or that changes only what it has to
\* do, may put back nothing new.
LEMMA RestoringStep ==
  ASSUME GateInv, NEW g \in Gate, NEW h \in Handler, NEW c \in Restores,
         restoring' = [restoring EXCEPT ![g][h] = c], Faithful(c, torn)
  PROVE  /\ restoring' \in [Gate -> [Handler -> Restores]]
         /\ \A i \in Gate, j \in Handler : Faithful(restoring'[i][j], torn)
<1>1. /\ restoring \in [Gate -> [Handler -> Restores]]
      /\ \A i \in Gate, j \in Handler : Faithful(restoring[i][j], torn)
  BY AtHand
<1>2. /\ restoring' \in [Gate -> [Handler -> Restores]]
      /\ \A i \in Gate, j \in Handler :
           restoring'[i][j] = IF i = g /\ j = h THEN c ELSE restoring[i][j]
  BY <1>1
<1> QED
  BY <1>1, <1>2

\* Gate.snapshot: the copy of one map is a Restore, and the copy of the last one
\* leaves a snapshot that follows the ledger but for the requests it has torn.
LEMMA CopySafe ==
  ASSUME GateInv, NEW g \in Gate, NEW h \in Handler, Copy(g, h)
  PROVE  \E c \in Restores : /\ restoring' = [restoring EXCEPT ![g][h] = c]
                             /\ Faithful(c, torn)
<1> DEFINE c == restoring[g][h]
           m == Mem(g)
           requests == IF c.pc = "requests" THEN m.requests ELSE c.snap.requests
           usedIDs == IF c.pc = "usedIDs" THEN m.usedIDs ELSE c.snap.usedIDs
           owners == IF c.pc = "owners" THEN m.owners ELSE c.snap.owners
           sequences == IF c.pc = "sequences" THEN m.sequences ELSE c.snap.sequences
           snap == [c.snap EXCEPT ![c.pc] = m[c.pc]]
           lost == IF c.pc = "sequences"
                   THEN {r \in Request : c.snap.requests[r] # AtRest(g).requests[r]}
                   ELSE {}
           d == [c EXCEPT !.pc = After[c.pc], !.snap[c.pc] = m[c.pc], !.torn = lost]
<1>1. /\ c \in Restores /\ c.pc \in DOMAIN After
      /\ restoring' = [restoring EXCEPT ![g][h] = d]
  BY AtHand DEF Copy
<1>2. DOMAIN After = {"requests", "usedIDs", "owners", "sequences"}
  BY DEF After
<1>3. m \in Memory
  BY AtHand DEF Gates, Mem
<1> HIDE DEF c, m
<1>4. c.snap \in Memory /\ c.todo \subseteq Request
  BY <1>1 DEF Restores
<1>5. snap = [requests |-> requests, usedIDs |-> usedIDs, owners |-> owners,
              sequences |-> sequences]
  BY <1>1, <1>2, <1>3, <1>4 DEF Memory
<1> HIDE DEF lost
<1>6. d = [pc |-> After[c.pc], todo |-> c.todo, snap |-> snap, torn |-> lost]
  <2>1. d = [c EXCEPT !.pc = After[c.pc], !.snap = snap, !.torn = lost]
    BY <1>1 DEF Restores
  <2>2. c = [pc |-> c.pc, todo |-> c.todo, snap |-> c.snap, torn |-> c.torn]
    BY <1>1 DEF Restores
  <2> HIDE DEF snap, d
  <2> QED
    BY <2>1, <2>2
<1>7. snap \in Memory
  BY <1>3, <1>5, <1>4 DEF Memory
<1>8. /\ After[c.pc] \in {"load"} \cup DOMAIN After
      /\ After[c.pc] = "load" => c.pc = "sequences"
  BY <1>1, <1>2 DEF After
<1>9. lost \subseteq Request
  BY DEF lost
<1>10. d \in Restores
  <2> HIDE DEF d, snap
  <2> QED
    BY <1>6, <1>7, <1>8, <1>4, <1>9 DEF Restores
<1>11. Faithful(d, torn)
  <2> SUFFICES ASSUME c.pc = "sequences", NEW r \in Request, r \notin lost, r \notin torn
               PROVE  Follows(snap, r, log[r])
    BY <1>6, <1>8 DEF Faithful
  <2>1. snap.requests = c.snap.requests /\ snap.sequences = m.sequences
    BY <1>5
  <2>2. snap.requests[r] = AtRest(g).requests[r]
    BY <2>1 DEF lost
  <2>3. AtRest(g).sequences = m.sequences
    BY DEF AtRest, GateInv, InFlight, Call, Change, m
  <2>4. Follows(AtRest(g), r, log[r])
    BY DEF GateInv, MemoryIsDurable
  <2> HIDE DEF snap, m
  <2> QED
    BY <2>1, <2>2, <2>3, <2>4 DEF Follows
<1> QED
  BY <1>1, <1>10, <1>11

\* Steps that leave the ledger and the history of uses alone.
LEMMA AdministerSafe ==
  ASSUME GateInv, NEW g \in Gate, Administer(g)
  PROVE  /\ GateInv'
         /\ UNCHANGED <<log, used, closed>> /\ torn \subseteq torn'
<1>0. /\ epoch \in Epoch /\ gate \in Gates /\ call \in [Gate -> Calls]
      /\ restoring \in [Gate -> [Handler -> Restores]] /\ torn \subseteq Request
      /\ \A i \in Gate, h \in Handler : Faithful(restoring[i][h], torn)
      /\ gate[g].mode = "down" => Free(g)
      /\ Free(g) => \A r \in Request \ torn : Follows(gate[g].mem, r, log[r])
  BY AtHand
<1>1. /\ EmptyMemory \in Memory /\ Idle \in Calls /\ Idle.op = "idle"
      /\ NoRestore \in Restores /\ NoRestore.pc = "idle" /\ Faithful(NoRestore, torn)
      /\ \A r \in Request : Follows(EmptyMemory, r, log[r])
  BY EmptyFollows, IdleIsCall DEF Faithful, GateInv, TypeOK
<1>2. CASE Crash(g)
  <2>1. /\ gate' = [gate EXCEPT ![g].mode = "down", ![g].mem = EmptyMemory]
        /\ call' = [call EXCEPT ![g] = Idle]
        /\ restoring' = [restoring EXCEPT ![g] = [h \in Handler |-> NoRestore]]
        /\ UNCHANGED <<epoch, log, used, closed, torn>>
    BY <1>2 DEF Crash
  <2>2. gate' \in Gates /\ call' \in [Gate -> Calls]
    BY <1>0, <1>1, <2>1 DEF Gates
  <2>3. /\ gate'[g].mem = EmptyMemory /\ call'[g].op = "idle"
        /\ \A i \in Gate : i # g => gate'[i] = gate[i] /\ call'[i] = call[i]
    BY <1>0, <1>1, <2>1 DEF Gates
  <2>4. /\ restoring' \in [Gate -> [Handler -> Restores]]
        /\ \A i \in Gate, h \in Handler :
             restoring'[i][h] = IF i = g THEN NoRestore ELSE restoring[i][h]
    BY <1>0, <1>1, <2>1
  <2>5. \A i \in Gate, h \in Handler : Faithful(restoring'[i][h], torn')
    BY <1>0, <1>1, <2>1, <2>4
  <2>6. \A r \in Request \ torn' : Follows(gate'[g].mem, r, log[r])
    BY <1>1, <2>3
  <2> QED
    BY <1>0, <2>1, <2>2, <2>3, <2>4, <2>5, <2>6, AdministerFrame
<1>3. CASE AdvanceEpoch(g)
  <2>1. /\ UNCHANGED <<log, call, restoring, used, closed, torn>> /\ epoch' \in Epoch
        /\ gate' = gate \/ gate' = [gate EXCEPT ![g].epoch = epoch']
    BY <1>3 DEF AdvanceEpoch
  <2>2. /\ gate' \in Gates /\ gate'[g].mem = gate[g].mem /\ gate'[g].mode = gate[g].mode
        /\ \A i \in Gate : i # g => gate'[i] = gate[i]
    <3>1. CASE gate' = gate
      BY <1>0, <3>1
    <3>2. CASE gate' = [gate EXCEPT ![g].epoch = epoch']
      <4>1. gate' = [gate EXCEPT ![g] = [gate[g] EXCEPT !.epoch = epoch']]
        BY <3>2
      <4>2. gate[g] \in [mode : {"down", "opening", "up"}, epoch : Epoch, mem : Memory]
        BY <1>0 DEF Gates
      <4> QED
        BY <1>0, <2>1, <4>1, <4>2 DEF Gates
    <3> QED
      BY <2>1, <3>1, <3>2
  <2> QED
    BY <1>0, <2>1, <2>2, AdministerFrame
<1>4. ASSUME NEW h \in Handler, Open(g, h)
      PROVE  GateInv' /\ UNCHANGED <<log, used, closed>> /\ torn \subseteq torn'
  <2> DEFINE c == [NoRestore EXCEPT !.pc = "list"]
  <2>1. /\ gate' = [gate EXCEPT ![g] = [mode |-> "opening", epoch |-> epoch, mem |-> EmptyMemory]]
        /\ restoring' = [restoring EXCEPT ![g][h] = c]
        /\ UNCHANGED <<epoch, log, call, used, closed, torn>> /\ call[g].op = "idle"
    BY <1>0, <1>4 DEF Open, Free
  <2>2. c \in Restores /\ Faithful(c, torn)
    BY <1>1 DEF Restores, Faithful
  <2>3. /\ gate' \in Gates /\ gate'[g].mem = EmptyMemory
        /\ \A i \in Gate : i # g => gate'[i] = gate[i]
    BY <1>0, <1>1, <2>1 DEF Gates
  <2>4. /\ restoring' \in [Gate -> [Handler -> Restores]]
        /\ \A i \in Gate, j \in Handler : Faithful(restoring'[i][j], torn)
    <3> HIDE DEF c
    <3> QED
      BY <2>1, <2>2, RestoringStep
  <2>5. \A r \in Request \ torn' : Follows(gate'[g].mem, r, log[r])
    BY <1>1, <2>3
  <2>6. \A i \in Gate, j \in Handler : Faithful(restoring'[i][j], torn')
    BY <2>1, <2>4
  <2> HIDE DEF c
  <2> QED
    BY <1>0, <2>1, <2>3, <2>4, <2>5, <2>6, AdministerFrame
<1>5. ASSUME NEW h \in Handler,
             ListIDs(g, h) \/ Copy(g, h) \/ \E r \in Request : Restore(g, h, r)
      PROVE  GateInv' /\ UNCHANGED <<log, used, closed>> /\ torn \subseteq torn'
  <2>1. UNCHANGED <<epoch, log, gate, call, used, closed, torn>>
    BY <1>5 DEF ListIDs, Copy, Restore
  <2>2. \E c \in Restores : /\ restoring' = [restoring EXCEPT ![g][h] = c]
                            /\ Faithful(c, torn)
    <3>1. CASE ListIDs(g, h)
      <4> DEFINE c == [restoring[g][h] EXCEPT !.pc = "requests",
                                              !.todo = {r \in Request : log[r] # <<>>}]
      <4>1. c \in Restores /\ c.pc = "requests"
        <5>1. restoring[g][h] \in Restores /\ "requests" \in DOMAIN After
          BY <1>0 DEF After
        <5> QED
          BY <5>1 DEF Restores
      <4>2. restoring' = [restoring EXCEPT ![g][h] = c] /\ Faithful(c, torn)
        BY <3>1, <4>1 DEF ListIDs, Faithful
      <4> QED
        BY <4>1, <4>2
    <3>2. ASSUME NEW r \in Request, Restore(g, h, r)
          PROVE  \E c \in Restores : /\ restoring' = [restoring EXCEPT ![g][h] = c]
                                     /\ Faithful(c, torn)
      <4> DEFINE c == [NoRestore EXCEPT !.pc = "requests", !.todo = {r}]
      <4>1. c \in Restores /\ Faithful(c, torn)
        BY <1>1 DEF Restores, Faithful, After
      <4>2. restoring' = [restoring EXCEPT ![g][h] = c]
        BY <3>2 DEF Restore
      <4> QED
        BY <4>1, <4>2
    <3> QED
      BY <1>5, <3>1, <3>2, CopySafe
  <2>3. /\ restoring' \in [Gate -> [Handler -> Restores]]
        /\ \A i \in Gate, j \in Handler : Faithful(restoring'[i][j], torn)
    BY <2>2, RestoringStep
  <2> QED
    BY <1>0, <2>1, <2>3, AdministerFrame
<1>6. ASSUME NEW h \in Handler, NEW r \in Request, RestoreRecord(g, h, r)
      PROVE  GateInv' /\ UNCHANGED <<log, used, closed>> /\ torn \subseteq torn'
  <2> DEFINE c == [restoring[g][h] EXCEPT !.todo = @ \ {r}]
  <2>1. /\ gate' = [gate EXCEPT ![g].mem = Loaded(g, r)] /\ log[r] # <<>>
        /\ restoring' = [restoring EXCEPT ![g][h] = c]
        /\ UNCHANGED <<epoch, log, call, used, closed, torn>> /\ Free(g)
    BY <1>6 DEF RestoreRecord, Restorable
  <2>2. /\ Loaded(g, r) \in Memory
        /\ \A s \in Request \ torn : Follows(Loaded(g, r), s, log[s])
    BY <2>1, LoadedFollows
  <2>3. c \in Restores /\ Faithful(c, torn)
    BY <1>0, SMTT(30) DEF Restores, Faithful
  <2>4. /\ gate' \in Gates /\ gate'[g].mem = Loaded(g, r)
        /\ \A i \in Gate : i # g => gate'[i] = gate[i]
    BY <1>0, <2>1, <2>2 DEF Gates
  <2>5. /\ restoring' \in [Gate -> [Handler -> Restores]]
        /\ \A i \in Gate, j \in Handler : Faithful(restoring'[i][j], torn)
    <3> HIDE DEF c
    <3> QED
      BY <2>1, <2>3, RestoringStep
  <2>6. call'[g].op = "idle"
    BY <2>1 DEF Free
  <2>7. \A s \in Request \ torn' : Follows(gate'[g].mem, s, log[s])
    BY <2>1, <2>2, <2>4
  <2>8. \A i \in Gate, j \in Handler : Faithful(restoring'[i][j], torn')
    BY <2>1, <2>5
  <2> HIDE DEF c
  <2> QED
    BY <1>0, <2>1, <2>4, <2>5, <2>6, <2>7, <2>8, AdministerFrame
<1>7. ASSUME NEW h \in Handler, RestoreFails(g, h)
      PROVE  GateInv' /\ UNCHANGED <<log, used, closed>> /\ torn \subseteq torn'
  <2> DEFINE c == restoring[g][h]
  <2>1. /\ gate' = [gate EXCEPT ![g].mem = c.snap,
                                ![g].mode = IF @ = "opening" THEN "down" ELSE @]
        /\ restoring' = [restoring EXCEPT ![g][h] = NoRestore]
        /\ torn' = torn \cup c.torn /\ c.pc = "load" /\ call[g].op = "idle"
        /\ UNCHANGED <<epoch, log, call, used, closed>>
    BY <1>7 DEF RestoreFails, Free
  <2>2. c \in Restores /\ c.snap \in Memory /\ c.torn \subseteq Request
    BY <1>0 DEF Restores
  <2>3. \A r \in Request \ torn' : Follows(c.snap, r, log[r])
    BY <1>0, <2>1 DEF Faithful
  <2> HIDE DEF c
  <2>4. /\ gate' \in Gates /\ gate'[g].mem = c.snap
        /\ \A i \in Gate : i # g => gate'[i] = gate[i]
    BY <1>0, <2>1, <2>2 DEF Gates
  <2>5. /\ restoring' \in [Gate -> [Handler -> Restores]]
        /\ \A i \in Gate, j \in Handler : Faithful(restoring'[i][j], torn)
    BY <1>1, <2>1, RestoringStep
  <2>6. \A i \in Gate, j \in Handler : Faithful(restoring'[i][j], torn')
    BY <2>1, <2>5 DEF Faithful
  <2>7. torn' \subseteq Request /\ torn \subseteq torn'
    BY <1>0, <2>1, <2>2
  <2> QED
    BY <1>0, <2>1, <2>3, <2>4, <2>5, <2>6, <2>7, AdministerFrame, ZenonT(40)
<1>8. ASSUME NEW h \in Handler, RestoreEnds(g, h)
      PROVE  GateInv' /\ UNCHANGED <<log, used, closed>> /\ torn \subseteq torn'
  <2>1. /\ gate' = [gate EXCEPT ![g].mode = "up"]
        /\ restoring' = [restoring EXCEPT ![g][h] = NoRestore]
        /\ UNCHANGED <<epoch, log, call, used, closed, torn>>
    BY <1>8 DEF RestoreEnds
  <2>2. /\ gate' \in Gates /\ gate'[g].mem = gate[g].mem /\ gate'[g].mode = "up"
        /\ \A i \in Gate : i # g => gate'[i] = gate[i]
    BY <1>0, <2>1 DEF Gates
  <2>3. /\ restoring' \in [Gate -> [Handler -> Restores]]
        /\ \A i \in Gate, j \in Handler : Faithful(restoring'[i][j], torn)
    BY <1>1, <2>1, RestoringStep
  <2> QED
    BY <1>0, <2>1, <2>2, <2>3, AdministerFrame
<1> QED
  BY <1>2, <1>3, <1>4, <1>5, <1>6, <1>7, <1>8 DEF Administer

\* Every step keeps the invariant.
LEMMA GateInvInductive ==
  ASSUME GateInv, [Next]_vars
  PROVE  GateInv'
<1>1. CASE Next
  <2>1. TypeOK
    BY DEF GateInv
  <2>2. PICK g \in Gate : Starts(g) \/ Persist(g) \/ PersistFails(g) \/ Administer(g)
    BY <1>1, <2>1, NextCases
  <2> QED
    BY <2>2, StartSafe, ReturnSafe, AdministerSafe
<1>2. CASE UNCHANGED vars
  <2>1. UNCHANGED <<epoch, log, gate, call, restoring, used, closed, torn>>
    BY <1>2 DEF vars
  <2>2. TypeOK' /\ Bounded'
    BY <2>1 DEF GateInv, TypeOK, Bounded
  <2>3. MemoryIsDurable'
    BY <2>1 DEF GateInv, MemoryIsDurable, AtRest, Free, Mem
  <2>4. \A g \in Gate : InFlight(g)'
    BY <2>1 DEF GateInv, InFlight, Free, Mem
  <2> QED
    BY <2>2, <2>3, <2>4 DEF GateInv
<1> QED
  BY <1>1, <1>2

\* Before any process has started the invariant holds.
LEMMA GateInvInitially == Init => GateInv
<1> SUFFICES ASSUME Init PROVE GateInv
  OBVIOUS
<1>1. /\ EmptyMemory \in Memory
      /\ \A r \in Request : \A events \in Seq(Entry) : Follows(EmptyMemory, r, events)
      /\ Idle \in Calls /\ Idle.op = "idle" /\ NoRestore \in Restores /\ NoRestore.pc = "idle"
  BY EmptyFollows, IdleIsCall
<1>2. <<>> \in Seq(Entry) /\ Len(<<>>) = 0 /\ 0 <= MaxEvents /\ 1 \in Epoch
  BY ApprovalAssumption DEF Epoch
<1>3. TypeOK
  BY <1>1, <1>2 DEF Init, TypeOK, Calls, Restores
<1>4. Bounded
  BY <1>2 DEF Init, Bounded
<1>5. \A g \in Gate : Free(g)
  BY <1>1 DEF Init, Free
<1>6. MemoryIsDurable
  <2>1. \A g \in Gate, r \in Request : Follows(AtRest(g), r, log[r])
    BY <1>1, <1>2, <1>5 DEF Init, AtRest, Mem
  <2>2. \A g \in Gate, h \in Handler : restoring[g][h].pc # "load"
    BY <1>1 DEF Init
  <2> QED
    BY <2>1, <2>2 DEF MemoryIsDurable
<1>7. \A g \in Gate : InFlight(g)
  BY <1>5 DEF InFlight
<1> QED
  BY <1>3, <1>4, <1>6, <1>7 DEF GateInv

\* gate.go:408, 366: GateInv is inductive: the types, that every memory at rest and
\* every finished snapshot is an earlier state of the ledger but for what is torn,
\* and that a call in its transaction holds the memory it started from.
THEOREM GateInvariant == Spec => []GateInv
<1>1. GateInv /\ [Next]_vars => GateInv'
  BY GateInvInductive
<1> QED
  BY GateInvInitially, <1>1, PTL DEF Spec

\* gate.go:408, 366: for any number of processes, handlers, requests, confirmations,
\* epochs and events, whatever call fails, loses its answer or runs beside a
\* Restore, the memory of every gate is well formed and, but for the requests that
\* a snapshot has torn, an earlier state of the ledger.
THEOREM GateSafe == Spec => [](TypeOK /\ MemoryIsDurable)
<1>1. GateInv => TypeOK /\ MemoryIsDurable
  BY DEF GateInv
<1> QED
  BY GateInvariant, <1>1, PTL

\* The ledger, the gates and the calls keep the types of the Go structs.
THEOREM GateTyped == Spec => []TypeOK
<1>1. GateInv => TypeOK
  BY DEF GateInv
<1> QED
  BY GateInvariant, <1>1, PTL

\* store.go:343: no call writes to the ledger for another epoch than the durable
\* one, however stale the epoch its gate holds and whatever snapshot was put back.
THEOREM EpochFencedThm == Spec => EpochFenced
<1> DEFINE Fenced == \A r \in Request :
                       log'[r] # log[r] => log'[r][Len(log'[r])].record.epoch = epoch
<1>1. ASSUME GateInv, Next PROVE Fenced
  <2>1. TypeOK
    BY <1>1 DEF GateInv
  <2>2. PICK g \in Gate : Starts(g) \/ Persist(g) \/ PersistFails(g) \/ Administer(g)
    BY <1>1, <2>1, NextCases
  <2>3. CASE Starts(g) \/ Administer(g)
    BY <1>1, <2>3, StartSafe, AdministerSafe
  <2>4. CASE Persist(g) \/ PersistFails(g)
    <3> DEFINE r == call[g].req
               entries == call[g].entries
    <3>1. /\ r \in Request /\ Change(call[g].before, r, Mem(g), entries)
          /\ \A s \in Request : s # r => log'[s] = log[s]
          /\ UNCHANGED log \/ (Appendable(g) /\ log'[r] = log[r] \o entries)
      BY <1>1, <2>4, ReturnStep DEF Call
    <3>2. CASE Appendable(g) /\ log'[r] = log[r] \o entries
      <4>1. log[r] \in Seq(Entry)
        BY <2>1, <3>1 DEF TypeOK
      <4>2. /\ entries \in Seq(Entry) /\ entries # <<>>
            /\ \A i \in 1 .. Len(entries) : entries[i].record = Mem(g).requests[r]
        BY <3>1 DEF Change
      <4>3. Mem(g).requests[r].epoch = epoch
        BY <3>2 DEF Appendable, Rec, Mem
      <4> HIDE DEF r, entries
      <4>4. log'[r][Len(log'[r])] = entries[Len(entries)] /\ Len(entries) \in 1 .. Len(entries)
        BY <3>2, <4>1, <4>2, LastAppended
      <4> QED
        BY <3>1, <4>2, <4>3, <4>4
    <3> QED
      BY <3>1, <3>2
  <2> QED
    BY <2>2, <2>3, <2>4
<1>2. ASSUME GateInv, [Next]_vars PROVE [Fenced]_vars
  BY <1>1, <1>2
<1> QED
  BY GateInvariant, <1>2, PTL DEF Spec, EpochFenced

-------------------------------------------------------------------------------
(* An authorisation is used once *)

\* The record of a request in the ledger.
Durable(events) == IF events = <<>> THEN None ELSE Last(events).record

\* A call whose events the ledger accepts started from the record that is there.
LEMMA CommitIsCurrent ==
  ASSUME GateInv, NEW g \in Gate, ~Free(g), Appendable(g), call[g].req \notin torn
  PROVE  call[g].before.requests[call[g].req] = Durable(log[call[g].req])
<1> DEFINE r == call[g].req
           b == call[g].before
<1>1. /\ r \in Request /\ b.sequences = Mem(g).sequences
      /\ Len(log[r]) = Mem(g).sequences[r] /\ Follows(b, r, log[r])
  BY DEF GateInv, InFlight, Call, Change, Appendable, MemoryIsDurable, AtRest
<1>2. log[r] \in Seq(Entry)
  BY <1>1 DEF GateInv, TypeOK
<1> HIDE DEF r, b
<1>3. Len(log[r]) = 0 <=> log[r] = <<>>
  BY <1>2
<1>4. b.requests[r] = Durable(log[r])
  BY <1>1, <1>3 DEF Follows, Durable, Last
<1> QED
  BY <1>4 DEF r, b

\* What the end of a call has made of the record of r, and of the history.
Effect(record, r, status) ==
  \/ /\ record = None /\ status \in {"pending", "approved"}
     /\ UNCHANGED <<used, closed>>
  \/ /\ record # None /\ record.status = status
     /\ UNCHANGED <<used, closed>>
  \/ /\ record # None /\ record.status = "pending" /\ status \in {"approved", "expired"}
     /\ UNCHANGED <<used, closed>>
  \/ /\ record # None /\ record.status # "revoked" /\ status = "revoked"
     /\ UNCHANGED used /\ closed' \in {closed, closed \cup {r}}
  \/ /\ record # None /\ record.status = "approved" /\ status = "revoked"
     /\ used' = [used EXCEPT ![r] = @ + 1] /\ UNCHANGED closed

\* When no two calls carry the same time, a call that ends has left the ledger
\* alone, or it started from the record that is there and leaves the one it made.
LEMMA ReturnIsCurrent ==
  ASSUME ~SameInstant, GateInv, NEW g \in Gate, Persist(g) \/ PersistFails(g),
         call[g].req \notin torn
  PROVE  LET r == call[g].req
             record == call[g].before.requests[r]
             new == Mem(g).requests[r]
         IN \/ UNCHANGED <<log, used, closed>>
            \/ /\ record = Durable(log[r]) /\ Effect(record, r, new.status)
               /\ log'[r] # <<>> /\ Last(log'[r]).record = new
<1> DEFINE r == call[g].req
           b == call[g].before
           entries == call[g].entries
           new == Mem(g).requests[r]
<1>1. ~Free(g) /\ (UNCHANGED <<log, used, closed>> \/ Commit(g))
  BY DEF Persist, PersistFails, Replayed
<1>2. /\ r \in Request /\ Change(b, r, Mem(g), entries)
      /\ Outcome(b.requests[r], new.status, call[g].op)
      /\ UNCHANGED log \/ (Appendable(g) /\ log'[r] = log[r] \o entries)
  BY ReturnStep DEF Call
<1>3. CASE Commit(g)
  <2>1. Appendable(g) /\ log' = [log EXCEPT ![r] = @ \o entries]
    BY <1>3 DEF Commit
  <2>2. log \in [Request -> Seq(Entry)]
    BY DEF GateInv, TypeOK
  <2>3. log'[r] = log[r] \o entries /\ log[r] \in Seq(Entry)
    BY <1>2, <2>1, <2>2
  <2>4. b.requests[r] = Durable(log[r])
    BY <1>1, <2>1, CommitIsCurrent, SMTT(30)
  <2>5. /\ entries \in Seq(Entry) /\ entries # <<>>
        /\ \A i \in 1 .. Len(entries) : entries[i].record = new
    BY <1>2 DEF Change
  <2>6. Effect(b.requests[r], r, new.status)
    <3>1. CASE PersistFails(g)
      BY <1>2, <3>1 DEF PersistFails, Outcome, Effect
    <3>2. CASE Persist(g)
      <4>1. /\ used' = IF call[g].op = "consume" THEN [used EXCEPT ![r] = @ + 1] ELSE used
            /\ closed' = IF call[g].op = "revoke" THEN closed \cup {r} ELSE closed
        BY <3>2 DEF Persist
      <4> HIDE DEF r, b, new
      <4> QED
        BY <1>2, <4>1 DEF Outcome, Effect
    <3> QED
      BY <3>1, <3>2, SMTT(30)
  <2> HIDE DEF r, b, entries, new
  <2>7. /\ log'[r] \in Seq(Entry) /\ Len(log'[r]) \in Nat \ {0}
        /\ log'[r][Len(log'[r])] = entries[Len(entries)]
        /\ Len(entries) \in 1 .. Len(entries)
    BY <2>3, <2>5, LastAppended
  <2>8. log'[r] # <<>> /\ Last(log'[r]).record = new
    BY <2>5, <2>7 DEF Last
  <2> QED
    BY <2>4, <2>6, <2>8 DEF r, b, new
<1> QED
  BY <1>1, <1>3

\* What a step does to the ledger of a request that is not torn, and to what is
\* counted for it: nothing, or what one call makes of the record that is there.
LEMMA StepOnRequest ==
  ASSUME ~SameInstant, GateInv, [Next]_vars
  PROVE  \/ UNCHANGED <<log, used, closed>> /\ torn \subseteq torn'
         \/ /\ UNCHANGED torn
            /\ \E r \in Request :
                 /\ \A s \in Request : s # r => /\ log'[s] = log[s] /\ used'[s] = used[s]
                                                /\ s \in closed' <=> s \in closed
                 /\ \/ r \in torn
                    \/ \E new \in Record :
                         /\ Effect(Durable(log[r]), r, new.status)
                         /\ log'[r] # <<>> /\ Last(log'[r]).record = new
<1>1. CASE UNCHANGED vars
  BY <1>1 DEF vars
<1>2. ASSUME NEW g \in Gate, Persist(g) \/ PersistFails(g),
             ~UNCHANGED <<log, used, closed>>
      PROVE  /\ UNCHANGED torn
             /\ \E r \in Request :
                  /\ \A s \in Request : s # r => /\ log'[s] = log[s] /\ used'[s] = used[s]
                                                 /\ s \in closed' <=> s \in closed
                  /\ \/ r \in torn
                     \/ \E new \in Record :
                          /\ Effect(Durable(log[r]), r, new.status)
                          /\ log'[r] # <<>> /\ Last(log'[r]).record = new
  <2> DEFINE r == call[g].req
  <2>1. /\ r \in Request /\ Mem(g).requests[r] \in Record
        /\ \A s \in Request : s # r => log'[s] = log[s]
    BY <1>2, ReturnStep DEF Call, Change
  <2>2. /\ UNCHANGED torn
        /\ used' = used \/ used' = [used EXCEPT ![r] = @ + 1]
        /\ closed' = closed \/ closed' = closed \cup {r}
    BY <1>2 DEF Persist, PersistFails
  <2>3. r \notin torn =>
          /\ Effect(Durable(log[r]), r, Mem(g).requests[r].status)
          /\ log'[r] # <<>> /\ Last(log'[r]).record = Mem(g).requests[r]
    BY <1>2, ReturnIsCurrent
  <2>4. used \in [Request -> Nat]
    BY DEF GateInv, TypeOK
  <2> HIDE DEF r
  <2>5. \A s \in Request : s # r => used'[s] = used[s] /\ (s \in closed' <=> s \in closed)
    BY <2>1, <2>2, <2>4
  <2> QED
    BY <2>1, <2>2, <2>3, <2>5
<1>3. CASE Next
  <2>1. TypeOK
    BY DEF GateInv
  <2>2. PICK g \in Gate : Starts(g) \/ Persist(g) \/ PersistFails(g) \/ Administer(g)
    BY <1>3, <2>1, NextCases
  <2>3. CASE Starts(g) \/ Administer(g)
    BY <2>3, StartSafe, AdministerSafe
  <2>4. CASE Persist(g) \/ PersistFails(g)
    <3>1. UNCHANGED torn
      BY <2>4 DEF Persist, PersistFails
    <3> QED
      BY <1>2, <2>4, <3>1
  <2> QED
    BY <2>2, <2>3, <2>4
<1> QED
  BY <1>1, <1>3

\* What the ledger holds of a request is a record.
LEMMA DurableRecord ==
  ASSUME TypeOK, NEW r \in Request
  PROVE  /\ log[r] = <<>> => Durable(log[r]) = None
         /\ log[r] # <<>> => /\ Durable(log[r]) = Last(log[r]).record
                             /\ Durable(log[r]) \in Record /\ Durable(log[r]) # None
<1> SUFFICES ASSUME log[r] # <<>> PROVE Last(log[r]).record \in Record
  BY NoneAssumption DEF Durable
<1>1. log[r] \in Seq(Entry)
  BY DEF TypeOK
<1>2. Last(log[r]) \in Entry
  BY <1>1 DEF Last
<1> QED
  BY <1>2 DEF Entry

\* A request that has authorised an operation, or that a Revoke has ended, is
\* revoked in the ledger, unless it is torn.
SpentIsRevoked ==
  \A r \in Request \ torn :
    /\ Spent(r) <= 1
    /\ used[r] > 0 \/ r \in closed =>
         log[r] # <<>> /\ Last(log[r]).record.status = "revoked"

\* Every step keeps spent requests revoked in the ledger.
LEMMA SpentInductive ==
  ASSUME ~SameInstant, GateInv, SpentIsRevoked, [Next]_vars
  PROVE  SpentIsRevoked'
<1>1. TypeOK /\ used \in [Request -> Nat]
  BY DEF GateInv, TypeOK
<1>2. CASE UNCHANGED <<log, used, closed>> /\ torn \subseteq torn'
  BY <1>2 DEF SpentIsRevoked, Spent
<1>3. ASSUME UNCHANGED torn, NEW r \in Request,
             \A s \in Request : s # r => /\ log'[s] = log[s] /\ used'[s] = used[s]
                                         /\ s \in closed' <=> s \in closed,
             \/ r \in torn
             \/ \E new \in Record : /\ Effect(Durable(log[r]), r, new.status)
                                    /\ log'[r] # <<>> /\ Last(log'[r]).record = new
      PROVE  SpentIsRevoked'
  <2>1. ASSUME NEW s \in Request, s \notin torn, s # r
        PROVE  /\ Spent(s)' <= 1
               /\ used'[s] > 0 \/ s \in closed' =>
                    log'[s] # <<>> /\ Last(log'[s]).record.status = "revoked"
    BY <1>3, <2>1 DEF SpentIsRevoked, Spent
  <2>2. ASSUME r \notin torn
        PROVE  /\ Spent(r)' <= 1
               /\ used'[r] > 0 \/ r \in closed' =>
                    log'[r] # <<>> /\ Last(log'[r]).record.status = "revoked"
    <3> DEFINE record == Durable(log[r])
    <3>1. PICK new \in Record : /\ Effect(record, r, new.status)
                                /\ log'[r] # <<>> /\ Last(log'[r]).record = new
      BY <1>3, <2>2
    <3>2. Spent(r) <= 1 /\ (used[r] > 0 \/ r \in closed =>
                              record # None /\ record.status = "revoked")
      BY <1>1, <2>2, DurableRecord DEF SpentIsRevoked
    <3> HIDE DEF record
    <3>3. CASE UNCHANGED <<used, closed>>
      BY <3>1, <3>2, <3>3 DEF Effect, Spent
    <3>4. CASE ~UNCHANGED <<used, closed>>
      <4>1. /\ record # None /\ record.status # "revoked" /\ new.status = "revoked"
            /\ \/ UNCHANGED used /\ closed' = closed \cup {r}
               \/ UNCHANGED closed /\ used' = [used EXCEPT ![r] = @ + 1]
        BY <3>1, <3>4 DEF Effect
      <4>2. used[r] = 0 /\ r \notin closed
        BY <1>1, <3>2, <4>1
      <4>3. used'[r] + (IF r \in closed' THEN 1 ELSE 0) <= 1
        BY <1>1, <4>1, <4>2
      <4> QED
        BY <3>1, <4>1, <4>3 DEF Spent
    <3> QED
      BY <3>3, <3>4
  <2> QED
    BY <1>3, <2>1, <2>2 DEF SpentIsRevoked
<1> QED
  BY <1>2, <1>3, StepOnRequest

\* gate.go:723: when no two calls carry the same time, a request authorises at
\* most one operation, and none once a Revoke has returned, for any number of
\* processes with stale memories and any answers lost, unless a torn snapshot of
\* the request was put back.
THEOREM SingleUseThm == ASSUME ~SameInstant PROVE Spec => []SingleUse
<1>1. Init => SpentIsRevoked
  BY DEF Init, SpentIsRevoked, Spent
<1>2. GateInv /\ SpentIsRevoked /\ [Next]_vars => SpentIsRevoked'
  BY SpentInductive
<1>3. SpentIsRevoked => SingleUse
  BY DEF SpentIsRevoked, SingleUse
<1> QED
  BY GateInvariant, <1>1, <1>2, <1>3, PTL DEF Spec

-------------------------------------------------------------------------------
(* The gates implement Grant *)

\* What Grant counts.
Counts == [r \in Request |-> IF r \in torn THEN 0 ELSE used[r]]

\* gate.go:463-760: when no two calls carry the same time, the gates of any
\* number of processes and their ledger implement an ideal grant of each request,
\* which is void once a torn snapshot of it is put back.
THEOREM GrantRefinement == ASSUME ~SameInstant PROVE Spec => GrantSpec
<1>1. Init => G!Init
  BY DEF Init, G!Init, DurableStatus
<1>2. ASSUME GateInv, [Next]_vars PROVE [G!Next]_<<DurableStatus, Counts>>
  <2>1. TypeOK /\ log \in [Request -> Seq(Entry)] /\ used \in [Request -> Nat]
    BY <1>2 DEF GateInv, TypeOK
  <2>2. CASE UNCHANGED <<log, used, closed>> /\ torn \subseteq torn'
    <3>1. PICK rs \in SUBSET Request : rs = torn'
      BY <1>2, GateInvInductive DEF GateInv, TypeOK
    <3>2. DurableStatus' = [r \in Request |-> IF r \in rs THEN "void" ELSE DurableStatus[r]]
      BY <2>2, <3>1 DEF DurableStatus
    <3>3. Counts' = [r \in Request |-> IF r \in rs THEN 0 ELSE Counts[r]]
      BY <2>2, <3>1 DEF Counts
    <3>4. G!Void(rs)
      BY <3>2, <3>3 DEF G!Void, Counts
    <3> QED
      BY <3>4 DEF G!Next
  <2>3. ASSUME UNCHANGED torn, NEW r \in Request,
               \A s \in Request : s # r => /\ log'[s] = log[s] /\ used'[s] = used[s]
                                           /\ s \in closed' <=> s \in closed,
               \/ r \in torn
               \/ \E new \in Record : /\ Effect(Durable(log[r]), r, new.status)
                                      /\ log'[r] # <<>> /\ Last(log'[r]).record = new
        PROVE  [G!Next]_<<DurableStatus, Counts>>
    <3>1. CASE r \in torn
      <4>1. DurableStatus' = DurableStatus /\ Counts' = Counts
        BY <2>3, <3>1 DEF DurableStatus, Counts
      <4> QED
        BY <4>1
    <3>2. CASE r \notin torn
      <4> DEFINE record == Durable(log[r])
      <4>1. PICK new \in Record : /\ Effect(record, r, new.status)
                                  /\ log'[r] # <<>> /\ Last(log'[r]).record = new
        BY <2>3, <3>2
      <4> DEFINE st == new.status
      <4>2. /\ DurableStatus[r] = IF record = None THEN "none" ELSE record.status
            /\ record # None => record.status \in Status
        BY <2>1, <3>2, DurableRecord DEF DurableStatus, Record
      <4>3. DurableStatus' = [DurableStatus EXCEPT ![r] = st]
        BY <2>3, <3>2, <4>1 DEF DurableStatus
      <4>4. /\ UNCHANGED used => UNCHANGED Counts
            /\ used' = [used EXCEPT ![r] = @ + 1] => Counts' = [Counts EXCEPT ![r] = @ + 1]
        BY <2>1, <2>3, <3>2 DEF Counts
      <4>5. Effect(record, r, st)
        BY <4>1
      <4> HIDE DEF st, record
      <4>6. CASE record = None /\ st \in {"pending", "approved"} /\ UNCHANGED used
        <5>1. G!Ask(r, st)
          BY <4>2, <4>3, <4>4, <4>6 DEF G!Ask, Counts
        <5> QED
          BY <4>6, <5>1 DEF G!Next
      <4>7. CASE record # None /\ record.status = st /\ UNCHANGED used
        <5>1. DurableStatus' = DurableStatus
          BY <4>2, <4>3, <4>7 DEF DurableStatus
        <5> QED
          BY <4>4, <4>7, <5>1
      <4>8. CASE record # None /\ record.status = "pending" /\ st = "approved" /\ UNCHANGED used
        <5>1. G!Approve(r)
          BY <4>2, <4>3, <4>4, <4>8 DEF G!Approve, Counts
        <5> QED
          BY <5>1 DEF G!Next
      <4>9. CASE record # None /\ record.status = "pending" /\ st = "expired" /\ UNCHANGED used
        <5>1. G!End(r, "expired")
          BY <4>2, <4>3, <4>4, <4>9 DEF G!End, Counts
        <5> QED
          BY <5>1 DEF G!Next
      <4>10. CASE record # None /\ record.status # "revoked" /\ st = "revoked" /\ UNCHANGED used
        <5>1. G!End(r, "revoked")
          BY <4>2, <4>3, <4>4, <4>10 DEF G!End, Status, Counts
        <5> QED
          BY <5>1 DEF G!Next
      <4>11. CASE /\ record # None /\ record.status = "approved" /\ st = "revoked"
                  /\ used' = [used EXCEPT ![r] = @ + 1]
        <5>1. G!Use(r)
          BY <4>2, <4>3, <4>4, <4>11 DEF G!Use, Counts
        <5> QED
          BY <5>1 DEF G!Next
      <4> QED
        BY <4>5, <4>6, <4>7, <4>8, <4>9, <4>10, <4>11 DEF Effect
    <3> QED
      BY <3>1, <3>2
  <2> QED
    BY <1>2, <2>2, <2>3, StepOnRequest
<1> QED
  BY GateInvariant, <1>1, <1>2, PTL DEF Spec, GrantSpec, G!Spec, Counts

-------------------------------------------------------------------------------
(* A grant stands on its confirmations *)

Checkpointed(events, i, conf, by) ==
  \E j \in 1 .. i : /\ events[j].type = "checkpoint" /\ events[j].conf = conf
                    /\ events[j].record.by = by

\* A three-confirmation request at its second step has a checkpoint, and one
\* that is authorised had it before.
Confirmed(events) ==
  \A i \in 1 .. Len(events) :
    LET e == events[i]
    IN e.record.kind = "third" =>
         /\ e.record.step = 2 => Checkpointed(events, i, e.record.conf, e.record.by)
         /\ e.type = "authorized" => Checkpointed(events, i - 1, e.conf, e.record.by)

\* Events that stand on a checkpoint of the ledger keep approvals confirmed.
LEMMA ConfirmedAppended ==
  ASSUME NEW old \in Seq(Entry), NEW entries \in Seq(Entry), Confirmed(old),
         NEW record, record = Durable(old),
         Backed(record, entries)
  PROVE  Confirmed(old \o entries)
<1> DEFINE new == old \o entries
           n == Len(old)
<1>1. n \in Nat /\ Len(entries) \in Nat /\ Len(new) = n + Len(entries)
  OBVIOUS
<1>2. \A i \in 1 .. n : new[i] = old[i]
  OBVIOUS
<1>3. \A i \in n + 1 .. n + Len(entries) : i - n \in 1 .. Len(entries) /\ new[i] = entries[i - n]
  OBVIOUS
<1>4. n = 0 <=> old = <<>>
  OBVIOUS
<1> HIDE DEF new, n
<1>5. \A i \in 0 .. n : \A c, b : Checkpointed(old, i, c, b) =>
                                    \A l \in Nat : i <= l => Checkpointed(new, l, c, b)
  BY <1>1, <1>2 DEF Checkpointed
<1>6. \A k \in 1 .. Len(entries) : HeldFor(record, entries[k]) =>
        Checkpointed(old, n, entries[k].record.conf, entries[k].record.by)
  <2> SUFFICES ASSUME NEW k \in 1 .. Len(entries), HeldFor(record, entries[k])
               PROVE  Checkpointed(old, n, entries[k].record.conf, entries[k].record.by)
    OBVIOUS
  <2>1. old # <<>> /\ record = old[n].record
    BY DEF HeldFor, Durable, Last, n
  <2>2. n \in 1 .. Len(old)
    BY <1>1, <1>4, <2>1 DEF n
  <2> QED
    BY <2>1, <2>2 DEF HeldFor, Confirmed
<1>7. ASSUME NEW i \in 1 .. n
      PROVE  new[i].record.kind = "third" =>
               /\ new[i].record.step = 2 => Checkpointed(new, i, new[i].record.conf, new[i].record.by)
               /\ new[i].type = "authorized" => Checkpointed(new, i - 1, new[i].conf, new[i].record.by)
  <2>1. new[i] = old[i] /\ i \in 1 .. Len(old) /\ i \in 0 .. n /\ i - 1 \in 0 .. n
    BY <1>1, <1>2 DEF n
  <2> QED
    BY <1>1, <1>5, <2>1 DEF Confirmed
<1>8. ASSUME NEW i \in n + 1 .. n + Len(entries)
      PROVE  new[i].record.kind = "third" =>
               /\ new[i].record.step = 2 => Checkpointed(new, i, new[i].record.conf, new[i].record.by)
               /\ new[i].type = "authorized" => Checkpointed(new, i - 1, new[i].conf, new[i].record.by)
  <2>1. /\ i - n \in 1 .. Len(entries) /\ new[i] = entries[i - n]
        /\ n \in 0 .. n /\ i \in Nat /\ i - 1 \in Nat /\ n <= i /\ n <= i - 1
    BY <1>1, <1>3
  <2>2. HeldFor(record, new[i]) =>
          /\ Checkpointed(new, i, new[i].record.conf, new[i].record.by)
          /\ Checkpointed(new, i - 1, new[i].record.conf, new[i].record.by)
    BY <1>5, <1>6, <2>1
  <2>3. /\ new[i].type = "checkpoint" /\ new[i].conf = new[i].record.conf
        => Checkpointed(new, i, new[i].record.conf, new[i].record.by)
    <3>1. i \in 1 .. i
      BY <1>1, <2>1
    <3> QED
      BY <3>1, Zenon DEF Checkpointed
  <2> QED
    BY <2>1, <2>2, <2>3 DEF Backed
<1>9. \A i \in 1 .. Len(new) : i \in 1 .. n \/ i \in n + 1 .. n + Len(entries)
  BY <1>1
<1>10. Confirmed(new)
  BY <1>7, <1>8, <1>9 DEF Confirmed
<1> QED
  BY <1>10 DEF new

\* gate.go:627: an approval of a three-confirmation request stands on a durable
\* checkpoint of the same confirmation by the same approver, for any number of
\* processes and whatever calls fail or are repeated, unless a torn snapshot of
\* the request was put back.
THEOREM GrantIsConfirmedThm == Spec => []GrantIsConfirmed
<1> DEFINE Inv == \A r \in Request \ torn : Confirmed(log[r])
<1>1. Init => Inv
  BY DEF Init, Confirmed
<1>2. ASSUME GateInv, Inv, [Next]_vars PROVE Inv'
  <2>1. TypeOK /\ log \in [Request -> Seq(Entry)]
    BY <1>2 DEF GateInv, TypeOK
  <2>2. CASE UNCHANGED log /\ torn \subseteq torn'
    BY <1>2, <2>2
  <2>3. ASSUME NEW g \in Gate, Persist(g) \/ PersistFails(g)
        PROVE  Inv'
    <3> DEFINE r == call[g].req
               record == call[g].before.requests[r]
               entries == call[g].entries
    <3>1. /\ r \in Request /\ entries \in Seq(Entry) /\ Backed(record, entries)
          /\ \A s \in Request : s # r => log'[s] = log[s]
          /\ UNCHANGED log \/ (Appendable(g) /\ log'[r] = log[r] \o entries)
      BY <1>2, <2>3, ReturnStep DEF Call, Change
    <3>2. UNCHANGED torn /\ ~Free(g)
      BY <2>3 DEF Persist, PersistFails
    <3>3. ASSUME Appendable(g), log'[r] = log[r] \o entries, r \notin torn
          PROVE  Confirmed(log'[r])
      <4>1. record = Durable(log[r])
        BY <1>2, <3>2, <3>3, CommitIsCurrent
      <4>2. log[r] \in Seq(Entry) /\ Confirmed(log[r])
        BY <1>2, <2>1, <3>1, <3>3
      <4> HIDE DEF r, record, entries
      <4>3. Confirmed(log[r] \o entries)
        BY <3>1, <4>1, <4>2, ConfirmedAppended
      <4> QED
        BY <3>3, <4>3
    <3> HIDE DEF r, record, entries
    <3> QED
      BY <1>2, <2>2, <3>1, <3>2, <3>3
  <2>4. CASE Next
    <3>1. PICK g \in Gate : Starts(g) \/ Persist(g) \/ PersistFails(g) \/ Administer(g)
      BY <2>1, <2>4, NextCases
    <3>2. CASE Starts(g) \/ Administer(g)
      BY <1>2, <2>2, <3>2, StartSafe, AdministerSafe
    <3> QED
      BY <2>3, <3>1, <3>2
  <2> QED
    BY <1>2, <2>2, <2>4 DEF vars
<1>3. ASSUME GateInv, Inv PROVE GrantIsConfirmed
  <2> SUFFICES ASSUME NEW r \in Request \ torn, NEW i \in DOMAIN log[r],
                      log[r][i].type = "authorized", log[r][i].record.kind = "third"
               PROVE  \E j \in 1 .. i - 1 :
                        /\ log[r][j].type = "checkpoint" /\ log[r][j].conf = log[r][i].conf
                        /\ log[r][j].record.by = log[r][i].record.by
    BY DEF GrantIsConfirmed
  <2>1. log[r] \in Seq(Entry) /\ i \in 1 .. Len(log[r])
    BY <1>3 DEF GateInv, TypeOK
  <2>2. Checkpointed(log[r], i - 1, log[r][i].conf, log[r][i].record.by)
    BY <1>3, <2>1 DEF Confirmed
  <2> QED
    BY <2>2 DEF Checkpointed
<1> QED
  BY GateInvariant, <1>1, <1>2, <1>3, PTL DEF Spec
=============================================================================
