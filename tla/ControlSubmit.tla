--------------------------- MODULE ControlSubmit ---------------------------
(***************************************************************************)
(* ControlEngine::submit of crates/control-engine: concurrent submissions  *)
(* of ONE idempotency key (namespace, device, request_id).  The maps of    *)
(* the engine are keyed by it, so other keys do not interfere.             *)
(*                                                                         *)
(* A submission is a task that gives up the processor at every await; each *)
(* action below is the code between two of them, or one operation on a     *)
(* locked map where two such operations follow each other.  The journal    *)
(* keeps its record in memory and on disk; its file format is the subject  *)
(* of ControlJournal.  The device queue is seen through its promise: an    *)
(* accepted entry is started at most once and then settled, by its worker  *)
(* or, when that dies at an await, once more by who finds the entry.       *)
(* DeviceQueue models how it keeps that promise.                           *)
(***************************************************************************)
EXTENDS Naturals, FiniteSets

CONSTANTS
    Submitters,     \* submissions, in any order and number of retries
    Payload,        \* the canonical payload hash of each of them
    None,
    MaxTrouble      \* bound: failed journal writes, callers that go away
                    \* mid-call, deaths of a worker, restarts, expiries, together

ASSUME SubmitAssumption ==
    /\ IsFiniteSet(Submitters)
    /\ None \notin Submitters
    /\ MaxTrouble \in Nat

VARIABLES
    pc,         \* where each submission stands
    cell,       \* the SharedResult it holds, named after its creator
    verdict,    \* what insert_record told it
    outcome,    \* the result it is about to settle
    receipt,    \* what its caller has in hand
    active,     \* EngineContext.active: the cell registered for the key
    shared,     \* the value of every cell
    queue,      \* the entry each submission has in the device queue
    stray,      \* what journal tasks nobody waits for any more will still write
    mem,        \* the journal record in memory
    disk,       \* the journal record in the file
    closed,     \* Inner.closed
    started,    \* submissions whose action reached the executor (history)
    dropped,    \* submissions whose caller went away (history)
    deaths,     \* how often a worker died with the entry in hand (history)
    trouble     \* failures so far

taskVars == <<pc, cell, verdict, outcome, receipt>>
journalVars == <<mem, disk>>
queueVars == <<queue, stray, deaths>>
vars == <<pc, cell, verdict, outcome, receipt, active, shared, queue, stray, mem, disk,
          closed, started, dropped, deaths, trouble>>

-----------------------------------------------------------------------------
(* ControlStatus, as far as the properties tell its values apart: the       *)
(* executor answered (Succeeded or Failed), the queue gave up before the    *)
(* start (Timeout or Cancelled), refused before the queue, or unknown.      *)
Final == {"Done", "NotRun", "Rejected", "Indeterminate"}
Unset == "Unset"
Payloads == {Payload[s] : s \in Submitters}

(* A record is live until expires_at_ns.                                    *)
NoRecord == [payload |-> None, status |-> "None", age |-> "expired"]
Record(p, st) == [payload |-> p, status |-> st, age |-> "live"]
Records == {NoRecord} \cup
           [payload : Payloads, status : Final \cup {"Running"}, age : {"live", "expired"}]
Live(rec) == rec.age = "live"
Expired(rec) == [rec EXCEPT !.age = "expired"]

(* keeper: where who comes after a dead worker finds the entry: running,    *)
(* draining, or nowhere because settle_abandoned has taken it.              *)
NoEntry == [stage |-> "none", result |-> Unset, keeper |-> "queue"]
Entry(st, r, k) == [stage |-> st, result |-> r, keeper |-> k]
Entries == [stage : {"none", "queued", "started", "settle", "remove", "set"},
            result : Final \cup {Unset},
            keeper : {"queue", "running", "draining", "abandoned"}]

(* The submission created its own entry of the active map (active_fresh).   *)
Fresh(s) == cell[s] = s

Ended == {"idle", "done", "gone"}

(* What the caller of s knows: a pending receipt reads the cell.            *)
Told(s) == IF receipt[s] = "Pending" THEN shared[cell[s]] ELSE receipt[s]

Init ==
    /\ pc = [s \in Submitters |-> "idle"]
    /\ cell = [s \in Submitters |-> None]
    /\ verdict = [s \in Submitters |-> "None"]
    /\ outcome = [s \in Submitters |-> Unset]
    /\ receipt = [s \in Submitters |-> "None"]
    /\ active = None
    /\ shared = [s \in Submitters |-> Unset]
    /\ queue = [s \in Submitters |-> NoEntry]
    /\ stray = {}
    /\ mem = NoRecord /\ disk = NoRecord
    /\ closed = FALSE
    /\ started = {} /\ dropped = {}
    /\ deaths = 0 /\ trouble = 0

-----------------------------------------------------------------------------
(* Journal operations, each one lock scope of FileJournal *)

Trouble == trouble < MaxTrouble /\ trouble' = trouble + 1

(* try_insert of a key without a live record: file first, then memory.      *)
JournalInsert(p) ==
    /\ disk' = Record(p, "Running")
    /\ mem' = Record(p, "Running")
    /\ UNCHANGED trouble

(* The write fails: the line may have reached the file all the same.        *)
JournalInsertFails(p) ==
    /\ Trouble
    /\ disk' \in {disk, Record(p, "Running")}
    /\ UNCHANGED mem

Settled(rec, r) == IF rec = NoRecord THEN NoRecord ELSE [rec EXCEPT !.status = r]

(* settle: nothing to do without a record in memory, else file then memory; *)
(* an earlier result, or a record that has expired, is no obstacle.         *)
JournalSettle(r) ==
    /\ IF mem = NoRecord
       THEN UNCHANGED journalVars
       ELSE /\ disk' = Settled(disk, r)
            /\ mem' = Settled(mem, r)
    /\ UNCHANGED trouble

JournalSettleFails(r) ==
    /\ mem # NoRecord
    /\ Trouble
    /\ disk' \in {disk, Settled(disk, r)}
    /\ UNCHANGED mem

(* FileJournal::open: an expired record is left out, an unsettled one       *)
(* becomes Indeterminate.                                                   *)
Recover(rec) ==
    IF ~Live(rec) THEN NoRecord
    ELSE IF rec.status = "Running" THEN [rec EXCEPT !.status = "Indeterminate"]
    ELSE rec

-----------------------------------------------------------------------------
(* submit *)

Goto(s, l) == pc' = [pc EXCEPT ![s] = l]

(* The call returns: the caller holds receipt r.                            *)
Answer(s, r) ==
    /\ Goto(s, "done")
    /\ receipt' = [receipt EXCEPT ![s] = r]

(* Closed engine.                                                           *)
SubmitClosed(s) ==
    /\ pc[s] = "idle" /\ closed
    /\ Answer(s, "Closed")
    /\ UNCHANGED <<cell, verdict, outcome, active, shared, queueVars, journalVars,
                   closed, started, dropped, trouble>>

(* Malformed, too old, too new, not authorised, unknown or disabled device: *)
(* refused before anything is registered (reject_unregistered).             *)
SubmitRefused(s) ==
    /\ pc[s] = "idle" /\ ~closed
    /\ Answer(s, "Rejected")
    /\ UNCHANGED <<cell, verdict, outcome, active, shared, queueVars, journalVars,
                   closed, started, dropped, trouble>>

(* The entry of the active map is taken or created before the journal.      *)
Register(s) ==
    /\ pc[s] = "idle" /\ ~closed
    /\ cell' = [cell EXCEPT ![s] = IF active = None THEN s ELSE active]
    /\ active' = IF active = None THEN s ELSE active
    /\ Goto(s, "insert")
    /\ UNCHANGED <<verdict, outcome, receipt, shared, queueVars, journalVars, closed,
                   started, dropped, trouble>>

(* Mutant of Decide: an insert that failed counts as done. *)
DecideDespiteError(s) ==
    IF ~Live(mem)
    THEN /\ JournalInsert(Payload[s]) \/ JournalInsertFails(Payload[s])
         /\ verdict' = [verdict EXCEPT ![s] = "Inserted"]
    ELSE /\ verdict' = [verdict EXCEPT ![s] =
                           IF mem.payload = Payload[s] THEN mem.status ELSE "Conflict"]
         /\ UNCHANGED <<journalVars, trouble>>

(* insert_record on the blocking pool; the submission learns the decision   *)
(* later.  A record that has expired counts for nothing and is replaced.    *)
(* For a Duplicate the verdict is the status of the record.                 *)
Decide(s) ==
    \/ /\ ~Live(mem)
       /\ JournalInsert(Payload[s])
       /\ verdict' = [verdict EXCEPT ![s] = "Inserted"]
    \/ /\ ~Live(mem)
       /\ JournalInsertFails(Payload[s])
       /\ verdict' = [verdict EXCEPT ![s] = "Err"]
    \/ /\ Live(mem)
       /\ verdict' = [verdict EXCEPT ![s] =
                         IF mem.payload = Payload[s] THEN mem.status ELSE "Conflict"]
       /\ UNCHANGED <<journalVars, trouble>>

InsertRecord(s) ==
    /\ pc[s] = "insert"
    /\ Decide(s)
    /\ Goto(s, "decided")
    /\ UNCHANGED <<cell, outcome, receipt, active, shared, queueVars, closed, started,
                   dropped>>

(* The insert failed: the owner of the active entry rejects through it,     *)
(* another submission answers for itself only.                              *)
OnInsertError(s) ==
    /\ pc[s] = "decided" /\ verdict[s] = "Err"
    /\ IF Fresh(s)
       THEN /\ Goto(s, "rejectSettle")
            /\ outcome' = [outcome EXCEPT ![s] = "Rejected"]
            /\ UNCHANGED receipt
       ELSE /\ Answer(s, "Rejected")
            /\ UNCHANGED outcome
    /\ UNCHANGED <<cell, verdict, active, shared, queueVars, journalVars, closed,
                   started, dropped, trouble>>

(* Duplicate with a result: the owner of the active entry takes it away.    *)
OnDuplicateSettled(s) ==
    /\ pc[s] = "decided" /\ verdict[s] \in Final
    /\ active' = IF Fresh(s) THEN None ELSE active
    /\ Answer(s, verdict[s])
    /\ UNCHANGED <<cell, verdict, outcome, shared, queueVars, journalVars, closed,
                   started, dropped, trouble>>

(* Duplicate of a running request: wait for the owner of the active entry.  *)
OnDuplicateRunning(s) ==
    /\ pc[s] = "decided" /\ verdict[s] = "Running" /\ ~Fresh(s)
    /\ Answer(s, "Pending")
    /\ UNCHANGED <<cell, verdict, outcome, active, shared, queueVars, journalVars,
                   closed, started, dropped, trouble>>

(* Mutant of OnDuplicateOrphaned: it waits for a result nobody writes. *)
OnDuplicateOrphanedWaits(s) ==
    /\ pc[s] = "decided" /\ verdict[s] = "Running" /\ Fresh(s)
    /\ Answer(s, "Pending")
    /\ UNCHANGED <<cell, verdict, outcome, active, shared, queueVars, journalVars,
                   closed, started, dropped, trouble>>

(* Duplicate of a running request that nobody runs: its settlement failed.  *)
(* The cell is written before the entry is removed.                         *)
OnDuplicateOrphaned(s) ==
    /\ pc[s] = "decided" /\ verdict[s] = "Running" /\ Fresh(s)
    /\ shared' = [shared EXCEPT ![cell[s]] = "Indeterminate"]
    /\ outcome' = [outcome EXCEPT ![s] = "Indeterminate"]
    /\ Goto(s, "forget")
    /\ UNCHANGED <<cell, verdict, receipt, active, queueVars, journalVars, closed,
                   started, dropped, trouble>>

ForgetOrphaned(s) ==
    /\ pc[s] = "forget"
    /\ active' = None
    /\ Answer(s, outcome[s])
    /\ UNCHANGED <<cell, verdict, outcome, shared, queueVars, journalVars, closed,
                   started, dropped, trouble>>

(* The active map after a Conflict. *)
AfterConflict(s) == IF Fresh(s) THEN None ELSE active

(* Another payload under the same key.                                      *)
OnConflict(s) ==
    /\ pc[s] = "decided" /\ verdict[s] = "Conflict"
    /\ active' = AfterConflict(s)
    /\ Answer(s, "Conflict")
    /\ UNCHANGED <<cell, verdict, outcome, shared, queueVars, journalVars, closed,
                   started, dropped, trouble>>

(* Mutant of MayLead: whoever wrote the record executes. *)
MayLeadAlways(s) == TRUE

(* Only the owner of the active entry may execute the record it inserted.   *)
MayLead(s) == Fresh(s)

OnInserted(s) ==
    /\ pc[s] = "decided" /\ verdict[s] = "Inserted"
    /\ IF MayLead(s)
       THEN /\ Goto(s, "enqueue")
            /\ UNCHANGED outcome
       ELSE /\ Goto(s, "orphanSettle")
            /\ outcome' = [outcome EXCEPT ![s] = "Rejected"]
    /\ UNCHANGED <<cell, verdict, receipt, active, shared, queueVars, journalVars,
                   closed, started, dropped, trouble>>

(* The record is settled with r; res is what may be told to the callers: a  *)
(* result that could not be written is Indeterminate.                       *)
SettleAs(r, res) ==
    \/ res = r /\ JournalSettle(r)
    \/ res = "Indeterminate" /\ JournalSettleFails(r)

(* reject_orphan_record.                                                    *)
RejectOrphanRecord(s) ==
    /\ pc[s] = "orphanSettle"
    /\ \E res \in Final : SettleAs(outcome[s], res) /\ Answer(s, res)
    /\ UNCHANGED <<cell, verdict, outcome, active, shared, queueVars, closed, started,
                   dropped>>

(* Validation, preconditions, cooldown or a full queue reject the leader.   *)
RejectBeforeQueue(s) ==
    /\ pc[s] = "enqueue"
    /\ outcome' = [outcome EXCEPT ![s] = "Rejected"]
    /\ Goto(s, "rejectSettle")
    /\ UNCHANGED <<cell, verdict, receipt, active, shared, queueVars, journalVars,
                   closed, started, dropped, trouble>>

(* reject_with_shared: settle, remove the active entry, write the cell.     *)
RejectSettle(s) ==
    /\ pc[s] = "rejectSettle"
    /\ \E res \in Final :
          /\ SettleAs(outcome[s], res)
          /\ outcome' = [outcome EXCEPT ![s] = res]
    /\ Goto(s, "rejectRemove")
    /\ UNCHANGED <<cell, verdict, receipt, active, shared, queueVars, closed, started,
                   dropped>>

RejectRemove(s) ==
    /\ pc[s] = "rejectRemove"
    /\ active' = None
    /\ Goto(s, "rejectSet")
    /\ UNCHANGED <<cell, verdict, outcome, receipt, shared, queueVars, journalVars,
                   closed, started, dropped, trouble>>

RejectSet(s) ==
    /\ pc[s] = "rejectSet"
    /\ shared' = [shared EXCEPT ![cell[s]] = outcome[s]]
    /\ Answer(s, outcome[s])
    /\ UNCHANGED <<cell, verdict, outcome, active, queueVars, journalVars, closed,
                   started, dropped, trouble>>

(* The entry is handed to the worker of the device.                         *)
Enqueue(s) ==
    /\ pc[s] = "enqueue" /\ ~closed
    /\ queue' = [queue EXCEPT ![s] = Entry("queued", Unset, "queue")]
    /\ Goto(s, "enqueued")
    /\ UNCHANGED <<cell, verdict, outcome, receipt, active, shared, stray, deaths, journalVars,
                   closed, started, dropped, trouble>>

(* A worker that was fast has written the cell already: tidy up again.      *)
Enqueued(s) ==
    /\ pc[s] = "enqueued"
    /\ active' = IF shared[cell[s]] # Unset THEN None ELSE active
    /\ Answer(s, "Pending")
    /\ UNCHANGED <<cell, verdict, outcome, shared, queueVars, journalVars, closed,
                   started, dropped, trouble>>

(* The engine closed in the meantime: Indeterminate, settled or not, then   *)
(* the entry is removed and the cell written.                               *)
EnqueueClosed(s) ==
    /\ pc[s] = "enqueue" /\ closed
    /\ JournalSettle("Indeterminate") \/ JournalSettleFails("Indeterminate")
    /\ outcome' = [outcome EXCEPT ![s] = "Indeterminate"]
    /\ Goto(s, "closedRemove")
    /\ UNCHANGED <<cell, verdict, receipt, active, shared, queueVars, closed, started,
                   dropped>>

ClosedRemove(s) ==
    /\ pc[s] = "closedRemove"
    /\ active' = None
    /\ Goto(s, "closedSet")
    /\ UNCHANGED <<cell, verdict, outcome, receipt, shared, queueVars, journalVars,
                   closed, started, dropped, trouble>>

ClosedSet(s) ==
    /\ pc[s] = "closedSet"
    /\ shared' = [shared EXCEPT ![cell[s]] = outcome[s]]
    /\ Answer(s, "Closed")
    /\ UNCHANGED <<cell, verdict, outcome, active, queueVars, journalVars, closed,
                   started, dropped, trouble>>

(* The caller goes away while the call waits: the rest of submit never runs.*)
Drop(s) ==
    /\ pc[s] \in {"insert", "decided", "enqueue", "rejectSettle", "rejectRemove",
                  "orphanSettle", "closedRemove"}
    /\ Trouble
    /\ dropped' = dropped \cup {s}
    /\ Goto(s, "gone")
    /\ UNCHANGED <<cell, verdict, outcome, receipt, active, shared, queueVars,
                   journalVars, closed, started>>

-----------------------------------------------------------------------------
(* The entry in the device queue *)

QueueStep(s, from, to) ==
    /\ queue[s].stage = from
    /\ queue' = [queue EXCEPT ![s] = to]

(* The executor is polled for the first time: the device may act.           *)
Start(s) ==
    /\ ~closed
    /\ QueueStep(s, "queued", Entry("started", Unset, "running"))
    /\ started' = started \cup {s}
    /\ UNCHANGED <<taskVars, active, shared, stray, journalVars, closed, dropped, deaths, trouble>>

(* Cancelled or expired in the queue, or drained by the shutdown, whose     *)
(* settle_abandoned does the same when the worker is gone.                  *)
GiveUp(s) ==
    /\ \E k \in {"draining"} \cup (IF closed THEN {"abandoned"} ELSE {}) :
          QueueStep(s, "queued", Entry("settle", "NotRun", k))
    /\ UNCHANGED <<taskVars, active, shared, stray, journalVars, closed, started, dropped,
                   deaths, trouble>>

(* The executor answers, or time-out or cancellation leave the result       *)
(* unknown.                                                                 *)
Finish(s) ==
    /\ \E r \in {"Done", "Indeterminate"} :
          QueueStep(s, "started", Entry("settle", r, "running"))
    /\ UNCHANGED <<taskVars, active, shared, stray, journalVars, closed, started, dropped,
                   deaths, trouble>>

(* settle_entry: the journal first.                                         *)
WorkerSettle(s) ==
    /\ \E res \in Final :
          /\ QueueStep(s, "settle", Entry("remove", res, queue[s].keeper))
          /\ SettleAs(queue[s].result, res)
    /\ UNCHANGED <<taskVars, active, shared, stray, closed, started, dropped, deaths>>

(* settle_abandoned out of time: the journal is left as it is, or as the    *)
(* write that took too long leaves it later.                                *)
WorkerSkipsJournal(s) ==
    /\ queue[s].keeper = "abandoned"
    /\ QueueStep(s, "settle", Entry("remove", queue[s].result, "abandoned"))
    /\ stray' \in {stray, stray \cup {queue[s].result}}
    /\ UNCHANGED <<taskVars, active, shared, journalVars, closed, started, dropped,
                   deaths, trouble>>

WorkerRemove(s) ==
    /\ QueueStep(s, "remove", [queue[s] EXCEPT !.stage = "set"])
    /\ active' = None
    /\ UNCHANGED <<taskVars, shared, stray, journalVars, closed, started, dropped, deaths,
                   trouble>>

(* The audit event is written before the reply: stage "set" is an await.    *)
WorkerSet(s) ==
    /\ QueueStep(s, "set", NoEntry)
    /\ shared' = [shared EXCEPT ![cell[s]] = queue[s].result]
    /\ UNCHANGED <<taskVars, active, stray, journalVars, closed, started, dropped, deaths,
                   trouble>>

(* What who finds the entry of a dead worker settles it with: the running   *)
(* one may have acted, an entry in draining is taken for one that did not.  *)
Inherited(keeper) == IF keeper = "running" THEN "Indeterminate" ELSE "NotRun"

(* The worker dies at one of its awaits (the executor, the journal, the     *)
(* audit sink) by a panic or by the forced abort.  The reply is not set, so *)
(* the next worker adopts the entry through draining, or settle_abandoned   *)
(* takes it, and all of settle_entry runs again.  A journal task that the   *)
(* dead worker waited for still runs and writes its result when it gets to. *)
Die(s) ==
    /\ queue[s].stage \in {"started", "settle", "remove", "set"}
    /\ queue[s].keeper # "abandoned"
    /\ Trouble
    /\ deaths' = deaths + 1
    /\ stray' \in {stray} \cup (IF queue[s].stage = "settle"
                                THEN {stray \cup {queue[s].result}} ELSE {})
    /\ \E k \in {"draining"} \cup (IF closed THEN {"abandoned"} ELSE {}) :
          queue' = [queue EXCEPT ![s] = Entry("settle", Inherited(queue[s].keeper), k)]
    /\ UNCHANGED <<taskVars, active, shared, journalVars, closed, started, dropped>>

(* Last writer wins.  Two tasks may hold the same result, so it may stay.   *)
StrayWrite(r) ==
    /\ r \in stray
    /\ JournalSettle(r) \/ JournalSettleFails(r)
    /\ stray' \in {stray, stray \ {r}}
    /\ UNCHANGED <<taskVars, active, shared, queue, closed, started, dropped, deaths>>

-----------------------------------------------------------------------------
(* shutdown: no submission, no entry and no start after it.                 *)
Shutdown ==
    /\ ~closed
    /\ closed' = TRUE
    /\ UNCHANGED <<taskVars, active, shared, queueVars, journalVars, started, dropped,
                   trouble>>

(* The process dies and is started again on the same journal file.          *)
Crash ==
    /\ Trouble
    /\ pc' = [s \in Submitters |-> IF pc[s] \in Ended THEN pc[s] ELSE "gone"]
    /\ receipt' = [s \in Submitters |-> IF Told(s) = Unset THEN "Lost" ELSE Told(s)]
    /\ active' = None
    /\ shared' = [s \in Submitters |-> Unset]
    /\ queue' = [s \in Submitters |-> NoEntry]
    /\ stray' = {}
    /\ mem' = Recover(disk)
    /\ closed' = FALSE
    /\ UNCHANGED <<cell, verdict, outcome, disk, started, dropped, deaths>>

(* The retention time of the record passes (at least 24 hours, ControlPolicy *)
(* ::validate), long after all that was under way has ended.  The promise   *)
(* for the request ends with it, and the key may be used for a new one: the *)
(* submissions are free again, except one that was dropped and has left its *)
(* active entry behind.                                                     *)
Expire ==
    /\ Live(mem) \/ Live(disk)
    /\ \A s \in Submitters : pc[s] \in Ended /\ queue[s].stage = "none"
    /\ stray = {}
    /\ Trouble
    /\ mem' = Expired(mem) /\ disk' = Expired(disk)
    /\ pc' = [s \in Submitters |-> IF s = active THEN "gone" ELSE "idle"]
    /\ cell' = [s \in Submitters |-> IF s = active THEN s ELSE None]
    /\ verdict' = [s \in Submitters |-> "None"]
    /\ outcome' = [s \in Submitters |-> Unset]
    /\ receipt' = [s \in Submitters |-> "None"]
    /\ shared' = [s \in Submitters |-> Unset]
    /\ started' = {} /\ deaths' = 0
    /\ dropped' = dropped \cap {active}
    /\ UNCHANGED <<active, queue, stray, closed>>

(* purge_expired, called by status: the compaction may fail.                *)
PurgeExpired ==
    /\ mem # NoRecord /\ ~Live(mem)
    /\ mem' = NoRecord
    /\ disk' \in {disk, NoRecord}
    /\ UNCHANGED <<taskVars, active, shared, queueVars, closed, started, dropped, trouble>>

Task(s) ==
    \/ InsertRecord(s)
    \/ OnInsertError(s) \/ OnDuplicateSettled(s) \/ OnDuplicateRunning(s)
    \/ OnDuplicateOrphaned(s) \/ ForgetOrphaned(s) \/ OnConflict(s) \/ OnInserted(s)
    \/ RejectOrphanRecord(s) \/ RejectBeforeQueue(s)
    \/ RejectSettle(s) \/ RejectRemove(s) \/ RejectSet(s)
    \/ Enqueue(s) \/ Enqueued(s) \/ EnqueueClosed(s) \/ ClosedRemove(s) \/ ClosedSet(s)

Worker(s) ==
    \/ Start(s) \/ GiveUp(s) \/ Finish(s)
    \/ WorkerSettle(s) \/ WorkerSkipsJournal(s) \/ WorkerRemove(s) \/ WorkerSet(s)

Next ==
    \/ \E s \in Submitters :
          \/ SubmitClosed(s) \/ SubmitRefused(s) \/ Register(s) \/ Drop(s)
          \/ Task(s)
          \/ Worker(s) \/ Die(s)
    \/ \E r \in Final : StrayWrite(r)
    \/ Shutdown \/ Crash \/ Expire \/ PurgeExpired

Spec == Init /\ [][Next]_vars

(* Tasks that can run are run by the runtime, and the queue settles what it *)
(* accepted: no endless stream of requests with a higher priority keeps the *)
(* worker busy (DeviceQueue).  Nobody has to submit, close or crash.        *)
LiveSpec == Spec /\ \A s \in Submitters : WF_vars(Task(s)) /\ WF_vars(Worker(s))

-----------------------------------------------------------------------------
(* Properties *)

TypeOK ==
    /\ pc \in [Submitters -> Ended \cup {"insert", "decided", "forget", "orphanSettle",
                 "enqueue", "enqueued", "rejectSettle", "rejectRemove", "rejectSet",
                 "closedRemove", "closedSet"}]
    /\ cell \in [Submitters -> Submitters \cup {None}]
    /\ verdict \in [Submitters -> Final \cup {"None", "Running", "Inserted", "Err", "Conflict"}]
    /\ outcome \in [Submitters -> Final \cup {Unset}]
    /\ receipt \in [Submitters -> Final \cup {"None", "Pending", "Lost", "Conflict", "Closed"}]
    /\ active \in Submitters \cup {None}
    /\ shared \in [Submitters -> Final \cup {Unset}]
    /\ queue \in [Submitters -> Entries]
    /\ stray \subseteq Final
    /\ mem \in Records /\ disk \in Records
    /\ closed \in BOOLEAN
    /\ started \subseteq Submitters /\ dropped \subseteq Submitters
    /\ deaths \in Nat /\ trouble \in 0 .. MaxTrouble

(* The device acts at most once for a key, whatever the order of concurrent *)
(* duplicates, journal failures, callers that leave and restarts, and never *)
(* without a record in the file that outlives a crash (submit: persist      *)
(* before dispatch; FileJournal::open: an unsettled record is not replayed).*)
AtMostOnce ==
    /\ Cardinality(started) <= 1
    /\ started # {} => disk # NoRecord

(* Nobody is told that a request was not executed when it was: not by the   *)
(* journal, not by a shared cell, not by a receipt (P1-7, P1-2, the         *)
(* IDEMPOTENCY_RACE branch of submit), also when a worker dies with the     *)
(* entry in hand.  The exception is the death of a second one: the entry    *)
(* was adopted into draining, whose entries count as never started          *)
(* (worker_loop, settle_abandoned).                                         *)
NeverDenied ==
    deaths < 2 =>
        /\ mem.status \in {"Rejected", "NotRun"} => started = {}
        /\ \A s \in Submitters :
              Told(s) \in {"Rejected", "NotRun"} =>
                  /\ s \notin started
                  /\ receipt[s] = "Pending" => cell[s] \notin started

(* Who was told that the device answered is told so for ever: the file says *)
(* the same, so every duplicate and every restart does (settle_entry: a     *)
(* result that could not be written is downgraded).  The exception: settle_ *)
(* entry of a dead worker is run again, over the result that the journal    *)
(* has and duplicates were told; after one death it is at worst unknown.    *)
DoneIsDurable ==
    \A s \in Submitters : Told(s) = "Done" =>
        /\ deaths = 0 => disk.status = "Done"
        /\ deaths = 1 => disk.status \in {"Done", "Indeterminate"}

(* The entry of the active map belongs to a submission or to a queue entry  *)
(* that is still under way and will remove it; else later duplicates would  *)
(* wait for nobody.  A submission dropped by its caller is the exception.   *)
ActiveOwned ==
    active # None =>
        \/ active \in dropped
        \/ pc[active] \notin Ended
        \/ queue[active].stage \in {"queued", "started", "settle", "remove"}

(* What a caller was told of a request stays true, as far as no worker died *)
(* with it in hand: neither denied though it ran, nor forgotten though the  *)
(* device answered, nor promised by an active entry that nobody will finish *)
(* (settle_entry, submit).                                                  *)
ToldTheTruth == NeverDenied /\ DoneIsDurable /\ ActiveOwned

(* A call of s, or the receipt it returned, is without an answer; excepted  *)
(* are receipts whose cell belongs to a submission that was dropped, or     *)
(* ended in Conflict (see ReceiptsAnswered), or died with the process.      *)
Waits(s) ==
    /\ pc[s] \notin {"idle", "gone"} /\ Told(s) \in {"None", Unset}
    /\ \A o \in Submitters : o = cell[s] => pc[o] # "gone" /\ receipt[o] # "Conflict"

(* No submission hangs, however many workers die under it: again and again  *)
(* there is a time at which the owner of the active entry and every         *)
(* duplicate that shares its cell have their answer (submit, SharedResult,  *)
(* settle_entry).                                                           *)
WaitsEnd == []<>(\A s \in Submitters : ~Waits(s))

(* Does not hold (README, Findings).                                        *)
(* A key that was answered keeps its answer: "same key and same payload:    *)
(* return the existing result" (the Duplicate branch of submit).  A second  *)
(* settlement after the death of a worker replaces it.                      *)
AnswerStands ==
    \A s \in Submitters : Told(s) = "Done" => disk.status = "Done"

(* Does not hold (README, Findings).                                        *)
(* "A wait on a receipt must not hang for ever because of a race": every    *)
(* pending receipt is answered (doc of SharedResult and the comment of the  *)
(* Conflict branch of submit).                                              *)
ReceiptsAnswered ==
    \A s \in Submitters : (receipt[s] = "Pending") ~> (Told(s) # Unset)
=============================================================================
