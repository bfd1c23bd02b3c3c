------------------------ MODULE ControlSubmitProofs ------------------------
(***************************************************************************)
(* Proofs about ControlSubmit, for every set of submissions of a key, every*)
(* assignment of payloads and every number of journal faults, deaths of a  *)
(* worker, callers that leave, restarts and expiries.                      *)
(***************************************************************************)
EXTENDS ControlSubmit, FiniteSetTheorems, TLAPS

(* The submission that wrote the record and owns the entry of the active map:
   the only one that may reach the device queue.                             *)
Leader(s) == verdict[s] = "Inserted" /\ Fresh(s)

OwnerPlaces == {"forget", "enqueue", "enqueued", "rejectSettle", "rejectRemove",
                "rejectSet", "closedRemove", "closedSet"}

(* What a submission holds at each place of submit. *)
Place(s) ==
    /\ pc[s] = "idle" => cell[s] = None
    /\ pc[s] \in {"idle", "insert"} => verdict[s] = "None"
    /\ pc[s] \notin Ended => cell[s] # None
    /\ receipt[s] # "None" => pc[s] = "done"
    /\ receipt[s] = "Pending" => cell[s] # None
    /\ pc[s] \in OwnerPlaces => Fresh(s)
    /\ pc[s] \in {"enqueue", "enqueued", "closedRemove", "closedSet"} => verdict[s] = "Inserted"
    /\ pc[s] = "orphanSettle" => verdict[s] = "Inserted" /\ ~Fresh(s)
    /\ pc[s] = "forget" => verdict[s] = "Running"
    /\ pc[s] \in {"rejectSettle", "rejectRemove", "rejectSet"} => verdict[s] \in {"Inserted", "Err"}
    /\ pc[s] \in {"orphanSettle", "rejectSettle"} => outcome[s] = "Rejected"
    /\ pc[s] \in {"rejectRemove", "rejectSet"} => outcome[s] \in {"Rejected", "Indeterminate"}
    /\ pc[s] \in {"forget", "closedRemove", "closedSet"} => outcome[s] = "Indeterminate"
PlaceInv == \A s \in Submitters : Place(s)

(* An execution that happened is still known: the file says that the device
   answered, or, after the death of one worker, at worst that nobody knows.  *)
Lasting ==
    /\ deaths = 0 => disk.status = "Done"
    /\ deaths = 1 => disk.status \in {"Done", "Indeterminate"}

(* Only the leader has an entry in the queue.  Until the death of its worker
   the result of what started is the executor's, and "Done" only as long as the
   file says so too; after it the result is unknown, and after two it may deny
   the execution.                                                            *)
EntryOK(s) ==
    /\ queue[s].stage # "none" =>
          /\ Leader(s) /\ pc[s] \in {"enqueued", "done"}
          /\ receipt[s] \in {"None", "Pending"} /\ shared[s] = Unset
    /\ queue[s].stage = "queued" => s \notin started
    /\ queue[s].stage = "started" => s \in started /\ queue[s].keeper = "running"
    /\ queue[s].stage \in {"settle", "remove", "set"} =>
          /\ queue[s].result \in {"NotRun", "Done", "Indeterminate"}
          /\ queue[s].keeper = "running" =>
                deaths = 0 /\ s \in started /\ queue[s].result # "NotRun"
          /\ queue[s].keeper # "running" =>
                queue[s].result # "Done" /\ (s \in started => deaths # 0)
          /\ queue[s].result = "NotRun" /\ deaths < 2 => s \notin started
    /\ queue[s].stage \in {"remove", "set"} /\ queue[s].result = "Done" => disk.status = "Done"
    /\ pc[s] = "enqueued" => queue[s].stage # "none" \/ shared[s] # Unset
QueueInv == \A s \in Submitters : EntryOK(s)

(* What started is the leader, past the queue. *)
StartedInv == \A s \in started : Leader(s) /\ pc[s] \in {"enqueued", "done", "gone"}

(* What cells, receipts and verdicts say is true. *)
SaidOK(s) ==
    /\ shared[s] # Unset => pc[s] \in {"forget", "enqueued", "done"}
    /\ shared[s] \in {"Rejected", "NotRun"} /\ deaths < 2 => s \notin started
    /\ receipt[s] \in {"Rejected", "NotRun"} /\ deaths < 2 => s \notin started
    /\ "Done" \in {shared[s], receipt[s], verdict[s]} => started # {} /\ Lasting
SaidInv == \A s \in Submitters : SaidOK(s)

(* The record: the file has a live one when memory has one, a key is inserted
   once while it is live, and neither copy denies the execution of what
   started.                                                                  *)
JournalInv ==
    /\ Live(mem) => Live(disk)
    /\ \A s \in Submitters : verdict[s] \notin {"None", "Err"} => Live(mem)
    /\ \A s, t \in Submitters : verdict[s] = "Inserted" /\ verdict[t] = "Inserted" => s = t
    /\ Live(mem) /\ mem.status = "Done" => started # {} /\ Lasting
    /\ Live(disk) /\ disk.status = "Done" => started # {}
    /\ {mem.status, disk.status} \cap {"Rejected", "NotRun"} # {} /\ deaths < 2 => started = {}

(* What the journal tasks of dead workers will still write: nothing that an
   answer contradicts before a worker died, and no denial before two did.    *)
StrayInv ==
    /\ stray # {} \/ deaths # 0 => Live(mem)
    /\ "Rejected" \notin stray
    /\ "Done" \in stray => started # {}
    /\ stray # {} /\ deaths = 0 => started = {}
    /\ "NotRun" \in stray /\ deaths < 2 => started = {}

(* The record of a leader runs until the leader or its entry settles it for the
   first time, and nobody else has anything to write.                        *)
LeadInv ==
    \A t \in Submitters :
        /\ Leader(t)
        /\ \/ pc[t] \in {"decided", "enqueue", "rejectSettle"}
           \/ queue[t].stage \in {"queued", "started"}
           \/ queue[t].stage = "settle" /\ deaths = 0
        => mem.status = "Running" /\ disk.status = "Running" /\ stray = {} /\ deaths = 0

(* Until there is a live record, who owns the active entry owns it alone; so no
   submission whose insert failed is left to reject the record of a leader.  *)
OwnInv ==
    /\ ~Live(mem) =>
          \A s \in Submitters :
             Fresh(s) /\ pc[s] \in {"insert", "decided", "rejectSettle", "rejectRemove"} => active = s
    /\ \A s, t \in Submitters :
          Leader(t) /\ verdict[s] = "Err" /\ Fresh(s) => pc[s] \notin {"decided", "rejectSettle"}

(* The active entry is named after the submission that made it, which leaves
   only after the entry is gone.                                             *)
ActiveInv ==
    /\ active # None => cell[active] = active
    /\ ActiveOwned
    /\ \A s \in Submitters : pc[s] \in {"rejectSet", "closedSet"} \/ queue[s].stage = "set" => active # s

IInv == /\ TypeOK /\ PlaceInv /\ QueueInv /\ StartedInv /\ SaidInv
        /\ JournalInv /\ StrayInv /\ LeadInv /\ OwnInv /\ ActiveInv

-----------------------------------------------------------------------------
(* The record *)

(* What settling and expiry make of a record. *)
LEMMA RecordFacts ==
  ASSUME NEW rec \in Records
  PROVE  /\ Live(rec) => rec # NoRecord
         /\ rec.status \in Final \cup {"Running", "None"}
         /\ rec # NoRecord => rec.status # "None"
         /\ Expired(rec) \in Records /\ ~Live(Expired(rec)) /\ Expired(rec).status = rec.status
         /\ \A r \in Final :
               /\ Settled(rec, r) \in Records
               /\ Live(Settled(rec, r)) <=> Live(rec)
               /\ rec # NoRecord => Settled(rec, r).status = r
               /\ rec = NoRecord => Settled(rec, r) = rec
         /\ Recover(rec) \in Records
         /\ Live(Recover(rec)) <=> Live(rec)
         /\ Recover(rec).status \in {rec.status, "Indeterminate", "None"}
<1>1. CASE rec = NoRecord
  BY <1>1 DEF NoRecord, Records, Live, Expired, Settled, Recover
<1>2. CASE rec # NoRecord
  <2>1. rec \in [payload : Payloads, status : Final \cup {"Running"}, age : {"live", "expired"}]
    BY <1>2 DEF Records
  <2>2. /\ rec = [payload |-> rec.payload, status |-> rec.status, age |-> rec.age]
        /\ rec.payload \in Payloads /\ rec.status \in Final \cup {"Running"}
        /\ rec.age \in {"live", "expired"}
    BY <2>1
  <2>3. \A r \in Final \cup {"Running"}, a \in {"live", "expired"} :
           [payload |-> rec.payload, status |-> r, age |-> a] \in Records
    BY <2>2 DEF Records
  <2>4. /\ Expired(rec) = [payload |-> rec.payload, status |-> rec.status, age |-> "expired"]
        /\ \A r \in Final : Settled(rec, r) = [payload |-> rec.payload, status |-> r, age |-> rec.age]
    BY <1>2, <2>2 DEF Expired, Settled
  <2>5. Recover(rec) \in {NoRecord, rec, [payload |-> rec.payload, status |-> "Indeterminate", age |-> rec.age]}
        /\ (Live(rec) => Recover(rec) # NoRecord)
        /\ (~Live(rec) => Recover(rec) = NoRecord)
    <3>1. [rec EXCEPT !.status = "Indeterminate"]
             = [payload |-> rec.payload, status |-> "Indeterminate", age |-> rec.age]
      BY <2>2
    <3> QED
      BY <1>2, <2>2, <3>1 DEF Recover, NoRecord, Live
  <2>6. NoRecord \in Records /\ NoRecord.status = "None" /\ ~Live(NoRecord)
    BY DEF NoRecord, Records, Live
  <2>7. "None" \notin Final \cup {"Running"}
    BY DEF Final
  <2>8. Recover(rec) \in Records /\ (Live(Recover(rec)) <=> Live(rec))
        /\ Recover(rec).status \in {rec.status, "Indeterminate", "None"}
    BY <2>2, <2>3, <2>5, <2>6 DEF Live, Final
  <2>9. Expired(rec) \in Records /\ ~Live(Expired(rec)) /\ Expired(rec).status = rec.status
    BY <2>2, <2>3, <2>4 DEF Live
  <2>10. \A r \in Final : /\ Settled(rec, r) \in Records /\ Settled(rec, r).status = r
                          /\ Live(Settled(rec, r)) <=> Live(rec)
    <3> SUFFICES ASSUME NEW r \in Final
                 PROVE  /\ Settled(rec, r) \in Records /\ Settled(rec, r).status = r
                        /\ Live(Settled(rec, r)) <=> Live(rec)
      OBVIOUS
    <3>1. Settled(rec, r) = [payload |-> rec.payload, status |-> r, age |-> rec.age]
      BY <2>4
    <3>2. [payload |-> rec.payload, status |-> r, age |-> rec.age] \in Records
      BY <2>2, <2>3
    <3> QED
      BY <3>1, <3>2 DEF Live
  <2> QED
    BY <1>2, <2>2, <2>6, <2>7, <2>8, <2>9, <2>10
<1> QED
  BY <1>1, <1>2

(* What settling the record with r does, whether or not the write fails. *)
SettledWith(r) ==
    /\ r \in Final /\ mem' \in Records /\ disk' \in Records /\ trouble' \in 0 .. MaxTrouble
    /\ Live(mem') <=> Live(mem)
    /\ Live(disk') <=> Live(disk)
    /\ mem'.status \in {mem.status, r} /\ disk'.status \in {disk.status, r}
    /\ Live(disk) /\ mem'.status # mem.status => disk'.status = r

(* Both ways to settle do that. *)
LEMMA SettleFacts ==
  ASSUME mem \in Records, disk \in Records, trouble \in 0 .. MaxTrouble,
         NEW r \in Final, JournalSettle(r) \/ JournalSettleFails(r)
  PROVE  /\ SettledWith(r)
         /\ JournalSettle(r) /\ Live(mem) /\ Live(disk) => disk'.status = r
<1> USE SubmitAssumption
<1>1. /\ Settled(mem, r) \in Records /\ (Live(Settled(mem, r)) <=> Live(mem))
      /\ mem # NoRecord => Settled(mem, r).status = r
      /\ Settled(disk, r) \in Records /\ (Live(Settled(disk, r)) <=> Live(disk))
      /\ disk # NoRecord => Settled(disk, r).status = r
      /\ disk = NoRecord => Settled(disk, r) = disk
      /\ Live(disk) => disk # NoRecord
      /\ Live(mem) => mem # NoRecord
  BY RecordFacts
<1>2. CASE JournalSettle(r)
  BY <1>1, <1>2 DEF JournalSettle, SettledWith, journalVars
<1>3. CASE JournalSettleFails(r) /\ ~JournalSettle(r)
  <2>1. UNCHANGED mem /\ disk' \in {disk, Settled(disk, r)} /\ trouble' \in 0 .. MaxTrouble
    BY <1>3 DEF JournalSettleFails, Trouble
  <2> QED
    BY <1>1, <1>3, <2>1 DEF SettledWith
<1> QED
  BY <1>2, <1>3

(* What insert_record tells a submission, and what it leaves behind. *)
Verdict(s, v) ==
    /\ verdict' = [verdict EXCEPT ![s] = v]
    /\ mem' \in Records /\ disk' \in Records /\ trouble' \in 0 .. MaxTrouble
    /\ \/ /\ v = "Inserted" /\ ~Live(mem) /\ Live(mem') /\ Live(disk')
          /\ mem'.status = "Running" /\ disk'.status = "Running"
       \/ /\ v = "Err" /\ ~Live(mem) /\ mem' = mem
          /\ disk' = disk \/ disk'.status = "Running"
       \/ /\ v \in Final \cup {"Running", "Conflict"} /\ Live(mem)
          /\ mem' = mem /\ disk' = disk
          /\ v \in {mem.status, "Conflict"}

(* Every decision is one of these. *)
LEMMA DecideFacts ==
  ASSUME TypeOK, NEW s \in Submitters, Decide(s)
  PROVE  \E v \in Final \cup {"Running", "Inserted", "Err", "Conflict"} : Verdict(s, v)
<1> USE SubmitAssumption
<1>1. /\ Record(Payload[s], "Running") \in Records /\ Record(Payload[s], "Running").status = "Running"
      /\ Live(Record(Payload[s], "Running"))
  <2>1. Payload[s] \in Payloads
    BY DEF Payloads
  <2> QED
    BY <2>1 DEF Record, Records, Live
<1>2. mem \in Records /\ disk \in Records /\ trouble \in 0 .. MaxTrouble
  BY DEF TypeOK
<1>3. Live(mem) => mem.status \in Final \cup {"Running"}
  BY <1>2, RecordFacts
<1>4. CASE ~Live(mem) /\ JournalInsert(Payload[s]) /\ verdict' = [verdict EXCEPT ![s] = "Inserted"]
  <2>1. Verdict(s, "Inserted")
    BY <1>1, <1>2, <1>4 DEF JournalInsert, Verdict
  <2> QED
    BY <2>1
<1>5. CASE ~Live(mem) /\ JournalInsertFails(Payload[s]) /\ verdict' = [verdict EXCEPT ![s] = "Err"]
  <2>1. Verdict(s, "Err")
    BY <1>1, <1>2, <1>5 DEF JournalInsertFails, Trouble, Verdict
  <2> QED
    BY <2>1
<1>6. ASSUME Live(mem), UNCHANGED <<journalVars, trouble>>,
             NEW v \in {mem.status, "Conflict"}, verdict' = [verdict EXCEPT ![s] = v]
      PROVE  Verdict(s, v) /\ v \in Final \cup {"Running", "Conflict"}
  BY <1>2, <1>3, <1>6 DEF Verdict, journalVars
<1> QED
  BY <1>4, <1>5, <1>6 DEF Decide

-----------------------------------------------------------------------------
(* Places *)

(* Every step keeps what a submission holds at its place. *)
LEMMA PlaceStep ==
  ASSUME IInv, [Next]_vars
  PROVE  PlaceInv'
<1> USE DEF Fresh, Ended, OwnerPlaces, Final, Unset, queueVars
<1>0. TypeOK /\ PlaceInv
  BY DEF IInv
<1>1. CASE UNCHANGED <<pc, cell, verdict, outcome, receipt>>
  BY <1>1 DEF IInv, PlaceInv, Place
<1>2. ASSUME NEW s \in Submitters, Start(s) \/ GiveUp(s) \/ Finish(s) \/ WorkerSettle(s) \/
             WorkerSkipsJournal(s) \/ WorkerRemove(s) \/ WorkerSet(s)
      PROVE  UNCHANGED <<pc, cell, verdict, outcome, receipt>>
  BY <1>2 DEF Start, GiveUp, Finish, WorkerSettle, WorkerSkipsJournal, WorkerRemove,
     WorkerSet, taskVars
<1>3. ASSUME NEW s \in Submitters, SubmitClosed(s) \/ SubmitRefused(s)
      PROVE  PlaceInv'
  BY <1>0, <1>3 DEF SubmitClosed, SubmitRefused, Goto, Answer, PlaceInv, Place, TypeOK
<1>4. ASSUME NEW s \in Submitters, Register(s)
      PROVE  PlaceInv'
  BY <1>0, <1>4, SubmitAssumption DEF Register, Goto, PlaceInv, Place, TypeOK
<1>5. ASSUME NEW s \in Submitters, Drop(s)
      PROVE  PlaceInv'
  BY <1>0, <1>5 DEF Drop, Goto, PlaceInv, Place, TypeOK
<1>6. ASSUME NEW s \in Submitters, InsertRecord(s)
      PROVE  PlaceInv'
  <2>1. PICK v \in Final \cup {"Running", "Inserted", "Err", "Conflict"} : Verdict(s, v)
    BY <1>0, <1>6, DecideFacts DEF InsertRecord
  <2> QED
    BY <1>0, <1>6, <2>1 DEF InsertRecord, Verdict, Goto, PlaceInv, Place, TypeOK
<1>7. ASSUME NEW s \in Submitters, OnInsertError(s)
      PROVE  PlaceInv'
  BY <1>0, <1>7 DEF OnInsertError, Goto, Answer, PlaceInv, Place, TypeOK
<1>8. ASSUME NEW s \in Submitters, OnDuplicateSettled(s) \/ OnDuplicateRunning(s) \/
             OnConflict(s)
      PROVE  PlaceInv'
  BY <1>0, <1>8 DEF OnDuplicateSettled, OnDuplicateRunning, OnConflict, Goto, Answer,
     PlaceInv, Place, TypeOK
<1>9. ASSUME NEW s \in Submitters, OnDuplicateOrphaned(s)
      PROVE  PlaceInv'
  BY <1>0, <1>9 DEF OnDuplicateOrphaned, Goto, PlaceInv, Place, TypeOK
<1>10. ASSUME NEW s \in Submitters, ForgetOrphaned(s) \/ Enqueued(s)
      PROVE  PlaceInv'
  BY <1>0, <1>10 DEF ForgetOrphaned, Enqueued, Goto, Answer, PlaceInv, Place, TypeOK
<1>11. ASSUME NEW s \in Submitters, OnInserted(s)
      PROVE  PlaceInv'
  BY <1>0, <1>11 DEF OnInserted, Goto, PlaceInv, Place, TypeOK, MayLead
<1>12. ASSUME NEW s \in Submitters, RejectOrphanRecord(s)
      PROVE  PlaceInv'
  BY <1>0, <1>12 DEF RejectOrphanRecord, Goto, Answer, PlaceInv, Place, TypeOK, SettleAs
<1>13. ASSUME NEW s \in Submitters, RejectBeforeQueue(s)
      PROVE  PlaceInv'
  BY <1>0, <1>13 DEF RejectBeforeQueue, Goto, PlaceInv, Place, TypeOK
<1>14. ASSUME NEW s \in Submitters, RejectSettle(s)
      PROVE  PlaceInv'
  BY <1>0, <1>14 DEF RejectSettle, Goto, PlaceInv, Place, TypeOK, SettleAs
<1>15. ASSUME NEW s \in Submitters, RejectRemove(s) \/ ClosedRemove(s)
      PROVE  PlaceInv'
  BY <1>0, <1>15 DEF RejectRemove, ClosedRemove, Goto, PlaceInv, Place, TypeOK
<1>16. ASSUME NEW s \in Submitters, RejectSet(s) \/ ClosedSet(s)
      PROVE  PlaceInv'
  BY <1>0, <1>16 DEF RejectSet, ClosedSet, Goto, Answer, PlaceInv, Place, TypeOK
<1>17. ASSUME NEW s \in Submitters, Enqueue(s)
      PROVE  PlaceInv'
  BY <1>0, <1>17 DEF Enqueue, Goto, PlaceInv, Place, TypeOK
<1>18. ASSUME NEW s \in Submitters, EnqueueClosed(s)
      PROVE  PlaceInv'
  BY <1>0, <1>18 DEF EnqueueClosed, Goto, PlaceInv, Place, TypeOK
<1>19. CASE Shutdown
  BY <1>1, <1>19 DEF Shutdown, taskVars
<1>20. CASE Crash
  BY <1>0, <1>20 DEF Crash, PlaceInv, Place, TypeOK, Told
<1>die. ASSUME NEW s \in Submitters, Die(s)
      PROVE  PlaceInv'
  BY <1>1, <1>die DEF Die, taskVars
<1>stray. ASSUME NEW r \in Final, StrayWrite(r)
      PROVE  PlaceInv'
  BY <1>1, <1>stray DEF StrayWrite, taskVars
<1>expire. CASE Expire
  BY <1>0, <1>expire, SubmitAssumption DEF Expire, PlaceInv, Place, TypeOK
<1>purge. CASE PurgeExpired
  BY <1>1, <1>purge DEF PurgeExpired, taskVars
<1>21. CASE UNCHANGED vars
  BY <1>1, <1>21 DEF vars
<1> QED
  BY <1>1, <1>2, <1>3, <1>4, <1>5, <1>6, <1>7, <1>8, <1>9, <1>10, <1>11, <1>12, <1>13,
     <1>14, <1>15, <1>16, <1>17, <1>18, <1>19, <1>20, <1>21,
     <1>die, <1>stray, <1>expire, <1>purge
     DEF Next, Task, Worker

(* Who settles is the leader, or there is none; outside the queue nothing has
   started.                                                                  *)
LEMMA SettlerAlone ==
  ASSUME IInv, NEW s \in Submitters,
         pc[s] \in {"orphanSettle", "rejectSettle", "enqueue"} \/ queue[s].stage = "settle"
  PROVE  /\ \A t \in Submitters : Leader(t) => t = s
         /\ queue[s].stage # "settle" => started = {}
         /\ started = {} \/ started = {s}
<1>1. \A t \in Submitters : Leader(t) => t = s
  <2>1. verdict[s] = "Inserted" \/ (verdict[s] = "Err" /\ Fresh(s) /\ pc[s] = "rejectSettle")
    BY DEF IInv, PlaceInv, Place, OwnerPlaces, QueueInv, EntryOK, Leader
  <2> QED
    BY <2>1 DEF IInv, JournalInv, OwnInv, Leader
<1>2. \A t \in started : t = s
  BY <1>1 DEF IInv, StartedInv, TypeOK
<1>3. queue[s].stage # "settle" => started = {}
  BY <1>2 DEF IInv, StartedInv
<1> QED
  BY <1>1, <1>2, <1>3

(* The record is settled with r, which contradicts no answer: it denies no
   execution unless two workers died, and replaces no answer of the executor
   unless one did.                                                           *)
SettleOK(r) ==
    /\ SettledWith(r)
    /\ r \in {"Rejected", "NotRun"} /\ deaths < 2 => started = {}
    /\ r = "Done" => started # {}
    /\ \/ started = {} \/ r = "Done" \/ deaths > 1
       \/ deaths = 1 /\ r = "Indeterminate"
       \/ deaths = 0 /\ disk.status # "Done"

(* The actions that settle do that. *)
LEMMA Settlements ==
  ASSUME IInv, NEW s \in Submitters
  PROVE  /\ RejectOrphanRecord(s) \/ RejectSettle(s) => SettleOK("Rejected") /\ started = {}
         /\ EnqueueClosed(s) => SettleOK("Indeterminate") /\ started = {}
         /\ WorkerSettle(s) => SettleOK(queue[s].result)
<1>0. mem \in Records /\ disk \in Records /\ trouble \in 0 .. MaxTrouble /\ deaths \in Nat
  BY DEF IInv, TypeOK
<1>1. ASSUME NEW r \in Final, JournalSettle(r) \/ JournalSettleFails(r)
      PROVE  SettledWith(r)
  BY <1>0, <1>1, SettleFacts
<1>2. ASSUME RejectOrphanRecord(s) \/ RejectSettle(s)
      PROVE  SettleOK("Rejected") /\ started = {}
  <2>1. outcome[s] = "Rejected" /\ pc[s] \in {"orphanSettle", "rejectSettle"} /\ queue[s].stage # "settle"
    BY <1>2 DEF IInv, PlaceInv, Place, RejectOrphanRecord, RejectSettle, QueueInv, EntryOK
  <2>2. started = {}
    BY <2>1, SettlerAlone
  <2>3. SettledWith("Rejected")
    BY <1>1, <1>2, <2>1 DEF RejectOrphanRecord, RejectSettle, SettleAs, Final
  <2> QED
    BY <2>2, <2>3 DEF SettleOK
<1>3. ASSUME EnqueueClosed(s)
      PROVE  SettleOK("Indeterminate") /\ started = {}
  <2>1. pc[s] = "enqueue" /\ queue[s].stage # "settle"
    BY <1>3 DEF IInv, EnqueueClosed, QueueInv, EntryOK
  <2>2. started = {}
    BY <2>1, SettlerAlone
  <2>3. SettledWith("Indeterminate")
    BY <1>1, <1>3 DEF EnqueueClosed, Final
  <2> QED
    BY <2>2, <2>3 DEF SettleOK
<1>4. ASSUME WorkerSettle(s)
      PROVE  SettleOK(queue[s].result)
  <2>1. queue[s].stage = "settle" /\ EntryOK(s)
    BY <1>4 DEF WorkerSettle, QueueStep, IInv, QueueInv
  <2>2. queue[s].result \in Final
    BY <2>1 DEF EntryOK, Final
  <2>3. SettledWith(queue[s].result)
    BY <1>1, <1>4, <2>2 DEF WorkerSettle, SettleAs
  <2>4. started = {} \/ started = {s}
    BY <2>1, SettlerAlone
  <2>5. deaths = 0 => disk.status = "Running"
    BY <2>1 DEF EntryOK, IInv, LeadInv
  <2> QED
    BY <1>0, <2>1, <2>3, <2>4, <2>5 DEF SettleOK, EntryOK
<1> QED
  BY <1>2, <1>3, <1>4

(* So does the late write of a task that nobody waits for. *)
LEMMA StraySettles ==
  ASSUME IInv, NEW r \in Final, StrayWrite(r)
  PROVE  SettleOK(r) /\ Live(mem)
<1>1. mem \in Records /\ disk \in Records /\ trouble \in 0 .. MaxTrouble /\ deaths \in Nat
  BY DEF IInv, TypeOK
<1>2. SettledWith(r) /\ r \in stray
  BY <1>1, SettleFacts DEF StrayWrite
<1>3. StrayInv
  BY DEF IInv
<1> QED
  BY <1>1, <1>2, <1>3 DEF SettleOK, StrayInv, Final

(* What was answered stays known when the record is settled so. *)
LEMMA LastingKept ==
  ASSUME TypeOK, NEW r, SettleOK(r), UNCHANGED <<deaths, started>>, started # {}, Lasting
  PROVE  Lasting'
BY DEF SettleOK, SettledWith, Lasting, TypeOK

(* Nothing has started while the key has no live record. *)
LEMMA NoRecordNoStart ==
  ASSUME IInv, ~Live(mem)
  PROVE  started = {} /\ stray = {} /\ deaths = 0 /\ \A t \in Submitters : ~Leader(t)
BY DEF IInv, TypeOK, StartedInv, StrayInv, JournalInv, Leader

-----------------------------------------------------------------------------
(* What started *)

(* Every step keeps who started. *)
LEMMA StartedStep ==
  ASSUME IInv, [Next]_vars
  PROVE  StartedInv'
<1> USE DEF Fresh, Ended, OwnerPlaces, Final, Unset, Leader, queueVars
<1>0. TypeOK /\ PlaceInv /\ StartedInv /\ QueueInv
  BY DEF IInv
<1>1. CASE UNCHANGED <<pc, cell, verdict, started>>
  BY <1>1 DEF IInv, StartedInv
<1>2. ASSUME NEW s \in Submitters, GiveUp(s) \/ Finish(s) \/ WorkerSettle(s) \/
             WorkerSkipsJournal(s) \/ WorkerRemove(s) \/ WorkerSet(s)
      PROVE  UNCHANGED <<pc, cell, verdict, started>>
  BY <1>2 DEF GiveUp, Finish, WorkerSettle, WorkerSkipsJournal, WorkerRemove, WorkerSet,
     taskVars
<1>3. ASSUME NEW s \in Submitters, SubmitClosed(s) \/ SubmitRefused(s)
      PROVE  StartedInv'
  BY <1>0, <1>3 DEF SubmitClosed, SubmitRefused, Goto, Answer, StartedInv, TypeOK, PlaceInv,
     Place
<1>4. ASSUME NEW s \in Submitters, Register(s)
      PROVE  StartedInv'
  BY <1>0, <1>4, SubmitAssumption DEF Register, Goto, StartedInv, TypeOK, PlaceInv, Place
<1>5. ASSUME NEW s \in Submitters, Drop(s)
      PROVE  StartedInv'
  BY <1>0, <1>5 DEF Drop, Goto, StartedInv, TypeOK, PlaceInv, Place
<1>6. ASSUME NEW s \in Submitters, InsertRecord(s)
      PROVE  StartedInv'
  <2>1. PICK v \in Final \cup {"Running", "Inserted", "Err", "Conflict"} : Verdict(s, v)
    BY <1>0, <1>6, DecideFacts DEF InsertRecord
  <2> QED
    BY <1>0, <1>6, <2>1 DEF InsertRecord, Verdict, Goto, PlaceInv, Place, TypeOK, StartedInv
<1>7. ASSUME NEW s \in Submitters, OnInsertError(s)
      PROVE  StartedInv'
  BY <1>0, <1>7 DEF OnInsertError, Goto, Answer, StartedInv, TypeOK, PlaceInv, Place
<1>8. ASSUME NEW s \in Submitters, OnDuplicateSettled(s) \/ OnDuplicateRunning(s) \/
             OnConflict(s)
      PROVE  StartedInv'
  BY <1>0, <1>8 DEF OnDuplicateSettled, OnDuplicateRunning, OnConflict, Goto, Answer,
     StartedInv, TypeOK, PlaceInv, Place
<1>9. ASSUME NEW s \in Submitters, OnDuplicateOrphaned(s)
      PROVE  StartedInv'
  BY <1>0, <1>9 DEF OnDuplicateOrphaned, Goto, StartedInv, TypeOK, PlaceInv, Place
<1>10. ASSUME NEW s \in Submitters, ForgetOrphaned(s) \/ Enqueued(s)
      PROVE  StartedInv'
  BY <1>0, <1>10 DEF ForgetOrphaned, Enqueued, Goto, Answer, StartedInv, TypeOK, PlaceInv,
     Place
<1>11. ASSUME NEW s \in Submitters, OnInserted(s)
      PROVE  StartedInv'
  BY <1>0, <1>11 DEF OnInserted, Goto, StartedInv, TypeOK, PlaceInv, Place
<1>12. ASSUME NEW s \in Submitters, RejectOrphanRecord(s)
      PROVE  StartedInv'
  BY <1>0, <1>12 DEF RejectOrphanRecord, Goto, Answer, StartedInv, TypeOK, PlaceInv, Place
<1>13. ASSUME NEW s \in Submitters, RejectBeforeQueue(s)
      PROVE  StartedInv'
  BY <1>0, <1>13 DEF RejectBeforeQueue, Goto, StartedInv, TypeOK, PlaceInv, Place
<1>14. ASSUME NEW s \in Submitters, RejectSettle(s)
      PROVE  StartedInv'
  BY <1>0, <1>14 DEF RejectSettle, Goto, StartedInv, TypeOK, PlaceInv, Place
<1>15. ASSUME NEW s \in Submitters, RejectRemove(s) \/ ClosedRemove(s)
      PROVE  StartedInv'
  BY <1>0, <1>15 DEF RejectRemove, ClosedRemove, Goto, StartedInv, TypeOK, PlaceInv, Place
<1>16. ASSUME NEW s \in Submitters, RejectSet(s) \/ ClosedSet(s)
      PROVE  StartedInv'
  BY <1>0, <1>16 DEF RejectSet, ClosedSet, Goto, Answer, StartedInv, TypeOK, PlaceInv, Place
<1>17. ASSUME NEW s \in Submitters, Enqueue(s)
      PROVE  StartedInv'
  BY <1>0, <1>17 DEF Enqueue, Goto, StartedInv, TypeOK, PlaceInv, Place
<1>18. ASSUME NEW s \in Submitters, EnqueueClosed(s)
      PROVE  StartedInv'
  BY <1>0, <1>18 DEF EnqueueClosed, Goto, StartedInv, TypeOK, PlaceInv, Place
<1>19. ASSUME NEW s \in Submitters, Start(s)
      PROVE  StartedInv'
  BY <1>0, <1>19 DEF Start, QueueStep, taskVars, StartedInv, TypeOK, QueueInv, EntryOK
<1>20. CASE Shutdown
  BY <1>1, <1>20 DEF Shutdown, taskVars
<1>21. CASE Crash
  BY <1>0, <1>21 DEF Crash, StartedInv, TypeOK
<1>die. ASSUME NEW s \in Submitters, Die(s)
      PROVE  StartedInv'
  BY <1>1, <1>die DEF Die, taskVars
<1>stray. ASSUME NEW r \in Final, StrayWrite(r)
      PROVE  StartedInv'
  BY <1>1, <1>stray DEF StrayWrite, taskVars
<1>expire. CASE Expire
  BY <1>expire DEF Expire, StartedInv
<1>purge. CASE PurgeExpired
  BY <1>1, <1>purge DEF PurgeExpired, taskVars
<1>22. CASE UNCHANGED vars
  BY <1>1, <1>22 DEF vars
<1> QED
  BY <1>1, <1>2, <1>3, <1>4, <1>5, <1>6, <1>7, <1>8, <1>9, <1>10, <1>11, <1>12, <1>13,
     <1>14, <1>15, <1>16, <1>17, <1>18, <1>19, <1>20, <1>21, <1>22,
     <1>die, <1>stray, <1>expire, <1>purge
     DEF Next, Task, Worker

-----------------------------------------------------------------------------
(* What is said *)

(* Every step keeps the truth of what cells, receipts and verdicts say. *)
LEMMA SaidStep ==
  ASSUME IInv, [Next]_vars
  PROVE  SaidInv'
<1> USE DEF Fresh, Ended, OwnerPlaces, Final, Unset, Leader, queueVars
<1>0. TypeOK /\ PlaceInv /\ SaidInv /\ QueueInv /\ StartedInv /\ JournalInv
  BY DEF IInv
<1>1. CASE UNCHANGED <<pc, verdict, receipt, shared, disk, started, deaths>>
  BY <1>1 DEF IInv, SaidInv, SaidOK, Lasting
<1>2. ASSUME NEW s \in Submitters, GiveUp(s) \/ Finish(s) \/ WorkerSkipsJournal(s) \/
             WorkerRemove(s)
      PROVE  UNCHANGED <<pc, verdict, receipt, shared, disk, started, deaths>>
  BY <1>2 DEF GiveUp, Finish, WorkerSkipsJournal, WorkerRemove, taskVars, journalVars
<1>3. ASSUME NEW s \in Submitters, SubmitClosed(s) \/ SubmitRefused(s)
      PROVE  SaidInv'
  BY <1>0, <1>3 DEF SubmitClosed, SubmitRefused, Goto, Answer, journalVars, SaidInv, SaidOK, Lasting,
     TypeOK, PlaceInv, Place, StartedInv
<1>4. ASSUME NEW s \in Submitters, Register(s)
      PROVE  SaidInv'
  BY <1>0, <1>4 DEF Register, Goto, journalVars, SaidInv, SaidOK, Lasting, TypeOK, PlaceInv, Place
<1>5. ASSUME NEW s \in Submitters, Drop(s)
      PROVE  SaidInv'
  BY <1>0, <1>5 DEF Drop, Goto, journalVars, SaidInv, SaidOK, Lasting, TypeOK, PlaceInv, Place
<1>6. ASSUME NEW s \in Submitters, InsertRecord(s)
      PROVE  SaidInv'
  <2>1. PICK v \in Final \cup {"Running", "Inserted", "Err", "Conflict"} : Verdict(s, v)
    BY <1>0, <1>6, DecideFacts DEF InsertRecord
  <2>2. ~Live(mem) => started = {}
    BY NoRecordNoStart
  <2>3. v = "Done" => started # {} /\ Lasting
    BY <1>0, <2>1 DEF Verdict, JournalInv
  <2>4. started # {} /\ Lasting => Lasting'
    BY <1>6, <2>1, <2>2 DEF Verdict, Lasting, InsertRecord
  <2> QED
    BY <1>0, <1>6, <2>1, <2>3, <2>4 DEF InsertRecord, Verdict, Goto, SaidInv, SaidOK, TypeOK
<1>7. ASSUME NEW s \in Submitters, OnInsertError(s)
      PROVE  SaidInv'
  BY <1>0, <1>7 DEF OnInsertError, Goto, Answer, journalVars, SaidInv, SaidOK, Lasting, TypeOK,
     PlaceInv, Place, StartedInv
<1>8. ASSUME NEW s \in Submitters, OnDuplicateSettled(s) \/ OnDuplicateRunning(s) \/
             OnConflict(s)
      PROVE  SaidInv'
  BY <1>0, <1>8 DEF OnDuplicateSettled, OnDuplicateRunning, OnConflict, Goto, Answer,
     journalVars, SaidInv, SaidOK, Lasting, TypeOK, PlaceInv, Place, StartedInv
<1>9. ASSUME NEW s \in Submitters, OnDuplicateOrphaned(s)
      PROVE  SaidInv'
  BY <1>0, <1>9 DEF OnDuplicateOrphaned, Goto, journalVars, SaidInv, SaidOK, Lasting, TypeOK,
     PlaceInv, Place, StartedInv
<1>10. ASSUME NEW s \in Submitters, ForgetOrphaned(s) \/ Enqueued(s)
      PROVE  SaidInv'
  BY <1>0, <1>10 DEF ForgetOrphaned, Enqueued, Goto, Answer, journalVars, SaidInv, SaidOK, Lasting,
     TypeOK, PlaceInv, Place
<1>11. ASSUME NEW s \in Submitters, OnInserted(s)
      PROVE  SaidInv'
  BY <1>0, <1>11 DEF OnInserted, Goto, journalVars, SaidInv, SaidOK, Lasting, TypeOK, PlaceInv, Place
<1>12. ASSUME NEW s \in Submitters, RejectOrphanRecord(s)
      PROVE  SaidInv'
  <2>1. started = {}
    BY <1>12, Settlements
  <2> QED
    BY <1>0, <1>12, <2>1 DEF RejectOrphanRecord, SettleAs, Answer, Goto, SaidInv, SaidOK, PlaceInv, Place, TypeOK
<1>13. ASSUME NEW s \in Submitters, RejectBeforeQueue(s)
      PROVE  SaidInv'
  BY <1>0, <1>13 DEF RejectBeforeQueue, Goto, journalVars, SaidInv, SaidOK, Lasting, TypeOK,
     PlaceInv, Place
<1>14. ASSUME NEW s \in Submitters, RejectSettle(s)
      PROVE  SaidInv'
  <2>1. started = {}
    BY <1>14, Settlements
  <2> QED
    BY <1>0, <1>14, <2>1 DEF RejectSettle, SettleAs, Answer, Goto, SaidInv, SaidOK, PlaceInv, Place, TypeOK
<1>15. ASSUME NEW s \in Submitters, RejectRemove(s) \/ ClosedRemove(s)
      PROVE  SaidInv'
  BY <1>0, <1>15 DEF RejectRemove, ClosedRemove, Goto, journalVars, SaidInv, SaidOK, Lasting, TypeOK,
     PlaceInv, Place
<1>16. ASSUME NEW s \in Submitters, RejectSet(s) \/ ClosedSet(s)
      PROVE  SaidInv'
  BY <1>0, <1>16 DEF RejectSet, ClosedSet, Goto, Answer, journalVars, SaidInv, SaidOK, Lasting,
     TypeOK, PlaceInv, Place, StartedInv
<1>17. ASSUME NEW s \in Submitters, Enqueue(s)
      PROVE  SaidInv'
  BY <1>0, <1>17 DEF Enqueue, Goto, journalVars, SaidInv, SaidOK, Lasting, TypeOK, PlaceInv, Place
<1>18. ASSUME NEW s \in Submitters, EnqueueClosed(s)
      PROVE  SaidInv'
  <2>1. started = {}
    BY <1>18, Settlements
  <2> QED
    BY <1>0, <1>18, <2>1 DEF EnqueueClosed, SettleAs, Answer, Goto, SaidInv, SaidOK, PlaceInv, Place, TypeOK
<1>19. ASSUME NEW s \in Submitters, Start(s)
      PROVE  SaidInv'
  BY <1>0, <1>19 DEF Start, QueueStep, taskVars, journalVars, SaidInv, SaidOK, Lasting, TypeOK,
     QueueInv, EntryOK, PlaceInv, Place
<1>20. ASSUME NEW s \in Submitters, WorkerSettle(s)
      PROVE  SaidInv'
  <2>1. UNCHANGED <<pc, verdict, receipt, shared, started, deaths>>
    BY <1>20 DEF WorkerSettle, taskVars
  <2>2. started # {} /\ Lasting => Lasting'
    <3>1. SettleOK(queue[s].result)
      BY <1>20, Settlements
    <3> QED
      BY <1>0, <2>1, <3>1, LastingKept
  <2> QED
    BY <1>0, <2>1, <2>2 DEF SaidInv, SaidOK
<1>21. ASSUME NEW s \in Submitters, WorkerSet(s)
      PROVE  SaidInv'
  BY <1>0, <1>21 DEF WorkerSet, QueueStep, taskVars, journalVars, SaidInv, SaidOK, Lasting, TypeOK,
     QueueInv, EntryOK, PlaceInv, Place
<1>22. CASE Shutdown
  BY <1>1, <1>22 DEF Shutdown, taskVars, journalVars
<1>23. CASE Crash
  <2>1. \A s \in Submitters : receipt[s] = "Pending" => cell[s] \in Submitters
    BY <1>0, SubmitAssumption DEF PlaceInv, Place, TypeOK
  <2> QED
    BY <1>0, <1>23, <2>1 DEF Crash, Told, SaidInv, SaidOK, Lasting, StartedInv, TypeOK, PlaceInv, Place
<1>die. ASSUME NEW s \in Submitters, Die(s)
      PROVE  SaidInv'
  <2>1. UNCHANGED <<pc, verdict, receipt, shared, started, disk>> /\ deaths' = deaths + 1 /\ deaths \in Nat
    BY <1>0, <1>die DEF Die, taskVars, journalVars, TypeOK
  <2> QED
    BY <1>0, <2>1 DEF SaidInv, SaidOK, Lasting
<1>stray. ASSUME NEW r \in Final, StrayWrite(r)
      PROVE  SaidInv'
  <2>1. UNCHANGED <<pc, verdict, receipt, shared, started, deaths>>
    BY <1>stray DEF StrayWrite, taskVars
  <2>2. started # {} /\ Lasting => Lasting'
    BY <1>0, <1>stray, <2>1, StraySettles, LastingKept
  <2> QED
    BY <1>0, <2>1, <2>2 DEF SaidInv, SaidOK
<1>expire. CASE Expire
  BY <1>0, <1>expire DEF Expire, SaidInv, SaidOK
<1>purge. CASE PurgeExpired
  <2>1. started = {} /\ UNCHANGED <<pc, verdict, receipt, shared, started, deaths>>
    BY <1>purge, NoRecordNoStart DEF PurgeExpired, taskVars
  <2> QED
    BY <1>0, <2>1 DEF SaidInv, SaidOK
<1>24. CASE UNCHANGED vars
  BY <1>1, <1>24 DEF vars
<1> QED
  BY <1>1, <1>2, <1>3, <1>4, <1>5, <1>6, <1>7, <1>8, <1>9, <1>10, <1>11, <1>12, <1>13,
     <1>14, <1>15, <1>16, <1>17, <1>18, <1>19, <1>20, <1>21, <1>22, <1>23, <1>24,
     <1>die, <1>stray, <1>expire, <1>purge
     DEF Next, Task, Worker

-----------------------------------------------------------------------------
(* The queue *)

(* Every step keeps what is known of the entries in the queue. *)
LEMMA QueueStepInv ==
  ASSUME IInv, [Next]_vars
  PROVE  QueueInv'
<1> USE DEF Fresh, Ended, OwnerPlaces, Final, Unset, Leader, queueVars
<1>0. TypeOK /\ PlaceInv /\ SaidInv /\ QueueInv /\ StartedInv /\ JournalInv
  BY DEF IInv
<1>1. CASE UNCHANGED <<pc, cell, verdict, receipt, shared, queue, disk, started, deaths>>
  BY <1>1 DEF IInv, QueueInv, EntryOK
<1>2. ASSUME NEW s \in Submitters, SubmitClosed(s) \/ SubmitRefused(s)
      PROVE  QueueInv'
  BY <1>0, <1>2 DEF SubmitClosed, SubmitRefused, Goto, Answer, journalVars, QueueInv,
     EntryOK, TypeOK, PlaceInv, Place
<1>3. ASSUME NEW s \in Submitters, Register(s)
      PROVE  QueueInv'
  BY <1>0, <1>3, SubmitAssumption DEF Register, Goto, journalVars, QueueInv, EntryOK,
     TypeOK, PlaceInv, Place
<1>4. ASSUME NEW s \in Submitters, Drop(s)
      PROVE  QueueInv'
  BY <1>0, <1>4 DEF Drop, Goto, journalVars, QueueInv, EntryOK, TypeOK, PlaceInv, Place
<1>5. ASSUME NEW s \in Submitters, InsertRecord(s)
      PROVE  QueueInv'
  <2>1. PICK v \in Final \cup {"Running", "Inserted", "Err", "Conflict"} : Verdict(s, v)
    BY <1>0, <1>5, DecideFacts DEF InsertRecord
  <2>2. ASSUME NEW t \in Submitters, queue[t].stage # "none"
        PROVE  t # s /\ disk' = disk /\ verdict'[t] = verdict[t]
    <3>1. Leader(t) /\ pc[t] # "insert"
      BY <1>0, <2>2 DEF QueueInv, EntryOK
    <3>2. Live(mem)
      BY <1>0, <3>1 DEF JournalInv
    <3> QED
      BY <1>0, <1>5, <2>1, <3>1, <3>2 DEF InsertRecord, Verdict, TypeOK
  <2>3. UNCHANGED <<cell, receipt, shared, queue, started, deaths>> /\ pc' = [pc EXCEPT ![s] = "decided"]
    BY <1>5 DEF InsertRecord, Goto
  <2> QED
    BY <1>0, <2>2, <2>3 DEF QueueInv, EntryOK, TypeOK, Entries
<1>6. ASSUME NEW s \in Submitters, OnInsertError(s)
      PROVE  QueueInv'
  BY <1>0, <1>6 DEF OnInsertError, Goto, Answer, journalVars, QueueInv, EntryOK, TypeOK,
     PlaceInv, Place
<1>7. ASSUME NEW s \in Submitters, OnDuplicateSettled(s) \/ OnDuplicateRunning(s) \/
             OnConflict(s)
      PROVE  QueueInv'
  BY <1>0, <1>7 DEF OnDuplicateSettled, OnDuplicateRunning, OnConflict, Goto, Answer,
     journalVars, QueueInv, EntryOK, TypeOK, PlaceInv, Place
<1>8. ASSUME NEW s \in Submitters, OnDuplicateOrphaned(s)
      PROVE  QueueInv'
  BY <1>0, <1>8 DEF OnDuplicateOrphaned, Goto, journalVars, QueueInv, EntryOK, TypeOK,
     PlaceInv, Place
<1>9. ASSUME NEW s \in Submitters, ForgetOrphaned(s) \/ Enqueued(s)
      PROVE  QueueInv'
  BY <1>0, <1>9 DEF ForgetOrphaned, Enqueued, Goto, Answer, journalVars, QueueInv, EntryOK,
     TypeOK, PlaceInv, Place
<1>10. ASSUME NEW s \in Submitters, OnInserted(s)
      PROVE  QueueInv'
  BY <1>0, <1>10 DEF OnInserted, Goto, journalVars, QueueInv, EntryOK, TypeOK, PlaceInv,
     Place
<1>11. ASSUME NEW s \in Submitters, RejectOrphanRecord(s)
      PROVE  QueueInv'
  <2>1. started = {}
    BY <1>11, Settlements
  <2> QED
    BY <1>0, <1>11, <2>1 DEF RejectOrphanRecord, Answer, Goto, QueueInv, EntryOK, TypeOK, PlaceInv, Place
<1>12. ASSUME NEW s \in Submitters, RejectBeforeQueue(s)
      PROVE  QueueInv'
  BY <1>0, <1>12 DEF RejectBeforeQueue, Goto, journalVars, QueueInv, EntryOK, TypeOK,
     PlaceInv, Place
<1>13. ASSUME NEW s \in Submitters, RejectSettle(s)
      PROVE  QueueInv'
  <2>1. started = {}
    BY <1>13, Settlements
  <2> QED
    BY <1>0, <1>13, <2>1 DEF RejectSettle, Answer, Goto, QueueInv, EntryOK, TypeOK, PlaceInv, Place
<1>14. ASSUME NEW s \in Submitters, RejectRemove(s) \/ ClosedRemove(s)
      PROVE  QueueInv'
  BY <1>0, <1>14 DEF RejectRemove, ClosedRemove, Goto, journalVars, QueueInv, EntryOK,
     TypeOK, PlaceInv, Place
<1>15. ASSUME NEW s \in Submitters, RejectSet(s) \/ ClosedSet(s)
      PROVE  QueueInv'
  BY <1>0, <1>15 DEF RejectSet, ClosedSet, Goto, Answer, journalVars, QueueInv, EntryOK,
     TypeOK, PlaceInv, Place
<1>16. ASSUME NEW s \in Submitters, Enqueue(s)
      PROVE  QueueInv'
  BY <1>0, <1>16 DEF Enqueue, Goto, journalVars, QueueInv, EntryOK, TypeOK, PlaceInv, Place,
     SaidInv, SaidOK, StartedInv, Entry, Entries
<1>17. ASSUME NEW s \in Submitters, EnqueueClosed(s)
      PROVE  QueueInv'
  <2>1. started = {}
    BY <1>17, Settlements
  <2> QED
    BY <1>0, <1>17, <2>1 DEF EnqueueClosed, Answer, Goto, QueueInv, EntryOK, TypeOK, PlaceInv, Place
<1>18. ASSUME NEW s \in Submitters, Start(s)
      PROVE  QueueInv'
  <2>1. \A t \in Submitters : queue[t].stage # "none" => t = s
    BY <1>0, <1>18 DEF Start, QueueStep, QueueInv, EntryOK, JournalInv
  <2> QED
    BY <1>0, <1>18, <2>1 DEF Start, QueueStep, taskVars, journalVars, QueueInv, EntryOK, TypeOK,
       Entry, Entries
<1>19. ASSUME NEW s \in Submitters, GiveUp(s)
      PROVE  QueueInv'
  BY <1>0, <1>19 DEF GiveUp, QueueStep, taskVars, journalVars, QueueInv, EntryOK, TypeOK,
     Entry, Entries
<1>20. ASSUME NEW s \in Submitters, Finish(s)
      PROVE  QueueInv'
  <2>1. deaths = 0
    BY <1>20 DEF Finish, QueueStep, IInv, LeadInv, QueueInv, EntryOK
  <2> QED
    BY <1>0, <1>20, <2>1 DEF Finish, QueueStep, taskVars, journalVars, QueueInv, EntryOK, TypeOK,
       Entry, Entries
<1>21. ASSUME NEW s \in Submitters, WorkerSettle(s)
      PROVE  QueueInv'
  <2>1. PICK res \in Final : /\ queue' = [queue EXCEPT ![s] = Entry("remove", res, queue[s].keeper)]
                             /\ SettleAs(queue[s].result, res)
    BY <1>21 DEF WorkerSettle, QueueStep
  <2>2. /\ EntryOK(s) /\ queue[s].stage = "settle"
        /\ mem \in Records /\ disk \in Records /\ trouble \in 0 .. MaxTrouble
    BY <1>0, <1>21 DEF WorkerSettle, QueueStep, QueueInv, TypeOK
  <2>3. Live(mem) /\ Live(disk)
    BY <1>0, <2>2 DEF EntryOK, JournalInv
  <2>4. res = "Done" => disk'.status = "Done"
    <3>1. ASSUME JournalSettle("Done") PROVE disk'.status = "Done"
      BY <2>2, <2>3, <3>1, SettleFacts
    <3> QED
      BY <2>1, <3>1 DEF SettleAs
  <2>5. res \in {queue[s].result, "Indeterminate"}
    BY <2>1 DEF SettleAs
  <2>6. UNCHANGED <<pc, cell, verdict, receipt, shared, started, deaths>>
    BY <1>21 DEF WorkerSettle, taskVars
  <2>7. ASSUME NEW t \in Submitters PROVE EntryOK(t)'
    <3>1. CASE t = s
      <4>1. queue'[s] = Entry("remove", res, queue[s].keeper)
        BY <1>0, <2>1 DEF TypeOK
      <4>2. queue'[s].stage = "remove" /\ queue'[s].result = res /\ queue'[s].keeper = queue[s].keeper
        BY <4>1 DEF Entry
      <4> QED
        BY <2>2, <2>4, <2>5, <2>6, <3>1, <4>2 DEF EntryOK
    <3>2. CASE t # s
      <4>1. queue'[t] = queue[t] /\ queue[t].stage = "none"
        <5>1. Leader(s) /\ EntryOK(t)
          BY <1>0, <2>2 DEF EntryOK, QueueInv
        <5>2. ~Leader(t)
          BY <1>0, <3>2, <5>1 DEF JournalInv
        <5> QED
          BY <1>0, <2>1, <3>2, <5>1, <5>2 DEF EntryOK, TypeOK, Entries
      <4> QED
        BY <1>0, <2>6, <4>1 DEF QueueInv, EntryOK
    <3> QED
      BY <3>1, <3>2
  <2> QED
    BY <2>7 DEF QueueInv
<1>22. ASSUME NEW s \in Submitters, WorkerSkipsJournal(s)
      PROVE  QueueInv'
  BY <1>0, <1>22 DEF WorkerSkipsJournal, QueueStep, taskVars, journalVars, QueueInv,
     EntryOK, TypeOK, PlaceInv, Place, Entry, Entries
<1>23. ASSUME NEW s \in Submitters, WorkerRemove(s)
      PROVE  QueueInv'
  BY <1>0, <1>23 DEF WorkerRemove, QueueStep, taskVars, journalVars, QueueInv, EntryOK,
     TypeOK, PlaceInv, Place, Entry, Entries
<1>24. ASSUME NEW s \in Submitters, WorkerSet(s)
      PROVE  QueueInv'
  BY <1>0, <1>24 DEF WorkerSet, QueueStep, taskVars, journalVars, QueueInv, EntryOK, TypeOK,
     PlaceInv, Place, NoEntry, Entries
<1>25. CASE Shutdown
  BY <1>1, <1>25 DEF Shutdown, taskVars, journalVars
<1>26. CASE Crash
  BY <1>0, <1>26 DEF Crash, NoEntry, QueueInv, EntryOK, TypeOK
<1>die. ASSUME NEW s \in Submitters, Die(s)
      PROVE  QueueInv'
  <2>1. /\ EntryOK(s) /\ queue[s].stage \in {"started", "settle", "remove", "set"}
        /\ queue[s].stage = "started" => queue[s].keeper = "running"
    BY <1>0, <1>die DEF Die, QueueInv, EntryOK
  <2>2. PICK k \in {"draining", "abandoned"} :
           queue' = [queue EXCEPT ![s] = Entry("settle", Inherited(queue[s].keeper), k)]
    BY <1>die DEF Die
  <2>3. /\ UNCHANGED <<pc, cell, verdict, receipt, shared, started, disk>>
        /\ deaths' = deaths + 1 /\ deaths \in Nat
    BY <1>0, <1>die DEF Die, taskVars, journalVars, TypeOK
  <2>4. ASSUME NEW t \in Submitters PROVE EntryOK(t)'
    <3>1. CASE t = s
      <4>1. queue'[s] = Entry("settle", Inherited(queue[s].keeper), k)
        BY <1>0, <2>2 DEF TypeOK
      <4>2. /\ queue'[s].stage = "settle" /\ queue'[s].keeper = k
            /\ queue'[s].result = Inherited(queue[s].keeper)
        BY <4>1 DEF Entry
      <4>3. queue[s].keeper # "running" /\ s \in started => deaths # 0
        BY <2>1 DEF EntryOK
      <4> QED
        BY <2>1, <2>3, <3>1, <4>2, <4>3 DEF EntryOK, Inherited
    <3>2. CASE t # s
      <4>1. queue'[t] = queue[t] /\ queue[t].stage = "none"
        <5>1. Leader(s) /\ EntryOK(t)
          BY <1>0, <2>1 DEF EntryOK, QueueInv
        <5>2. ~Leader(t)
          BY <1>0, <3>2, <5>1 DEF JournalInv
        <5> QED
          BY <1>0, <2>2, <3>2, <5>1, <5>2 DEF EntryOK, TypeOK, Entries
      <4> QED
        BY <1>0, <2>3, <4>1 DEF QueueInv, EntryOK
    <3> QED
      BY <3>1, <3>2
  <2> QED
    BY <2>4 DEF QueueInv
<1>stray. ASSUME NEW r \in Final, StrayWrite(r)
      PROVE  QueueInv'
  <2>1. UNCHANGED <<pc, cell, verdict, receipt, shared, queue, started, deaths>>
    BY <1>stray DEF StrayWrite, taskVars
  <2>2. deaths = 0 => started = {}
    BY <1>stray DEF StrayWrite, IInv, StrayInv
  <2> QED
    BY <1>0, <2>1, <2>2 DEF QueueInv, EntryOK
<1>expire. CASE Expire
  BY <1>0, <1>expire, SubmitAssumption DEF Expire, QueueInv, EntryOK, TypeOK
<1>purge. CASE PurgeExpired
  <2>1. started = {} /\ UNCHANGED <<pc, cell, verdict, receipt, shared, queue, started, deaths>>
    BY <1>purge, NoRecordNoStart DEF PurgeExpired, taskVars
  <2> QED
    BY <1>0, <2>1 DEF QueueInv, EntryOK
<1>27. CASE UNCHANGED vars
  BY <1>1, <1>27 DEF vars
<1> QED
  BY <1>1, <1>2, <1>3, <1>4, <1>5, <1>6, <1>7, <1>8, <1>9, <1>10, <1>11, <1>12, <1>13,
     <1>14, <1>15, <1>16, <1>17, <1>18, <1>19, <1>20, <1>21, <1>22, <1>23, <1>24, <1>25,
     <1>26, <1>27,
     <1>die, <1>stray, <1>expire, <1>purge
     DEF Next, Task, Worker

-----------------------------------------------------------------------------
(* The active map *)

(* Every step keeps the owner of the active entry. *)
LEMMA ActiveStep ==
  ASSUME IInv, [Next]_vars
  PROVE  ActiveInv'
<1> USE DEF Fresh, Ended, OwnerPlaces, Final, Unset, Leader, queueVars
<1>0. TypeOK /\ PlaceInv /\ QueueInv /\ ActiveInv
  BY DEF IInv
<1>1. CASE UNCHANGED <<pc, cell, active, queue, dropped>>
  BY <1>1 DEF IInv, ActiveInv, ActiveOwned
<1>2. ASSUME NEW s \in Submitters, SubmitClosed(s) \/ SubmitRefused(s)
      PROVE  ActiveInv'
  BY <1>0, <1>2, SubmitAssumption DEF SubmitClosed, SubmitRefused, Goto, Answer, ActiveInv,
     ActiveOwned, TypeOK, PlaceInv, Place
<1>3. ASSUME NEW s \in Submitters, Register(s)
      PROVE  ActiveInv'
  BY <1>0, <1>3, SubmitAssumption DEF Register, Goto, ActiveInv, ActiveOwned, TypeOK,
     PlaceInv, Place, QueueInv, EntryOK
<1>4. ASSUME NEW s \in Submitters, Drop(s)
      PROVE  ActiveInv'
  BY <1>0, <1>4, SubmitAssumption DEF Drop, Goto, ActiveInv, ActiveOwned, TypeOK, PlaceInv,
     Place
<1>5. ASSUME NEW s \in Submitters, InsertRecord(s)
      PROVE  ActiveInv'
  BY <1>0, <1>5, SubmitAssumption DEF InsertRecord, Goto, ActiveInv, ActiveOwned, TypeOK,
     PlaceInv, Place
<1>6. ASSUME NEW s \in Submitters, OnInsertError(s)
      PROVE  ActiveInv'
  BY <1>0, <1>6, SubmitAssumption DEF OnInsertError, Goto, Answer, ActiveInv, ActiveOwned,
     TypeOK, PlaceInv, Place
<1>7. ASSUME NEW s \in Submitters, OnDuplicateSettled(s) \/ OnDuplicateRunning(s) \/
             OnConflict(s)
      PROVE  ActiveInv'
  BY <1>0, <1>7, SubmitAssumption DEF OnDuplicateSettled, OnDuplicateRunning, OnConflict,
     Goto, Answer, ActiveInv, ActiveOwned, TypeOK, PlaceInv, Place, AfterConflict
<1>8. ASSUME NEW s \in Submitters, OnDuplicateOrphaned(s)
      PROVE  ActiveInv'
  BY <1>0, <1>8, SubmitAssumption DEF OnDuplicateOrphaned, Goto, ActiveInv, ActiveOwned,
     TypeOK, PlaceInv, Place
<1>9. ASSUME NEW s \in Submitters, ForgetOrphaned(s) \/ Enqueued(s)
      PROVE  ActiveInv'
  BY <1>0, <1>9, SubmitAssumption DEF ForgetOrphaned, Enqueued, Goto, Answer, ActiveInv,
     ActiveOwned, TypeOK, PlaceInv, Place, QueueInv, EntryOK, Entries
<1>10. ASSUME NEW s \in Submitters, OnInserted(s)
      PROVE  ActiveInv'
  BY <1>0, <1>10, SubmitAssumption DEF OnInserted, Goto, ActiveInv, ActiveOwned, TypeOK,
     PlaceInv, Place, MayLead
<1>11. ASSUME NEW s \in Submitters, RejectOrphanRecord(s)
      PROVE  ActiveInv'
  BY <1>0, <1>11, SubmitAssumption DEF RejectOrphanRecord, Goto, Answer, ActiveInv,
     ActiveOwned, TypeOK, PlaceInv, Place
<1>12. ASSUME NEW s \in Submitters, RejectBeforeQueue(s)
      PROVE  ActiveInv'
  BY <1>0, <1>12, SubmitAssumption DEF RejectBeforeQueue, Goto, ActiveInv, ActiveOwned,
     TypeOK, PlaceInv, Place
<1>13. ASSUME NEW s \in Submitters, RejectSettle(s)
      PROVE  ActiveInv'
  BY <1>0, <1>13, SubmitAssumption DEF RejectSettle, Goto, ActiveInv, ActiveOwned, TypeOK,
     PlaceInv, Place
<1>14. ASSUME NEW s \in Submitters, RejectRemove(s) \/ ClosedRemove(s)
      PROVE  ActiveInv'
  BY <1>0, <1>14, SubmitAssumption DEF RejectRemove, ClosedRemove, Goto, ActiveInv,
     ActiveOwned, TypeOK, PlaceInv, Place
<1>15. ASSUME NEW s \in Submitters, RejectSet(s) \/ ClosedSet(s)
      PROVE  ActiveInv'
  BY <1>0, <1>15, SubmitAssumption DEF RejectSet, ClosedSet, Goto, Answer, ActiveInv,
     ActiveOwned, TypeOK, PlaceInv, Place
<1>16. ASSUME NEW s \in Submitters, Enqueue(s)
      PROVE  ActiveInv'
  BY <1>0, <1>16, SubmitAssumption DEF Enqueue, Goto, ActiveInv, ActiveOwned, TypeOK,
     PlaceInv, Place, Entry
<1>17. ASSUME NEW s \in Submitters, EnqueueClosed(s)
      PROVE  ActiveInv'
  BY <1>0, <1>17, SubmitAssumption DEF EnqueueClosed, Goto, ActiveInv, ActiveOwned, TypeOK,
     PlaceInv, Place
<1>18. ASSUME NEW s \in Submitters, Start(s)
      PROVE  ActiveInv'
  BY <1>0, <1>18, SubmitAssumption DEF Start, QueueStep, taskVars, ActiveInv, ActiveOwned,
     TypeOK, PlaceInv, Place, Entry
<1>19. ASSUME NEW s \in Submitters, GiveUp(s)
      PROVE  ActiveInv'
  BY <1>0, <1>19, SubmitAssumption DEF GiveUp, QueueStep, taskVars, ActiveInv, ActiveOwned,
     TypeOK, PlaceInv, Place, Entry
<1>20. ASSUME NEW s \in Submitters, Finish(s)
      PROVE  ActiveInv'
  BY <1>0, <1>20, SubmitAssumption DEF Finish, QueueStep, taskVars, ActiveInv, ActiveOwned,
     TypeOK, PlaceInv, Place, Entry
<1>21. ASSUME NEW s \in Submitters, WorkerSettle(s)
      PROVE  ActiveInv'
  BY <1>0, <1>21, SubmitAssumption DEF WorkerSettle, QueueStep, taskVars, ActiveInv,
     ActiveOwned, TypeOK, PlaceInv, Place, Entry
<1>22. ASSUME NEW s \in Submitters, WorkerSkipsJournal(s)
      PROVE  ActiveInv'
  BY <1>0, <1>22, SubmitAssumption DEF WorkerSkipsJournal, QueueStep, taskVars, ActiveInv,
     ActiveOwned, TypeOK, PlaceInv, Place, Entry
<1>23. ASSUME NEW s \in Submitters, WorkerRemove(s)
      PROVE  ActiveInv'
  BY <1>0, <1>23, SubmitAssumption DEF WorkerRemove, QueueStep, taskVars, ActiveInv,
     ActiveOwned, TypeOK, PlaceInv, Place, Entry
<1>24. ASSUME NEW s \in Submitters, WorkerSet(s)
      PROVE  ActiveInv'
  BY <1>0, <1>24, SubmitAssumption DEF WorkerSet, QueueStep, taskVars, ActiveInv,
     ActiveOwned, TypeOK, PlaceInv, Place, NoEntry
<1>25. CASE Shutdown
  BY <1>1, <1>25 DEF Shutdown, taskVars
<1>26. CASE Crash
  BY <1>0, <1>26, SubmitAssumption DEF Crash, NoEntry, ActiveInv, ActiveOwned, TypeOK
<1>die. ASSUME NEW s \in Submitters, Die(s)
      PROVE  ActiveInv'
  <2>1. UNCHANGED <<pc, cell, active, dropped>>
    BY <1>die DEF Die, taskVars
  <2>2. PICK k \in {"draining", "abandoned"} :
           queue' = [queue EXCEPT ![s] = Entry("settle", Inherited(queue[s].keeper), k)]
    BY <1>die DEF Die
  <2>3. \A t \in Submitters : queue'[t].stage = (IF t = s THEN "settle" ELSE queue[t].stage)
    BY <1>0, <2>2 DEF TypeOK, Entry
  <2> QED
    BY <1>0, <2>1, <2>3, SubmitAssumption DEF ActiveInv, ActiveOwned, TypeOK
<1>stray. ASSUME NEW r \in Final, StrayWrite(r)
      PROVE  ActiveInv'
  BY <1>1, <1>stray DEF StrayWrite, taskVars
<1>expire. CASE Expire
  BY <1>0, <1>expire, SubmitAssumption DEF Expire, ActiveInv, ActiveOwned, TypeOK
<1>purge. CASE PurgeExpired
  BY <1>1, <1>purge DEF PurgeExpired, taskVars
<1>27. CASE UNCHANGED vars
  BY <1>1, <1>27 DEF vars
<1> QED
  BY <1>1, <1>2, <1>3, <1>4, <1>5, <1>6, <1>7, <1>8, <1>9, <1>10, <1>11, <1>12, <1>13,
     <1>14, <1>15, <1>16, <1>17, <1>18, <1>19, <1>20, <1>21, <1>22, <1>23, <1>24, <1>25,
     <1>26, <1>27,
     <1>die, <1>stray, <1>expire, <1>purge
     DEF Next, Task, Worker

-----------------------------------------------------------------------------
(* The record, its leader and the owner *)

(* Settling keeps the facts about the record, given who settles. *)
LEMMA SettleJournal ==
  ASSUME IInv, NEW r, SettleOK(r), UNCHANGED <<verdict, started, deaths>>
  PROVE  JournalInv'
<1>0. JournalInv /\ TypeOK /\ SettledWith(r)
  BY DEF IInv, SettleOK
<1>1. (Live(mem) => Live(disk))' /\ (\A s \in Submitters : verdict[s] \notin {"None", "Err"} => Live(mem))'
  BY <1>0 DEF JournalInv, SettledWith, Live
<1>2. (\A s, t \in Submitters : verdict[s] = "Inserted" /\ verdict[t] = "Inserted" => s = t)'
  BY <1>0 DEF JournalInv
<1>3. ASSUME Live(mem'), mem'.status = "Done"
      PROVE  started # {} /\ Lasting'
  <2>1. Live(mem) /\ Live(disk)
    BY <1>0, <1>3 DEF SettledWith, JournalInv
  <2>2. CASE mem.status = "Done"
    BY <1>0, <2>1, <2>2, LastingKept DEF JournalInv
  <2>3. CASE mem.status # "Done"
    <3>1. r = "Done" /\ disk'.status = "Done"
      BY <1>0, <1>3, <2>1, <2>3 DEF SettledWith
    <3> QED
      BY <3>1 DEF SettleOK, Lasting
  <2> QED
    BY <2>2, <2>3
<1>4. (Live(disk) /\ disk.status = "Done" => started # {})'
  <2>1. Live(disk') /\ disk'.status = "Done" => started # {}
    BY <1>0 DEF JournalInv, SettledWith, SettleOK
  <2> QED
    BY <2>1 DEF Live
<1>5. ({mem.status, disk.status} \cap {"Rejected", "NotRun"} # {} /\ deaths < 2 => started = {})'
  BY <1>0 DEF JournalInv, SettledWith, SettleOK
<1>6. (Live(mem) /\ mem.status = "Done" => started # {} /\ Lasting)'
  BY <1>3 DEF Live
<1> QED
  BY <1>1, <1>2, <1>4, <1>5, <1>6 DEF JournalInv

(* Every step keeps the facts about the record. *)
LEMMA JournalStep ==
  ASSUME IInv, [Next]_vars
  PROVE  JournalInv'
<1> USE DEF Fresh, Ended, OwnerPlaces, Final, Unset, Leader, queueVars
<1>0. TypeOK /\ PlaceInv /\ QueueInv /\ StartedInv /\ JournalInv /\ LeadInv
  BY DEF IInv
<1>1. CASE UNCHANGED <<verdict, mem, disk, started, deaths>>
  BY <1>1 DEF IInv, JournalInv, Lasting, Live
<1>2. ASSUME NEW s \in Submitters, SubmitClosed(s) \/ SubmitRefused(s) \/ Register(s) \/ Drop(s) \/
             OnInsertError(s) \/ OnDuplicateSettled(s) \/ OnDuplicateRunning(s) \/
             OnDuplicateOrphaned(s) \/ ForgetOrphaned(s) \/ OnConflict(s) \/ OnInserted(s)
             \/ RejectBeforeQueue(s) \/ RejectRemove(s) \/ RejectSet(s) \/ Enqueue(s) \/
             Enqueued(s) \/ ClosedRemove(s) \/ ClosedSet(s) \/ GiveUp(s) \/ Finish(s) \/
             WorkerSkipsJournal(s) \/ WorkerRemove(s) \/ WorkerSet(s)
      PROVE  UNCHANGED <<verdict, mem, disk, started, deaths>>
  BY <1>2 DEF SubmitClosed, SubmitRefused, Register, Drop, OnInsertError, OnDuplicateSettled,
     OnDuplicateRunning, OnDuplicateOrphaned, ForgetOrphaned, OnConflict, OnInserted,
     RejectBeforeQueue, RejectRemove, RejectSet, Enqueue, Enqueued, ClosedRemove, ClosedSet,
     GiveUp, Finish, WorkerSkipsJournal, WorkerRemove, WorkerSet, taskVars, journalVars
<1>3. ASSUME NEW s \in Submitters, InsertRecord(s)
      PROVE  JournalInv'
  <2>1. PICK v \in Final \cup {"Running", "Inserted", "Err", "Conflict"} : Verdict(s, v)
    BY <1>0, <1>3, DecideFacts DEF InsertRecord
  <2>2. verdict[s] = "None" /\ UNCHANGED <<started, deaths>>
    BY <1>0, <1>3 DEF InsertRecord, PlaceInv, Place
  <2>3. ~Live(mem) => started = {} /\ deaths = 0
    BY NoRecordNoStart
  <2>4. CASE v = "Inserted" /\ ~Live(mem) /\ Live(mem') /\ Live(disk')
             /\ mem'.status = "Running" /\ disk'.status = "Running"
    <3>1. \A t \in Submitters : verdict[t] \in {"None", "Err"}
      BY <1>0, <2>4 DEF JournalInv
    <3>2. \A t \in Submitters : verdict'[t] = "Inserted" => t = s
      BY <1>0, <2>1, <3>1 DEF Verdict, TypeOK
    <3> QED
      BY <2>4, <3>2 DEF JournalInv, Live
  <2>5. CASE v = "Err" /\ ~Live(mem) /\ mem' = mem /\ (disk' = disk \/ disk'.status = "Running")
    <3>1. \A t \in Submitters : verdict'[t] \in {"None", "Err"}
      BY <1>0, <2>1, <2>5 DEF Verdict, TypeOK, JournalInv
    <3>2. ~Live(mem') /\ (disk'.status = "Done" => disk' = disk)
      BY <2>5
    <3> QED
      BY <1>0, <2>2, <2>3, <2>5, <3>1, <3>2 DEF JournalInv, Live
  <2>6. CASE v \in Final \cup {"Running", "Conflict"} /\ Live(mem) /\ mem' = mem /\ disk' = disk
    <3>1. \A t \in Submitters : verdict'[t] = "Inserted" => verdict[t] = "Inserted"
      BY <1>0, <2>1, <2>6 DEF Verdict, TypeOK
    <3> QED
      BY <1>0, <2>2, <2>6, <3>1 DEF JournalInv, Live, Lasting
  <2> QED
    BY <2>1, <2>4, <2>5, <2>6 DEF Verdict
<1>4. ASSUME NEW s \in Submitters, RejectOrphanRecord(s) \/ RejectSettle(s)
      PROVE  JournalInv'
  <2>1. SettleOK("Rejected") /\ UNCHANGED <<verdict, started, deaths>>
    BY <1>4, Settlements DEF RejectOrphanRecord, RejectSettle
  <2> QED
    BY <2>1, SettleJournal
<1>5. ASSUME NEW s \in Submitters, EnqueueClosed(s)
      PROVE  JournalInv'
  <2>1. SettleOK("Indeterminate") /\ UNCHANGED <<verdict, started, deaths>>
    BY <1>5, Settlements DEF EnqueueClosed
  <2> QED
    BY <2>1, SettleJournal
<1>6. ASSUME NEW s \in Submitters, Start(s)
      PROVE  JournalInv'
  <2>1. mem.status = "Running" /\ disk.status = "Running"
    BY <1>0, <1>6 DEF Start, QueueStep, QueueInv, EntryOK, LeadInv
  <2> QED
    BY <1>0, <1>6, <2>1 DEF Start, taskVars, journalVars, JournalInv, Live
<1>7. ASSUME NEW s \in Submitters, WorkerSettle(s)
      PROVE  JournalInv'
  <2>1. SettleOK(queue[s].result) /\ UNCHANGED <<verdict, started, deaths>>
    BY <1>7, Settlements DEF WorkerSettle, taskVars
  <2> QED
    BY <2>1, SettleJournal
<1>8. CASE Shutdown
  BY <1>1, <1>8 DEF Shutdown, taskVars, journalVars
<1>9. CASE Crash
  <2>1. disk \in Records /\ mem' = Recover(disk) /\ UNCHANGED <<disk, verdict, started, deaths>>
    BY <1>0, <1>9 DEF Crash, TypeOK
  <2>2. /\ mem'.status \in {disk.status, "Indeterminate", "None"}
        /\ Live(mem') <=> Live(disk)
    BY <2>1, RecordFacts
  <2> QED
    BY <1>0, <2>1, <2>2 DEF JournalInv, Live, Lasting
<1>die. ASSUME NEW s \in Submitters, Die(s)
      PROVE  JournalInv'
  <2>1. UNCHANGED <<verdict, mem, disk, started>> /\ deaths' = deaths + 1 /\ deaths \in Nat
    BY <1>0, <1>die DEF Die, taskVars, journalVars, TypeOK
  <2> QED
    BY <1>0, <2>1 DEF JournalInv, Live, Lasting
<1>stray. ASSUME NEW r \in Final, StrayWrite(r)
      PROVE  JournalInv'
  <2>1. SettleOK(r) /\ UNCHANGED <<verdict, started, deaths>>
    BY <1>stray, StraySettles DEF StrayWrite, taskVars
  <2> QED
    BY <2>1, SettleJournal
<1>expire. CASE Expire
  <2>1. ~Live(mem') /\ ~Live(disk')
    BY <1>0, <1>expire, RecordFacts DEF Expire, TypeOK
  <2> QED
    BY <1>expire, <2>1 DEF Expire, JournalInv, Live
<1>purge. CASE PurgeExpired
  <2>1. /\ started = {} /\ UNCHANGED <<verdict, started, deaths>> /\ ~Live(mem)
        /\ mem' = NoRecord /\ disk' \in {disk, NoRecord}
    BY <1>purge, NoRecordNoStart DEF PurgeExpired, taskVars
  <2>2. NoRecord.status = "None" /\ NoRecord.age = "expired"
    BY DEF NoRecord
  <2> QED
    BY <1>0, <2>1, <2>2 DEF JournalInv, Live
<1>10. CASE UNCHANGED vars
  BY <1>1, <1>10 DEF vars
<1> QED
  BY <1>1, <1>2, <1>3, <1>4, <1>5, <1>6, <1>7, <1>8, <1>9, <1>die, <1>stray, <1>expire,
     <1>purge, <1>10
     DEF Next, Task, Worker

(* Every step keeps what abandoned journal tasks may write. *)
LEMMA StrayStep ==
  ASSUME IInv, [Next]_vars
  PROVE  StrayInv'
<1> USE DEF Fresh, Ended, OwnerPlaces, Final, Unset, Leader, queueVars
<1>0. TypeOK /\ PlaceInv /\ QueueInv /\ StartedInv /\ JournalInv /\ StrayInv /\ LeadInv
  BY DEF IInv
<1>1. CASE UNCHANGED <<stray, deaths, started>> /\ (Live(mem) => Live(mem'))
  BY <1>0, <1>1 DEF StrayInv, Live
<1>2. ASSUME NEW s \in Submitters, SubmitClosed(s) \/ SubmitRefused(s) \/ Register(s) \/ Drop(s) \/
             OnInsertError(s) \/ OnDuplicateSettled(s) \/ OnDuplicateRunning(s) \/
             OnDuplicateOrphaned(s) \/ ForgetOrphaned(s) \/ OnConflict(s) \/ OnInserted(s)
             \/ RejectBeforeQueue(s) \/ RejectRemove(s) \/ RejectSet(s) \/ Enqueue(s) \/
             Enqueued(s) \/ ClosedRemove(s) \/ ClosedSet(s) \/ GiveUp(s) \/ Finish(s) \/
             WorkerRemove(s) \/ WorkerSet(s)
      PROVE  UNCHANGED <<stray, deaths, started, mem>>
  BY <1>2 DEF SubmitClosed, SubmitRefused, Register, Drop, OnInsertError, OnDuplicateSettled,
     OnDuplicateRunning, OnDuplicateOrphaned, ForgetOrphaned, OnConflict, OnInserted,
     RejectBeforeQueue, RejectRemove, RejectSet, Enqueue, Enqueued, ClosedRemove, ClosedSet,
     GiveUp, Finish, WorkerRemove, WorkerSet, taskVars, journalVars
<1>3. ASSUME NEW s \in Submitters, InsertRecord(s)
      PROVE  StrayInv'
  <2>1. PICK v \in Final \cup {"Running", "Inserted", "Err", "Conflict"} : Verdict(s, v)
    BY <1>0, <1>3, DecideFacts DEF InsertRecord
  <2> QED
    BY <1>1, <1>3, <2>1 DEF InsertRecord, Verdict
<1>4. ASSUME NEW s \in Submitters, RejectOrphanRecord(s) \/ RejectSettle(s) \/ EnqueueClosed(s) \/
             WorkerSettle(s)
      PROVE  StrayInv'
  <2>1. Live(mem') <=> Live(mem)
    BY <1>4, Settlements DEF SettleOK, SettledWith
  <2> QED
    BY <1>1, <1>4, <2>1 DEF RejectOrphanRecord, RejectSettle, EnqueueClosed, WorkerSettle
<1>5. ASSUME NEW s \in Submitters, Start(s)
      PROVE  StrayInv'
  <2>1. stray = {} /\ deaths = 0
    BY <1>0, <1>5 DEF Start, QueueStep, QueueInv, EntryOK, LeadInv
  <2> QED
    BY <1>5, <2>1 DEF Start, StrayInv
<1>6. ASSUME NEW s \in Submitters, queue[s].stage # "none"
      PROVE  Live(mem) /\ (started = {} \/ started = {s})
  <2>1. Leader(s)
    BY <1>0, <1>6 DEF QueueInv, EntryOK
  <2>2. \A t \in started : t = s
    BY <1>0, <2>1 DEF StartedInv, JournalInv, TypeOK
  <2> QED
    BY <1>0, <2>1, <2>2 DEF JournalInv
<1>7. ASSUME NEW s \in Submitters, WorkerSkipsJournal(s)
      PROVE  StrayInv'
  <2>1. /\ EntryOK(s) /\ queue[s].stage = "settle" /\ queue[s].keeper = "abandoned"
        /\ stray' \in {stray, stray \cup {queue[s].result}} /\ UNCHANGED <<mem, started, deaths>>
    BY <1>0, <1>7 DEF WorkerSkipsJournal, QueueStep, QueueInv, journalVars
  <2>2. /\ queue[s].result \in {"NotRun", "Indeterminate"}
        /\ deaths = 0 => s \notin started
        /\ queue[s].result = "NotRun" /\ deaths < 2 => s \notin started
    BY <2>1 DEF EntryOK
  <2> QED
    BY <1>0, <1>6, <2>1, <2>2 DEF StrayInv, Live
<1>8. CASE Shutdown
  BY <1>1, <1>8 DEF Shutdown, journalVars
<1>9. CASE Crash
  <2>1. disk \in Records /\ mem' = Recover(disk) /\ stray' = {} /\ UNCHANGED <<started, deaths>>
    BY <1>0, <1>9 DEF Crash, TypeOK
  <2>2. Live(mem') <=> Live(disk)
    BY <2>1, RecordFacts
  <2> QED
    BY <1>0, <2>1, <2>2 DEF StrayInv, JournalInv, Live
<1>die. ASSUME NEW s \in Submitters, Die(s)
      PROVE  StrayInv'
  <2>1. /\ EntryOK(s) /\ queue[s].stage # "none"
        /\ UNCHANGED <<mem, started>> /\ deaths' = deaths + 1 /\ deaths \in Nat
    BY <1>0, <1>die DEF Die, QueueInv, journalVars, TypeOK
  <2>2. stray' = stray \/ (queue[s].stage = "settle" /\ stray' = stray \cup {queue[s].result})
    BY <1>die DEF Die
  <2>3. queue[s].stage = "settle" =>
           /\ queue[s].result \in {"NotRun", "Done", "Indeterminate"}
           /\ queue[s].result = "Done" => s \in started
           /\ queue[s].result = "NotRun" /\ deaths < 2 => s \notin started
    BY <2>1 DEF EntryOK
  <2> QED
    BY <1>0, <1>6, <2>1, <2>2, <2>3 DEF StrayInv, Live
<1>stray. ASSUME NEW r \in Final, StrayWrite(r)
      PROVE  StrayInv'
  <2>1. (Live(mem') <=> Live(mem)) /\ stray' \subseteq stray /\ UNCHANGED <<started, deaths>>
    BY <1>stray, StraySettles DEF StrayWrite, SettleOK, SettledWith
  <2> QED
    BY <1>0, <2>1 DEF StrayInv, Live
<1>expire. CASE Expire
  BY <1>expire DEF Expire, StrayInv
<1>purge. CASE PurgeExpired
  <2>1. stray = {} /\ deaths = 0
    BY <1>purge, NoRecordNoStart DEF PurgeExpired
  <2> QED
    BY <1>purge, <2>1 DEF PurgeExpired, StrayInv
<1>10. CASE UNCHANGED vars
  BY <1>1, <1>10 DEF vars
<1> QED
  BY <1>1, <1>2, <1>3, <1>4, <1>5, <1>7, <1>8, <1>9, <1>die, <1>stray, <1>expire,
     <1>purge, <1>10
     DEF Next, Task, Worker

(* Every step keeps the record of a leader running until it is settled. *)
LEMMA LeadStep ==
  ASSUME IInv, [Next]_vars
  PROVE  LeadInv'
<1> USE DEF Fresh, Ended, OwnerPlaces, Final, Unset, Leader, queueVars
<1>0. TypeOK /\ PlaceInv /\ QueueInv /\ JournalInv /\ LeadInv
  BY DEF IInv
<1>1. CASE UNCHANGED <<pc, cell, verdict, queue, mem, disk, stray, deaths>>
  BY <1>1 DEF IInv, LeadInv
<1>keep. ASSUME NEW s \in Submitters, NEW l \in {"done", "rejectSet", "closedSet"},
                pc' = [pc EXCEPT ![s] = l], UNCHANGED <<cell, verdict, queue, mem, disk, stray, deaths>>
      PROVE  LeadInv'
  BY <1>0, <1>keep DEF LeadInv, TypeOK
<1>2. ASSUME NEW s \in Submitters, SubmitClosed(s) \/ SubmitRefused(s)
      PROVE  LeadInv'
  <2>1. pc' = [pc EXCEPT ![s] = "done"] /\ UNCHANGED <<cell, verdict, queue, mem, disk, stray, deaths>>
    BY <1>2 DEF SubmitClosed, SubmitRefused, Goto, Answer, journalVars
  <2> QED
    BY <1>keep, <2>1
<1>3. ASSUME NEW s \in Submitters, Register(s)
      PROVE  LeadInv'
  BY <1>0, <1>3, SubmitAssumption DEF Register, Goto, journalVars, LeadInv, TypeOK,
     PlaceInv, Place, QueueInv, EntryOK
<1>4. ASSUME NEW s \in Submitters, Drop(s)
      PROVE  LeadInv'
  BY <1>0, <1>4 DEF Drop, Goto, journalVars, LeadInv, TypeOK, PlaceInv, Place
<1>5. ASSUME NEW s \in Submitters, InsertRecord(s)
      PROVE  LeadInv'
  <2>1. PICK v \in Final \cup {"Running", "Inserted", "Err", "Conflict"} : Verdict(s, v)
    BY <1>0, <1>5, DecideFacts DEF InsertRecord
  <2>2. /\ verdict[s] = "None" /\ pc' = [pc EXCEPT ![s] = "decided"] /\ UNCHANGED <<cell, queue, stray, deaths>>
        /\ ~Live(mem) => stray = {} /\ deaths = 0 /\ \A t \in Submitters : ~Leader(t)
    BY <1>0, <1>5, NoRecordNoStart DEF InsertRecord, Goto, PlaceInv, Place
  <2>3. queue[s].stage = "none"
    BY <1>0, <2>2 DEF QueueInv, EntryOK
  <2>4. ASSUME NEW t \in Submitters, Leader(t)', t # s PROVE Leader(t)
    BY <1>0, <2>1, <2>2, <2>4 DEF Verdict, TypeOK
  <2> QED
    BY <1>0, <2>1, <2>2, <2>3, <2>4 DEF Verdict, LeadInv, TypeOK
<1>6. ASSUME NEW s \in Submitters, OnInsertError(s)
      PROVE  LeadInv'
  BY <1>0, <1>6 DEF OnInsertError, Goto, Answer, journalVars, LeadInv, TypeOK, PlaceInv,
     Place
<1>7. ASSUME NEW s \in Submitters, OnDuplicateSettled(s) \/ OnDuplicateRunning(s) \/
             OnConflict(s)
      PROVE  LeadInv'
  <2>1. pc' = [pc EXCEPT ![s] = "done"] /\ UNCHANGED <<cell, verdict, queue, mem, disk, stray, deaths>>
    BY <1>7 DEF OnDuplicateSettled, OnDuplicateRunning, OnConflict, Goto, Answer, journalVars
  <2> QED
    BY <1>keep, <2>1
<1>8. ASSUME NEW s \in Submitters, OnDuplicateOrphaned(s)
      PROVE  LeadInv'
  BY <1>0, <1>8 DEF OnDuplicateOrphaned, Goto, journalVars, LeadInv, TypeOK, PlaceInv, Place
<1>9. ASSUME NEW s \in Submitters, ForgetOrphaned(s) \/ Enqueued(s)
      PROVE  LeadInv'
  <2>1. pc' = [pc EXCEPT ![s] = "done"] /\ UNCHANGED <<cell, verdict, queue, mem, disk, stray, deaths>>
    BY <1>9 DEF ForgetOrphaned, Enqueued, Goto, Answer, journalVars
  <2> QED
    BY <1>keep, <2>1
<1>10. ASSUME NEW s \in Submitters, OnInserted(s)
      PROVE  LeadInv'
  BY <1>0, <1>10 DEF OnInserted, Goto, journalVars, LeadInv, TypeOK, PlaceInv, Place,
     MayLead
<1>11. ASSUME NEW s \in Submitters, RejectOrphanRecord(s)
      PROVE  LeadInv'
  <2>1. \A t \in Submitters : Leader(t) => t = s
    BY <1>11, SettlerAlone DEF RejectOrphanRecord
  <2>2. ~Leader(s) /\ UNCHANGED <<verdict, cell>>
    BY <1>0, <1>11 DEF RejectOrphanRecord, PlaceInv, Place
  <2> QED
    BY <2>1, <2>2 DEF LeadInv
<1>12. ASSUME NEW s \in Submitters, RejectBeforeQueue(s)
      PROVE  LeadInv'
  BY <1>0, <1>12 DEF RejectBeforeQueue, Goto, journalVars, LeadInv, TypeOK, PlaceInv, Place
<1>13. ASSUME NEW s \in Submitters, RejectSettle(s)
      PROVE  LeadInv'
  <2>1. \A t \in Submitters : Leader(t) => t = s
    BY <1>13, SettlerAlone DEF RejectSettle
  <2>2. queue[s].stage = "none" /\ pc'[s] = "rejectRemove" /\ UNCHANGED <<verdict, cell, queue>>
    BY <1>0, <1>13 DEF RejectSettle, Goto, QueueInv, EntryOK, TypeOK
  <2> QED
    BY <2>1, <2>2 DEF LeadInv
<1>14. ASSUME NEW s \in Submitters, RejectRemove(s) \/ ClosedRemove(s)
      PROVE  LeadInv'
  <2>1. PICK l \in {"rejectSet", "closedSet"} : pc' = [pc EXCEPT ![s] = l]
    BY <1>14 DEF RejectRemove, ClosedRemove, Goto
  <2>2. UNCHANGED <<cell, verdict, queue, mem, disk, stray, deaths>>
    BY <1>14 DEF RejectRemove, ClosedRemove, journalVars
  <2> QED
    BY <1>keep, <2>1, <2>2
<1>15. ASSUME NEW s \in Submitters, RejectSet(s) \/ ClosedSet(s)
      PROVE  LeadInv'
  <2>1. pc' = [pc EXCEPT ![s] = "done"] /\ UNCHANGED <<cell, verdict, queue, mem, disk, stray, deaths>>
    BY <1>15 DEF RejectSet, ClosedSet, Goto, Answer, journalVars
  <2> QED
    BY <1>keep, <2>1
<1>16. ASSUME NEW s \in Submitters, Enqueue(s)
      PROVE  LeadInv'
  BY <1>0, <1>16 DEF Enqueue, Goto, journalVars, LeadInv, TypeOK, PlaceInv, Place, Entry
<1>17. ASSUME NEW s \in Submitters, EnqueueClosed(s)
      PROVE  LeadInv'
  <2>1. \A t \in Submitters : Leader(t) => t = s
    BY <1>17, SettlerAlone DEF EnqueueClosed
  <2>2. queue[s].stage = "none" /\ pc'[s] = "closedRemove" /\ UNCHANGED <<verdict, cell, queue>>
    BY <1>0, <1>17 DEF EnqueueClosed, Goto, QueueInv, EntryOK, TypeOK
  <2> QED
    BY <2>1, <2>2 DEF LeadInv
<1>18. ASSUME NEW s \in Submitters, Start(s)
      PROVE  LeadInv'
  BY <1>0, <1>18 DEF Start, QueueStep, taskVars, journalVars, LeadInv, TypeOK, PlaceInv,
     Place, Entry
<1>19. ASSUME NEW s \in Submitters, GiveUp(s)
      PROVE  LeadInv'
  BY <1>0, <1>19 DEF GiveUp, QueueStep, taskVars, journalVars, LeadInv, TypeOK, PlaceInv,
     Place, Entry
<1>20. ASSUME NEW s \in Submitters, Finish(s)
      PROVE  LeadInv'
  BY <1>0, <1>20 DEF Finish, QueueStep, taskVars, journalVars, LeadInv, TypeOK, PlaceInv,
     Place, Entry
<1>21. ASSUME NEW s \in Submitters, WorkerSettle(s)
      PROVE  LeadInv'
  <2>1. \A t \in Submitters : Leader(t) => t = s
    BY <1>21, SettlerAlone DEF WorkerSettle, QueueStep
  <2>2. queue'[s].stage = "remove" /\ pc[s] \in {"enqueued", "done"} /\ UNCHANGED <<verdict, cell, pc>>
    BY <1>0, <1>21 DEF WorkerSettle, QueueStep, Entry, taskVars, QueueInv, EntryOK, TypeOK
  <2> QED
    BY <2>1, <2>2 DEF LeadInv
<1>22. ASSUME NEW s \in Submitters, WorkerSkipsJournal(s)
      PROVE  LeadInv'
  <2>1. \A t \in Submitters : Leader(t) => t = s
    BY <1>22, SettlerAlone DEF WorkerSkipsJournal, QueueStep
  <2>2. queue'[s].stage = "remove" /\ pc[s] \in {"enqueued", "done"} /\ UNCHANGED <<verdict, cell, pc>>
    BY <1>0, <1>22 DEF WorkerSkipsJournal, QueueStep, Entry, taskVars, QueueInv, EntryOK, TypeOK
  <2> QED
    BY <2>1, <2>2 DEF LeadInv
<1>23. ASSUME NEW s \in Submitters, WorkerRemove(s)
      PROVE  LeadInv'
  BY <1>0, <1>23 DEF WorkerRemove, QueueStep, taskVars, journalVars, LeadInv, TypeOK,
     PlaceInv, Place, Entry
<1>24. ASSUME NEW s \in Submitters, WorkerSet(s)
      PROVE  LeadInv'
  BY <1>0, <1>24 DEF WorkerSet, QueueStep, taskVars, journalVars, LeadInv, TypeOK, PlaceInv,
     Place, NoEntry
<1>25. CASE Shutdown
  BY <1>1, <1>25 DEF Shutdown, taskVars, journalVars
<1>26. CASE Crash
  BY <1>0, <1>26 DEF Crash, NoEntry, LeadInv, TypeOK
<1>die. ASSUME NEW s \in Submitters, Die(s)
      PROVE  LeadInv'
  <2>1. PICK k \in {"draining", "abandoned"} :
           queue' = [queue EXCEPT ![s] = Entry("settle", Inherited(queue[s].keeper), k)]
    BY <1>die DEF Die
  <2>2. /\ UNCHANGED <<pc, cell, verdict>> /\ deaths' # 0
        /\ Leader(s) /\ pc[s] \in {"enqueued", "done"}
    BY <1>0, <1>die DEF Die, taskVars, TypeOK, QueueInv, EntryOK
  <2>3. \A t \in Submitters : Leader(t) => t = s
    BY <1>0, <2>2 DEF JournalInv
  <2>4. queue'[s].stage = "settle"
    BY <1>0, <2>1 DEF TypeOK, Entry
  <2> QED
    BY <2>2, <2>3, <2>4 DEF LeadInv
<1>stray. ASSUME NEW r \in Final, StrayWrite(r)
      PROVE  LeadInv'
  <2>1. stray # {} /\ UNCHANGED <<pc, cell, verdict, queue, deaths>>
    BY <1>stray DEF StrayWrite, taskVars
  <2> QED
    BY <1>0, <2>1 DEF LeadInv
<1>expire. CASE Expire
  BY <1>expire DEF Expire, LeadInv
<1>purge. CASE PurgeExpired
  <2>1. \A t \in Submitters : ~Leader(t)
    BY <1>purge, NoRecordNoStart DEF PurgeExpired
  <2> QED
    BY <1>purge, <2>1 DEF PurgeExpired, taskVars, LeadInv
<1>27. CASE UNCHANGED vars
  BY <1>1, <1>27 DEF vars
<1> QED
  BY <1>1, <1>2, <1>3, <1>4, <1>5, <1>6, <1>7, <1>8, <1>9, <1>10, <1>11, <1>12, <1>13,
     <1>14, <1>15, <1>16, <1>17, <1>18, <1>19, <1>20, <1>21, <1>22, <1>23, <1>24, <1>25,
     <1>26, <1>27,
     <1>die, <1>stray, <1>expire, <1>purge
     DEF Next, Task, Worker

(* Every step keeps the owner of the active entry alone until there is a record. *)
LEMMA OwnStep ==
  ASSUME IInv, [Next]_vars
  PROVE  OwnInv'
<1> USE DEF Fresh, Ended, OwnerPlaces, Final, Unset, Leader, queueVars
<1>0. TypeOK /\ PlaceInv /\ QueueInv /\ JournalInv /\ OwnInv /\ ActiveInv
  BY DEF IInv
<1>1. CASE UNCHANGED <<pc, cell, verdict, active, mem>>
  BY <1>1 DEF IInv, OwnInv, Live
<1>2. ASSUME NEW s \in Submitters, Start(s) \/ GiveUp(s) \/ Finish(s) \/
             WorkerSkipsJournal(s) \/ WorkerSet(s)
      PROVE  UNCHANGED <<pc, cell, verdict, active, mem>>
  BY <1>2 DEF Start, GiveUp, Finish, WorkerSkipsJournal, WorkerSet, taskVars, journalVars
<1>3. ASSUME NEW s \in Submitters, SubmitClosed(s) \/ SubmitRefused(s)
      PROVE  OwnInv'
  BY <1>0, <1>3 DEF SubmitClosed, SubmitRefused, Goto, Answer, journalVars, OwnInv, Live, TypeOK,
     PlaceInv, Place, JournalInv
<1>4. ASSUME NEW s \in Submitters, Register(s)
      PROVE  OwnInv'
  BY <1>0, <1>4, SubmitAssumption DEF Register, Goto, journalVars, OwnInv, Live, TypeOK, PlaceInv,
     Place, ActiveInv, JournalInv
<1>5. ASSUME NEW s \in Submitters, Drop(s)
      PROVE  OwnInv'
  BY <1>0, <1>5 DEF Drop, Goto, journalVars, OwnInv, Live, TypeOK, PlaceInv, Place, JournalInv
<1>6. ASSUME NEW s \in Submitters, InsertRecord(s)
      PROVE  OwnInv'
  <2>1. PICK v \in Final \cup {"Running", "Inserted", "Err", "Conflict"} : Verdict(s, v)
    BY <1>0, <1>6, DecideFacts DEF InsertRecord
  <2>2. verdict[s] = "None" /\ pc[s] = "insert" /\ pc' = [pc EXCEPT ![s] = "decided"]
    BY <1>0, <1>6 DEF InsertRecord, Goto, PlaceInv, Place
  <2>3. UNCHANGED <<cell, active>>
    BY <1>6 DEF InsertRecord
  <2>4. ~Live(mem') => ~Live(mem)
    BY <2>1 DEF Verdict
  <2>5. ~Live(mem) => \A t \in Submitters : ~Leader(t)
    BY <1>0 DEF JournalInv
  <2>6. (~Live(mem) =>
          \A t \in Submitters :
             Fresh(t) /\ pc[t] \in {"insert", "decided", "rejectSettle", "rejectRemove"} => active = t)'
    BY <1>0, <2>2, <2>3, <2>4 DEF OwnInv, Live, TypeOK, Live
  <2>7. ASSUME NEW t \in Submitters, NEW u \in Submitters, Leader(u)', verdict'[t] = "Err", Fresh(t)'
        PROVE  pc'[t] \notin {"decided", "rejectSettle"}
    <3>1. t # u /\ Fresh(t) /\ Fresh(u)
      BY <2>3, <2>7
    <3>2. CASE t = s
      <4>1. v = "Err" /\ ~Live(mem)
        BY <1>0, <2>1, <2>7, <3>2 DEF Verdict, TypeOK
      <4>2. Leader(u)
        BY <1>0, <2>1, <2>7, <3>1, <3>2 DEF Verdict, TypeOK
      <4> QED
        BY <2>5, <4>1, <4>2
    <3>3. CASE u = s
      <4>1. v = "Inserted" /\ ~Live(mem)
        BY <1>0, <2>1, <2>7, <3>3 DEF Verdict, TypeOK
      <4>2. active = s
        BY <1>0, <2>2, <3>1, <3>3, <4>1 DEF OwnInv, Live
      <4> QED
        BY <1>0, <2>2, <3>1, <3>3, <4>1, <4>2 DEF OwnInv, Live, TypeOK
    <3>4. CASE t # s /\ u # s
      BY <1>0, <2>1, <2>2, <2>7, <3>1, <3>4 DEF Verdict, OwnInv, Live, TypeOK
    <3> QED
      BY <3>2, <3>3, <3>4
  <2> QED
    BY <2>6, <2>7 DEF OwnInv, Live
<1>7. ASSUME NEW s \in Submitters, OnInsertError(s)
      PROVE  OwnInv'
  BY <1>0, <1>7 DEF OnInsertError, Goto, Answer, journalVars, OwnInv, Live, TypeOK, PlaceInv,
     Place, JournalInv
<1>8. ASSUME NEW s \in Submitters, OnDuplicateSettled(s) \/ OnDuplicateRunning(s) \/
             OnConflict(s)
      PROVE  OwnInv'
  BY <1>0, <1>8 DEF OnDuplicateSettled, OnDuplicateRunning, OnConflict, Goto, Answer,
     journalVars, OwnInv, Live, TypeOK, PlaceInv, Place, JournalInv
<1>9. ASSUME NEW s \in Submitters, OnDuplicateOrphaned(s)
      PROVE  OwnInv'
  BY <1>0, <1>9 DEF OnDuplicateOrphaned, Goto, journalVars, OwnInv, Live, TypeOK, PlaceInv, Place,
     JournalInv
<1>10. ASSUME NEW s \in Submitters, ForgetOrphaned(s) \/ Enqueued(s)
      PROVE  OwnInv'
  BY <1>0, <1>10 DEF ForgetOrphaned, Enqueued, Goto, Answer, journalVars, OwnInv, Live, TypeOK,
     PlaceInv, Place, JournalInv
<1>11. ASSUME NEW s \in Submitters, OnInserted(s)
      PROVE  OwnInv'
  BY <1>0, <1>11 DEF OnInserted, Goto, journalVars, OwnInv, Live, TypeOK, PlaceInv, Place,
     JournalInv, MayLead
<1>12. ASSUME NEW s \in Submitters, RejectOrphanRecord(s)
      PROVE  OwnInv'
  <2>1. Live(mem') <=> Live(mem)
    BY <1>12, Settlements DEF SettleOK, SettledWith
  <2> QED
    BY <1>0, <1>12, <2>1 DEF RejectOrphanRecord, Answer, Goto, OwnInv, Live,
       JournalInv, TypeOK, PlaceInv, Place
<1>13. ASSUME NEW s \in Submitters, RejectBeforeQueue(s)
      PROVE  OwnInv'
  BY <1>0, <1>13 DEF RejectBeforeQueue, Goto, journalVars, OwnInv, Live, TypeOK, PlaceInv, Place,
     JournalInv
<1>14. ASSUME NEW s \in Submitters, RejectSettle(s)
      PROVE  OwnInv'
  <2>1. Live(mem') <=> Live(mem)
    BY <1>14, Settlements DEF SettleOK, SettledWith
  <2> QED
    BY <1>0, <1>14, <2>1 DEF RejectSettle, Goto, OwnInv, Live, JournalInv, TypeOK,
       PlaceInv, Place
<1>15. ASSUME NEW s \in Submitters, RejectRemove(s) \/ ClosedRemove(s)
      PROVE  OwnInv'
  BY <1>0, <1>15 DEF RejectRemove, ClosedRemove, Goto, journalVars, OwnInv, Live, TypeOK,
     PlaceInv, Place, JournalInv
<1>16. ASSUME NEW s \in Submitters, RejectSet(s) \/ ClosedSet(s)
      PROVE  OwnInv'
  BY <1>0, <1>16 DEF RejectSet, ClosedSet, Goto, Answer, journalVars, OwnInv, Live, TypeOK,
     PlaceInv, Place, JournalInv
<1>17. ASSUME NEW s \in Submitters, Enqueue(s)
      PROVE  OwnInv'
  BY <1>0, <1>17 DEF Enqueue, Goto, journalVars, OwnInv, Live, TypeOK, PlaceInv, Place, JournalInv
<1>18. ASSUME NEW s \in Submitters, EnqueueClosed(s)
      PROVE  OwnInv'
  <2>1. Live(mem') <=> Live(mem)
    BY <1>18, Settlements DEF SettleOK, SettledWith
  <2> QED
    BY <1>0, <1>18, <2>1 DEF EnqueueClosed, Goto, OwnInv, Live, JournalInv, TypeOK,
       PlaceInv, Place
<1>19. ASSUME NEW s \in Submitters, WorkerSettle(s)
      PROVE  OwnInv'
  <2>1. Live(mem') <=> Live(mem)
    BY <1>19, Settlements DEF SettleOK, SettledWith
  <2> QED
    BY <1>0, <1>19, <2>1 DEF WorkerSettle, QueueStep, taskVars, OwnInv, Live
<1>20. ASSUME NEW s \in Submitters, WorkerRemove(s)
      PROVE  OwnInv'
  BY <1>0, <1>20 DEF WorkerRemove, QueueStep, taskVars, journalVars, OwnInv, Live, QueueInv,
     EntryOK, JournalInv, TypeOK
<1>21. CASE Shutdown
  BY <1>1, <1>21 DEF Shutdown, taskVars, journalVars
<1>22. CASE Crash
  BY <1>0, <1>22 DEF Crash, OwnInv, Live, TypeOK
<1>die. ASSUME NEW s \in Submitters, Die(s)
      PROVE  OwnInv'
  BY <1>1, <1>die DEF Die, taskVars, journalVars
<1>stray. ASSUME NEW r \in Final, StrayWrite(r)
      PROVE  OwnInv'
  <2>1. (Live(mem') <=> Live(mem)) /\ UNCHANGED <<pc, cell, verdict, active>>
    BY <1>stray, StraySettles DEF StrayWrite, SettleOK, SettledWith, taskVars
  <2> QED
    BY <1>0, <2>1 DEF OwnInv, Live
<1>expire. CASE Expire
  BY <1>expire DEF Expire, OwnInv
<1>purge. CASE PurgeExpired
  <2>1. ~Live(mem) /\ UNCHANGED <<pc, cell, verdict, active>>
    BY <1>purge DEF PurgeExpired, taskVars
  <2> QED
    BY <1>0, <2>1 DEF OwnInv
<1>23. CASE UNCHANGED vars
  BY <1>1, <1>23 DEF vars
<1> QED
  BY <1>1, <1>2, <1>3, <1>4, <1>5, <1>6, <1>7, <1>8, <1>9, <1>10, <1>11, <1>12, <1>13,
     <1>14, <1>15, <1>16, <1>17, <1>18, <1>19, <1>20, <1>21, <1>22, <1>23,
     <1>die, <1>stray, <1>expire, <1>purge
     DEF Next, Task, Worker

-----------------------------------------------------------------------------
(* Types *)

(* Every step keeps the types. *)
LEMMA TypeStep ==
  ASSUME IInv, [Next]_vars
  PROVE  TypeOK'
<1> USE DEF Fresh, Ended, OwnerPlaces, Final, Unset, Leader, queueVars
<1>0. TypeOK /\ PlaceInv /\ QueueInv
  BY DEF IInv
<1>1. CASE UNCHANGED <<pc, cell, verdict, outcome, receipt, active, shared, queue,
                    stray, mem, disk, closed, started, dropped, deaths, trouble>>
  BY <1>1 DEF IInv, TypeOK
<1>2. ASSUME NEW s \in Submitters, SubmitClosed(s) \/ SubmitRefused(s)
      PROVE  TypeOK'
  BY <1>0, <1>2 DEF SubmitClosed, SubmitRefused, Goto, Answer, journalVars, TypeOK
<1>3. ASSUME NEW s \in Submitters, Register(s)
      PROVE  TypeOK'
  BY <1>0, <1>3, SubmitAssumption DEF Register, Goto, journalVars, TypeOK
<1>4. ASSUME NEW s \in Submitters, Drop(s)
      PROVE  TypeOK'
  BY <1>0, <1>4, SubmitAssumption DEF Drop, Goto, journalVars, TypeOK, Trouble
<1>5. ASSUME NEW s \in Submitters, InsertRecord(s)
      PROVE  TypeOK'
  <2>1. PICK v \in Final \cup {"Running", "Inserted", "Err", "Conflict"} : Verdict(s, v)
    BY <1>0, <1>5, DecideFacts DEF InsertRecord
  <2> QED
    BY <1>0, <1>5, <2>1 DEF InsertRecord, Verdict, Goto, TypeOK
<1>6. ASSUME NEW s \in Submitters, OnInsertError(s)
      PROVE  TypeOK'
  BY <1>0, <1>6 DEF OnInsertError, Goto, Answer, journalVars, TypeOK
<1>7. ASSUME NEW s \in Submitters, OnDuplicateSettled(s) \/ OnDuplicateRunning(s) \/
             OnConflict(s)
      PROVE  TypeOK'
  BY <1>0, <1>7 DEF OnDuplicateSettled, OnDuplicateRunning, OnConflict, Goto, Answer,
     journalVars, TypeOK, AfterConflict
<1>8. ASSUME NEW s \in Submitters, OnDuplicateOrphaned(s)
      PROVE  TypeOK'
  BY <1>0, <1>8 DEF OnDuplicateOrphaned, Goto, journalVars, TypeOK
<1>9. ASSUME NEW s \in Submitters, ForgetOrphaned(s) \/ Enqueued(s)
      PROVE  TypeOK'
  <2>1. CASE ForgetOrphaned(s)
    BY <1>0, <2>1 DEF ForgetOrphaned, Goto, Answer, journalVars, TypeOK, PlaceInv, Place
  <2>2. CASE Enqueued(s)
    BY <1>0, <2>2 DEF Enqueued, Goto, Answer, journalVars, TypeOK, PlaceInv, Place
  <2> QED
    BY <1>9, <2>1, <2>2
<1>10. ASSUME NEW s \in Submitters, OnInserted(s)
      PROVE  TypeOK'
  BY <1>0, <1>10 DEF OnInserted, Goto, journalVars, TypeOK, MayLead
<1>11. ASSUME NEW s \in Submitters, RejectOrphanRecord(s)
      PROVE  TypeOK'
  <2>1. SettledWith("Rejected")
    BY <1>11, Settlements DEF SettleOK
  <2> QED
    BY <1>0, <1>11, <2>1 DEF RejectOrphanRecord, SettledWith, TypeOK, Answer, Goto
<1>12. ASSUME NEW s \in Submitters, RejectBeforeQueue(s)
      PROVE  TypeOK'
  BY <1>0, <1>12 DEF RejectBeforeQueue, Goto, journalVars, TypeOK
<1>13. ASSUME NEW s \in Submitters, RejectSettle(s)
      PROVE  TypeOK'
  <2>1. SettledWith("Rejected")
    BY <1>13, Settlements DEF SettleOK
  <2> QED
    BY <1>0, <1>13, <2>1 DEF RejectSettle, SettledWith, TypeOK, Goto
<1>14. ASSUME NEW s \in Submitters, RejectRemove(s) \/ ClosedRemove(s)
      PROVE  TypeOK'
  BY <1>0, <1>14 DEF RejectRemove, ClosedRemove, Goto, journalVars, TypeOK
<1>15. ASSUME NEW s \in Submitters, RejectSet(s) \/ ClosedSet(s)
      PROVE  TypeOK'
  <2>1. CASE RejectSet(s)
    BY <1>0, <2>1 DEF RejectSet, Goto, Answer, journalVars, TypeOK, PlaceInv, Place
  <2>2. CASE ClosedSet(s)
    BY <1>0, <2>2 DEF ClosedSet, Goto, Answer, journalVars, TypeOK, PlaceInv, Place
  <2> QED
    BY <1>15, <2>1, <2>2
<1>16. ASSUME NEW s \in Submitters, Enqueue(s)
      PROVE  TypeOK'
  BY <1>0, <1>16 DEF Enqueue, Goto, journalVars, TypeOK, Entry, NoEntry, Entries
<1>17. ASSUME NEW s \in Submitters, EnqueueClosed(s)
      PROVE  TypeOK'
  <2>1. SettledWith("Indeterminate")
    BY <1>17, Settlements DEF SettleOK
  <2> QED
    BY <1>0, <1>17, <2>1 DEF EnqueueClosed, SettledWith, TypeOK, Goto
<1>18. ASSUME NEW s \in Submitters, Start(s)
      PROVE  TypeOK'
  BY <1>0, <1>18 DEF Start, QueueStep, taskVars, journalVars, TypeOK, Entry, NoEntry,
     Entries
<1>19. ASSUME NEW s \in Submitters, GiveUp(s)
      PROVE  TypeOK'
  BY <1>0, <1>19 DEF GiveUp, QueueStep, taskVars, journalVars, TypeOK, Entry, NoEntry,
     Entries
<1>20. ASSUME NEW s \in Submitters, Finish(s)
      PROVE  TypeOK'
  BY <1>0, <1>20 DEF Finish, QueueStep, taskVars, journalVars, TypeOK, Entry, NoEntry,
     Entries
<1>21. ASSUME NEW s \in Submitters, WorkerSettle(s)
      PROVE  TypeOK'
  <2>1. SettledWith(queue[s].result)
    BY <1>21, Settlements DEF SettleOK
  <2> QED
    BY <1>0, <1>21, <2>1 DEF WorkerSettle, QueueStep, SettledWith, TypeOK, taskVars, Entry,
       Entries
<1>22. ASSUME NEW s \in Submitters, WorkerSkipsJournal(s)
      PROVE  TypeOK'
  BY <1>0, <1>22 DEF WorkerSkipsJournal, QueueStep, taskVars, journalVars, TypeOK, Entry,
     NoEntry, Entries, QueueInv, EntryOK
<1>23. ASSUME NEW s \in Submitters, WorkerRemove(s)
      PROVE  TypeOK'
  BY <1>0, <1>23 DEF WorkerRemove, QueueStep, taskVars, journalVars, TypeOK, Entry, NoEntry,
     Entries, QueueInv, EntryOK
<1>24. ASSUME NEW s \in Submitters, WorkerSet(s)
      PROVE  TypeOK'
  <2>1. cell[s] = s /\ queue[s].result \in Final
    BY <1>0, <1>24 DEF WorkerSet, QueueStep, QueueInv, EntryOK
  <2> QED
    BY <1>0, <1>24, <2>1 DEF WorkerSet, QueueStep, taskVars, journalVars, NoEntry, Entries, TypeOK
<1>25. CASE Shutdown
  BY <1>0, <1>25 DEF Shutdown, taskVars, journalVars, TypeOK
<1>26. CASE Crash
  <2>1. mem' \in Records
    BY <1>0, <1>26, RecordFacts DEF Crash, TypeOK
  <2>2. \A s \in Submitters : Told(s) \in Final \cup {Unset, "None", "Pending", "Lost", "Conflict", "Closed"}
                              /\ Told(s) # "Pending"
    BY <1>0, SubmitAssumption DEF Told, TypeOK, PlaceInv, Place
  <2>3. NoEntry \in Entries
    BY DEF NoEntry, Entries
  <2>4. /\ pc' = [s \in Submitters |-> IF pc[s] \in Ended THEN pc[s] ELSE "gone"]
        /\ receipt' = [s \in Submitters |-> IF Told(s) = Unset THEN "Lost" ELSE Told(s)]
        /\ shared' = [s \in Submitters |-> Unset] /\ queue' = [s \in Submitters |-> NoEntry]
        /\ active' = None /\ stray' = {} /\ closed' = FALSE /\ trouble' \in 0 .. MaxTrouble
        /\ UNCHANGED <<cell, verdict, outcome, disk, started, dropped, deaths>>
    BY <1>0, <1>26, SubmitAssumption DEF Crash, TypeOK, Trouble
  <2> HIDE DEF Told, NoEntry
  <2> QED
    BY <1>0, <2>1, <2>2, <2>3, <2>4 DEF TypeOK
<1>die. ASSUME NEW s \in Submitters, Die(s)
      PROVE  TypeOK'
  <2>1. PICK k \in {"draining", "abandoned"} :
           queue' = [queue EXCEPT ![s] = Entry("settle", Inherited(queue[s].keeper), k)]
    BY <1>die DEF Die
  <2>2. Entry("settle", Inherited(queue[s].keeper), k) \in Entries
    BY DEF Entry, Entries, Inherited
  <2>3. queue[s].stage = "settle" => queue[s].result \in Final
    BY <1>0 DEF QueueInv, EntryOK
  <2> QED
    BY <1>0, <1>die, <2>1, <2>2, <2>3, SubmitAssumption DEF Die, Trouble, taskVars, journalVars, TypeOK
<1>stray. ASSUME NEW r \in Final, StrayWrite(r)
      PROVE  TypeOK'
  <2>1. SettledWith(r) /\ stray' \subseteq stray
    BY <1>stray, StraySettles DEF SettleOK, StrayWrite
  <2> QED
    BY <1>0, <1>stray, <2>1 DEF StrayWrite, SettledWith, TypeOK, taskVars
<1>expire. CASE Expire
  <2>1. mem' \in Records /\ disk' \in Records
    BY <1>0, <1>expire, RecordFacts DEF Expire, TypeOK
  <2>2. trouble' \in 0 .. MaxTrouble /\ active' \in Submitters \cup {None}
    BY <1>0, <1>expire, SubmitAssumption DEF Expire, Trouble, TypeOK
  <2> QED
    BY <1>0, <1>expire, <2>1, <2>2 DEF Expire, TypeOK
<1>purge. CASE PurgeExpired
  <2>1. NoRecord \in Records
    BY DEF Records
  <2> QED
    BY <1>0, <1>purge, <2>1 DEF PurgeExpired, taskVars, TypeOK
<1>27. CASE UNCHANGED vars
  BY <1>1, <1>27 DEF vars
<1> QED
  BY <1>1, <1>2, <1>3, <1>4, <1>5, <1>6, <1>7, <1>8, <1>9, <1>10, <1>11, <1>12, <1>13,
     <1>14, <1>15, <1>16, <1>17, <1>18, <1>19, <1>20, <1>21, <1>22, <1>23, <1>24, <1>25,
     <1>26, <1>27,
     <1>die, <1>stray, <1>expire, <1>purge
     DEF Next, Task, Worker

-----------------------------------------------------------------------------
(* The theorems *)

(* The initial state satisfies the invariant. *)
LEMMA InitIInv == Init => IInv
<1> SUFFICES ASSUME Init PROVE IInv
  OBVIOUS
<1> USE SubmitAssumption DEF Init, Fresh, Leader, Ended, OwnerPlaces, Final, Unset, NoEntry
<1>1. TypeOK
  <2>1. NoRecord \in Records /\ NoEntry \in Entries
    BY DEF Records, Entries
  <2>2. closed \in BOOLEAN
    BY Zenon
  <2> HIDE DEF NoEntry
  <2> QED
    BY <2>1, <2>2 DEF TypeOK
<1>2. PlaceInv /\ QueueInv /\ StartedInv /\ SaidInv
  BY DEF PlaceInv, Place, QueueInv, EntryOK, StartedInv, SaidInv, SaidOK
<1>3. JournalInv /\ StrayInv /\ LeadInv
  BY DEF JournalInv, StrayInv, LeadInv, NoRecord, Live
<1>4. OwnInv /\ ActiveInv
  BY DEF OwnInv, ActiveInv, ActiveOwned
<1> QED
  BY <1>1, <1>2, <1>3, <1>4 DEF IInv

(* Every step keeps it. *)
LEMMA IInvStep == IInv /\ [Next]_vars => IInv'
<1> SUFFICES ASSUME IInv, [Next]_vars PROVE IInv'
  OBVIOUS
<1>1. TypeOK' /\ PlaceInv' /\ QueueInv'
  BY TypeStep, PlaceStep, QueueStepInv
<1>2. StartedInv' /\ SaidInv' /\ JournalInv' /\ StrayInv'
  BY StartedStep, SaidStep, JournalStep, StrayStep
<1>3. LeadInv' /\ OwnInv' /\ ActiveInv'
  BY LeadStep, OwnStep, ActiveStep
<1> QED
  BY <1>1, <1>2, <1>3 DEF IInv

(* Every behaviour of concurrent submissions, of the queue, of the journal and
   of restarts keeps the inductive invariant. *)
THEOREM SubmitInvariant == Spec => []IInv
BY InitIInv, IInvStep, PTL DEF Spec

(* The state of submissions, cells, queue entries and records is well typed
   (ControlEngine::submit). *)
THEOREM SubmitTypes == Spec => []TypeOK
<1>1. IInv => TypeOK
  BY DEF IInv
<1> QED
  BY <1>1, SubmitInvariant, PTL

(* ControlEngine::submit: at most one submission of a key reaches the device,
   and never without a record in the file, for any number of concurrent
   duplicates, journal failures, callers that leave and restarts. *)
THEOREM DeviceActsOnce == Spec => []AtMostOnce
<1>1. IInv => AtMostOnce
  <2> SUFFICES ASSUME IInv PROVE AtMostOnce
    OBVIOUS
  <2>1. \A s, t \in started : s = t
    BY DEF IInv, TypeOK, StartedInv, JournalInv, Leader
  <2>2. started = {} \/ \E s : started = {s}
    BY <2>1
  <2>3. Cardinality({}) = 0 /\ \A s : Cardinality({s}) = 1
    BY FS_EmptySet, FS_Singleton
  <2>4. Cardinality(started) <= 1
    <3>1. CASE started = {}
      BY <2>3, <3>1
    <3>2. ASSUME NEW s, started = {s} PROVE Cardinality(started) <= 1
      <4>1. Cardinality(started) = 1
        BY <2>3, <3>2
      <4> QED
        BY <4>1
    <3> QED
      BY <2>2, <3>1, <3>2
  <2>5. started # {} => disk # NoRecord
    <3>1. Live(disk) => disk # NoRecord
      BY RecordFacts DEF IInv, TypeOK
    <3> QED
      BY <3>1 DEF IInv, TypeOK, StartedInv, JournalInv, Leader
  <2> QED
    BY <2>4, <2>5 DEF AtMostOnce
<1> QED
  BY <1>1, SubmitInvariant, PTL

(* The entry that starts is the first: nothing of this key, not even the same
   entry, has been handed to the executor before it (Worker::execute). *)
THEOREM StartsOnce == Spec => [][\A s \in Submitters : Start(s) => started = {}]_vars
<1>1. ASSUME IInv, NEW s \in Submitters, Start(s)
      PROVE  started = {}
  <2>1. Leader(s) /\ s \notin started
    BY <1>1 DEF IInv, Start, QueueStep, QueueInv, EntryOK
  <2>2. \A t \in started : t = s
    BY <1>1, <2>1 DEF IInv, TypeOK, StartedInv, JournalInv, Leader
  <2> QED
    BY <2>1, <2>2
<1>2. IInv => [\A s \in Submitters : Start(s) => started = {}]_vars
  BY <1>1
<1> QED
  BY <1>2, SubmitInvariant, PTL

(* settle_entry, reject_with_shared, reject_orphan_record: whatever a worker
   dies at and whoever settles its entry again, no journal record, shared cell
   or receipt denies an execution that happened until two workers died with it;
   that the device answered, once told, is in the file for every restart until
   one died, and then at worst unknown; and an active entry has somebody who
   will remove it. *)
THEOREM ReceiptsAreTrue == Spec => []ToldTheTruth
<1>1. IInv => ToldTheTruth
  <2> SUFFICES ASSUME IInv PROVE ToldTheTruth
    OBVIOUS
  <2> USE DEF IInv
  <2>1. \A s \in Submitters : receipt[s] = "Pending" => cell[s] \in Submitters
    BY SubmitAssumption DEF TypeOK, PlaceInv, Place
  <2>2. deaths < 2 /\ mem.status \in {"Rejected", "NotRun"} => started = {}
    BY DEF JournalInv
  <2>3. ASSUME deaths < 2, NEW s \in Submitters, Told(s) \in {"Rejected", "NotRun"}
        PROVE  s \notin started /\ (receipt[s] = "Pending" => cell[s] \notin started)
    <3>1. CASE receipt[s] = "Pending"
      <4>1. cell[s] \notin started
        BY <2>1, <2>3, <3>1 DEF Told, SaidInv, SaidOK
      <4>2. cell[s] # s => s \notin started
        BY DEF StartedInv, Leader, Fresh
      <4> QED
        BY <4>1, <4>2
    <3>2. CASE receipt[s] # "Pending"
      BY <2>3, <3>2 DEF Told, SaidInv, SaidOK
    <3> QED
      BY <3>1, <3>2
  <2>4. DoneIsDurable
    BY <2>1 DEF DoneIsDurable, Told, SaidInv, SaidOK, Lasting
  <2> QED
    BY <2>2, <2>3, <2>4 DEF ToldTheTruth, NeverDenied, ActiveInv
<1> QED
  BY <1>1, SubmitInvariant, PTL
=============================================================================
