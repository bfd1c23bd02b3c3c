---------------------------- MODULE LocalBuffer ----------------------------
(***************************************************************************)
(* The store-and-forward buffer of crates/local-buffer: one dedicated      *)
(* worker thread owns a SQLite table of batches and a bounded in-memory     *)
(* window over it; callers talk to it through a bounded FIFO channel and    *)
(* one-shot replies.                                                        *)
(*                                                                         *)
(* A row is named by its local_seq.  The in-memory copy of a row and the    *)
(* row itself change in the same worker step (sent_count), so a row's       *)
(* columns are kept once, under the disk variables.                         *)
(***************************************************************************)
EXTENDS Integers, Sequences, FiniteSets, Functions

CONSTANTS
    Clients,         \* tasks that share the Arc<LocalBuffer>
    Pushers,         \* those that call push,
    Takers,          \* next, ack and requeue,
    Closers,         \* and shutdown
    Gone,            \* stands for a caller whose future was dropped
    Msgs,            \* message_id values
    NoMsg,
    Cost,            \* record_cost of a message
    Invalid,         \* messages whose telemetry_topic is rejected
    MemoryRecords,   \* config.memory_records
    DiskMaxBytes,    \* config.disk_max_bytes
    Policy,          \* config.capacity_policy
    ChannelCapacity, \* CHANNEL_CAPACITY
    MaxWaiters,      \* MAX_WAITERS_PER_RECORD
    MaxSeq,          \* bound: rows ever inserted
    MaxAged,         \* bound: messages past their retention at a time
    MaxFaults        \* bound: database errors and crashes

ASSUME ClientsAssumption ==
    Gone \notin Clients /\ Pushers \cup Takers \cup Closers \subseteq Clients
ASSUME MsgsAssumption == NoMsg \notin Msgs /\ Invalid \subseteq Msgs
ASSUME CostAssumption == Cost \in [Msgs -> Nat \ {0}]
ASSUME ConfigAssumption ==
    /\ MemoryRecords \in Nat \ {0}
    /\ DiskMaxBytes \in Nat
    /\ Policy \in {"Reject", "Backpressure"}
ASSUME BoundsAssumption ==
    /\ ChannelCapacity \in Nat \ {0}
    /\ MaxWaiters \in Nat \ {0}
    /\ MaxSeq \in Nat
    /\ MaxAged \in Nat
    /\ MaxFaults \in Nat

Seqs == 1 .. MaxSeq

VARIABLES
    (* the database file: survives crashes *)
    disk,       \* local_seq values with a row in table batches
    msgOf,      \* message_id of each row
    sent,       \* rows with sent_count > 0
    aged,       \* messages whose record is past the retention time (created_at_ns)
    seqCtr,     \* sqlite_sequence: the last local_seq AUTOINCREMENT gave out
    (* WorkerState and the worker's program counter *)
    pc,
    mem,        \* send queue, a sequence of local_seq
    inflight,   \* handed out by next, not yet acked or requeued
    pending,    \* pending_push: messages waiting for space, oldest first
    lastLoaded,
    recoverWm,  \* recover_watermark
    loadErr,    \* load_error.is_some()
    bytes,
    confirm,    \* pending_confirm: state of each delivery channel
    progress,
    (* the channel and the callers *)
    chan,       \* commands in FIFO order
    call,       \* the call each client is blocked in
    holds,      \* batches a client has obtained and not yet settled
    (* history and bounds *)
    promised,   \* messages push has answered Ok for, while they must be kept
    out,        \* rows a caller was offered, in any run of the process
    faults

diskVars == <<disk, msgOf, sent, aged, seqCtr>>
winVars == <<mem, inflight, lastLoaded, loadErr>>
callVars == <<chan, call, holds>>
vars == <<disk, msgOf, sent, aged, seqCtr, pc, mem, inflight, pending,
          lastLoaded, recoverWm, loadErr, bytes, confirm, progress,
          chan, call, holds, promised, out, faults>>

-----------------------------------------------------------------------------
(* Abbreviations *)

Queued == Range(mem)
Loaded == Queued \cup inflight
Held == Len(mem) + Cardinality(inflight)
StoredMsgs == {msgOf[s] : s \in disk}

(* Estimated size of a set of rows: record_cost bytes for each.             *)
BytesOf(rows) == UNION {{s} \X (1 .. Cost[msgOf[s]]) : s \in rows}
CostOf(rows) == Cardinality(BytesOf(rows))

IdleCall == [op |-> "idle", msg |-> NoMsg, seq |-> 0, replayed |-> FALSE]
Call(o, m, s) == [op |-> o, msg |-> m, seq |-> s, replayed |-> FALSE]
Cmd(o, m, s, c) == [op |-> o, msg |-> m, seq |-> s, by |-> c]

Ops == {"push", "next", "ack", "requeue", "shutdown"}

Calls ==
    [op : Ops \cup {"idle", "wait"}, msg : Msgs \cup {NoMsg}, seq : Seqs \cup {0},
     replayed : BOOLEAN]
    \cup [op : {"offered"}, msg : Msgs \cup {NoMsg}, seq : Seqs, replayed : BOOLEAN]
Cmds == [op : Ops, msg : Msgs \cup {NoMsg}, seq : Seqs \cup {0},
         by : Clients \cup {Gone}]

(* Clients blocked on the pending entry of message m (PendingPush.replies). *)
Waiters(m) == {c \in Clients : call[c].op = "wait" /\ call[c].msg = m}

(* The calls of the clients in cs return. *)
Return(cs) == call' = [c \in Clients |-> IF c \in cs THEN IdleCall ELSE call[c]]

(* The ascending enumeration of a finite set of numbers: one sequence. *)
Ascending(S) ==
    {f \in [1 .. Cardinality(S) -> S] :
        /\ \A i, j \in DOMAIN f : i < j => f[i] < f[j]
        /\ \A x \in S : \E i \in DOMAIN f : f[i] = x}

(* q without the elements of S, in order (VecDeque::retain). *)
Without(q, S) ==
    {[i \in DOMAIN f |-> q[f[i]]] :
        f \in Ascending({i \in DOMAIN q : q[i] \notin S})}

(* SELECT ... ORDER BY local_seq LIMIT n: the n lowest of rows. *)
Lowest(rows, n) ==
    {p \in SUBSET rows :
        /\ Cardinality(p) = IF Cardinality(rows) < n THEN Cardinality(rows) ELSE n
        /\ \A s \in p, t \in rows \ p : s < t}

Page(rows, n) == UNION {Ascending(p) : p \in Lowest(rows, n)}

(* Mutant of Reinsert: failed records go to the back of the queue. *)
ReinsertAtBack(q, s) == {Append(q, s)}

(* q with s in front of the first greater element (handle_requeue). *)
Reinsert(q, s) ==
    {SubSeq(q, 1, p - 1) \o <<s>> \o SubSeq(q, p, Len(q)) :
        p \in {k \in 1 .. Len(q) + 1 :
                  /\ \A i \in 1 .. k - 1 : q[i] <= s
                  /\ k <= Len(q) => q[k] > s}}

(* DELETE FROM batches for the rows; the promise to keep their messages ends. *)
DeleteRows(rows) ==
    /\ disk' = disk \ rows
    /\ msgOf' = [s \in Seqs |-> IF s \in rows THEN NoMsg ELSE msgOf[s]]
    /\ sent' = sent \ rows
    /\ out' = out \ rows
    /\ aged' = aged \ {msgOf[s] : s \in rows}
    /\ promised' = promised \ {msgOf[s] : s \in rows}

(* Mutant of Freed: nothing is released. *)
FreedNothing(rows) == bytes

(* state.bytes.saturating_sub *)
Freed(rows) == IF CostOf(rows) > bytes THEN 0 ELSE bytes - CostOf(rows)

(* A database call fails. *)
Fault == faults < MaxFaults /\ faults' = faults + 1

-----------------------------------------------------------------------------
(* Opening the database and the worker's maintenance pass *)

Init ==
    /\ disk = {} /\ msgOf = [s \in Seqs |-> NoMsg]
    /\ sent = {} /\ aged = {} /\ seqCtr = 0
    /\ pc = "down" /\ mem = <<>> /\ inflight = {} /\ pending = <<>>
    /\ lastLoaded = 0 /\ recoverWm = 0 /\ loadErr = FALSE
    /\ bytes = 0 /\ confirm = [s \in Seqs |-> "none"] /\ progress = FALSE
    /\ chan = <<>> /\ call = [c \in Clients |-> IdleCall]
    /\ holds = [c \in Clients |-> {}]
    /\ promised = {} /\ out = {} /\ faults = 0

(* LocalBuffer::open of a file this module has written: open_db reads the   *)
(* watermark, the byte total and the first page; worker_loop starts with an *)
(* empty WorkerState otherwise.  A file refused for its schema or version,  *)
(* or that cannot be read, leaves the buffer down with nothing changed.     *)
Open ==
    /\ pc = "down"
    /\ recoverWm' \in {w \in disk \cup {0} : \A s \in disk : s <= w}
    /\ bytes' = CostOf(disk)
    /\ mem' \in Page(disk, MemoryRecords)
    /\ lastLoaded' = IF mem' = <<>> THEN 0 ELSE mem'[Len(mem')]
    /\ inflight' = {} /\ pending' = <<>> /\ loadErr' = FALSE
    /\ confirm' = [s \in Seqs |-> "none"] /\ progress' = FALSE
    /\ pc' = "confirm"
    /\ UNCHANGED <<diskVars, callVars, promised, out, faults>>

(* Mutant of Requeue: the record stays in flight. *)
RequeueNothing(s) == s \in inflight /\ UNCHANGED <<mem, inflight>>

(* The record goes back into the send queue at its place. *)
Requeue(s) ==
    /\ s \in inflight
    /\ inflight' = inflight \ {s}
    /\ mem' \in Reinsert(mem, s)

(* check_pending_confirm, run at the top of the loop and again before each  *)
(* command: a confirmed entry is dropped, ...                               *)
ConfirmTaken(s) ==
    /\ pc \in {"confirm", "cmd"}
    /\ confirm[s] = "taken"
    /\ confirm' = [confirm EXCEPT ![s] = "none"]
    /\ UNCHANGED <<diskVars, winVars, callVars, pc, pending, recoverWm, bytes,
                   progress, promised, out, faults>>

(* ... and the record of a closed one is requeued.  Only the pass at the    *)
(* top of the loop counts as progress.                                      *)
ConfirmClosed(s) ==
    /\ pc \in {"confirm", "cmd"}
    /\ confirm[s] = "closed"
    /\ confirm' = [confirm EXCEPT ![s] = "none"]
    /\ Requeue(s)
    /\ progress' = (progress \/ pc = "confirm")
    /\ UNCHANGED <<diskVars, callVars, pc, pending, lastLoaded, recoverWm,
                   loadErr, bytes, promised, out, faults>>

ConfirmsSettled == \A s \in Seqs : confirm[s] \notin {"taken", "closed"}

ConfirmDone ==
    /\ pc = "confirm"
    /\ ConfirmsSettled
    /\ pc' = "cleanup"
    /\ UNCHANGED <<diskVars, winVars, callVars, pending, recoverWm, bytes,
                   confirm, progress, promised, out, faults>>

(* Mutant of Expired: rows in flight expire too. *)
ExpiredAnywhere == {s \in disk : msgOf[s] \in aged}

Expired == {s \in Queued : msgOf[s] \in aged}

(* cleanup_expired: one transaction deletes every expired row of the send   *)
(* queue, then the queue and the byte total follow; on a database error     *)
(* nothing changes.                                                         *)
CleanupExpired ==
    /\ pc = "cleanup"
    /\ DeleteRows(Expired)
    /\ mem' \in Without(mem, Expired)
    /\ bytes' = Freed(Expired)
    /\ progress' = (progress \/ Expired # {})
    /\ pc' = "load"
    /\ UNCHANGED <<seqCtr, callVars, pending, inflight, lastLoaded,
                   recoverWm, loadErr, confirm, faults>>

CleanupFails ==
    /\ pc = "cleanup"
    /\ Expired # {}
    /\ Fault
    /\ pc' = "load"
    /\ UNCHANGED <<diskVars, winVars, callVars, pending, recoverWm, bytes,
                   confirm, progress, promised, out>>

(* Mutants of AboveWatermark: rows in flight are not looked at; the last    *)
(* inserted row is taken for loaded.                                        *)
AboveQueue ==
    {s \in disk : IF Queued = {} THEN s > lastLoaded ELSE \A h \in Queued : s > h}
AboveInserts == {s \in disk : s > seqCtr}

(* Rows above the highest local_seq in memory, or above the last loaded one *)
(* when memory is empty.                                                    *)
AboveWatermark ==
    {s \in disk : IF Loaded = {} THEN s > lastLoaded ELSE \A h \in Loaded : s > h}

(* load_more: fill the window with the rows above the watermark.            *)
LoadMore ==
    /\ pc = "load"
    /\ Held < MemoryRecords
    /\ \E page \in Page(AboveWatermark, MemoryRecords - Held) :
          /\ mem' = mem \o page
          /\ lastLoaded' = IF page = <<>> THEN lastLoaded ELSE page[Len(page)]
    /\ loadErr' = FALSE
    /\ pc' = "flush"
    /\ UNCHANGED <<diskVars, callVars, pending, inflight, recoverWm, bytes,
                   confirm, progress, promised, out, faults>>

LoadSkipped ==
    /\ pc = "load"
    /\ Held >= MemoryRecords
    /\ pc' = "flush"
    /\ UNCHANGED <<diskVars, winVars, callVars, pending, recoverWm, bytes,
                   confirm, progress, promised, out, faults>>

LoadFails ==
    /\ pc = "load"
    /\ Held < MemoryRecords
    /\ Fault
    /\ loadErr' = TRUE
    /\ pc' = "flush"
    /\ UNCHANGED <<diskVars, callVars, pending, mem, inflight, lastLoaded,
                   recoverWm, bytes, confirm, progress, promised, out>>

(* capacity_full *)
CapacityFull(m) == bytes + Cost[m] > DiskMaxBytes

(* A new row may enter the send queue: the window has room and no older row *)
(* is waiting behind a failed load.                                         *)
WindowOpen == ~loadErr /\ Held < MemoryRecords

(* insert_record, and the record's entry into the send queue. *)
InsertRow(m) ==
    /\ seqCtr < MaxSeq
    /\ seqCtr' = seqCtr + 1
    /\ disk' = disk \cup {seqCtr'}
    /\ msgOf' = [msgOf EXCEPT ![seqCtr'] = m]
    /\ bytes' = bytes + Cost[m]
    /\ mem' = IF WindowOpen THEN Append(mem, seqCtr') ELSE mem
    /\ UNCHANGED <<sent, inflight, lastLoaded, recoverWm, loadErr, confirm, out>>

(* flush_pending_push, one entry at a time; every waiter of the entry gets  *)
(* the outcome of the insert.                                               *)
FlushPendingPush ==
    /\ pc = "flush"
    /\ pending # <<>>
    /\ LET m == Head(pending) IN
          /\ ~CapacityFull(m)
          /\ InsertRow(m)
          /\ promised' = IF Waiters(m) = {} THEN promised ELSE promised \cup {m}
          /\ Return(Waiters(m))
    /\ pending' = Tail(pending)
    /\ progress' = TRUE
    /\ UNCHANGED <<pc, aged, chan, holds, faults>>

FlushFails ==
    /\ pc = "flush"
    /\ pending # <<>>
    /\ ~CapacityFull(Head(pending))
    /\ Fault
    /\ Return(Waiters(Head(pending)))
    /\ pending' = Tail(pending)
    /\ UNCHANGED <<diskVars, winVars, pc, recoverWm, bytes, confirm, progress,
                   chan, holds, promised, out>>

(* End of the pass: go round again after progress, else wait for a command. *)
FlushDone ==
    /\ pc = "flush"
    /\ pending # <<>> => CapacityFull(Head(pending))
    /\ pc' = IF progress THEN "confirm" ELSE "recv"
    /\ progress' = FALSE
    /\ UNCHANGED <<diskVars, winVars, callVars, pending, recoverWm, bytes,
                   confirm, promised, out, faults>>

(* recv_timeout: a command is there, or the wait ends at the earliest       *)
(* expiry of a queued record (one hour when there is none).                 *)
RecvCmd ==
    /\ pc = "recv"
    /\ chan # <<>>
    /\ pc' = "cmd"
    /\ UNCHANGED <<diskVars, winVars, callVars, pending, recoverWm, bytes,
                   confirm, progress, promised, out, faults>>

RecvTimeout ==
    /\ pc = "recv"
    /\ chan = <<>>
    /\ pc' = "confirm"
    /\ UNCHANGED <<diskVars, winVars, callVars, pending, recoverWm, bytes,
                   confirm, progress, promised, out, faults>>

-----------------------------------------------------------------------------
(* Commands *)

(* The command at the head of the channel is handled and the loop restarts. *)
Dispatch(o) ==
    /\ pc = "cmd"
    /\ ConfirmsSettled
    /\ Head(chan).op = o
    /\ chan' = Tail(chan)
    /\ pc' = "confirm"
    /\ progress' = FALSE

(* prune_cancelled_waiters: entries nobody waits for any more are dropped.  *)
Pruned == Without(pending, {m \in Msgs : Waiters(m) = {}})

OnTheWay(m) == \E s \in inflight : msgOf[s] = m

(* Mutant of AlreadyStored: a message that only waits for space counts. *)
AlreadyStoredOrWaiting(m, p) == OnTheWay(m) \/ m \in StoredMsgs \/ m \in Range(p)

AlreadyStored(m, p) == OnTheWay(m) \/ (m \in StoredMsgs /\ m \notin Range(p))

(* push_inner, the record is already stored: Ok without overwriting it.     *)
PushKnown ==
    /\ Dispatch("push")
    /\ pending' \in Pruned
    /\ LET m == Head(chan).msg IN
          /\ m \notin Invalid
          /\ AlreadyStored(m, pending')
          /\ promised' = IF Head(chan).by = Gone THEN promised ELSE promised \cup {m}
    /\ Return({Head(chan).by})
    /\ UNCHANGED <<diskVars, winVars, holds, recoverWm, bytes, confirm, out, faults>>

(* The same message already waits for space: share its outcome.             *)
PushJoins ==
    /\ Dispatch("push")
    /\ pending' \in Pruned
    /\ LET h == Head(chan) IN
          /\ h.msg \notin Invalid
          /\ ~OnTheWay(h.msg)
          /\ h.msg \in Range(pending')
          /\ Cardinality(Waiters(h.msg)) < MaxWaiters
          /\ call' = [c \in Clients |->
                         IF c = h.by THEN Call("wait", h.msg, 0) ELSE call[c]]
    /\ UNCHANGED <<diskVars, winVars, holds, recoverWm, bytes, confirm,
                   promised, out, faults>>

(* m is neither stored (in flight or not) nor waiting in p. *)
IsNew(m, p) == m \notin Range(p) /\ m \notin StoredMsgs

(* No space and the policy is to wait. *)
PushWaits ==
    /\ Dispatch("push")
    /\ Policy = "Backpressure"
    /\ LET h == Head(chan) IN
          /\ h.msg \notin Invalid
          /\ Cost[h.msg] <= DiskMaxBytes
          /\ CapacityFull(h.msg)
          /\ \E p \in Pruned :
                /\ IsNew(h.msg, p)
                /\ Len(p) < MemoryRecords
                /\ pending' = Append(p, h.msg)
          /\ aged' = aged \ {h.msg}
          /\ call' = [c \in Clients |->
                         IF c = h.by THEN Call("wait", h.msg, 0) ELSE call[c]]
    /\ UNCHANGED <<disk, msgOf, sent, seqCtr, winVars, holds, recoverWm, bytes,
                   confirm, promised, out, faults>>

(* Written to the database; the answer follows the commit.                  *)
PushStored ==
    /\ Dispatch("push")
    /\ pending' \in Pruned
    /\ LET m == Head(chan).msg IN
          /\ m \notin Invalid
          /\ IsNew(m, pending')
          /\ ~CapacityFull(m)
          /\ InsertRow(m)
          /\ aged' = aged \ {m}
          /\ promised' = IF Head(chan).by = Gone THEN promised ELSE promised \cup {m}
    /\ Return({Head(chan).by})
    /\ UNCHANGED <<holds, faults>>

(* Every early return of push_inner that answers an error.                  *)
PushRefused ==
    /\ Dispatch("push")
    /\ pending' \in Pruned
    /\ LET m == Head(chan).msg IN
          \/ m \in Invalid
          \/ /\ ~OnTheWay(m)
             /\ m \in Range(pending')
             /\ Cardinality(Waiters(m)) >= MaxWaiters
          \/ /\ m \notin Invalid
             /\ IsNew(m, pending')
             /\ CapacityFull(m)
             /\ \/ Cost[m] > DiskMaxBytes
                \/ Len(pending') >= MemoryRecords
                \/ Policy = "Reject"
    /\ Return({Head(chan).by})
    /\ UNCHANGED <<diskVars, winVars, holds, recoverWm, bytes, confirm,
                   promised, out, faults>>

(* The lookup by message_id or the insert fails.                            *)
PushFails ==
    /\ Dispatch("push")
    /\ pending' \in Pruned
    /\ LET m == Head(chan).msg IN
          /\ m \notin Invalid
          /\ ~OnTheWay(m)
          /\ m \notin Range(pending')
    /\ Fault
    /\ Return({Head(chan).by})
    /\ UNCHANGED <<diskVars, winVars, holds, recoverWm, bytes, confirm,
                   promised, out>>

(* handle_next with an empty send queue: None, or the pending load error.   *)
NextEmpty ==
    /\ Dispatch("next")
    /\ mem = <<>>
    /\ Return({Head(chan).by})
    /\ UNCHANGED <<diskVars, winVars, holds, pending, recoverWm, bytes, confirm,
                   promised, out, faults>>

Replayed(s) == s \in sent \/ s <= recoverWm

(* handle_next: the head of the send queue, flagged as a replay when it was *)
(* handed out before or was found on disk by open_db.                       *)
NextOffered ==
    /\ Dispatch("next")
    /\ mem # <<>>
    /\ Head(chan).by # Gone
    /\ LET s == Head(mem) IN
          /\ sent' = sent \cup {s}
          /\ inflight' = inflight \cup {s}
          /\ confirm' = [confirm EXCEPT ![s] = "waiting"]
          /\ out' = out \cup {s}
          /\ call' = [call EXCEPT ![Head(chan).by] =
                         [op |-> "offered", msg |-> msgOf[s], seq |-> s,
                          replayed |-> Replayed(s)]]
    /\ mem' = Tail(mem)
    /\ UNCHANGED <<disk, msgOf, aged, seqCtr, holds, pending, lastLoaded,
                   recoverWm, loadErr, bytes, promised, faults>>

(* The caller is gone: reply.send fails and the record is requeued.         *)
NextUndelivered ==
    /\ Dispatch("next")
    /\ mem # <<>>
    /\ Head(chan).by = Gone
    /\ sent' = sent \cup {Head(mem)}
    /\ mem' \in Reinsert(Tail(mem), Head(mem))
    /\ UNCHANGED <<disk, msgOf, aged, seqCtr, call, holds, pending, inflight,
                   lastLoaded, recoverWm, loadErr, bytes, confirm, promised,
                   out, faults>>

(* UPDATE fails: the record goes back to the front and the error is         *)
(* returned.                                                                *)
NextFails ==
    /\ Dispatch("next")
    /\ mem # <<>>
    /\ Fault
    /\ Return({Head(chan).by})
    /\ UNCHANGED <<diskVars, winVars, holds, pending, recoverWm, bytes, confirm,
                   promised, out>>

(* handle_ack: delete the row; the in-flight entry and its bytes follow     *)
(* only if a row was deleted.                                               *)
AckDeletes ==
    /\ Dispatch("ack")
    /\ LET c == Head(chan).by
           row == {Head(chan).seq} \cap disk
       IN /\ DeleteRows(row)
          /\ inflight' = inflight \ row
          /\ bytes' = Freed(row \cap inflight)
          /\ holds' = [holds EXCEPT ![c] = @ \ {Head(chan).seq}]
          /\ Return({c})
    /\ UNCHANGED <<seqCtr, pending, mem, lastLoaded, recoverWm, loadErr,
                   confirm, faults>>

AckFails ==
    /\ Dispatch("ack")
    /\ Fault
    /\ Return({Head(chan).by})
    /\ UNCHANGED <<diskVars, winVars, holds, pending, recoverWm, bytes, confirm,
                   promised, out>>

(* handle_requeue; no-op for a record that is no longer in flight.          *)
RequeueRecord ==
    /\ Dispatch("requeue")
    /\ LET c == Head(chan).by
           s == Head(chan).seq
       IN /\ \/ Requeue(s)
             \/ s \notin inflight /\ UNCHANGED <<mem, inflight>>
          /\ holds' = [holds EXCEPT ![c] = @ \ {s}]
          /\ Return({c})
    /\ UNCHANGED <<diskVars, pending, lastLoaded, recoverWm, loadErr, bytes,
                   confirm, promised, out, faults>>

(* Shutdown: waiting pushes and queued commands are answered Closed, the    *)
(* database is closed and the worker ends.  A reply already in a one-shot   *)
(* channel can still be taken.                                              *)
Shutdown ==
    /\ pc = "cmd"
    /\ ConfirmsSettled
    /\ Head(chan).op = "shutdown"
    /\ pc' = "closed"
    /\ chan' = <<>>
    /\ pending' = <<>>
    /\ Return({c \in Clients : call[c].op # "offered"})
    /\ UNCHANGED <<diskVars, winVars, holds, recoverWm, bytes, confirm,
                   progress, promised, out, faults>>

-----------------------------------------------------------------------------
(* Callers *)

CanSend(c) ==
    /\ pc \notin {"down", "closed"}
    /\ call[c].op = "idle"
    /\ Len(chan) < ChannelCapacity

Send(c, o, m, s) ==
    /\ CanSend(c)
    /\ chan' = Append(chan, Cmd(o, m, s, c))
    /\ call' = [call EXCEPT ![c] = Call(o, m, s)]
    /\ UNCHANGED <<diskVars, winVars, pc, pending, recoverWm, bytes, confirm,
                   progress, holds, promised, out, faults>>

(* Bound: every push on its way can still be given a local_seq.             *)
PushRoom ==
    seqCtr + Len(pending) + Cardinality({i \in DOMAIN chan : chan[i].op = "push"}) < MaxSeq

CallPush(c, m) == PushRoom /\ Send(c, "push", m, 0)
CallNext(c) == Send(c, "next", NoMsg, 0)
CallShutdown(c) == Send(c, "shutdown", NoMsg, 0)

(* A caller settles a batch it holds, or repeats a settlement that is done. *)
MaySettle(c, s) == s \in holds[c] \/ (s <= seqCtr /\ s \notin disk)
CallAck(c, s) == MaySettle(c, s) /\ Send(c, "ack", NoMsg, s)
CallRequeue(c, s) == MaySettle(c, s) /\ Send(c, "requeue", NoMsg, s)

(* LocalBuffer::next takes the reply and confirms the delivery at once.     *)
TakeReply(c) ==
    /\ call[c].op = "offered"
    /\ holds' = [holds EXCEPT ![c] = @ \cup {call[c].seq}]
    /\ call' = [call EXCEPT ![c] = IdleCall]
    /\ confirm' = [confirm EXCEPT ![call[c].seq] = "taken"]
    /\ UNCHANGED <<diskVars, winVars, pc, pending, recoverWm, bytes, progress,
                   chan, promised, out, faults>>

(* The future of a push or next is dropped: in the channel, in the waiting  *)
(* list, or with its reply still untaken.                                   *)
Cancel(c) ==
    /\ call[c].op \in {"push", "wait", "next", "offered"}
    /\ call' = [call EXCEPT ![c] = IdleCall]
    /\ chan' = [i \in DOMAIN chan |->
                   IF chan[i].by = c THEN [chan[i] EXCEPT !.by = Gone] ELSE chan[i]]
    /\ confirm' = [s \in Seqs |->
                     IF call[c].op = "offered" /\ call[c].seq = s THEN "closed"
                     ELSE confirm[s]]
    /\ UNCHANGED <<diskVars, winVars, pc, pending, recoverWm, bytes, progress,
                   holds, promised, out, faults>>

(* Time: a record passes its retention time (in any order: the wall clock   *)
(* may step).                                                               *)
Age(m) ==
    /\ Cardinality(aged) < MaxAged
    /\ m \in (StoredMsgs \cup Range(pending)) \ aged
    /\ aged' = aged \cup {m}
    /\ UNCHANGED <<disk, msgOf, sent, seqCtr, winVars, callVars, pc, pending,
                   recoverWm, bytes, confirm, progress, promised, out, faults>>

(* The process ends: only the database file survives.                       *)
ProcessEnds ==
    /\ pc' = "down"
    /\ mem' = <<>> /\ inflight' = {} /\ pending' = <<>>
    /\ lastLoaded' = 0 /\ recoverWm' = 0 /\ loadErr' = FALSE /\ bytes' = 0
    /\ confirm' = [s \in Seqs |-> "none"] /\ progress' = FALSE
    /\ chan' = <<>> /\ call' = [c \in Clients |-> IdleCall]
    /\ holds' = [c \in Clients |-> {}]
    /\ UNCHANGED <<diskVars, promised, out>>

Crash == pc \notin {"down", "closed"} /\ Fault /\ ProcessEnds
Exit == pc = "closed" /\ ProcessEnds /\ UNCHANGED faults

-----------------------------------------------------------------------------
Maintenance ==
    \/ \E s \in Seqs : ConfirmTaken(s) \/ ConfirmClosed(s)
    \/ ConfirmDone
    \/ CleanupExpired \/ CleanupFails
    \/ LoadMore \/ LoadSkipped \/ LoadFails
    \/ FlushPendingPush \/ FlushFails \/ FlushDone
    \/ RecvCmd \/ RecvTimeout

Command ==
    \/ PushKnown \/ PushJoins \/ PushWaits \/ PushStored \/ PushRefused \/ PushFails
    \/ NextEmpty \/ NextOffered \/ NextUndelivered \/ NextFails
    \/ AckDeletes \/ AckFails
    \/ RequeueRecord
    \/ Shutdown

Caller ==
    \/ \E c \in Pushers, m \in Msgs : CallPush(c, m)
    \/ \E c \in Takers : CallNext(c)
    \/ \E c \in Takers, s \in Seqs : CallAck(c, s) \/ CallRequeue(c, s)
    \/ \E c \in Closers : CallShutdown(c)
    \/ \E c \in Clients : TakeReply(c) \/ Cancel(c)

Next ==
    \/ Open
    \/ Maintenance
    \/ Command
    \/ Caller
    \/ \E m \in Msgs : Age(m)
    \/ Crash
    \/ Exit

Spec == Init /\ [][Next]_vars

NextAnswered(c) == pc = "cmd" /\ Head(chan).by = c /\ (NextEmpty \/ NextOffered \/ NextFails)

(* The worker thread is scheduled, the process is restarted, and a taker    *)
(* that keeps asking keeps getting through: its next is not always dropped  *)
(* before the reply or before it is taken (the select! of run_forward is    *)
(* unbiased), and a batch it can keep acking is acked in the end.           *)
Fairness ==
    /\ WF_vars(Open)
    /\ WF_vars(Maintenance \/ Command)
    /\ \A c \in Takers :
          /\ SF_vars(CallNext(c))
          /\ []<>(call[c].op = "next") => []<><<NextAnswered(c)>>_vars
          /\ SF_vars(TakeReply(c))
          /\ \A s \in Seqs : SF_vars(s \in holds[c] /\ CallAck(c, s))

LiveSpec == Spec /\ Fairness

-----------------------------------------------------------------------------
(* Properties *)

DiskType ==
    /\ disk \subseteq Seqs /\ sent \subseteq Seqs
    /\ msgOf \in [Seqs -> Msgs \cup {NoMsg}]
    /\ aged \subseteq Msgs
    /\ seqCtr \in 0 .. MaxSeq

WorkerType ==
    /\ pc \in {"down", "closed", "confirm", "cleanup", "load", "flush", "recv", "cmd"}
    /\ mem \in Seq(Seqs) /\ inflight \subseteq Seqs
    /\ pending \in Seq(Msgs)
    /\ lastLoaded \in 0 .. MaxSeq /\ recoverWm \in 0 .. MaxSeq
    /\ loadErr \in BOOLEAN /\ progress \in BOOLEAN
    /\ bytes \in Nat
    /\ confirm \in [Seqs -> {"none", "waiting", "taken", "closed"}]

CallerType ==
    /\ chan \in Seq(Cmds)
    /\ call \in [Clients -> Calls]
    /\ holds \in [Clients -> SUBSET Seqs]

HistoryType ==
    /\ promised \subseteq Msgs /\ out \subseteq Seqs
    /\ faults \in 0 .. MaxFaults

(* Every variable has its type. *)
TypeOK == DiskType /\ WorkerType /\ CallerType /\ HistoryType

(* The send queue is in ascending local_seq order, never holds a row that   *)
(* is also in flight, and the window holds only rows that are on disk and   *)
(* at most memory_records of them (mem, inflight: WorkerState).             *)
WindowSound ==
    /\ \A i, j \in DOMAIN mem : i < j => mem[i] < mem[j]
    /\ Queued \cap inflight = {}
    /\ Loaded \subseteq disk
    /\ Held <= MemoryRecords

(* next hands out rows in replay order: the row that becomes in flight is   *)
(* the lowest local_seq on disk that is not in flight already, also when    *)
(* most rows are outside the memory window, after failed page loads, after  *)
(* requeues and after a restart (handle_next: "lowest local_seq first").    *)
InReplayOrder ==
    [][\A s \in inflight' \ inflight :
          s \in disk /\ \A t \in disk \ inflight : s <= t]_vars

(* next answers None only when no row is waiting to be sent or the whole    *)
(* memory window is in flight: rows outside the window are never forgotten. *)
NoneIsSound ==
    [][NextEmpty /\ ~loadErr =>
          disk \subseteq inflight \/ Cardinality(inflight) >= MemoryRecords]_vars

(* A message whose push was answered Ok has its row on disk until it is     *)
(* acked or expires: no crash, shutdown, shared waiter or full disk loses   *)
(* it (push_inner, flush_pending_push).                                     *)
Durable == promised \subseteq StoredMsgs

(* A row leaves the disk only because its caller acked it or because it     *)
(* expired in the send queue; an in-flight row never expires.               *)
LeavesByAckOrExpiry ==
    [][\A s \in disk \ disk' :
          \/ s \in inflight /\ s \notin inflight'
          \/ s \in Queued /\ msgOf[s] \in aged]_vars

(* The buffer keeps the contract its callers rely on (BufferContract),      *)
(* whatever the worker, its channel and its window are doing: messages are  *)
(* stored once and in order, next hands out the lowest row that is not out, *)
(* a row leaves by the ack of the caller that received it or by expiry      *)
(* while it is not out, and a promise outlives the process (LocalBuffer).   *)
Contract == INSTANCE BufferContract WITH
    rows <- [s \in disk |-> msgOf[s]],
    last <- seqCtr,
    old <- {s \in disk : msgOf[s] \in aged},
    taken <- inflight,
    held <- holds
KeepsBufferContract == Contract!Spec

(* Every in-flight row is somebody's: a caller holds it, or its reply is    *)
(* still untaken, or the worker is about to see that the caller went away.  *)
(* A cancelled next strands no row (pending_confirm).                       *)
InflightOwned ==
    \A s \in inflight :
        \/ \E c \in Clients : s \in holds[c]
        \/ confirm[s] = "closed"
        \/ \E c \in Clients : call[c].op = "offered" /\ call[c].seq = s

(* What a caller holds is in flight and nobody else holds or is offered it. *)
HoldsExclusive ==
    \A c \in Clients : \A s \in holds[c] :
        /\ s \in inflight
        /\ \A d \in Clients \ {c} : s \notin holds[d]
        /\ \A d \in Clients : call[d].op = "offered" => call[d].seq # s

(* The capacity counter equals the cost of the rows on disk and respects    *)
(* the configured limit (record_cost, capacity_full).                       *)
BytesExact ==
    pc # "down" => bytes = CostOf(disk) /\ bytes <= DiskMaxBytes

(* Everything stored is delivered and acked in the end, or expires:         *)
(* whatever the worker loses sight of (window, failed loads, cancelled      *)
(* calls, crashes) comes back to the taker.                                 *)
StoredIsDrained == \A s \in Seqs : s \in disk ~> s \notin disk

(* A push blocked on a full disk is answered once acks make room.           *)
WaitersServed == \A c \in Clients : call[c].op = "wait" ~> call[c].op # "wait"

(* Does not hold (README, Findings).  The comment on cleanup_expired: the   *)
(* retention time never deletes a record that was sent and not confirmed.   *)
SentOutlivesRetention ==
    [][\A s \in disk \ disk' : s \in sent => s \in inflight]_vars

(* A blocked push waits behind an entry of the bounded waiting queue, whose *)
(* messages are distinct and not yet stored, so that the insert of a        *)
(* flushed entry meets no UNIQUE conflict.                                  *)
WaitersQueued ==
    /\ \A c \in Clients : call[c].op = "wait" => call[c].msg \in Range(pending)
    /\ \A i, j \in DOMAIN pending : i # j => pending[i] # pending[j]
    /\ Range(pending) \cap StoredMsgs = {}
    /\ Len(pending) <= MemoryRecords

(* The two counts behind the back pressure: the bytes follow the rows       *)
(* through failed statements, expiry, acks and restarts, and no blocked     *)
(* push loses its place in the waiting queue (capacity_full, PendingPush).  *)
SpaceAccounted == BytesExact /\ WaitersQueued

-----------------------------------------------------------------------------
(* What the safety properties rest on: together with them, an inductive     *)
(* invariant.                                                               *)

(* Rows have been numbered by AUTOINCREMENT and carry a message. *)
RowsNumbered ==
    /\ disk \subseteq 1 .. seqCtr
    /\ lastLoaded <= seqCtr
    /\ \A s \in disk : msgOf[s] \in Msgs

(* Rows outside the window are above every row in it and above the last     *)
(* loaded one: load_more can find them.                                     *)
BacklogAbove ==
    \A u \in disk \ Loaded : u > lastLoaded /\ \A h \in Loaded : h < u

(* After a successful load the window is full or holds everything.          *)
WindowFilled ==
    pc \in {"flush", "recv", "cmd"} /\ ~loadErr =>
        disk \subseteq Loaded \/ Held >= MemoryRecords

(* A command in the channel is the call its sender is blocked in; only a    *)
(* push or a next has been abandoned, and a push carries a message.         *)
CommandsAreCalls ==
    /\ pc = "cmd" => chan # <<>>
    /\ \A i \in DOMAIN chan :
          /\ chan[i].op = "push" => chan[i].msg \in Msgs
          /\ IF chan[i].by = Gone
             THEN chan[i].op \in {"push", "next"}
             ELSE call[chan[i].by].op = chan[i].op /\ call[chan[i].by].seq = chan[i].seq
          /\ \A j \in DOMAIN chan :
                i # j /\ chan[i].by # Gone => chan[j].by # chan[i].by

(* A row being settled is held by its caller or is already deleted. *)
SettlesOwn ==
    \A c \in Clients : call[c].op \in {"ack", "requeue"} =>
        \/ call[c].seq \in holds[c]
        \/ call[c].seq <= seqCtr /\ call[c].seq \notin disk

(* Each registered delivery is for a row in flight that nobody holds yet,   *)
(* unless it has been taken; an untaken reply has a registered delivery.    *)
DeliveriesRegistered ==
    /\ \A s \in Seqs : confirm[s] # "none" => s \in inflight
    /\ \A s \in Seqs : confirm[s] \in {"waiting", "closed"} =>
          \A c \in Clients : s \notin holds[c]
    /\ \A c \in Clients : call[c].op = "offered" =>
          /\ call[c].seq \in Seqs
          /\ confirm[call[c].seq] = "waiting"
          /\ \A d \in Clients \ {c} :
                ~(call[d].op = "offered" /\ call[d].seq = call[c].seq)

(* A process that is not running has no calls, commands or held rows.       *)
DownIsEmpty ==
    pc = "down" =>
        /\ mem = <<>> /\ inflight = {} /\ lastLoaded = 0
        /\ chan = <<>>
        /\ \A c \in Clients : call[c].op = "idle" /\ holds[c] = {}
=============================================================================
