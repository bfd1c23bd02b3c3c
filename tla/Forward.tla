------------------------------ MODULE Forward ------------------------------
(***************************************************************************)
(* The send path of the collector: run_forward (apps/collector tasks.rs)    *)
(* takes batches from the pipeline's output channel, stores them in the     *)
(* local buffer, publishes the head of the buffer over MQTT and deletes a   *)
(* row once the broker has acknowledged it; CollectorRuntime::shutdown      *)
(* (runtime.rs) stops it and stores what it could not.                      *)
(*                                                                         *)
(* Batches are numbered in the order the pipeline emits them.  The buffer   *)
(* is seen through what LocalBuffer proves of it: rows are handed out       *)
(* lowest local_seq first, None only when no row is queued, a cancelled     *)
(* next gives its row back, push is idempotent.  The MQTT client is seen    *)
(* through its receipts; a publication whose receipt nobody awaits any more *)
(* may still reach the broker.                                              *)
(***************************************************************************)
EXTENDS Integers, Sequences, FiniteSets

CONSTANTS
    MaxBatches,   \* bound: batches the pipeline emits, over all sessions
    OutCap,       \* capacity of the output channel
    DiskRows,     \* disk_max_bytes, in rows
    Policies,     \* values of capacity_policy
    Retries,      \* PUSH_TRANSIENT_RETRIES
    Prompt,       \* TRUE: the loop runs on at once whenever it is not waiting
    Expiring,     \* batches that reach the retention time
    MaxSignals,   \* stopping.send(true) is called once or twice
    MaxSessions,  \* bound: process starts
    MaxFaults     \* bound: database errors, slow pushes, failed publications, crashes

ASSUME ForwardAssumption ==
    /\ MaxBatches \in Nat /\ OutCap \in Nat \ {0} /\ DiskRows \in Nat \ {0}
    /\ Policies \subseteq {"Reject", "Backpressure"}
    /\ Retries \in Nat /\ MaxSignals \in Nat /\ MaxSessions \in Nat \ {0} /\ MaxFaults \in Nat
    /\ Prompt \in BOOLEAN
    /\ Expiring \subseteq 1 .. MaxBatches

Batches == 1 .. MaxBatches
None == 0

VARIABLES
    (* the pipeline's output *)
    emitted,     \* batches permit.send has put into the channel so far
    outq,        \* the channel
    open,        \* the pipeline still holds the sender
    (* the buffer *)
    wal,         \* batches with a row on disk
    seqOf,       \* their local_seq
    lastSeq,
    taken,       \* rows in flight: handed out, neither acked nor requeued
    policy,      \* config.capacity_policy, the same in every session
    (* MQTT *)
    flying,      \* publications the client has accepted and not settled
    pubacked,    \* batches the broker has acknowledged
    receipt,     \* of the publication the loop awaits
    (* run_forward *)
    pc, hand, left, cur, pendingRetry, suspended, outClosed, draining,
    deadline,    \* the drain deadline has passed
    (* the runtime *)
    stop,        \* the watch channel: not sent, an unseen change, a seen one
    signals, stage, lost,
    (* history and bounds *)
    reported,    \* batches given up with an error in the log
    expired,     \* rows deleted by the retention time
    crashed,     \* batches that were only in memory when the process was killed
    unread,      \* batches left in the channel when run_forward dropped it
    sessions, faults

outVars == <<emitted, outq, open, unread>>
walVars == <<wal, seqOf, lastSeq, taken, expired, policy>>
mqttVars == <<flying, pubacked, receipt>>
loopVars == <<pc, hand, left, cur, pendingRetry, suspended, outClosed, draining>>
runVars == <<stop, signals, stage, lost, reported, crashed, sessions>>
vars == <<emitted, outq, open, unread, wal, seqOf, lastSeq, taken, expired, policy,
          flying, pubacked, receipt, pc, hand, left, cur, pendingRetry, suspended,
          outClosed, draining, deadline, stop, signals, stage, lost, reported, crashed, sessions, faults>>

Fault == faults < MaxFaults /\ faults' = faults + 1

Init ==
    /\ emitted = 0 /\ outq = <<>> /\ open = TRUE
    /\ wal = {} /\ seqOf = [b \in Batches |-> 0] /\ lastSeq = 0 /\ taken = {}
    /\ policy \in Policies
    /\ flying = {} /\ pubacked = {} /\ receipt = "none"
    /\ pc = "top" /\ hand = None /\ left = 0 /\ cur = None /\ pendingRetry = None
    /\ suspended = FALSE /\ outClosed = FALSE /\ draining = FALSE /\ deadline = FALSE
    /\ stop = "no" /\ signals = 0 /\ stage = "running" /\ lost = <<>>
    /\ reported = {} /\ expired = {} /\ crashed = {} /\ unread = {} /\ sessions = 1 /\ faults = 0

-----------------------------------------------------------------------------
(* The buffer, as its callers see it *)

Room(b) == b \in wal \/ Cardinality(wal) < DiskRows

Insert(b) ==
    /\ wal' = wal \cup {b}
    /\ seqOf' = IF b \in wal THEN seqOf ELSE [seqOf EXCEPT ![b] = lastSeq + 1]
    /\ lastSeq' = IF b \in wal THEN lastSeq ELSE lastSeq + 1
    /\ UNCHANGED <<taken, expired, policy>>

PushOk(b) == Room(b) /\ Insert(b) /\ UNCHANGED faults

(* Nobody frees space within PUSH_CAPACITY_WAIT; or the disk is slow, and the
   abandoned command is carried out all the same.                            *)
PushTimeout(b) ==
    \/ ~Room(b) /\ policy = "Backpressure" /\ UNCHANGED <<walVars, faults>>
    \/ Room(b) /\ Fault /\ (Insert(b) \/ UNCHANGED walVars)

PushRefused(b) == ~Room(b) /\ policy = "Reject" /\ UNCHANGED <<walVars, faults>>

PushDbError(b) == Fault /\ UNCHANGED walVars

Queued == wal \ taken

IsHead(b) == b \in Queued /\ \A a \in Queued : seqOf[b] <= seqOf[a]

(* cleanup_expired of the buffer: see LocalBuffer. *)
Expire(b) ==
    /\ stage # "down"
    /\ b \in Queued \cap Expiring
    /\ wal' = wal \ {b} /\ expired' = expired \cup {b}
    /\ UNCHANGED <<outVars, seqOf, lastSeq, taken, policy, mqttVars, loopVars, deadline,
                   runVars, faults>>

-----------------------------------------------------------------------------
(* The head of the loop *)

(* Mutant of MustDrain: a change that was seen elsewhere is not noticed. *)
MustDrainOnChange == ~draining /\ stop = "unseen"

MustDrain == ~draining /\ stop # "no"

EnterDrain ==
    /\ pc = "top" /\ MustDrain
    /\ draining' = TRUE
    /\ UNCHANGED <<outVars, walVars, mqttVars, pc, hand, left, cur, pendingRetry,
                   suspended, outClosed, deadline, runVars, faults>>

Range(q) == {q[i] : i \in DOMAIN q}

(* The receiver of the channel is dropped with what nobody has received. *)
DropReceiver == outq' = <<>> /\ unread' = unread \cup Range(outq)

(* The task ends: a batch the loop still holds goes to the lost queue. *)
Ended(b) ==
    /\ pc' = "ended" /\ hand' = None /\ pendingRetry' = None /\ cur' = None /\ left' = 0
    /\ lost' = IF b = None THEN lost ELSE Append(lost, b)
    /\ DropReceiver
    /\ UNCHANGED <<emitted, open, suspended, outClosed, draining, deadline,
                   stop, signals, stage, reported, crashed, sessions>>

DrainTimedOut ==
    /\ pc = "top" /\ draining /\ deadline
    /\ Ended(pendingRetry)
    /\ UNCHANGED <<walVars, mqttVars, faults>>

(* Which branch of the body runs. *)
Retrying == pc = "body" /\ pendingRetry # None
Suspended == pc = "body" /\ pendingRetry = None /\ suspended
Closed == pc = "body" /\ pendingRetry = None /\ ~suspended /\ outClosed
Selecting == pc = "body" /\ pendingRetry = None /\ ~suspended /\ ~outClosed

Goto(l) ==
    /\ pc' = l
    /\ UNCHANGED <<hand, left, cur, pendingRetry, suspended, outClosed, draining>>

Proceed ==
    /\ pc = "top" /\ ~MustDrain /\ ~(draining /\ deadline)
    /\ Goto("body")
    /\ UNCHANGED <<outVars, walVars, mqttVars, deadline, runVars, faults>>

-----------------------------------------------------------------------------
(* Receiving from the output channel and push_batch *)

(* Mutant of MayRecv: a batch waiting for space does not hold back the next. *)
MayRecvWhileRetrying == pc \in {"body", "idle"} /\ ~outClosed

MayRecv == pc = "idle" \/ Suspended \/ Selecting

RecvBatch ==
    /\ MayRecv /\ outq # <<>>
    /\ hand' = Head(outq) /\ outq' = Tail(outq)
    /\ left' = Retries /\ pc' = "push"
    /\ UNCHANGED <<emitted, open, unread, walVars, mqttVars, cur, pendingRetry, suspended,
                   outClosed, draining, deadline, runVars, faults>>

RecvClosed ==
    /\ MayRecv /\ outq = <<>> /\ ~open
    /\ IF Suspended
       THEN Ended(None)
       ELSE /\ outClosed' = TRUE /\ pc' = "top"
            /\ UNCHANGED <<outVars, hand, left, cur, pendingRetry, suspended, draining,
                           deadline, runVars>>
    /\ UNCHANGED <<walVars, mqttVars, faults>>

PushStored ==
    /\ pc = "push" /\ PushOk(hand)
    /\ pc' = "top" /\ hand' = None /\ left' = 0
    /\ UNCHANGED <<outVars, mqttVars, cur, pendingRetry, suspended, outClosed, draining,
                   deadline, runVars>>

PushAgain ==
    /\ pc = "push" /\ left > 0 /\ PushDbError(hand)
    /\ left' = left - 1
    /\ UNCHANGED <<outVars, mqttVars, pc, hand, cur, pendingRetry, suspended, outClosed,
                   draining, deadline, runVars>>

(* Mutant of PushFatal: the batch of a fatal push is only logged. *)
PushFatalForgets ==
    /\ pc = "push"
    /\ PushRefused(hand) \/ (left = 0 /\ PushDbError(hand))
    /\ Ended(None)
    /\ UNCHANGED mqttVars

PushFatal ==
    /\ pc = "push"
    /\ PushRefused(hand) \/ (left = 0 /\ PushDbError(hand))
    /\ Ended(hand)
    /\ UNCHANGED mqttVars

PushOverflow ==
    /\ pc = "push" /\ PushTimeout(hand)
    /\ pendingRetry' = hand /\ hand' = None /\ left' = 0 /\ pc' = "top"
    /\ UNCHANGED <<outVars, mqttVars, cur, suspended, outClosed, draining, deadline,
                   runVars>>

-----------------------------------------------------------------------------
(* A batch that waits for space is pushed again before anything else *)

RetryStored ==
    /\ Retrying /\ PushOk(pendingRetry)
    /\ pendingRetry' = None /\ pc' = "top"
    /\ UNCHANGED <<outVars, mqttVars, hand, left, cur, suspended, outClosed, draining,
                   deadline, runVars>>

RetryFatal ==
    /\ Retrying
    /\ PushRefused(pendingRetry) \/ PushDbError(pendingRetry)
    /\ Ended(pendingRetry)
    /\ UNCHANGED mqttVars

RetryTimeout ==
    /\ Retrying /\ PushTimeout(pendingRetry)
    /\ Goto(IF suspended THEN "top" ELSE "take")
    /\ UNCHANGED <<outVars, mqttVars, deadline, runVars>>

-----------------------------------------------------------------------------
(* Taking the head of the buffer *)

MayTake == pc = "take" \/ Closed \/ Selecting

(* publish_stored and the publish_batch call of forward_batch, which hands the
   publication over at once: the request channel has room, as the loop has at
   most one publication outstanding and there are fewer devices, each with one
   status at the start, than publish_capacity (README, Findings).            *)
NextSome(b) ==
    /\ MayTake /\ IsHead(b)
    /\ taken' = taken \cup {b} /\ cur' = b
    /\ flying' = flying \cup {b} /\ receipt' = "waiting" /\ pc' = "await"
    /\ UNCHANGED <<outVars, wal, seqOf, lastSeq, expired, policy, pubacked, hand, left,
                   pendingRetry, suspended, outClosed, draining, deadline, runVars, faults>>

(* publish_batch returns an error: requeue, the record never left. *)
PublishRejected(b) ==
    /\ MayTake /\ IsHead(b) /\ Fault
    /\ Goto("top")
    /\ UNCHANGED <<outVars, walVars, mqttVars, deadline, runVars>>

NextNone ==
    /\ MayTake /\ Queued = {}
    /\ IF Closed /\ draining
       THEN Ended(None)
       ELSE /\ Goto(IF Selecting /\ ~draining THEN "idle" ELSE "top")
            /\ UNCHANGED <<outVars, deadline, runVars>>
    /\ UNCHANGED <<walVars, mqttVars, faults>>

NextFails ==
    /\ MayTake /\ Fault
    /\ Goto("top")
    /\ UNCHANGED <<outVars, walVars, mqttVars, deadline, runVars>>

IdleTick ==
    /\ pc = "idle"
    /\ Goto("top")
    /\ UNCHANGED <<outVars, walVars, mqttVars, deadline, runVars, faults>>

StopSeen ==
    /\ pc = "idle" \/ Selecting
    /\ stop = "unseen" /\ stop' = "seen"
    /\ Goto("top")
    /\ UNCHANGED <<outVars, walVars, mqttVars, deadline, signals, stage, lost, reported,
                   crashed, sessions, faults>>

-----------------------------------------------------------------------------
(* forward_batch: waiting for the PUBACK *)

(* Mutant of StopTaking: the loop goes on with the next record. *)
KeepTaking ==
    /\ cur' = None /\ pc' = "top"
    /\ UNCHANGED <<hand, left, pendingRetry, suspended, outClosed, draining, outVars,
                   deadline, lost, signals, stage, reported, crashed, sessions>>

(* The wait is given up; the record stays in flight. *)
StopTaking ==
    IF outClosed /\ pendingRetry = None
    THEN /\ pc' = "ended" /\ cur' = None /\ DropReceiver
         /\ UNCHANGED <<emitted, open, hand, left, pendingRetry, suspended, outClosed,
                        draining, deadline, lost, signals, stage, reported, crashed,
                        sessions>>
    ELSE /\ cur' = None /\ suspended' = TRUE /\ pc' = "top"
         /\ UNCHANGED <<hand, left, pendingRetry, outClosed, draining, outVars, deadline,
                        lost, signals, stage, reported, crashed, sessions>>

Interrupted ==
    /\ pc = "await" /\ stop = "unseen"
    /\ stop' = "seen" /\ receipt' = "none"
    /\ StopTaking
    /\ UNCHANGED <<walVars, flying, pubacked, faults>>

AwaitTimedOut ==
    /\ pc = "await" /\ stop # "unseen" /\ draining /\ deadline /\ receipt = "waiting"
    /\ receipt' = "none"
    /\ StopTaking
    /\ UNCHANGED <<walVars, flying, pubacked, stop, faults>>

Settle ==
    /\ cur' = None /\ receipt' = "none" /\ pc' = "top"
    /\ UNCHANGED <<outVars, flying, pubacked, hand, left, pendingRetry, suspended,
                   outClosed, draining, deadline, runVars>>

Acked ==
    /\ pc = "await" /\ stop # "unseen" /\ receipt = "ok"
    /\ wal' = wal \ {cur} /\ taken' = taken \ {cur}
    /\ UNCHANGED <<seqOf, lastSeq, expired, policy, faults>>
    /\ Settle

(* buffer.ack fails: the row stays in flight until the next start. *)
AckFails ==
    /\ pc = "await" /\ stop # "unseen" /\ receipt = "ok" /\ Fault
    /\ UNCHANGED walVars
    /\ Settle

Failed ==
    /\ pc = "await" /\ stop # "unseen" /\ receipt = "err"
    /\ taken' = taken \ {cur}
    /\ UNCHANGED <<wal, seqOf, lastSeq, expired, policy, faults>>
    /\ Settle

-----------------------------------------------------------------------------
(* The MQTT client and the broker *)

Puback(b) ==
    /\ b \in flying
    /\ flying' = flying \ {b} /\ pubacked' = pubacked \cup {b}
    /\ receipt' = IF b = cur /\ receipt = "waiting" THEN "ok" ELSE receipt
    /\ UNCHANGED <<outVars, walVars, loopVars, deadline, runVars, faults>>

(* Disconnected, Closed or CollisionOverwritten. *)
Unacked(b) ==
    /\ b \in flying /\ Fault
    /\ flying' = flying \ {b}
    /\ receipt' = IF b = cur /\ receipt = "waiting" THEN "err" ELSE receipt
    /\ UNCHANGED <<outVars, walVars, pubacked, loopVars, deadline, runVars>>

-----------------------------------------------------------------------------
(* The pipeline and the runtime *)

Emit ==
    /\ open /\ pc # "ended" /\ stage \in {"running", "stopping"}
    /\ emitted < MaxBatches /\ Len(outq) < OutCap
    /\ emitted' = emitted + 1 /\ outq' = Append(outq, emitted + 1)
    /\ UNCHANGED <<open, unread, walVars, mqttVars, loopVars, deadline, runVars, faults>>

(* A signal, the end of the REST service or of run_forward itself; the two
   paths that report an error send the stop signal twice.                    *)
Stop ==
    /\ stage \in {"running", "stopping"} /\ signals < MaxSignals
    /\ stage' = "stopping" /\ stop' = "unseen" /\ signals' = signals + 1
    /\ UNCHANGED <<outVars, walVars, mqttVars, loopVars, deadline, lost, reported,
                   crashed, sessions, faults>>

(* Pipeline::shutdown has emitted what it held and drops the sender. *)
PipelineDone ==
    /\ stage = "stopping" /\ open
    /\ open' = FALSE
    /\ UNCHANGED <<emitted, outq, unread, walVars, mqttVars, loopVars, deadline, runVars, faults>>

(* The loop waits for a PUBACK, for output, for space or for the idle tick. *)
Waiting ==
    \/ pc = "await" /\ receipt = "waiting" /\ stop # "unseen"
    \/ Suspended /\ outq = <<>> /\ open
    \/ Retrying
    \/ pc = "idle"

DeadlinePasses ==
    /\ draining /\ ~deadline /\ pc # "ended"
    /\ Prompt => Waiting
    /\ deadline' = TRUE
    /\ UNCHANGED <<outVars, walVars, mqttVars, loopVars, runVars, faults>>

(* Steps 3 and 4 of shutdown: join the loop, then settle every publication. *)
SettleMqtt ==
    /\ stage = "stopping" /\ ~open /\ pc = "ended"
    /\ stage' = "settling" /\ flying' = {}
    /\ UNCHANGED <<outVars, walVars, pubacked, receipt, loopVars, deadline, stop, signals,
                   lost, reported, crashed, sessions, faults>>

(* Step 4.5: the lost queue is stored, or given up with an error. *)
StoreLost ==
    /\ stage = "settling" /\ lost # <<>>
    /\ lost' = Tail(lost)
    /\ \/ PushOk(Head(lost)) /\ UNCHANGED reported
       \/ /\ \/ PushTimeout(Head(lost))
             \/ PushRefused(Head(lost))
             \/ PushDbError(Head(lost))
          /\ reported' = reported \cup {Head(lost)}
    /\ UNCHANGED <<outVars, mqttVars, loopVars, deadline, stop, signals, stage, crashed,
                   sessions>>

(* The process ends; a new one finds every row of the file queued. *)
ProcessEnds ==
    /\ stage' = "down"
    /\ outq' = <<>> /\ open' = FALSE /\ taken' = {} /\ flying' = {} /\ receipt' = "none"
    /\ pc' = "ended" /\ hand' = None /\ left' = 0 /\ cur' = None /\ pendingRetry' = None
    /\ suspended' = FALSE /\ outClosed' = FALSE /\ draining' = FALSE /\ deadline' = FALSE
    /\ stop' = "no" /\ signals' = 0 /\ lost' = <<>>
    /\ UNCHANGED <<emitted, unread, wal, seqOf, lastSeq, expired, policy, pubacked, reported,
                   sessions>>

CloseBuffer ==
    /\ stage = "settling" /\ lost = <<>>
    /\ ProcessEnds
    /\ UNCHANGED <<crashed, faults>>

InMemory == (Range(outq) \cup Range(lost) \cup {hand, pendingRetry}) \ {None}

Crash ==
    /\ stage # "down" /\ Fault
    /\ ProcessEnds
    /\ crashed' = crashed \cup InMemory

Restart ==
    /\ stage = "down" /\ sessions < MaxSessions
    /\ stage' = "running" /\ open' = TRUE /\ pc' = "top" /\ sessions' = sessions + 1
    /\ UNCHANGED <<emitted, outq, unread, walVars, mqttVars, hand, left, cur, pendingRetry,
                   suspended, outClosed, draining, deadline, stop, signals, lost, reported,
                   crashed, faults>>

-----------------------------------------------------------------------------
LoopHead == EnterDrain \/ DrainTimedOut \/ Proceed
Storing ==
    \/ RecvBatch \/ RecvClosed
    \/ PushStored \/ PushAgain \/ PushFatal \/ PushOverflow
    \/ RetryStored \/ RetryFatal \/ RetryTimeout
Publishing ==
    \/ \E b \in Batches : NextSome(b) \/ PublishRejected(b)
    \/ NextNone \/ NextFails \/ IdleTick \/ StopSeen
    \/ Interrupted \/ AwaitTimedOut \/ Acked \/ AckFails \/ Failed
RunForward == LoopHead \/ Storing \/ Publishing
Runtime == Stop \/ PipelineDone \/ SettleMqtt \/ StoreLost \/ CloseBuffer

Next ==
    \/ RunForward \/ Runtime
    \/ \E b \in Batches : Puback(b) \/ Unacked(b) \/ Expire(b)
    \/ Emit \/ DeadlinePasses \/ Crash \/ Restart

Spec == Init /\ [][Next]_vars

(* The task is scheduled, the drain deadline passes, and every step of
   shutdown is bounded; the broker need not answer.                         *)
Fairness ==
    /\ WF_vars(RunForward) /\ WF_vars(DeadlinePasses)
    /\ WF_vars(pc = "ended" /\ stage = "running" /\ Stop)
    /\ WF_vars(PipelineDone) /\ WF_vars(SettleMqtt)
    /\ WF_vars(StoreLost) /\ WF_vars(CloseBuffer)

LiveSpec == Spec /\ Fairness

-----------------------------------------------------------------------------
Slot == Batches \cup {None}

OutType ==
    /\ emitted \in 0 .. MaxBatches /\ outq \in Seq(Batches) /\ Len(outq) <= OutCap
    /\ unread \subseteq Batches

WalType ==
    /\ wal \subseteq Batches /\ seqOf \in [Batches -> Nat] /\ lastSeq \in Nat
    /\ taken \subseteq wal /\ expired \subseteq Batches /\ policy \in Policies

MqttType ==
    /\ flying \subseteq Batches /\ pubacked \subseteq Batches
    /\ receipt \in {"none", "waiting", "ok", "err"}

LoopType ==
    /\ pc \in {"top", "body", "take", "idle", "push", "await", "ended"}
    /\ hand \in Slot /\ left \in 0 .. Retries /\ cur \in Slot /\ pendingRetry \in Slot

FlagType ==
    /\ open \in BOOLEAN /\ deadline \in BOOLEAN
    /\ suspended \in BOOLEAN /\ outClosed \in BOOLEAN /\ draining \in BOOLEAN

RunType ==
    /\ stop \in {"no", "unseen", "seen"} /\ signals \in 0 .. MaxSignals
    /\ stage \in {"running", "stopping", "settling", "down"}
    /\ lost \in Seq(Batches) /\ Len(lost) <= 1
    /\ reported \subseteq Batches /\ crashed \subseteq Batches
    /\ sessions \in 1 .. MaxSessions /\ faults \in 0 .. MaxFaults

(* Types of the variables; the lost queue never holds more than one batch, so
   its capacity (128) is never reached.                                      *)
TypeOK == OutType /\ WalType /\ MqttType /\ LoopType /\ FlagType /\ RunType

(* Batches enter the WAL in the order the pipeline emitted them, whatever
   pushes time out, are retried, or are stored only during shutdown
   (run_forward, pending_retry: the order of the WAL is not broken).        *)
WalInOrder ==
    \A a, b \in wal : a < b => seqOf[a] < seqOf[b]

(* A row is deleted only when the broker has acknowledged it, and then every
   older row has been acknowledged too: no record is confirmed before one
   whose publication the shutdown interrupted (forward_batch).              *)
ConfirmedInOrder ==
    [][\A b \in wal \ wal' :
          b \notin expired' =>
              \A a \in wal : seqOf[a] <= seqOf[b] => a \in pubacked]_vars

(* A batch the loop has received is never lost without a word: it is stored,
   acknowledged, held for a retry, in the lost queue, or given up with an
   error in the log (push_batch, settle_lost, step 4.5 of shutdown).        *)
ReceivedIsAccounted ==
    \A b \in 1 .. emitted :
        \/ b \in Range(outq) \/ b \in wal \/ b \in pubacked \/ b \in expired
        \/ b \in {hand, pendingRetry} \/ b \in Range(lost)
        \/ b \in reported \/ b \in crashed \/ b \in unread

(* The shutdown ends although the broker never answers (forward_batch races
   the PUBACK with the stop signal and the drain deadline).                 *)
ShutdownEnds == (stage = "stopping" \/ pc = "ended") ~> stage = "down"

(* Does not hold (README, Findings).
   A publication that the shutdown or the drain deadline interrupts only stops
   the taking of records: the output is still stored to its end ("nothing the
   pipeline drained is lost", StopTaking in tasks.rs).  So a loop that was
   interrupted does not end with batches left in the channel.                *)
InterruptedStillStores == suspended /\ pc = "ended" => unread = {}
=============================================================================
