--------------------------- MODULE ForwardProofs ---------------------------
(***************************************************************************)
(* Proofs about Forward, for every number of batches, every channel and     *)
(* disk size and every number of faults, signals and sessions.              *)
(***************************************************************************)
EXTENDS Forward, TLAPS

(* Where the control is and what the loop then holds. *)
ControlInv ==
    /\ hand # None <=> pc = "push"
    /\ cur # None <=> pc = "await"
    /\ hand # None => pendingRetry = None
    /\ pc = "idle" => pendingRetry = None
    /\ pc \in {"await", "take", "idle"} => ~suspended
    /\ lost # <<>> => pc = "ended"
    /\ pc = "ended" => pendingRetry = None /\ outq = <<>>
    /\ stage = "settling" => pc = "ended"
    /\ stage = "down" => pc = "ended" /\ lost = <<>> /\ taken = {} /\ ~suspended

(* The channel holds batches in the order of emission. *)
ChannelOrder ==
    /\ \A i, j \in DOMAIN outq : i < j => outq[i] < outq[j]
    /\ \A i \in DOMAIN outq : outq[i] <= emitted

(* Batch x is older than the channel and not older than any row. *)
NextToStore(x) ==
    /\ x <= emitted
    /\ \A i \in DOMAIN outq : x < outq[i]
    /\ \A a \in wal : a <= x

HeldNext == \A x \in {hand, pendingRetry} : x # None => NextToStore(x)
LostNext == \A k \in DOMAIN lost : NextToStore(lost[k])
RowsOlder == \A a \in wal : a <= emitted /\ \A i \in DOMAIN outq : a < outq[i]
RowsNumbered == (\A a \in wal : seqOf[a] <= lastSeq) /\ WalInOrder

(* What is not stored yet is newer than every row, in the order of emission,
   and the rows are numbered in that order.                                  *)
OrderInv == ChannelOrder /\ HeldNext /\ LostNext /\ RowsOlder /\ RowsNumbered

(* Every row in flight other than the one awaited has been acknowledged,
   unless the loop has stopped taking records; no queued row is older than
   the one awaited.                                                          *)
ConfirmInv ==
    /\ pc = "await" => cur \in taken /\ \A a \in wal \ taken : seqOf[cur] <= seqOf[a]
    /\ receipt = "ok" /\ pc = "await" => cur \in pubacked
    /\ ~suspended /\ pc # "ended" => \A a \in taken : a = cur \/ a \in pubacked

IInv == TypeOK /\ ControlInv /\ OrderInv /\ ConfirmInv

-----------------------------------------------------------------------------
(* Types *)

(* What nobody has received is a set of batches. *)
LEMMA DropReceiverType ==
  ASSUME OutType, DropReceiver, emitted' = emitted
  PROVE  OutType'
<1>1. Range(outq) \subseteq Batches
  BY DEF OutType, Range
<1> QED
  BY <1>1, ForwardAssumption DEF OutType, DropReceiver

(* Storing a batch keeps the types of the buffer. *)
LEMMA InsertType ==
  ASSUME WalType, NEW b \in Batches, Insert(b)
  PROVE  WalType'
<1>1. CASE b \in wal
  BY <1>1 DEF Insert, WalType
<1>2. CASE b \notin wal
  <2>1. seqOf' \in [Batches -> Nat] /\ lastSeq' \in Nat
    BY <1>2 DEF Insert, WalType
  <2> QED
    BY <2>1 DEF Insert, WalType
<1> QED
  BY <1>1, <1>2

(* So does a push that timed out, carried out or not. *)
LEMMA PushTimeoutType ==
  ASSUME WalType, NEW b \in Batches, PushTimeout(b)
  PROVE  WalType'
<1>1. CASE UNCHANGED walVars
  BY <1>1 DEF walVars, WalType
<1>2. CASE Insert(b)
  BY <1>2, InsertType
<1> QED
  BY <1>1, <1>2 DEF PushTimeout

(* What the end of the task does to the lost queue. *)
LEMMA EndedLost ==
  ASSUME NEW b \in Slot, Ended(b), lost = <<>>
  PROVE  lost' \in Seq(Batches) /\ Len(lost') <= 1
<1>1. CASE b = None
  BY <1>1 DEF Ended
<1>2. CASE b # None
  <2>1. b \in Batches /\ lost' = <<b>>
    BY <1>2 DEF Ended, Slot
  <2> QED
    BY <2>1
<1> QED
  BY <1>1, <1>2

(* Each part of TypeOK is kept by every step. *)
LEMMA OutTypeStep ==
  ASSUME TypeOK, ControlInv, [Next]_vars
  PROVE  OutType'
<1> USE ForwardAssumption DEF None, Batches
<1>1. ASSUME UNCHANGED <<emitted, outq, unread>> PROVE OutType'
  BY <1>1 DEF TypeOK, OutType
<1>2. CASE EnterDrain \/ Proceed \/ PushStored \/ PushAgain \/ PushOverflow \/
           RetryStored
  BY <1>1, <1>2 DEF EnterDrain, Proceed, PushStored, PushAgain, PushOverflow,
     RetryStored, outVars
<1>3. CASE RetryTimeout \/ NextFails \/ IdleTick \/ StopSeen \/ Acked \/ AckFails
  BY <1>1, <1>3 DEF RetryTimeout, NextFails, IdleTick, StopSeen, Acked, AckFails,
     outVars, Settle
<1>4. CASE Failed \/ Stop \/ PipelineDone \/ SettleMqtt \/ StoreLost \/
           DeadlinePasses
  BY <1>1, <1>4 DEF Failed, Stop, PipelineDone, SettleMqtt, StoreLost,
     DeadlinePasses, Settle, outVars
<1>5. CASE Restart
  BY <1>1, <1>5 DEF Restart
<1>6. ASSUME NEW b \in Batches, NextSome(b) \/ PublishRejected(b) \/ Puback(b) \/
                                Unacked(b) \/ Expire(b)
      PROVE  OutType'
  BY <1>1, <1>6 DEF NextSome, PublishRejected, Puback, Unacked, Expire, outVars
<1>7. CASE DrainTimedOut
  BY <1>7, DropReceiverType DEF DrainTimedOut, Ended, TypeOK
<1>8. CASE RecvBatch
  BY <1>8 DEF RecvBatch, TypeOK, OutType
<1>9. CASE RecvClosed
  BY <1>9, DropReceiverType DEF RecvClosed, Ended, outVars, TypeOK, OutType
<1>10. CASE PushFatal
  BY <1>10, DropReceiverType DEF PushFatal, Ended, TypeOK
<1>11. CASE RetryFatal
  BY <1>11, DropReceiverType DEF RetryFatal, Ended, TypeOK
<1>12. CASE NextNone
  BY <1>12, DropReceiverType DEF NextNone, Ended, outVars, TypeOK, OutType
<1>13. CASE Interrupted
  BY <1>13, DropReceiverType DEF Interrupted, StopTaking, outVars, TypeOK, OutType
<1>14. CASE AwaitTimedOut
  BY <1>14, DropReceiverType DEF AwaitTimedOut, StopTaking, outVars, TypeOK, OutType
<1>15. CASE CloseBuffer
  BY <1>15 DEF CloseBuffer, ProcessEnds, None, TypeOK, OutType
<1>16. CASE Emit
  BY <1>16 DEF Emit, TypeOK, OutType
<1>17. CASE Crash
  BY <1>17 DEF Crash, ProcessEnds, TypeOK, OutType
<1>18. CASE UNCHANGED vars
  BY <1>1, <1>18 DEF vars
<1> QED
  BY <1>2, <1>3, <1>4, <1>5, <1>6, <1>7, <1>8, <1>9, <1>10, <1>11, <1>12, <1>13,
     <1>14, <1>15, <1>16, <1>17, <1>18 DEF Next, RunForward, Runtime, LoopHead,
     Storing, Publishing

(* The buffer. *)
LEMMA WalTypeStep ==
  ASSUME TypeOK, ControlInv, [Next]_vars
  PROVE  WalType'
<1> USE ForwardAssumption DEF None, Batches
<1>1. ASSUME UNCHANGED <<wal, seqOf, lastSeq, taken, expired, policy>> PROVE WalType'
  BY <1>1 DEF TypeOK, WalType
<1>2. CASE EnterDrain \/ DrainTimedOut \/ Proceed \/ RecvBatch \/ RecvClosed \/
           PushAgain
  BY <1>1, <1>2 DEF EnterDrain, DrainTimedOut, Proceed, RecvBatch, RecvClosed,
     PushAgain, walVars, PushDbError
<1>3. CASE PushFatal \/ RetryFatal \/ NextNone \/ NextFails \/ IdleTick \/ StopSeen
  BY <1>1, <1>3 DEF PushFatal, RetryFatal, NextNone, NextFails, IdleTick, StopSeen,
     PushRefused, walVars, PushDbError
<1>4. CASE Interrupted \/ AwaitTimedOut \/ AckFails \/ Stop \/ PipelineDone \/
           SettleMqtt
  BY <1>1, <1>4 DEF Interrupted, AwaitTimedOut, AckFails, Stop, PipelineDone,
     SettleMqtt, walVars
<1>5. CASE Emit \/ DeadlinePasses \/ Restart
  BY <1>1, <1>5 DEF Emit, DeadlinePasses, Restart, walVars
<1>6. ASSUME NEW b \in Batches, PublishRejected(b) \/ Puback(b) \/ Unacked(b)
      PROVE  WalType'
  BY <1>1, <1>6 DEF PublishRejected, Puback, Unacked, walVars
<1>7. CASE PushStored
  BY <1>7, InsertType DEF PushStored, PushOk, TypeOK, LoopType, Slot, ControlInv
<1>8. CASE PushOverflow
  BY <1>8, PushTimeoutType DEF PushOverflow, TypeOK, LoopType, Slot, ControlInv
<1>9. CASE RetryStored
  BY <1>9, InsertType DEF RetryStored, Retrying, PushOk, TypeOK, LoopType, Slot
<1>10. CASE RetryTimeout
  BY <1>10, PushTimeoutType DEF RetryTimeout, Retrying, TypeOK, LoopType, Slot
<1>11. CASE Acked
  BY <1>11 DEF Acked, TypeOK, WalType
<1>12. CASE Failed
  BY <1>12 DEF Failed, TypeOK, WalType
<1>13. CASE StoreLost
  <2>1. Head(lost) \in Batches
    BY <1>13 DEF StoreLost, TypeOK, RunType
  <2>2. CASE PushOk(Head(lost))
    BY <2>1, <2>2, InsertType DEF PushOk, TypeOK
  <2>3. CASE PushTimeout(Head(lost))
    BY <2>1, <2>3, PushTimeoutType DEF TypeOK
  <2>4. CASE PushRefused(Head(lost)) \/ PushDbError(Head(lost))
    BY <2>4 DEF PushRefused, PushDbError, walVars, TypeOK, WalType
  <2> QED
    BY <1>13, <2>2, <2>3, <2>4 DEF StoreLost
<1>14. CASE CloseBuffer
  BY <1>14 DEF CloseBuffer, ProcessEnds, TypeOK, WalType
<1>15. CASE Crash
  BY <1>15 DEF Crash, ProcessEnds, TypeOK, WalType
<1>16. ASSUME NEW b \in Batches, NextSome(b) PROVE WalType'
  BY <1>16 DEF NextSome, IsHead, Queued, TypeOK, WalType
<1>17. ASSUME NEW b \in Batches, Expire(b) PROVE WalType'
  BY <1>17 DEF Expire, Queued, TypeOK, WalType
<1>18. CASE UNCHANGED vars
  BY <1>1, <1>18 DEF vars
<1> QED
  BY <1>2, <1>3, <1>4, <1>5, <1>6, <1>7, <1>8, <1>9, <1>10, <1>11, <1>12, <1>13,
     <1>14, <1>15, <1>16, <1>17, <1>18 DEF Next, RunForward, Runtime, LoopHead,
     Storing, Publishing

(* The publications. *)
LEMMA MqttTypeStep ==
  ASSUME TypeOK, ControlInv, [Next]_vars
  PROVE  MqttType'
<1> USE ForwardAssumption DEF None, Batches
<1>1. ASSUME UNCHANGED <<flying, pubacked, receipt>> PROVE MqttType'
  BY <1>1 DEF TypeOK, MqttType
<1>2. CASE EnterDrain \/ DrainTimedOut \/ Proceed \/ RecvBatch \/ RecvClosed \/
           PushStored
  BY <1>1, <1>2 DEF EnterDrain, DrainTimedOut, Proceed, RecvBatch, RecvClosed,
     PushStored, mqttVars
<1>3. CASE PushAgain \/ PushFatal \/ PushOverflow \/ RetryStored \/ RetryFatal \/
           RetryTimeout
  BY <1>1, <1>3 DEF PushAgain, PushFatal, PushOverflow, RetryStored, RetryFatal,
     RetryTimeout, mqttVars
<1>4. CASE NextNone \/ NextFails \/ IdleTick \/ StopSeen \/ Stop \/ PipelineDone
  BY <1>1, <1>4 DEF NextNone, NextFails, IdleTick, StopSeen, Stop, PipelineDone,
     mqttVars
<1>5. CASE StoreLost \/ Emit \/ DeadlinePasses \/ Restart
  BY <1>1, <1>5 DEF StoreLost, Emit, DeadlinePasses, Restart, mqttVars
<1>6. ASSUME NEW b \in Batches, PublishRejected(b) \/ Expire(b)
      PROVE  MqttType'
  BY <1>1, <1>6 DEF PublishRejected, Expire, mqttVars
<1>7. CASE Interrupted
  BY <1>7 DEF Interrupted, TypeOK, MqttType
<1>8. CASE AwaitTimedOut
  BY <1>8 DEF AwaitTimedOut, TypeOK, MqttType
<1>9. CASE Acked
  BY <1>9 DEF Acked, Settle, TypeOK, MqttType
<1>10. CASE AckFails
  BY <1>10 DEF AckFails, Settle, TypeOK, MqttType
<1>11. CASE Failed
  BY <1>11 DEF Failed, Settle, TypeOK, MqttType
<1>12. CASE SettleMqtt
  BY <1>12 DEF SettleMqtt, TypeOK, MqttType
<1>13. CASE CloseBuffer
  BY <1>13 DEF CloseBuffer, ProcessEnds, None, TypeOK, MqttType
<1>14. CASE Crash
  BY <1>14 DEF Crash, ProcessEnds, TypeOK, MqttType
<1>15. ASSUME NEW b \in Batches, NextSome(b) PROVE MqttType'
  BY <1>15 DEF NextSome, TypeOK, MqttType
<1>16. ASSUME NEW b \in Batches, Puback(b) PROVE MqttType'
  BY <1>16 DEF Puback, TypeOK, MqttType
<1>17. ASSUME NEW b \in Batches, Unacked(b) PROVE MqttType'
  BY <1>17 DEF Unacked, TypeOK, MqttType
<1>18. CASE UNCHANGED vars
  BY <1>1, <1>18 DEF vars
<1> QED
  BY <1>2, <1>3, <1>4, <1>5, <1>6, <1>7, <1>8, <1>9, <1>10, <1>11, <1>12, <1>13,
     <1>14, <1>15, <1>16, <1>17, <1>18 DEF Next, RunForward, Runtime, LoopHead,
     Storing, Publishing

(* The registers of the loop. *)
LEMMA LoopTypeStep ==
  ASSUME TypeOK, ControlInv, [Next]_vars
  PROVE  LoopType'
<1> USE ForwardAssumption DEF None, Batches
<1>1. ASSUME UNCHANGED <<pc, hand, left, cur, pendingRetry>> PROVE LoopType'
  BY <1>1 DEF TypeOK, LoopType
<1>2. CASE EnterDrain \/ Stop \/ PipelineDone \/ SettleMqtt \/ StoreLost \/ Emit
  BY <1>1, <1>2 DEF EnterDrain, Stop, PipelineDone, SettleMqtt, StoreLost, Emit,
     loopVars
<1>3. CASE DeadlinePasses
  BY <1>1, <1>3 DEF DeadlinePasses, loopVars
<1>4. ASSUME NEW b \in Batches, Puback(b) \/ Unacked(b) \/ Expire(b)
      PROVE  LoopType'
  BY <1>1, <1>4 DEF Puback, Unacked, Expire, loopVars
<1>5. CASE DrainTimedOut
  BY <1>5 DEF DrainTimedOut, Ended, LoopType, Slot
<1>6. CASE Proceed
  BY <1>6 DEF Proceed, Goto, TypeOK, LoopType
<1>7. CASE RecvBatch
  BY <1>7 DEF RecvBatch, TypeOK, LoopType, OutType, Slot
<1>8. CASE RecvClosed
  BY <1>8 DEF RecvClosed, Suspended, Ended, TypeOK, LoopType
<1>9. CASE PushStored
  BY <1>9 DEF PushStored, TypeOK, LoopType, Slot
<1>10. CASE PushAgain
  BY <1>10 DEF PushAgain, TypeOK, LoopType
<1>11. CASE PushFatal
  BY <1>11 DEF PushFatal, Ended, LoopType, Slot
<1>12. CASE PushOverflow
  BY <1>12 DEF PushOverflow, TypeOK, LoopType, Slot
<1>13. CASE RetryStored
  BY <1>13 DEF RetryStored, TypeOK, LoopType, Slot
<1>14. CASE RetryFatal
  BY <1>14 DEF RetryFatal, Ended, LoopType, Slot
<1>15. CASE RetryTimeout
  BY <1>15 DEF RetryTimeout, Goto, TypeOK, LoopType
<1>16. CASE NextNone
  BY <1>16 DEF NextNone, Closed, Ended, Goto, TypeOK, LoopType
<1>17. CASE NextFails
  BY <1>17 DEF NextFails, Goto, TypeOK, LoopType
<1>18. CASE IdleTick
  BY <1>18 DEF IdleTick, Goto, TypeOK, LoopType
<1>19. CASE StopSeen
  BY <1>19 DEF StopSeen, Goto, TypeOK, LoopType
<1>20. CASE Interrupted
  BY <1>20 DEF Interrupted, StopTaking, TypeOK, LoopType, Slot
<1>21. CASE AwaitTimedOut
  BY <1>21 DEF AwaitTimedOut, StopTaking, TypeOK, LoopType, Slot
<1>22. CASE Acked
  BY <1>22 DEF Acked, Settle, TypeOK, LoopType, Slot
<1>23. CASE AckFails
  BY <1>23 DEF AckFails, Settle, TypeOK, LoopType, Slot
<1>24. CASE Failed
  BY <1>24 DEF Failed, Settle, TypeOK, LoopType, Slot
<1>25. CASE CloseBuffer
  BY <1>25 DEF CloseBuffer, ProcessEnds, LoopType, Slot
<1>26. CASE Crash
  BY <1>26 DEF Crash, ProcessEnds, LoopType, Slot
<1>27. CASE Restart
  BY <1>27 DEF Restart, TypeOK, LoopType
<1>28. ASSUME NEW b \in Batches, NextSome(b) PROVE LoopType'
  BY <1>28 DEF NextSome, TypeOK, LoopType, Slot
<1>29. ASSUME NEW b \in Batches, PublishRejected(b) PROVE LoopType'
  BY <1>29 DEF PublishRejected, Goto, TypeOK, LoopType
<1>30. CASE UNCHANGED vars
  BY <1>1, <1>30 DEF vars
<1> QED
  BY <1>2, <1>3, <1>4, <1>5, <1>6, <1>7, <1>8, <1>9, <1>10, <1>11, <1>12, <1>13,
     <1>14, <1>15, <1>16, <1>17, <1>18, <1>19, <1>20, <1>21, <1>22, <1>23, <1>24,
     <1>25, <1>26, <1>27, <1>28, <1>29, <1>30 DEF Next, RunForward, Runtime,
     LoopHead, Storing, Publishing

(* The flags. *)
LEMMA FlagTypeStep ==
  ASSUME TypeOK, ControlInv, [Next]_vars
  PROVE  FlagType'
<1> USE ForwardAssumption DEF None, Batches
<1>1. ASSUME UNCHANGED <<open, deadline, suspended, outClosed, draining>>
      PROVE  FlagType'
  BY <1>1 DEF TypeOK, FlagType
<1>2. CASE DrainTimedOut \/ Proceed \/ RecvBatch \/ PushStored \/ PushAgain \/
           PushFatal
  BY <1>1, <1>2 DEF DrainTimedOut, Proceed, RecvBatch, PushStored, PushAgain,
     PushFatal, Ended, Goto, outVars
<1>3. CASE PushOverflow \/ RetryStored \/ RetryFatal \/ RetryTimeout \/ NextNone \/
           NextFails
  BY <1>1, <1>3 DEF PushOverflow, RetryStored, RetryFatal, RetryTimeout, NextNone,
     NextFails, outVars, Ended, Goto
<1>4. CASE IdleTick \/ StopSeen \/ Acked \/ AckFails \/ Failed \/ Stop
  BY <1>1, <1>4 DEF IdleTick, StopSeen, Acked, AckFails, Failed, Stop, Goto,
     outVars, Settle, loopVars
<1>5. CASE SettleMqtt \/ StoreLost \/ Emit
  BY <1>1, <1>5 DEF SettleMqtt, StoreLost, Emit, outVars, loopVars
<1>6. ASSUME NEW b \in Batches, NextSome(b) \/ PublishRejected(b) \/ Puback(b) \/
                                Unacked(b) \/ Expire(b)
      PROVE  FlagType'
  BY <1>1, <1>6 DEF NextSome, PublishRejected, Puback, Unacked, Expire, outVars,
     Goto, loopVars
<1>7. CASE EnterDrain
  BY <1>7 DEF EnterDrain, outVars, TypeOK, FlagType
<1>8. CASE RecvClosed
  BY <1>8 DEF RecvClosed, Ended, outVars, TypeOK, FlagType
<1>9. CASE Interrupted
  BY <1>9 DEF Interrupted, StopTaking, outVars, TypeOK, FlagType
<1>10. CASE AwaitTimedOut
  BY <1>10 DEF AwaitTimedOut, StopTaking, outVars, TypeOK, FlagType
<1>11. CASE PipelineDone
  BY <1>11 DEF PipelineDone, loopVars, TypeOK, FlagType
<1>12. CASE CloseBuffer
  BY <1>12 DEF CloseBuffer, ProcessEnds, FlagType
<1>13. CASE DeadlinePasses
  BY <1>13 DEF DeadlinePasses, outVars, loopVars, TypeOK, FlagType
<1>14. CASE Crash
  BY <1>14 DEF Crash, ProcessEnds, FlagType
<1>15. CASE Restart
  BY <1>15 DEF Restart, TypeOK, FlagType
<1>16. CASE UNCHANGED vars
  BY <1>1, <1>16 DEF vars
<1> QED
  BY <1>2, <1>3, <1>4, <1>5, <1>6, <1>7, <1>8, <1>9, <1>10, <1>11, <1>12, <1>13,
     <1>14, <1>15, <1>16 DEF Next, RunForward, Runtime, LoopHead, Storing,
     Publishing

(* The runtime, the lost queue and the bounds. *)
LEMMA RunTypeStep ==
  ASSUME TypeOK, ControlInv, [Next]_vars
  PROVE  RunType'
<1> USE ForwardAssumption DEF None, Batches
<1>1. ASSUME UNCHANGED <<stop, signals, stage, lost, reported, crashed, sessions, faults>>
      PROVE  RunType'
  BY <1>1 DEF TypeOK, RunType
<1>2. CASE EnterDrain \/ Proceed \/ RecvBatch \/ PushStored \/ RetryStored \/
           IdleTick
  BY <1>1, <1>2 DEF EnterDrain, Proceed, RecvBatch, PushStored, RetryStored,
     IdleTick, runVars, PushOk
<1>3. CASE AwaitTimedOut \/ Acked \/ Failed \/ PipelineDone \/ Emit \/
           DeadlinePasses
  BY <1>1, <1>3 DEF AwaitTimedOut, Acked, Failed, PipelineDone, Emit,
     DeadlinePasses, StopTaking, Settle, runVars
<1>4. ASSUME NEW b \in Batches, NextSome(b) \/ Puback(b) \/ Expire(b)
      PROVE  RunType'
  BY <1>1, <1>4 DEF NextSome, Puback, Expire, runVars
<1>5. CASE DrainTimedOut
  <2>1. Ended(pendingRetry) /\ pendingRetry \in Slot /\ lost = <<>>
    BY <1>5 DEF DrainTimedOut, TypeOK, LoopType, ControlInv
  <2>2. lost' \in Seq(Batches) /\ Len(lost') <= 1
    BY <2>1, EndedLost
  <2>3. faults' \in 0 .. MaxFaults
    BY <1>5 DEF DrainTimedOut, PushRefused, PushDbError, Fault, TypeOK, RunType
  <2> QED
    BY <2>1, <2>2, <2>3 DEF Ended, TypeOK, RunType
<1>6. CASE RecvClosed
  BY <1>6 DEF RecvClosed, Ended, runVars, TypeOK, RunType
<1>7. CASE PushAgain
  BY <1>7 DEF PushAgain, PushDbError, Fault, runVars, TypeOK, RunType
<1>8. CASE PushFatal
  <2>1. Ended(hand) /\ hand \in Slot /\ lost = <<>>
    BY <1>8 DEF PushFatal, TypeOK, LoopType, ControlInv
  <2>2. lost' \in Seq(Batches) /\ Len(lost') <= 1
    BY <2>1, EndedLost
  <2>3. faults' \in 0 .. MaxFaults
    BY <1>8 DEF PushFatal, PushRefused, PushDbError, Fault, TypeOK, RunType
  <2> QED
    BY <2>1, <2>2, <2>3 DEF Ended, TypeOK, RunType
<1>9. CASE PushOverflow
  BY <1>9 DEF PushOverflow, PushTimeout, Fault, runVars, TypeOK, RunType
<1>10. CASE RetryFatal
  <2>1. Ended(pendingRetry) /\ pendingRetry \in Slot /\ lost = <<>>
    BY <1>10 DEF RetryFatal, Retrying, TypeOK, LoopType, ControlInv
  <2>2. lost' \in Seq(Batches) /\ Len(lost') <= 1
    BY <2>1, EndedLost
  <2>3. faults' \in 0 .. MaxFaults
    BY <1>10 DEF RetryFatal, PushRefused, PushDbError, Fault, TypeOK, RunType
  <2> QED
    BY <2>1, <2>2, <2>3 DEF Ended, TypeOK, RunType
<1>11. CASE RetryTimeout
  BY <1>11 DEF RetryTimeout, PushTimeout, Fault, runVars, TypeOK, RunType
<1>12. CASE NextNone
  BY <1>12 DEF NextNone, Ended, runVars, TypeOK, RunType
<1>13. CASE NextFails
  BY <1>13 DEF NextFails, Fault, runVars, TypeOK, RunType
<1>14. CASE StopSeen
  BY <1>14 DEF StopSeen, TypeOK, RunType
<1>15. CASE Interrupted
  BY <1>15 DEF Interrupted, StopTaking, TypeOK, RunType
<1>16. CASE AckFails
  BY <1>16 DEF AckFails, Fault, Settle, runVars, TypeOK, RunType
<1>17. CASE Stop
  BY <1>17 DEF Stop, TypeOK, RunType
<1>18. CASE SettleMqtt
  BY <1>18 DEF SettleMqtt, TypeOK, RunType
<1>19. CASE StoreLost
  <2>1. Head(lost) \in Batches /\ lost' \in Seq(Batches) /\ Len(lost') <= 1
    BY <1>19 DEF StoreLost, TypeOK, RunType
  <2>2. reported' \subseteq Batches
    BY <1>19, <2>1 DEF StoreLost, TypeOK, RunType
  <2>3. faults' \in 0 .. MaxFaults
    BY <1>19 DEF StoreLost, PushOk, PushTimeout, PushRefused, PushDbError, Fault,
       TypeOK, RunType
  <2> QED
    BY <1>19, <2>1, <2>2, <2>3 DEF StoreLost, TypeOK, RunType
<1>20. CASE CloseBuffer
  BY <1>20 DEF CloseBuffer, ProcessEnds, TypeOK, RunType
<1>21. CASE Crash
  <2>1. InMemory \subseteq Batches
    <3>1. Range(outq) \subseteq Batches /\ Range(lost) \subseteq Batches
      BY DEF Range, TypeOK, OutType, RunType
    <3> QED
      BY <3>1 DEF InMemory, TypeOK, LoopType, Slot
  <2> QED
    BY <1>21, <2>1 DEF Crash, ProcessEnds, Fault, TypeOK, RunType
<1>22. CASE Restart
  BY <1>22 DEF Restart, TypeOK, RunType
<1>23. ASSUME NEW b \in Batches, PublishRejected(b) PROVE RunType'
  BY <1>23 DEF PublishRejected, Fault, runVars, TypeOK, RunType
<1>24. ASSUME NEW b \in Batches, Unacked(b) PROVE RunType'
  BY <1>24 DEF Unacked, Fault, runVars, TypeOK, RunType
<1>25. CASE UNCHANGED vars
  BY <1>1, <1>25 DEF vars
<1> QED
  BY <1>2, <1>3, <1>4, <1>5, <1>6, <1>7, <1>8, <1>9, <1>10, <1>11, <1>12, <1>13,
     <1>14, <1>15, <1>16, <1>17, <1>18, <1>19, <1>20, <1>21, <1>22, <1>23, <1>24,
     <1>25 DEF Next, RunForward, Runtime, LoopHead, Storing, Publishing

(* The control part needs only the types. *)
LEMMA ControlStep ==
  ASSUME TypeOK, ControlInv, [Next]_vars
  PROVE  ControlInv'
<1> USE ForwardAssumption DEF None, Batches
<1>1. CASE EnterDrain
  BY <1>1 DEF EnterDrain, runVars, ControlInv
<1>2. CASE DrainTimedOut
  BY <1>2 DEF DrainTimedOut, Ended, DropReceiver, ControlInv
<1>3. CASE Proceed
  BY <1>3 DEF Proceed, Goto, runVars, ControlInv
<1>4. CASE RecvBatch
  BY <1>4 DEF RecvBatch, MayRecv, Suspended, Selecting, runVars, TypeOK, ControlInv,
     OutType
<1>5. CASE RecvClosed
  BY <1>5 DEF RecvClosed, MayRecv, Suspended, Selecting, Ended, DropReceiver,
     runVars, ControlInv
<1>6. CASE PushStored
  BY <1>6 DEF PushStored, runVars, ControlInv
<1>7. CASE PushAgain
  BY <1>7 DEF PushAgain, runVars, ControlInv
<1>8. CASE PushFatal
  BY <1>8 DEF PushFatal, Ended, DropReceiver, ControlInv
<1>9. CASE PushOverflow
  BY <1>9 DEF PushOverflow, runVars, ControlInv
<1>10. CASE RetryStored
  BY <1>10 DEF RetryStored, Retrying, runVars, ControlInv
<1>11. CASE RetryFatal
  BY <1>11 DEF RetryFatal, Retrying, Ended, DropReceiver, ControlInv
<1>12. CASE RetryTimeout
  BY <1>12 DEF RetryTimeout, Retrying, Goto, runVars, ControlInv
<1>13. CASE NextNone
  BY <1>13 DEF NextNone, MayTake, Closed, Selecting, Ended, DropReceiver, Goto,
     runVars, ControlInv
<1>14. CASE NextFails
  BY <1>14 DEF NextFails, MayTake, Closed, Selecting, Goto, runVars, ControlInv
<1>15. CASE IdleTick
  BY <1>15 DEF IdleTick, Goto, runVars, ControlInv
<1>16. CASE StopSeen
  BY <1>16 DEF StopSeen, Selecting, Goto, ControlInv
<1>17. CASE Interrupted
  BY <1>17 DEF Interrupted, StopTaking, DropReceiver, ControlInv
<1>18. CASE AwaitTimedOut
  BY <1>18 DEF AwaitTimedOut, StopTaking, DropReceiver, ControlInv
<1>19. CASE Acked
  BY <1>19 DEF Acked, Settle, runVars, ControlInv
<1>20. CASE AckFails
  BY <1>20 DEF AckFails, Settle, runVars, ControlInv
<1>21. CASE Failed
  BY <1>21 DEF Failed, Settle, runVars, ControlInv
<1>22. CASE Stop
  BY <1>22 DEF Stop, outVars, loopVars, ControlInv
<1>23. CASE PipelineDone
  BY <1>23 DEF PipelineDone, loopVars, runVars, ControlInv
<1>24. CASE SettleMqtt
  BY <1>24 DEF SettleMqtt, outVars, loopVars, ControlInv
<1>25. CASE StoreLost
  BY <1>25 DEF StoreLost, outVars, loopVars, ControlInv
<1>26. CASE CloseBuffer
  BY <1>26 DEF CloseBuffer, ProcessEnds, ControlInv
<1>27. CASE Emit
  BY <1>27 DEF Emit, loopVars, runVars, ControlInv
<1>28. CASE DeadlinePasses
  BY <1>28 DEF DeadlinePasses, loopVars, runVars, ControlInv
<1>29. CASE Crash
  BY <1>29 DEF Crash, ProcessEnds, ControlInv
<1>30. CASE Restart
  BY <1>30 DEF Restart, ControlInv
<1>31. ASSUME NEW b \in Batches, NextSome(b) PROVE ControlInv'
  BY <1>31 DEF NextSome, MayTake, Closed, Selecting, runVars, ControlInv
<1>32. ASSUME NEW b \in Batches, PublishRejected(b) PROVE ControlInv'
  BY <1>32 DEF PublishRejected, MayTake, Closed, Selecting, Goto, runVars,
     ControlInv
<1>33. ASSUME NEW b \in Batches, Puback(b) PROVE ControlInv'
  BY <1>33 DEF Puback, outVars, walVars, loopVars, runVars, ControlInv
<1>34. ASSUME NEW b \in Batches, Unacked(b) PROVE ControlInv'
  BY <1>34 DEF Unacked, outVars, walVars, loopVars, runVars, ControlInv
<1>35. ASSUME NEW b \in Batches, Expire(b) PROVE ControlInv'
  BY <1>35 DEF Expire, outVars, loopVars, runVars, ControlInv
<1>36. CASE UNCHANGED vars
  BY <1>36 DEF vars, ControlInv
<1> QED
  BY <1>1, <1>2, <1>3, <1>4, <1>5, <1>6, <1>7, <1>8, <1>9, <1>10, <1>11, <1>12,
     <1>13, <1>14, <1>15, <1>16, <1>17, <1>18, <1>19, <1>20, <1>21, <1>22, <1>23,
     <1>24, <1>25, <1>26, <1>27, <1>28, <1>29, <1>30, <1>31, <1>32, <1>33, <1>34,
     <1>35, <1>36 DEF Next, RunForward, Runtime, LoopHead, Storing, Publishing

-----------------------------------------------------------------------------
(* The order of the WAL *)

(* A batch not older than any row is given the highest number. *)
LEMMA InsertNumbered ==
  ASSUME WalType, RowsNumbered, NEW b \in Batches, Insert(b), \A a \in wal : a <= b
  PROVE  RowsNumbered'
<1>1. CASE b \in wal
  <2>1. UNCHANGED <<wal, seqOf, lastSeq>>
    BY <1>1 DEF Insert
  <2> QED
    BY <2>1 DEF RowsNumbered, WalInOrder
<1>2. CASE b \notin wal
  <2>1. /\ wal' = wal \cup {b} /\ lastSeq' = lastSeq + 1 /\ seqOf'[b] = lastSeq + 1
        /\ \A a \in wal : seqOf'[a] = seqOf[a] /\ seqOf[a] \in Nat /\ seqOf[a] <= lastSeq
        /\ lastSeq \in Nat
    BY <1>2 DEF Insert, WalType, RowsNumbered
  <2>2. b \in Int /\ \A a \in wal : a \in Int /\ a < b
    BY <1>2, ForwardAssumption DEF Batches, WalType
  <2>3. \A a \in wal' : seqOf'[a] <= lastSeq'
    BY <2>1
  <2>4. ASSUME NEW x \in wal', NEW y \in wal', x < y
        PROVE  seqOf'[x] < seqOf'[y]
    <3>1. CASE x \in wal /\ y \in wal
      BY <2>1, <2>4, <3>1 DEF RowsNumbered, WalInOrder
    <3>2. CASE x \in wal /\ y = b
      BY <2>1, <3>2
    <3>3. CASE x = b
      <4>1. y \in wal \/ y = b
        BY <2>1
      <4>2. ~ (x < y)
        BY <2>2, <3>3, <4>1
      <4> QED
        BY <2>4, <4>2
    <3> QED
      BY <2>1, <3>1, <3>2, <3>3
  <2> QED
    BY <2>3, <2>4 DEF RowsNumbered, WalInOrder
<1> QED
  BY <1>1, <1>2

(* A lost queue that is not empty holds one batch, its head. *)
LEMMA OneBatch ==
  ASSUME NEW s \in Seq(Batches), s # <<>>, Len(s) <= 1
  PROVE  Len(s) = 1 /\ Head(s) = s[1] /\ s[1] \in Batches
<1>1. Len(s) \in Nat /\ Len(s) # 0
  OBVIOUS
<1>2. Len(s) = 1
  BY <1>1
<1> QED
  BY <1>2

(* Storing b, or not, when b is next to be stored. *)
LEMMA StoreNext ==
  ASSUME WalType, OrderInv, NEW b \in Batches, NextToStore(b),
         Insert(b) \/ UNCHANGED walVars,
         UNCHANGED <<outq, emitted>>
  PROVE  ChannelOrder' /\ NextToStore(b)' /\ RowsOlder' /\ RowsNumbered'
<1>1. CASE Insert(b)
  <2>1. wal' = wal \cup {b}
    BY <1>1 DEF Insert
  <2>2. RowsNumbered'
    BY <1>1, InsertNumbered DEF OrderInv, NextToStore
  <2>3. b \in Int
    BY ForwardAssumption DEF Batches
  <2> QED
    BY <2>1, <2>2, <2>3 DEF OrderInv, ChannelOrder, NextToStore, RowsOlder
<1>2. CASE UNCHANGED walVars
  BY <1>2 DEF walVars, OrderInv, ChannelOrder, NextToStore, RowsOlder, RowsNumbered,
     WalInOrder
<1> QED
  BY <1>1, <1>2

(* The task ends and b, if any, is in the lost queue. *)
LEMMA EndedOrder ==
  ASSUME OrderInv, lost = <<>>, NEW b \in Slot, b # None => NextToStore(b), Ended(b),
         UNCHANGED walVars
  PROVE  OrderInv'
<1>1. /\ outq' = <<>> /\ emitted' = emitted /\ hand' = None /\ pendingRetry' = None
      /\ wal' = wal /\ seqOf' = seqOf /\ lastSeq' = lastSeq
  BY DEF Ended, DropReceiver, walVars
<1>2. ChannelOrder' /\ HeldNext' /\ RowsOlder' /\ RowsNumbered'
  BY <1>1 DEF OrderInv, ChannelOrder, HeldNext, RowsOlder, RowsNumbered, WalInOrder
<1>3. LostNext'
  <2>1. CASE b = None
    BY <2>1 DEF Ended, LostNext
  <2>2. CASE b # None
    <3>1. lost' = <<b>>
      BY <2>2 DEF Ended
    <3>2. NextToStore(b)'
      BY <1>1, <2>2 DEF NextToStore
    <3>3. \A k \in DOMAIN lost' : lost'[k] = b
      BY <3>1
    <3> QED
      BY <3>2, <3>3 DEF LostNext
  <2> QED
    BY <2>1, <2>2
<1> QED
  BY <1>2, <1>3 DEF OrderInv

(* Steps that leave the batches where they are. *)
LEMMA OrderUntouched ==
  ASSUME OrderInv,
         UNCHANGED <<outq, emitted, hand, pendingRetry, lost, wal, seqOf, lastSeq>>
  PROVE  OrderInv'
  BY DEF OrderInv, ChannelOrder, HeldNext, LostNext, NextToStore, RowsOlder,
     RowsNumbered, WalInOrder

(* Every step keeps the order. *)
LEMMA OrderStep ==
  ASSUME TypeOK, ControlInv, OrderInv, [Next]_vars
  PROVE  OrderInv'
<1> USE ForwardAssumption DEF None, Batches
<1>1. ASSUME UNCHANGED <<outq, emitted, hand, pendingRetry, lost, wal, seqOf, lastSeq>>
      PROVE  OrderInv'
  BY <1>1, OrderUntouched
<1>2. CASE EnterDrain \/ Proceed \/ PushAgain \/ NextFails \/ IdleTick \/ StopSeen
  BY <1>1, <1>2 DEF EnterDrain, Proceed, PushAgain, NextFails, IdleTick, StopSeen,
     outVars, walVars, runVars, Goto, PushDbError
<1>3. CASE AckFails \/ Failed \/ Stop \/ PipelineDone \/ SettleMqtt \/
           DeadlinePasses
  BY <1>1, <1>3 DEF AckFails, Failed, Stop, PipelineDone, SettleMqtt,
     DeadlinePasses, walVars, Settle, outVars, runVars, loopVars
<1>4. CASE Restart
  BY <1>1, <1>4 DEF Restart, walVars
<1>5. ASSUME NEW b \in Batches, NextSome(b) \/ PublishRejected(b) \/ Puback(b) \/
                                Unacked(b)
      PROVE  OrderInv'
  BY <1>1, <1>5 DEF NextSome, PublishRejected, Puback, Unacked, outVars, runVars,
     Goto, walVars, loopVars
<1>6. CASE DrainTimedOut
  <2>1. /\ pendingRetry \in Slot /\ lost = <<>>
        /\ (pendingRetry # None => NextToStore(pendingRetry))
    BY <1>6 DEF DrainTimedOut, TypeOK, LoopType, ControlInv, OrderInv, HeldNext
  <2>2. PICK b \in Slot : b = pendingRetry
    BY <2>1
  <2>3. Ended(b) /\ UNCHANGED walVars
    BY <1>6, <2>2 DEF DrainTimedOut, PushRefused, PushDbError
  <2> QED
    BY <2>1, <2>2, <2>3, EndedOrder
<1>7. CASE RecvBatch
  <2>1. /\ UNCHANGED <<wal, seqOf, lastSeq, emitted, lost, pendingRetry>>
        /\ pendingRetry = None /\ lost = <<>> /\ outq # <<>>
        /\ hand' = outq[1] /\ outq' = Tail(outq) /\ outq \in Seq(Batches)
    BY <1>7 DEF RecvBatch, MayRecv, Suspended, Selecting, walVars, runVars,
       ControlInv, TypeOK, OutType
  <2>2. /\ Len(outq) \in Nat /\ Len(outq) >= 1 /\ DOMAIN outq = 1 .. Len(outq)
        /\ DOMAIN outq' = 1 .. Len(outq) - 1
        /\ \A i \in DOMAIN outq' : outq'[i] = outq[i + 1] /\ i + 1 \in DOMAIN outq
    BY <2>1
  <2>3. ChannelOrder' /\ RowsOlder' /\ RowsNumbered'
    BY <2>1, <2>2 DEF OrderInv, ChannelOrder, RowsOlder, RowsNumbered, WalInOrder
  <2>4. \A i \in DOMAIN outq' : outq[1] < outq'[i]
    BY <2>2 DEF OrderInv, ChannelOrder
  <2>5. \A a \in wal : a <= outq[1]
    <3>1. 1 \in DOMAIN outq /\ outq[1] \in Int
      BY <2>1, <2>2
    <3>2. \A a \in wal : a \in Int
      BY DEF TypeOK, WalType
    <3> QED
      BY <3>1, <3>2 DEF OrderInv, RowsOlder
  <2>6. outq[1] <= emitted
    BY <2>2 DEF OrderInv, ChannelOrder
  <2>7. HeldNext' /\ LostNext'
    BY <2>1, <2>4, <2>5, <2>6 DEF HeldNext, LostNext, NextToStore
  <2> QED
    BY <2>3, <2>7 DEF OrderInv
<1>8. CASE RecvClosed
  <2>1. CASE Suspended
    <3>1. Ended(None) /\ UNCHANGED walVars /\ lost = <<>>
      BY <1>8, <2>1 DEF RecvClosed, Suspended, ControlInv
    <3> QED
      BY <3>1, EndedOrder DEF Slot
  <2>2. CASE ~Suspended
    BY <1>8, <2>2, OrderUntouched DEF RecvClosed, outVars, runVars, walVars
  <2> QED
    BY <2>1, <2>2
<1>9. CASE PushStored
  <2>1. hand \in Batches /\ NextToStore(hand) /\ lost = <<>> /\ pendingRetry = None
    BY <1>9 DEF PushStored, TypeOK, LoopType, Slot, ControlInv, OrderInv, HeldNext
  <2>2. PICK b \in Batches : b = hand
    BY <2>1
  <2>3. Insert(b) \/ UNCHANGED walVars
    BY <1>9, <2>2 DEF PushStored, PushOk
  <2>4. /\ UNCHANGED <<outq, emitted, lost>>
        /\ hand' = None /\ pendingRetry' \in {b, None}
    BY <1>9, <2>1, <2>2 DEF PushStored, outVars, runVars
  <2>5. ChannelOrder' /\ NextToStore(b)' /\ RowsOlder' /\ RowsNumbered'
    BY <2>1, <2>2, <2>3, <2>4, StoreNext DEF TypeOK
  <2>6. HeldNext' /\ LostNext'
    BY <2>1, <2>4, <2>5 DEF HeldNext, LostNext
  <2> QED
    BY <2>5, <2>6 DEF OrderInv
<1>10. CASE PushFatal
  <2>1. hand \in Slot /\ lost = <<>> /\ (hand # None => NextToStore(hand))
    BY <1>10 DEF PushFatal, TypeOK, LoopType, ControlInv, OrderInv, HeldNext
  <2>2. PICK b \in Slot : b = hand
    BY <2>1
  <2>3. Ended(b) /\ UNCHANGED walVars
    BY <1>10, <2>2 DEF PushFatal, PushRefused, PushDbError
  <2> QED
    BY <2>1, <2>2, <2>3, EndedOrder
<1>11. CASE PushOverflow
  <2>1. hand \in Batches /\ NextToStore(hand) /\ lost = <<>> /\ pendingRetry = None
    BY <1>11 DEF PushOverflow, TypeOK, LoopType, Slot, ControlInv, OrderInv,
       HeldNext
  <2>2. PICK b \in Batches : b = hand
    BY <2>1
  <2>3. Insert(b) \/ UNCHANGED walVars
    BY <1>11, <2>2 DEF PushOverflow, PushTimeout
  <2>4. /\ UNCHANGED <<outq, emitted, lost>>
        /\ hand' = None /\ pendingRetry' \in {b, None}
    BY <1>11, <2>1, <2>2 DEF PushOverflow, outVars, runVars
  <2>5. ChannelOrder' /\ NextToStore(b)' /\ RowsOlder' /\ RowsNumbered'
    BY <2>1, <2>2, <2>3, <2>4, StoreNext DEF TypeOK
  <2>6. HeldNext' /\ LostNext'
    BY <2>1, <2>4, <2>5 DEF HeldNext, LostNext
  <2> QED
    BY <2>5, <2>6 DEF OrderInv
<1>12. CASE RetryStored
  <2>1. pendingRetry \in Batches /\ NextToStore(pendingRetry) /\ lost = <<>> /\ hand = None
    BY <1>12 DEF RetryStored, Retrying, TypeOK, LoopType, Slot, ControlInv,
       OrderInv, HeldNext
  <2>2. PICK b \in Batches : b = pendingRetry
    BY <2>1
  <2>3. Insert(b) \/ UNCHANGED walVars
    BY <1>12, <2>2 DEF RetryStored, PushOk
  <2>4. /\ UNCHANGED <<outq, emitted, lost>>
        /\ hand' = None /\ pendingRetry' \in {b, None}
    BY <1>12, <2>1, <2>2 DEF RetryStored, outVars, runVars
  <2>5. ChannelOrder' /\ NextToStore(b)' /\ RowsOlder' /\ RowsNumbered'
    BY <2>1, <2>2, <2>3, <2>4, StoreNext DEF TypeOK
  <2>6. HeldNext' /\ LostNext'
    BY <2>1, <2>4, <2>5 DEF HeldNext, LostNext
  <2> QED
    BY <2>5, <2>6 DEF OrderInv
<1>13. CASE RetryFatal
  <2>1. /\ pendingRetry \in Slot /\ lost = <<>>
        /\ (pendingRetry # None => NextToStore(pendingRetry))
    BY <1>13 DEF RetryFatal, Retrying, TypeOK, LoopType, ControlInv, OrderInv,
       HeldNext
  <2>2. PICK b \in Slot : b = pendingRetry
    BY <2>1
  <2>3. Ended(b) /\ UNCHANGED walVars
    BY <1>13, <2>2 DEF RetryFatal, PushRefused, PushDbError
  <2> QED
    BY <2>1, <2>2, <2>3, EndedOrder
<1>14. CASE RetryTimeout
  <2>1. pendingRetry \in Batches /\ NextToStore(pendingRetry) /\ lost = <<>> /\ hand = None
    BY <1>14 DEF RetryTimeout, Retrying, TypeOK, LoopType, Slot, ControlInv,
       OrderInv, HeldNext
  <2>2. PICK b \in Batches : b = pendingRetry
    BY <2>1
  <2>3. Insert(b) \/ UNCHANGED walVars
    BY <1>14, <2>2 DEF RetryTimeout, PushTimeout
  <2>4. /\ UNCHANGED <<outq, emitted, lost>>
        /\ hand' = None /\ pendingRetry' \in {b, None}
    BY <1>14, <2>1, <2>2 DEF RetryTimeout, Goto, outVars, runVars
  <2>5. ChannelOrder' /\ NextToStore(b)' /\ RowsOlder' /\ RowsNumbered'
    BY <2>1, <2>2, <2>3, <2>4, StoreNext DEF TypeOK
  <2>6. HeldNext' /\ LostNext'
    BY <2>1, <2>4, <2>5 DEF HeldNext, LostNext
  <2> QED
    BY <2>5, <2>6 DEF OrderInv
<1>15. CASE NextNone
  <2>1. CASE Closed /\ draining
    <3>1. Ended(None) /\ UNCHANGED walVars /\ lost = <<>>
      BY <1>15, <2>1 DEF NextNone, Closed, ControlInv
    <3> QED
      BY <3>1, EndedOrder DEF Slot
  <2>2. CASE ~(Closed /\ draining)
    BY <1>15, <2>2, OrderUntouched DEF NextNone, Goto, outVars, runVars, walVars
  <2> QED
    BY <2>1, <2>2
<1>16. CASE Interrupted
  <2>1. /\ UNCHANGED <<wal, seqOf, lastSeq, emitted, lost, hand, pendingRetry>>
        /\ outq' \in {outq, <<>>}
    BY <1>16 DEF Interrupted, StopTaking, DropReceiver, walVars, outVars
  <2> QED
    BY <2>1 DEF OrderInv, ChannelOrder, HeldNext, LostNext, NextToStore, RowsOlder,
       RowsNumbered, WalInOrder
<1>17. CASE AwaitTimedOut
  <2>1. /\ UNCHANGED <<wal, seqOf, lastSeq, emitted, lost, hand, pendingRetry>>
        /\ outq' \in {outq, <<>>}
    BY <1>17 DEF AwaitTimedOut, StopTaking, DropReceiver, walVars, outVars
  <2> QED
    BY <2>1 DEF OrderInv, ChannelOrder, HeldNext, LostNext, NextToStore, RowsOlder,
       RowsNumbered, WalInOrder
<1>18. CASE Acked
  BY <1>18 DEF Acked, Settle, outVars, runVars, OrderInv, ChannelOrder, NextToStore,
     HeldNext, LostNext, RowsOlder, RowsNumbered, WalInOrder
<1>19. CASE StoreLost
  <2>1. /\ Head(lost) \in Batches /\ NextToStore(Head(lost))
        /\ lost' = Tail(lost) /\ Len(lost) = 1
    <3>1. /\ lost \in Seq(Batches) /\ Len(lost) <= 1 /\ lost # <<>>
          /\ lost' = Tail(lost) /\ Len(lost) \in Nat
      BY <1>19 DEF StoreLost, TypeOK, RunType
    <3>2. Len(lost) = 1 /\ Head(lost) = lost[1] /\ lost[1] \in Batches
      BY <3>1, OneBatch
    <3>3. 1 \in DOMAIN lost
      BY <3>1, <3>2
    <3> QED
      BY <3>1, <3>2, <3>3 DEF OrderInv, LostNext
  <2>2. PICK b \in Batches : b = Head(lost)
    BY <2>1
  <2>3. Insert(b) \/ UNCHANGED walVars
    BY <1>19, <2>2 DEF StoreLost, PushOk, PushTimeout, PushRefused, PushDbError
  <2>4. /\ UNCHANGED <<outq, emitted, hand, pendingRetry>> /\ lost' = <<>>
        /\ hand = None /\ pendingRetry = None
    BY <1>19, <2>1 DEF StoreLost, outVars, loopVars, ControlInv, TypeOK, RunType,
       None
  <2>5. ChannelOrder' /\ RowsOlder' /\ RowsNumbered'
    BY <2>1, <2>2, <2>3, <2>4, StoreNext DEF TypeOK
  <2>6. HeldNext' /\ LostNext'
    BY <2>4 DEF HeldNext, LostNext
  <2> QED
    BY <2>5, <2>6 DEF OrderInv
<1>20. CASE CloseBuffer
  BY <1>20 DEF CloseBuffer, ProcessEnds, OrderInv, ChannelOrder, HeldNext, LostNext,
     RowsOlder, RowsNumbered, WalInOrder
<1>21. CASE Emit
  <2>1. /\ UNCHANGED <<wal, seqOf, lastSeq, lost, hand, pendingRetry>>
        /\ emitted \in Nat /\ emitted' = emitted + 1 /\ lost = <<>>
        /\ outq' = Append(outq, emitted') /\ outq \in Seq(Batches)
    BY <1>21 DEF Emit, walVars, runVars, loopVars, ControlInv, TypeOK, OutType
  <2>2. /\ Len(outq) \in Nat /\ DOMAIN outq = 1 .. Len(outq)
        /\ DOMAIN outq' = 1 .. Len(outq) + 1
        /\ \A i \in DOMAIN outq : outq'[i] = outq[i] /\ outq[i] \in Int
        /\ outq'[Len(outq) + 1] = emitted + 1
    BY <2>1
  <2>3. \A i \in DOMAIN outq' : i \in DOMAIN outq \/ i = Len(outq) + 1
    BY <2>2
  <2>4. ChannelOrder'
    BY <2>1, <2>2, <2>3 DEF OrderInv, ChannelOrder
  <2>5. RowsOlder' /\ RowsNumbered'
    <3>1. \A a \in wal : a \in Int
      BY DEF TypeOK, WalType
    <3> QED
      BY <2>1, <2>2, <2>3, <3>1 DEF OrderInv, RowsOlder, RowsNumbered, WalInOrder
  <2>6. HeldNext' /\ LostNext'
    <3>1. hand \in Int /\ pendingRetry \in Int
      BY DEF TypeOK, LoopType, Slot
    <3> QED
      BY <2>1, <2>2, <2>3, <3>1 DEF OrderInv, HeldNext, LostNext, NextToStore
  <2> QED
    BY <2>4, <2>5, <2>6 DEF OrderInv
<1>22. CASE Crash
  BY <1>22 DEF Crash, ProcessEnds, OrderInv, ChannelOrder, HeldNext, LostNext,
     RowsOlder, RowsNumbered, WalInOrder
<1>23. ASSUME NEW b \in Batches, Expire(b) PROVE OrderInv'
  BY <1>23 DEF Expire, outVars, loopVars, runVars, OrderInv, ChannelOrder,
     NextToStore, HeldNext, LostNext, RowsOlder, RowsNumbered, WalInOrder
<1>24. CASE UNCHANGED vars
  BY <1>1, <1>24 DEF vars
<1> QED
  BY <1>2, <1>3, <1>4, <1>5, <1>6, <1>7, <1>8, <1>9, <1>10, <1>11, <1>12, <1>13,
     <1>14, <1>15, <1>16, <1>17, <1>18, <1>19, <1>20, <1>21, <1>22, <1>23, <1>24 DEF
     Next, RunForward, Runtime, LoopHead, Storing, Publishing

-----------------------------------------------------------------------------
(* The acknowledgements *)

(* Every step keeps what is known of the rows in flight. *)
LEMMA ConfirmStep ==
  ASSUME TypeOK, ControlInv, OrderInv, ConfirmInv, [Next]_vars
  PROVE  ConfirmInv'
<1> USE ForwardAssumption DEF None, Batches
<1>1. CASE EnterDrain
  BY <1>1 DEF EnterDrain, walVars, mqttVars, ConfirmInv
<1>2. CASE DrainTimedOut
  BY <1>2 DEF DrainTimedOut, Ended, ConfirmInv
<1>3. CASE Proceed
  BY <1>3 DEF Proceed, Goto, walVars, mqttVars, ConfirmInv
<1>4. CASE RecvBatch
  BY <1>4 DEF RecvBatch, MayRecv, Suspended, Selecting, walVars, mqttVars,
     ConfirmInv
<1>5. CASE RecvClosed
  BY <1>5 DEF RecvClosed, MayRecv, Selecting, Ended, walVars, mqttVars, ConfirmInv
<1>6. CASE PushStored
  BY <1>6 DEF PushStored, PushOk, Insert, mqttVars, ConfirmInv
<1>7. CASE PushAgain
  BY <1>7 DEF PushAgain, PushDbError, walVars, mqttVars, ConfirmInv
<1>8. CASE PushFatal
  BY <1>8 DEF PushFatal, Ended, ConfirmInv
<1>9. CASE PushOverflow
  BY <1>9 DEF PushOverflow, PushTimeout, walVars, Insert, mqttVars, ConfirmInv
<1>10. CASE RetryStored
  BY <1>10 DEF RetryStored, Retrying, PushOk, Insert, mqttVars, ConfirmInv
<1>11. CASE RetryFatal
  BY <1>11 DEF RetryFatal, Ended, ConfirmInv
<1>12. CASE RetryTimeout
  BY <1>12 DEF RetryTimeout, Retrying, PushTimeout, walVars, Insert, Goto, mqttVars,
     ConfirmInv
<1>13. CASE NextNone
  BY <1>13 DEF NextNone, MayTake, Closed, Selecting, Ended, Goto, walVars, mqttVars,
     ConfirmInv
<1>14. CASE NextFails
  BY <1>14 DEF NextFails, MayTake, Closed, Selecting, Goto, walVars, mqttVars,
     ConfirmInv
<1>15. CASE IdleTick
  BY <1>15 DEF IdleTick, Goto, walVars, mqttVars, ConfirmInv
<1>16. CASE StopSeen
  BY <1>16 DEF StopSeen, Selecting, Goto, walVars, mqttVars, ConfirmInv
<1>17. CASE Interrupted
  BY <1>17 DEF Interrupted, StopTaking, ConfirmInv
<1>18. CASE AwaitTimedOut
  BY <1>18 DEF AwaitTimedOut, StopTaking, ConfirmInv
<1>19. CASE Acked
  BY <1>19 DEF Acked, Settle, ConfirmInv
<1>20. CASE AckFails
  BY <1>20 DEF AckFails, walVars, Settle, ConfirmInv
<1>21. CASE Failed
  BY <1>21 DEF Failed, Settle, ConfirmInv
<1>22. CASE Stop
  BY <1>22 DEF Stop, walVars, mqttVars, loopVars, ConfirmInv
<1>23. CASE PipelineDone
  BY <1>23 DEF PipelineDone, walVars, mqttVars, loopVars, ConfirmInv
<1>24. CASE SettleMqtt
  BY <1>24 DEF SettleMqtt, loopVars, ConfirmInv
<1>25. CASE StoreLost
  BY <1>25 DEF StoreLost, loopVars, ControlInv, ConfirmInv
<1>26. CASE CloseBuffer
  BY <1>26 DEF CloseBuffer, ProcessEnds, ConfirmInv
<1>27. CASE Emit
  BY <1>27 DEF Emit, walVars, mqttVars, loopVars, ConfirmInv
<1>28. CASE DeadlinePasses
  BY <1>28 DEF DeadlinePasses, walVars, mqttVars, loopVars, ConfirmInv
<1>29. CASE Crash
  BY <1>29 DEF Crash, ProcessEnds, ConfirmInv
<1>30. CASE Restart
  BY <1>30 DEF Restart, walVars, ControlInv, ConfirmInv
<1>31. ASSUME NEW b \in Batches, NextSome(b) PROVE ConfirmInv'
  BY <1>31 DEF NextSome, MayTake, Closed, Selecting, IsHead, Queued, TypeOK,
     WalType, ControlInv, ConfirmInv
<1>32. ASSUME NEW b \in Batches, PublishRejected(b) PROVE ConfirmInv'
  BY <1>32 DEF PublishRejected, MayTake, Closed, Selecting, Goto, walVars, mqttVars,
     ConfirmInv
<1>33. ASSUME NEW b \in Batches, Puback(b) PROVE ConfirmInv'
  BY <1>33 DEF Puback, walVars, loopVars, ConfirmInv
<1>34. ASSUME NEW b \in Batches, Unacked(b) PROVE ConfirmInv'
  BY <1>34 DEF Unacked, walVars, loopVars, ConfirmInv
<1>35. ASSUME NEW b \in Batches, Expire(b) PROVE ConfirmInv'
  BY <1>35 DEF Expire, mqttVars, loopVars, ConfirmInv
<1>36. CASE UNCHANGED vars
  BY <1>36 DEF vars, ConfirmInv
<1> QED
  BY <1>1, <1>2, <1>3, <1>4, <1>5, <1>6, <1>7, <1>8, <1>9, <1>10, <1>11, <1>12,
     <1>13, <1>14, <1>15, <1>16, <1>17, <1>18, <1>19, <1>20, <1>21, <1>22, <1>23,
     <1>24, <1>25, <1>26, <1>27, <1>28, <1>29, <1>30, <1>31, <1>32, <1>33, <1>34,
     <1>35, <1>36 DEF Next, RunForward, Runtime, LoopHead, Storing, Publishing

-----------------------------------------------------------------------------
(* The invariant is inductive. *)
LEMMA InitInv == Init => IInv
<1> SUFFICES ASSUME Init PROVE IInv
  OBVIOUS
<1> USE ForwardAssumption DEF None, Batches
<1>1. TypeOK
  <2>1. OutType /\ MqttType
    BY DEF Init, OutType, MqttType
  <2>2. FlagType
    BY Zenon DEF Init, FlagType
  <2>3. WalType
    BY DEF Init, WalType
  <2>4. LoopType /\ RunType
    BY DEF Init, LoopType, RunType, Slot
  <2> QED
    BY <2>1, <2>2, <2>3, <2>4 DEF TypeOK
<1>2. ControlInv
  BY DEF Init, ControlInv
<1>3. OrderInv
  BY DEF Init, OrderInv, ChannelOrder, HeldNext, LostNext, RowsOlder, RowsNumbered,
     WalInOrder
<1>4. ConfirmInv
  BY DEF Init, ConfirmInv
<1> QED
  BY <1>1, <1>2, <1>3, <1>4 DEF IInv

(* Every step keeps the four parts of the invariant. *)
LEMMA StepInv == IInv /\ [Next]_vars => IInv'
<1> SUFFICES ASSUME IInv, [Next]_vars PROVE IInv'
  OBVIOUS
<1>1. TypeOK /\ ControlInv /\ OrderInv /\ ConfirmInv
  BY DEF IInv
<1>2. TypeOK'
  BY <1>1, OutTypeStep, WalTypeStep, MqttTypeStep, LoopTypeStep, FlagTypeStep,
     RunTypeStep DEF TypeOK
<1>3. ControlInv' /\ OrderInv' /\ ConfirmInv'
  BY <1>1, ControlStep, OrderStep, ConfirmStep
<1> QED
  BY <1>2, <1>3 DEF IInv

(* The invariant holds in every reachable state. *)
LEMMA Inductive == Spec => []IInv
  BY InitInv, StepInv, PTL DEF Spec

(* Types, among them that the lost queue that runtime.rs sizes at 128 never
   holds more than one batch and that the output channel keeps its capacity,
   for any number of batches, retries, faults and restarts.                  *)
THEOREM ForwardTypes == Spec => []TypeOK
<1>1. IInv => TypeOK
  BY DEF IInv
<1> QED
  BY <1>1, Inductive, PTL

(* However pushes time out, fail, are retried, or are left to the shutdown, the
   rows of the WAL are numbered in the order the pipeline emitted them
   (run_forward, pending_retry, settle_lost).                                *)
THEOREM WalIsOrdered == Spec => []WalInOrder
<1>1. IInv => WalInOrder
  BY DEF IInv, OrderInv, RowsNumbered
<1> QED
  BY <1>1, Inductive, PTL

(* Only an acknowledgement and the retention time delete rows. *)
LEMMA RowsLeave ==
  ASSUME [Next]_vars
  PROVE  wal \subseteq wal' \/ Acked \/ \E b \in Batches : Expire(b)
<1>1. CASE EnterDrain \/ DrainTimedOut \/ Proceed \/ RecvBatch \/ RecvClosed \/
           PushStored
  BY <1>1 DEF EnterDrain, DrainTimedOut, Proceed, RecvBatch, RecvClosed, PushStored,
     walVars, PushOk, Insert
<1>2. CASE PushAgain \/ PushFatal \/ PushOverflow \/ RetryStored \/ RetryFatal \/
           RetryTimeout
  BY <1>2 DEF PushAgain, PushFatal, PushOverflow, RetryStored, RetryFatal,
     RetryTimeout, PushDbError, walVars, PushRefused, PushTimeout, Insert, PushOk
<1>3. CASE NextNone \/ NextFails \/ IdleTick \/ StopSeen \/ Interrupted \/
           AwaitTimedOut
  BY <1>3 DEF NextNone, NextFails, IdleTick, StopSeen, Interrupted, AwaitTimedOut,
     walVars
<1>4. CASE AckFails \/ Failed \/ Stop \/ PipelineDone \/ SettleMqtt \/ StoreLost
  BY <1>4 DEF AckFails, Failed, Stop, PipelineDone, SettleMqtt, StoreLost, walVars,
     PushOk, Insert, PushTimeout, PushRefused, PushDbError
<1>5. CASE CloseBuffer \/ Emit \/ DeadlinePasses \/ Crash \/ Restart
  BY <1>5 DEF CloseBuffer, Emit, DeadlinePasses, Crash, Restart, ProcessEnds,
     walVars
<1>6. ASSUME NEW b \in Batches, NextSome(b) \/ PublishRejected(b) \/ Puback(b) \/
                                Unacked(b)
      PROVE  wal \subseteq wal'
  BY <1>6 DEF NextSome, PublishRejected, Puback, Unacked, walVars
<1>7. CASE UNCHANGED vars
  BY <1>7 DEF vars
<1> QED
  BY <1>1, <1>2, <1>3, <1>4, <1>5, <1>6, <1>7 DEF Next, RunForward, Runtime,
     LoopHead, Storing, Publishing

(* When forward_batch deletes a row after its PUBACK, every row that was
   stored before it has been acknowledged by the broker: nothing the loop does
   around an interrupted publication confirms a newer record first.          *)
THEOREM RowsConfirmedInOrder == Spec => ConfirmedInOrder
<1> DEFINE Confirmed ==
             \A b \in wal \ wal' :
                b \notin expired' =>
                    \A a \in wal : seqOf[a] <= seqOf[b] => a \in pubacked
<1>1. ASSUME IInv, [Next]_vars PROVE Confirmed
  <2>1. CASE wal \subseteq wal'
    BY <2>1
  <2>2. CASE Acked
    <3>1. /\ wal \ wal' \subseteq {cur} /\ cur \in taken /\ cur \in pubacked
          /\ \A a \in wal \ taken : seqOf[cur] <= seqOf[a]
      BY <1>1, <2>2 DEF Acked, IInv, ConfirmInv
    <3>2. \A a \in taken : a = cur \/ a \in pubacked
      <4>1. ~suspended /\ pc # "ended"
        BY <1>1, <2>2 DEF Acked, IInv, ControlInv
      <4> QED
        BY <1>1, <4>1 DEF IInv, ConfirmInv
    <3>3. ASSUME NEW a \in wal, a \notin taken, seqOf[a] <= seqOf[cur]
          PROVE  a = cur
      <4>1. cur \in wal /\ seqOf[a] \in Nat /\ seqOf[cur] \in Nat /\ a \in Int /\ cur \in Int
        BY <1>1, <3>1, ForwardAssumption DEF IInv, TypeOK, WalType, Batches
      <4>2. seqOf[a] = seqOf[cur]
        BY <3>1, <3>3, <4>1
      <4>3. ~ (a < cur) /\ ~ (cur < a)
        BY <1>1, <4>1, <4>2 DEF IInv, OrderInv, RowsNumbered, WalInOrder
      <4> QED
        BY <4>1, <4>3
    <3> QED
      BY <3>1, <3>2, <3>3
  <2>3. ASSUME NEW b \in Batches, Expire(b) PROVE Confirmed
    BY <2>3 DEF Expire
  <2> QED
    BY <1>1, <2>1, <2>2, <2>3, RowsLeave
<1>2. IInv /\ [Next]_vars => [Confirmed]_vars
  BY <1>1
<1> QED
  BY <1>2, Inductive, PTL DEF Spec, ConfirmedInOrder

-----------------------------------------------------------------------------
(* Where a batch can be *)

Held == Range(outq) \cup Range(lost) \cup {hand, pendingRetry}
Written == wal \cup pubacked \cup expired
GivenUp == reported \cup crashed \cup unread
Somewhere == Held \cup Written \cup GivenUp

(* The first element of a queue and the rest are all of it. *)
LEMMA RangeTail ==
  ASSUME NEW S, NEW q \in Seq(S), q # <<>>
  PROVE  Range(q) \subseteq {Head(q)} \cup Range(Tail(q))
<1> SUFFICES ASSUME NEW i \in DOMAIN q PROVE q[i] \in {Head(q)} \cup Range(Tail(q))
  BY DEF Range
<1>1. i \in 1 .. Len(q) /\ Len(q) \in Nat /\ Head(q) = q[1]
  OBVIOUS
<1>2. CASE i = 1
  BY <1>1, <1>2
<1>3. CASE i # 1
  <2>1. i - 1 \in DOMAIN Tail(q) /\ Tail(q)[i - 1] = q[i]
    BY <1>1, <1>3
  <2> QED
    BY <2>1 DEF Range
<1> QED
  BY <1>2, <1>3

(* Appending loses nothing and adds the element. *)
LEMMA RangeAppend ==
  ASSUME NEW S, NEW q \in Seq(S), NEW b \in S
  PROVE  Range(q) \cup {b} \subseteq Range(Append(q, b))
<1>1. PICK s : s = Append(q, b)
  OBVIOUS
<1>2. /\ Len(q) \in Nat /\ DOMAIN s = 1 .. Len(q) + 1 /\ DOMAIN q = 1 .. Len(q)
      /\ s[Len(q) + 1] = b /\ \A i \in DOMAIN q : s[i] = q[i]
  BY <1>1
<1>3. Range(q) \cup {b} \subseteq Range(s)
  BY <1>2 DEF Range
<1> QED
  BY <1>1, <1>3

(* The end of the task puts what it drops where it can be found. *)
LEMMA EndedKeeps ==
  ASSUME TypeOK, NEW b \in Slot, Ended(b)
  PROVE  /\ Range(outq) \cup Range(lost) \cup ({b} \ {None})
               \subseteq Range(lost') \cup unread'
         /\ unread \subseteq unread' /\ UNCHANGED <<emitted, reported, crashed>>
<1>1. Range(lost) \cup ({b} \ {None}) \subseteq Range(lost')
  <2>1. CASE b = None
    BY <2>1 DEF Ended
  <2>2. CASE b # None
    <3>1. lost \in Seq(Batches) /\ b \in Batches /\ lost' = Append(lost, b)
      BY <2>2 DEF Ended, TypeOK, RunType, Slot
    <3> QED
      BY <3>1, RangeAppend
  <2> QED
    BY <2>1, <2>2
<1>2. /\ Range(outq) \subseteq unread' /\ unread \subseteq unread'
      /\ UNCHANGED <<emitted, reported, crashed>>
  BY DEF Ended, DropReceiver
<1> QED
  BY <1>1, <1>2

(* A wait for a PUBACK that is given up loses nothing either. *)
LEMMA StopTakingKeeps ==
  ASSUME StopTaking
  PROVE  /\ Range(outq) \subseteq Range(outq') \cup unread' /\ unread \subseteq unread'
         /\ UNCHANGED <<emitted, lost, hand, pendingRetry, reported, crashed>>
  BY DEF StopTaking, DropReceiver, outVars

(* Storing adds a row; a push that fails changes none. *)
LEMMA PushKeeps ==
  ASSUME NEW b, PushOk(b) \/ PushTimeout(b) \/ PushRefused(b) \/ PushDbError(b)
  PROVE  /\ wal \subseteq wal' /\ expired' = expired
         /\ PushOk(b) => b \in wal'
  BY DEF PushOk, PushTimeout, PushRefused, PushDbError, Insert, walVars

(* Every step but an emission leaves each batch somewhere. *)
LEMMA StaysSomewhere ==
  ASSUME TypeOK, ControlInv, ConfirmInv, [Next]_vars, ~Emit
  PROVE  emitted' = emitted /\ Somewhere \ {None} \subseteq Somewhere'
<1> DEFINE Goal == emitted' = emitted /\ Somewhere \ {None} \subseteq Somewhere'
<1> USE DEF Somewhere, Held, Written, GivenUp
<1>1. ASSUME UNCHANGED <<emitted, outq, lost, hand, pendingRetry, wal, pubacked, expired,
                         reported, crashed, unread>>
      PROVE  Goal
  BY <1>1
<1>2. CASE EnterDrain \/ Proceed \/ PushAgain
  BY <1>1, <1>2 DEF EnterDrain, Proceed, PushAgain, Goto, PushDbError, outVars, walVars,
     mqttVars, runVars
<1>3. CASE NextFails \/ IdleTick \/ StopSeen \/ AckFails \/ Failed
  BY <1>1, <1>3 DEF NextFails, IdleTick, StopSeen, AckFails, Failed, Settle, Goto, outVars,
     walVars, mqttVars, runVars
<1>4. CASE Stop \/ PipelineDone \/ SettleMqtt \/ DeadlinePasses \/ Restart
  BY <1>1, <1>4 DEF Stop, PipelineDone, SettleMqtt, DeadlinePasses, Restart, outVars,
     walVars, mqttVars, loopVars, runVars
<1>5. ASSUME NEW b \in Batches, NextSome(b) \/ PublishRejected(b) \/ Unacked(b)
      PROVE  Goal
  BY <1>1, <1>5 DEF NextSome, PublishRejected, Unacked, Goto, outVars, walVars, mqttVars,
     loopVars, runVars
<1>6. ASSUME NEW b \in Batches, Puback(b) \/ Expire(b)
      PROVE  Goal
  BY <1>6 DEF Puback, Expire, outVars, walVars, mqttVars, loopVars, runVars
<1>7. CASE DrainTimedOut
  <2>1. hand = None /\ pendingRetry \in Slot /\ Ended(pendingRetry)
    BY <1>7 DEF DrainTimedOut, ControlInv, TypeOK, LoopType
  <2>2. UNCHANGED <<wal, pubacked, expired>>
    BY <1>7 DEF DrainTimedOut, walVars, mqttVars
  <2> QED
    BY <2>1, <2>2, EndedKeeps
<1>8. CASE RecvBatch
  <2>1. /\ hand = None /\ hand' = Head(outq) /\ outq' = Tail(outq)
        /\ outq \in Seq(Batches) /\ outq # <<>>
        /\ UNCHANGED <<emitted, lost, pendingRetry, wal, pubacked, expired, reported, crashed,
                       unread>>
    BY <1>8 DEF RecvBatch, MayRecv, Suspended, Selecting, ControlInv, TypeOK, OutType,
       walVars, mqttVars, runVars
  <2> QED
    BY <2>1, RangeTail
<1>9. CASE RecvClosed
  <2>1. hand = None /\ UNCHANGED <<wal, pubacked, expired>>
    BY <1>9 DEF RecvClosed, MayRecv, Suspended, Selecting, ControlInv, walVars, mqttVars
  <2>2. CASE Suspended
    <3>1. pendingRetry = None /\ Ended(None) /\ None \in Slot
      BY <1>9, <2>2 DEF RecvClosed, Suspended, Slot
    <3> QED
      BY <2>1, <3>1, EndedKeeps
  <2>3. CASE ~Suspended
    BY <1>9, <2>1, <2>3 DEF RecvClosed, outVars, runVars
  <2> QED
    BY <2>2, <2>3
<1>10. CASE PushStored
  <2>1. PushOk(hand) /\ UNCHANGED <<emitted, outq, lost, pendingRetry, pubacked, reported,
                                    crashed, unread>>
    BY <1>10 DEF PushStored, outVars, mqttVars, runVars
  <2> QED
    BY <2>1, PushKeeps
<1>11. CASE PushFatal
  <2>1. /\ pendingRetry = None /\ hand \in Slot /\ Ended(hand)
        /\ PushRefused(hand) \/ PushDbError(hand)
        /\ pubacked' = pubacked
    BY <1>11 DEF PushFatal, ControlInv, TypeOK, LoopType, mqttVars
  <2> QED
    BY <2>1, EndedKeeps, PushKeeps
<1>12. CASE PushOverflow
  <2>1. /\ pendingRetry = None /\ pendingRetry' = hand /\ PushTimeout(hand)
        /\ UNCHANGED <<emitted, outq, lost, pubacked, reported, crashed, unread>>
    BY <1>12 DEF PushOverflow, ControlInv, outVars, mqttVars, runVars
  <2> QED
    BY <2>1, PushKeeps
<1>13. CASE RetryStored
  <2>1. PushOk(pendingRetry) /\ UNCHANGED <<emitted, outq, lost, hand, pubacked, reported,
                                            crashed, unread>>
    BY <1>13 DEF RetryStored, outVars, mqttVars, runVars
  <2> QED
    BY <2>1, PushKeeps
<1>14. CASE RetryFatal
  <2>1. /\ hand = None /\ pendingRetry \in Slot /\ Ended(pendingRetry)
        /\ PushRefused(pendingRetry) \/ PushDbError(pendingRetry)
        /\ pubacked' = pubacked
    BY <1>14 DEF RetryFatal, Retrying, ControlInv, TypeOK, LoopType, mqttVars
  <2> QED
    BY <2>1, EndedKeeps, PushKeeps
<1>15. CASE RetryTimeout
  <2>1. PushTimeout(pendingRetry) /\ UNCHANGED <<emitted, outq, lost, hand, pendingRetry,
                                                 pubacked, reported, crashed, unread>>
    BY <1>15 DEF RetryTimeout, Goto, outVars, mqttVars, runVars
  <2> QED
    BY <2>1, PushKeeps
<1>16. CASE NextNone
  <2>1. hand = None /\ UNCHANGED <<wal, pubacked, expired>>
    BY <1>16 DEF NextNone, MayTake, Closed, Selecting, ControlInv, walVars, mqttVars
  <2>2. CASE Closed /\ draining
    <3>1. pendingRetry = None /\ Ended(None) /\ None \in Slot
      BY <1>16, <2>2 DEF NextNone, Closed, Slot
    <3> QED
      BY <2>1, <3>1, EndedKeeps
  <2>3. CASE ~(Closed /\ draining)
    BY <1>16, <2>1, <2>3 DEF NextNone, Goto, outVars, runVars
  <2> QED
    BY <2>2, <2>3
<1>17. CASE Interrupted \/ AwaitTimedOut
  <2>1. StopTaking /\ UNCHANGED <<wal, expired, pubacked>>
    BY <1>17 DEF Interrupted, AwaitTimedOut, walVars
  <2> QED
    BY <2>1, StopTakingKeeps
<1>18. CASE Acked
  <2>1. /\ cur \in pubacked /\ wal' = wal \ {cur}
        /\ UNCHANGED <<emitted, outq, lost, hand, pendingRetry, pubacked, expired, reported,
                       crashed, unread>>
    BY <1>18 DEF Acked, Settle, ConfirmInv, outVars, runVars
  <2> QED
    BY <2>1
<1>19. CASE StoreLost
  <2>1. /\ lost \in Seq(Batches) /\ lost # <<>> /\ lost' = Tail(lost)
        /\ UNCHANGED <<emitted, outq, hand, pendingRetry, pubacked, crashed, unread>>
        /\ \/ PushOk(Head(lost)) /\ reported' = reported
           \/ /\ PushTimeout(Head(lost)) \/ PushRefused(Head(lost)) \/ PushDbError(Head(lost))
              /\ reported' = reported \cup {Head(lost)}
    BY <1>19 DEF StoreLost, TypeOK, RunType, outVars, mqttVars, loopVars
  <2>2. Range(lost) \subseteq {Head(lost)} \cup Range(lost')
    BY <2>1, RangeTail
  <2>3. wal \subseteq wal' /\ expired' = expired /\ reported \subseteq reported'
    BY <2>1, PushKeeps
  <2>4. Head(lost) \in wal' \/ Head(lost) \in reported'
    BY <2>1, PushKeeps
  <2> QED
    BY <2>1, <2>2, <2>3, <2>4
<1>20. CASE CloseBuffer
  <2>1. lost = <<>>
    BY <1>20 DEF CloseBuffer
  <2>2. hand = None /\ pendingRetry = None /\ Range(outq) = {}
    BY <1>20 DEF CloseBuffer, ControlInv, Range
  <2> QED
    BY <1>20, <2>1, <2>2 DEF CloseBuffer, ProcessEnds, Range
<1>21. CASE Crash
  <2>1. /\ crashed' = crashed \cup InMemory
        /\ UNCHANGED <<emitted, wal, pubacked, expired, reported, unread>>
    BY <1>21 DEF Crash, ProcessEnds
  <2> QED
    BY <2>1 DEF InMemory
<1>22. CASE UNCHANGED vars
  BY <1>1, <1>22 DEF vars
<1> QED
  BY <1>2, <1>3, <1>4, <1>5, <1>6, <1>7, <1>8, <1>9, <1>10, <1>11, <1>12, <1>13, <1>14,
     <1>15, <1>16, <1>17, <1>18, <1>19, <1>20, <1>21, <1>22 DEF Next, RunForward, Runtime,
     LoopHead, Storing, Publishing

(* An emitted batch is put into the channel. *)
LEMMA EmitKeeps ==
  ASSUME TypeOK, Emit
  PROVE  /\ emitted \in Nat /\ emitted' = emitted + 1
         /\ Somewhere \cup {emitted'} \subseteq Somewhere'
<1>1. /\ emitted \in Nat /\ emitted' = emitted + 1 /\ emitted' \in Batches
      /\ outq \in Seq(Batches) /\ outq' = Append(outq, emitted')
      /\ UNCHANGED <<lost, hand, pendingRetry, wal, pubacked, expired, reported, crashed,
                     unread>>
  BY ForwardAssumption DEF Emit, TypeOK, OutType, Batches, walVars, mqttVars, loopVars, runVars
<1>2. Range(outq) \cup {emitted'} \subseteq Range(outq')
  BY <1>1, RangeAppend
<1> QED
  BY <1>1, <1>2 DEF Somewhere, Held, Written, GivenUp

(* A batch the loop has received is never lost without a word: for any number
   of batches, faults, crashes and sessions it is in the channel, stored,
   acknowledged, expired, held, in the lost queue, or given up with an error
   in the log (push_batch, settle_lost, step 4.5 of shutdown).               *)
THEOREM NothingVanishes == Spec => []ReceivedIsAccounted
<1> DEFINE Inv == IInv /\ 1 .. emitted \subseteq Somewhere
<1>1. Init => Inv
  <2>1. Init => 1 .. emitted \subseteq Somewhere
    BY DEF Init
  <2> QED
    BY <2>1, InitInv
<1>2. Inv /\ [Next]_vars => Inv'
  <2> SUFFICES ASSUME Inv, [Next]_vars PROVE 1 .. emitted' \subseteq Somewhere'
    BY StepInv
  <2>1. TypeOK /\ ControlInv /\ ConfirmInv
    BY DEF IInv
  <2>2. CASE Emit
    <3>1. /\ emitted \in Nat /\ emitted' = emitted + 1
          /\ Somewhere \cup {emitted'} \subseteq Somewhere'
      BY <2>1, <2>2, EmitKeeps
    <3>2. \A b \in 1 .. emitted' : b \in 1 .. emitted \/ b = emitted'
      BY <3>1
    <3> QED
      BY <3>1, <3>2
  <2>3. CASE ~Emit
    <3>1. emitted' = emitted /\ Somewhere \ {None} \subseteq Somewhere'
      BY <2>1, <2>3, StaysSomewhere
    <3>2. None \notin 1 .. emitted
      BY <2>1 DEF None, TypeOK, OutType
    <3> QED
      BY <3>1, <3>2
  <2> QED
    BY <2>2, <2>3
<1>3. Inv => ReceivedIsAccounted
  BY DEF ReceivedIsAccounted, Somewhere, Held, Written, GivenUp
<1> QED
  BY <1>1, <1>2, <1>3, PTL DEF Spec
=============================================================================
