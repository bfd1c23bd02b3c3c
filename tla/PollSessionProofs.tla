------------------------- MODULE PollSessionProofs -------------------------
(***************************************************************************)
(* Proofs about PollSession, for every set of poll groups, every number of *)
(* writes, every set of driver codes and every channel size.               *)
(***************************************************************************)
EXTENDS PollSession, FiniteSetTheorems, TLAPS

(* The task waits for a call exactly in "wait"; no call is then in the slot,
   and the wait for it has not timed out.                                    *)
WaitInv ==
    \A g \in Groups :
        /\ pc[g] = "wait" <=> cur[g] # 0
        /\ pc[g] = "wait" => slot[g] = 0 /\ <<g, cur[g]>> \notin late

(* A read that runs is the one its task waits for or keeps in the slot, unless
   the task has ended.                                                       *)
OwnedReads ==
    \A g \in Groups : \A n \in {1, 2} :
        st[<<g, n>>] \in Live => pc[g] \in Stopped \/ n = cur[g] \/ n = slot[g]

(* A task that never has two calls never uses its second number. *)
OneNumber == \A g \in Groups : st[<<g, 2>>] = "none"

ReadInv == WaitInv /\ OwnedReads /\ OneNumber

(* A write nobody has asked for has no call; one that acted got as far as the
   session, and its answer does not deny it; one that is reported as failed
   was never called, or ended with an answer that denies it.                 *)
Unasked == \A w \in 1..MaxWrites : w > asked =>
               st[<<Control, w>>] = "none" /\ outcome[w] = "none"
ActedInSession ==
    \A c \in effect : \/ st[c] = "session"
                      \/ st[c] = "over" /\ (res[c] = "ok" \/ Uncertain(res[c]))
FailedIsOver ==
    \A w \in 1..MaxWrites : outcome[w] = "failed" =>
        /\ <<Control, w>> \notin effect
        /\ \/ st[<<Control, w>>] = "none" /\ w <= asked
           \/ st[<<Control, w>>] = "over" /\ ~Uncertain(res[<<Control, w>>])

WriteInv == Unasked /\ ActedInSession /\ FailedIsOver

IInv == TypeOK /\ ReadInv /\ NoStaleBatch /\ WriteInv

-----------------------------------------------------------------------------
(* Types *)

(* The parts of the state that the tasks, the calls and the writes change. *)
TaskType ==
    /\ pc \in [Groups -> {"tick", "reap", "wait", "send", "sleep", "drain"} \cup Stopped]
    /\ slot \in [Groups -> 0..2] /\ cur \in [Groups -> 0..2]
    /\ posting \in [Groups -> [kind: {"none", "batch", "failed"}, of: 0..2, retry: BOOLEAN]]
CallType ==
    /\ st \in [Calls -> Live \cup {"none", "over"}]
    /\ res \in [Calls -> {"none", "ok", "refused", "panic", "cancelled"} \cup ReadCodes \cup WriteCodes]
    /\ late \subseteq Reads /\ effect \subseteq Writes
WriteType ==
    /\ plan \in Plans /\ asked \in 0..MaxWrites
    /\ outcome \in [1..MaxWrites -> {"none", "open", "succeeded", "failed", "indeterminate"}]
OwnerType ==
    /\ events \in 0..EventCap /\ pump \in {"open", "closed"}
    /\ sched \in {"run", "shutdown", "grace", "ended"} /\ pool \in {"open", "closed"}

(* TypeOK is the conjunction of the four. *)
LEMMA TypeParts == TypeOK <=> TaskType /\ CallType /\ WriteType /\ OwnerType
BY DEF TypeOK, TaskType, CallType, WriteType, OwnerType

(* Every step keeps the types of the tasks. *)
LEMMA TaskTypeStep ==
  ASSUME TaskType, [Next]_vars
  PROVE  TaskType'
<1> USE DEF TaskType, Stopped, Idle
<1>1. CASE UNCHANGED taskVars
  BY <1>1 DEF taskVars
<1>2. ASSUME NEW g \in Groups, Tick(g) \/ Slept(g) \/ DrainDone(g)
      PROVE  TaskType'
  BY <1>2 DEF Tick, Slept, DrainDone, Goto
<1>3. ASSUME NEW g \in Groups, Reap(g)
      PROVE  TaskType'
  BY <1>3 DEF Reap, Goto
<1>4. ASSUME NEW g \in Groups, WaitDone(g)
      PROVE  TaskType'
  <2>1. PICK k \in {"batch", "failed"}, r \in BOOLEAN :
            posting' = [posting EXCEPT ![g] = [kind |-> k, of |-> cur[g], retry |-> r]]
    BY <1>4 DEF WaitDone
  <2> QED
    BY <1>4, <2>1 DEF WaitDone, Goto
<1>5. ASSUME NEW g \in Groups, WaitTimeout(g)
      PROVE  TaskType'
  BY <1>5 DEF WaitTimeout, Goto
<1>6. ASSUME NEW g \in Groups, CancelSeen(g) \/ Send(g) \/ SendClosed(g)
      PROVE  TaskType'
  <2>1. posting' = [posting EXCEPT ![g] = Idle] /\ UNCHANGED <<slot, cur>>
    BY <1>6 DEF CancelSeen, Send, SendClosed
  <2>2. PICK where \in {"drain", "sleep", "tick"} : Goto(g, where)
    BY <1>6 DEF CancelSeen, Send, SendClosed
  <2> QED
    BY <2>1, <2>2 DEF Goto
<1>7. ASSUME NEW c \in Calls, Pooled(c)
      PROVE  UNCHANGED taskVars
  BY <1>7 DEF Pooled, Started, LockView, LockSession, Acts, Returned, CallFrame
<1>8. CASE Engine
  <2>1. UNCHANGED taskVars
    BY <1>8 DEF Engine, Write, WriteUnknown, WriteDone, GiveUp, CtlFrame
  <2> QED
    BY <1>1, <2>1
<1>9. CASE GraceEnds
  BY <1>9 DEF GraceEnds
<1>10. CASE Owner /\ ~GraceEnds
  <2>1. UNCHANGED taskVars
    BY <1>10 DEF Owner, Consume, PumpGone, Shutdown, ShutdownDone, PoolClosed
  <2> QED
    BY <1>1, <2>1
<1> QED
  BY <1>1, <1>2, <1>3, <1>4, <1>5, <1>6, <1>7, <1>8, <1>9, <1>10 DEF Next, Task, vars

(* What a driver can answer is a result. *)
LEMMA AnswersType ==
  ASSUME NEW c \in Calls
  PROVE  Answers(c) \subseteq {"ok", "refused", "panic"} \cup ReadCodes \cup WriteCodes
BY DEF Answers

(* Every step keeps the types of the calls. *)
LEMMA CallTypeStep ==
  ASSUME TypeOK, [Next]_vars, WaitInv
  PROVE  CallType'
<1> USE Constants DEF CallType, Live
<1>0. TaskType /\ CallType /\ WriteType
  BY TypeParts
<1>1. CASE UNCHANGED <<callVars, effect>>
  BY <1>0, <1>1 DEF callVars
<1>2. ASSUME NEW g \in Groups, Task(g), ~Reap(g), ~WaitDone(g), ~WaitTimeout(g)
      PROVE  UNCHANGED <<callVars, effect>>
  BY <1>2 DEF Task, Tick, CancelSeen, Send, SendClosed, Slept, DrainDone, Frame, ctlVars
<1>3. ASSUME NEW g \in Groups, Reap(g)
      PROVE  CallType'
  <2>1. PICK n \in {1, 2} : /\ st' = [st EXCEPT ![<<g, n>>] = "thread"]
                             /\ res' = [res EXCEPT ![<<g, n>>] = "none"]
                             /\ late' = late \ {<<g, n>>}
    BY <1>3 DEF Reap
  <2> QED
    BY <1>0, <1>3, <2>1 DEF Reap, Frame, ctlVars
<1>4. ASSUME NEW g \in Groups, WaitDone(g)
      PROVE  CallType'
  BY <1>0, <1>4 DEF WaitDone, Frame, ctlVars
<1>5. ASSUME NEW g \in Groups, WaitTimeout(g)
      PROVE  CallType'
  <2>1. cur[g] \in {1, 2}
    BY <1>0, <1>5 DEF WaitTimeout, WaitInv, TaskType
  <2>2. <<g, cur[g]>> \in Reads
    BY <2>1 DEF Reads
  <2> QED
    BY <1>0, <1>5, <2>2 DEF WaitTimeout, Frame, ctlVars
<1>6. ASSUME NEW c \in Calls, Started(c) \/ LockView(c) \/ LockSession(c)
      PROVE  CallType'
  BY <1>0, <1>6 DEF Started, LockView, LockSession
<1>7. ASSUME NEW c \in Calls, Acts(c)
      PROVE  CallType'
  BY <1>0, <1>7 DEF Acts, callVars
<1>8. ASSUME NEW c \in Calls, Returned(c)
      PROVE  CallType'
  BY <1>0, <1>8, AnswersType DEF Returned
<1>9. CASE Write
  <2>1. CASE pool = "open"
    BY <1>0, <1>9, <2>1 DEF Write, CtlFrame
  <2>2. CASE pool # "open"
    BY <1>0, <1>9, <2>2 DEF Write, CtlFrame
  <2> QED
    BY <2>1, <2>2
<1>10. CASE Engine /\ ~Write
  <2>1. UNCHANGED <<callVars, effect>>
    BY <1>10 DEF Engine, WriteUnknown, WriteDone, GiveUp, CtlFrame, callVars
  <2> QED
    BY <1>1, <2>1
<1>11. CASE PoolClosed
  BY <1>0, <1>11 DEF PoolClosed, ctlVars
<1>12. CASE Owner /\ ~PoolClosed
  <2>1. UNCHANGED <<callVars, effect>>
    BY <1>12 DEF Owner, Consume, PumpGone, Shutdown, ShutdownDone, GraceEnds, ctlVars
  <2> QED
    BY <1>1, <2>1
<1>13. CASE UNCHANGED vars
  BY <1>1, <1>13 DEF vars, ctlVars
<1> QED
  BY <1>1, <1>2, <1>3, <1>4, <1>5, <1>6, <1>7, <1>8, <1>9, <1>10, <1>11, <1>12, <1>13
     DEF Next, Pooled

(* Every step keeps the types of the writes. *)
LEMMA WriteTypeStep ==
  ASSUME WriteType, [Next]_vars
  PROVE  WriteType'
<1> USE Constants DEF WriteType
<1>0. plan.writes \in 0..MaxWrites
  OBVIOUS
<1>1. CASE UNCHANGED <<plan, asked, outcome>>
  BY <1>1
<1>2. ASSUME NEW g \in Groups, Task(g)
      PROVE  UNCHANGED <<plan, asked, outcome>>
  BY <1>2 DEF Task, Tick, CancelSeen, Reap, WaitDone, WaitTimeout, Send, SendClosed, Slept,
     DrainDone, Frame, ctlVars
<1>3. ASSUME NEW c \in Calls, Pooled(c)
      PROVE  UNCHANGED <<plan, asked, outcome>>
  BY <1>3 DEF Pooled, Started, LockView, LockSession, Acts, Returned, CallFrame
<1>4. CASE Write \/ WriteUnknown
  BY <1>0, <1>4 DEF Write, WriteUnknown, CtlFrame
<1>5. ASSUME NEW w \in 1..MaxWrites, WriteDone(w) \/ GiveUp(w)
      PROVE  WriteType'
  BY <1>5 DEF WriteDone, GiveUp, CtlFrame
<1>6. CASE Owner
  <2>1. UNCHANGED <<plan, asked, outcome>>
    BY <1>6 DEF Owner, Consume, PumpGone, Shutdown, ShutdownDone, GraceEnds, PoolClosed, ctlVars
  <2> QED
    BY <1>1, <2>1
<1> QED
  BY <1>1, <1>2, <1>3, <1>4, <1>5, <1>6 DEF Next, Engine, vars, ctlVars

(* Every step keeps the types of the channel, the scheduler and the pool. *)
LEMMA OwnerTypeStep ==
  ASSUME OwnerType, [Next]_vars
  PROVE  OwnerType'
<1> USE Constants DEF OwnerType
<1>1. CASE UNCHANGED <<events, pump, sched, pool>>
  BY <1>1
<1>2. ASSUME NEW g \in Groups, Task(g), ~Send(g)
      PROVE  UNCHANGED <<events, pump, sched, pool>>
  BY <1>2 DEF Task, Tick, CancelSeen, Reap, WaitDone, WaitTimeout, SendClosed, Slept,
     DrainDone, Frame
<1>3. ASSUME NEW g \in Groups, Send(g)
      PROVE  OwnerType'
  BY <1>3 DEF Send
<1>4. ASSUME NEW c \in Calls, Pooled(c)
      PROVE  UNCHANGED <<events, pump, sched, pool>>
  BY <1>4 DEF Pooled, Started, LockView, LockSession, Acts, Returned, CallFrame
<1>5. CASE Engine
  <2>1. UNCHANGED <<events, pump, sched, pool>>
    BY <1>5 DEF Engine, Write, WriteUnknown, WriteDone, GiveUp, CtlFrame
  <2> QED
    BY <1>1, <2>1
<1>6. CASE Owner
  BY <1>6 DEF Owner, Consume, PumpGone, Shutdown, ShutdownDone, GraceEnds, PoolClosed
<1> QED
  BY <1>1, <1>2, <1>3, <1>4, <1>5, <1>6 DEF Next, vars

-----------------------------------------------------------------------------
(* Reads *)

(* A task that reaps has no read running: the call it starts has number 1. *)
LEMMA ReapStarts ==
  ASSUME TypeOK, ReadInv, NEW g \in Groups, Reap(g)
  PROVE  /\ st' = [st EXCEPT ![<<g, 1>>] = "thread"]
         /\ late' = late \ {<<g, 1>>}
         /\ cur' = [cur EXCEPT ![g] = 1]
<1>1. st[<<g, 1>>] \notin Live
  <2>1. pc[g] = "reap" /\ cur[g] = 0
    BY DEF Reap, ReadInv, WaitInv, TypeOK
  <2>2. slot[g] = 1 => st[<<g, 1>>] = "over"
    BY DEF Reap
  <2>3. st[<<g, 1>>] \in Live => pc[g] \in Stopped \/ 1 = cur[g] \/ 1 = slot[g]
    BY DEF ReadInv, OwnedReads
  <2> QED
    BY <2>1, <2>2, <2>3 DEF Live, Stopped
<1>2. PICK n \in {1, 2} :
         /\ \A m \in 1..(n - 1) : st[<<g, m>>] \in Live
         /\ st' = [st EXCEPT ![<<g, n>>] = "thread"]
         /\ late' = late \ {<<g, n>>}
         /\ cur' = [cur EXCEPT ![g] = n]
  BY DEF Reap
<1>3. n = 1
  <2>1. n = 2 => 1 \in 1..(n - 1)
    OBVIOUS
  <2> QED
    BY <1>1, <1>2, <2>1
<1> QED
  BY <1>2, <1>3

(* The steps that leave the tasks and the reads alone. *)
ReadsStay == UNCHANGED <<taskVars, late>> /\ \A c \in Reads : st'[c] = st[c]

(* They keep the facts about reads. *)
LEMMA ReadsStayLemma ==
  ASSUME TypeOK, ReadInv, ReadsStay
  PROVE  ReadInv'
<1>1. \A g \in Groups : \A n \in {1, 2} : <<g, n>> \in Reads
  BY DEF Reads
<1> QED
  BY <1>1 DEF ReadInv, WaitInv, OwnedReads, OneNumber, ReadsStay, taskVars

(* No call is both: the control caller is not a poll group. *)
LEMMA WritesAreNotReads == Reads \cap Writes = {}
BY Constants DEF Reads, Writes

(* Every step keeps who owns the reads that run. *)
LEMMA ReadStep ==
  ASSUME TypeOK, ReadInv, [Next]_vars
  PROVE  ReadInv'
<1> USE DEF Live, Stopped
<1>0. /\ pc \in [Groups -> {"tick", "reap", "wait", "send", "sleep", "drain"} \cup Stopped]
      /\ slot \in [Groups -> 0..2] /\ cur \in [Groups -> 0..2]
      /\ st \in [Calls -> Live \cup {"none", "over"}]
      /\ \A g \in Groups : <<g, 1>> \in Calls /\ <<g, 2>> \in Calls
      /\ \A g \in Groups, n \in {1, 2} : <<g, n>> \in Reads
  BY DEF TypeOK, Calls, Reads
<1>1. CASE ReadsStay
  BY <1>1, ReadsStayLemma
<1>2. ASSUME NEW g \in Groups,
             Tick(g) \/ Slept(g) \/ CancelSeen(g) \/ Send(g) \/ SendClosed(g)
      PROVE  ReadInv'
  <2>1. UNCHANGED <<slot, cur, callVars>>
    BY <1>2 DEF Tick, Slept, CancelSeen, Send, SendClosed
  <2>2. PICK where \in {"reap", "drain", "sleep", "tick"} :
            pc' = [pc EXCEPT ![g] = where] /\ pc[g] \notin {"wait", "done", "aborted"}
    BY <1>2 DEF Tick, Slept, CancelSeen, Send, SendClosed, Goto
  <2>3. WaitInv' /\ OneNumber'
    BY <1>0, <2>1, <2>2 DEF ReadInv, WaitInv, OneNumber, callVars
  <2>4. OwnedReads'
    BY <1>0, <2>1, <2>2 DEF ReadInv, OwnedReads, callVars
  <2> QED
    BY <2>3, <2>4 DEF ReadInv
<1>3. ASSUME NEW g \in Groups, Reap(g)
      PROVE  ReadInv'
  <2>1. /\ st' = [st EXCEPT ![<<g, 1>>] = "thread"]
        /\ late' = late \ {<<g, 1>>}
        /\ cur' = [cur EXCEPT ![g] = 1]
    BY <1>3, ReapStarts
  <2>2. slot' = [slot EXCEPT ![g] = 0] /\ pc' = [pc EXCEPT ![g] = "wait"]
    BY <1>3 DEF Reap, Goto
  <2>3. ASSUME NEW h \in Groups
        PROVE  /\ pc'[h] = "wait" <=> cur'[h] # 0
               /\ pc'[h] = "wait" => slot'[h] = 0 /\ <<h, cur'[h]>> \notin late'
    <3>1. CASE h = g
      BY <1>0, <2>1, <2>2, <3>1
    <3>2. CASE h # g
      BY <1>0, <2>1, <2>2, <3>2 DEF ReadInv, WaitInv
    <3> QED
      BY <3>1, <3>2
  <2>4. OneNumber'
    <3>1. \A h \in Groups : <<h, 2>> # <<g, 1>>
      OBVIOUS
    <3> QED
      BY <1>0, <2>1, <3>1 DEF ReadInv, OneNumber
  <2>5. ASSUME NEW h \in Groups, NEW n \in {1, 2}, st'[<<h, n>>] \in Live
        PROVE  pc'[h] \in Stopped \/ n = cur'[h] \/ n = slot'[h]
    <3>1. CASE h = g
      BY <1>0, <2>1, <2>4, <2>5, <3>1 DEF OneNumber
    <3>2. CASE h # g
      <4>1. st'[<<h, n>>] = st[<<h, n>>]
        BY <1>0, <2>1, <3>2
      <4> QED
        BY <1>0, <2>1, <2>2, <2>5, <3>2, <4>1 DEF ReadInv, OwnedReads
    <3> QED
      BY <3>1, <3>2
  <2> QED
    BY <2>3, <2>4, <2>5 DEF ReadInv, WaitInv, OwnedReads
<1>4. ASSUME NEW g \in Groups, WaitDone(g)
      PROVE  ReadInv'
  <2>1. /\ pc[g] = "wait" /\ pc' = [pc EXCEPT ![g] = "send"]
        /\ cur' = [cur EXCEPT ![g] = 0] /\ UNCHANGED <<slot, late>>
        /\ st' = [st EXCEPT ![<<g, cur[g]>>] = "none"]
    BY <1>4 DEF WaitDone, Goto
  <2>2. WaitInv'
    BY <1>0, <2>1 DEF ReadInv, WaitInv
  <2>3. OneNumber'
    BY <1>0, <2>1 DEF ReadInv, OneNumber
  <2>4. ASSUME NEW h \in Groups, NEW n \in {1, 2}, st'[<<h, n>>] \in Live
        PROVE  pc'[h] \in Stopped \/ n = cur'[h] \/ n = slot'[h]
    <3>1. st'[<<h, n>>] = st[<<h, n>>] /\ (h = g => n # cur[g])
      BY <1>0, <2>1, <2>4
    <3> QED
      BY <1>0, <2>1, <2>4, <3>1 DEF ReadInv, OwnedReads
  <2> QED
    BY <2>2, <2>3, <2>4 DEF ReadInv, OwnedReads
<1>5. ASSUME NEW g \in Groups, WaitTimeout(g)
      PROVE  ReadInv'
  <2>1. /\ pc[g] = "wait" /\ pc' = [pc EXCEPT ![g] = "send"]
        /\ cur' = [cur EXCEPT ![g] = 0] /\ slot' = [slot EXCEPT ![g] = cur[g]]
        /\ st' = st /\ late' = late \cup {<<g, cur[g]>>}
    BY <1>5 DEF WaitTimeout, Goto
  <2>2. WaitInv'
    BY <1>0, <2>1 DEF ReadInv, WaitInv
  <2>3. OneNumber' /\ OwnedReads'
    BY <1>0, <2>1 DEF ReadInv, OneNumber, OwnedReads, WaitInv
  <2> QED
    BY <2>2, <2>3 DEF ReadInv
<1>6. ASSUME NEW g \in Groups, DrainDone(g)
      PROVE  ReadInv'
  <2>1. /\ pc[g] = "drain" /\ pc' = [pc EXCEPT ![g] = "done"]
        /\ slot' = [slot EXCEPT ![g] = 0] /\ UNCHANGED <<cur, st, late>>
    BY <1>6 DEF DrainDone, Goto, callVars
  <2> QED
    BY <1>0, <2>1 DEF ReadInv, WaitInv, OneNumber, OwnedReads
<1>7. ASSUME NEW c \in Calls, Started(c) \/ LockView(c) \/ LockSession(c) \/ Returned(c)
      PROVE  ReadInv'
  <2>1. PICK s \in {"thread", "driver", "session", "over"} :
            st' = [st EXCEPT ![c] = s] /\ st[c] \in Live
    BY <1>7 DEF Started, LockView, LockSession, Returned
  <2>2. UNCHANGED <<pc, slot, cur, late>>
    BY <1>7 DEF Started, LockView, LockSession, Returned, CallFrame, taskVars
  <2>3. OneNumber' /\ OwnedReads'
    BY <1>0, <2>1, <2>2 DEF ReadInv, OneNumber, OwnedReads
  <2> QED
    BY <2>2, <2>3 DEF ReadInv, WaitInv
<1>8. ASSUME NEW c \in Calls, Acts(c)
      PROVE  ReadsStay
  BY <1>8 DEF Acts, CallFrame, callVars, ReadsStay
<1>9. CASE Write
  <2>1. plan.writes \in 0..MaxWrites /\ asked \in 0..MaxWrites
    BY Constants DEF TypeOK
  <2>2. asked + 1 \in 1..MaxWrites
    BY <1>9, <2>1, Constants DEF Write
  <2>3. <<Control, asked + 1>> \in Writes
    BY <2>2 DEF Writes
  <2>4. \E s \in {"spawned", "over"} : st' = [st EXCEPT ![<<Control, asked + 1>>] = s]
    BY <1>9 DEF Write
  <2>5. ReadsStay
    BY <1>0, <1>9, <2>3, <2>4, WritesAreNotReads DEF Write, CtlFrame, ReadsStay, Calls
  <2> QED
    BY <1>1, <2>5
<1>10. CASE Engine /\ ~Write
  <2>1. ReadsStay
    BY <1>10 DEF Engine, WriteUnknown, WriteDone, GiveUp, CtlFrame, ReadsStay
  <2> QED
    BY <1>1, <2>1
<1>11. CASE GraceEnds
  <2>1. /\ pc' = [g \in Groups |-> IF pc[g] \in Stopped THEN pc[g] ELSE "aborted"]
        /\ cur' = [g \in Groups |-> 0] /\ slot' = [g \in Groups |-> 0]
        /\ UNCHANGED <<st, late>>
    BY <1>11 DEF GraceEnds, callVars
  <2> QED
    BY <1>0, <2>1 DEF ReadInv, WaitInv, OneNumber, OwnedReads
<1>12. CASE PoolClosed
  <2>1. /\ UNCHANGED <<pc, slot, cur, late>>
        /\ st' = [c \in Calls |-> IF st[c] = "spawned" THEN "over" ELSE st[c]]
    BY <1>12 DEF PoolClosed, taskVars
  <2>2. OneNumber' /\ OwnedReads'
    BY <1>0, <2>1 DEF ReadInv, OneNumber, OwnedReads
  <2> QED
    BY <2>1, <2>2 DEF ReadInv, WaitInv
<1>13. CASE Owner /\ ~GraceEnds /\ ~PoolClosed
  <2>1. ReadsStay
    BY <1>13 DEF Owner, Consume, PumpGone, Shutdown, ShutdownDone, callVars, ReadsStay
  <2> QED
    BY <1>1, <2>1
<1>14. CASE UNCHANGED vars
  BY <1>1, <1>14 DEF vars, callVars, ReadsStay
<1> QED
  BY <1>1, <1>2, <1>3, <1>4, <1>5, <1>6, <1>7, <1>8, <1>9, <1>10, <1>11, <1>12, <1>13, <1>14
     DEF Next, Task, Pooled

(* Every step keeps what a batch may carry. *)
LEMMA BatchStep ==
  ASSUME TypeOK, ReadInv, NoStaleBatch, [Next]_vars
  PROVE  NoStaleBatch'
<1>0. /\ posting \in [Groups -> [kind: {"none", "batch", "failed"}, of: 0..2, retry: BOOLEAN]]
      /\ cur \in [Groups -> 0..2]
  BY DEF TypeOK
<1>1. CASE UNCHANGED <<posting, late>>
  BY <1>1 DEF NoStaleBatch
<1>2. ASSUME NEW g \in Groups, Tick(g) \/ Slept(g) \/ DrainDone(g)
      PROVE  UNCHANGED <<posting, late>>
  BY <1>2 DEF Tick, Slept, DrainDone, callVars
<1>3. ASSUME NEW g \in Groups, CancelSeen(g) \/ Send(g) \/ SendClosed(g)
      PROVE  NoStaleBatch'
  <2>1. posting' = [posting EXCEPT ![g] = Idle] /\ late' = late
    BY <1>3 DEF CancelSeen, Send, SendClosed, callVars
  <2> QED
    BY <1>0, <2>1 DEF NoStaleBatch, Idle
<1>4. ASSUME NEW g \in Groups, Reap(g)
      PROVE  NoStaleBatch'
  <2>1. posting' = posting /\ late' \subseteq late
    BY <1>4 DEF Reap
  <2> QED
    BY <2>1 DEF NoStaleBatch
<1>5. ASSUME NEW g \in Groups, WaitDone(g)
      PROVE  NoStaleBatch'
  <2>1. PICK k, r : posting' = [posting EXCEPT ![g] = [kind |-> k, of |-> cur[g], retry |-> r]]
    BY <1>5 DEF WaitDone
  <2>2. late' = late /\ pc[g] = "wait"
    BY <1>5 DEF WaitDone
  <2> QED
    BY <1>0, <2>1, <2>2 DEF NoStaleBatch, ReadInv, WaitInv
<1>6. ASSUME NEW g \in Groups, WaitTimeout(g)
      PROVE  NoStaleBatch'
  <2>1. PICK p : /\ posting' = [posting EXCEPT ![g] = p] /\ p.kind = "failed"
                 /\ late' = late \cup {<<g, cur[g]>>}
    BY <1>6 DEF WaitTimeout
  <2> QED
    BY <1>0, <2>1 DEF NoStaleBatch
<1>7. ASSUME NEW c \in Calls, Pooled(c)
      PROVE  UNCHANGED <<posting, late>>
  BY <1>7 DEF Pooled, Started, LockView, LockSession, Acts, Returned, CallFrame, taskVars, callVars
<1>8. CASE Engine
  <2>1. UNCHANGED <<posting, late>>
    BY <1>8 DEF Engine, Write, WriteUnknown, WriteDone, GiveUp, CtlFrame, taskVars
  <2> QED
    BY <1>1, <2>1
<1>9. CASE GraceEnds
  BY <1>9 DEF GraceEnds, NoStaleBatch, Idle
<1>10. CASE Owner /\ ~GraceEnds
  <2>1. UNCHANGED <<posting, late>>
    BY <1>10 DEF Owner, Consume, PumpGone, Shutdown, ShutdownDone, PoolClosed, taskVars, callVars
  <2> QED
    BY <1>1, <2>1
<1>11. CASE UNCHANGED vars
  BY <1>1, <1>11 DEF vars, taskVars, callVars
<1> QED
  BY <1>1, <1>2, <1>3, <1>4, <1>5, <1>6, <1>7, <1>8, <1>9, <1>10, <1>11 DEF Next, Task

-----------------------------------------------------------------------------
(* Writes *)

(* The steps that leave the writes alone. *)
WritesStay ==
    /\ UNCHANGED ctlVars
    /\ \A c \in Writes : st'[c] = st[c] /\ res'[c] = res[c]

(* They keep the facts about writes. *)
LEMMA WritesStayLemma ==
  ASSUME TypeOK, WriteInv, WritesStay
  PROVE  WriteInv'
<1>1. /\ effect \subseteq Writes
      /\ \A w \in 1..MaxWrites : <<Control, w>> \in Writes
  BY DEF TypeOK, Writes
<1> QED
  BY <1>1 DEF WriteInv, Unasked, ActedInSession, FailedIsOver, WritesStay, ctlVars, Uncertain

(* A task touches its own reads only. *)
LEMMA TaskLeavesWrites ==
  ASSUME TypeOK, ReadInv, NEW g \in Groups, Task(g)
  PROVE  WritesStay
<1> USE WritesAreNotReads DEF WritesStay
<1>0. st \in [Calls -> Live \cup {"none", "over"}] /\ DOMAIN res = Calls /\ Writes \subseteq Calls
  BY DEF TypeOK, Calls
<1>1. CASE Tick(g) \/ CancelSeen(g) \/ WaitTimeout(g) \/ Send(g) \/ SendClosed(g) \/ Slept(g) \/ DrainDone(g)
  BY <1>1 DEF Tick, CancelSeen, WaitTimeout, Send, SendClosed, Slept, DrainDone, Frame, callVars
<1>2. CASE Reap(g)
  <2>1. PICK n \in {1, 2} : /\ st' = [st EXCEPT ![<<g, n>>] = "thread"]
                             /\ res' = [res EXCEPT ![<<g, n>>] = "none"]
    BY <1>2 DEF Reap
  <2>2. <<g, n>> \in Reads
    BY DEF Reads
  <2> QED
    BY <1>0, <1>2, <2>1, <2>2 DEF Reap, Frame
<1>3. CASE WaitDone(g)
  <2>1. cur[g] \in {1, 2}
    BY <1>3 DEF WaitDone, ReadInv, WaitInv, TypeOK
  <2>2. <<g, cur[g]>> \in Reads
    BY <2>1 DEF Reads
  <2>3. /\ st' = [st EXCEPT ![<<g, cur[g]>>] = "none"]
        /\ res' = [res EXCEPT ![<<g, cur[g]>>] = "none"]
        /\ UNCHANGED ctlVars
    BY <1>3 DEF WaitDone, Frame
  <2> QED
    BY <1>0, <2>2, <2>3
<1> QED
  BY <1>1, <1>2, <1>3 DEF Task

(* Every step keeps what is known of the writes. *)
LEMMA WriteStep ==
  ASSUME TypeOK, ReadInv, WriteInv, [Next]_vars
  PROVE  WriteInv'
<1> USE DEF Live, Uncertain
<1>0. /\ st \in [Calls -> Live \cup {"none", "over"}] /\ DOMAIN res = Calls
      /\ effect \subseteq Writes /\ Writes \subseteq Calls
      /\ outcome \in [1..MaxWrites -> {"none", "open", "succeeded", "failed", "indeterminate"}]
      /\ asked \in 0..MaxWrites /\ MaxWrites \in Nat
      /\ \A w \in 1..MaxWrites : <<Control, w>> \in Writes
      /\ \A v, w \in 1..MaxWrites : <<Control, v>> = <<Control, w>> => v = w
  BY Constants DEF TypeOK, Calls, Writes
<1>1. CASE WritesStay
  BY <1>1, WritesStayLemma
<1>2. ASSUME NEW g \in Groups, Task(g)
      PROVE  WritesStay
  BY <1>2, TaskLeavesWrites
<1>3. ASSUME NEW c \in Calls, Started(c) \/ LockView(c) \/ LockSession(c)
      PROVE  WriteInv'
  <2>1. PICK s \in {"thread", "driver", "session"} :
            st' = [st EXCEPT ![c] = s] /\ st[c] \in {"spawned", "thread", "driver"}
    BY <1>3 DEF Started, LockView, LockSession
  <2>2. UNCHANGED <<res, effect, asked, outcome>>
    BY <1>3 DEF Started, LockView, LockSession, CallFrame
  <2>3. Unasked' /\ FailedIsOver'
    BY <1>0, <2>1, <2>2 DEF WriteInv, Unasked, FailedIsOver
  <2>4. ActedInSession'
    BY <1>0, <2>1, <2>2 DEF WriteInv, ActedInSession
  <2> QED
    BY <2>3, <2>4 DEF WriteInv
<1>4. ASSUME NEW c \in Calls, Acts(c)
      PROVE  WriteInv'
  <2>1. /\ effect' = effect \cup {c} /\ UNCHANGED <<st, res, asked, outcome>>
        /\ st[c] = "session" \/ (st[c] = "over" /\ Uncertain(res[c]))
    BY <1>4 DEF Acts, CallFrame, callVars
  <2>2. Unasked' /\ ActedInSession'
    BY <2>1 DEF WriteInv, Unasked, ActedInSession
  <2>3. FailedIsOver'
    BY <2>1 DEF WriteInv, FailedIsOver
  <2> QED
    BY <2>2, <2>3 DEF WriteInv
<1>5. ASSUME NEW c \in Calls, Returned(c)
      PROVE  WriteInv'
  <2>1. PICK r \in Answers(c) : res' = [res EXCEPT ![c] = r]
    BY <1>5 DEF Returned
  <2>2. st[c] = "session" /\ st' = [st EXCEPT ![c] = "over"] /\ UNCHANGED <<effect, asked, outcome>>
    BY <1>5 DEF Returned, CallFrame
  <2>3. Unasked'
    BY <1>0, <2>2 DEF WriteInv, Unasked
  <2>4. ActedInSession'
    <3>1. c \in effect => r = "ok" \/ Uncertain(r)
      BY <1>0, WritesAreNotReads DEF Answers
    <3> QED
      BY <1>0, <2>1, <2>2, <3>1 DEF WriteInv, ActedInSession
  <2>5. FailedIsOver'
    BY <1>0, <2>1, <2>2 DEF WriteInv, FailedIsOver
  <2> QED
    BY <2>3, <2>4, <2>5 DEF WriteInv
<1>6. CASE Write
  <2>1. plan.writes \in 0..MaxWrites
    BY Constants DEF TypeOK
  <2>2. asked + 1 \in 1..MaxWrites
    BY <1>0, <1>6, <2>1 DEF Write
  <2>3. PICK s \in {"spawned", "over"} : st' = [st EXCEPT ![<<Control, asked + 1>>] = s]
    BY <1>6 DEF Write
  <2>4. /\ effect' = effect /\ asked' = asked + 1
        /\ outcome' = [outcome EXCEPT ![asked + 1] = "open"]
        /\ \A c \in Calls : c # <<Control, asked + 1>> => res'[c] = res[c]
    BY <1>0, <1>6 DEF Write, CtlFrame
  <2>5. st[<<Control, asked + 1>>] = "none"
    BY <1>0, <2>2 DEF WriteInv, Unasked
  <2>6. Unasked'
    BY <1>0, <2>2, <2>3, <2>4 DEF WriteInv, Unasked
  <2>7. ActedInSession'
    BY <1>0, <2>3, <2>4, <2>5 DEF WriteInv, ActedInSession
  <2>8. FailedIsOver'
    BY <1>0, <2>2, <2>3, <2>4 DEF WriteInv, FailedIsOver
  <2> QED
    BY <2>6, <2>7, <2>8 DEF WriteInv
<1>7. CASE WriteUnknown
  <2>1. plan.writes \in 0..MaxWrites
    BY Constants DEF TypeOK
  <2>2. asked + 1 \in 1..MaxWrites
    BY <1>0, <1>7, <2>1 DEF WriteUnknown
  <2>3. /\ effect' = effect /\ asked' = asked + 1 /\ st' = st /\ res' = res
        /\ outcome' = [outcome EXCEPT ![asked + 1] = "failed"]
    BY <1>7 DEF WriteUnknown, CtlFrame
  <2>4. st[<<Control, asked + 1>>] = "none"
    BY <1>0, <2>2 DEF WriteInv, Unasked
  <2>5. <<Control, asked + 1>> \notin effect
    BY <2>4 DEF WriteInv, ActedInSession
  <2>6. Unasked' /\ ActedInSession'
    BY <1>0, <2>2, <2>3 DEF WriteInv, Unasked, ActedInSession
  <2>7. FailedIsOver'
    BY <1>0, <2>2, <2>3, <2>4, <2>5 DEF WriteInv, FailedIsOver
  <2> QED
    BY <2>6, <2>7 DEF WriteInv
<1>8. ASSUME NEW w \in 1..MaxWrites, WriteDone(w)
      PROVE  WriteInv'
  <2>1. /\ UNCHANGED <<st, res, asked, effect>>
        /\ outcome[w] = "open" /\ st[<<Control, w>>] = "over"
    BY <1>8 DEF WriteDone, CtlFrame
  <2> DEFINE r == res[<<Control, w>>]
             o == CASE r \in {"ok", "refused"} -> "succeeded"
                    [] Uncertain(r) -> "indeterminate"
                    [] OTHER -> "failed"
  <2>2. /\ outcome' = [outcome EXCEPT ![w] = o]
        /\ o \in {"succeeded", "indeterminate", "failed"}
        /\ o = "failed" => r # "ok" /\ ~Uncertain(r)
    BY <1>8 DEF WriteDone
  <2> HIDE DEF o
  <2>3. Unasked' /\ ActedInSession'
    BY <1>0, <2>1, <2>2 DEF WriteInv, Unasked, ActedInSession
  <2>4. o = "failed" => <<Control, w>> \notin effect
    BY <2>1, <2>2 DEF WriteInv, ActedInSession
  <2>5. FailedIsOver'
    BY <1>0, <2>1, <2>2, <2>4 DEF WriteInv, FailedIsOver
  <2> QED
    BY <2>3, <2>5 DEF WriteInv
<1>9. ASSUME NEW w \in 1..MaxWrites, GiveUp(w)
      PROVE  WriteInv'
  <2>1. /\ UNCHANGED <<st, res, asked, effect>> /\ outcome[w] = "open"
        /\ outcome' = [outcome EXCEPT ![w] = "indeterminate"]
    BY <1>9 DEF GiveUp, CtlFrame
  <2> QED
    BY <1>0, <2>1 DEF WriteInv, Unasked, ActedInSession, FailedIsOver
<1>10. CASE PoolClosed
  <2>1. /\ UNCHANGED <<effect, asked, outcome>>
        /\ \A c \in Calls : st[c] = "spawned" => st'[c] = "over"
        /\ \A c \in Calls : st[c] # "spawned" => st'[c] = st[c] /\ res'[c] = res[c]
    BY <1>10 DEF PoolClosed, ctlVars
  <2>2. Unasked'
    BY <1>0, <2>1 DEF WriteInv, Unasked
  <2>3. ActedInSession'
    BY <1>0, <2>1 DEF WriteInv, ActedInSession
  <2>4. FailedIsOver'
    BY <1>0, <2>1 DEF WriteInv, FailedIsOver
  <2> QED
    BY <2>2, <2>3, <2>4 DEF WriteInv
<1>11. CASE Owner /\ ~PoolClosed
  <2>1. WritesStay
    BY <1>11 DEF Owner, Consume, PumpGone, Shutdown, ShutdownDone, GraceEnds, callVars, WritesStay
  <2> QED
    BY <1>1, <2>1
<1>12. CASE UNCHANGED vars
  BY <1>1, <1>12 DEF vars, callVars, WritesStay
<1> QED
  BY <1>1, <1>2, <1>3, <1>4, <1>5, <1>6, <1>7, <1>8, <1>9, <1>10, <1>11, <1>12
     DEF Next, Pooled, Engine

-----------------------------------------------------------------------------
(* The theorems *)

(* The initial states satisfy the invariant. *)
LEMMA InitIInv == Init => IInv
<1> SUFFICES ASSUME Init PROVE IInv
  OBVIOUS
<1>1. TypeOK
  BY Constants DEF Init, TypeOK, Idle, Live, Stopped
<1>2. ReadInv
  BY DEF Init, ReadInv, WaitInv, OwnedReads, OneNumber, Live, Calls, Reads
<1>3. NoStaleBatch
  BY DEF Init, NoStaleBatch
<1>4. WriteInv
  BY Constants DEF Init, WriteInv, Unasked, ActedInSession, FailedIsOver, Calls, Writes
<1> QED
  BY <1>1, <1>2, <1>3, <1>4 DEF IInv

(* Every step keeps it. *)
LEMMA IInvStep == IInv /\ [Next]_vars => IInv'
<1> SUFFICES ASSUME IInv, [Next]_vars PROVE IInv'
  OBVIOUS
<1>1. TypeOK'
  <2>1. TaskType' /\ CallType' /\ WriteType' /\ OwnerType'
    BY TypeParts, TaskTypeStep, CallTypeStep, WriteTypeStep, OwnerTypeStep DEF IInv, ReadInv
  <2> QED
    BY <2>1 DEF TypeOK, TaskType, CallType, WriteType, OwnerType
<1>2. ReadInv'
  BY ReadStep DEF IInv
<1>3. NoStaleBatch'
  BY BatchStep DEF IInv
<1>4. WriteInv'
  BY WriteStep DEF IInv
<1> QED
  BY <1>1, <1>2, <1>3, <1>4 DEF IInv

(* Every behaviour of the poll tasks, the calls on the blocking pool and the
   control executor keeps the inductive invariant. *)
THEOREM PollInvariant == Spec => []IInv
BY InitIInv, IInvStep, PTL DEF Spec

(* The state of the tasks, calls and writes is well typed (PollScheduler,
   BatchCall, DeviceControlExecutor). *)
THEOREM PollTypes == Spec => []TypeOK
<1>1. IInv => TypeOK
  BY DEF IInv
<1> QED
  BY <1>1, PollInvariant, PTL

(* BatchCall::run (poll.rs): however timeouts, back-off, cancellation and a
   driver that never answers interleave, a group has at most one read on the
   blocking pool. *)
THEOREM OneReadPerGroup == Spec => []SingleFlight
<1>1. IInv => SingleFlight
  <2> SUFFICES ASSUME IInv, NEW g \in Groups
               PROVE  Cardinality({n \in {1, 2} : st[<<g, n>>] \in Live}) <= 1
    BY DEF SingleFlight
  <2>1. st[<<g, 2>>] \notin Live
    BY DEF IInv, ReadInv, OneNumber, Live
  <2> DEFINE running == {n \in {1, 2} : st[<<g, n>>] \in Live}
  <2>2. running = {} \/ running = {1}
    BY <2>1
  <2>3. Cardinality({}) = 0 /\ Cardinality({1}) = 1
    BY FS_EmptySet, FS_Singleton
  <2> HIDE DEF running
  <2>4. Cardinality(running) <= 1
    BY <2>2, <2>3
  <2> QED
    BY <2>4 DEF running
<1> QED
  BY <1>1, PollInvariant, PTL

(* BatchCall::run: a batch never carries the result of a read whose wait had
   timed out, also when that read ends just before the next cycle starts. *)
THEOREM BatchesAreFresh == Spec => []NoStaleBatch
<1>1. IInv => NoStaleBatch
  BY DEF IInv
<1> QED
  BY <1>1, PollInvariant, PTL

(* classify_failure (control_exec.rs): a write reported as failed has not
   acted on the device and never will, whatever calls the engine gave up and
   whenever the blocking pool goes down. *)
THEOREM FailedWritesAreSafe == Spec => []FailedNeverActs
<1>1. IInv => FailedNeverActs
  BY DEF IInv, WriteInv, FailedIsOver, FailedNeverActs
<1> QED
  BY <1>1, PollInvariant, PTL
=============================================================================
