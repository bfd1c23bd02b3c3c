---------------------------- MODULE PollSession ----------------------------
(* The poll tasks and the control executor of one device, which share the    *)
(* driver session (poll-engine/src/poll.rs, scheduler.rs;                    *)
(* device-manager/src/session.rs, control_exec.rs, instance.rs).             *)
(*                                                                           *)
(* Every poll group is an async task; every driver call is a closure on the  *)
(* blocking pool.  A read locks the poll view of the device and then the     *)
(* session, a write only the session.  Giving up a call (request timeout,    *)
(* control deadline) drops the wait, never the call.  The driver may take    *)
(* for ever, answer, fail or panic; what its answers say about the device is *)
(* the contract of DriverContract.                                           *)
EXTENDS Naturals, FiniteSets
CONSTANTS Groups,      \* the poll groups (PollTarget) of the device
          Control,     \* the caller of control writes
          MaxWrites,   \* bound: control writes in one behaviour
          Plans,       \* the groups and the number of writes of a behaviour
          ReadCodes,   \* error codes the driver answers to reads ...
          WriteCodes,  \* ... and to writes (whole-call failures)
          Retryable,   \* the read codes a driver marks retryable
          EventCap     \* capacity of the event channel to the pump

ASSUME Constants ==
    /\ Control \notin Groups
    /\ MaxWrites \in Nat
    /\ Plans \subseteq [groups: SUBSET Groups, writes: 0..MaxWrites]
    /\ EventCap \in Nat \ {0}
    /\ Retryable \subseteq ReadCodes
    /\ {"ok", "refused", "panic", "cancelled", "none"} \cap (ReadCodes \cup WriteCodes) = {}

\* Two numbers per group are enough for a group that has one call at a time.
Reads == Groups \X {1, 2}
Writes == {Control} \X (1..MaxWrites)
Calls == Reads \cup Writes

VARIABLES
    plan,      \* the plan of this behaviour; it never changes
    pc,        \* where each poll task is
    slot,      \* BatchCall.slot: the call that timed out, or 0
    cur,       \* the call the task waits for, or 0
    posting,   \* what send_batch / send_failure is about to send
    events,    \* number of events in the channel to the pump
    pump,      \* "open" or "closed": the receiving end of that channel
    st,        \* what each call is doing
    res,       \* how each call ended
    late,      \* the reads whose wait timed out
    effect,    \* writes that have acted on the device
    asked,     \* number of writes submitted
    outcome,   \* what the executor told the engine about each write
    sched,     \* scheduler: "run", "shutdown", "grace", "ended"
    pool       \* the blocking pool: "open" or "closed"

taskVars == <<pc, slot, cur, posting>>
callVars == <<st, res, late>>
ctlVars == <<effect, asked, outcome>>
vars == <<plan, taskVars, events, pump, callVars, ctlVars, sched, pool>>

Idle == [kind |-> "none", of |-> 0, retry |-> FALSE]
Stopped == {"done", "aborted"}
Live == {"spawned", "thread", "driver", "session"}
Cancelled == sched # "run"

\* `classify_failure`: the codes that prove the request never acted.
NotSentCodes == {"connection_failed", "unsupported", "config_error", "invalid_address",
                 "invalid_type", "driver_encoding_error", "modbus_exception"}

TypeOK ==
    /\ plan \in Plans
    /\ pc \in [Groups -> {"tick", "reap", "wait", "send", "sleep", "drain"} \cup Stopped]
    /\ slot \in [Groups -> 0..2] /\ cur \in [Groups -> 0..2]
    /\ posting \in [Groups -> [kind: {"none", "batch", "failed"}, of: 0..2, retry: BOOLEAN]]
    /\ events \in 0..EventCap /\ pump \in {"open", "closed"}
    /\ st \in [Calls -> Live \cup {"none", "over"}]
    /\ res \in [Calls -> {"none", "ok", "refused", "panic", "cancelled"} \cup ReadCodes \cup WriteCodes]
    /\ late \subseteq Reads /\ effect \subseteq Writes
    /\ asked \in 0..MaxWrites
    /\ outcome \in [1..MaxWrites -> {"none", "open", "succeeded", "failed", "indeterminate"}]
    /\ sched \in {"run", "shutdown", "grace", "ended"} /\ pool \in {"open", "closed"}

\* `register_device` + `PollScheduler::spawn`: one task per group, one session.
Init ==
    /\ plan \in Plans
    /\ pc = [g \in Groups |-> IF g \in plan.groups THEN "tick" ELSE "done"]
    /\ slot = [g \in Groups |-> 0] /\ cur = [g \in Groups |-> 0]
    /\ posting = [g \in Groups |-> Idle]
    /\ events = 0 /\ pump = "open"
    /\ st = [c \in Calls |-> "none"] /\ res = [c \in Calls |-> "none"]
    /\ late = {} /\ effect = {} /\ asked = 0
    /\ outcome = [w \in 1..MaxWrites |-> "none"]
    /\ sched = "run" /\ pool = "open"

-----------------------------------------------------------------------------
(* The poll task. *)
Goto(g, where) == pc' = [pc EXCEPT ![g] = where]
Frame == UNCHANGED <<plan, events, pump, ctlVars, sched, pool>>

\* ticker.tick(): the first one is immediate, later ones come with time.
Tick(g) ==
    /\ pc[g] = "tick"
    /\ Goto(g, "reap")
    /\ UNCHANGED <<slot, cur, posting, callVars>> /\ Frame

\* cancel.cancelled() wins a select: at the tick, in the back-off, while the
\* previous call is reaped or the event is sent.  The task goes to drain.
CancelSeen(g) ==
    /\ Cancelled
    /\ \/ pc[g] \in {"tick", "sleep", "send"}
       \/ pc[g] = "reap" /\ slot[g] # 0 /\ st[<<g, slot[g]>>] # "over"
    /\ Goto(g, "drain")
    /\ posting' = [posting EXCEPT ![g] = Idle]
    /\ UNCHANGED <<slot, cur, callVars>> /\ Frame

\* Mutant of Reap: the result of the call in the slot is taken for the new cycle's.
ReapReuses(g) ==
    \/ /\ pc[g] = "reap" /\ slot[g] = 0
       /\ st' = [st EXCEPT ![<<g, 1>>] = "thread"]
       /\ cur' = [cur EXCEPT ![g] = 1]
       /\ Goto(g, "wait")
       /\ UNCHANGED <<slot, posting, res, late>> /\ Frame
    \/ /\ pc[g] = "reap" /\ slot[g] # 0
       /\ st[<<g, slot[g]>>] = "over" /\ res[<<g, slot[g]>>] = "ok"
       /\ posting' = [posting EXCEPT ![g] = [kind |-> "batch", of |-> slot[g], retry |-> FALSE]]
       /\ slot' = [slot EXCEPT ![g] = 0]
       /\ Goto(g, "send")
       /\ UNCHANGED <<cur, callVars>> /\ Frame

\* BatchCall::run, first half: the call that timed out is over, its result is
\* void; a new blocking call is spawned.
Reap(g) ==
    /\ pc[g] = "reap"
    /\ slot[g] # 0 => st[<<g, slot[g]>>] = "over"
    /\ \E n \in {1, 2} :
        /\ st[<<g, n>>] \in {"none", "over"}
        /\ \A m \in 1..(n - 1) : st[<<g, m>>] \in Live
        /\ st' = [st EXCEPT ![<<g, n>>] = "thread"]
        /\ res' = [res EXCEPT ![<<g, n>>] = "none"]
        /\ late' = late \ {<<g, n>>}
        /\ cur' = [cur EXCEPT ![g] = n]
    /\ slot' = [slot EXCEPT ![g] = 0]
    /\ Goto(g, "wait")
    /\ UNCHANGED posting /\ Frame

\* BatchCall::run, second half: the call ended within request_timeout.
WaitDone(g) ==
    LET c == <<g, cur[g]>> IN
    /\ pc[g] = "wait" /\ st[c] = "over"
    /\ posting' = [posting EXCEPT ![g] =
           [kind |-> IF res[c] = "ok" THEN "batch" ELSE "failed", of |-> cur[g],
            retry |-> res[c] = "panic" \/ res[c] \in Retryable]]
    /\ cur' = [cur EXCEPT ![g] = 0]
    /\ st' = [st EXCEPT ![c] = "none"] /\ res' = [res EXCEPT ![c] = "none"]
    /\ Goto(g, "send")
    /\ UNCHANGED <<slot, late>> /\ Frame

\* Mutant of WaitTimeout: the handle of the call that timed out is dropped instead of kept.
WaitTimeoutForgets(g) ==
    /\ pc[g] = "wait" /\ st[<<g, cur[g]>>] # "over"
    /\ cur' = [cur EXCEPT ![g] = 0]
    /\ late' = late \cup {<<g, cur[g]>>}
    /\ posting' = [posting EXCEPT ![g] = [kind |-> "failed", of |-> 0, retry |-> TRUE]]
    /\ Goto(g, "send")
    /\ UNCHANGED <<slot, st, res>> /\ Frame

\* ... or it did not: the handle stays in the slot; a retryable failure.
WaitTimeout(g) ==
    /\ pc[g] = "wait" /\ st[<<g, cur[g]>>] # "over"
    /\ slot' = [slot EXCEPT ![g] = cur[g]]
    /\ cur' = [cur EXCEPT ![g] = 0]
    /\ late' = late \cup {<<g, cur[g]>>}
    /\ posting' = [posting EXCEPT ![g] = [kind |-> "failed", of |-> 0, retry |-> TRUE]]
    /\ Goto(g, "send")
    /\ UNCHANGED <<st, res>> /\ Frame

\* send_batch / send_failure: the event goes out when there is room; a batch
\* or a permanent error leads back to the rhythm, a retryable one to back-off.
Send(g) ==
    /\ pc[g] = "send" /\ pump = "open" /\ events < EventCap
    /\ events' = events + 1
    /\ Goto(g, IF posting[g].retry THEN "sleep" ELSE "tick")
    /\ posting' = [posting EXCEPT ![g] = Idle]
    /\ UNCHANGED <<plan, slot, cur, callVars, pump, ctlVars, sched, pool>>

\* The channel is closed: the task ends.
SendClosed(g) ==
    /\ pc[g] = "send" /\ pump = "closed"
    /\ posting' = [posting EXCEPT ![g] = Idle]
    /\ Goto(g, "drain")
    /\ UNCHANGED <<slot, cur, callVars>> /\ Frame

\* The back-off is over: the inner loop calls again without a tick.
Slept(g) ==
    /\ pc[g] = "sleep"
    /\ Goto(g, "reap")
    /\ UNCHANGED <<slot, cur, posting, callVars>> /\ Frame

\* Mutant of DrainDone: a drain without the limit.
DrainUnlimited(g) ==
    /\ pc[g] = "drain"
    /\ slot[g] # 0 => st[<<g, slot[g]>>] = "over"
    /\ slot' = [slot EXCEPT ![g] = 0]
    /\ Goto(g, "done")
    /\ UNCHANGED <<cur, posting, callVars>> /\ Frame

\* BatchCall::drain: the call in the slot ended, or shutdown_drain_timeout ran
\* out, or there is none.
DrainDone(g) ==
    /\ pc[g] = "drain"
    /\ slot' = [slot EXCEPT ![g] = 0]
    /\ Goto(g, "done")
    /\ UNCHANGED <<cur, posting, callVars>> /\ Frame

-----------------------------------------------------------------------------
(* The calls on the blocking pool. *)
CallFrame == UNCHANGED <<plan, taskVars, events, pump, asked, outcome, sched, pool>>
Holds(what) == \E c \in Calls : st[c] \in what
DriverHeld(g) == \E n \in {1, 2} : st[<<g, n>>] \in {"driver", "session"}
\* `DeviceInstance.driver` is one lock for all groups.
ViewHeld == \E g \in Groups : DriverHeld(g)
SessionHeld == Holds({"session"})

\* A thread of the pool takes the closure up and blocks on its first lock (kept
\* apart from the spawn for writes: only a write is told of a cancellation).
Started(c) ==
    /\ st[c] = "spawned"
    /\ st' = [st EXCEPT ![c] = "thread"]
    /\ UNCHANGED <<res, late, effect>> /\ CallFrame

\* A read gets the lock of the poll view (std Mutex: no order among waiters).
LockView(c) ==
    /\ c \in Reads /\ st[c] = "thread" /\ ~ViewHeld
    /\ st' = [st EXCEPT ![c] = "driver"]
    /\ UNCHANGED <<res, late, effect>> /\ CallFrame

\* lock_session: a read inside the poll view, or a control write.
LockSession(c) ==
    /\ st[c] = IF c \in Reads THEN "driver" ELSE "thread"
    /\ ~SessionHeld
    /\ st' = [st EXCEPT ![c] = "session"]
    /\ UNCHANGED <<res, late, effect>> /\ CallFrame

\* The device acts on a write: inside the call, or after it when the call
\* ended without knowing (the request is still on its way).
Acts(c) ==
    /\ c \in Writes \ effect
    /\ \/ st[c] = "session"
       \/ st[c] = "over" /\ res[c] \in {"panic"} \cup (WriteCodes \ NotSentCodes)
    /\ effect' = effect \cup {c}
    /\ UNCHANGED callVars /\ CallFrame

\* What the driver can answer (DriverContract): a code of NotSentCodes and a
\* refusal are promises that the write has not acted and will not.
Answers(c) ==
    {"panic"} \cup
    (IF c \in Reads THEN {"ok"} \cup ReadCodes
     ELSE (IF c \in effect THEN {"ok"} \cup (WriteCodes \ NotSentCodes)
           ELSE {"refused"} \cup WriteCodes))

\* The driver call returns (or panics, the locks recover from poisoning) and
\* both locks are released.
Returned(c) ==
    /\ st[c] = "session"
    /\ \E r \in Answers(c) : res' = [res EXCEPT ![c] = r]
    /\ st' = [st EXCEPT ![c] = "over"]
    /\ UNCHANGED <<late, effect>> /\ CallFrame
-----------------------------------------------------------------------------
(* The control executor: writes come one after the other (one worker per     *)
(* device), but a write the engine gave up keeps its closure.                *)
CtlFrame == UNCHANGED <<plan, taskVars, events, pump, late, effect, sched, pool>>

\* DeviceControlExecutor::write / execute up to spawn_blocking.
Write ==
    /\ asked < plan.writes
    /\ \A w \in 1..asked : outcome[w] # "open"
    /\ asked' = asked + 1
    /\ outcome' = [outcome EXCEPT ![asked + 1] = "open"]
    /\ IF pool = "open"
       THEN st' = [st EXCEPT ![<<Control, asked + 1>>] = "spawned"] /\ UNCHANGED res
       ELSE /\ st' = [st EXCEPT ![<<Control, asked + 1>>] = "over"]
            /\ res' = [res EXCEPT ![<<Control, asked + 1>>] = "cancelled"]
    /\ CtlFrame

\* The device is not registered: refused before any call.
WriteUnknown ==
    /\ asked < plan.writes
    /\ \A w \in 1..asked : outcome[w] # "open"
    /\ asked' = asked + 1
    /\ outcome' = [outcome EXCEPT ![asked + 1] = "failed"]
    /\ UNCHANGED <<st, res>> /\ CtlFrame

\* Mutant of Uncertain: a timeout is taken for a proof that nothing was sent.
UncertainButTimeout(r) == r = "panic" \/ r \in WriteCodes \ (NotSentCodes \cup {"timeout"})

\* classify_failure.
Uncertain(r) == r = "panic" \/ r \in WriteCodes \ NotSentCodes

\* The call ended while the engine waits.
WriteDone(w) ==
    LET r == res[<<Control, w>>] IN
    /\ outcome[w] = "open" /\ st[<<Control, w>>] = "over"
    /\ outcome' = [outcome EXCEPT ![w] =
           CASE r \in {"ok", "refused"} -> "succeeded"
             [] Uncertain(r) -> "indeterminate"
             [] OTHER -> "failed"]
    /\ UNCHANGED <<st, res, asked>> /\ CtlFrame

\* The engine's deadline or a cancellation wins its select: the future is
\* dropped and the write is settled as unknown.
GiveUp(w) ==
    /\ outcome[w] = "open"
    /\ outcome' = [outcome EXCEPT ![w] = "indeterminate"]
    /\ UNCHANGED <<st, res, asked>> /\ CtlFrame

-----------------------------------------------------------------------------
(* The pump, the scheduler and the runtime. *)
Consume ==
    /\ pump = "open" /\ events > 0
    /\ events' = events - 1
    /\ UNCHANGED <<plan, taskVars, pump, callVars, ctlVars, sched, pool>>

\* The pump task is gone (its own failure, or the end of the runtime).
PumpGone ==
    /\ pump = "open"
    /\ pump' = "closed" /\ events' = 0
    /\ UNCHANGED <<plan, taskVars, callVars, ctlVars, sched, pool>>

\* PollScheduler::shutdown / shutdown_with_timeout: cancel every task ...
Shutdown(how) ==
    /\ sched = "run"
    /\ sched' = how
    /\ UNCHANGED <<plan, taskVars, events, pump, callVars, ctlVars, pool>>

\* ... and wait for each of them;
ShutdownDone ==
    /\ sched \in {"shutdown", "grace"}
    /\ \A g \in Groups : pc[g] \in Stopped
    /\ sched' = "ended"
    /\ UNCHANGED <<plan, taskVars, events, pump, callVars, ctlVars, pool>>

\* the grace period ends: every task that is left is aborted.
GraceEnds ==
    /\ sched = "grace"
    /\ \E g \in Groups : pc[g] \notin Stopped
    /\ pc' = [g \in Groups |-> IF pc[g] \in Stopped THEN pc[g] ELSE "aborted"]
    /\ posting' = [g \in Groups |-> Idle]
    /\ cur' = [g \in Groups |-> 0] /\ slot' = [g \in Groups |-> 0]
    /\ sched' = "ended"
    /\ UNCHANGED <<plan, events, pump, callVars, ctlVars, pool>>

\* The runtime goes down: what no thread has taken up is cancelled.
PoolClosed ==
    /\ sched = "ended" /\ pool = "open"
    /\ pool' = "closed"
    /\ st' = [c \in Calls |-> IF st[c] = "spawned" THEN "over" ELSE st[c]]
    /\ res' = [c \in Calls |-> IF st[c] = "spawned" THEN "cancelled" ELSE res[c]]
    /\ UNCHANGED <<plan, taskVars, events, pump, late, ctlVars, sched>>
-----------------------------------------------------------------------------
Task(g) ==
    \/ Tick(g) \/ CancelSeen(g) \/ Reap(g) \/ WaitDone(g) \/ WaitTimeout(g)
    \/ Send(g) \/ SendClosed(g) \/ Slept(g) \/ DrainDone(g)
Pooled(c) == Started(c) \/ LockView(c) \/ LockSession(c) \/ Acts(c) \/ Returned(c)
Engine == Write \/ WriteUnknown \/ \E w \in 1..MaxWrites : WriteDone(w) \/ GiveUp(w)
Owner == Consume \/ PumpGone \/ Shutdown("shutdown") \/ Shutdown("grace")
         \/ ShutdownDone \/ GraceEnds \/ PoolClosed
Next == (\E g \in Groups : Task(g)) \/ (\E c \in Calls : Pooled(c)) \/ Engine \/ Owner
Spec == Init /\ [][Next]_vars

\* The tasks, their timers and the scheduler are driven by tokio, whose select!
\* picks among the ready branches at random, so that a cancellation is not
\* passed over for ever; nothing is assumed of the driver, the locks, the pump.
TaskFairness == \A g \in Groups : WF_vars(Task(g)) /\ SF_vars(CancelSeen(g))
LiveSpec == Spec /\ TaskFairness /\ WF_vars(ShutdownDone) /\ WF_vars(GraceEnds)
-----------------------------------------------------------------------------
\* poll.rs promises one call in flight per group: a read that timed out is
\* still running, and the next cycle may not pile another one on the session.
SingleFlight ==
    \A g \in Groups : Cardinality({n \in {1, 2} : st[<<g, n>>] \in Live}) <= 1

\* A batch never carries the result of a read whose wait timed out: by then a
\* failure was reported for it and the value may be arbitrarily old.
NoStaleBatch ==
    \A g \in Groups : posting[g].kind = "batch" => <<g, posting[g].of>> \notin late

\* A write that is reported as failed has not acted on the device and never
\* will, so that repeating it is safe (control_exec.rs, NOT_SENT_CODES).
FailedNeverActs ==
    \A w \in 1..MaxWrites : outcome[w] = "failed" => <<Control, w>> \notin effect

\* Shutdown returns whatever the driver does: every task leaves its loop and
\* the drain, also with a call that never ends.
StopEnds == sched \in {"shutdown", "grace"} ~> sched = "ended"

\* Does not hold (README, Findings).
\* control_exec.rs:14-18: the next control request waits on the session lock
\* until the action before it has ended.
InTurn ==
    \A v, w \in 1..MaxWrites :
        v < w /\ st[<<Control, w>>] = "session" => st[<<Control, v>>] \in {"none", "over"}
=============================================================================
