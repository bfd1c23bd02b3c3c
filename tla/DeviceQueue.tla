---------------------------- MODULE DeviceQueue ----------------------------
(***************************************************************************)
(* The control queue of one device (crates/control-engine/src/queue.rs):   *)
(* priorities with aging, one worker task that executes serially, a        *)
(* supervisor that restarts it, cancellation, deadlines, the cooldown      *)
(* after an unknown result, and the shutdown with its forced abort.        *)
(*                                                                         *)
(* Code between two awaits is one action.  The abort of a task takes       *)
(* effect at an await, so a worker is not stopped inside an action; this   *)
(* assumes that no thread sleeps for the whole grace period between two    *)
(* awaits.                                                                 *)
(***************************************************************************)
EXTENDS Naturals, Sequences, FiniteSets

CONSTANTS
    Entries,        \* control requests that reach the queue
    Prio,           \* their priorities: 0 (low) .. 3 (critical)
    Again,          \* entries that stand for a stream of requests
    Cancellable,    \* bound: entries that may be cancelled
    Expiring,       \* bound: entries whose deadline may pass
    Workers,        \* worker tasks that may exist at a time
    None,
    Capacity,       \* queue_capacity
    Aging,          \* priority_aging_ms > 0
    MaxPanics       \* bound: workers that die

ASSUME QueueAssumption ==
    /\ Prio \in [Entries -> 0 .. 3]
    /\ Again \subseteq Entries /\ Cancellable \subseteq Entries /\ Expiring \subseteq Entries
    /\ None \notin Entries \cup Workers
    /\ Aging \in BOOLEAN
    /\ Capacity \in Nat /\ MaxPanics \in Nat

VARIABLES
    call,       \* where the enqueue of each entry stands
    waiting,    \* inner.entries: a FIFO for each priority
    running,    \* inner.running
    draining,   \* inner.draining
    closed,     \* inner.closed
    flag,       \* closed_flag, the engine's
    cooldown,   \* inner.cooldown_until is in the future
    permit,     \* the stored permit of notify
    worker,     \* the worker tasks
    handle,     \* the JoinHandle kept by the queue
    wake,       \* the supervisor has seen a dead worker
    join,       \* DeviceQueue::join and settle_abandoned
    cancelled,  \* entries whose token is cancelled
    expired,    \* entries whose deadline has passed
    boost,      \* priority gained by waiting
    started,    \* entries whose executor was polled
    reply,      \* the SharedResult of each entry
    late,       \* a worker was spawned after the shutdown began (history)
    panics

envVars == <<cancelled, expired, boost>>
lockVars == <<waiting, running, draining, closed, cooldown>>
vars == <<call, waiting, running, draining, closed, flag, cooldown, permit, worker,
          handle, wake, join, cancelled, expired, boost, started, reply,
          late, panics>>

-----------------------------------------------------------------------------
Prios == 0 .. 3
RunResults == {"Done", "Timeout", "Cancelled", "Indeterminate"}
Unset == "Unset"

(* A worker: its position, the entry it executes or settles, the result to  *)
(* settle, where the entry is kept meanwhile, and the orphans in its hands. *)
Task(p, e, r, k, t) == [pc |-> p, entry |-> e, res |-> r, kept |-> k, todo |-> t]
At(p) == Task(p, None, Unset, "nowhere", <<>>)

Finished(w) == worker[w].pc \in {"none", "returned", "aborted", "dead"}
IsSet(e) == reply[e] # Unset

(* enqueued, and no result yet *)
Open(e) == call[e] \in {"pushed", "in"} /\ ~IsSet(e)

Queued == UNION {{waiting[p][i] : i \in DOMAIN waiting[p]} : p \in Prios}
InSeq(e, q) == \E i \in DOMAIN q : q[i] = e

Init ==
    /\ call = [e \in Entries |-> "idle"]
    /\ waiting = [p \in Prios |-> <<>>]
    /\ running = None /\ draining = <<>>
    /\ closed = FALSE /\ flag = FALSE /\ cooldown = FALSE /\ permit = FALSE
    /\ worker = [w \in Workers |-> At("none")]
    /\ handle = None /\ wake = FALSE
    /\ join = At("none")
    /\ cancelled = {} /\ expired = {} /\ boost = [e \in Entries |-> 0]
    /\ started = {}
    /\ reply = [e \in Entries |-> Unset]
    /\ late = FALSE
    /\ panics = 0

-----------------------------------------------------------------------------
(* enqueue, cancel, and what time does to an entry *)

(* Under the lock.                                                          *)
Enqueue(e) ==
    /\ call[e] = "idle"
    /\ ~closed /\ ~flag
    /\ Cardinality(Queued) < Capacity
    /\ waiting' = [waiting EXCEPT ![Prio[e]] = Append(@, e)]
    /\ call' = [call EXCEPT ![e] = "pushed"]
    /\ UNCHANGED <<running, draining, closed, flag, cooldown, permit, worker, handle, wake,
                   join, envVars, started, reply, late, panics>>

(* Mutant of MustSpawn: the old task is not looked at. *)
MustSpawnAlways == TRUE

(* No handle, or the handle of a task that has ended.                       *)
MustSpawn == handle = None \/ Finished(handle)

EnsureWorker ==
    IF MustSpawn
    THEN \E w \in Workers :
            /\ Finished(w)
            /\ join.entry # w
            /\ worker' = [worker EXCEPT ![w] = At("spawned")]
            /\ handle' = w
            /\ late' = (late \/ flag)
    ELSE UNCHANGED <<worker, handle, late>>

(* After the lock: ensure_worker and notify_one.                            *)
EnqueueNotify(e) ==
    /\ call[e] = "pushed"
    /\ EnsureWorker
    /\ permit' = TRUE
    /\ call' = [call EXCEPT ![e] = "in"]
    /\ UNCHANGED <<lockVars, flag, wake, join, envVars, started, reply, panics>>

(* cancel and the wake-up that follows it.                                  *)
Cancel(e) ==
    /\ ~closed
    /\ e \in Queued \/ running = e
    /\ e \in Cancellable \ cancelled
    /\ cancelled' = cancelled \cup {e}
    /\ permit' = TRUE
    /\ UNCHANGED <<call, lockVars, flag, worker, handle, wake, join, expired, boost,
                   started, reply, late, panics>>

(* The deadline of e passes.                                                *)
Expire(e) ==
    /\ Open(e) /\ e \in Expiring \ expired
    /\ expired' = expired \cup {e}
    /\ UNCHANGED <<call, lockVars, flag, permit, worker, handle, wake, join, cancelled,
                   boost, started, reply, late, panics>>

(* e has waited for another priority_aging_ms.                              *)
Age(e) ==
    /\ Aging /\ e \in Queued /\ boost[e] < 3 - Prio[e]
    /\ boost' = [boost EXCEPT ![e] = @ + 1]
    /\ UNCHANGED <<call, lockVars, flag, permit, worker, handle, wake, join, cancelled,
                   expired, started, reply, late, panics>>

CooldownEnds ==
    /\ cooldown
    /\ cooldown' = FALSE
    /\ UNCHANGED <<call, waiting, running, draining, closed, flag, permit, worker, handle,
                   wake, join, envVars, started, reply, late, panics>>

(* The next request of a stream takes the place of one that is answered.    *)
Renew(e) ==
    /\ e \in Again /\ ~flag
    /\ call[e] = "in" /\ IsSet(e)
    /\ running # e /\ ~InSeq(e, draining)
    /\ \A w \in Workers : worker[w].entry # e /\ ~InSeq(e, worker[w].todo)
    /\ call' = [call EXCEPT ![e] = "idle"]
    /\ reply' = [reply EXCEPT ![e] = Unset]
    /\ started' = started \ {e}
    /\ cancelled' = cancelled \ {e} /\ expired' = expired \ {e}
    /\ boost' = [boost EXCEPT ![e] = 0]
    /\ UNCHANGED <<lockVars, flag, permit, worker, handle, wake, join, late, panics>>

-----------------------------------------------------------------------------
(* settle_entry and settle_tracked *)

(* The entry is kept visible in draining while it is settled.               *)
Tracked(e, r, t) == Task("settle", e, r, "draining", t)

(* settle_entry awaits the journal write and the audit, and then writes the *)
(* reply: a failed journal write makes it Indeterminate.  A task that dies  *)
(* or is aborted at one of the awaits leaves the same queue, so they are    *)
(* one position (ControlSubmit takes them apart).                           *)
Settled(t) == {t.res, "Indeterminate"}

(* Mutant of Popped: only the entry that was settled leaves. *)
PoppedFront(q, rep) == SubSeq(q, 2, Len(q))

(* The queue without the answered entries at its head.                      *)
Popped(q, rep) ==
    LET keep == {i \in DOMAIN q : rep[q[i]] = Unset}
        n == IF keep = {} THEN Len(q)
             ELSE (CHOOSE i \in keep : \A j \in keep : i <= j) - 1
    IN  SubSeq(q, n + 1, Len(q))

-----------------------------------------------------------------------------
(* The worker *)

Step(w, t) == worker' = [worker EXCEPT ![w] = t]

(* The first poll of a new worker: it adopts what a dead one left.          *)
Adopt(w) ==
    /\ worker[w].pc = "spawned"
    /\ running' = None
    /\ IF running # None /\ ~IsSet(running)
       THEN /\ Step(w, Tracked(running, "Indeterminate", draining))
            /\ draining' = <<running>>
       ELSE /\ Step(w, Task("adopt", None, Unset, "nowhere", draining))
            /\ draining' = <<>>
    /\ UNCHANGED <<call, waiting, closed, flag, cooldown, permit, handle, wake, join,
                   envVars, started, reply, late, panics>>

AdoptNext(w) ==
    /\ worker[w].pc = "adopt"
    /\ LET todo == worker[w].todo IN
          IF todo = <<>>
          THEN Step(w, At("loop")) /\ UNCHANGED draining
          ELSE IF IsSet(Head(todo))
          THEN Step(w, [worker[w] EXCEPT !.todo = Tail(todo)]) /\ UNCHANGED draining
          ELSE /\ Step(w, Tracked(Head(todo), "Cancelled", Tail(todo)))
               /\ draining' = Append(draining, Head(todo))
    /\ UNCHANGED <<call, waiting, running, closed, flag, cooldown, permit, handle, wake,
                   join, envVars, started, reply, late, panics>>

(* Phase A: the queue is closed.  What waits moves to draining, and the     *)
(* head of draining is settled as Cancelled.                                *)
Drained == draining \o waiting[0] \o waiting[1] \o waiting[2] \o waiting[3]

(* Mutant of Drain: what waits is drained from a local list. *)
DrainLocally(w) ==
    /\ worker[w].pc = "loop" /\ (closed \/ flag)
    /\ closed' = TRUE
    /\ waiting' = [p \in Prios |-> <<>>]
    /\ IF Drained # <<>>
       THEN /\ Step(w, Tracked(Head(Drained), "Cancelled", Tail(Drained)))
            /\ draining' = <<Head(Drained)>>
       ELSE /\ Step(w, At(IF running = None THEN "returned" ELSE "parked"))
            /\ UNCHANGED draining
    /\ UNCHANGED <<call, running, flag, cooldown, permit, handle, wake, join, envVars,
                   started, reply, late, panics>>

Drain(w) ==
    /\ worker[w].pc = "loop" /\ (closed \/ flag)
    /\ closed' = TRUE
    /\ waiting' = [p \in Prios |-> <<>>]
    /\ IF Drained # <<>>
       THEN /\ Step(w, Tracked(Head(Drained), "Cancelled", <<>>))
            /\ draining' = Append(Drained, Head(Drained))
       ELSE /\ Step(w, At(IF running = None THEN "returned" ELSE "parked"))
            /\ UNCHANGED draining
    /\ UNCHANGED <<call, running, flag, cooldown, permit, handle, wake, join, envVars,
                   started, reply, late, panics>>

(* Phase B: the effective priority of the head of each FIFO, and the best.  *)
Ready(e) == e \notin cancelled /\ e \notin expired

Effective(e) == Prio[e] + IF Ready(e) THEN boost[e] ELSE 0

Fronts == {Head(waiting[p]) : p \in {q \in Prios : waiting[q] # <<>>}}

Best(e) ==
    /\ e \in Fronts
    /\ \A d \in Fronts \ {e} :
          \/ Effective(d) < Effective(e)
          \/ Effective(d) = Effective(e) /\ Prio[d] < Prio[e]

Pick(w) ==
    /\ worker[w].pc = "loop" /\ ~closed /\ ~flag /\ ~cooldown
    /\ \E e \in Entries :
          /\ Best(e)
          /\ waiting' = [waiting EXCEPT ![Prio[e]] = Tail(@)]
          /\ IF Ready(e)
             THEN /\ Step(w, Task("exec", e, Unset, "running", <<>>))
                  /\ running' = e
                  /\ UNCHANGED draining
             ELSE /\ Step(w, Tracked(e, IF e \in cancelled THEN "Cancelled" ELSE "Timeout", <<>>))
                  /\ draining' = Append(draining, e)
                  /\ UNCHANGED running
    /\ UNCHANGED <<call, closed, flag, cooldown, permit, handle, wake, join, envVars,
                   started, reply, late, panics>>

Park(w) ==
    /\ worker[w].pc = "loop" /\ ~closed /\ ~flag
    /\ cooldown \/ Queued = {}
    /\ Step(w, At("parked"))
    /\ UNCHANGED <<call, lockVars, flag, permit, handle, wake, join, envVars, started,
                   reply, late, panics>>

(* notify, or the end of the cooldown it sleeps for.                        *)
Wake(w) ==
    /\ worker[w].pc = "parked"
    /\ \/ permit /\ permit' = FALSE
       \/ Queued # {} /\ ~cooldown /\ UNCHANGED permit
    /\ Step(w, At("loop"))
    /\ UNCHANGED <<call, lockVars, flag, handle, wake, join, envVars, started, reply, late, panics>>

-----------------------------------------------------------------------------
(* run_entry *)

(* The executor is polled for the first time.                               *)
StartExecutor(w) ==
    /\ worker[w].pc = "exec" /\ worker[w].entry \notin started
    /\ started' = started \cup {worker[w].entry}
    /\ UNCHANGED <<call, lockVars, flag, permit, worker, handle, wake, join, envVars,
                   reply, late, panics>>

(* The result r goes to the settlement; an unknown one starts the cooldown. *)
Ran(w, r) ==
    /\ Step(w, [worker[w] EXCEPT !.pc = "settle", !.res = r])
    /\ cooldown' = (cooldown \/ r = "Indeterminate")
    /\ UNCHANGED <<call, waiting, running, draining, closed, flag, permit, handle, wake,
                   join, envVars, started, reply, late, panics>>

ExecutorAnswers(w) ==
    /\ worker[w].pc = "exec" /\ worker[w].entry \in started
    /\ \E r \in {"Done", "Indeterminate"} : Ran(w, r)

(* Mutant of Interrupted: the claim is made although the executor ran. *)
InterruptedFlatly(e, r) == r

(* What an interruption may claim.                                          *)
Interrupted(e, r) == IF e \in started THEN "Indeterminate" ELSE r

ExecutionTimesOut(w) ==
    /\ worker[w].pc = "exec" /\ worker[w].entry \in expired
    /\ Ran(w, Interrupted(worker[w].entry, "Timeout"))

ExecutionCancelled(w) ==
    /\ worker[w].pc = "exec" /\ worker[w].entry \in cancelled
    /\ Ran(w, Interrupted(worker[w].entry, "Cancelled"))

-----------------------------------------------------------------------------
(* The reply is written, then the entry is no longer kept.                  *)
SettleEntry(w) ==
    /\ worker[w].pc = "settle"
    /\ \E r \in Settled(worker[w]) : reply' = [reply EXCEPT ![worker[w].entry] = r]
    /\ IF worker[w].kept = "running"
       THEN running' = None /\ UNCHANGED draining
       ELSE draining' = Popped(draining, reply') /\ UNCHANGED running
    /\ Step(w, Task(IF worker[w].todo = <<>> THEN "loop" ELSE "adopt", None, Unset,
                    "nowhere", worker[w].todo))
    /\ UNCHANGED <<call, waiting, closed, flag, cooldown, permit, handle, wake, join,
                   envVars, started, late, panics>>

(* The executor, the journal task or the audit sink panics.                 *)
Panic(w) ==
    /\ worker[w].pc \in {"exec", "settle"}
    /\ panics < MaxPanics /\ panics' = panics + 1
    /\ Step(w, At("dead"))
    /\ UNCHANGED <<call, lockVars, flag, permit, handle, wake, join, envVars, started,
                   reply, late>>

(* The supervisor: a look every 500 ms, then ensure_worker.                 *)
SupervisorSees ==
    /\ ~flag /\ ~wake
    /\ handle # None /\ Finished(handle)
    /\ wake' = TRUE
    /\ UNCHANGED <<call, lockVars, flag, permit, worker, handle, join, envVars, started,
                   reply, late, panics>>

SupervisorRestarts ==
    /\ wake
    /\ wake' = FALSE
    /\ EnsureWorker
    /\ UNCHANGED <<call, lockVars, flag, permit, join, envVars, started, reply,
                   panics>>

-----------------------------------------------------------------------------
(* shutdown, join, settle_abandoned *)

ShutdownEngine ==
    /\ ~flag
    /\ flag' = TRUE
    /\ UNCHANGED <<call, lockVars, permit, worker, handle, wake, join, envVars, started,
                   reply, late, panics>>

ShutdownQueue ==
    /\ flag /\ join.pc = "none"
    /\ closed' = TRUE
    /\ permit' = TRUE
    /\ join' = At("closing")
    /\ UNCHANGED <<call, waiting, running, draining, flag, cooldown, worker, handle, wake,
                   envVars, started, reply, late, panics>>

(* join takes the handle; without one there is nothing to wait for.         *)
JoinTakes ==
    /\ join.pc = "closing"
    /\ join' = IF handle = None THEN At("returned")
               ELSE Task("waiting", handle, Unset, "nowhere", <<>>)
    /\ handle' = None
    /\ UNCHANGED <<call, lockVars, flag, permit, worker, wake, envVars, started, reply, late, panics>>

JoinReturns ==
    /\ join.pc = "waiting" /\ worker[join.entry].pc = "returned"
    /\ join' = At("returned")
    /\ UNCHANGED <<call, lockVars, flag, permit, worker, handle, wake, envVars, started,
                   reply, late, panics>>

(* The worker panicked, or did not end within the grace period and is       *)
(* aborted: everything in the queue is taken over.  An aborted worker takes *)
(* no further step, which the code grants only from its next await on: see  *)
(* README, Not modelled.                                                    *)
JoinAbandons ==
    /\ join.pc = "waiting"
    /\ worker[join.entry].pc \in {"spawned", "parked", "exec", "settle", "dead"}
    /\ worker' = [worker EXCEPT ![join.entry] =
                     IF @.pc = "dead" THEN @ ELSE At("aborted")]
    /\ closed' = TRUE
    /\ running' = None
    /\ waiting' = [p \in Prios |-> <<>>]
    /\ draining' = <<>>
    /\ join' = Task("next", running, Unset, "nowhere",
                    waiting[0] \o waiting[1] \o waiting[2] \o waiting[3] \o draining)
    /\ UNCHANGED <<call, flag, cooldown, permit, handle, wake, envVars, started, reply, late, panics>>

(* The running entry is settled first, as Indeterminate, the rest as        *)
(* Cancelled; answered ones are skipped.  Without time left the journal     *)
(* write is skipped, and the reply is the planned one.                      *)
JoinNext ==
    /\ join.pc = "next"
    /\ join' = IF join.entry # None
               THEN IF IsSet(join.entry)
                    THEN [join EXCEPT !.entry = None]
                    ELSE [join EXCEPT !.pc = "settle", !.res = "Indeterminate"]
               ELSE IF join.todo = <<>> THEN At("returned")
               ELSE IF IsSet(Head(join.todo))
                    THEN [join EXCEPT !.todo = Tail(join.todo)]
                    ELSE Task("settle", Head(join.todo), "Cancelled", "nowhere", Tail(join.todo))
    /\ UNCHANGED <<call, lockVars, flag, permit, worker, handle, wake, envVars, started,
                   reply, late, panics>>

JoinSettle ==
    /\ join.pc = "settle"
    /\ \E r \in Settled(join) : reply' = [reply EXCEPT ![join.entry] = r]
    /\ join' = Task("next", None, Unset, "nowhere", join.todo)
    /\ UNCHANGED <<call, lockVars, flag, permit, worker, handle, wake, envVars, started,
                   late, panics>>

-----------------------------------------------------------------------------
WorkerStep(w) ==
    \/ Adopt(w) \/ AdoptNext(w) \/ Drain(w) \/ Pick(w) \/ Park(w) \/ Wake(w)
    \/ StartExecutor(w) \/ ExecutorAnswers(w) \/ ExecutionTimesOut(w) \/ ExecutionCancelled(w)
    \/ SettleEntry(w)

JoinStep ==
    \/ JoinTakes \/ JoinReturns \/ JoinAbandons
    \/ JoinNext \/ JoinSettle

Next ==
    \/ \E e \in Entries :
          Enqueue(e) \/ EnqueueNotify(e) \/ Cancel(e) \/ Expire(e) \/ Age(e) \/ Renew(e)
    \/ CooldownEnds
    \/ \E w \in Workers : WorkerStep(w) \/ Panic(w)
    \/ SupervisorSees \/ SupervisorRestarts
    \/ ShutdownEngine \/ ShutdownQueue \/ JoinStep

Spec == Init /\ [][Next]_vars

(* The runtime runs the tasks that can run, time passes, and the caller of  *)
(* enqueue and of shutdown finishes what it began.  An executor may hang:   *)
(* then the deadline of its entry passes.                                   *)
LiveSpec ==
    /\ Spec
    /\ \A w \in Workers : WF_vars(WorkerStep(w))
    /\ \A e \in Entries : WF_vars(EnqueueNotify(e)) /\ WF_vars(Age(e)) /\ WF_vars(Expire(e))
    /\ WF_vars(CooldownEnds)
    /\ WF_vars(SupervisorSees) /\ WF_vars(SupervisorRestarts)
    /\ WF_vars(ShutdownQueue) /\ WF_vars(JoinStep)

-----------------------------------------------------------------------------
(* Properties *)

Tasks == [pc : {"none", "spawned", "adopt", "loop", "parked", "exec", "settle",
                "returned", "aborted", "dead", "closing", "waiting", "next"},
          entry : Entries \cup Workers \cup {None},
          res : RunResults \cup {Unset},
          kept : {"nowhere", "running", "draining"},
          todo : Seq(Entries)]

TypeOK ==
    /\ call \in [Entries -> {"idle", "pushed", "in"}]
    /\ waiting \in [Prios -> Seq(Entries)]
    /\ \A p \in Prios : \A i \in DOMAIN waiting[p] : Prio[waiting[p][i]] = p
    /\ running \in Entries \cup {None}
    /\ draining \in Seq(Entries)
    /\ {closed, flag, cooldown, permit, wake} \subseteq BOOLEAN
    /\ worker \in [Workers -> Tasks] /\ join \in Tasks
    /\ handle \in Workers \cup {None}
    /\ \A e \in Entries : boost[e] \in 0 .. (3 - Prio[e])
    /\ started \subseteq Entries /\ cancelled \subseteq Entries /\ expired \subseteq Entries
    /\ reply \in [Entries -> RunResults \cup {Unset}]
    /\ Cardinality(Queued) <= Capacity

(* One action at a time on the device: never two workers execute, also when *)
(* workers die, are restarted from two sides, or a late enqueue starts one  *)
(* during the shutdown.                                                     *)
Serial ==
    \A v, w \in Workers : worker[v].pc = "exec" /\ worker[w].pc = "exec" => v = w

(* An entry is in the queue or in the hands of a live task.                 *)
Held(e) ==
    \/ e \in Queued \/ running = e \/ InSeq(e, draining)
    \/ \E w \in Workers : worker[w].entry = e \/ InSeq(e, worker[w].todo)
    \/ join.entry = e \/ InSeq(e, join.todo)

(* No accepted entry without reply is lost when a worker dies or is aborted *)
(* at any await: the next worker or join finds it (the invariant at         *)
(* QueueInner.draining).  The exception is a worker that an enqueue or the  *)
(* supervisor spawns after the shutdown began: it takes draining into a     *)
(* local variable.                                                          *)
NothingLost == \A e \in Entries : Open(e) => Held(e) \/ late

(* A reply Cancelled or Timeout means that the executor never saw the       *)
(* entry: an interrupted execution is Indeterminate, whether the deadline,  *)
(* a cancellation or the forced abort interrupts it (run_entry, P1-7;       *)
(* settle_abandoned).  Not claimed once a worker has died or was spawned    *)
(* late: then an adopted entry passes through draining, whose entries a     *)
(* further death or the forced abort settles as Cancelled.                  *)
NeverDenied ==
    panics = 0 /\ ~late =>
        \A e \in Entries : reply[e] \in {"Cancelled", "Timeout"} => e \notin started

(* One life for each entry, which is what ControlSubmit assumes of the      *)
(* queue: a worker takes up for execution only what was never started and   *)
(* never answered, and a reply stands once it is given, whichever of the    *)
(* worker, its successor and join finds the entry, or finds it twice: an    *)
(* entry of the final drain is in draining twice, and join takes over what  *)
(* the worker may have answered.  A stream ends with the next request       *)
(* (Renew).  Not claimed once a worker was spawned late: it settles the     *)
(* entry that the worker join waits for is executing.                       *)
OneLife ==
    [][~late =>
        /\ \A e \in Entries : IsSet(e) => reply'[e] = reply[e] \/ call'[e] = "idle"
        /\ \A w \in Workers : worker[w].pc # "exec" /\ worker'[w].pc = "exec" =>
              worker'[w].entry \notin started /\ ~IsSet(worker'[w].entry)]_vars

(* Does not hold (README, Findings).                                        *)
(* "Expired and cancelled entries are taken and settled directly, they do   *)
(* not take part in the comparison" (worker_loop): such an entry is         *)
(* answered, whatever else arrives.                                         *)
GivenUpAreSettled ==
    \A e \in Entries : (e \in Queued /\ ~Ready(e)) ~> ~Open(e)
=============================================================================
