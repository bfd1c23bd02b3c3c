---------------------------- MODULE DataPipeline ----------------------------
(***************************************************************************)
(* The acquisition path from the poll events to the telemetry batches:     *)
(* the collector's pump maps every PollEvent to observations numbered by   *)
(* the SequenceAllocator and ingests them one by one; the pipeline task    *)
(* groups them by device and emits batches.                                *)
(*   apps/collector/src/tasks.rs            run_pump, pump_event           *)
(*   crates/device-manager/src/pipeline.rs  map_results, map_failure       *)
(*   crates/device-manager/src/sequence.rs  SequenceAllocator              *)
(*   crates/data-pipeline/src/pipeline.rs   Pipeline, run                  *)
(* An observation is its device and its sequence number.  The five         *)
(* branches of the pipeline's select! are actions; the random choice of    *)
(* tokio among the branches that are ready is the choice of the action.    *)
(***************************************************************************)
EXTENDS Integers, FiniteSets, SequencesExt

CONSTANTS
    Devices,
    Events,         \* poll events: [dev, items], an item "ok" | "unknown" | "domain_error"
    MaxEvents,      \* bound: events the poll tasks post
    EventCap,       \* capacity of the event channel
    InputCap,       \* PipelineConfig::input_capacity
    MaxBatch,       \* PipelineConfig::max_batch_size
    Multiplier,     \* BUFFER_BATCH_MULTIPLIER
    OutCap          \* capacity of the output channel

ASSUME DPAssumption ==
    /\ Events \subseteq [dev : Devices, items : Seq({"ok", "unknown", "domain_error"})]
    /\ {MaxEvents, EventCap, InputCap, MaxBatch, Multiplier, OutCap} \subseteq Nat \ {0}
    /\ IsFiniteSet(Devices)

VARIABLES
    polling,    \* poll tasks that hold an event sender are alive
    posted,     \* number of events posted so far
    events,     \* the event channel
    pump,       \* "recv" | "ingest" | "done"
    hand,       \* observations of the current event not yet ingested
    permit,     \* the pump holds a permit of the input channel
    next,       \* SequenceAllocator::next
    input,      \* the input channel
    accepting,  \* the input receiver is open
    handle,     \* the Pipeline handle: "held" | "stopping" | "dropped" | "abandoned"
    task,       \* the pipeline task: "run" | "flush" (on the timer) | "collect" | "final" |
                \* "drain" (at the stop) | "terminate" | "settle" (output closed) | "ended"
    pending,    \* partial batches: [seq, obs], obs = <<>> when the device has none
    splitting,  \* the device whose partial batch a flush has taken a part of
    devseq,     \* device_sequence
    outbox,     \* completed batches that wait for the output
    buffered,   \* observations counted in pending and outbox
    stats,      \* DrainStats: observations emitted and dropped
    output,     \* the output channel
    outOpen,    \* the receiver of the output channel exists
    accepted,   \* history: observations for which ingest returned Ok
    emitted     \* history: batches sent to the output channel

srcVars == <<polling, posted, events>>
pumpVars == <<pump, hand, permit, next, accepted>>
taskVars == <<task, pending, splitting, devseq, outbox, buffered, stats, emitted>>
vars == <<srcVars, pumpVars, taskVars, input, accepting, handle, output, outOpen>>

----------------------------------------------------------------------------
(* Mapping and numbering. *)

Empty == [seq |-> 0, obs |-> <<>>]
Obs(d, n) == [dev |-> d, seq |-> n]

\* The numbers of S in rising order.
Rising(S) == {f \in [1 .. Cardinality(S) -> S] : \A i, j \in DOMAIN f : i < j => f[i] < f[j]}

\* map_results and map_failure: every result takes a number, a result of an
\* unknown item is skipped, one that the domain rejects fails the whole batch.
MapResults(e, start) ==
    IF \E i \in DOMAIN e.items : e.items[i] = "domain_error"
    THEN hand' = <<>>
    ELSE \E at \in Rising({i \in DOMAIN e.items : e.items[i] # "unknown"}) :
            hand' = [j \in DOMAIN at |-> Obs(e.dev, start + at[j] - 1)]

Allocate(e) == next' = [next EXCEPT ![e.dev] = @ + Len(e.items)]

----------------------------------------------------------------------------
(* Batches. *)

BufferLimit == MaxBatch * Multiplier
BatchLen(b) == Len(b.obs)

\* The places of observations in a family of batches, and their number.
Spots(bs) == UNION {{i} \X DOMAIN bs[i].obs : i \in DOMAIN bs}
At(bs, s) == bs[s[1]].obs[s[2]]
ObsCount(bs) == Cardinality(Spots(bs))

\* aggregate_observation: the device's partial batch, opened under the
\* device's next number.
Aggregate(p, o) ==
    [p EXCEPT ![o.dev] =
        [seq |-> IF @.obs = <<>> THEN devseq[o.dev] ELSE @.seq, obs |-> Append(@.obs, o)]]

Flushing == {"flush", "final", "settle"}
NothingPending == \A d \in Devices : pending[d].obs = <<>>

----------------------------------------------------------------------------
Init ==
    /\ polling = TRUE /\ posted = 0 /\ events = <<>>
    /\ pump = "recv" /\ hand = <<>> /\ permit = FALSE
    /\ next = [d \in Devices |-> 0]
    /\ input = <<>> /\ accepting = TRUE
    /\ handle = "held" /\ task = "run"
    /\ pending = [d \in Devices |-> Empty] /\ splitting = {}
    /\ devseq = [d \in Devices |-> 0]
    /\ outbox = <<>> /\ buffered = 0
    /\ stats = [emitted |-> 0, dropped |-> 0]
    /\ output = <<>> /\ outOpen = TRUE
    /\ accepted = {} /\ emitted = <<>>

(* The poll tasks and the runtime. *)

\* send_batch / send_failure: a poll task posts an event.
Post(e) ==
    /\ polling /\ posted < MaxEvents /\ Len(events) < EventCap
    /\ posted' = posted + 1
    /\ events' = Append(events, e)
    /\ UNCHANGED <<polling, pumpVars, taskVars, input, accepting, handle, output, outOpen>>

\* PollScheduler::shutdown has returned: every event sender is gone.
PollersGone ==
    /\ polling /\ handle = "held"
    /\ polling' = FALSE
    /\ UNCHANGED <<posted, events, pumpVars, taskVars, input, accepting, handle, output, outOpen>>

\* shutdown: the pump has ended, so the handle is the last one and
\* Pipeline::shutdown may consume it.
StopPipeline ==
    /\ ~polling /\ pump = "done" /\ handle = "held"
    /\ handle' = "stopping"
    /\ UNCHANGED <<srcVars, pumpVars, taskVars, input, accepting, output, outOpen>>

\* shutdown gives up on a pump that has not ended in time: it returns the
\* error and the process ends with what the pipeline holds.
PumpTimedOut ==
    /\ ~polling /\ pump # "done" /\ handle = "held"
    /\ handle' = "abandoned"
    /\ task' = "ended" /\ accepting' = FALSE
    /\ pump' = "done" /\ hand' = <<>> /\ permit' = FALSE
    /\ UNCHANGED <<srcVars, next, accepted, pending, splitting, devseq, outbox, buffered, stats,
                   emitted, input, output, outOpen>>

\* start fails after the pipeline was spawned: the handle is dropped before
\* the pump exists.
StartFails ==
    /\ posted = 0 /\ polling /\ handle = "held"
    /\ handle' = "dropped"
    /\ polling' = FALSE
    /\ pump' = "done"
    /\ UNCHANGED <<posted, events, hand, permit, next, accepted, taskVars,
                   input, accepting, output, outOpen>>

(* The pump. *)

\* pump_event: one event is numbered and mapped.
PumpRecv ==
    /\ pump = "recv" /\ events # <<>>
    /\ LET e == Head(events)
       IN  /\ Allocate(e)
           /\ MapResults(e, next[e.dev])
    /\ events' = Tail(events)
    /\ pump' = "ingest"
    /\ UNCHANGED <<polling, posted, permit, accepted, taskVars, input, accepting,
                   handle, output, outOpen>>

\* run_pump: the event channel is closed and empty.
PumpDone ==
    /\ pump = "recv" /\ events = <<>> /\ ~polling
    /\ pump' = "done"
    /\ UNCHANGED <<srcVars, hand, permit, next, accepted, taskVars, input, accepting,
                   handle, output, outOpen>>

\* ingest_all: the next observation waits for room in the input channel ...
Reserve ==
    /\ pump = "ingest" /\ hand # <<>> /\ ~permit
    /\ accepting /\ Len(input) < InputCap
    /\ permit' = TRUE
    /\ UNCHANGED <<srcVars, pump, hand, next, accepted, taskVars, input, accepting,
                   handle, output, outOpen>>

\* ... and is written there; a permit stays valid when the receiver closes.
Push ==
    /\ permit
    /\ input' = Append(input, Head(hand))
    /\ accepted' = accepted \cup {Head(hand)}
    /\ hand' = Tail(hand)
    /\ permit' = FALSE
    /\ UNCHANGED <<srcVars, pump, next, taskVars, accepting, handle, output, outOpen>>

\* ingest_all: the last observation is in, or the pipeline is closed and the
\* rest of the event is given up.
IngestDone ==
    /\ pump = "ingest" /\ ~permit
    /\ hand = <<>> \/ ~accepting
    /\ hand' = <<>>
    /\ pump' = "recv"
    /\ UNCHANGED <<srcVars, permit, next, accepted, taskVars, input, accepting,
                   handle, output, outOpen>>

(* The pipeline task. *)

\* The recv branch, disabled while the buffer is full: the observation joins
\* its device's batch, and a full batch moves to the outbox.
RecvObservation ==
    /\ task = "run" /\ buffered < BufferLimit /\ input # <<>>
    /\ LET o == Head(input)
           p == Aggregate(pending, o)
           full == Len(p[o.dev].obs) >= MaxBatch
       IN  /\ pending' = IF full THEN [p EXCEPT ![o.dev] = Empty] ELSE p
           /\ outbox' = IF full
                        THEN Append(outbox, [dev |-> o.dev, seq |-> p[o.dev].seq, obs |-> p[o.dev].obs])
                        ELSE outbox
           /\ devseq' = IF full THEN [devseq EXCEPT ![o.dev] = @ + 1] ELSE devseq
    /\ input' = Tail(input)
    /\ buffered' = buffered + 1
    /\ UNCHANGED <<srcVars, pumpVars, task, splitting, stats, emitted, accepting, handle, output, outOpen>>

\* Mutant: the flush, too, waits for room in the buffer.
FlushBelowLimit ==
    /\ task = "run" /\ buffered < BufferLimit /\ ~NothingPending
    /\ task' = "flush"
    /\ UNCHANGED <<srcVars, pumpVars, pending, splitting, devseq, outbox, buffered, stats, emitted,
                   input, accepting, handle, output, outOpen>>

\* The flush branch: every partial batch becomes a batch.
FlushTick ==
    /\ task = "run" /\ ~NothingPending
    /\ task' = "flush"
    /\ UNCHANGED <<srcVars, pumpVars, pending, splitting, devseq, outbox, buffered, stats, emitted,
                   input, accepting, handle, output, outOpen>>

\* Mutant: the numbers the flush used are not written back.
WriteBackNothing(d, n) == UNCHANGED devseq

\* flush_pending_to_outbox: the device's next batch follows the last chunk.
WriteBack(d, n) == devseq' = [devseq EXCEPT ![d] = n]

\* flush_pending_to_outbox, one turn of its loops: at most max_batch_size
\* observations of one device become a batch.  The devices come in the
\* arbitrary order of the map, and one is finished before the next.
FlushChunk(d) ==
    /\ task \in Flushing /\ pending[d].obs # <<>> /\ splitting \subseteq {d}
    /\ LET p == pending[d]
           take == IF Len(p.obs) < MaxBatch THEN Len(p.obs) ELSE MaxBatch
           rest == SubSeq(p.obs, take + 1, Len(p.obs))
       IN  /\ outbox' = Append(outbox, [dev |-> d, seq |-> p.seq, obs |-> SubSeq(p.obs, 1, take)])
           /\ \/ /\ rest = <<>>
                 /\ pending' = [pending EXCEPT ![d] = Empty]
                 /\ WriteBack(d, p.seq + 1)
                 /\ splitting' = {}
              \/ /\ rest # <<>>
                 /\ pending' = [pending EXCEPT ![d] = [seq |-> p.seq + 1, obs |-> rest]]
                 /\ splitting' = {d}
                 /\ UNCHANGED devseq
    /\ UNCHANGED <<srcVars, pumpVars, task, buffered, stats, emitted, input, accepting,
                   handle, output, outOpen>>

\* The timed flush is done and the loop goes on; the last one is followed by
\* drain_outbox.
FlushOver ==
    /\ task \in {"flush", "final"} /\ NothingPending
    /\ task' = IF task = "flush" THEN "run" ELSE "drain"
    /\ UNCHANGED <<srcVars, pumpVars, pending, splitting, devseq, outbox, buffered, stats, emitted,
                   input, accepting, handle, output, outOpen>>

\* The output channel grants a permit and the first batch is sent.
Send ==
    /\ outbox # <<>> /\ outOpen /\ Len(output) < OutCap
    /\ output' = Append(output, Head(outbox))
    /\ emitted' = Append(emitted, Head(outbox))
    /\ outbox' = Tail(outbox)
    /\ stats' = [stats EXCEPT !.emitted = @ + BatchLen(Head(outbox))]

\* The reserve branch.
Emit ==
    /\ task = "run"
    /\ Send
    /\ buffered' = buffered - BatchLen(Head(outbox))
    /\ UNCHANGED <<srcVars, pumpVars, task, pending, splitting, devseq, input, accepting, handle, outOpen>>

\* The shutdown branch after the handle was dropped, or recv with all senders
\* gone: the task stops at once and drains nothing.
CancelSeen ==
    /\ task = "run" /\ handle = "dropped"
    /\ task' = "ended"
    /\ accepting' = FALSE
    /\ UNCHANGED <<srcVars, pumpVars, pending, splitting, devseq, outbox, buffered, stats, emitted,
                   input, handle, output, outOpen>>

\* The shutdown branch ...
StopSeen ==
    /\ task = "run" /\ handle = "stopping"
    /\ task' = "collect"
    /\ UNCHANGED <<srcVars, pumpVars, pending, splitting, devseq, outbox, buffered, stats, emitted,
                   input, accepting, handle, output, outOpen>>

\* An observation of the input joins its device's batch, whatever its size.
TakeInput ==
    /\ input # <<>>
    /\ pending' = Aggregate(pending, Head(input))
    /\ input' = Tail(input)
    /\ UNCHANGED <<srcVars, pumpVars, task, splitting, devseq, outbox, buffered, stats, emitted,
                   accepting, handle, output, outOpen>>

\* ... aggregates what is in the input channel ...
CollectRecv == task = "collect" /\ TakeInput

\* ... and turns every partial batch into batches.
CollectOver ==
    /\ task = "collect" /\ input = <<>>
    /\ task' = "final"
    /\ UNCHANGED <<srcVars, pumpVars, pending, splitting, devseq, outbox, buffered, stats, emitted,
                   input, accepting, handle, output, outOpen>>

\* drain_outbox sends a batch before the deadline.
DrainEmit ==
    /\ task = "drain"
    /\ Send
    /\ UNCHANGED <<srcVars, pumpVars, task, pending, splitting, devseq, buffered, input, accepting,
                   handle, outOpen>>

\* drop_outbox_rest: the deadline has passed or the output is closed.
DrainDrop ==
    /\ task = "drain" /\ outbox # <<>>
    /\ stats' = [stats EXCEPT !.dropped = @ + ObsCount(outbox)]
    /\ outbox' = <<>>
    /\ task' = "ended" /\ accepting' = FALSE
    /\ UNCHANGED <<srcVars, pumpVars, pending, splitting, devseq, buffered, emitted, input, handle,
                   output, outOpen>>

\* drain_outbox has sent everything.
DrainEnd ==
    /\ task = "drain" /\ outbox = <<>>
    /\ task' = "ended" /\ accepting' = FALSE
    /\ UNCHANGED <<srcVars, pumpVars, pending, splitting, devseq, outbox, buffered, stats, emitted,
                   input, handle, output, outOpen>>

\* terminate_on_output_closed: the input is closed for new sends ...
OutputClosed ==
    /\ task = "run" /\ ~outOpen
    /\ accepting' = FALSE
    /\ task' = "terminate"
    /\ UNCHANGED <<srcVars, pumpVars, pending, splitting, devseq, outbox, buffered, stats, emitted,
                   input, handle, output, outOpen>>

\* ... recv continues until the sends in flight are in ...
TerminateRecv == task = "terminate" /\ TakeInput

\* Mutant: the input is emptied with try_recv, which does not wait for a
\* send that has its permit.
InputLooksEmpty == input = <<>>

\* recv answers None: the channel is closed, empty, and no permit is out.
InputExhausted == input = <<>> /\ ~permit

\* ... every partial batch becomes batches ...
TerminateFlush ==
    /\ task = "terminate" /\ InputExhausted
    /\ task' = "settle"
    /\ UNCHANGED <<srcVars, pumpVars, pending, splitting, devseq, outbox, buffered, stats, emitted,
                   input, accepting, handle, output, outOpen>>

\* ... and everything left is counted as dropped.
TerminateEnd ==
    /\ task = "settle" /\ NothingPending
    /\ stats' = [stats EXCEPT !.dropped = @ + ObsCount(outbox)]
    /\ outbox' = <<>>
    /\ task' = "ended"
    /\ UNCHANGED <<srcVars, pumpVars, pending, splitting, devseq, buffered, emitted, input, accepting,
                   handle, output, outOpen>>

(* The forward loop, which holds the receiver of the output. *)

Consume ==
    /\ outOpen /\ output # <<>>
    /\ output' = Tail(output)
    /\ UNCHANGED <<srcVars, pumpVars, taskVars, input, accepting, handle, outOpen>>

ConsumerGone ==
    /\ outOpen
    /\ outOpen' = FALSE
    /\ UNCHANGED <<srcVars, pumpVars, taskVars, input, accepting, handle, output>>
----------------------------------------------------------------------------
(* Every behaviour ends with the pipeline task. *)
Finished == task = "ended" /\ pump = "done" /\ UNCHANGED vars

PumpStep == PumpRecv \/ PumpDone \/ Reserve \/ Push \/ IngestDone

Next ==
    \/ \E e \in Events : Post(e)
    \/ PollersGone \/ StopPipeline \/ PumpTimedOut \/ StartFails
    \/ PumpRecv \/ PumpDone \/ Reserve \/ Push \/ IngestDone
    \/ RecvObservation \/ FlushTick \/ (\E d \in Devices : FlushChunk(d)) \/ FlushOver
    \/ Emit \/ CancelSeen
    \/ StopSeen \/ CollectRecv \/ CollectOver \/ DrainEmit \/ DrainDrop \/ DrainEnd
    \/ OutputClosed \/ TerminateRecv \/ TerminateFlush \/ TerminateEnd
    \/ Consume \/ ConsumerGone
    \/ Finished

Spec == Init /\ [][Next]_vars

(* Tasks keep running, a branch of a select! that stays ready is taken     *)
(* (tokio polls the branches in random order) and timers fire; nobody has  *)
(* to post, to stop or to close, and the consumer may hang.                *)
Fairness ==
    /\ WF_vars(PumpStep)
    /\ WF_vars(RecvObservation) /\ WF_vars(FlushTick) /\ WF_vars(Emit)
    /\ WF_vars(\E d \in Devices : FlushChunk(d)) /\ WF_vars(FlushOver)
    /\ WF_vars(CancelSeen) /\ WF_vars(StopSeen) /\ WF_vars(CollectRecv) /\ WF_vars(CollectOver)
    /\ WF_vars(DrainEmit \/ DrainDrop) /\ WF_vars(DrainEnd)
    /\ WF_vars(OutputClosed) /\ WF_vars(TerminateRecv)
    /\ WF_vars(TerminateFlush) /\ WF_vars(TerminateEnd)

LiveSpec == Spec /\ Fairness

----------------------------------------------------------------------------
(* Properties. *)

Observation == [dev : Devices, seq : Nat]
Batch == [dev : Devices, seq : Nat, obs : Seq(Observation)]

\* The state keeps its types, and a full outbox never hides behind a batch
\* larger than max_batch_size (ObservationBatch, flush_pending_to_outbox).
TypeOK ==
    /\ polling \in BOOLEAN /\ posted \in 0 .. MaxEvents
    /\ events \in Seq(Events) /\ Len(events) <= EventCap
    /\ pump \in {"recv", "ingest", "done"}
    /\ hand \in Seq(Observation) /\ permit \in BOOLEAN
    /\ next \in [Devices -> Nat]
    /\ input \in Seq(Observation) /\ Len(input) <= InputCap
    /\ accepting \in BOOLEAN
    /\ handle \in {"held", "stopping", "dropped", "abandoned"}
    /\ task \in {"run", "collect", "drain", "terminate", "ended"} \cup Flushing
    /\ pending \in [Devices -> [seq : Nat, obs : Seq(Observation)]]
    /\ splitting \subseteq Devices /\ devseq \in [Devices -> Nat]
    /\ outbox \in Seq(Batch) /\ \A i \in DOMAIN outbox : BatchLen(outbox[i]) \in 1 .. MaxBatch
    /\ buffered \in Nat
    /\ stats \in [emitted : Nat, dropped : Nat]
    /\ output \in Seq(Batch) /\ Len(output) <= OutCap
    /\ outOpen \in BOOLEAN
    /\ accepted \subseteq Observation
    /\ emitted \in Seq(Batch)

\* Nothing is lost silently: when the pipeline reports its statistics, every
\* observation for which ingest returned Ok was emitted or is counted as
\* dropped - also one that was sent while the task closed its input, and
\* one that the pump sent just before the shutdown (DrainStats; "not lost
\* silently" in Pipeline::spawn and terminate_on_output_closed).
Accounted ==
    task = "ended" /\ handle # "abandoned" =>
        /\ Cardinality(accepted) = stats.emitted + stats.dropped
        /\ stats.emitted = ObsCount(emitted)
        /\ \A s \in Spots(emitted) : At(emitted, s) \in accepted
        /\ \A s, t \in Spots(emitted) : At(emitted, s) = At(emitted, t) => s = t

\* The batches of a device are numbered 0, 1, 2, ... in their order: numbers
\* rise, and each but 0 follows the one below it.
Numbered(bs) ==
    \A i \in DOMAIN bs :
        /\ \A j \in 1 .. i - 1 : bs[j].dev = bs[i].dev => bs[j].seq < bs[i].seq
        /\ bs[i].seq # 0 =>
              \E j \in 1 .. i - 1 : bs[j].dev = bs[i].dev /\ bs[j].seq = bs[i].seq - 1

Before(s, t) == s[1] < t[1] \/ (s[1] = t[1] /\ s[2] < t[2])

\* Full batches, timed flushes and the final flush together number the
\* batches of a device 0, 1, 2, ... without a gap or a repetition (message_id
\* is unique in a session), and keep its observations, up to the ones in its
\* partial batch, in the order of their numbers (ObservationBatch::sequence,
\* Observation::sequence).
BatchesInOrder ==
    /\ Numbered(emitted \o outbox)
    /\ \A d \in Devices :
          LET bs == Append(emitted \o outbox, [dev |-> d, seq |-> 0, obs |-> pending[d].obs])
              mine == {s \in Spots(bs) : bs[s[1]].dev = d}
          IN  /\ \A s \in mine : At(bs, s).dev = d
              /\ \A s, t \in mine : Before(s, t) => At(bs, s).seq < At(bs, t).seq

\* The count behind the back pressure is exact at every step of the loop:
\* it is what pending and outbox hold, never more than the limit (run,
\* buffered).
BufferedExact ==
    task \in {"run", "flush"} =>
        buffered = ObsCount(pending) + ObsCount(outbox) /\ buffered <= BufferLimit

\* The loop never blocks on its own limit: what was accepted leaves the
\* input, the partial batches and the outbox, even when partial batches of
\* several devices fill the buffer, as long as the consumer takes batches
\* (run: recv is disabled at the limit and only the flush can free it).
Delivered ==
    WF_vars(Consume) =>
        []<>(task = "ended" \/ (input = <<>> /\ NothingPending /\ outbox = <<>>))

\* Pipeline::shutdown returns, also when the consumer hangs with a full output
\* channel (drain_outbox races every reserve with the deadline).
StopEnds == handle = "stopping" ~> task = "ended"

\* The two counts of the pipeline are exact: what DrainStats says of the
\* observations at the end, and what the back pressure is computed from.
CountsExact == Accounted /\ BufferedExact

\* Neither the limit on buffered observations nor a full output holds the task
\* for ever (run, drain_outbox).
NeverStuck == Delivered /\ StopEnds
=============================================================================
