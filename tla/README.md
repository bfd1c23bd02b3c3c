# Verification of the ForgeLink collector

TLA+ models of the parts of ForgeLink that move data and carry out control
requests, their TLC runs, and TLAPS proofs of the properties that matter most.
Every definition is translated from the source; `PROJECT.json` names the lines
each one stands for. Paths below are relative to the repository.

## 1. The system

ForgeLink is a Rust edge collector for industrial devices. One process holds two
chains that meet in the driver session of each device.

**Data, upwards.** `poll-engine` runs one task per device and interval, which reads
a batch through the driver session. The pump of the collector turns the raw
results into observations (`device-manager`, `profile-engine`), and `data-pipeline`
groups them per device into numbered batches and writes those to a bounded channel.
The forward loop (`apps/collector/src/tasks.rs`) stores each batch in `local-buffer`,
a SQLite write-ahead log, takes the oldest row, publishes it through `mqtt-client`
and deletes it when the broker has acknowledged it.

**Control, downwards.** `rest-api` authenticates a request and hands it to
`ControlEngine::submit`, which checks it, claims its idempotency key in a journal, and
puts it into the queue of the device. One worker per device executes entries serially
through `DeviceControlExecutor`, which takes the same session lock as the poll task.
The loader passes the value through the C ABI to one of four protocol drivers.

**Start** loads profiles and driver packages, probes drivers, registers devices and
starts the parts one after the other; a failure stops what already runs.
**Shutdown** goes down the data chain: REST, control engine, poll scheduler, pump,
pipeline, forward loop, MQTT client, the batches nobody could store, local buffer.

### Inventory

| Component | State | Operations | What is hard | What makes it correct |
|---|---|---|---|---|
| local-buffer | table `batches`, `mem`, `inflight`, `pending_push`, watermarks, byte count, command channel | push, next, ack, requeue, shutdown; expiry, paging, flush of blocked pushes | window over a larger backlog, cancelled calls, failed statements, crash, full disk | accepted is durable; replay in `local_seq` order; every row in flight has one owner; everything drains |
| forward loop, runtime | `pending_retry`, suspended, draining, deadline, lost queue, stop signal | receive, push with retries, publish, await PUBACK, drain, shutdown steps | stop, deadline and PUBACK race; slow disk; crash | WAL in order of emission, confirmation in order, no received batch disappears, shutdown ends |
| data-pipeline, pump | pending batches, device sequences, outbox, buffered count | ingest, flush, emit, drain, terminate | backpressure, shutdown against concurrent ingest | every observation emitted once or counted as dropped; batch numbers unique and rising |
| mqtt-client | queue, `awaiting_ack`, packet identifiers, collision slot, registered devices | publish, PUBACK, reconnect, presence, shutdown | resend order, identifier collision, loss during shutdown | a PUBACK settles the request it belongs to; every receipt is settled; the retained status is true |
| poll-engine, device session | slot of the blocking call, backoff, session lock | tick, read, retry, control write, drain | a call that timed out still runs | one call in flight, stale results discarded, a write reported as failed never acts |
| drivers | connection, request numbers, batch plans, type cache | connect, plan, exchange, read, write | several requests per call, late and wrong answers, reconnect | each item is reported as what happened to it |
| control submit | `active` map of shared results, journal records, `closed` | submit with its exits, orphan recovery, shutdown | concurrent duplicates, journal failures, dropped callers, restarts | the device acts at most once per key; nobody is told a falsehood; everyone is answered |
| control journal | JSON-lines file, map of entries | try_insert, settle, purge, compact, open | torn and glued lines, failed compaction, expiry during replay | what was confirmed survives until it expires |
| device queue | FIFO per priority, running, draining, cooldown, worker and supervisor handles | enqueue, cancel, worker loop, supervisor, join, forced abort | worker death at any await, aging, deadline against answer, shutdown | serial execution, no entry lost, no started request denied |
| rest-api | ledger, permits, waiting tasks | submit, status, stop | ledger full, result before registration, disconnects | the status endpoint agrees with the engine |
| profile-engine, control checks, value encodings | profiles, registry | validate, convert, encode, decode | numbers beyond 2^53, roundings, ranges checked in several places | accepted is deliverable; what is written is what was asked; what is read is what the device holds |
| collector start | configuration, registry, plugins, parts that run | validate, scan, load, preflight, register, start | a failure at a late step | it runs whole or nothing runs |
| metrics, diagnostics, domain-model, bench, placeholders | | | | not modelled |

`PROJECT.json` lists every component with its status ("components") and the hazards
of the code, each at its line ("hazards").

## 2. The modules

| Module | Models | Checked in |
|---|---|---|
| `BufferContract` | what callers of the buffer rely on (abstract) | `lb_rows`; proof in `LocalBufferProofs` |
| `LocalBuffer` | the worker of `crates/local-buffer` and its callers; implements `BufferContract` | `lb_rows`, `lb_live`; proofs in `LocalBufferProofs` |
| `Forward` | `run_forward` and `CollectorRuntime::shutdown` | `fw_order`; proofs in `ForwardProofs` |
| `DataPipeline` | `run_pump`, the mapping to observations, `Pipeline` | `dp_batches`; proofs in `DataPipelineProofs` |
| `MqttWorker` | `MqttClient`, `run_worker`, rumqttc's event loop (external) and the broker | `mq_worker` |
| `PollSession` | poll tasks, scheduler, session lock, control executor | `ps_session`; proofs in `PollSessionProofs` |
| `DriverContract` | what callers of a driver rely on (abstract) | `dr_calls` |
| `DriverCall` | calls on one handle, for all four drivers; implements `DriverContract` | `dr_calls` |
| `DriverPlan`, `ModbusDriver`, `S7Driver`, `EipDriver`, `McDriver` | addresses, batch planning, the checks on answers, the devices | `dr_calls` |
| `ControlSubmit` | `ControlEngine::submit` for one idempotency key | `cs_once`; proofs in `ControlSubmitProofs` |
| `ControlJournal` | `FileJournal` | `cj_durable`; proofs in `ControlJournalProofs` |
| `DeviceQueue` | `DeviceQueue`, its worker, supervisor and join | `dq_serial`; proofs in `DeviceQueueProofs` |
| `ControlAccess`, `RestControl` | roles, credentials, policy; the control endpoints and their ledger | `rc_ledger`; proofs in `RestControlProofs` |
| `FloatNumbers`, `ProfileConvert`, `ProfileChecks`, `ControlChecks`, `ValueWire` | number formats, conversion, profile validation, request validation, value encodings | `ck_write` |
| `CollectorStart`, `WritePath` | the start; a value from the request to the device and back | `ck_write` |

The modules are layered, and each sees the one below through what that one is shown
to do. `Forward` sees the buffer as `BufferContract` describes it (lowest `local_seq`
first, idempotent push, a cancelled next gives its row back), which `LocalBuffer` is
proved to implement, with None only when it is drained (`NoneIsSound`), and the client through `MqttWorker` (a receipt is settled, and Ok
means delivered). `RestControl` sees the engine through `ControlSubmit`, which sees the
queue through `DeviceQueue` (an accepted entry is kept, and has one life: `NothingLost`,
`OneLife`) and the journal through `ControlJournal`. `PollSession` sees the driver
through `DriverContract`, which `DriverCall` implements. `WritePath` composes
`CollectorStart` with the checks, the conversion and the encodings.

**Atomicity.** An action is the code between two awaits, or between two commands
of a worker thread, or one operation under a lock where several follow each other.

### LocalBuffer

`disk`, `msgOf`, `sent`, `aged` and `seqCtr` are the database and survive a crash;
`mem`, `inflight`, `pending`, the watermarks, `bytes` and `confirm` are
`WorkerState`; `chan`, `call` and `holds` are the command channel and the callers.
The worker's `pc` walks through the pass of `worker_loop`: confirmations, expiry,
load, flush, then one command. Each command handler has one action per exit (stored,
already stored, shared waiter, rejected, waiting, database error). A dropped future
is `Gone` in the command or a closed reply. Bytes are counted through `record_cost`
per message; topics, payloads and timestamps are model values, and time is the set
`aged` of messages past their retention.

`BufferContract` is the abstract store: numbered rows, of which each is with at most one
caller. `Put` stores a message once and above every earlier number, `Take` hands out the
lowest row that is not out, `Receive` and `Retract` are the two ends of a reply, `Ack`
and `GiveBack` belong to the caller that received the row, `Expire` takes only what is
old and not out, `Restart` forgets who had what. `Contract == INSTANCE BufferContract
WITH ...` maps the table to `rows`, `seqCtr` to the last number, `inflight` to what is
out and `holds` to what was received; the memory window, the watermarks, the channel,
the waiting pushes and the byte count have no counterpart. `KeepsBufferContract` is the
abstract specification as a property.

### Forward, DataPipeline, MqttWorker

`Forward`: batches are numbered by the order of emission. `pc` is the position in the
loop (head, body, push, take, idle wait, await), `hand` the batch in `push_batch`,
`pendingRetry` the one that waits for space, `cur` the record whose PUBACK is
awaited, `lost` the queue the shutdown stores at the end. The watch channel of the
stop signal has three values, because `changed()` and `borrow()` differ in what they
mark as seen. A push that times out may still have been carried out by the worker.

`DataPipeline`: an observation is its device and its number. The pump maps an event
item by item (an unknown item or a domain error skips what the code skips) and blocks
in `ingest` on the bounded input. The five branches of the task's `select!` are
actions; the limit on buffered observations is a guard of the input branch. A flush and
the final collection are loops in the code and here: one step per batch cut off, one
per observation collected. Shutdown closes the input, drains it, flushes, and races
every emission with its deadline.

`MqttWorker`: `awaiting_ack` is a sequence of entries whose packet identifier may not
be known yet; identifiers come back in write events. rumqttc is external and modelled
from the contract the comments of `client.rs` rely on: a window of identifiers, one
slot for a message whose identifier is still taken, resends after a reconnect. The
broker keeps the retained status of devices and publishes the last will when a
connection ends without DISCONNECT. A scenario fixes the calls, whether
acknowledgements may be reordered, and how often the connection may be lost. `astray`
is history: a loss came that `reset_pkids` cannot follow (`Strays`), namely a second
one while an entry parked by a collision is left over from the first, or one in phase
zero of the shutdown. `RequestsTrue` claims nothing of receipts after it.

### PollSession, DriverContract, DriverCall

`PollSession`: every poll group is a task, every driver call a closure on the blocking
pool with a state (queued, waiting for the poll view, for the session, in the driver,
over). Giving up a call drops the wait, never the call. `late` marks calls whose wait
timed out, `effect` the writes that acted. The driver may hang, fail, panic or answer
late.

`DriverContract` is the abstract device seen by a caller: a memory that the process
itself may change, the items a call wrote, and the answer. It says which answers may
be given: a value read was in the device during the call, an item reported as written
was, a code in `NOT_SENT_CODES` proves that nothing was or will be written.
`DriverCall` models the calls request by request with connection, reconnect, request
numbers and a device that refuses, answers wrongly, closes, stays silent or acts
late; on a serial line an answer may also come late, to the next request. `Contract ==
INSTANCE DriverContract WITH ...` maps its state, and `KeepsContract` is the abstract
specification as a property, with two exceptions that stand in it: the values of
`Loose` items (bits merged behind another one by the S7 and MC drivers), and every step
after a serial answer was taken for that of another request (`mixed`). `Completes`
excepts the items that fail although they are correct (`Failing`: a wide Modbus item
before its neighbour, merged S7 bits and trailing bytes, UDINT tags). The driver modules
hold
what each protocol computes: parsing of addresses, merging and splitting of items
within the protocol's limits, the comparison of an answer with its request. Values
are tokens, one per cell.

### ControlSubmit, ControlJournal, DeviceQueue, RestControl

`ControlSubmit` keeps, per submission, its position, the `SharedResult` it holds
(`cell`), the verdict of the journal and the receipt of its caller; `active` is the
entry of the active map and `queue` the entry in the device queue. All refusals
before the key is claimed are one action, since they leave no trace. Statuses are
reduced to what a caller can conclude: the device answered, not run, rejected,
unknown.

`settle_entry` is several steps, as in the code: the journal is settled, the active
entry removed, the audit sink awaited, the reply set. A worker may die at each of the
awaits (`Die`: a panic, or the forced abort of `join`). The entry is then found by the
next worker or by `settle_abandoned` and settled once more, as Indeterminate if it was
`running` and as not run if it had been adopted into `draining` already (`keeper`,
`Inherited`). A journal task on the blocking pool survives its worker and writes later
(`StrayWrite`). `Expire` and `PurgeExpired` age the record and remove it. `deaths` is
history and states in the properties what such a death excuses.

`ControlJournal` keeps the file as a sequence of lines with an end mark, so that a
write may leave nothing, a part, or a line without newline to which the next is
glued. `attached` is false when a compaction renamed its file and could not reopen
it, and `adrift` is the set of keys confirmed since then. `open` reads the file line by
line into `replay`, with one action per kind of line. A compaction writes the records in
any order, as the iteration of a HashMap does, each result behind its Insert.

`DeviceQueue` keeps the queues, `running` and `draining` of `QueueInner`, the worker
tasks, the handle the queue keeps, the supervisor's wake-up and the position of
`join`. Cancellation, deadline, aging and the end of the cooldown are environment
steps. `Again` marks entries that stand for a stream of requests.

`RestControl` adds the HTTP side: token, role, permit, submission, the ledger entry
written by the handler and by the waiting tasks, eviction of finished entries, the
status endpoint, clients that disconnect, stop and restart. The record of the engine
has the result in the journal, the one its worker `holds` and the `reply` for those who
wait: `Settle` writes the journal, `Deliver` the reply, and between them `WorkerDies`
leaves the key to a second settlement with another result, or `LateWrite` lets the
journal task of the dead worker through. `unsure` is the history of such keys.
`ControlAccess` has the decisions (`role_ordering`, the credential file, the policy) as
operators.

### Numbers, WritePath and CollectorStart

`FloatNumbers` scales the number formats down: integers of `W16 < W32 < W64` bits and
floats with `P32 < P64` significant bits in the order of the real ones (16 < 24 < 32
< 53 < 64), rounding to even, infinities and NaN. The edges therefore lie at small
numbers and TLC meets them: integers that f32 or f64 cannot tell apart, casts that
saturate, roundings at half steps. `ProfileConvert` is `convert.rs` on these formats
(decode_read, encode_write, roundings, exact paths for 64-bit integers),
`ProfileChecks` the validation of profiles and the registry, `ControlChecks` the
parsing of JSON values and the validation of requests, `ValueWire` the tags, value
bytes, envelopes and register encodings between loader and device. A tag has the CIP
types the EtherNet/IP driver knows (a write to a UDINT tag panics, a read fails);
registers carry integers and floats, the words of a float as tokens, so that a part of
one, or words in the wrong order, decode to a garbled value.

`CollectorStart` is the start: a setting is represented by the ways it can be wrong,
each check by the faults it refuses; packages, plugins, preflight, registration and
the start of each part are steps, and a failure unwinds what runs. `WritePath` goes on
with polls, control requests, their delivery, and changes by the device itself.

## 3. The runs

| Run | Instance | Shows |
|---|---|---|
| `lb_rows` | two pushers, one of them also takes, one closes; three small rows over a window of two, a fourth message that fills the disk and waits; one fault or crash | `WindowSound`, `Durable`, `InflightOwned`, `SpaceAccounted`, `InReplayOrder`, `NoneIsSound`, `KeepsBufferContract` |
| `lb_live` | fair worker and taker, window and disk of one row, an invalid batch, one fault | `StoredIsDrained`, `WaitersServed` |
| `fw_order` | three batches, two disk rows, both capacity policies, two faults, two stop signals, a restart | `WalInOrder`, `ReceivedIsAccounted`, `ConfirmedInOrder`, `ShutdownEnds` |
| `dp_batches` | two devices, three events with unknown items and domain errors, batches of two, a limit of two observations, channels of one and two | `CountsExact`, `BatchesInOrder`, `NeverStuck` |
| `mq_worker` | six scenarios: four publications through a window of two with acknowledgements in any order and a loss; a full queue with presence; three publications and two losses; two devices and a loss; two devices, a publication and a loss during the shutdown; two losses, one during the shutdown; three retries | `RequestsTrue`, `Settled`, `PresenceTrue` |
| `ps_session` | two groups, or one group and two writes; retryable and permanent errors; event channel of one | `SingleFlight`, `NoStaleBatch`, `FailedNeverActs`, `StopEnds` |
| `dr_calls` | per protocol a dozen calls, on the serial line those with several requests (merges, splits, every refusal, and the shapes that are planned wrongly: a wide Modbus item before its neighbour, adjacent S7 bits and a trailing byte, neighbouring MC bits, a UDINT tag; two items of one tag), each followed by a read, a write or a disconnect; one misbehaviour of the device, late serial answers included; numbers that wrap at three | `KeepsContract`, `Completes` |
| `cs_once` | three submissions, two equal; two troubles among failed journal writes, dropped callers, deaths of a worker, restarts, expiries | `AtMostOnce`, `ToldTheTruth`, `WaitsEnd` |
| `cj_durable` | two keys, four lines, two ticks, a failed write, a failed reopen | `RecordsHold` |
| `dq_serial` | two entries, two workers, one death, cancellation, deadline, shutdown | `Serial`, `NothingLost`, `NeverDenied`, `OneLife` |
| `rc_ledger` | two concurrent exchanges, three roles, two keys, a ledger of one entry, two troubles (failed insert, disconnect, death of a worker, purge, restart) | `PromiseKept`, `StatusRight`, `ResultStands` |
| `ck_write` | 2-, 4- and 8-bit integers, 3- and 6-bit floats; all pairs of numeric types, unscaled and five scaled transforms, five roundings, bounds around the f64 edge; tags of every numeric type or registers, with integers and floats; one configuration per defect | `AcceptedIsDeliverable`, `WriteIsRight`, `ReadIsRight`, `StartIsSound` |

Several properties are conjunctions of named parts that a reader can check alone:
`SpaceAccounted` (`BytesExact`, `WaitersQueued`), `ToldTheTruth` (`NeverDenied`,
`DoneIsDurable`, `ActiveOwned`), `RecordsHold` (`AckedSurvive`, `RunningIsMine`,
`OpensAgain`), `CountsExact` (`Accounted`, `BufferedExact`), `NeverStuck` (`Delivered`,
`StopEnds`), `RequestsTrue` (`AckedIsDelivered`, `GaugeExact`), `PresenceTrue`
(`OnlineAgain`, `OfflineAtStop`), `PromiseKept` (`PromiseIsRecorded`,
`AcceptedIsFindable`), `StatusRight` (`StatusTruthful`, `RunningIsAttended`,
`OnlyAuthorised`), `WriteIsRight` (`IdentityIsExact`, `WriteIsClose`, `ParamExact`),
`ReadIsRight` (`ReadBack`, `GoodIsRight`), `StartIsSound` (`AllStarted`, `NothingLeft`,
`DriversFit`).

Deadlock is checked in the buffer, pipeline and MQTT runs. The other models have
states in which the system may rest (every request answered, the process down and no
restart left), and their configurations say so.

### Why the bounds are enough

* *Buffer.* Paging needs a window smaller than the backlog, and reordering needs a
  requeue between two rows: three rows over a window of two. Sharing a waiter needs
  two callers and a full disk: the fourth message. `lb_rows` lets one message at a time be past its retention; that
  several rows expire in one transaction is left to the theorems. One fault suffices for every
  single-failure path, and the theorems lift the safety properties to any number.
  One hazard, a push that overtakes rows a failed load has left on disk, needs four
  rows over a window of two; it is covered by the theorem `ReplayOrder`.
* *Forward.* With two disk rows the third batch waits for space, while one row is in
  flight and one queued. Two stop signals distinguish seen from unseen changes.
* *Pipeline.* Two devices with batches of two and a limit of two observations are the
  least in which two partial batches fill the buffer and neither is full; three events
  give a device a full, a timed and a final batch.
* *MQTT.* Four publications over two identifiers make a collision and a second one
  behind it. The losses that `RequestsTrue` excepts happen: a second one with a parked
  leftover (three publications, two losses) and one in phase zero of the shutdown.
  Three retries let the connection come back after both.
* *Sessions and drivers.* Two groups contend for the session, two writes for its
  order; a group has at most one live call, so two call numbers per group suffice. In
  `dr_calls` the second call shows in which state the first left the handle, and meets
  the late answer to the first.
* *Submission.* Three submissions are the least with an owner, a duplicate and a
  conflict at the same time; the maps are keyed, so other keys do not interfere. Two
  troubles of any kind together suffice for a second settlement over a first, a second
  death in `draining`, and a late journal write that itself fails.
* *Journal.* A record takes at most three lines (insert, two settlements), and one
  further line is needed for gluing.
* *Queue.* Two entries, of different priority, are running and waiting; two workers
  are the least for an overlap.
* *Ledger.* One entry is the least capacity, so each registration meets a full ledger;
  two exchanges and one waiting task race on one key, and the second key, whose requests
  are refused and recorded, evicts it. Two keys that execute at once and the refusal of a
  disabled device are in the proof only.
* *Numbers.* Conversions depend on the order of the widths and on the distance of a
  value from their edges, not on the widths; the scaled formats keep the order.

### Fairness

The code's tasks and threads are scheduled, so worker, tasks and loops are weakly
fair.

* `lb_live`: the taker calls next and acks what it gets again and again although calls
  fail in between, hence strong fairness on its calls; nobody has to push, cancel,
  expire or crash.
* `cs_once`: the queue settles what it accepted, which is what `DeviceQueue` is about.
* `fw_order`: the loop runs, the drain deadline passes, and each step of the shutdown
  is bounded by the timeouts in `runtime.rs`; the broker need not answer.
* `dp_batches`: a branch of a `select!` that stays ready is taken (tokio polls the
  branches in random order) and timers fire; the consumer may hang.
* `mq_worker`: timers fire and a connection that is not lost makes progress (messages
  written are received and acknowledged); callers, losses and the stop are free.
* `ps_session`: tasks and the scheduler run and the grace period ends; no driver call
  has to return.
* `dr_calls`: the thread that serves the call runs and every read of a socket has a
  timeout; nothing is assumed of the device.

## 4. What is proved

The proofs hold for every value of the constants, under the named assumptions of
the modules (numbers are naturals, capacities positive, sets of callers and messages
disjoint from the marker values).

**LocalBuffer** (`LocalBufferProofs`). The inductive invariant is
`TypeInv /\ WindowInv /\ OwnerInv /\ DownIsEmpty`.

* `TypeInv` adds to the types that rows are numbered by AUTOINCREMENT and that a
  command in the channel is the call its sender is blocked in; without the latter
  the handlers could answer a caller that waits for something else.
* `WindowInv` adds to `WindowSound` that rows outside the window are above every row
  in it and above the watermark, and that after a successful load the window is full
  or holds everything. `InReplayOrder` and `NoneIsSound` rest on these two.
* `OwnerInv` adds that a row being settled is held by its caller or already deleted,
  and that each registered delivery is for a row in flight nobody holds.

Theorems: `TypeCorrect`, `WindowIsSound`, `HoldsAreExclusive`, `InflightIsOwned`,
`ReplayOrder`, `NoneMeansDrained`, `RowsLeaveInTwoWays`, `PushIsDurable`.
(`HoldsAreExclusive` and `RowsLeaveInTwoWays` state parts of the contract in the terms of
the worker.)

*Space.* `CostOf` is the cardinality of a union of disjoint sets, one per row, so that
adding and deleting rows needs the theorems on finite sets and no induction. `BytesInv`
bounds the cost of the rows also while the process is down, because `open` counts what
it finds; `WaitersQueued` then needs only that handlers which take a waiter out of the
queue answer it. Theorem: `SpaceIsAccounted`.

*Refinement.* `BufferKeepsContract` is `Spec => KeepsBufferContract`: each action is one
step of `BufferContract` under the mapping, or none. Beside the invariant above it needs
`OneRowEach` (a message has at most one row, or deleting one row would take a promise
another row still keeps) and `WaitersQueued` (a push flushed from the waiting queue is
not stored yet). That `Take` is a step of the lowest row rests on `WindowInv`, that `Ack`
and `GiveBack` are steps of the caller that received the row on `OwnerInv`.

**Forward** (`ForwardProofs`). The inductive invariant is
`TypeOK /\ ControlInv /\ OrderInv /\ ConfirmInv`.

* `ControlInv` says what the loop holds at each position, for example that a batch
  in hand and a batch waiting for space exclude each other.
* `OrderInv` says that whatever is not stored yet (channel, hand, retry, lost queue)
  is newer than every row and that rows are numbered in the order of emission. It
  allows a batch to be a row already, because a push that timed out may have been
  carried out.
* `ConfirmInv` says that the awaited record is the lowest of those not in flight and
  that, as long as the loop publishes, every other row in flight was acknowledged
  (its delete failed). This is what an interrupted publication would break if the
  loop went on taking records.

`ReceivedIsAccounted` is inductive beside it once the places a batch can be in are
named: `Held` (channel, hand, retry, lost queue), `Written` (row, acknowledged,
expired), `GivenUp` (reported, lost in a crash, unread). Every step of the loop and of
the shutdown moves a batch from one of these places to another.

Theorems: `ForwardTypes`, `WalIsOrdered`, `RowsConfirmedInOrder`, `NothingVanishes`.

**DataPipeline** (`DataPipelineProofs`). The line is what was emitted followed by the
outbox. The inductive invariant is `TypeInv /\ ControlInv /\ OrderInv /\ NumberInv /\
CountInv`.

* `ControlInv` says where the pump, the task and the handle are and what is then left of
  the data; it is why nothing is in the input when the final flush begins.
* `OrderInv` puts the observations of a device in one order over five places: its
  batches in the line, its partial batch, the input channel, the pump's hand, and the
  numbers still to be given.
* `NumberInv` says that the batches of a device in the line are numbered 0, 1, 2, ...
  and which number the next has, also in the middle of a flush that cuts a partial batch
  into several and after the partial batch is gone.
* `CountInv` adds up the places an accepted observation can be in. Observations are
  counted as the cardinality of a set of places (batch, position), so that no sum needs
  induction.

Theorems: `PipelineTypes`, `CountsAreExact`, `BatchesAreInOrder`.

**PollSession** (`PollSessionProofs`). The inductive invariant is
`TypeOK /\ ReadInv /\ NoStaleBatch /\ WriteInv`.

* `ReadInv` says that a running read is the one its task waits for or keeps in the
  slot, and that a task waits for one call exactly while the slot is empty. A new
  call is made only when both are free, hence `SingleFlight`.
* `WriteInv` says how far a write got: one that acted is in the session or ended with
  an answer that does not deny it, one reported as failed is over. The set
  `NOT_SENT_CODES` enters here.

Theorems: `PollTypes`, `OneReadPerGroup`, `BatchesAreFresh`, `FailedWritesAreSafe`.

**ControlSubmit** (`ControlSubmitProofs`). `Leader(s)` is the submission that wrote the
record and owns the active entry. `Lasting` is what the file still says of an execution
somebody was told of: that the device answered as long as no worker died with the entry,
that or "unknown" after one death, nothing after two. The inductive invariant has ten
parts: the types; `PlaceInv`, what a submission holds at each position; `StartedInv`,
only the leader was started; and

* `QueueInv`: only the leader has an entry in the queue. The result in it is the
  executor's until a worker dies, then "unknown", and after a second death it may deny
  the execution; "Done" past the journal step is `Lasting`;
* `SaidInv`: what cells, receipts and verdicts may say, each "Done" being `Lasting`;
* `JournalInv`: the copies of the record in memory and in the file, also after a
  failed write, an expiry or a restart; a key is inserted once while it is live, and
  neither copy denies what started as long as fewer than two workers died;
* `StrayInv`: what journal tasks of dead workers may still write. Without it a late
  write could deny what started, or say "Done" of what did not;
* `LeadInv`: the record of a leader stays running until the leader or its entry
  settles it, so nobody else has rejected it when the entry starts;
* `OwnInv`: while there is no record, the owner of the active entry is alone. Without
  it a submission whose insert failed could reject the record of a leader;
* `ActiveInv`: an active entry has a submission or a queue entry that will remove it.

Theorems: `SubmitTypes`, `DeviceActsOnce`, `StartsOnce` (an action property: the step
that hands an entry to the executor is the first of its key), `ReceiptsAreTrue`.

**ControlJournal** (`ControlJournalProofs`). `Tells(f, p, k, ...)` is what the lines of
`f` before `p` say of key `k`. The inductive invariant is
`TypeInv /\ FileInv /\ ReplayInv /\ RecordsHold`.

* `FileInv` compares the file with what was confirmed (`AckKept`) and with the memory of
  a running process (`MemKept`, `InFile`), and says that a Settle follows its Insert
  (`NoOrphan`). All of it is claimed of a file without a torn line only, since a torn
  line keeps the file from opening, and not of the keys in `adrift`.
* `ReplayInv` compares the entries rebuilt so far with the lines read so far, and the
  list of expired keys with their Inserts. When the last line is read, it and `AckKept`
  give the memory of the new process; the compaction then writes a file that tells the
  same.

`RecordsHold` alone is not inductive: it speaks of memory, and memory after an open
comes from the file. Theorems: `JournalTypes`, `JournalKeepsRecords`.

**DeviceQueue** (`DeviceQueueProofs`). The inductive invariant:

* `ShapeInv` says what worker and join hold at each position.
* `OwnerInv` says that a live worker is the one whose handle the queue has or the one
  join waits for, and that the first does not execute once join has the second. From
  this follows `Serial`, although two workers may be alive in the shutdown.
* `TouchInv` says that what waits in a queue is nowhere else and neither started nor
  answered.
* `HandInv` says what a worker finds in `running` and `draining`: at most one of them
  has anything outside the shutdown. It is what makes adoption after a death complete.
* `KeptInv` is stronger than `NothingLost`: an entry without reply is in a place that
  outlives the death of its worker, never only in a worker's local variable.
* `CalmInv` says, for executions without deaths and late spawns, that what was started
  never gets into `draining` or a local list, whose entries are settled as Cancelled.

`OneLife` needs in addition `AnswerInv`: what is executed or being settled has no reply
yet, and neither has the head of `draining` when the worker returns to its loop. The
second part holds because `settle_tracked` removes all answered entries at the head,
not only its own; the final drain has each entry in `draining` twice.

Theorems: `QueueTypes`, `OneAtATime`, `AcceptedIsKept`, `RepliesAreTrue`,
`EntriesLiveOnce` (the action property `OneLife`). The exceptions
(`late`, `panics = 0`) are those of the properties and stand for the findings below.

**RestControl** (`RestControlProofs`). `Told(k, v)` is what a receipt `v` for key `k`
commits the engine to. The inductive invariant says that the index names exactly the
entries of the ledger (`LedgerInv`), that a receipt on its way to the client is true
(`CallInv`), that the engine has records only for devices it may act on and that what
a worker holds and replies is the result on record, except for keys in `unsure`, where
it is one of the results of an execution (`EngineInv`), that an entry is attended while it runs and true afterwards
(`EntryInv`), and that what a task waits for shows as running as long as the engine
may act (`WaitInv`). The last two parts are why eviction may take only finished entries, and
why the result that arrives before its registration is not overwritten.
Theorems: `PromisesAreKept`, `StatusIsRight`, `ResultsStand`.

**Only model-checked.**

* Liveness (`StoredIsDrained`, `WaitersServed`, `WaitsEnd`, `ShutdownEnds`, `NeverStuck`,
  `Settled`, `PresenceTrue`, `StopEnds`, `Returns` in `KeepsContract`):
  the prover has no rules for fairness and ENABLED.
* `RequestsTrue`: it rests on the model of an external library (identifiers, collision
  slot, order of the resends after a loss), whose state is rebuilt by folds over the
  queues at each reconnect.
* `AcceptedIsDeliverable`, `WriteIsRight`, `ReadIsRight`, `StartIsSound`: exact
  computations with the scaled number formats and folds over configurations; the
  formats are fixed by the instance.
* The refinement `KeepsContract` of `DriverContract` and `Completes`: the answers depend
  on the batch plans of the four drivers, which are folds over the items of a call.

## 5. Findings

`PROJECT.json` ("findings") quotes the line of the repository each one contradicts.
Where a module states the claim as a property marked "Does not hold", TLC refutes it
when it replaces the properties of the named configuration.

| Claim | Configuration | What happens |
|---|---|---|
| `SentOutlivesRetention` (LocalBuffer) | `LBRows.cfg` without SYMMETRY | a record that was sent, not confirmed and requeued is deleted by the retention time (worker.rs:990) |
| `InterruptedStillStores` (Forward) | `FWOrder.cfg` | the drain deadline interrupts the wait for a PUBACK, and the loop drops what the pipeline emitted meanwhile (tasks.rs:470) |
| `AckedAlways` (MqttWorker) | `MQWorker.cfg` | after two losses (client.rs:1853), or one in the first phase of the shutdown (client.rs:1259), a receipt says Ok for a message the broker does not have |
| `InTurn` (PollSession) | `PSSession.cfg` | a write that was given up runs after the next one (control_exec.rs:158) |
| `KeepsContractOnSerial` (DriverCall) | `DRCalls.cfg` | on a serial line a late answer is taken for that of the next request (modbus session.rs:425) |
| `CompletesAll` (DriverCall) | `DRCalls.cfg` | correct items fail because of how a batch is planned: a wide Modbus item before its neighbour (modbus batch.rs:102), merged S7 bits and trailing bytes (s7comm batch.rs:61), UDINT tags (cip.rs:77) |
| `AnswerStands` (ControlSubmit) | `CSOnce.cfg`, also with `MaxTrouble = 1` | a worker dies at the await of the audit sink, and the second settlement of its entry replaces the result that a duplicate was told (queue.rs:345, 376, 453) |
| `ReceiptsAnswered` (ControlSubmit) | `CSOnce.cfg`, also with `MaxTrouble = 0` | a duplicate waits for ever on the cell of a submission that ends in Conflict (engine.rs:598) |
| `WholeFileOpens` (ControlJournal) | `CJDurable.cfg` | a record settled twice that then expires keeps the journal from opening (journal.rs:259) |
| `GivenUpAreSettled` (DeviceQueue) | `DQSerial.cfg` with `LiveSpec`, entries `{lo, hi, hj}`, `Again = {hi, hj}`, `MaxPanics = 0`, without SYMMETRY | an expired entry is not answered while higher priorities arrive (queue.rs:558) |
| `ShownForGood` (RestControl) | `RCLedger.cfg` | the ledger overwrites a result it has shown with that of a second settlement (control.rs:439) |
| `NeverPanics` (WritePath) | `CKWrite.cfg` | an accepted write to a UDINT tag panics in the encoder (cip.rs:77, encode.rs:43) |
| `InverseOfRead` (WritePath) | `CKWrite.cfg` | a small value written to a wide Modbus property changes only some of its registers (encode.rs:195) |
| `EveryAddressChecked` (CollectorStart) | `CKWrite.cfg` | the second profile of a driver is not checked at start (preflight.rs:120) |

Met while modelling, without a property of their own; the instances avoid or except
them:

* mqtt-client: a loss in the first phase of the shutdown also leaves devices online
  (client.rs:1259); it happens in the run, and `OfflineAtStop` excepts it.
* mqtt-client, collector: without a broker, the start and the send loop wait for room in
  the bounded request channel (runtime.rs:298, tasks.rs:740), against neither a deadline
  nor the stop signal. `Forward` and `CollectorStart` assume room, so no run shows it.
* Drivers: merged MC bits at distances that are no multiple of eight (mitsubishi-mc
  lib.rs:228) and merged S7 bits read wrong values; such batches are in the run, and
  `Loose` excepts these values. An empty S7 address panics (s7comm address.rs:135), two
  checks of an answer's head do not disconnect (mc session.rs:138), and an SD register
  passes for writable (mc address.rs:86): all of this happens in the run and breaks
  neither property, since a call with a wrong item may fail and the contract does not
  say how.
* rest-api: a ledger entry that was settled by a refusal is not reopened when the retry
  is accepted (control.rs:434); the keys in `forgotten` are excepted.
* profile-engine: beyond the window in which f64 tells neighbours apart, a scaled write
  is approximate also under Exact (convert.rs:445); `WriteIsClose` is about the window.
* driver-loader: one float that is not finite fails the whole batch (driver.rs:289).
* `compact` (journal.rs:355): when the reopen after the rename fails, the process goes on
  confirming records into the unlinked file, and the end of the process loses them.
  `RecordsHold` holds as long as the process runs (memory has the records) and across
  every later compaction that succeeds; `Crash` drops the keys in `adrift` from what is
  claimed.
* `worker_loop` (queue.rs:475): an entry interrupted by a panic is adopted through
  `draining`; a second panic or the forced abort settles it as Cancelled although
  it was started (excluded in `NeverDenied` of `DeviceQueue`).
* `enqueue` (queue.rs:211): a worker spawned after `join` took the handle keeps
  `draining` in a local variable (excluded in `NothingLost`).
* `submit` (engine.rs:480): a caller dropped at an await leaves the active entry
  behind (excluded in `ActiveOwned`).
* `run_forward` (tasks.rs:493): a push that is retried treats a database error as
  permanent, while the first push retries it (`is_transient_push_error`).
* `run_forward` (tasks.rs:461): the head of the loop reads the stop signal without
  marking it seen, so the first publication of the drain can be interrupted at once.

## 6. Not modelled

Metrics, diagnostics, the domain tables, the contents of the audit log, bench and the
placeholder binaries: they take no decision the other parts depend on. (The await on the
audit sink between journal and reply is modelled: a worker may die there.) Of the
modelled parts: the
byte layout of frames, CRC and checksums; TLS and serial settings; subscriptions,
browsing and history of drivers (no driver implements them); the migration of old
manifests; the evaluation of preconditions; the contents of read-only endpoints; the
collision of generated command ids; the memory journal; the exact times of polls.
SQLite, the file system, rumqttc, tokio and serde are external: a statement or a write
that returned success is durable, and the rest do what the code that uses them relies
on. Assumptions that are finer than the code:

* rumqttc's poll returns an error only when no event is buffered any more (`Lose`), and
  try_publish fails only for a full request queue: topics are checked when a request is
  accepted, so the other branch of `forward_pending` (client.rs:1521) cannot be taken.
* `Forward`: the request channel of the client has room, so taking a record and having
  its publication accepted are one step. The loop has one publication outstanding.
* `LocalBuffer`: the checks of schema and version in `open` (worker.rs:257-408). A file
  they refuse leaves the buffer down and unchanged; `CollectorStart` has that exit.
* `DeviceQueue`: a forced abort takes effect at once. In the code a worker that is
  between two awaits runs on to the next one, and may in that instant still set the
  reply of the entry that `join` settles again (`SharedResult::set` overwrites; the last
  writer wins). What a second settlement means for callers is covered by `Die` and
  `StrayWrite` of `ControlSubmit`.

## 7. Plan

The model covers the data path, the control path, the start and the drivers. The safety
of buffer, forward loop, pipeline, sessions, submission, journal, device queue and ledger
is proved, and so is the refinement of `BufferContract`. What is left, in this order:

1. `Forward` over `BufferContract` itself: its disk variables replaced by an instance of
   the contract, so that the composition with `LocalBuffer` is a theorem.
2. `DriverCall` implements `DriverContract` for one protocol with the batch plans as
   parameters, which takes the folds out of the proof.
3. The shutdown as one sequence over all parts.
