----------------------------- MODULE DriverCall -----------------------------
(***************************************************************************)
(* One driver handle and one device: the calls the host makes through the  *)
(* driver ABI, one after the other (the session lock of PollSession keeps  *)
(* them apart), the connection they share, and a device that may refuse,   *)
(* answer wrongly, answer late, close the connection or not answer.  The   *)
(* protocol is chosen once; what it computes comes from its driver module. *)
(*                                                                         *)
(* "tcp" and "rtu" are the two transports of the Modbus driver.            *)
(***************************************************************************)
EXTENDS ModbusDriver, S7Driver, McDriver, EipDriver
CONSTANTS
    Protos,        \* the protocols an instance runs
    Batches,       \* protocol -> what the host may call first, second...: a sequence of sets
                   \* of calls [op, items]; its length bounds the calls of a behaviour
    LinkConfig,    \* reconnect settings: [reconnect, attempts]
    MaxFaults      \* bound: misbehaviours per behaviour
ASSUME CallBounds == MaxFaults \in Nat

VARIABLES
    proto,     \* the protocol of the handle
    mem,       \* the device's memory: cell -> value
    link,      \* the driver's end of the connection: "up" or "down"
    ref,       \* the number of the last request
    cache,     \* EtherNet/IP: the types learnt so far
    call,      \* the call in progress: [op, items]
    stage,     \* where it stands: "idle", "begin", "send", "wait"
    phase,     \* EtherNet/IP writes: "discover" before "run"
    tries,     \* failed attempts of the connect in progress
    todo,      \* requests not sent yet
    results,   \* entries of the answer so far
    sent,      \* the request the driver waits for, as a sequence of at most one
    inbox,     \* requests the device has not looked at
    line,      \* what the device sent and the driver has not read
    late,      \* requests given up that the device may still perform
    acted, seen, report,   \* what the contract speaks of: see DriverContract
    clean,     \* no misbehaviour since the call began
    mixed,     \* a serial answer was taken for that of another request (history)
    faults, calls, drifted \* spent bounds
linkVars == <<link, ref, cache, tries>>
callVars == <<call, stage, phase, todo, results, sent>>
deviceVars == <<mem, inbox, line, late>>
reportVars == <<acted, seen, report, clean, mixed>>
vars == <<proto, linkVars, callVars, deviceVars, reportVars, faults, calls, drifted>>

-----------------------------------------------------------------------------
\* The protocol's part.
Modbus == proto \in {"tcp", "rtu"}
Cells(p, i) == CASE p \in {"tcp", "rtu"} -> MbCells(i) [] p = "s7" -> S7Cells(i)
                 [] p = "mc" -> McCells(i) [] p = "eip" -> EipCells(i)
Parses(p, i) == CASE p \in {"tcp", "rtu"} -> MbParse(i.addr).ok [] p = "s7" -> S7Parses(i.addr)
                  [] p = "mc" -> McParses(i.addr) [] p = "eip" -> EipParses(i.addr)
Sound(op, i) == CASE op = "validate" -> Parses(proto, i) [] Modbus -> MbSound(op, i) [] proto = "s7" -> S7Sound(op, i)
                  [] proto = "mc" -> McSound(op, i) [] proto = "eip" -> EipSound(op, i)
Unsupported == CASE Modbus -> MbUnsupported [] proto = "s7" -> S7Unsupported
                 [] proto = "mc" -> McUnsupported [] proto = "eip" -> EipUnsupported
Rejected(op, items) ==
    CASE op \in Unsupported -> "unsupported"
      [] op \in {"connect", "disconnect", "validate"} -> "ok"
      [] op = "read" ->
           (CASE Modbus -> MbReadRejected(items) [] proto = "s7" -> S7ReadRejected(items)
              [] proto = "mc" -> McReadRejected(items) [] proto = "eip" -> EipReadRejected(items))
      [] op = "write" ->
           (CASE Modbus -> MbWriteRejected(items) [] proto = "s7" -> S7WriteRejected(items)
              [] proto = "mc" -> McWriteRejected(items) [] proto = "eip" -> EipWriteRejected(items))
Validated(i) == CASE Modbus -> MbValidate(i.addr) [] proto = "s7" -> S7Validate(i.addr)
                  [] proto = "mc" -> McValidate(i.addr) [] proto = "eip" -> EipValidate(i.addr)
HandshakeCodes == CASE proto = "s7" -> S7HandshakeCodes [] proto = "eip" -> EipHandshakeCodes
                    [] OTHER -> {"connection_failed"}
Attempts == CASE Modbus -> MbAttempts(LinkConfig) [] proto = "s7" -> S7Attempts(LinkConfig)
              [] proto = "eip" -> EipAttempts(LinkConfig) [] proto = "mc" -> McAttempts
PlanOf(op, items) ==
    IF op = "read"
    THEN CASE Modbus -> MbPlanReads(items) [] proto = "s7" -> S7PlanReads(items)
           [] proto = "mc" -> McPlanReads(items) [] proto = "eip" -> EipPlanReads(items)
    ELSE CASE Modbus -> MbPlanWrites(items) [] proto = "s7" -> S7PlanWrites(items)
           [] proto = "mc" -> McPlanWrites(items) [] proto = "eip" -> EipPlanDiscovery(items, cache)
Panics(items) == CASE proto = "s7" -> \E i \in items : S7ParsePanics(i.addr)
                   [] proto = "eip" -> call.op = "write" /\ EipPanics(items, cache)
                   [] OTHER -> FALSE
Request(plan) == CASE Modbus -> MbRequest(plan, ref) [] proto = "s7" -> S7Request(plan, ref)
                   [] proto = "eip" -> EipRequest(plan, ref) [] proto = "mc" -> [txn |-> 0, plan |-> plan]
Writes(plan) == IF Modbus THEN MbWrites(plan) ELSE plan.write
\* A serial frame has no number to be wrong; an answer to another request comes late.
DeviceFaults == CASE proto = "tcp" -> MbFaults [] proto = "rtu" -> MbFaults \ {"badref"} [] proto = "s7" -> S7Faults
                  [] proto = "mc" -> McFaults [] proto = "eip" -> EipFaults
\* The answers of a device that did not perform the request.
Declines(fault) == fault \in CASE Modbus -> {"refuse", "malformed", "badref"}
                               [] proto = "s7" -> {"denied", "object", "negative", "badref"}
                               [] proto = "mc" -> {"refuse"}
                               [] proto = "eip" -> {"negative", "badref"}
Applied(req, fault) ==
    IF Declines(fault) THEN mem
    ELSE CASE Modbus -> MbApply(mem, req.plan) [] proto = "s7" -> S7Apply(mem, req.plan)
           [] proto = "mc" -> McApply(mem, req.plan) [] proto = "eip" -> EipApply(mem, req.plan, fault)
Answer(req, fault) ==
    CASE Modbus -> MbAnswer(mem, req, fault) [] proto = "s7" -> S7Answer(mem, req, fault)
      [] proto = "mc" -> McAnswer(mem, req, fault) [] proto = "eip" -> EipAnswer(mem, req, fault)
Check(req, frame) ==
    CASE Modbus -> LET code == MbCheck(proto, req, frame)
                   IN [code |-> code, drop |-> MbTransportLevel(code)]
      [] proto = "s7" -> S7Check(req, frame) [] proto = "mc" -> McCheck(req, frame)
      [] proto = "eip" -> EipCheck(req, frame)
ResultsOf(plan, frame) ==
    CASE Modbus -> IF MbWrites(plan) THEN MbWriteResults(plan) ELSE MbReadResults(plan, frame.data)
      [] proto = "s7" -> S7Results(plan, frame) [] proto = "mc" -> McResults(plan, frame)
      [] proto = "eip" -> IF plan.write THEN EipWriteResults(plan, frame, {x.id : x \in results})
                          ELSE EipReadResults(plan, frame)

-----------------------------------------------------------------------------
\* The known shortcomings of the planning (README, Findings): the items of a read
\* whose value comes from the wrong place of the answer, and the correct items that
\* fail.  Failing also covers a tag whose type has no width, with the panic of a write.
InPlan(i, Wrong(_, _)) ==
    /\ call.op = "read"
    /\ \E plan \in ToSet(PlanOf("read", call.items).plans) :
          \E e \in ToSet(plan.items) : e.id = i.id /\ Wrong(plan, e)
Loose(i) == CASE proto = "s7" -> S7Bit(i.addr) /\ InPlan(i, S7Misplaced)
              [] proto = "mc" -> McBits(i.addr.dev) /\ InPlan(i, McMisplaced)
              [] OTHER -> FALSE
Failing(i) == CASE Modbus -> InPlan(i, MbCut) [] proto = "s7" -> InPlan(i, S7Cut) \/ InPlan(i, S7Misplaced)
                [] proto = "eip" -> EipUntyped(i) [] OTHER -> FALSE

\* What the contract sees of an item.
Public(i) == [id |-> i.id, cells |-> IF Parses(proto, i) THEN Cells(proto, i) ELSE <<>>, val |-> i.val]
PublicOf(plan) == {Public(i) : i \in {j \in call.items : \E e \in ToSet(plan.items) : e.id = j.id}}
NoCall == [op |-> "none", items |-> {}]
NoReport == [whole |-> FALSE, code |-> "none", results |-> {}]

\* A memory in which no two cells hold the same value.
Numbered(order) == [c \in ToSet(order) |-> CHOOSE k \in DOMAIN order : order[k] = c]
DeviceCells(p) == UNION {UNION {ToSet(Cells(p, i)) : i \in {j \in b.items : Parses(p, j)}} :
                            b \in UNION ToSet(Batches[p])}

Init ==
    /\ proto \in Protos
    /\ \E cells \in {DeviceCells(proto)} : \E order \in {Listed(cells)} : mem = Numbered(order)
    /\ link = "down" /\ ref = 0 /\ cache = <<>> /\ tries = 0
    /\ call = NoCall /\ stage = "idle" /\ phase = "run"
    /\ todo = <<>> /\ results = {} /\ sent = <<>>
    /\ inbox = <<>> /\ line = <<>> /\ late = {}
    /\ acted = {} /\ seen = {} /\ report = NoReport /\ clean = TRUE /\ mixed = FALSE
    /\ faults = 0 /\ calls = 0 /\ drifted = FALSE

\* The host calls.  Identifiers and values are made different from those of the
\* calls before.
Fresh(i) == [i EXCEPT !.id = @ + 100 * calls, !.val = [k \in DOMAIN i.val |-> i.val[k] + 1000 * (calls + 1)]]
Begin(b) ==
    /\ stage = "idle"
    /\ call' = [op |-> b.op, items |-> {Fresh(i) : i \in b.items}]
    /\ stage' = "begin" /\ calls' = calls + 1
    /\ phase' = IF proto = "eip" /\ b.op = "write" THEN "discover" ELSE "run"
    /\ results' = {} /\ todo' = <<>> /\ tries' = 0
    /\ acted' = {} /\ seen' = {mem} /\ report' = NoReport /\ clean' = TRUE
    /\ UNCHANGED <<proto, link, ref, cache, sent, deviceVars, mixed, faults, drifted>>

\* The call returns: with an entry per item, or as a whole with a code.
Return(r) ==
    /\ report' = r /\ call' = NoCall /\ stage' = "idle"
    /\ todo' = <<>> /\ results' = {} /\ sent' = <<>> /\ phase' = "run" /\ tries' = 0
Whole(code) == Return([whole |-> TRUE, code |-> code, results |-> {}])

Reject ==
    /\ stage = "begin" /\ Rejected(call.op, call.items) # "ok"
    /\ Whole(Rejected(call.op, call.items))
    /\ UNCHANGED <<proto, link, ref, cache, deviceVars, acted, seen, clean, mixed, faults, calls, drifted>>

\* Modbus plans before it connects, the others connect first; Modbus and MC also
\* look at the connection before each request.
MustConnect ==
    /\ link = "down"
    /\ \/ stage = "begin" /\ call.op \in {"read", "write"} /\ ~Modbus /\ Rejected(call.op, call.items) = "ok"
       \/ stage = "begin" /\ call.op = "connect"
       \/ stage = "send" /\ todo # <<>> /\ proto \in {"tcp", "rtu", "mc"}
Connect ==
    /\ MustConnect
    /\ link' = "up" /\ tries' = 0
    /\ UNCHANGED <<proto, ref, cache, callVars, deviceVars, reportVars, faults, calls, drifted>>
ConnectFails(code) ==
    /\ MustConnect /\ code \in HandshakeCodes
    /\ clean' = FALSE
    /\ IF tries + 1 < Attempts
       THEN tries' = tries + 1 /\ UNCHANGED <<callVars, report>>
       ELSE Whole(code)
    /\ UNCHANGED <<proto, link, ref, cache, deviceVars, acted, seen, mixed, faults, calls, drifted>>

\* The calls without requests: connect, disconnect, and validate_address, which is
\* answered without the device.
Connected ==
    /\ stage = "begin" /\ call.op = "connect" /\ link = "up"
    /\ Return([whole |-> FALSE, code |-> "ok", results |-> {}])
    /\ UNCHANGED <<proto, link, ref, cache, deviceVars, acted, seen, clean, mixed, faults, calls, drifted>>
Disconnect ==
    /\ stage = "begin" /\ call.op = "disconnect"
    /\ link' = "down" /\ line' = <<>>
    /\ Return([whole |-> FALSE, code |-> "ok", results |-> {}])
    /\ UNCHANGED <<proto, ref, cache, mem, inbox, late, acted, seen, clean, mixed, faults, calls, drifted>>
Validate ==
    /\ stage = "begin" /\ call.op = "validate"
    /\ IF Panics(call.items) THEN Whole("DRIVER_PANIC")
       ELSE Return([whole |-> FALSE, code |-> "ok",
                    results |-> {IF Validated(i).code = "ok" THEN Good(i.id, <<Validated(i).writable>>)
                                 ELSE Bad(i.id, Validated(i).code) : i \in call.items}])
    /\ UNCHANGED <<proto, link, ref, cache, deviceVars, acted, seen, clean, mixed, faults, calls, drifted>>

PlanCall ==
    /\ stage = "begin" /\ call.op \in {"read", "write"} /\ Rejected(call.op, call.items) = "ok" /\ (Modbus \/ link = "up")
    /\ IF Panics(call.items) THEN Whole("DRIVER_PANIC")
       ELSE \E plan \in {PlanOf(call.op, call.items)} :
              IF plan.code # "ok" THEN Whole(plan.code)
              ELSE /\ todo' = plan.plans /\ results' = plan.failed /\ stage' = "send"
                   /\ UNCHANGED <<call, phase, sent, report, tries>>
    /\ UNCHANGED <<proto, link, ref, cache, deviceVars, acted, seen, clean, mixed, faults, calls, drifted>>

Send ==
    /\ stage = "send" /\ todo # <<>> /\ link = "up"
    /\ LET req == Request(Head(todo))
       IN /\ sent' = <<req>> /\ ref' = req.txn /\ inbox' = Append(inbox, req)
    /\ todo' = Tail(todo) /\ stage' = "wait"
    /\ UNCHANGED <<proto, link, cache, tries, call, phase, results, mem, line, late, reportVars,
                   faults, calls, drifted>>

\* The device looks at a request: it performs it unless it declines, and answers.
Witnessed == seen' = IF call.op = "none" THEN seen ELSE seen \cup {mem'}
Frame(req, f) == [eof |-> FALSE, frame |-> f, to |-> req.txn]
Eof == [eof |-> TRUE, frame |-> <<>>, to |-> 0]
Serve(fault) ==
    /\ inbox # <<>>
    /\ fault # "none" => faults < MaxFaults
    /\ faults' = IF fault = "none" THEN faults ELSE faults + 1
    /\ clean' = (clean /\ fault = "none")
    /\ LET req == Head(inbox)
           kept == IF proto = "eip" THEN EipDenied(req.plan, fault) ELSE {}
       IN /\ mem' = Applied(req, fault)
          /\ Witnessed
          /\ acted' = IF Writes(req.plan) /\ ~Declines(fault)
                      THEN acted \cup {i \in PublicOf(req.plan) : i.cells[1][1] \notin kept}
                      ELSE acted
          /\ line' = Append(line, Frame(req, Answer(req, fault)))
    /\ inbox' = Tail(inbox)
    /\ UNCHANGED <<proto, linkVars, callVars, late, report, mixed, calls, drifted>>

\* The device closes the connection instead of answering, with the request
\* performed or not.
Close(performed) ==
    /\ inbox # <<>> /\ faults < MaxFaults /\ proto # "rtu"
    /\ faults' = faults + 1 /\ clean' = FALSE
    /\ LET req == Head(inbox)
       IN /\ mem' = IF performed THEN Applied(req, "none") ELSE mem
          /\ Witnessed
          /\ acted' = IF performed /\ Writes(req.plan) THEN acted \cup PublicOf(req.plan) ELSE acted
    /\ inbox' = Tail(inbox) /\ line' = Append(line, Eof)
    /\ UNCHANGED <<proto, linkVars, callVars, late, report, mixed, calls, drifted>>

\* Dropping a TCP connection throws away what is under way to the driver; what the
\* device has not looked at may still be performed.  A serial line has no end: what
\* a device sends late is there when the port is opened again.
Drop(rest) ==
    /\ link' = "down"
    /\ late' = late \cup {[req |-> inbox[k], items |-> PublicOf(inbox[k].plan)] :
                             k \in {j \in DOMAIN inbox : Writes(inbox[j].plan) \/ proto = "rtu"}}
    /\ inbox' = <<>>
    /\ line' = IF proto = "rtu" THEN rest ELSE <<>>

\* A request failed with a code.  A type discovery that failed fails its items and
\* the call goes on; a Modbus exception fails the items of its request; anything
\* else ends the call.
Fails(code, checked) ==
    LET plan == sent[1].plan
    IN CASE proto = "eip" /\ phase = "discover" /\ checked ->
              /\ results' = results \cup EipUndiscovered(plan)
              /\ stage' = "send" /\ sent' = <<>>
              /\ UNCHANGED <<call, phase, todo, report, tries>>
         [] Modbus /\ ~MbTransportLevel(code) ->
              /\ results' = results \cup MbItemErrors(plan, code)
              /\ stage' = "send" /\ sent' = <<>>
              /\ UNCHANGED <<call, phase, todo, report, tries>>
         [] OTHER -> Whole(code)

Receive ==
    /\ stage = "wait" /\ line # <<>> /\ ~Head(line).eof
    /\ LET plan == sent[1].plan
           frame == Head(line).frame
           verdict == Check(sent[1], frame)
       IN /\ IF verdict.code = "ok"
             THEN /\ results' = results \cup
                        IF phase = "discover" THEN EipNotFound(plan, frame) ELSE ResultsOf(plan, frame)
                  /\ cache' = IF phase = "discover" THEN EipLearn(cache, plan, frame) ELSE cache
                  /\ stage' = "send" /\ sent' = <<>>
                  /\ UNCHANGED <<call, phase, todo, report, tries>>
             ELSE /\ Fails(verdict.code, proto = "eip" => EipChecked(sent[1], frame).code # "ok")
                  /\ UNCHANGED cache
          /\ IF verdict.drop THEN Drop(Tail(line))
             ELSE line' = Tail(line) /\ UNCHANGED <<link, inbox, late>>
    /\ mixed' = (mixed \/ (proto = "rtu" /\ Head(line).to # sent[1].txn))
    /\ UNCHANGED <<proto, ref, mem, acted, seen, clean, faults, calls, drifted>>

ReceiveEof ==
    /\ stage = "wait" /\ line # <<>> /\ Head(line).eof
    /\ Drop(Tail(line)) /\ Fails("connection_lost", TRUE)
    /\ UNCHANGED <<proto, ref, cache, mem, acted, seen, clean, mixed, faults, calls, drifted>>

\* No answer in time.
Timeout ==
    /\ stage = "wait"
    /\ Drop(line) /\ Fails("timeout", TRUE)
    /\ clean' = FALSE
    /\ UNCHANGED <<proto, ref, cache, mem, acted, seen, mixed, faults, calls, drifted>>

\* The session is down in the middle of an EtherNet/IP write: the discovery goes on
\* failing, a write ends the call.
SendFails ==
    /\ stage = "send" /\ todo # <<>> /\ link = "down" /\ proto \in {"s7", "eip"}
    /\ IF phase = "discover"
       THEN /\ results' = results \cup EipUndiscovered(Head(todo)) /\ todo' = Tail(todo)
            /\ UNCHANGED <<call, stage, phase, sent, report, tries>>
       ELSE Whole("connection_lost")
    /\ ref' = (ref + 1) % EipCtxSpace
    /\ UNCHANGED <<proto, link, cache, deviceVars, acted, seen, clean, mixed, faults, calls, drifted>>

\* All requests of the stage are answered.
Finish ==
    /\ stage = "send" /\ todo = <<>>
    /\ IF phase = "discover"
       THEN IF Panics(call.items) THEN Whole("DRIVER_PANIC")
            ELSE \E plan \in {EipPlanWrites(call.items, cache)} :
                   /\ phase' = "run" /\ todo' = plan.plans
                   /\ results' = results \cup {x \in plan.failed : \A y \in results : y.id # x.id}
                   /\ UNCHANGED <<call, stage, sent, report, tries>>
       ELSE Return([whole |-> FALSE, code |-> "ok", results |-> results])
    /\ UNCHANGED <<proto, link, ref, cache, deviceVars, acted, seen, clean, mixed, faults, calls, drifted>>

\* A request the driver has given up is performed after all.
LateServe ==
    /\ \E l \in late :
        /\ late' = late \ {l}
        /\ mem' = Applied(l.req, "none")
        /\ line' = IF proto = "rtu" THEN Append(line, Frame(l.req, Answer(l.req, "none"))) ELSE line
    /\ Witnessed
    /\ UNCHANGED <<proto, linkVars, callVars, inbox, acted, report, clean, mixed, faults, calls, drifted>>

\* The process changes all its values.
Drift ==
    /\ ~drifted /\ drifted' = TRUE
    /\ mem' = [c \in DOMAIN mem |-> (mem[c] % 1000) + 500]
    /\ Witnessed
    /\ UNCHANGED <<proto, linkVars, callVars, inbox, line, late, acted, report, clean, mixed, faults, calls>>

Driver == \/ Reject \/ Connect \/ Connected \/ Disconnect \/ Validate
          \/ \E code \in HandshakeCodes : ConnectFails(code)
          \/ PlanCall \/ Send \/ Receive \/ ReceiveEof \/ Timeout \/ SendFails \/ Finish
Device == \/ \E fault \in DeviceFaults \cup {"none"} : Serve(fault)
          \/ \E performed \in BOOLEAN : Close(performed)
          \/ LateServe \/ Drift
Next == \/ calls < Len(Batches[proto]) /\ \E b \in Batches[proto][calls + 1] : Begin(b)
        \/ Driver
        \/ Device
\* The host's worker thread runs the call and every read of a socket or a port has
\* a timeout; nothing is assumed of the device.
Spec == Init /\ [][Next]_vars /\ WF_vars(Driver)

-----------------------------------------------------------------------------
TypeOK ==
    /\ link \in {"up", "down"} /\ stage \in {"idle", "begin", "send", "wait"}
    /\ phase \in {"run", "discover"}
    /\ (stage = "idle") = (call = NoCall)
    /\ (stage = "wait") = (Len(sent) = 1)
    /\ Len(inbox) <= 1 /\ (inbox # <<>> => stage = "wait" /\ link = "up")
    /\ faults <= MaxFaults /\ mixed \in BOOLEAN /\ calls <= Len(Batches[proto])

Contract == INSTANCE DriverContract WITH
    NotSentCodes <- {"connection_failed", "unsupported", "config_error", "invalid_address",
                     "invalid_type", "driver_encoding_error", "modbus_exception"},
    RefusalCodes <- {"s7_item_error", "access_denied", "cip_item_error", "mc_error_response"},
    FieldValues <- 1..999,
    kind <- call.op,
    items <- {Public(i) : i \in call.items},
    loose <- {i.id : i \in {j \in call.items : Loose(j)}},
    owed <- UNION {l.items : l \in {k \in late : Writes(k.req.plan)}}
\* The driver implements the contract its callers rely on (DriverContract): values
\* read are whole and current, what is reported written is, what is reported as
\* not sent or refused is not, nothing else in the device changes, and every call
\* returns, whatever the device does (read_batch, write_batch of the four drivers).
\* Two exceptions, both findings: the value of a bit that was merged behind another
\* one (Loose: s7comm batch.rs, mitsubishi-mc lib.rs), and all promises from the
\* moment a late answer on a serial line is taken for that of another request
\* (modbus session.rs): its frames carry no number.
KeepsContract ==
    /\ Contract!Init /\ [][Contract!Next \/ mixed']_(Contract!vars)
    /\ Contract!Returns

\* Does not hold (README, Findings): the contract without the second exception.
KeepsContractOnSerial == Contract!Spec

\* A call during which nothing went wrong answers every correct item with success,
\* whatever went wrong in the calls before it: read_batch and write_batch of the
\* four drivers leave the session so that the next call starts afresh.  Excepted
\* are the items that fail although they are correct (Failing: modbus batch.rs,
\* s7comm batch.rs, ethernet-ip cip.rs), with the whole call where the encoder
\* panics, and a serial line on which a late answer was mixed up.
Completes ==
    [][(call.op \in {"read", "write", "validate", "connect"} /\ call'.op = "none" /\ clean' /\ ~mixed') =>
          IF report'.whole THEN \E i \in call.items : ~Sound(call.op, i) \/ Failing(i)
          ELSE \A x \in report'.results : \A i \in call.items :
                  x.id = i.id /\ Sound(call.op, i) /\ ~Failing(i) => x.ok]_vars

\* Does not hold (README, Findings): the same without the exceptions of the planning.
CompletesAll ==
    [][(call.op \in {"read", "write"} /\ call'.op = "none" /\ clean' /\ ~mixed') =>
          IF report'.whole THEN \E i \in call.items : ~Sound(call.op, i)
          ELSE \A x \in report'.results : \A i \in call.items :
                  x.id = i.id /\ Sound(call.op, i) => x.ok]_vars
=============================================================================
