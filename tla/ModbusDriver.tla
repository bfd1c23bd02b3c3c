---------------------------- MODULE ModbusDriver ----------------------------
(***************************************************************************)
(* src/drivers/modbus: addresses, planning of batches, the checks on an    *)
(* answer, and src/crates/modbus-mock, the device the driver is tested     *)
(* with.  The operators are what one call computes; DriverCall puts them   *)
(* in order.  Transport is "tcp" (transaction number in every frame) or    *)
(* "rtu" (no number, a CRC instead).                                       *)
(***************************************************************************)
EXTENDS DriverPlan
CONSTANTS
    MbLimit,        \* units a request may carry: [readRegs, readBits, writeRegs, writeBits]
    MbDefaultUnit,  \* unit_id of the configuration
    TxnSpace        \* transaction numbers wrap here (2^16 in the code)

-----------------------------------------------------------------------------
\* Addresses.  addr = [unit, seg, num]: unit 0 and segment "" stand for "not given".
MbKinds == <<"coil", "discrete", "input", "holding">>
MbBase == [coil |-> 1, discrete |-> 10001, input |-> 30001, holding |-> 40001]
MbBits(kind) == kind \in {"coil", "discrete"}
MbWritable(kind) == kind \in {"coil", "holding"}
MbFunction(kind) == [coil |-> 1, discrete |-> 2, holding |-> 3, input |-> 4][kind]
\* A bare number belongs to the segment whose 9999 numbers hold it; they do not overlap.
MbMatches(kind, num) == num >= MbBase[kind] /\ num < MbBase[kind] + 9999
MbInfer(num) ==
    IF \E k \in DOMAIN MbBase : MbMatches(k, num)
    THEN CHOOSE k \in DOMAIN MbBase : MbMatches(k, num) ELSE ""
MbInRange(kind, num) == num >= MbBase[kind] /\ num <= MbBase[kind] + 65535
MbKindOf(addr) == IF addr.seg = "" THEN MbInfer(addr.num) ELSE addr.seg
MbParse(addr) ==
    LET unit == IF addr.unit = 0 THEN MbDefaultUnit ELSE addr.unit
        Parsed(kind) ==
            LET good == unit \in 1..247 /\ kind \in DOMAIN MbBase /\ MbInRange(kind, addr.num)
            IN [ok |-> good, unit |-> unit, kind |-> kind,
                off |-> IF good THEN addr.num - MbBase[kind] ELSE 0]
    IN CHOOSE r \in {Parsed(kind) : kind \in {MbKindOf(addr)}} : TRUE

-----------------------------------------------------------------------------
\* Types and their widths in registers; 0 when the type is not carried by registers.
MbRegisterWidth(type) ==
    CASE type \in {"none", "bool", "u8", "i8", "u16", "i16"} -> 1
      [] type \in {"u32", "i32", "f32"} -> 2
      [] type \in {"u64", "i64", "f64"} -> 4
      [] OTHER -> 0
MbWidth(kind, type) ==
    IF MbBits(kind) \/ MbRegisterWidth(type) = 0 THEN 1 ELSE MbRegisterWidth(type)
\* Whether the driver can turn units of this segment into a value of this type.
MbDecodes(kind, type) ==
    IF MbBits(kind) THEN type \in {"none", "bool"}
    ELSE type # "bool" /\ MbRegisterWidth(type) # 0
\* Whether a value of this type can be written there, and in how many units: a
\* bare u64, i64 or f64 is sent in the least width that holds the value.
MbEncodes(kind, item) ==
    IF MbBits(kind) THEN item.type = "bool"
    ELSE item.type \notin {"bool", "none"} /\ MbRegisterWidth(item.type) # 0
MbUnits(kind, item) == IF MbBits(kind) THEN 1 ELSE Len(item.val)
MbCells(item) ==
    LET Covered(a) == CellsAt(<<a.unit, a.kind>>, a.off,
                              IF item.val = <<>> THEN MbWidth(a.kind, item.type) ELSE Len(item.val))
    IN CHOOSE r \in {Covered(a) : a \in {MbParse(item.addr)}} : TRUE
\* What a caller may count on: a correct item on a healthy device succeeds.
MbSound(op, item) ==
    LET a == MbParse(item.addr)
    IN /\ item.tag /\ a.ok
       /\ a.off + Len(MbCells(item)) <= 65536
       /\ IF op = "read" THEN MbDecodes(a.kind, item.type)
          ELSE MbWritable(a.kind) /\ MbEncodes(a.kind, item)

-----------------------------------------------------------------------------
\* Reads: grouped by unit and segment, in address order; neighbours whose
\* addresses differ by one share a request up to the limit.
MbEntry(item) ==
    LET a == MbParse(item.addr)
    IN [id |-> item.id, key |-> <<a.unit, SelectInSeq(MbKinds, LAMBDA k : k = a.kind), a.off>>, unit |-> a.unit,
        kind |-> a.kind, off |-> a.off, type |-> item.type,
        width |-> MbWidth(a.kind, item.type), val |-> item.val]
MbSameGroup(a, b) == a.unit = b.unit /\ a.kind = b.kind
MbUsed(chunk) == Sum([i \in DOMAIN chunk |-> chunk[i].width])
MbReadJoins(chunk, e) ==
    LET limit == IF MbBits(e.kind) THEN MbLimit.readBits ELSE MbLimit.readRegs
    IN /\ MbSameGroup(Last(chunk), e)
       /\ e.off = Last(chunk).off + 1
       /\ MbUsed(chunk) + e.width <= limit

\* Mutant of MbReadPlan: an item counts as one register.
MbReadPlanByCount(chunk) ==
    [unit |-> chunk[1].unit, kind |-> chunk[1].kind, start |-> chunk[1].off,
     fn |-> MbFunction(chunk[1].kind), quantity |-> Len(chunk), items |-> chunk, data |-> <<>>]
MbReadPlan(chunk) ==
    [unit |-> chunk[1].unit, kind |-> chunk[1].kind, start |-> chunk[1].off,
     fn |-> MbFunction(chunk[1].kind),
     quantity |-> Last(chunk).off - chunk[1].off + Last(chunk).width,
     items |-> chunk, data |-> <<>>]
MbPlanReads(items) ==
    IF \E i \in items : LET a == MbParse(i.addr)
                        IN ~a.ok \/ a.off + MbWidth(a.kind, i.type) > 65536
    THEN Refused("invalid_address")
    ELSE Planned(PlansOf(InOrder({MbEntry(i) : i \in items}), MbReadJoins, MbReadPlan), {})

\* An item that ends behind the last one of its request: a wide one before its
\* neighbour.  The request ends with the last one.
MbCut(plan, e) == e.off + e.width > Last(plan.items).off + Last(plan.items).width

\* Writes: only what exactly follows its predecessor shares a request.
MbWriteEntry(item) ==
    LET e == MbEntry(item) IN [e EXCEPT !.width = MbUnits(e.kind, item)]
MbWriteJoins(chunk, e) ==
    LET limit == IF MbBits(e.kind) THEN MbLimit.writeBits ELSE MbLimit.writeRegs
    IN /\ MbSameGroup(Last(chunk), e)
       /\ e.off = Last(chunk).off + Last(chunk).width
       /\ MbUsed(chunk) + e.width <= limit
MbWriteFunction(chunk) ==
    LET single == Len(chunk) = 1 /\ chunk[1].width = 1
    IN IF MbBits(chunk[1].kind) THEN IF single THEN 5 ELSE 15 ELSE IF single THEN 6 ELSE 16
MbWritePlan(chunk) ==
    [unit |-> chunk[1].unit, kind |-> chunk[1].kind, start |-> chunk[1].off,
     fn |-> MbWriteFunction(chunk), quantity |-> MbUsed(chunk), items |-> chunk,
     data |-> FlattenSeq([i \in DOMAIN chunk |-> chunk[i].val])]
MbPlanWrites(items) ==
    LET Fits(i) == MbEncodes(MbParse(i.addr).kind, i)
        Misplaced(i) == LET a == MbParse(i.addr)
                        IN \/ ~a.ok \/ ~MbWritable(a.kind)
                           \/ Fits(i) /\ a.off + MbUnits(a.kind, i) > 65536
        entries == {MbWriteEntry(i) : i \in {j \in items : Fits(j)}}
    IN IF \E i \in items : Misplaced(i) THEN Refused("invalid_address")
       ELSE Planned(PlansOf(InOrder(entries), MbWriteJoins, MbWritePlan),
                    {Bad(i.id, "invalid_type") : i \in {j \in items : ~Fits(j)}})

-----------------------------------------------------------------------------
\* The ABI entries reject a call before the driver sees it; the operations the
\* driver has not are refused.
MbReadRejected(items) == IF \E i \in items : ~i.tag THEN "invalid_type" ELSE "ok"
MbWriteRejected(items) == IF \E i \in items : ~i.tag THEN "invalid_type" ELSE "ok"
MbUnsupported == {"execute", "browse", "subscribe", "unsubscribe", "query_history"}

\* validate_address: the answer is the code, and whether the address can be written.
MbValidate(addr) ==
    IF MbParse(addr).ok THEN [code |-> "ok", writable |-> MbWritable(MbParse(addr).kind)]
    ELSE [code |-> "invalid_address", writable |-> FALSE]

\* The request on the wire; write_transaction and read_transaction count the
\* transaction up before they build it.
MbRequest(plan, txn) == [txn |-> (txn + 1) % TxnSpace, plan |-> plan]
MbArea(plan) == <<plan.unit, plan.kind>>

\* The device (modbus-mock): what it answers, and the ways it can misbehave;
\* "badref" answers another request, which this one is then not.
MbFaults == {"refuse", "malformed", "badref", "badunit", "badfn", "badcount"}
MbWrites(plan) == plan.fn \in {5, 6, 15, 16}
MbApply(mem, plan) ==
    IF MbWrites(plan)
    THEN Store(mem, CellsAt(MbArea(plan), plan.start, plan.quantity), plan.data) ELSE mem
MbAnswer(mem, req, fault) ==
    LET p == req.plan
    IN [txn |-> IF fault = "badref" THEN (req.txn + 1) % TxnSpace ELSE req.txn,
        unit |-> IF fault = "badunit" THEN p.unit + 1 ELSE p.unit,
        fn |-> IF fault = "badfn" THEN 0 ELSE p.fn,
        exception |-> fault \in {"refuse", "malformed"},
        whole |-> fault \notin {"malformed", "badcount"},
        echo |-> IF MbWrites(p) THEN <<p.start, p.quantity>> ELSE <<>>,
        data |-> IF MbWrites(p) THEN <<>>
                 ELSE IF fault = "badref" THEN Elsewhere(p.quantity)
                 ELSE Load(mem, CellsAt(MbArea(p), p.start, p.quantity))]

\* What the session makes of a frame, in the order of its checks: "ok", or a code.
MbReadBody(req, frame) ==
    CASE frame.unit # req.plan.unit -> "invalid_response"
      [] frame.fn # req.plan.fn -> "invalid_response"
      [] frame.exception /\ ~frame.whole -> "invalid_response"
      [] frame.exception -> "modbus_exception"
      [] ~frame.whole \/ Len(frame.data) # req.plan.quantity -> "invalid_response"
      [] OTHER -> "ok"
\* An answer to a write repeats where it wrote, and the value or how much.
MbEchoed(req, frame) == frame.echo = <<req.plan.start, req.plan.quantity>>
MbWriteBody(req, frame) ==
    CASE frame.unit # req.plan.unit -> "invalid_response"
      [] frame.fn # req.plan.fn -> "invalid_response"
      [] frame.exception /\ ~frame.whole -> "invalid_response"
      [] frame.exception -> "modbus_exception"
      [] ~frame.whole \/ ~MbEchoed(req, frame) -> "invalid_response"
      [] OTHER -> "ok"
\* Mutant of MbTcpRead: the number is not looked at.
MbTcpReadUnnumbered(req, frame) == MbReadBody(req, frame)
\* A TCP frame must carry the number of the request; a serial one has none.
MbTcpRead(req, frame) == IF frame.txn # req.txn THEN "invalid_response" ELSE MbReadBody(req, frame)
MbTcpWrite(req, frame) == IF frame.txn # req.txn THEN "invalid_response" ELSE MbWriteBody(req, frame)
MbRtuRead(req, frame) == MbReadBody(req, frame)
MbRtuWrite(req, frame) == MbWriteBody(req, frame)
MbCheck(transport, req, frame) ==
    CASE transport = "tcp" /\ MbWrites(req.plan) -> MbTcpWrite(req, frame)
      [] transport = "tcp" -> MbTcpRead(req, frame)
      [] MbWrites(req.plan) -> MbRtuWrite(req, frame)
      [] OTHER -> MbRtuRead(req, frame)

\* An error of the transport drops the session and fails the call; any other fails
\* the items of the plan and the call goes on.
MbTransportLevel(code) ==
    code \in {"connection_lost", "connection_failed", "timeout", "invalid_response"}

\* The items of an answered read: an item whose units the data do not hold fails.
MbDecode(plan, e, data) ==
    LET at == e.off - plan.start
    IN IF MbDecodes(e.kind, e.type) /\ at + e.width <= Len(data)
       THEN Good(e.id, SubSeq(data, at + 1, at + e.width))
       ELSE Bad(e.id, "decode_error")
MbReadResults(plan, data) == {MbDecode(plan, e, data) : e \in ToSet(plan.items)}
MbWriteResults(plan) == {Good(e.id, <<>>) : e \in ToSet(plan.items)}
MbItemErrors(plan, code) == {Bad(e.id, code) : e \in ToSet(plan.items)}

\* Attempts of one connect.
MbAttempts(cfg) == IF cfg.reconnect THEN IF cfg.attempts > 1 THEN cfg.attempts ELSE 1 ELSE 1
=============================================================================
