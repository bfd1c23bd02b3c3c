------------------------------ MODULE S7Driver ------------------------------
(***************************************************************************)
(* src/drivers/s7comm and src/crates/s7comm-mock: addresses, planning, the *)
(* exchange of one job and its acknowledgement, and the device.  Cells are *)
(* bytes; a bit is a cell of its own (no batch of an instance reads a byte *)
(* together with its bits).                                                *)
(***************************************************************************)
EXTENDS DriverPlan
CONSTANTS
    S7Pdu,        \* the PDU size in bytes that the device offers
    S7MaxItems,   \* max_items_per_pdu of the configuration
    S7RefSpace    \* pdu_ref wraps here (2^16 in the code)

-----------------------------------------------------------------------------
\* Addresses.  addr = [area, db, syntax, byte, bit]; area "" is the empty text, on
\* which the parser panics (it splits off the first character unconditionally).
S7Areas == <<"i", "q", "m", "db">>
S7Syntaxes == <<"bit", "byte", "word", "dword">>
S7Parses(addr) ==
    /\ addr.area \in ToSet(S7Areas) /\ addr.syntax \in ToSet(S7Syntaxes)
    /\ addr.area = "db" => addr.db \in 1..65535
    /\ addr.syntax = "bit" => addr.bit \in 0..7
    /\ addr.byte <= 2097151
S7ParsePanics(addr) == addr.area = ""
S7Writable(addr) == addr.area # "i"
S7WidthBytes(syntax) == [bit |-> 1, byte |-> 1, word |-> 2, dword |-> 4][syntax]

\* What a syntax can be read as, and which values can be written to it; "huge" is
\* an integer the syntax cannot hold.
S7Decodes(syntax, type) ==
    type \in {"none"} \cup
        [bit |-> {"bool"}, byte |-> {"u8", "i8", "u64", "i64"},
         word |-> {"u16", "i16", "u64", "i64"},
         dword |-> {"u32", "i32", "u64", "i64", "f32", "f64"}][syntax]
S7Encodes(syntax, type) ==
    CASE syntax = "bit" -> type = "bool"
      [] syntax \in {"byte", "word"} -> type = "int"
      [] OTHER -> type \in {"int", "real"}

S7Bit(addr) == addr.syntax = "bit"
S7Area(addr) == IF addr.area = "db" THEN <<addr.area, addr.db, S7Bit(addr)>> ELSE <<addr.area, 0, S7Bit(addr)>>
S7Key(addr) == addr.byte * 8 + (IF S7Bit(addr) THEN addr.bit ELSE 0)
S7Cells(item) ==
    IF S7Bit(item.addr) THEN CellsAt(S7Area(item.addr), S7Key(item.addr), 1)
    ELSE CellsAt(S7Area(item.addr), item.addr.byte, S7WidthBytes(item.addr.syntax))
S7Sound(op, item) ==
    /\ item.tag /\ S7Parses(item.addr)
    /\ IF op = "read" THEN S7Decodes(item.addr.syntax, item.type)
       ELSE S7Writable(item.addr) /\ S7Encodes(item.addr.syntax, item.type)

-----------------------------------------------------------------------------
\* Reads: grouped by area, block and class (bit or byte).  Bits share a request
\* when their numbers follow each other; bytes share it whatever lies between, as
\* far as the answer fits the PDU.
S7AreaRank(addr) == SelectInSeq(S7Areas, LAMBDA x : x = addr.area)
S7Entry(item) ==
    LET a == item.addr
    IN [id |-> item.id, type |-> item.type, val |-> item.val, syntax |-> a.syntax,
        area |-> S7Area(a), at |-> S7Key(a),
        key |-> <<S7AreaRank(a), S7Area(a)[2], IF S7Bit(a) THEN 1 ELSE 0, S7Key(a)>>]
S7End(e) == e.at \div 8 + S7WidthBytes(e.syntax)
\* The agreed PDU: 0 when the device offers less than a read needs.
S7Negotiated(offered) == IF offered < 64 THEN 0 ELSE IF offered < 500 THEN offered ELSE 500
S7ReadBudget(count) == LET b == S7Negotiated(S7Pdu) - (10 + 4 + 4 * count + 16) IN IF b < 0 THEN 0 ELSE b
S7ReadJoins(chunk, e) ==
    LET count == Len(chunk) + 1
        span == S7End(e) - chunk[1].at \div 8
    IN /\ Last(chunk).area = e.area
       /\ e.syntax = "bit" => Last(chunk).at + 1 = e.at
       /\ span + 4 * count <= S7ReadBudget(count)
       /\ count <= S7MaxItems
\* The request of a chunk: one bit, or so many units of the FIRST item's width as
\* fit the span of the chunk.
S7ReadPlan(chunk) ==
    LET start == chunk[1].at \div 8
        span == Max({S7End(e) : e \in ToSet(chunk)}) - start
        unit == S7WidthBytes(chunk[1].syntax)
    IN [write |-> FALSE, area |-> chunk[1].area, items |-> chunk, val |-> <<>>,
        cells |-> IF chunk[1].syntax = "bit" THEN CellsAt(chunk[1].area, chunk[1].at, 1)
                  ELSE CellsAt(chunk[1].area, start, (span \div unit) * unit)]
\* An item at the wrong place of the answer: every bit but the first of a request.
\* An item the answer has not: one in the rest of the span that is no whole unit.
S7Misplaced(plan, e) == e.syntax = "bit" /\ e # plan.items[1]
S7Cut(plan, e) ==
    LET end == Max({S7End(x) : x \in ToSet(plan.items)})
    IN S7End(e) > end - ((end - (plan.items[1].at \div 8)) % S7WidthBytes(plan.items[1].syntax))
S7PlanReads(items) ==
    IF \E i \in items : ~S7Parses(i.addr) THEN Refused("invalid_address")
    ELSE Planned(PlansOf(InOrder({S7Entry(i) : i \in items}), S7ReadJoins, S7ReadPlan), {})

\* Writes: grouped by area, block and syntax; a bit is always alone, the others
\* join what they exactly follow.
S7WriteBudget(count) == LET b == S7Negotiated(S7Pdu) - (10 + 2 + 12 * count + 16) IN IF b < 0 THEN 0 ELSE b
S7WriteEntry(item) ==
    LET e == S7Entry(item)
    IN [e EXCEPT !.key = <<e.key[1], e.key[2],
                           SelectInSeq(S7Syntaxes, LAMBDA x : x = e.syntax), e.at \div 8>>]
S7WriteJoins(chunk, e) ==
    LET count == Len(chunk) + 1
        bytes == count * S7WidthBytes(e.syntax)
    IN /\ e.syntax # "bit" /\ Last(chunk).syntax = e.syntax /\ Last(chunk).area = e.area
       /\ S7End(Last(chunk)) = e.at \div 8
       /\ bytes + 4 * count <= S7WriteBudget(count)
       /\ count <= S7MaxItems
S7WritePlan(chunk) ==
    LET val == FlattenSeq([i \in DOMAIN chunk |-> chunk[i].val])
        start == IF chunk[1].syntax = "bit" THEN chunk[1].at ELSE chunk[1].at \div 8
    IN [write |-> TRUE, area |-> chunk[1].area, items |-> chunk, val |-> val,
        cells |-> CellsAt(chunk[1].area, start, Len(val))]
S7PlanWrites(items) ==
    LET Fits(i) == S7Writable(i.addr) /\ S7Encodes(i.addr.syntax, i.type)
        entries == {S7WriteEntry(i) : i \in {j \in items : Fits(j)}}
    IN IF \E i \in items : ~S7Parses(i.addr) THEN Refused("invalid_address")
       ELSE Planned(PlansOf(InOrder(entries), S7WriteJoins, S7WritePlan),
                    {Bad(i.id, IF S7Writable(i.addr) THEN "invalid_type" ELSE "invalid_address") :
                        i \in {j \in items : ~Fits(j)}})

-----------------------------------------------------------------------------
S7ReadRejected(items) == IF \E i \in items : ~i.tag THEN "invalid_type" ELSE "ok"
S7WriteRejected(items) == IF \E i \in items : ~i.tag THEN "invalid_type" ELSE "ok"
S7Unsupported == {"execute", "browse", "subscribe", "unsubscribe", "query_history"}

S7Validate(addr) ==
    IF S7Parses(addr) THEN [code |-> "ok", writable |-> S7Writable(addr)]
    ELSE [code |-> "invalid_address", writable |-> FALSE]

\* Connecting: TCP, the COTP handshake, Setup Communication.  An answer to Setup
\* that offers a PDU below the usable minimum refuses the connection.
S7HandshakeCodes == {"connection_failed", "timeout", "connection_lost", "invalid_response",
                     "unexpected_function_code", "s7_error_response"}
S7Attempts(cfg) == IF cfg.reconnect THEN IF cfg.attempts > 1 THEN cfg.attempts ELSE 1 ELSE 1

S7Request(plan, ref) == [txn |-> (ref + 1) % S7RefSpace, plan |-> plan]

\* The device (s7comm-mock); "badref" answers another request.  flaw names the part of the answer that is malformed,
\* rc the item's return code (255: success).
S7Faults == {"tpkt", "cotp", "cc", "rosctr", "negative", "badref", "function", "count", "denied", "object"}
S7Apply(mem, plan) == IF plan.write THEN Store(mem, plan.cells, plan.val) ELSE mem
S7Answer(mem, req, fault) ==
    [flaw |-> fault,
     txn |-> IF fault = "badref" THEN (req.txn + 1) % S7RefSpace ELSE req.txn,
     rc |-> CASE fault = "denied" -> 7 [] fault = "object" -> 10 [] OTHER -> 255,
     data |-> IF req.plan.write THEN <<>>
              ELSE IF fault = "badref" THEN Elsewhere(Len(req.plan.cells)) ELSE Load(mem, req.plan.cells)]

\* What exchange and the two response parsers make of it: the code, whether the
\* session is dropped.  Every failure ends the call.
S7TransportLevel(code) == code \in {"connection_lost", "connection_failed", "timeout",
                                    "invalid_response", "unexpected_function_code"}
S7Frame(frame) ==
    CASE frame.flaw = "tpkt" -> [code |-> "invalid_response", drop |-> TRUE]
      [] frame.flaw = "cotp" -> [code |-> "invalid_response", drop |-> FALSE]
      [] frame.flaw = "cc" -> [code |-> "invalid_response", drop |-> TRUE]
      [] OTHER -> [code |-> "ok", drop |-> FALSE]
S7Ack(req, frame) ==
    LET code == CASE frame.flaw = "rosctr" -> "unexpected_function_code"
                  [] frame.flaw = "negative" -> "s7_error_response"
                  [] frame.txn # req.txn -> "invalid_response"
                  [] OTHER -> "ok"
    IN [code |-> code, drop |-> S7TransportLevel(code)]
S7Body(frame) ==
    [code |-> CASE frame.flaw = "function" -> "unexpected_function_code"
                [] frame.flaw = "count" -> "invalid_response"
                [] OTHER -> "ok",
     drop |-> FALSE]
S7Check(req, frame) ==
    CASE S7Frame(frame).code # "ok" -> S7Frame(frame)
      [] S7Ack(req, frame).code # "ok" -> S7Ack(req, frame)
      [] OTHER -> S7Body(frame)

\* The items of an answered plan share its return code; an item beyond the data fails.
S7ItemError(rc) == IF rc = 7 THEN "access_denied" ELSE "s7_item_error"
S7Assemble(plan, e, frame) ==
    LET off == (e.at - plan.items[1].at) \div 8
        width == S7WidthBytes(e.syntax)
    IN CASE frame.rc # 255 -> Bad(e.id, S7ItemError(frame.rc))
         [] off + width > Len(frame.data) -> Bad(e.id, "invalid_response")
         [] ~S7Decodes(e.syntax, e.type) -> Bad(e.id, "decode_error")
         [] OTHER -> Good(e.id, SubSeq(frame.data, off + 1, off + width))
S7Results(plan, frame) ==
    {IF plan.write
     THEN IF frame.rc = 255 THEN Good(e.id, <<>>) ELSE Bad(e.id, S7ItemError(frame.rc))
     ELSE S7Assemble(plan, e, frame) : e \in ToSet(plan.items)}
=============================================================================
