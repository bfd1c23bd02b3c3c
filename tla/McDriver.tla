------------------------------ MODULE McDriver ------------------------------
(***************************************************************************)
(* src/drivers/mitsubishi-mc and src/crates/mc-mock: the 3E frame, which   *)
(* carries no number of the request, so that an answer belongs to a        *)
(* request only by its place in the stream.  Cells are points: a bit or a  *)
(* word of a device.                                                       *)
(***************************************************************************)
EXTENDS DriverPlan
CONSTANTS
    McLimit,      \* points a request may carry: [word, bit]
    McMergeGap,   \* max_merge_gap_points of the configuration
    McMaxItems    \* MAX_ITEMS_PER_PLAN (960 in the code)

-----------------------------------------------------------------------------
\* Addresses.  addr = [dev, num].
McBitDevices == <<"x", "y", "m", "b", "s", "sm">>
McWordDevices == <<"d", "w", "r", "zr", "sd">>
McDevices == McBitDevices \o McWordDevices
McBits(dev) == dev \in ToSet(McBitDevices)
McParses(addr) == addr.dev \in ToSet(McDevices) /\ addr.num <= 16777215
McWritable(dev) == dev \notin {"x", "sm"}
\* Points of a value read as a type; 0: no word device holds the type.
McWordLayout(type) ==
    CASE type \in {"none", "u8", "i8", "u16", "i16"} -> 1
      [] type \in {"u32", "i32", "f32"} -> 2
      [] type \in {"u64", "i64", "f64"} -> 4
      [] OTHER -> 0
McWidth(dev, type) == IF McBits(dev) \/ McWordLayout(type) = 0 THEN 1 ELSE McWordLayout(type)
McDecodes(dev, type) ==
    IF McBits(dev) THEN type \in {"none", "bool"} ELSE McWordLayout(type) # 0
\* Words take integers and reals, in as few points as hold the value; the system
\* registers SD take nothing although they are writable.
McEncodes(dev, type) ==
    IF McBits(dev) THEN type = "bool"
    ELSE dev \in {"d", "w", "r", "zr"} /\ type \in {"int", "real"}
McPoints(item) == IF item.val = <<>> THEN McWidth(item.addr.dev, item.type) ELSE Len(item.val)
McCells(item) == CellsAt(<<item.addr.dev>>, item.addr.num, McPoints(item))
McSound(op, item) ==
    /\ item.tag /\ McParses(item.addr)
    /\ IF op = "read" THEN McDecodes(item.addr.dev, item.type)
       ELSE McWritable(item.addr.dev) /\ McEncodes(item.addr.dev, item.type)

-----------------------------------------------------------------------------
\* Reads: one device at a time, in address order; an item joins the request before
\* it when the hole between them is small and the span stays below the limit.
McUnitLimit(dev) == IF McBits(dev) THEN McLimit.bit ELSE McLimit.word
McEntry(item) ==
    [id |-> item.id, dev |-> item.addr.dev, at |-> item.addr.num, type |-> item.type,
     width |-> McPoints(item), val |-> item.val,
     key |-> <<SelectInSeq(McDevices, LAMBDA d : d = item.addr.dev), item.addr.num>>]
McEnd(chunk) == Max({e.at + e.width : e \in ToSet(chunk)})
McReadJoins(chunk, e) ==
    /\ chunk[1].dev = e.dev
    /\ e.at <= McEnd(chunk) + McMergeGap
    /\ e.at + e.width - chunk[1].at <= McUnitLimit(e.dev)
    /\ Len(chunk) + 1 <= McMaxItems
McReadPlan(chunk) ==
    [write |-> FALSE, dev |-> chunk[1].dev, start |-> chunk[1].at,
     points |-> McEnd(chunk) - chunk[1].at, items |-> chunk, val |-> <<>>]
\* An item whose bit is not the one that is taken from the answer (McAssemble).
McMisplaced(plan, e) == McBits(plan.dev) /\ (e.at - plan.start) % 8 # 0
McPlanReads(items) ==
    IF \E i \in items : ~McParses(i.addr) THEN Refused("invalid_address")
    ELSE Planned(PlansOf(InOrder({McEntry(i) : i \in items}), McReadJoins, McReadPlan), {})

\* Writes: only what exactly follows its predecessor joins it.
McWriteJoins(chunk, e) ==
    /\ chunk[1].dev = e.dev
    /\ Last(chunk).at + Last(chunk).width = e.at
    /\ e.at + e.width - chunk[1].at <= McUnitLimit(e.dev)
    /\ Len(chunk) + 1 <= McMaxItems
McWritePlan(chunk) ==
    LET val == FlattenSeq([i \in DOMAIN chunk |-> chunk[i].val])
    IN [write |-> TRUE, dev |-> chunk[1].dev, start |-> chunk[1].at,
        points |-> Len(val), items |-> chunk, val |-> val]
McPlanWrites(items) ==
    LET Fits(i) == McWritable(i.addr.dev) /\ McEncodes(i.addr.dev, i.type)
        entries == {McEntry(i) : i \in {j \in items : Fits(j)}}
    IN IF \E i \in items : ~McParses(i.addr) THEN Refused("invalid_address")
       ELSE Planned(PlansOf(InOrder(entries), McWriteJoins, McWritePlan),
                    {Bad(i.id, IF McWritable(i.addr.dev) THEN "invalid_type" ELSE "invalid_address") :
                        i \in {j \in items : ~Fits(j)}})

-----------------------------------------------------------------------------
\* The ABI entries: a type tag that cannot be decoded refuses the whole call.
McReadRejected(items) == IF \E i \in items : ~i.tag THEN "invalid_type" ELSE "ok"
McWriteRejected(items) == IF \E i \in items : ~i.tag THEN "invalid_type" ELSE "ok"
McUnsupported == {"execute", "browse", "subscribe", "unsubscribe", "query_history"}
McValidate(addr) ==
    IF McParses(addr) THEN [code |-> "ok", writable |-> McWritable(addr.dev)]
    ELSE [code |-> "invalid_address", writable |-> FALSE]
McAttempts == 3    \* whatever the configuration says of reconnecting

\* The device (mc-mock).  end is the end code of the answer (0: success).
McFaults == {"subheader", "routing", "length", "refuse"}
McPlanCells(plan) == CellsAt(<<plan.dev>>, plan.start, plan.points)
McApply(mem, plan) == IF plan.write THEN Store(mem, McPlanCells(plan), plan.val) ELSE mem
McAnswer(mem, req, fault) ==
    [flaw |-> fault, end |-> IF fault = "refuse" THEN 1 ELSE 0,
     data |-> IF req.plan.write \/ fault = "refuse" THEN <<>> ELSE Load(mem, McPlanCells(req.plan))]

\* transact: the two checks of parse_response_head leave the session up, the check
\* of the length drops it.
McHead(frame) == CASE frame.flaw = "subheader" -> "unexpected_subheader"
                   [] frame.flaw = "routing" -> "invalid_response"
                   [] OTHER -> "ok"
McExpected(plan) == IF plan.write THEN 0 ELSE plan.points
McCheck(req, frame) ==
    LET declared == Len(frame.data) + (IF frame.flaw = "length" THEN 1 ELSE 0)
    IN CASE McHead(frame) # "ok" -> [code |-> McHead(frame), drop |-> FALSE]
         [] declared # McExpected(req.plan) /\ ~(frame.end # 0 /\ declared = 0)
                -> [code |-> "invalid_response", drop |-> TRUE]
         [] OTHER -> [code |-> "ok", drop |-> FALSE]

\* A bit is taken from the lowest bit of the byte that holds it: its own value only
\* when its distance from the start of the request is a multiple of eight.
McAssemble(plan, e, data) ==
    LET off == e.at - plan.start
        from == IF McBits(plan.dev) THEN (off \div 8) * 8 ELSE off
    IN CASE from + e.width > Len(data) -> Bad(e.id, "invalid_response")
         [] ~McDecodes(plan.dev, e.type) -> Bad(e.id, "invalid_type")
         [] OTHER -> Good(e.id, SubSeq(data, from + 1, from + e.width))
McResults(plan, frame) ==
    {CASE frame.end # 0 -> Bad(e.id, "mc_error_response")
       [] plan.write -> Good(e.id, <<>>)
       [] OTHER -> McAssemble(plan, e, frame.data) : e \in ToSet(plan.items)}
=============================================================================
