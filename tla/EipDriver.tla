----------------------------- MODULE EipDriver ------------------------------
(***************************************************************************)
(* src/drivers/ethernet-ip and src/crates/etherip-mock: tags instead of    *)
(* addresses, several services packed into one request, and writes in two  *)
(* stages, since the type of a tag must be read before a value for it can  *)
(* be encoded.  A tag is a number (its place in the order of the names)    *)
(* and a cell.                                                             *)
(***************************************************************************)
EXTENDS DriverPlan
CONSTANTS
    EipTypes,        \* tag -> type of the tag on the device
    EipMaxServices,  \* max_services_per_multi of the configuration
    EipMaxBytes,     \* max_bytes_per_multi of the configuration
    EipCtxSpace      \* sender contexts wrap here (2^64 in the code)

-----------------------------------------------------------------------------
\* Addresses.  addr = [tag, good, path]: whether the path parses and the bytes of
\* its symbol segment.
EipParses(addr) == addr.good
EipSigned == {"sint", "int", "dint", "lint"}
EipUnsigned == {"usint", "uint", "udint", "ulint"}
\* Bytes of a scalar; 0 for the types the driver does not know.  UDINT is missing.
EipTypeWidth(type) ==
    CASE type \in {"bool", "sint", "usint"} -> 1
      [] type \in {"int", "uint"} -> 2
      [] type \in {"dint", "real"} -> 4
      [] type \in {"lint", "ulint", "lreal"} -> 8
      [] OTHER -> 0
EipIntWidth(type) ==
    CASE type \in {"i8", "u8"} -> 1 [] type \in {"i16", "u16"} -> 2
      [] type \in {"i32", "u32"} -> 4 [] OTHER -> 0
\* Whether a tag of the device's type can be read as the expected type: an integer
\* of up to four bytes as any integer of its width or as a 64-bit one.
EipDecodes(type, expected) ==
    CASE EipTypeWidth(type) = 0 -> FALSE
      [] type = "bool" -> expected \in {"none", "bool"}
      [] type = "real" -> expected \in {"none", "f32", "f64"}
      [] type = "lreal" -> expected \in {"none", "f64"}
      [] type \in {"lint", "ulint"} -> expected \in {"none", "i64", "u64"}
      [] OTHER -> expected \in {"none", "i64", "u64"} \/ EipIntWidth(expected) = EipTypeWidth(type)
\* Whether a value can be written: its kind must be the tag's and it must fit
\* ("huge" fits nothing).  For UDINT the width is not known and the encoder panics.
EipKind(type) ==
    CASE type = "bool" -> "bool" [] type \in EipSigned -> "i64"
      [] type \in EipUnsigned -> "u64" [] type \in {"real", "lreal"} -> "f64" [] OTHER -> "complex"
EipEncodes(type, value) == EipKind(type) = value
EipEncodePanics(type, value) ==
    type \in EipSigned \cup EipUnsigned /\ EipKind(type) = value /\ EipTypeWidth(type) = 0
EipCells(item) == << <<item.addr.tag>> >>
\* An item of a scalar tag whose width the driver does not know: UDINT.
EipUntyped(item) == item.addr.tag \in DOMAIN EipTypes /\ EipTypes[item.addr.tag] = "udint"
EipSound(op, item) ==
    /\ item.tag /\ EipParses(item.addr) /\ item.addr.tag \in DOMAIN EipTypes
    /\ IF op = "read" THEN EipDecodes(EipTypes[item.addr.tag], item.type) \/ EipUntyped(item)
       ELSE EipEncodes(EipTypes[item.addr.tag], item.type)

-----------------------------------------------------------------------------
\* Services are packed in order, up to the two limits; the envelope costs ten bytes
\* and every service two more for its offset.
EipJoins(chunk, e) ==
    /\ Len(chunk) + 1 <= EipMaxServices
    /\ 10 + Sum([i \in DOMAIN chunk |-> chunk[i].size + 2]) + e.size + 2 <= EipMaxBytes
EipReadSize(item) == 4 + item.addr.path
EipWriteSize(item, type) == 6 + item.addr.path + EipTypeWidth(type)
EipPlan(chunk, stage) == [stage |-> stage, write |-> stage = "write", items |-> chunk]
EipPlans(entries, stage) == PlansOf(entries, EipJoins, LAMBDA chunk : EipPlan(chunk, stage))

\* Reads go out in the order of the tags.
EipReadEntry(item) ==
    [id |-> item.id, key |-> <<item.addr.tag>>, tag |-> item.addr.tag, type |-> item.type,
     size |-> EipReadSize(item), val |-> item.val]
EipPlanReads(items) ==
    IF \E i \in items : ~EipParses(i.addr) THEN Refused("invalid_address")
    ELSE Planned(EipPlans(InOrder({EipReadEntry(i) : i \in items}), "read"), {})

\* Writes, in the order of the call: what the cache of types does not know must be
\* discovered, what it knows is encoded or fails.
EipCallOrder(items) == SortSeq(Listed(items), LAMBDA x, y : x.id < y.id)
EipUnknown(items, cache) == {i \in items : i.addr.tag \notin DOMAIN cache}
EipReady(items, cache) ==
    {i \in items \ EipUnknown(items, cache) : EipEncodes(cache[i.addr.tag], i.type)}
EipUnencodable(items, cache) ==
    {Bad(i.id, "invalid_type") : i \in items \ (EipUnknown(items, cache) \cup EipReady(items, cache))}
EipPlanDiscovery(items, cache) ==
    IF \E i \in items : ~EipParses(i.addr) THEN Refused("invalid_address")
    ELSE Planned(EipPlans(EipCallOrder({EipReadEntry(i) : i \in EipUnknown(items, cache)}), "discover"),
                 EipUnencodable(items, cache))
EipWriteEntry(item, cache) ==
    [id |-> item.id, key |-> <<item.addr.tag>>, tag |-> item.addr.tag, type |-> item.type,
     size |-> EipWriteSize(item, cache[item.addr.tag]), val |-> item.val]
EipPlanWrites(items, cache) ==
    Planned(EipPlans(EipCallOrder({EipWriteEntry(i, cache) : i \in EipReady(items, cache)}), "write"),
            EipUnencodable(items, cache))
EipPanics(items, cache) ==
    \E i \in items \ EipUnknown(items, cache) : EipEncodePanics(cache[i.addr.tag], i.type)

-----------------------------------------------------------------------------
EipReadRejected(items) == IF \E i \in items : ~i.tag THEN "invalid_type" ELSE "ok"
EipWriteRejected(items) == IF \E i \in items : ~i.tag THEN "invalid_type" ELSE "ok"
EipUnsupported == {"execute", "browse", "subscribe", "unsubscribe", "query_history"}

\* Offline: any tag that parses is taken to be writable.
EipValidate(addr) == [code |-> IF EipParses(addr) THEN "ok" ELSE "invalid_address", writable |-> addr.good]

\* Connecting: TCP, then RegisterSession.
EipHandshakeCodes == {"connection_failed", "timeout", "connection_lost", "invalid_response",
                      "unexpected_command_code"}
EipAttempts(cfg) == IF cfg.reconnect THEN IF cfg.attempts > 1 THEN cfg.attempts ELSE 1 ELSE 1
EipRequest(plan, ctx) == [txn |-> (ctx + 1) % EipCtxSpace, plan |-> plan]

\* The device (etherip-mock); "badref" answers another request, "denied" protects the first tag of the request.
EipFaults == {"options", "command", "session", "status", "badref", "rrdata", "short", "service",
              "negative", "count", "denied"}
EipDenied(plan, fault) == IF fault = "denied" /\ plan.write THEN {plan.items[1].tag} ELSE {}
EipApply(mem, plan, fault) ==
    IF ~plan.write THEN mem
    ELSE FoldLeft(LAMBDA m, e : IF e.tag \in EipDenied(plan, fault) THEN m
                                ELSE Store(m, << <<e.tag>> >>, e.val),
                  mem, plan.items)
EipSub(mem, plan, e, fault) ==
    CASE plan.write -> [status |-> IF e.tag \in EipDenied(plan, fault) THEN 15 ELSE 0,
                        type |-> "none", val |-> <<>>]
      [] e.tag \in DOMAIN EipTypes -> [status |-> 0, type |-> EipTypes[e.tag],
                                       val |-> Load(mem, << <<e.tag>> >>)]
      [] OTHER -> [status |-> 5, type |-> "none", val |-> <<>>]
EipAnswer(mem, req, fault) ==
    [flaw |-> fault,
     txn |-> IF fault = "badref" THEN (req.txn + 1) % EipCtxSpace ELSE req.txn,
     subs |-> [i \in DOMAIN req.plan.items |->
                 LET sub == EipSub(mem, req.plan, req.plan.items[i], fault)
                 IN IF fault = "badref" THEN [sub EXCEPT !.val = Elsewhere(Len(@))] ELSE sub]]

\* exchange drops the session on every error up to the context; what comes after
\* the envelope (exchange_checked, the unpacking of the services) leaves it up.
EipExchange(req, frame) ==
    CASE frame.flaw = "options" -> [code |-> "invalid_response", drop |-> TRUE]
      [] frame.flaw = "command" -> [code |-> "unexpected_command_code", drop |-> TRUE]
      [] frame.flaw = "session" -> [code |-> "invalid_response", drop |-> TRUE]
      [] frame.flaw = "status" -> [code |-> "enip_error_response", drop |-> TRUE]
      [] frame.txn # req.txn -> [code |-> "invalid_response", drop |-> TRUE]
      [] frame.flaw = "rrdata" -> [code |-> "invalid_response", drop |-> FALSE]
      [] OTHER -> [code |-> "ok", drop |-> FALSE]
EipChecked(req, frame) ==
    CASE EipExchange(req, frame).code # "ok" -> EipExchange(req, frame)
      [] frame.flaw = "short" -> [code |-> "invalid_response", drop |-> FALSE]
      [] frame.flaw = "service" -> [code |-> "unexpected_command_code", drop |-> FALSE]
      [] frame.flaw = "negative" -> [code |-> "cip_item_error", drop |-> FALSE]
      [] OTHER -> [code |-> "ok", drop |-> FALSE]
EipUnpack(frame) ==
    [code |-> IF frame.flaw = "count" THEN "invalid_response" ELSE "ok", drop |-> FALSE]
EipCheck(req, frame) ==
    IF EipChecked(req, frame).code # "ok" THEN EipChecked(req, frame) ELSE EipUnpack(frame)

\* What the items of an answered request become.
EipStatusError(status) == IF status = 15 THEN "access_denied" ELSE "cip_item_error"
EipAssemble(e, sub) ==
    CASE sub.status # 0 -> Bad(e.id, EipStatusError(sub.status))
      [] ~EipDecodes(sub.type, e.type) -> Bad(e.id, "invalid_type")
      [] OTHER -> Good(e.id, sub.val)
EipReadResults(plan, frame) == {EipAssemble(plan.items[i], frame.subs[i]) : i \in DOMAIN plan.items}
\* An item the discovery has failed keeps that entry, although another item of the
\* tag may have found the type and both are written.
EipWriteResults(plan, frame, settled) ==
    {LET e == plan.items[i] sub == frame.subs[i]
     IN IF sub.status = 0 THEN Good(e.id, <<>>) ELSE Bad(e.id, EipStatusError(sub.status)) :
        i \in {j \in DOMAIN plan.items : plan.items[j].id \notin settled}}
\* A discovery teaches the cache the types of the tags found and fails the others.
EipLearn(cache, plan, frame) ==
    LET found == {i \in DOMAIN plan.items : frame.subs[i].status = 0}
        tags == {plan.items[i].tag : i \in found}
    IN [t \in DOMAIN cache \cup tags |->
            IF t \in tags THEN frame.subs[CHOOSE i \in found : plan.items[i].tag = t].type
            ELSE cache[t]]
EipNotFound(plan, frame) ==
    {Bad(plan.items[i].id, EipStatusError(frame.subs[i].status)) :
        i \in {j \in DOMAIN plan.items : frame.subs[j].status # 0}}
\* A failed discovery fails its items and the call goes on.
EipUndiscovered(plan) == {Bad(e.id, "decode_error") : e \in ToSet(plan.items)}
=============================================================================
