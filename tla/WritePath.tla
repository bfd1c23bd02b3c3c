------------------------------ MODULE WritePath ------------------------------
(***************************************************************************)
(* A value on its way through the system: the collector starts, a control  *)
(* request is parsed, checked and converted, the loader and the driver put *)
(* it into the device, and the next poll reads it back.  Composes          *)
(* CollectorStart with ControlChecks (profile-engine, control-engine) and  *)
(* ValueWire (driver-loader, driver-abi, the drivers' value encodings).    *)
(*                                                                         *)
(* The first device's profile has the property "p", which varies, and the  *)
(* F32 property "q"; the device keeps both in tags of the profile's raw    *)
(* types, or "p" alone in Modbus registers.                                *)
(***************************************************************************)
EXTENDS CollectorStart, ControlChecks, ValueWire

CONSTANTS
  Configs,                \* configurations the collector is started with
  RequestsFor(_),         \* control requests a client may send, per profile
  ContentsFor(_),         \* what the device itself may put into a tag of a type
  DevicesFor(_)           \* [kind |-> "tags" | "registers", order |-> word order]

VARIABLES
  device,       \* how the device stores "p"
  tag,          \* content of the tags of p and q: [p, q]
  words,        \* the Modbus registers from p's address on
  request,      \* the request submitted, or NoRequest
  op,           \* what the checks answered: Ok(operation) or Err(code)
  result,       \* what delivery did: "none" | "written" | an error code
  obs           \* the last observations of p and q, and the content p's poll saw

pathVars == <<device, tag, words, request, op, result, obs>>
vars == <<startVars, pathVars>>

NoRequest == [kind |-> "none", command |-> "", items |-> <<>>]
NoObs == [p |-> [level |-> "none", reason |-> "None", value |-> None],
          q |-> [level |-> "none", reason |-> "None", value |-> None],
          seen |-> <<>>]

D == config.devices[1]
Profile == ProfileOf(D.profile)
P == Profile.properties[1]
Q == Profile.properties[2]

Init ==
  /\ StartInit(Configs)
  /\ device \in DevicesFor(config)
  /\ tag = [p |-> 0, q |-> 0]
  /\ words = <<1, 0, 0, 1>>
  /\ request = NoRequest /\ op = Err("none") /\ result = "none"
  /\ obs = NoObs

\* Bound: a behaviour has one request or one change of the device by itself
Fresh == stage = "running" /\ request = NoRequest /\ tag = [p |-> 0, q |-> 0] /\ obs = NoObs

\* The values of a request, parsed; null anywhere refuses the request
Parsed(items) ==
  LET v == [i \in DOMAIN items |-> json_to_value(items[i].json)]
  IN IF \A i \in DOMAIN items : v[i].ok
       THEN Ok([i \in DOMAIN items |-> [path |-> items[i].name, name |-> items[i].name, value |-> v[i].v]])
       ELSE Err("BadRequest")

\* A submission, where control is served: parse, look the device up, check and
\* convert; the first error is the answer
Submit(r) ==
  /\ Fresh /\ "control" \in up
  /\ request' = r
  /\ op' = LET items == Parsed(r.items)
           IN IF ~items.ok THEN items
              ELSE IF ~D.enabled THEN Err("DEVICE_DISABLED")
              ELSE IF r.kind = "write" THEN validate_property_write(Profile, items.v)
              ELSE validate_command(Profile, r.command, items.v)
  /\ UNCHANGED <<startVars, device, tag, words, result, obs>>

\* The bytes the plugin gets for an item, and the raw value it makes of them
Received(item) ==
  LET t == tag_for_value(item.value)
      bytes == encode_value_bytes(t.v, item.value)
  IN IF ~t.ok THEN t ELSE IF ~bytes.ok THEN Err("driver_encoding_error")
     ELSE decode_value_bytes(t.v, bytes.v)

\* The driver of the device can make something of the address
Known(address) == address \in LibOf(D.driver).grammar

TypeAt(address) == IF address = P.driver_address THEN P.raw_type ELSE Q.raw_type

\* An accepted write reaches the device.  The loader encodes all items before
\* it calls the plugin; an address the driver cannot parse and a panic of its
\* encoder fail the call before anything is written, and otherwise each item
\* succeeds or fails by itself.
DeliverTags ==
  /\ op.ok /\ result = "none" /\ device.kind = "tags"
  /\ op.v.kind = "write"
  /\ LET Sent == [i \in DOMAIN op.v.items |-> Received(op.v.items[i])]
         Stored == [i \in DOMAIN op.v.items |-> eip_encode_write(TypeAt(op.v.items[i].address), Sent[i].v)]
         Fails(code) == tag' = tag /\ result' = code
         TagAfter(address, old) ==
           LET hits == {i \in DOMAIN op.v.items : op.v.items[i].address = address /\ Stored[i].ok}
           IN IF hits = {} THEN old ELSE Stored[CHOOSE i \in hits : \A j \in hits : j <= i].v
     IN IF \E i \in DOMAIN Sent : ~Sent[i].ok THEN Fails("driver_encoding_error")
        ELSE IF \E i \in DOMAIN Sent : ~Known(op.v.items[i].address) THEN Fails("invalid_address")
        ELSE IF \E i \in DOMAIN Sent : Stored[i] = Err("DRIVER_PANIC") THEN Fails("DRIVER_PANIC")
        ELSE /\ tag' = [p |-> TagAfter(P.driver_address, tag.p), q |-> TagAfter(Q.driver_address, tag.q)]
             /\ result' = IF \A i \in DOMAIN Stored : Stored[i].ok THEN "written" ELSE "invalid_type"
  /\ UNCHANGED <<startVars, device, words, request, op, obs>>

\* The same for an item in Modbus registers: as many registers are written as
\* the encoding has words, from the property's address on
DeliverRegisters ==
  /\ op.ok /\ result = "none" /\ device.kind = "registers"
  /\ op.v.kind = "write"
  /\ LET item == op.v.items[1]
         sent == Received(item)
         data == encode_register_data(item.value.t, sent.v, device.order)
     IN IF ~sent.ok THEN words' = words /\ result' = "driver_encoding_error"
        ELSE IF ~Known(item.address) THEN words' = words /\ result' = "invalid_address"
        ELSE IF ~data.ok THEN words' = words /\ result' = data.code
        ELSE /\ words' = [i \in DOMAIN words |-> IF i \in DOMAIN data.v THEN data.v[i] ELSE words[i]]
             /\ result' = "written"
  /\ UNCHANGED <<startVars, device, tag, request, op, obs>>

\* An accepted command goes to the plugin as JSON; these drivers offer none
DeliverCommand ==
  /\ op.ok /\ result = "none" /\ op.v.kind = "execute"
  /\ result' = "unsupported"
  /\ UNCHANGED <<startVars, device, tag, words, request, op, obs>>

\* The device changes a tag by itself
Drift ==
  /\ Fresh /\ device.kind = "tags"
  /\ \E cp \in ContentsFor(P.raw_type), cq \in {0, NaN} :
       (cq = 0 \/ cp = 0) /\ tag' = [p |-> cp, q |-> cq]
  /\ UNCHANGED <<startVars, device, words, request, op, result, obs>>

\* What the driver reads for an item: tags or registers of its type
RawAt(item, garbled) ==
  IF ~Known(item.address) THEN Err("invalid_address")
  ELSE IF item.address = P.driver_address
    THEN IF device.kind = "tags" THEN eip_decode_read(P.raw_type, item.expected_type, tag.p)
         ELSE decode_register_value(item.expected_type, words, device.order, garbled)
    ELSE eip_decode_read(Q.raw_type, item.expected_type, tag.q)

\* A poll task reads its items in one call; a result belongs to the property its
\* item_id stands for.  An answer that cannot be decoded fails the whole call.
Poll(task, garbled) ==
  /\ stage = "running" /\ (request = NoRequest \/ result = "written")
  /\ task.device = D.id
  /\ LET raw == [k \in DOMAIN task.items |-> RawAt(task.items[k], garbled)]
         good == SelectSeq(raw, LAMBDA r : r.ok)
         readable == EnvelopeReadable([k \in DOMAIN good |-> good[k].v])
         Read(k) == IF raw[k].ok /\ readable THEN [kind |-> "value", raw |-> raw[k].v]
                    ELSE [kind |-> "error"]
         PropertyOf(k) == devices[D.id].items[task.items[k].item_id].property
         Got(path, old) ==
           LET hits == {k \in DOMAIN task.items : PropertyOf(k).path = path}
           IN IF hits = {} THEN old
              ELSE LET k == CHOOSE k \in hits : TRUE IN decode_read(PropertyOf(k), Read(k))
         sawP == \E k \in DOMAIN task.items : PropertyOf(k).path = "p"
     IN obs' = [p |-> Got("p", obs.p), q |-> Got("q", obs.q),
                seen |-> IF sawP THEN <<tag, words>> ELSE obs.seen]
  /\ UNCHANGED <<startVars, device, tag, words, request, op, result>>

Next ==
  \/ Start /\ UNCHANGED pathVars
  \/ stage = "running" /\ \E r \in RequestsFor(config) : Submit(r)
  \/ DeliverTags
  \/ DeliverRegisters
  \/ DeliverCommand
  \/ Drift
  \/ \E task \in polls, garbled \in {Unit, NaN} : Poll(task, garbled)

Spec == Init /\ [][Next]_vars

-----------------------------------------------------------------------------
(* The exact number a JSON literal stands for, in units.                   *)
Exact(json) == IF json.j = "int" THEN json.n * Unit ELSE json.n
\* An integer literal beyond 64 bits is already rounded by the JSON parser
IsNumber(json) ==
  json.j = "float" \/ (json.j = "int" /\ json.n \in IntRange("I64") \cup IntRange("U64"))

\* The write of one number to p, accepted
AcceptedNumber ==
  /\ op.ok /\ request.kind = "write" /\ Len(request.items) = 1
  /\ IsNumber(request.items[1].json) /\ P.value_type \in NumericTypes

Written == Exact(request.items[1].json)
RawOf == op.v.items[1].value
RawExact == IF RawOf.t = "F64" THEN RawOf.n ELSE RawOf.n * Unit

\* Whole numbers small enough for every step of the f64 computation
InWindow(x) ==
  /\ IsWhole(x) /\ IsWhole(P.offset) /\ IsWhole(P.scale)
  /\ Abs(x - P.offset) < Pow2(P64 - 1) * Unit
  /\ Abs(P.scale) < 8 * Unit

\* The lowest and the highest value p's profile allows, exactly
BoundExact(b) == IF b.t \in IntegerTypes THEN b.n * Unit ELSE b.n

(* What the checks accept is something the driver can encode: a write that *)
(* was answered as accepted is never refused on the way to a device whose  *)
(* tags have the profile's types (encode_write against tag.rs and the      *)
(* EtherNet/IP encoding, each with its own range rules), nor for its       *)
(* address, which preflight has asked the driver about.  Excepted is the   *)
(* raw type U32: the driver does not know the width of a UDINT and panics  *)
(* (type_width of cip.rs; README, Findings).                               *)
AcceptedIsDeliverable ==
  (op.ok /\ op.v.kind = "write" /\ device.kind = "tags" /\ LibOf(D.driver).probes
     /\ \A i \in DOMAIN Profile.properties :
          Profile.properties[i].raw_type \in (NumericTypes \ {"U32"}) \cup {"Bool"})
    => result \in {"none", "written"}

(* Does not hold (README, Findings): no accepted write makes the driver    *)
(* panic.                                                                  *)
NeverPanics == result # "DRIVER_PANIC"

(* 64-bit integers: without scaling, an accepted integer reaches the       *)
(* register as the very same integer and satisfies the bounds as written   *)
(* in the profile, also where f64 cannot tell it from its neighbour.       *)
IdentityIsExact ==
  (AcceptedNumber /\ Identity(P) /\ request.items[1].json.j = "int")
    => /\ RawExact = Written
       /\ P.min = None \/ BoundExact(P.min) <= Written
       /\ P.max = None \/ Written <= BoundExact(P.max)

(* Scaling: the raw integer stands for the value written, exactly under    *)
(* Exact, to the declared side under Floor, Ceil and Truncate and to the   *)
(* nearest step under Nearest.                                             *)
WriteIsClose ==
  (AcceptedNumber /\ InWindow(Written) /\ P.raw_type \in IntegerTypes)
    => LET err == RawOf.n * P.scale + P.offset - Written   \* in units
           high == IF P.scale > 0 THEN err ELSE -err          \* raw too high
           toZero == IF RawOf.n >= 0 THEN high <= 0 ELSE high >= 0
       IN CASE P.write_rounding = "Exact" -> err = 0
            [] P.write_rounding = "Nearest" -> 2 * Abs(err) <= Abs(P.scale)
            [] P.write_rounding = "Floor" -> high <= 0 /\ Abs(err) < Abs(P.scale)
            [] P.write_rounding = "Ceil" -> high >= 0 /\ Abs(err) < Abs(P.scale)
            [] P.write_rounding = "Truncate" ->
                 Abs(err) < Abs(P.scale) /\ (RawOf.n = 0 \/ toZero)

(* The observation after a write shows the value written or Bad, never     *)
(* another value: from the JSON number through encode_write, the loader,   *)
(* the plugin ABI and the device back through decode_read.  In Modbus      *)
(* registers only where the value needs as many registers as its type, in  *)
(* a float only unscaled and under Exact: otherwise it has roundings of    *)
(* its own.                                                                *)
ReadBack ==
  (/\ AcceptedNumber /\ result = "written"
   /\ device.kind = "tags" \/ register_width(P.raw_type) = Len(encode_register_data(RawOf.t, RawOf, device.order).v)
   /\ obs.seen = <<tag, words>> /\ obs.p.level = "Good"
   /\ P.raw_type \in IntegerTypes \/ (Identity(P) /\ P.write_rounding = "Exact")
   /\ \/ Identity(P) /\ IsWhole(Written)
      \/ P.write_rounding = "Exact" /\ InWindow(Written))
    => LET v == obs.p.value
       IN IF v.t \in IntegerTypes THEN v.n * Unit = Written
          ELSE v.t = "F64" => v.n = Written

(* A Good observation is the transform of what the device holds: exactly   *)
(* for unscaled integers of every width, to half a unit for an integer     *)
(* property, and never from a value that is not a number.                  *)
GoodIsRight ==
  (obs.p.level = "Good" /\ device.kind = "tags" /\ P.raw_type \in NumericTypes)
    => LET v == obs.p.value
           content == obs.seen[1].p
           raw == IF P.raw_type \in IntegerTypes THEN content * Unit ELSE content
           x == (raw * P.scale) \div Unit + P.offset
       IN /\ is_finite(raw)
          /\ v.t = P.value_type
          /\ v.t \in IntegerTypes => v.n \in IntRange(v.t)
          /\ Identity(P) /\ v.t \in IntegerTypes /\ P.raw_type \in IntegerTypes => v.n = content
          /\ InWindow(raw) /\ Abs(x) < Pow2(P64) * Unit /\ v.t \in IntegerTypes => v.n * Unit = x
          /\ InWindow(raw) /\ Abs(x) < Pow2(P64) * Unit /\ v.t = "F64" => v.n = x

(* A command's number reaches the driver as the number the client sent,    *)
(* whole and in range for an integer parameter and inside the declared     *)
(* bounds; a bound beyond 2^P64 is only compared as f64.                   *)
ParamExact ==
  \A i \in DOMAIN request.items :
    (op.ok /\ op.v.kind = "execute" /\ IsNumber(request.items[i].json) /\ request.command = "set")
      => LET d == Profile.commands[1].parameters[1]
             x == Exact(request.items[i].json)
         IN /\ Exact(op.v.payload[i].json) = x
            /\ d.data_type.t \in IntegerTypes => IsWhole(x) /\ Whole(x) \in IntRange(d.data_type.t)
            /\ (Abs(x) < Pow2(P64) * Unit /\ d.min # None) => BoundExact(d.min) <= x
            /\ (Abs(x) < Pow2(P64) * Unit /\ d.max # None) => x <= BoundExact(d.max)

(* What leaves for the driver stands for what the client asked, in the      *)
(* register of a property and in the parameter of a command.                *)
WriteIsRight == IdentityIsExact /\ WriteIsClose /\ ParamExact

(* What is observed is what the device holds, whoever put it there.         *)
ReadIsRight == ReadBack /\ GoodIsRight

(* Does not hold (README, Findings).                                       *)
(* The Modbus driver's header calls the encoding of a written value the    *)
(* inverse of the read side: what is written is read back.                 *)
InverseOfRead ==
  (AcceptedNumber /\ device.kind = "registers" /\ result = "written"
     /\ obs.seen = <<tag, words>> /\ obs.p.level = "Good"
     /\ Identity(P) /\ P.raw_type = P.value_type)
    => obs.p.value.n * Unit = Written
=============================================================================
