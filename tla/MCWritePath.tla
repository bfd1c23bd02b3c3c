----------------------------- MODULE MCWritePath -----------------------------
(***************************************************************************)
(* The write path with 2-, 4- and 8-bit integers, 3- and 6-bit floats and  *)
(* quarters as the finest fraction.  Profiles: every pair of numeric types *)
(* with the unscaled and a few scaled transforms, the roundings and bounds *)
(* on both sides of what f64 tells apart, and one malformed profile for    *)
(* each check.                                                             *)
(***************************************************************************)
EXTENDS WritePath

\* Every failure of a conversion has a code for the caller
ASSUME ConversionCodes == {map_conversion(c) : c \in ConversionErrors} \subseteq ValidationCodes

MkProperty(raw, val, scale, offset, rounding, min, max) ==
  [path |-> "p", driver_address |-> "a", raw_type |-> raw, value_type |-> val,
   scale |-> scale, offset |-> offset, write_rounding |-> rounding,
   min |-> min, max |-> max, readable |-> TRUE, writable |-> TRUE, default_interval_ms |-> 1]

QProperty == [MkProperty("F32", "F64", Unit, 0, "Exact", None, None)
                EXCEPT !.path = "q", !.driver_address = "b"]

Param(name, type, required, min, max) ==
  [name |-> name, data_type |-> type, required |-> required, min |-> min, max |-> max]

Cmd(id, parameters) ==
  [id |-> id, driver_command_id |-> id, parameters |-> parameters, preconditions |-> <<>>]

MkProfile(p) ==
  [id |-> "m1", named |-> TRUE, driver_id |-> "eip", domain |-> "plc", acquisition |-> {"polling"},
   properties |-> <<p, QProperty>>,
   commands |-> <<Cmd("set", <<Param("x", [t |-> p.value_type], TRUE, p.min, p.max)>>),
                  Cmd("arr", <<Param("x", [t |-> "Array", elem |-> [t |-> p.value_type]],
                                     FALSE, None, None)>>),
                  Cmd("rec", <<Param("x", [t |-> "Struct",
                                           fields |-> <<[name |-> "f", data_type |-> [t |-> p.value_type]]>>],
                                     FALSE, None, None)>>)>>]

Edge == Pow2(P64)     \* the first integer whose successor is not an f64

Bounds == {<<None, None>>, <<Val("I64", -3), Val("I64", 20)>>,
           <<None, Val("F64", Edge * Unit)>>, <<Val("U64", Edge + 1), None>>,
           <<Val("F64", Unit \div 2), Val("F64", (5 * Unit) \div 2)>>}

Roundings == {"Exact", "Nearest", "Floor", "Ceil", "Truncate"}

Unscaled == {MkProperty(raw, val, Unit, 0, rd, b[1], b[2]) :
               raw \in NumericTypes, val \in NumericTypes, rd \in {"Exact", "Nearest"}, b \in Bounds}

Transforms == {<<2 * Unit, 0>>, <<3 * Unit, Unit>>, <<Unit \div 2, 0>>, <<Unit, -Unit>>,
               <<-2 * Unit, 0>>}

Scaled == {MkProperty(raw, val, tr[1], tr[2], rd, b[1], b[2]) :
             raw \in NumericTypes, val \in {"I16", "U64", "F32", "F64"}, tr \in Transforms,
             rd \in Roundings, b \in {<<None, None>>, <<Val("I64", -3), Val("F64", 20 * Unit)>>}}

Plain == {MkProperty(t, t, 0, 0, "Exact", None, None) : t \in NoScaleTypes}
           \cup {[MkProperty("U16", "U16", Unit, 0, "Exact", None, None) EXCEPT !.writable = FALSE]}

Base == MkProfile(MkProperty("U16", "U16", Unit, 0, "Exact", None, None))
BaseWith(p) == [Base EXCEPT !.properties = <<p, QProperty>>]
BP == Base.properties[1]

\* One defect each
Malformed ==
  {[Base EXCEPT !.id = ""], [Base EXCEPT !.named = FALSE], [Base EXCEPT !.properties = <<>>],
   [Base EXCEPT !.properties = <<BP, [QProperty EXCEPT !.path = "p"]>>],
   BaseWith([BP EXCEPT !.path = ""]), BaseWith([BP EXCEPT !.driver_address = ""]),
   BaseWith([BP EXCEPT !.scale = 0]), BaseWith([BP EXCEPT !.scale = NaN]),
   BaseWith([BP EXCEPT !.offset = Inf]), BaseWith([BP EXCEPT !.default_interval_ms = 0]),
   BaseWith([BP EXCEPT !.raw_type = "Bool"]), BaseWith([BP EXCEPT !.min = Val("F64", NaN)]),
   BaseWith([BP EXCEPT !.min = Val("Bool", 1)]),
   BaseWith([BP EXCEPT !.min = Val("U64", Edge + 1), !.max = Val("U64", Edge)]),
   BaseWith([BP EXCEPT !.min = Val("U64", Edge + 1), !.max = Val("F64", Edge * Unit)]),
   BaseWith([BP EXCEPT !.min = Val("F64", 1), !.max = Val("I64", 0)]),
   BaseWith([MkProperty("Bool", "Bool", Unit, 0, "Exact", None, None) EXCEPT !.path = "p"]),
   BaseWith(MkProperty("Bool", "Bool", 0, 0, "Nearest", None, None)),
   [Base EXCEPT !.commands = <<Base.commands[1], Base.commands[1]>>],
   [Base EXCEPT !.commands[1].driver_command_id = ""],
   [Base EXCEPT !.commands[1].preconditions = <<"">>],
   [Base EXCEPT !.commands[1].parameters = <<Base.commands[1].parameters[1], Base.commands[1].parameters[1]>>],
   [Base EXCEPT !.commands[2].parameters[1].min = Val("I64", 0)],
   [Base EXCEPT !.commands[1].parameters[1].min = Val("F64", Inf)]}

Lib == [opens |-> TRUE, entry |-> "table", size |-> "full", abi |-> <<1, 0>>, functions |-> TRUE,
        creates |-> TRUE, probes |-> TRUE, grammar |-> {"a", "b"}, caps |-> {"polling", "write"}]
Package == [id |-> "eip", abi |-> <<1, 0>>, faults |-> {}, minimum |-> 1, default |-> 1, lib |-> Lib]
Device(id, profile) ==
  [id |-> id, driver |-> "eip", profile |-> profile, domain |-> "", connection |-> "valid", enabled |-> TRUE]

Config(profiles) ==
  [site |-> "s", devices |-> <<Device("d1", "m1")>>, will |-> <<>>, faults |-> {},
   directories |-> <<<<Package>>>>, legacy |-> <<>>, overrides |-> << >>,
   profiles |-> profiles, listen |-> "loopback", control |-> TRUE, control_build |-> TRUE]

C == Config(<<Base>>)

\* One setting out of range each
AllFaults ==
  MqttOptions \cup PollOptions \cup PipelineOptions \cup BufferOptions \cup RestOptions
    \cup ControlOptions \cup MqttClientConfig \cup TlsFiles \cup PipelineConfig \cup PollConfig
    \cup {"session_id", "drivers.directory", "drivers.override_id", "control.credentials", "control.journal"}

WithPackage(p) == [C EXCEPT !.directories = <<<<p>>>>]
WithLib(l) == WithPackage([Package EXCEPT !.lib = l])

Packages ==
  {WithPackage([Package EXCEPT !.faults = {f}]) :
     f \in {"schema", "json", "no_artifacts", "path_outside", "hash_form", "platform", "missing", "symlink", "hash"}}
    \cup {WithPackage([Package EXCEPT !.id = i]) : i \in {"", "a/b", "s7"}}
    \cup {WithPackage([Package EXCEPT !.minimum = 2]),
          [C EXCEPT !.overrides = [e \in {"eip"} |-> 0]], [C EXCEPT !.overrides = [e \in {"eip"} |-> 2]],
          [C EXCEPT !.directories = <<<<Package, Package>>>>],
          [C EXCEPT !.directories = <<<<Package>>, <<Package>>>>],
          [C EXCEPT !.directories = <<<<Package, [Package EXCEPT !.id = "s7"]>>, <<>>>>]}
    \cup {WithLib([Lib EXCEPT !.opens = FALSE]), WithLib([Lib EXCEPT !.entry = "none"]),
          WithLib([Lib EXCEPT !.entry = "null"]), WithLib([Lib EXCEPT !.size = "short"]),
          WithLib([Lib EXCEPT !.size = "header"]), WithLib([Lib EXCEPT !.functions = FALSE]),
          WithLib([Lib EXCEPT !.creates = FALSE]), WithLib([Lib EXCEPT !.grammar = {"a"}]),
          WithLib([Lib EXCEPT !.caps = {"polling"}]), WithLib([Lib EXCEPT !.caps = {"write"}]),
          WithLib([Lib EXCEPT !.probes = FALSE, !.grammar = {"b"}, !.caps = {}])}
    \cup {WithLib([Lib EXCEPT !.abi = v]) : v \in {<<2, 0>>, <<1, 1>>}}
    \cup {[C EXCEPT !.directories = <<>>, !.legacy = <<l>>] :
            l \in {[id |-> "eip", abi |-> <<1, 0>>, lib |-> Lib], [id |-> "eip", abi |-> <<1, 1>>, lib |-> Lib]}}
    \cup {[C EXCEPT !.legacy = <<Package>>], [C EXCEPT !.directories = <<>>],
          [C EXCEPT !.directories = <<>>, !.overrides = [e \in {"eip"} |-> 2]]}
    \cup {[C EXCEPT !.directories = <<>>, !.legacy = <<Package>>, !.faults = {f}] :
            f \in {"driver.plugin", "driver.manifest_id"}}

D1 == C.devices[1]
D2 == Device("d2", "m2")
Other(p) == [BaseWith(p) EXCEPT !.id = "m2"]

\* Devices: names, references, enabling, a second device of the same driver
Fleets ==
  {[C EXCEPT !.devices = ds] :
     ds \in {<<>>, <<D1, D1>>, <<[D1 EXCEPT !.id = ""]>>, <<[D1 EXCEPT !.id = "a/b"]>>,
             <<[D1 EXCEPT !.driver = ""]>>, <<[D1 EXCEPT !.driver = "s7"]>>,
             <<[D1 EXCEPT !.profile = ""]>>, <<[D1 EXCEPT !.profile = "zz"]>>,
             <<[D1 EXCEPT !.domain = "plc"]>>, <<[D1 EXCEPT !.domain = "cnc"]>>,
             <<[D1 EXCEPT !.connection = "invalid"]>>, <<[D1 EXCEPT !.enabled = FALSE]>>}}
    \cup {[C EXCEPT !.site = s] : s \in {"", "a/b"}}
    \cup {[C EXCEPT !.will = w] : w \in {<<"d1">>, <<"">>, <<"d9">>}}
    \cup {[C EXCEPT !.will = <<"d1">>, !.devices = <<[D1 EXCEPT !.enabled = FALSE]>>]}
    \cup {[C EXCEPT !.listen = l, !.control = c, !.control_build = b] :
            l \in {"none", "loopback", "remote"}, c \in BOOLEAN, b \in BOOLEAN}
    \cup {[C EXCEPT !.profiles = <<Base, Other(p)>>, !.devices = <<D1, [D2 EXCEPT !.enabled = e]>>] :
            p \in {BP, [BP EXCEPT !.driver_address = "c"]}, e \in BOOLEAN}
    \cup {[C EXCEPT !.profiles = <<[Base EXCEPT !.properties = <<BP, q>>]>>] :
            q \in {[QProperty EXCEPT !.default_interval_ms = 2], [QProperty EXCEPT !.default_interval_ms = -1],
                   [QProperty EXCEPT !.readable = FALSE], [QProperty EXCEPT !.driver_address = "c"],
                   [QProperty EXCEPT !.driver_address = "c", !.readable = FALSE, !.writable = FALSE]}}
    \cup {Config(<<BaseWith([BP EXCEPT !.readable = FALSE])>>),
          Config(<<[Base EXCEPT !.driver_id = "s7"]>>), Config(<<>>),
          Config(<<[Base EXCEPT !.acquisition = {"subscription"}]>>)}

MCConfigs ==
  {Config(<<MkProfile(p)>>) : p \in Unscaled \cup Scaled \cup Plain}
    \cup {Config(<<m>>) : m \in Malformed}
    \cup {Config(<<Base, Base>>), Config(<<Base, [Base EXCEPT !.id = "m2"]>>)}
    \cup {[C EXCEPT !.faults = {f}] : f \in AllFaults} \cup Packages \cup Fleets

Lit(n) == [j |-> "int", n |-> n]
Flt(n) == [j |-> "float", n |-> n]

Numbers ==
  {Lit(n) : n \in {-129, -128, -65, -9, -3, -1, 0, 1, 2, 3, 5, 7, 9, 16, 20, 31, 47,
                   64, 65, 67, 127, 128, 255, 256}}
    \cup {Flt(n) : n \in {1, -2, 6, 10, 20, 4 * 64, 4 * 66, 4 * 256, 2048}}

OtherJson == {[j |-> "null"], [j |-> "bool", n |-> 1], [j |-> "string", n |-> 0],
              [j |-> "array", items |-> <<Lit(1)>>]}

Write(items) == [kind |-> "write", command |-> "", items |-> items]
Item(name, json) == [name |-> name, json |-> json]
Command(c, items) == [kind |-> "execute", command |-> c, items |-> items]

\* Malformed and composite requests are asked of a few profiles only
Asked(profile) ==
  LET p == profile.properties[1]
  IN p.raw_type = p.value_type /\ p.scale \in {0, Unit} /\ p.offset = 0 /\ p.write_rounding = "Exact"

\* A variant of the installation is asked one write
MCRequestsFor(c) ==
  LET profile == c.profiles[1]
  IN IF c # Config(<<profile>>) THEN {Write(<<Item("p", Lit(1))>>), Write(<<Item("q", Flt(6))>>)}
     ELSE {Write(<<Item("p", v)>>) : v \in Numbers}
    \cup (IF ~Asked(profile) THEN {}
          ELSE {Write(<<>>), Write(<<Item("z", Lit(1))>>)}
            \cup {Write(<<Item("p", v)>>) : v \in OtherJson}
            \cup {Write(<<Item("p", v), Item("q", Flt(6))>>) : v \in {Lit(1), Lit(300), Flt(2)}}
            \cup {Write(<<Item("p", Lit(1)), Item("q", v)>>) : v \in {Flt(4), Flt(2048), [j |-> "null"]}}
            \cup {Command("set", <<Item("x", v)>>) : v \in Numbers \cup OtherJson}
            \cup {Command("set", <<>>), Command("nope", <<>>), Command("arr", <<>>),
                  Command("set", <<Item("x", Lit(1)), Item("x", Lit(1))>>),
                  Command("set", <<Item("x", Lit(1)), Item("y", Lit(1))>>)}
            \cup {Command("arr", <<Item("x", [j |-> "array", items |-> <<Lit(1), v>>])>>) :
                    v \in {Lit(1), Lit(9), Flt(2), [j |-> "string", n |-> 0]}}
            \cup {Command("rec", <<Item("x", [j |-> "object", fields |-> <<[name |-> n, json |-> v]>>])>>) :
                    n \in {"f", "g"}, v \in {Lit(1), Flt(2), [j |-> "null"]}})

MCContentsFor(t) ==
  CASE t \in IntegerTypes -> {n \in {-128, -65, -8, -2, -1, 0, 1, 3, 9, 15, 64, 65, 66, 127, 128, 255} :
                                n \in IntRange(t)}
    [] t = "F32" -> {0, 2, 20, 32, F32Max, NaN, Inf}
    [] t = "F64" -> {0, 2, 21, 256, F64Max, NaN, Inf}
    [] OTHER -> {0, 1}

TagDevice == [kind |-> "tags", order |-> "Abcd"]
RegisterDevices == {[kind |-> "registers", order |-> o] : o \in {"Abcd", "Cdab"}}

\* Modbus registers: unscaled numbers
MCDevicesFor(c) ==
  {TagDevice} \cup
  IF c.profiles # <<>> /\ c = Config(<<c.profiles[1]>>) /\ c.profiles[1] \in {MkProfile(MkProperty(t, t, Unit, 0, "Exact", None, None)) : t \in NumericTypes}
    THEN RegisterDevices ELSE {}
=============================================================================
