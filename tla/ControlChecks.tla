---------------------------- MODULE ControlChecks ----------------------------
(***************************************************************************)
(* control-engine: what a control request must satisfy before it is        *)
(* queued, and the driver operation it becomes                             *)
(* (crates/control-engine/src/validate.rs); and the parse of its JSON      *)
(* values (crates/rest-api/src/control.rs).                                *)
(*                                                                         *)
(* JSON is [j |-> kind, ...]: "null", "bool", "int" (an integer literal    *)
(* n), "float" (units n), "string", "array" (items), "object" (fields, a   *)
(* sequence of [name, json]).                                              *)
(***************************************************************************)
EXTENDS ProfileChecks

\* Integers first, then unsigned integers, then floats; null is refused
RECURSIVE json_to_value(_)
json_to_value(j) ==
  LET Parsed == [i \in DOMAIN j.items |-> json_to_value(j.items[i])]
      Field(i) == json_to_value(j.fields[i].json)
  IN CASE j.j = "null" -> Err("BadRequest")
       [] j.j = "bool" -> Ok(Val("Bool", j.n))
       [] j.j = "int" -> IF j.n \in IntRange("I64") THEN Ok(Val("I64", j.n))
                         ELSE IF j.n \in IntRange("U64") THEN Ok(Val("U64", j.n))
                         ELSE Ok(Val("F64", AsF64(j.n)))
       [] j.j = "float" -> Ok(Val("F64", j.n))
       [] j.j = "string" -> Ok(Val("String", j.n))
       [] j.j = "array" ->
            IF \A i \in DOMAIN j.items : Parsed[i].ok
              THEN Ok([t |-> "Array", items |-> [i \in DOMAIN j.items |-> Parsed[i].v]])
              ELSE Err("BadRequest")
       [] j.j = "object" ->
            IF \A i \in DOMAIN j.fields : Field(i).ok
              THEN Ok([t |-> "Struct",
                       fields |-> [i \in DOMAIN j.fields |->
                                     [name |-> j.fields[i].name, value |-> Field(i).v]]])
              ELSE Err("BadRequest")

\* The parameters of a command travel to the driver as JSON again
RECURSIVE value_to_json(_)
value_to_json(v) ==
  CASE v.t = "Bool" -> [j |-> "bool", n |-> v.n]
    [] v.t \in IntegerTypes -> [j |-> "int", n |-> v.n]
    [] v.t \in FloatTypes -> IF is_finite(v.n) THEN [j |-> "float", n |-> v.n] ELSE [j |-> "null"]
    [] v.t = "String" -> [j |-> "string", n |-> v.n]
    [] v.t = "Array" -> [j |-> "array", items |-> [i \in DOMAIN v.items |-> value_to_json(v.items[i])]]
    [] v.t = "Struct" ->
         [j |-> "object",
          fields |-> [i \in DOMAIN v.fields |->
                        [name |-> v.fields[i].name, json |-> value_to_json(v.fields[i].value)]]]

RECURSIVE value_has_non_finite(_)
value_has_non_finite(v) ==
  CASE v.t \in FloatTypes -> ~is_finite(v.n)
    [] v.t = "Array" -> \E i \in DOMAIN v.items : value_has_non_finite(v.items[i])
    [] v.t = "Struct" -> \E i \in DOMAIN v.fields : value_has_non_finite(v.fields[i].value)
    [] OTHER -> FALSE

\* Numbers match every numeric type; arrays and structs are compared member by
\* member, a struct with exactly the declared fields
RECURSIVE value_matches_type(_, _)
value_matches_type(v, d) ==
  CASE d.t \in NoScaleTypes -> v.t = d.t
    [] d.t = "Array" ->
         v.t = "Array" /\ \A i \in DOMAIN v.items : value_matches_type(v.items[i], d.elem)
    [] d.t = "Struct" ->
         /\ v.t = "Struct" /\ Len(d.fields) = Len(v.fields)
         /\ \A f \in DOMAIN d.fields : \E i \in DOMAIN v.fields :
              v.fields[i].name = d.fields[f].name
              /\ value_matches_type(v.fields[i].value, d.fields[f].data_type)
    [] d.t \in NumericTypes -> is_numeric_value(v)

\* A number fits the declared type without loss: a float parameter of an
\* integer type is whole and below 2^P64
RECURSIVE value_representable(_, _)
value_representable(v, d) ==
  CASE d.t = "Array" /\ v.t = "Array" -> \A i \in DOMAIN v.items : value_representable(v.items[i], d.elem)
    [] d.t = "Struct" /\ v.t = "Struct" ->
         \A f \in DOMAIN d.fields, i \in DOMAIN v.fields :
           v.fields[i].name = d.fields[f].name
             => value_representable(v.fields[i].value, d.fields[f].data_type)
    [] d.t = "F32" /\ v.t = "F64" -> is_finite(v.n) /\ is_finite(AsF32(v.n))
    [] d.t = "F32" /\ v.t \in IntegerTypes -> Abs(v.n) < Pow2(P32)
    [] d.t = "F64" /\ v.t \in IntegerTypes -> Abs(v.n) < Pow2(P64)
    [] d.t \in IntegerTypes /\ v.t \in IntegerTypes -> v.n \in IntRange(d.t)
    [] d.t \in IntegerTypes /\ v.t \in FloatTypes ->
         IsWhole(v.n) /\ Abs(v.n) < Pow2(P64) * Unit /\ Whole(v.n) \in IntRange(d.t)
    [] OTHER -> TRUE

\* v < w: integers exactly, then every two numbers as f64
ParamBelow(v, w) ==
  \/ v.t \in IntegerTypes /\ w.t \in IntegerTypes /\ v.n < w.n
  \/ is_numeric_value(v) /\ is_numeric_value(w)
     /\ FLt(numeric_value_to_f64(v), numeric_value_to_f64(w))

param_within_range(v, min, max) == ~ParamBelow(v, min) /\ ~ParamBelow(max, v)

\* encode_write's error as the code the caller is told
map_conversion(code) ==
  CASE code = "NotWritable" -> "PROPERTY_NOT_WRITABLE"
    [] code = "SemanticTypeMismatch" -> "VALUE_TYPE_MISMATCH"
    [] code = "MinMaxViolation" -> "VALUE_OUT_OF_RANGE"
    [] code = "ScaleInvalid" -> "PROFILE_CONFIGURATION"
    [] code \in {"NotFinite", "ExactRequired", "Overflow", "PrecisionLoss"} -> "VALUE_NOT_REPRESENTABLE"

\* The codes of ValidationError
ValidationCodes ==
  {"PROPERTY_NOT_FOUND", "PROPERTY_NOT_WRITABLE", "VALUE_TYPE_MISMATCH", "VALUE_OUT_OF_RANGE",
   "VALUE_NOT_REPRESENTABLE", "COMMAND_NOT_FOUND", "MISSING_PARAMETER", "UNKNOWN_PARAMETER",
   "PARAMETER_TYPE_MISMATCH", "DUPLICATE_PARAMETER", "PARAMETER_OUT_OF_RANGE",
   "PARAMETER_NOT_FINITE", "PARAMETER_NOT_REPRESENTABLE", "EMPTY_WRITE", "PROFILE_CONFIGURATION"}

\* The first failing member of a sequence decides the answer
FirstError(errors) ==
  LET bad == {i \in DOMAIN errors : errors[i] # "ok"}
  IN IF bad = {} THEN "ok" ELSE errors[CHOOSE i \in bad : \A j \in bad : i <= j]

PropertyAt(profile, path) ==
  {profile.properties[i] : i \in {k \in DOMAIN profile.properties : profile.properties[k].path = path}}

\* Every item must convert, or the whole request is refused
validate_property_write(profile, items) ==
  LET Prop(i) == CHOOSE p \in PropertyAt(profile, items[i].path) : TRUE
      Raw(i) == encode_write(Prop(i), items[i].value)
      ItemError(i) ==
        IF PropertyAt(profile, items[i].path) = {} THEN "PROPERTY_NOT_FOUND"
        ELSE IF ~Prop(i).writable THEN "PROPERTY_NOT_WRITABLE"
        ELSE IF ~Raw(i).ok THEN map_conversion(Raw(i).code) ELSE "ok"
      error == FirstError([i \in DOMAIN items |-> ItemError(i)])
  IN IF items = <<>> THEN Err("EMPTY_WRITE")
     ELSE IF error # "ok" THEN Err(error)
     ELSE Ok([kind |-> "write",
              items |-> [i \in DOMAIN items |->
                           [address |-> Prop(i).driver_address, value |-> Raw(i).v]]])

ParameterError(d, v) ==
  IF value_has_non_finite(v) THEN "PARAMETER_NOT_FINITE"
  ELSE IF ~value_matches_type(v, d.data_type) THEN "PARAMETER_TYPE_MISMATCH"
  ELSE IF ~value_representable(v, d.data_type) THEN "PARAMETER_NOT_REPRESENTABLE"
  ELSE IF ~param_within_range(v, d.min, d.max) THEN "PARAMETER_OUT_OF_RANGE"
  ELSE "ok"

\* Duplicates, then missing parameters, then each parameter in turn
validate_command(profile, command, parameters) ==
  LET matching == {i \in DOMAIN profile.commands : profile.commands[i].id = command}
      c == profile.commands[CHOOSE i \in matching : \A j \in matching : i <= j]
      Declared(name) == {c.parameters[i] : i \in {k \in DOMAIN c.parameters : c.parameters[k].name = name}}
      ParamError(q) == IF Declared(q.name) = {} THEN "UNKNOWN_PARAMETER"
                       ELSE ParameterError(CHOOSE d \in Declared(q.name) : TRUE, q.value)
      error == FirstError([i \in DOMAIN parameters |-> ParamError(parameters[i])])
  IN IF matching = {} THEN Err("COMMAND_NOT_FOUND")
     ELSE IF ~DistinctBy(parameters, LAMBDA q : q.name) THEN Err("DUPLICATE_PARAMETER")
     ELSE IF \E k \in DOMAIN c.parameters :
               c.parameters[k].required /\ \A i \in DOMAIN parameters : parameters[i].name # c.parameters[k].name
       THEN Err("MISSING_PARAMETER")
     ELSE IF error # "ok" THEN Err(error)
     ELSE Ok([kind |-> "execute",
              command_id |-> c.driver_command_id,
              payload |-> [i \in DOMAIN parameters |->
                             [name |-> parameters[i].name, json |-> value_to_json(parameters[i].value)]]])
=============================================================================
