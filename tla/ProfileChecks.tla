---------------------------- MODULE ProfileChecks ----------------------------
(***************************************************************************)
(* profile-engine: what a device profile must satisfy before it is used    *)
(* (crates/profile-engine/src/validate.rs), and the registry it enters     *)
(* (loader.rs, registry.rs).                                               *)
(*                                                                         *)
(* A profile is [id, named, properties, commands]: `named` says that its   *)
(* vendor, family, models and driver_id are not empty.  A property's path  *)
(* is a token, the malformed dotted path is "".  An address, an id or a    *)
(* name that is empty is "".                                               *)
(***************************************************************************)
EXTENDS ProfileConvert, Sequences

is_numeric_value(v) == v.t \in NumericTypes

\* min > max, exactly: two integers as integers, an integer against a float
\* after the float has been made whole, two floats as floats
min_greater_than_max(min, max) ==
  CASE min.t \in IntegerTypes /\ max.t \in IntegerTypes -> min.n > max.n
    [] min.t \in IntegerTypes /\ max.t \in FloatTypes -> i128_gt_f64(min.n, max.n)
    [] min.t \in FloatTypes /\ max.t \in IntegerTypes -> Whole(Ceil(min.n)) > max.n
    [] min.t \in FloatTypes /\ max.t \in FloatTypes -> FLt(max.n, min.n)
    [] OTHER -> FALSE

\* A bound belongs to the family of its type and is finite
BoundOk(t, bound) ==
  \/ bound = None
  \/ t \in NoScaleTypes /\ bound.t = t
  \/ is_numeric(t) /\ is_numeric_value(bound) /\ is_finite(numeric_value_to_f64(bound))

validate_min_max(p) ==
  /\ BoundOk(p.value_type, p.min)
  /\ BoundOk(p.value_type, p.max)
  /\ ~(p.min # None /\ p.max # None /\ min_greater_than_max(p.min, p.max))

validate_value_pair(p) ==
  \/ p.raw_type \in NoScaleTypes /\ p.value_type = p.raw_type
  \/ is_numeric(p.raw_type) /\ is_numeric(p.value_type)

\* Bool, String and Bytes have neither scale nor rounding; a number has a scale
validate_property(p) ==
  /\ p.path # "" /\ p.driver_address # ""
  /\ is_finite(p.scale) /\ is_finite(p.offset)
  /\ validate_value_pair(p)
  /\ IF p.value_type \in NoScaleTypes
       THEN p.scale = 0 /\ p.offset = 0 /\ p.write_rounding = "Exact"
       ELSE p.scale # 0
  /\ validate_min_max(p)
  /\ p.default_interval_ms # 0

\* A parameter's data type is [t |-> scalar], [t |-> "Array", elem |-> type] or
\* [t |-> "Struct", fields |-> sequence of [name, data_type]]
validate_parameter_bounds(d) ==
  IF d.data_type.t \in {"Array", "Struct"} THEN d.min = None /\ d.max = None
  ELSE /\ BoundOk(d.data_type.t, d.min)
       /\ BoundOk(d.data_type.t, d.max)
       /\ ~(d.min # None /\ d.max # None /\ min_greater_than_max(d.min, d.max))

\* No element of a sequence has the key of an earlier one
DistinctBy(s, key(_)) == \A i, j \in DOMAIN s : key(s[i]) = key(s[j]) => i = j

validate_profile_command(c) ==
  /\ c.id # "" /\ c.driver_command_id # ""
  /\ \A i \in DOMAIN c.parameters :
       c.parameters[i].name # "" /\ validate_parameter_bounds(c.parameters[i])
  /\ DistinctBy(c.parameters, LAMBDA d : d.name)
  /\ \A i \in DOMAIN c.preconditions : c.preconditions[i] # ""

validate_profile(profile) ==
  /\ profile.id # "" /\ profile.named
  /\ profile.properties # <<>>
  /\ \A i \in DOMAIN profile.properties : validate_property(profile.properties[i])
  /\ DistinctBy(profile.properties, LAMBDA p : p.path)
  /\ \A i \in DOMAIN profile.commands : validate_profile_command(profile.commands[i])
  /\ DistinctBy(profile.commands, LAMBDA c : c.id)

\* load_profiles_dir reads and validates every file; one failure fails all
load_profiles_dir(files) == \A i \in DOMAIN files : validate_profile(files[i])

\* register: validated, and its id not yet taken (the registry by its ids)
CanRegister(registry, profile) == validate_profile(profile) /\ profile.id \notin registry

\* load_dir registers the files in turn; the first refusal takes the ones this
\* call has entered out again
load_dir(registry, files) ==
  LET Entered(k) == registry \cup {files[i].id : i \in 1..k}
  IN IF load_profiles_dir(files) /\ \A k \in DOMAIN files : CanRegister(Entered(k - 1), files[k])
       THEN Entered(Len(files)) ELSE registry
=============================================================================
