--------------------------- MODULE ProfileConvert ---------------------------
(***************************************************************************)
(* profile-engine: the conversion between the raw value of a register and  *)
(* the semantic value of a property, crates/profile-engine/src/convert.rs. *)
(*                                                                         *)
(* A value is [t |-> type, n |-> number]: an integer type holds the        *)
(* integer, a float type holds units (FloatNumbers), Bool, String and      *)
(* Bytes hold a token.  A raw value has one of the carriers I64, U64, F64, *)
(* Bool, String, Bytes.  A conversion answers [ok |-> TRUE, v |-> value]   *)
(* or [ok |-> FALSE, code |-> error].  The 8- and 16-bit integers behave   *)
(* alike; the 16-bit ones stand for both.                                  *)
(***************************************************************************)
EXTENDS FloatNumbers

SignedTypes == {"I16", "I32", "I64"}
UnsignedTypes == {"U16", "U32", "U64"}
IntegerTypes == SignedTypes \cup UnsignedTypes
FloatTypes == {"F32", "F64"}
NumericTypes == IntegerTypes \cup FloatTypes
NoScaleTypes == {"Bool", "String", "Bytes"}

is_integer_type(t) == t \in IntegerTypes
is_numeric(t) == t \in NumericTypes

BitsOf(t) ==
  CASE t \in {"I16", "U16"} -> W16 [] t \in {"I32", "U32"} -> W32 [] t \in {"I64", "U64"} -> W64

Least(t) == IF t \in SignedTypes THEN -Pow2(BitsOf(t) - 1) ELSE 0
Greatest(t) == IF t \in SignedTypes THEN Pow2(BitsOf(t) - 1) - 1 ELSE Pow2(BitsOf(t)) - 1
IntRange(t) == Least(t)..Greatest(t)

None == [t |-> "None", n |-> 0]
Val(t, n) == [t |-> t, n |-> n]
Ok(v) == [ok |-> TRUE, v |-> v]
Err(code) == [ok |-> FALSE, code |-> code]

\* The failures of a write conversion
ConversionErrors ==
  {"NotWritable", "SemanticTypeMismatch", "MinMaxViolation", "ScaleInvalid",
   "NotFinite", "ExactRequired", "Overflow", "PrecisionLoss"}

\* The carrier of a raw value: raw values only have the 64-bit variants
CarrierOf(t) ==
  CASE t \in SignedTypes -> "I64" [] t \in UnsignedTypes -> "U64"
    [] t \in FloatTypes -> "F64"  [] OTHER -> t

\* Every numeric value as f64; an integer beyond P64 bits is rounded
numeric_value_to_f64(v) == IF v.t \in IntegerTypes THEN AsF64(v.n) ELSE v.n

f64_to_i64(x) ==
  IF x >= -Pow2(W64 - 1) * Unit /\ x < Pow2(W64 - 1) * Unit
    THEN Ok(Whole(x)) ELSE Err("Overflow")

f64_to_u64(x) ==
  IF x >= 0 /\ x < Pow2(W64) * Unit THEN Ok(Whole(x)) ELSE Err("Overflow")

\* An integer enters the f64 computation only when the way back gives it again
i64_lossless_to_f64(i) ==
  LET back == f64_to_i64(AsF64(i))
  IN IF back.ok /\ back.v = i THEN Ok(AsF64(i)) ELSE Err("PrecisionLoss")

u64_lossless_to_f64(i) ==
  LET back == f64_to_u64(AsF64(i))
  IN IF back.ok /\ back.v = i THEN Ok(AsF64(i)) ELSE Err("PrecisionLoss")

Identity(p) == p.scale = Unit /\ p.offset = 0

-----------------------------------------------------------------------------
(* Reading: raw value to semantic value.                                   *)

\* Faulty variant: a cast that wraps instead of a checked conversion
exact_int_semanticWraps(t, i) ==
  LET x == i % Pow2(BitsOf(t))
  IN Ok(Val(t, IF x > Greatest(t) THEN x - Pow2(BitsOf(t)) ELSE x))

exact_int_semantic(t, i) ==
  IF i \in IntRange(t) THEN Ok(Val(t, i)) ELSE Err("ConfigurationError")

\* The f64 a raw value enters the scaling with: the carrier must be the one of
\* an integer raw_type; a float raw_type takes every numeric carrier
numeric_raw_to_f64(t, raw) ==
  CASE t \in SignedTypes /\ raw.t = "I64" -> i64_lossless_to_f64(raw.n)
    [] t \in UnsignedTypes /\ raw.t = "U64" -> u64_lossless_to_f64(raw.n)
    [] t \in FloatTypes /\ raw.t = "F64" -> Ok(raw.n)
    [] t \in FloatTypes /\ raw.t = "I64" -> i64_lossless_to_f64(raw.n)
    [] t \in FloatTypes /\ raw.t = "U64" -> u64_lossless_to_f64(raw.n)
    [] OTHER -> Err("ConfigurationError")

\* An integer target is rounded first, then checked against its range
checked_to_semantic(t, x) ==
  LET r == RoundAway(x)
      i == IF t \in SignedTypes THEN f64_to_i64(r) ELSE f64_to_u64(r)
  IN IF ~is_finite(x) THEN Err("ConfigurationError")
     ELSE IF t \in IntegerTypes THEN
       IF i.ok /\ i.v \in IntRange(t) THEN Ok(Val(t, i.v)) ELSE Err("ConfigurationError")
     ELSE IF t = "F32" THEN
       IF is_finite(AsF32(x)) THEN Ok(Val(t, AsF32(x))) ELSE Err("ConfigurationError")
     ELSE Ok(Val(t, x))

decode_value(p, raw) ==
  CASE p.raw_type = p.value_type /\ p.value_type \in NoScaleTypes ->
         IF raw.t = p.raw_type THEN Ok(raw) ELSE Err("ConfigurationError")
    [] is_numeric(p.raw_type) /\ is_numeric(p.value_type) ->
         IF /\ Identity(p)
            /\ is_integer_type(p.value_type)
            /\ is_integer_type(p.raw_type) /\ raw.t = CarrierOf(p.raw_type)
           THEN exact_int_semantic(p.value_type, raw.n)
           ELSE LET x == numeric_raw_to_f64(p.raw_type, raw)
                IN IF x.ok
                     THEN checked_to_semantic(p.value_type, FAdd(FMul(x.v, p.scale), p.offset))
                     ELSE x
    [] OTHER -> Err("ConfigurationError")

\* A read result carries an error, no value, or a value; anything but a
\* converted value is Bad and has no value
decode_read(p, result) ==
  CASE result.kind = "error" -> [level |-> "Bad", reason |-> "ProtocolError", value |-> None]
    [] result.kind = "missing" -> [level |-> "Bad", reason |-> "ProtocolError", value |-> None]
    [] result.kind = "value" ->
         LET d == decode_value(p, result.raw)
         IN IF d.ok THEN [level |-> "Good", reason |-> "None", value |-> d.v]
                    ELSE [level |-> "Bad", reason |-> "ConfigurationError", value |-> None]

-----------------------------------------------------------------------------
(* Writing: semantic value to raw value.                                   *)

\* Exact integer against float bound: the bound is first made whole
i128_gt_f64(i, x) == ~is_nan(x) /\ i > Whole(Floor(x))
i128_lt_f64(i, x) == ~is_nan(x) /\ i < Whole(Ceil(x))

\* Faulty variant: the bounds compared as f64
check_exact_boundsAsF64(p, i) ==
  /\ p.min = None \/ ~FLt(AsF64(i), numeric_value_to_f64(p.min))
  /\ p.max = None \/ ~FLt(numeric_value_to_f64(p.max), AsF64(i))

\* A bound that is an integer is compared as one
check_exact_bounds(p, i) ==
  /\ p.min = None \/ IF p.min.t \in IntegerTypes THEN ~(i < p.min.n) ELSE ~i128_lt_f64(i, p.min.n)
  /\ p.max = None \/ IF p.max.t \in IntegerTypes THEN ~(i > p.max.n) ELSE ~i128_gt_f64(i, p.max.n)

\* scale 1, offset 0, integer semantic value: no float is involved unless the
\* register is one, and then the value must survive it
encode_exact_int(p, i) ==
  LET Lossy == IF p.write_rounding = "Exact" THEN Err("ExactRequired") ELSE Err("PrecisionLoss")
      f32 == AsF32(AsF64(i))
  IN IF ~check_exact_bounds(p, i) THEN Err("MinMaxViolation")
     ELSE CASE p.raw_type \in IntegerTypes ->
                 IF i \in IntRange(p.raw_type) THEN Ok(Val(CarrierOf(p.raw_type), i)) ELSE Err("Overflow")
            [] p.raw_type = "F32" -> IF f32 = i * Unit THEN Ok(Val("F64", f32)) ELSE Lossy
            [] p.raw_type = "F64" -> IF AsF64(i) = i * Unit THEN Ok(Val("F64", AsF64(i))) ELSE Lossy
            [] OTHER -> Err("SemanticTypeMismatch")

apply_rounding(p, x) ==
  CASE p.write_rounding = "Exact" -> IF IsWhole(x) THEN Ok(x) ELSE Err("ExactRequired")
    [] p.write_rounding = "Nearest" -> Ok(RoundAway(x))
    [] p.write_rounding = "Floor" -> Ok(Floor(x))
    [] p.write_rounding = "Ceil" -> Ok(Ceil(x))
    [] p.write_rounding = "Truncate" -> Ok(Trunc(x))

\* The bounds of the range are compared as f64; the checked conversion decides
checked_signed(p, x) ==
  LET r == apply_rounding(p, x)
      i == f64_to_i64(r.v)
  IN IF ~r.ok THEN r
     ELSE IF r.v < AsF64(Least(p.raw_type)) \/ r.v > AsF64(Greatest(p.raw_type)) THEN Err("Overflow")
     ELSE IF i.ok THEN Ok(Val("I64", i.v)) ELSE i

checked_unsigned(p, x) ==
  LET r == apply_rounding(p, x)
      i == f64_to_u64(r.v)
  IN IF ~r.ok THEN r
     ELSE IF r.v < 0 \/ r.v > AsF64(Greatest(p.raw_type)) THEN Err("Overflow")
     ELSE IF i.ok THEN Ok(Val("U64", i.v)) ELSE i

\* Faulty variant: the candidate itself is handed on, not its f32
checked_floatWide(p, x) ==
  IF p.write_rounding = "Exact" /\ AsF32(x) # x THEN Err("ExactRequired")
  ELSE IF ~is_finite(AsF32(x)) THEN Err("Overflow")
  ELSE Ok(Val("F64", x))

checked_float(p, x) ==
  IF p.write_rounding = "Exact" /\ AsF32(x) # x THEN Err("ExactRequired")
  ELSE IF ~is_finite(AsF32(x)) THEN Err("Overflow")
  ELSE Ok(Val("F64", AsF32(x)))

\* The register value of a scaled property: inverse transform, rounding, range
EncodeScaled(p, x) ==
  LET candidate == FDiv(FSub(x, p.offset), p.scale)
  IN IF ~is_finite(candidate) THEN Err("NotFinite")
     ELSE CASE p.raw_type \in SignedTypes -> checked_signed(p, candidate)
            [] p.raw_type \in UnsignedTypes -> checked_unsigned(p, candidate)
            [] p.raw_type = "F32" -> checked_float(p, candidate)
            [] p.raw_type = "F64" -> Ok(Val("F64", candidate))
            [] OTHER -> Err("SemanticTypeMismatch")

\* The semantic value as f64; a 64-bit integer must enter it without loss
SemanticToF64(v) ==
  CASE v.t = "I64" -> i64_lossless_to_f64(v.n)
    [] v.t = "U64" -> u64_lossless_to_f64(v.n)
    [] v.t \in NumericTypes \ {"I64", "U64"} -> Ok(numeric_value_to_f64(v))
    [] OTHER -> Err("SemanticTypeMismatch")

WithinMinMax(p, x) ==
  /\ p.min = None \/ ~FLt(x, numeric_value_to_f64(p.min))
  /\ p.max = None \/ ~FLt(numeric_value_to_f64(p.max), x)

encode_write(p, v) ==
  LET x == SemanticToF64(v)
  IN IF ~p.writable THEN Err("NotWritable")
     ELSE IF p.value_type \in NoScaleTypes THEN
       IF v.t = p.value_type THEN Ok(v) ELSE Err("SemanticTypeMismatch")
     ELSE IF Identity(p) /\ v.t \in {"I64", "U64"} THEN encode_exact_int(p, v.n)
     ELSE IF ~x.ok THEN x
     ELSE IF ~is_finite(x.v) THEN Err("NotFinite")
     ELSE IF ~WithinMinMax(p, x.v) THEN Err("MinMaxViolation")
     ELSE IF p.scale = 0 \/ ~is_finite(p.scale) \/ ~is_finite(p.offset) THEN Err("ScaleInvalid")
     ELSE EncodeScaled(p, x.v)
=============================================================================
