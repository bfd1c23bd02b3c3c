------------------------------ MODULE ValueWire ------------------------------
(***************************************************************************)
(* What happens to a raw value between the control engine and a device:    *)
(* the loader tags it by its carrier and encodes it for the plugin         *)
(* (crates/driver-loader/src/driver.rs, crates/driver-abi/src/tag.rs), the *)
(* driver puts it into tags of a declared type (EtherNet/IP) or into       *)
(* 16-bit registers (Modbus), and what is read comes back in a JSON        *)
(* envelope (crates/driver-abi/src/envelope.rs).                           *)
(*                                                                         *)
(* Scalar bytes are [len |-> bits, x |-> content]: an integer's content is *)
(* its two's complement, a float's its value.                              *)
(***************************************************************************)
EXTENDS ProfileConvert, Sequences

ASSUME WordAssumption == W32 = 2 * W16 /\ W64 = 4 * W16

ScalarTags == NumericTypes \cup NoScaleTypes

\* The loader only sees the carrier of a raw value
tag_for_value(raw) ==
  IF raw.t \in {"Array", "Struct"} THEN Err("driver_encoding_error") ELSE Ok(raw.t)

LenOf(tag) ==
  CASE tag \in IntegerTypes -> BitsOf(tag) [] tag = "F32" -> W32 [] tag = "F64" -> W64
    [] OTHER -> 0

\* An integer out of the range of its tag, a finite float that f32 cannot hold
\* and a variant that does not belong to the tag are refused
encode_value_bytes(tag, raw) ==
  CASE tag \notin ScalarTags -> Err("UnknownTag")
    [] tag \in IntegerTypes /\ raw.t = CarrierOf(tag) ->
         IF raw.n \in IntRange(tag) THEN Ok([len |-> LenOf(tag), x |-> raw.n % Pow2(LenOf(tag))])
                                    ELSE Err("OutOfRange")
    [] tag = "F32" /\ raw.t = "F64" ->
         IF is_finite(raw.n) /\ ~is_finite(AsF32(raw.n)) THEN Err("OutOfRange")
                                                         ELSE Ok([len |-> W32, x |-> AsF32(raw.n)])
    [] tag = "F64" /\ raw.t = "F64" -> Ok([len |-> W64, x |-> raw.n])
    [] tag \in NoScaleTypes /\ raw.t = tag -> Ok([len |-> 0, x |-> raw.n])
    [] OTHER -> Err("TypeMismatch")

\* Two's complement of w bits
SignExtend(x, w) == IF x >= Pow2(w - 1) THEN x - Pow2(w) ELSE x

decode_value_bytes(tag, bytes) ==
  CASE tag \notin ScalarTags -> Err("UnknownTag")
    [] tag \in ScalarTags /\ bytes.len # LenOf(tag) -> Err("InvalidLength")
    [] tag \in SignedTypes /\ bytes.len = LenOf(tag) -> Ok(Val("I64", SignExtend(bytes.x, bytes.len)))
    [] OTHER -> Ok(Val(CarrierOf(tag), bytes.x))

-----------------------------------------------------------------------------
(* EtherNet/IP: a tag has the type the device declares.                    *)

\* The scalar types whose width the driver knows: UDINT is missing
type_width == (NumericTypes \ {"U32"}) \cup {"Bool"}

\* The width of an integer is looked up before its range is: without one the
\* driver panics, which fails the call
eip_encode_write(type, raw) ==
  CASE type \in IntegerTypes /\ raw.t = CarrierOf(type) ->
         IF type \notin type_width THEN Err("DRIVER_PANIC")
         ELSE IF raw.n \in IntRange(type) THEN Ok(raw.n) ELSE Err("invalid_type")
    [] type = "F32" /\ raw.t = "F64" ->
         IF ~is_nan(raw.n) /\ AsF32(raw.n) # raw.n THEN Err("invalid_type") ELSE Ok(AsF32(raw.n))
    [] type = "F64" /\ raw.t = "F64" -> Ok(raw.n)
    [] type = "Bool" /\ raw.t = "Bool" -> Ok(raw.n)
    [] OTHER -> Err("invalid_type")

\* A short integer may be read as any integer of its width or as a 64-bit one, and
\* takes the sign of what is expected; a 64-bit one keeps the sign of the device
Reinterpreted(type, expected, content) ==
  LET bits == content % Pow2(BitsOf(type))
  IN IF expected \in SignedTypes THEN Val("I64", SignExtend(bits, BitsOf(type))) ELSE Val("U64", bits)

eip_decode_read(type, expected, content) ==
  CASE type \notin type_width -> Err("invalid_type")
    [] type = "Bool" /\ expected = "Bool" -> Ok(Val("Bool", content))
    [] type \in IntegerTypes /\ BitsOf(type) < W64
         /\ (expected \in {"I64", "U64"} \/ (expected \in IntegerTypes /\ BitsOf(expected) = BitsOf(type))) ->
         Ok(Reinterpreted(type, expected, content))
    [] type = "I64" /\ expected \in {"I64", "U64"} -> Ok(Val("I64", content))
    [] type = "U64" /\ (expected = "U64" \/ (expected = "I64" /\ content \in IntRange("I64"))) ->
         Ok(Val("U64", content))
    [] type = "F32" /\ expected \in FloatTypes -> Ok(Val("F64", content))
    [] type = "F64" /\ expected = "F64" -> Ok(Val("F64", content))
    [] OTHER -> Err("invalid_type")

-----------------------------------------------------------------------------
(* Modbus: consecutive registers of W16 bits, the value's high word first  *)
(* (Abcd) or last (Cdab).                                                  *)

\* Registers a type is read from
register_width(type) == IF type \in {"I16", "U16"} THEN 1 ELSE IF type \in {"I64", "U64", "F64"} THEN 4 ELSE 2

minimal_unsigned_words(n) == IF n < Pow2(W16) THEN 1 ELSE IF n < Pow2(W32) THEN 2 ELSE 4

minimal_signed_words(n) ==
  IF n \in IntRange("I16") THEN 1 ELSE IF n \in IntRange("I32") THEN 2 ELSE 4

\* The words of an unsigned number, high word first, and back
ToWords(x, k) == [i \in 1..k |-> (x \div Pow2(W16 * (k - i))) % Pow2(W16)]
RECURSIVE FromWords(_)
FromWords(words) ==
  IF words = <<>> THEN 0
  ELSE FromWords(SubSeq(words, 1, Len(words) - 1)) * Pow2(W16) + words[Len(words)]

\* The same permutation for writing and for reading
reorder_words(words, order) ==
  IF order = "Abcd" THEN words ELSE [i \in DOMAIN words |-> words[Len(words) + 1 - i]]

\* The words of a float: tokens outside the integers' words, one for each word of
\* each float of each width, high word first; and the float they belong to, if any
FloatWord(x, i, k) == Pow2(W16) + 64 * (x + 2 * NaN) + 8 * k + i
FloatWords(x, k) == [i \in 1..k |-> FloatWord(x, i, k)]
FloatOf(ws) == (ws[1] - Pow2(W16)) \div 64 - 2 * NaN
IsFloat(ws) == ws[1] >= Pow2(W16) /\ ws = FloatWords(FloatOf(ws), Len(ws))

f32_lossless(x) == ~is_nan(x) /\ AsF32(x) = x

\* An explicit tag gives the width; a carrier tag is narrowed to the fewest
\* registers that hold the value, F64 to two where f32 holds it
encode_register_data(tag, raw, order) ==
  LET k == CASE tag = "U64" -> minimal_unsigned_words(raw.n)
             [] tag = "I64" -> minimal_signed_words(raw.n)
             [] tag = "F64" -> IF f32_lossless(raw.n) THEN 2 ELSE 4
             [] OTHER -> register_width(tag)
  IN CASE tag \in IntegerTypes /\ raw.t = CarrierOf(tag) ->
            Ok(reorder_words(ToWords(raw.n % Pow2(W16 * k), k), order))
       [] tag \in FloatTypes /\ raw.t = "F64" ->
            Ok(reorder_words(FloatWords(IF k = 2 THEN AsF32(raw.n) ELSE raw.n, k), order))
       [] OTHER -> Err("invalid_type")

\* Registers that do not hold the words of one float are some float all the same,
\* garbled
decode_register_value(type, words, order, garbled) ==
  LET w == register_width(type)
      ws == reorder_words(SubSeq(words, 1, w), order)
  IN CASE type \in SignedTypes -> Ok(Val("I64", SignExtend(FromWords(ws), W16 * w)))
       [] type \in UnsignedTypes -> Ok(Val("U64", FromWords(ws)))
       [] type \in FloatTypes -> Ok(Val("F64", IF IsFloat(ws) THEN FloatOf(ws) ELSE garbled))
       [] OTHER -> Err("decode_error")

-----------------------------------------------------------------------------
(* The answer of a read is one JSON envelope for the whole batch.          *)

\* serde_json writes a float that is not finite as null, and null is no f64:
\* one such value makes the whole envelope unreadable
EnvelopeReadable(raws) == \A i \in DOMAIN raws : raws[i].t = "F64" => is_finite(raws[i].n)
=============================================================================
