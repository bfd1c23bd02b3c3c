---------------------------- MODULE FloatNumbers ----------------------------
(***************************************************************************)
(* The number formats the conversions compute with, scaled down.  An       *)
(* integer type has a width in bits; a float is a multiple of 1/Unit that  *)
(* has at most P significant bits, or one of Inf, -Inf and NaN.  The       *)
(* widths keep the order that makes the 64-bit edge cases happen:          *)
(*                                                                         *)
(*     16  <  24 (f32)  <  32  <  53 (f64)  <  64                          *)
(*    W16  <   P32      < W32  <   P64      < W64                          *)
(*                                                                         *)
(* so that the largest 16-bit integers are exact in f32, the largest       *)
(* 32-bit ones only in f64 and the largest 64-bit ones in neither.         *)
(* A float is written in units: the float 1 is the number Unit.            *)
(***************************************************************************)
EXTENDS Integers, FiniteSets

CONSTANTS
  W16, W32, W64,      \* bits of the integer types
  P32, P64,           \* significant bits of the floats
  Unit,               \* units of 1, a power of two: the finest fraction is 1/Unit
  MaxExp              \* the largest binade of f64: above it a value is Inf

ASSUME WidthAssumption ==
  /\ {W16, W32, W64, P32, P64, Unit, MaxExp} \subseteq Nat \ {0}
  /\ W16 < P32 /\ P32 < W32 /\ W32 < P64 /\ P64 < W64
  /\ MaxExp < 16

Abs(x) == IF x < 0 THEN -x ELSE x

Pow2(k) == 2 ^ k

F64Max == (Pow2(P64) - 1) * Pow2(MaxExp)
\* The f32 format ends one binade earlier, far above every integer type
F32Max == (Pow2(P32) - 1) * Pow2(MaxExp + P64 - P32 - 1)

\* Not a number and infinity lie outside the finite floats
Inf == 4 * F64Max
NaN == 8 * F64Max

is_finite(x) == Abs(x) <= F64Max

is_nan(x) == x = NaN

\* IEEE comparison: every comparison with NaN is false
FLt(x, y) == ~is_nan(x) /\ ~is_nan(y) /\ x < y

\* The integer nearest to n/d, the even one of two (d > 0)
HalfEven(n, d) ==
  LET q == n \div d
      r == n % d
  IN IF 2 * r < d \/ (2 * r = d /\ q % 2 = 0) THEN q ELSE q + 1

\* n/d units (d > 0) rounded to p significant bits; beyond the format, infinity
RoundTo(n, d, p, max) ==
  IF Abs(n) > 2 * max * d THEN (IF n < 0 THEN -Inf ELSE Inf)
  ELSE LET Last == CHOOSE e \in {Pow2(k) : k \in 0..(MaxExp + P64 - p + 1)} :
                     /\ Abs(n) < Pow2(p) * e * d
                     /\ e = 1 \/ Abs(n) >= Pow2(p) * (e \div 2) * d
           x == HalfEven(n, d * Last) * Last
       IN IF Abs(x) > max THEN (IF n < 0 THEN -Inf ELSE Inf) ELSE x

Round64(n, d) == RoundTo(n, d, P64, F64Max)

\* `i as f64` of an integer
AsF64(i) == Round64(i * Unit, 1)

\* `x as f32` of an f64
AsF32(x) == IF is_finite(x) THEN RoundTo(x, 1, P32, F32Max) ELSE x

\* f64 arithmetic: the exact result, rounded once.  A non-finite operand gives
\* a non-finite result: the code never asks which one.
FSub(x, y) == IF is_finite(x) /\ is_finite(y) THEN Round64(x - y, 1) ELSE NaN
FAdd(x, y) == IF is_finite(x) /\ is_finite(y) THEN Round64(x + y, 1) ELSE NaN
FMul(x, y) == IF is_finite(x) /\ is_finite(y) THEN Round64(x * y, Unit) ELSE NaN
FDiv(x, y) ==
  IF ~is_finite(x) \/ ~is_finite(y) \/ y = 0 THEN NaN
  ELSE IF y > 0 THEN Round64(x * Unit, y) ELSE Round64(-x * Unit, -y)

IsWhole(x) == x % Unit = 0                    \* x.fract() == 0.0
Floor(x) == (x \div Unit) * Unit
Ceil(x) == -Floor(-x)
Trunc(x) == IF x < 0 THEN Ceil(x) ELSE Floor(x)
\* f64::round: to the nearest integer, halves away from zero
RoundAway(x) == IF x < 0 THEN -Floor(-x + Unit \div 2) ELSE Floor(x + Unit \div 2)

Whole(x) == x \div Unit                       \* `x as i128` of a whole float
=============================================================================
