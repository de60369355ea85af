------------------------------ MODULE MCFloatIO ------------------------------
(* Instantiation of FloatIO for TLC.  Every half mantissa, widened to      *)
(* float64, at the half exponents where the conversions change branch or   *)
(* bias (0 subnormal, 1 and 30 the normal edges, 14 and 15 around 1.0, 31  *)
(* infinity and NaN), positive and, for 0 and 31, negative; and values at  *)
(* the edges of the float32 and float64 widths.                            *)
EXTENDS FloatIO

HalfPatterns ==
  { s * 32768 + e * 1024 + m : s \in {0, 1}, e \in {0, 1, 14, 15, 30, 31}, m \in 0..1023 }
  \ { 32768 + e * 1024 + m : e \in {1, 14, 15, 30}, m \in 0..1023 }

AllHalves == {ToF64(float16BitsToFloat32(h)) : h \in HalfPatterns}

Extras ==
  { F64(0, 1023, 1, 0),                 \* 1 + 2^-23: float32 only
    F64(0, 1038, 8384512, 0),           \* 65520: rounds to +Inf as a half
    F64(0, 874, 0, 0),                  \* 2^-149: the least float32 subnormal
    F64(0, 998, 0, 0),                  \* 2^-25: half of the least half subnormal
    F64(0, 1021, 2796202, 357913941),   \* 1/3: float64 only
    F64(0, 1023, 0, 1),                 \* 1 + 2^-52: float32(f) = 1
    F64(0, 1023, 0, 268435456),         \* 1 + 2^-24: a float32 rounding tie
    F64(0, 1223, 0, 0),                 \* 2^200: float32(f) = +Inf
    F64(1, 0, 0, 1) }                   \* -2^-1074: a float64 subnormal

MCArgs == AllHalves \cup Extras
=============================================================================
