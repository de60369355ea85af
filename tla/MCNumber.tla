------------------------------ MODULE MCNumber ------------------------------
(***************************************************************************)
(* Instantiation of Number for TLC: integers on both sides of the int64   *)
(* range and of the inline header, and floats at the edges of the         *)
(* coercions: zero and -0, non-integers one bit below the binary point,   *)
(* the largest integers below 2^63 and 2^64, 2^63, -2^63, 2^64, Inf, NaN   *)
(* and subnormals.                                                         *)
(***************************************************************************)
EXTENDS Number

I64(n) == IF n >= 0 THEN NatToU64(n) ELSE Complement(NatToU64(-1 - n))

MCIntVals == {I64(0), I64(1), I64(-1), I64(23), I64(24), I64(-25), MaxInt64Bits, MinInt64Bits}
MCUintVals == {Zero64, NatToU64(24), MinInt64Bits, MaxUint64Bits}

MCF32Vals ==
  { F32(0, 0, 0), F32(1, 0, 0), F32(0, 0, 1),           \* 0, -0, a subnormal
    F32(0, 127, Pow2[22]), F32(0, 126, 0),              \* 1.5, 0.5
    F32(0, 128, Pow2[22]), F32(1, 128, Pow2[22]),       \* 3, -3
    F32(0, 150, 1), F32(0, 149, 1),                     \* 2^23 + 1, 2^22 + 0.5
    F32(0, 190, 0), F32(1, 190, 0), F32(0, 191, 0),     \* 2^63, -2^63, 2^64
    F32(0, 189, Pow2[23] - 1),                          \* the largest float32 below 2^63
    F32(0, 255, 0), F32(0, 255, 1) }                    \* Inf, NaN

MCF64Vals ==
  { F64(0, 0, 0, 0), F64(1, 0, 0, 0), F64(0, 0, 0, 1),  \* 0, -0, a subnormal
    F64(0, 1023, Pow2[22], 0),                          \* 1.5
    F64(0, 1075, 0, 1), F64(0, 1074, 0, 1),             \* 2^52 + 1, 2^51 + 0.5
    F64(0, 1086, 0, 0), F64(1, 1086, 0, 0), F64(0, 1087, 0, 0), \* 2^63, -2^63, 2^64
    F64(0, 1085, Pow2[23] - 1, Pow2[29] - 1),           \* 2^63 - 1024
    F64(1, 1085, Pow2[23] - 1, Pow2[29] - 1),           \* -(2^63 - 1024)
    F64(0, 1086, Pow2[23] - 1, Pow2[29] - 1),           \* 2^64 - 2048
    F64(0, 2047, 0, 0), F64(0, 2047, 0, 1) }            \* Inf, NaN

MCRawInputs ==
  { <<>>, <<249, 60, 0>>,                                \* empty; half 1.0
    <<97, 97>>, <<245>>, <<24>>,                         \* "a"; true; a short uint
    <<59, 255, 255, 255, 255, 255, 255, 255, 255>> }     \* -2^64: overflows int64
====
