-------------------------------- MODULE Float --------------------------------
(***************************************************************************)
(* The float appenders and readers of src/runtime/read_bytes.go at the bit *)
(* level.  A float32 is [sign, exp (8 bits), mant (23 bits)]; a float64 is *)
(* [sign, exp (11 bits), hi, lo], its 52-bit mantissa split into the top   *)
(* 23 bits hi and the low 29 bits lo, so that every field fits TLC's       *)
(* integers and float32(f) keeps hi and rounds on lo.  A half is its       *)
(* 16-bit pattern.  Go's conversions float32(f) and float64(f) are         *)
(* modelled by what they do: round to nearest even, and exact widening.    *)
(***************************************************************************)
EXTENDS Wire

Pow2 == [k \in 0..30 |-> 2^k]

\* The position of the highest set bit of m > 0.
HighBit(m) == CHOOSE k \in 0..29 : Pow2[k] <= m /\ m < 2 * Pow2[k]

F32(s, e, m) == [sign |-> s, exp |-> e, mant |-> m]
F64(s, e, h, l) == [sign |-> s, exp |-> e, hi |-> h, lo |-> l]

IsNaN64(f)  == f.exp = 2047 /\ (f.hi # 0 \/ f.lo # 0)
IsZero64(f) == f.exp = 0 /\ f.hi = 0 /\ f.lo = 0

\* Go's == on float64.
F64Eq(a, b) == ~IsNaN64(a) /\ ~IsNaN64(b) /\ (a = b \/ (IsZero64(a) /\ IsZero64(b)))

\* A NaN keeps its payload with the quiet bit set.
Quiet(m) == IF m >= Pow2[22] THEN m ELSE m + Pow2[22]

\* float64(f) for a float32 f: exact.
ToF64(f) ==
  CASE f.exp = 255 -> F64(f.sign, 2047, IF f.mant = 0 THEN 0 ELSE Quiet(f.mant), 0)
    [] f.exp = 0 /\ f.mant = 0 -> F64(f.sign, 0, 0, 0)
    [] f.exp = 0 -> LET k == HighBit(f.mant) IN
                    F64(f.sign, k - 149 + 1023, (f.mant - Pow2[k]) * Pow2[23 - k], 0)
    [] OTHER -> F64(f.sign, f.exp - 127 + 1023, f.mant, 0)

\* float32(f) for a float64 f: round to nearest, ties to even.
ToF32(f) ==
  LET e32 == f.exp - 1023 + 127
      Inf == F32(f.sign, 255, 0)
  IN
  CASE f.exp = 2047 -> IF f.hi = 0 /\ f.lo = 0 THEN Inf ELSE F32(f.sign, 255, Quiet(f.hi))
    [] f.exp = 0 -> F32(f.sign, 0, 0)
    [] e32 >= 255 -> Inf
    [] e32 >= 1 ->
         LET up == f.lo > Pow2[28] \/ (f.lo = Pow2[28] /\ f.hi % 2 = 1)
             m  == f.hi + (IF up THEN 1 ELSE 0)
         IN IF m < Pow2[23] THEN F32(f.sign, e32, m)
            ELSE IF e32 + 1 = 255 THEN Inf ELSE F32(f.sign, e32 + 1, 0)
    [] OTHER ->
         \* subnormal result: the 24-bit significand shifted right by j
         LET j == 1 - e32
             H == Pow2[23] + f.hi
         IN IF j > 25 THEN F32(f.sign, 0, 0)
            ELSE LET q    == H \div Pow2[j]
                     r    == H % Pow2[j]
                     half == Pow2[j - 1]
                     up   == r > half \/ (r = half /\ (f.lo > 0 \/ q % 2 = 1))
                     m    == q + (IF up THEN 1 ELSE 0)
                 IN IF m = Pow2[23] THEN F32(f.sign, 1, 0) ELSE F32(f.sign, 0, m)

-----------------------------------------------------------------------------
\* float16BitsToFloat32
float16BitsToFloat32(h) ==
  LET sign == h \div Pow2[15]
      exp  == (h \div Pow2[10]) % 32
      mant == h % Pow2[10]
  IN
  CASE exp = 0 /\ mant = 0 -> F32(sign, 0, 0)
    \* subnormal: float32(math.Ldexp(mant, -24)), exact
    [] exp = 0 -> LET k == HighBit(mant) IN
                  F32(sign, k - 24 + 127, (mant - Pow2[k]) * Pow2[23 - k])
    [] exp = 31 -> F32(sign, 255, mant * Pow2[13])
    [] OTHER -> F32(sign, exp - 15 + 127, mant * Pow2[13])

\* float32ToFloat16Bits, round to nearest even.
float32ToFloat16Bits(f) ==
  LET e32 == f.exp - 127
      e16 == e32 + 15
      mant == f.mant
      InfH == 31 * Pow2[10]
      h == CASE f.exp = 255 ->
                  IF mant = 0 THEN InfH
                  ELSE LET h0 == InfH + mant \div Pow2[13]
                       IN IF h0 % Pow2[10] = 0 THEN h0 + 1 ELSE h0
             [] f.exp = 0 -> 0
             [] e16 >= 31 -> InfH
             [] e16 <= 0 ->
                  LET shift == 14 - e32 IN
                  IF shift > 24 THEN 0
                  ELSE LET mantissa == mant + Pow2[23]
                           val == mantissa + Pow2[shift - 1] - 1 + ((mantissa \div Pow2[shift]) % 2)
                       IN (val \div Pow2[shift]) % Pow2[10]
             [] OTHER ->
                  LET val  == mant + Pow2[12] - 1 + ((mant \div Pow2[13]) % 2)
                      frac == val \div Pow2[13]
                  IN IF frac \div Pow2[10] = 0 THEN e16 * Pow2[10] + (frac % Pow2[10])
                     ELSE IF e16 + 1 >= 31 THEN InfH ELSE (e16 + 1) * Pow2[10]
  IN f.sign * Pow2[15] + h

-----------------------------------------------------------------------------
\* Big-endian bytes of the bit patterns.
U16Bytes(h) == <<h \div 256, h % 256>>
F32BytesUnshifted(f) ==
  << f.sign * 128 + f.exp, (f.exp % 2) * 128 + f.mant \div Pow2[16],
     (f.mant \div 256) % 256, f.mant % 256 >>
F32Bytes(f) ==
  << f.sign * 128 + f.exp \div 2, (f.exp % 2) * 128 + f.mant \div Pow2[16],
     (f.mant \div 256) % 256, f.mant % 256 >>
F64Bytes(f) ==
  << f.sign * 128 + f.exp \div 16, (f.exp % 16) * 16 + f.hi \div Pow2[19],
     (f.hi \div Pow2[11]) % 256, (f.hi \div 8) % 256,
     (f.hi % 8) * 32 + f.lo \div Pow2[24], (f.lo \div Pow2[16]) % 256,
     (f.lo \div 256) % 256, f.lo % 256 >>

AppendFloat16(f) == <<makeByte(majorTypeSimple, 25)>> \o U16Bytes(float32ToFloat16Bits(f))
AppendFloat32(f) == <<makeByte(majorTypeSimple, 26)>> \o F32Bytes(f)
AppendFloat64(f) == <<makeByte(majorTypeSimple, 27)>> \o F64Bytes(f)

\* AppendFloat: float32 if it holds the same value, else float64.
AppendFloat(f) == IF F64Eq(ToF64(ToF32(f)), f) THEN AppendFloat32(ToF32(f)) ELSE AppendFloat64(f)

AppendFloatCanonicalVsSingle(f0) ==
  LET f == IF IsZero64(f0) THEN F64(0, 0, 0, 0) ELSE f0 IN
  IF IsNaN64(f) THEN AppendFloat16(ToF32(f))
  ELSE IF F64Eq(ToF64(float16BitsToFloat32(float32ToFloat16Bits(ToF32(f)))), ToF64(ToF32(f)))
    THEN AppendFloat16(ToF32(f))
  ELSE AppendFloat(f)

\* AppendFloatCanonical: -0 becomes +0, NaN goes to f16, then the first of
\* f16, f32 that widens back to the same value, else f64.
AppendFloatCanonical(f0) ==
  LET f == IF IsZero64(f0) THEN F64(0, 0, 0, 0) ELSE f0 IN
  IF IsNaN64(f) THEN AppendFloat16(ToF32(f))
  ELSE IF F64Eq(ToF64(float16BitsToFloat32(float32ToFloat16Bits(ToF32(f)))), f)
    THEN AppendFloat16(ToF32(f))
  ELSE AppendFloat(f)

\* math.Float32frombits and math.Float64frombits of big-endian bytes w.
Float32frombits(w) ==
  F32(w[1] \div 128, (w[1] % 128) * 2 + w[2] \div 128, (w[2] % 128) * Pow2[16] + w[3] * 256 + w[4])
Float64frombits(w) ==
  F64(w[1] \div 128, (w[1] % 128) * 16 + w[2] \div 16,
      (w[2] % 16) * Pow2[19] + w[3] * Pow2[11] + w[4] * 8 + w[5] \div 32,
      (w[5] % 32) * Pow2[24] + w[6] * Pow2[16] + w[7] * 256 + w[8])

ReadFloat16Bytes(b) ==
  IF Len(b) < 3 THEN Fail("ShortBytes", b)
  ELSE IF b[1] # makeByte(majorTypeSimple, 25) THEN Fail("BadPrefix", b)
  ELSE Ok(float16BitsToFloat32(b[2] * 256 + b[3]), Drop(b, 3))

ReadFloat32Bytes(b) ==
  IF Len(b) < 5 THEN Fail("ShortBytes", b)
  ELSE IF b[1] # makeByte(majorTypeSimple, 26) THEN Fail("BadPrefix", b)
  ELSE Ok(Float32frombits(SubSeq(b, 2, 5)), Drop(b, 5))

ReadFloat64BytesShortByOne(b) ==
  IF Len(b) <= 9 THEN Fail("ShortBytes", b)
  ELSE IF b[1] # makeByte(majorTypeSimple, 27) THEN Fail("BadPrefix", b)
  ELSE Ok(Float64frombits(SubSeq(b, 2, 9)), Drop(b, 9))

ReadFloat64Bytes(b) ==
  IF Len(b) < 9 THEN Fail("ShortBytes", b)
  ELSE IF b[1] # makeByte(majorTypeSimple, 27) THEN Fail("BadPrefix", b)
  ELSE Ok(Float64frombits(SubSeq(b, 2, 9)), Drop(b, 9))

-----------------------------------------------------------------------------
(* The Reader's float methods (part_013): the stateless reader, then in    *)
(* strict mode the bytes read must be AppendFloatCanonical of the value.   *)
(* The result's rest is r.buf after the call: advanced only on success.    *)
StrictFloatRead(b, r, v64, strict) ==
  LET encLen == Len(b) - Len(r.rest)
      canon  == AppendFloatCanonical(v64)
  IN
  IF r.err # "none" THEN Fail(r.err, b)
  ELSE IF strict /\ (encLen < 0 \/ encLen > Len(b)) THEN Fail("ShortBytes", b)
  ELSE IF strict /\ (Len(canon) # encLen \/ SubSeq(b, 1, encLen) # canon)
    THEN Fail("NonCanonicalFloat", b)
  ELSE r

StrictFloatReadVsAppendFloat(b, r, v64, strict) ==
  LET encLen == Len(b) - Len(r.rest)
      canon  == AppendFloat(v64)
  IN
  IF r.err # "none" THEN Fail(r.err, b)
  ELSE IF strict /\ (Len(canon) # encLen \/ SubSeq(b, 1, encLen) # canon)
    THEN Fail("NonCanonicalFloat", b)
  ELSE r

ReaderReadFloat32ComparingAppendFloat(b, strict) ==
  LET r == ReadFloat32Bytes(b) IN
  StrictFloatReadVsAppendFloat(b, r, IF r.err = "none" THEN ToF64(r.val) ELSE r.val, strict)

ReaderReadFloat32(b, strict) ==
  LET r == ReadFloat32Bytes(b) IN
  StrictFloatRead(b, r, IF r.err = "none" THEN ToF64(r.val) ELSE r.val, strict)

ReaderReadFloat64(b, strict) ==
  LET r == ReadFloat64Bytes(b) IN StrictFloatRead(b, r, r.val, strict)
=============================================================================
