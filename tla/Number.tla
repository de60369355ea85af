------------------------------- MODULE Number -------------------------------
(***************************************************************************)
(* The Number sum type of src/runtime/number.go: a kind tag typ and the    *)
(* raw 64 bits of the value, kept as 8 big-endian bytes (Wire).  A caller  *)
(* sets it (AsInt, AsUint, AsFloat32, AsFloat64), marshals it into a       *)
(* buffer and unmarshals a buffer back into it; the getters and coercions  *)
(* are operators of the state.                                             *)
(*                                                                         *)
(* Go's int64(f) and uint64(f) of a float outside the target range are     *)
(* implementation-defined: the result is the set of values the builds      *)
(* give (amd64: the "integer indefinite" 0x8000...; arm64: saturation).    *)
(***************************************************************************)
EXTENDS Float

CONSTANTS IntVals,    \* int64 arguments of AsInt, as 8 bytes
          UintVals,   \* uint64 arguments of AsUint
          F32Vals,    \* float32 arguments of AsFloat32
          F64Vals,    \* float64 arguments of AsFloat64
          RawInputs   \* buffers of other shapes given to UnmarshalCBOR

VARIABLES typ, bits,  \* the Number
          wire,       \* the buffer MarshalCBOR returned last
          marshalled, \* [typ, bits] of the Number when it was marshalled
          res         \* the latest UnmarshalCBOR: [err, rest, own]

vars == <<typ, bits, wire, marshalled, res>>

Types == {"InvalidType", "IntType", "UintType", "Float32Type", "Float64Type"}
Zero64 == NatToU64(0)

\* getType / NextType (helpers.go): the kind named by the initial byte.
getType(b) ==
  LET major == getMajorType(b) IN
  CASE major = majorTypeUint   -> "UintType"
    [] major = majorTypeNegInt -> "IntType"
    [] major = majorTypeBytes  -> "BinType"
    [] major = majorTypeText   -> "StrType"
    [] major = majorTypeArray  -> "ArrayType"
    [] major = majorTypeMap    -> "MapType"
    [] major = majorTypeTag    -> "ExtensionType"
    [] getAddInfo(b) \in {simpleTrue, simpleFalse} -> "BoolType"
    [] getAddInfo(b) = simpleNull -> "NilType"
    [] getAddInfo(b) \in {26, 27} -> "Float64Type"
    [] OTHER -> "InvalidType"
NextType(b) == IF Len(b) = 0 THEN "InvalidType" ELSE getType(b[1])

\* The float the bits hold, by kind.
Bits32(n) == Float32frombits(LowBytes(n.bits, 4))
Bits64(n) == Float64frombits(n.bits)

-----------------------------------------------------------------------------
(* Setters, as [typ, bits] of the Number after the call. *)
\* AsInt with the reset of bits left out.
AsIntNoReset(n, i) == IF i = Zero64 THEN [n EXCEPT !.typ = "InvalidType"]
                      ELSE [typ |-> "IntType", bits |-> i]
AsInt(n, i) == IF i = Zero64 THEN [typ |-> "InvalidType", bits |-> Zero64]
               ELSE [typ |-> "IntType", bits |-> i]
AsUint(n, u) == [typ |-> "UintType", bits |-> u]
AsFloat32(n, f) == [typ |-> "Float32Type", bits |-> Pad8(F32Bytes(f))]
AsFloat64(n, f) == [typ |-> "Float64Type", bits |-> F64Bytes(f)]

\* MarshalCBOR: the bytes appended for the Number n.
\* MarshalCBOR writing an IntType value as unsigned.
MarshalCBORIntAsUint(n) ==
  CASE n.typ = "IntType"     -> AppendUint64(n.bits)
    [] n.typ = "UintType"    -> AppendUint64(n.bits)
    [] n.typ = "Float64Type" -> AppendFloat64(Bits64(n))
    [] n.typ = "Float32Type" -> AppendFloat32(Bits32(n))
    [] OTHER                 -> AppendInt64(Zero64)

MarshalCBOR(n) ==
  CASE n.typ = "IntType"     -> AppendInt64(n.bits)
    [] n.typ = "UintType"    -> AppendUint64(n.bits)
    [] n.typ = "Float64Type" -> AppendFloat64(Bits64(n))
    [] n.typ = "Float32Type" -> AppendFloat32(Bits32(n))
    [] OTHER                 -> AppendInt64(Zero64)

\* UnmarshalCBOR into n: [err, rest, n'] (n is unchanged on error).
UnmarshalCBOR(n, b) ==
  LET t == NextType(b)
      R(r, set(_, _)) == IF r.err # "none" THEN [err |-> r.err, rest |-> b, n |-> n]
                      ELSE [err |-> "none", rest |-> r.rest, n |-> set(n, r.val)]
  IN CASE t = "IntType"     -> R(ReadInt64Bytes(b), AsInt)
       [] t = "UintType"    -> R(ReadUint64Bytes(b), AsUint)
       [] t = "Float64Type" -> R(ReadFloat64Bytes(b), AsFloat64)
       [] t = "Float32Type" -> R(ReadFloat32Bytes(b), AsFloat32)
       [] OTHER             -> [err |-> "UnsupportedType", rest |-> b, n |-> n]

-----------------------------------------------------------------------------
(* isExactInt and the coercions.  A coercion is the set of its possible    *)
(* [v, ok] results: one, except where Go's conversion is                   *)
(* implementation-defined.                                                 *)

\* The position of the lowest set bit of v > 0 (v < 2^30).
LowBit(v) == CHOOSE k \in 0..29 : v % Pow2[k] = 0 /\ v % Pow2[k + 1] # 0

\* bits.TrailingZeros64 of a float32 and a float64 mantissa field.
TrailingZeros32(m) == IF m = 0 THEN 64 ELSE LowBit(m)
TrailingZeros52(g) == IF g.lo # 0 THEN LowBit(g.lo)
                      ELSE IF g.hi # 0 THEN 29 + LowBit(g.hi) ELSE 64

\* isExactInt comparing the trailing zeros with one bit too few.
isExactIntOffByOne(n) ==
  CASE n.typ \in {"InvalidType", "IntType", "UintType"} -> TRUE
    [] n.typ = "Float32Type" ->
         LET f == Bits32(n) x == f.exp - 127 IN
         \/ f.exp = 0 /\ f.mant = 0
         \/ ~(x < 0 \/ x = 128) /\ (x >= 23 \/ TrailingZeros32(f.mant) >= 22 - x)
    [] n.typ = "Float64Type" ->
         LET g == Bits64(n) x == g.exp - 1023 IN
         \/ IsZero64(g)
         \/ ~(x < 0 \/ x = 1024) /\ (x >= 52 \/ TrailingZeros52(g) >= 51 - x)

isExactInt(n) ==
  CASE n.typ \in {"InvalidType", "IntType", "UintType"} -> TRUE
    [] n.typ = "Float32Type" ->
         LET f == Bits32(n) x == f.exp - 127 IN
         \/ f.exp = 0 /\ f.mant = 0
         \/ ~(x < 0 \/ x = 128) /\ (x >= 23 \/ TrailingZeros32(f.mant) >= 23 - x)
    [] n.typ = "Float64Type" ->
         LET g == Bits64(n) x == g.exp - 1023 IN
         \/ IsZero64(g)
         \/ ~(x < 0 \/ x = 1024) /\ (x >= 52 \/ TrailingZeros52(g) >= 52 - x)

\* The float value of the Number as a float64 (exact for a float32).
AsF64(n) == IF n.typ = "Float32Type" THEN ToF64(Bits32(n)) ELSE Bits64(n)
Unbiased(g) == g.exp - 1023
MantZero(g) == g.hi = 0 /\ g.lo = 0

\* |g| <= 2^k for a float64 g that is not NaN, k >= 0.
AtMostPow2(g, k) == IsZero64(g) \/ Unbiased(g) < k \/ (Unbiased(g) = k /\ MantZero(g))

\* Bit j (0..52) of the significand of a normal float64, and the 64 bits
\* of the integer |g| (exact when g is an integer below 2^64).
SigBit(g, j) == IF j = 52 THEN 1 ELSE IF j >= 29 THEN (g.hi \div Pow2[j - 29]) % 2
                ELSE (g.lo \div Pow2[j]) % 2
MagBits(g) == [k \in 0..63 |-> LET j == k - (Unbiased(g) - 52) IN
                               IF IsZero64(g) \/ j \notin 0..52 THEN 0 ELSE SigBit(g, j)]
ByteOfBits(v, base) == v[base] + 2 * v[base + 1] + 4 * v[base + 2] + 8 * v[base + 3]
  + 16 * v[base + 4] + 32 * v[base + 5] + 64 * v[base + 6] + 128 * v[base + 7]
BitsToU64(v) == [i \in 1..8 |-> ByteOfBits(v, 8 * (8 - i))]
U64ToBits(u) == [k \in 0..63 |-> (u[8 - k \div 8] \div (2 ^ (k % 8))) % 2]
\* Two's complement negation: bits above the lowest set bit flip.
Negate(u) ==
  LET v == U64ToBits(u) IN
  IF \A k \in 0..63 : v[k] = 0 THEN u
  ELSE LET low == CHOOSE k \in 0..63 : v[k] = 1 /\ \A l \in 0..(k - 1) : v[l] = 0
       IN BitsToU64([k \in 0..63 |-> IF k <= low THEN v[k] ELSE 1 - v[k]])

MinInt64Bits  == <<128, 0, 0, 0, 0, 0, 0, 0>>
MaxInt64Bits  == <<127, 255, 255, 255, 255, 255, 255, 255>>
MaxUint64Bits == <<255, 255, 255, 255, 255, 255, 255, 255>>
NegZero32Bits == <<0, 0, 0, 0, 128, 0, 0, 0>>

\* int64(g) and uint64(g) for an integer g with |g| <= 2^63 (resp. 0 <= g
\* <= 2^64): exact inside the range, implementation-defined at 2^63 (2^64).
Int64Of(g) ==
  IF Unbiased(g) = 63 /\ g.sign = 0 THEN {MinInt64Bits, MaxInt64Bits}
  ELSE LET m == BitsToU64(MagBits(g)) IN {IF g.sign = 1 THEN Negate(m) ELSE m}
Uint64Of(g) ==
  IF Unbiased(g) = 64 THEN {Zero64, MaxUint64Bits} ELSE {BitsToU64(MagBits(g))}

Res(v, ok) == [v |-> v, ok |-> ok]

CoerceInt(n) ==
  CASE n.typ \in {"InvalidType", "IntType"} -> {Res(n.bits, TRUE)}
    [] n.typ = "UintType" -> {Res(n.bits, ~IsNeg(n.bits))}
    [] n.typ = "Float32Type" ->
         IF isExactInt(n) /\ AtMostPow2(AsF64(n), 63) THEN {Res(w, TRUE) : w \in Int64Of(AsF64(n))}
         ELSE IF n.bits \in {Zero64, NegZero32Bits} THEN {Res(Zero64, TRUE)}
         ELSE {Res(Zero64, FALSE)}
    [] n.typ = "Float64Type" ->
         IF isExactInt(n) /\ AtMostPow2(AsF64(n), 63) THEN {Res(w, TRUE) : w \in Int64Of(AsF64(n))}
         ELSE {Res(Zero64, n.bits \in {Zero64, MinInt64Bits})}

\* f >= 0 for a float64 f (false for NaN; true for -0).
NonNeg(g) == ~IsNaN64(g) /\ (g.sign = 0 \/ IsZero64(g))

CoerceUInt(n) ==
  CASE n.typ \in {"InvalidType", "IntType"} ->
         IF ~IsNeg(n.bits) THEN {Res(n.bits, TRUE)} ELSE {Res(Zero64, FALSE)}
    [] n.typ = "UintType" -> {Res(n.bits, TRUE)}
    [] n.typ = "Float32Type" ->
         IF NonNeg(AsF64(n)) /\ AtMostPow2(AsF64(n), 64) /\ isExactInt(n)
           THEN {Res(w, TRUE) : w \in Uint64Of(AsF64(n))}
         ELSE IF n.bits \in {Zero64, NegZero32Bits} THEN {Res(Zero64, TRUE)}
         ELSE {Res(Zero64, FALSE)}
    [] n.typ = "Float64Type" ->
         IF NonNeg(AsF64(n)) /\ AtMostPow2(AsF64(n), 64) /\ isExactInt(n)
           THEN {Res(w, TRUE) : w \in Uint64Of(AsF64(n))}
         ELSE {Res(Zero64, n.bits \in {Zero64, MinInt64Bits})}
-----------------------------------------------------------------------------
(* The caller's operations on one Number. *)

Num == [typ |-> typ, bits |-> bits]
NoRes == [err |-> "none", rest |-> <<>>, own |-> FALSE]

Init ==
  /\ typ = "InvalidType" /\ bits = Zero64      \* the zero value
  /\ wire = <<>> /\ marshalled = [typ |-> "none", bits |-> Zero64]
  /\ res = NoRes

Set(n) ==
  /\ typ' = n.typ /\ bits' = n.bits /\ res' = NoRes
  /\ UNCHANGED <<wire, marshalled>>

SetInt     == \E i \in IntVals : Set(AsInt(Num, i))
SetUint    == \E u \in UintVals : Set(AsUint(Num, u))
SetFloat32 == \E f \in F32Vals : Set(AsFloat32(Num, f))
SetFloat64 == \E f \in F64Vals : Set(AsFloat64(Num, f))

Marshal ==
  /\ wire' = MarshalCBOR(Num) /\ marshalled' = Num /\ res' = NoRes
  /\ UNCHANGED <<typ, bits>>

\* UnmarshalCBOR of the marshalled buffer, or of another buffer.
Unmarshal ==
  \E b \in {wire} \cup RawInputs :
    LET u == UnmarshalCBOR(Num, b) IN
    /\ typ' = u.n.typ /\ bits' = u.n.bits
    /\ res' = [err |-> u.err, rest |-> u.rest, own |-> b = wire /\ marshalled.typ # "none"]
    /\ UNCHANGED <<wire, marshalled>>

Next == SetInt \/ SetUint \/ SetFloat32 \/ SetFloat64 \/ Marshal \/ Unmarshal

Spec == Init /\ [][Next]_vars
-----------------------------------------------------------------------------
(* Properties *)

\* The type invariant, with the representation invariant the getters rely
\* on: the zero value (InvalidType) holds zero bits, as Int() and
\* CoerceInt return n.bits for it.
TypeOK ==
  /\ typ \in Types /\ bits \in [1..8 -> 0..255]
  /\ typ = "InvalidType" => bits = Zero64
  /\ wire \in Seq(0..255)
  /\ marshalled \in [typ : Types \cup {"none"}, bits : [1..8 -> 0..255]]
  /\ res.own \in BOOLEAN /\ res.rest \in Seq(0..255)

\* Reference: a float64 is an integer when no significand bit falls below
\* the binary point.
IsIntegral(g) ==
  \/ IsZero64(g)
  \/ g.exp \in 1..2046 /\ \A j \in 0..52 : j < 52 - Unbiased(g) => SigBit(g, j) = 0

\* The exact integer the Number holds, as sign and 64-bit magnitude, or
\* "none" when it holds no integer of at most 64 bits.
ExactValue(n) ==
  CASE n.typ \in {"InvalidType", "IntType"} ->
         [neg |-> IsNeg(n.bits), mag |-> IF IsNeg(n.bits) THEN Negate(n.bits) ELSE n.bits]
    [] n.typ = "UintType" -> [neg |-> FALSE, mag |-> n.bits]
    [] OTHER -> LET g == AsF64(n) IN
                IF IsIntegral(g) /\ (IsZero64(g) \/ Unbiased(g) <= 63)
                  THEN [neg |-> g.sign = 1 /\ ~IsZero64(g), mag |-> BitsToU64(MagBits(g))]
                ELSE "none"
Signed(v) == [neg |-> IsNeg(v), mag |-> IF IsNeg(v) THEN Negate(v) ELSE v]
Unsigned(v) == [neg |-> FALSE, mag |-> v]

\* CoerceInt and CoerceUInt succeed on a float only when it is an integer
\* (isExactInt against the positional reference, for both widths).
CoerceOnlyIntegers ==
  typ \in {"Float32Type", "Float64Type"} =>
    \A r \in CoerceInt(Num) \cup CoerceUInt(Num) : r.ok => IsIntegral(AsF64(Num))

\* Spec 4.9: a coercion succeeds only when exact: the int64 (uint64) it
\* returns with ok is the value the Number holds.
CoerceExact ==
  /\ \A r \in CoerceInt(Num) : r.ok => ExactValue(Num) = Signed(r.v)
  /\ \A r \in CoerceUInt(Num) : r.ok => ExactValue(Num) = Unsigned(r.v)

\* MarshalCBOR then UnmarshalCBOR of the result restores the value: the
\* bits come back, and the kind too, except that a non-negative int (or
\* the zero value) comes back as a uint, the only kind CBOR major type 0
\* names.  Float32 is left out: getType names a float32 item Float64Type
\* (helpers.go:31), so it never comes back (a finding of the project).
MarshalRoundTrip ==
  res.own /\ marshalled.typ # "Float32Type" =>
    /\ res.err = "none" /\ res.rest = <<>> /\ bits = marshalled.bits
    /\ \/ typ = marshalled.typ
       \/ marshalled.typ \in {"InvalidType", "IntType"} /\ typ = "UintType" /\ ~IsNeg(bits)

====
