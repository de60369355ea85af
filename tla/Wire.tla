-------------------------------- MODULE Wire --------------------------------
(***************************************************************************)
(* The wire layer of the runtime package: the initial-byte layout          *)
(* (src/runtime/defs.go), the canonical appenders and the stateless        *)
(* ReadXxxBytes readers (src/runtime/read_bytes.go).  Every operator is a  *)
(* pure function of a byte sequence, as the Go functions are of a []byte.  *)
(*                                                                         *)
(* Data abstraction.  A byte is an integer in 0..255.  TLC integers are 32 *)
(* bits wide, so a uint64 (and an int64, in two's complement) is kept as   *)
(* its 8 big-endian bytes: comparisons against MaxUint8/16/32 and          *)
(* MaxInt64 become tests on leading bytes, and -1-n on int64 is the        *)
(* bytewise complement.  A length is turned into an integer only through   *)
(* SatNat, which is exact below 2^24 and saturates above it: every such    *)
(* length is compared with a buffer length or a container limit, both far  *)
(* below 2^24 in any model.                                                *)
(*                                                                         *)
(* A reader returns a record [err, val, rest] standing for the Go triple   *)
(* (value, remainder, error); err = "none" is a nil error.                 *)
(***************************************************************************)
EXTENDS Integers, Sequences

CONSTANT ValidateUTF8OnDecode  \* the package-level flag of defs.go:186

ASSUME ValidateUTF8OnDecode \in BOOLEAN

\* Major types and additional-info values (defs.go:45-77).
majorTypeUint   == 0
majorTypeNegInt == 1
majorTypeBytes  == 2
majorTypeText   == 3
majorTypeArray  == 4
majorTypeMap    == 5
majorTypeTag    == 6
majorTypeSimple == 7
addInfoDirect     == 23
addInfoUint8      == 24
addInfoUint64     == 27
addInfoIndefinite == 31
simpleFalse == 20
simpleTrue  == 21
simpleNull  == 22
simpleBreak == 31

\* Variant: the major type shifted by 6 bits instead of 5.
makeByteShift6(major, addInfo) == major * 64 + addInfo
makeByte(major, addInfo) == major * 32 + addInfo
getMajorType(b) == b \div 32
getAddInfo(b) == b % 32

BreakByte == makeByte(majorTypeSimple, simpleBreak)

-----------------------------------------------------------------------------
(* uint64 / int64 as 8 big-endian bytes. *)

Drop(s, n) == SubSeq(s, n + 1, Len(s))
Pad8(s) == [i \in 1..8 |-> IF i <= 8 - Len(s) THEN 0 ELSE s[i - (8 - Len(s))]]
NatToU64(n) == [i \in 1..8 |-> IF i <= 4 THEN 0 ELSE (n \div (256 ^ (8 - i))) % 256]
\* u <= 2^(8k) - 1
FitsIn(u, k) == \A i \in 1..(8 - k) : u[i] = 0
LowBytes(u, k) == SubSeq(u, 9 - k, 8)
BigLen == 16777216
SatNat(u) == IF FitsIn(u, 3) THEN (u[6] * 256 + u[7]) * 256 + u[8] ELSE BigLen
\* int64 helpers: the sign bit and -1 - i.
IsNeg(i) == i[1] >= 128
Complement(u) == [i \in 1..8 |-> 255 - u[i]]

\* Number of argument bytes after an initial byte with additional info a <= 27.
ArgWidth(a) == CASE a <= addInfoDirect -> 0
                 [] a = 24 -> 1
                 [] a = 25 -> 2
                 [] a = 26 -> 4
                 [] a = 27 -> 8
\* The argument of the header at the head of b (its additional info is <= 27).
Arg(b) == LET w == ArgWidth(getAddInfo(b[1])) IN
          IF w = 0 THEN NatToU64(getAddInfo(b[1])) ELSE Pad8(SubSeq(b, 2, 1 + w))

Ok(v, rest) == [err |-> "none", val |-> v, rest |-> rest]
Fail(e, b) == [err |-> e, val |-> <<>>, rest |-> b]
\* An inner walk failed: the Go code returns its own input b with the error.
Rebase(r, b) == IF r.err = "none" THEN r ELSE Fail(r.err, b)

-----------------------------------------------------------------------------
(* Appenders: the bytes each AppendXxx adds at the end of its buffer. *)

\* Variant: the one-byte form stops one short of MaxUint8.
appendUintCoreShort8(major, u) ==
  IF FitsIn(u, 1) /\ u[8] <= addInfoDirect THEN <<makeByte(major, u[8])>>
  ELSE IF FitsIn(u, 1) /\ u[8] < 255 THEN <<makeByte(major, 24)>> \o LowBytes(u, 1)
  ELSE IF FitsIn(u, 2) THEN <<makeByte(major, 25)>> \o LowBytes(u, 2)
  ELSE IF FitsIn(u, 4) THEN <<makeByte(major, 26)>> \o LowBytes(u, 4)
  ELSE <<makeByte(major, 27)>> \o u

\* appendUintCore: the shortest header for u under the given major type.
appendUintCore(major, u) ==
  IF FitsIn(u, 1) /\ u[8] <= addInfoDirect THEN <<makeByte(major, u[8])>>
  ELSE IF FitsIn(u, 1) THEN <<makeByte(major, 24)>> \o LowBytes(u, 1)
  ELSE IF FitsIn(u, 2) THEN <<makeByte(major, 25)>> \o LowBytes(u, 2)
  ELSE IF FitsIn(u, 4) THEN <<makeByte(major, 26)>> \o LowBytes(u, 4)
  ELSE <<makeByte(major, 27)>> \o u

AppendUint64(u) == appendUintCore(majorTypeUint, u)

\* AppendInt64: the two inline fast paths, then appendUintCore on n = -1 - i.
AppendInt64(i) ==
  IF ~IsNeg(i) /\ FitsIn(i, 1) /\ i[8] <= addInfoDirect
    THEN <<makeByte(majorTypeUint, i[8])>>
  ELSE IF IsNeg(i)
    THEN LET neg == Complement(i) IN
         IF FitsIn(neg, 1) /\ neg[8] <= addInfoDirect
           THEN <<makeByte(majorTypeNegInt, neg[8])>>
           ELSE appendUintCore(majorTypeNegInt, neg)
  ELSE appendUintCore(majorTypeUint, i)

\* AppendString / AppendBytes: one canonical header, then the payload.
AppendString(s) == appendUintCore(majorTypeText, NatToU64(Len(s))) \o s
AppendBytes(d) == appendUintCore(majorTypeBytes, NatToU64(Len(d))) \o d

AppendArrayHeader(n) == appendUintCore(majorTypeArray, NatToU64(n))
AppendMapHeader(n) == appendUintCore(majorTypeMap, NatToU64(n))
AppendArrayHeaderIndefinite == <<makeByte(majorTypeArray, addInfoIndefinite)>>
AppendNil == <<makeByte(majorTypeSimple, simpleNull)>>
AppendBreak == <<BreakByte>>
AppendBool(v) == <<makeByte(majorTypeSimple, IF v THEN simpleTrue ELSE simpleFalse)>>
\* Values 0..23 inline; any other value as 0xf8 followed by the value.
AppendSimpleValue(v) ==
  IF v <= addInfoDirect THEN <<makeByte(majorTypeSimple, v)>>
  ELSE <<makeByte(majorTypeSimple, addInfoUint8), v>>

-----------------------------------------------------------------------------
(* UTF-8 validity as unicode/utf8.Valid decides it (utf8_validate.go).     *)

Cont(c) == c \in 128..191
RECURSIVE isUTF8Valid(_)
isUTF8Valid(s) ==
  \/ s = <<>>
  \/ s[1] < 128 /\ isUTF8Valid(Tail(s))
  \/ /\ s[1] \in 194..223 /\ Len(s) >= 2 /\ Cont(s[2])
     /\ isUTF8Valid(Drop(s, 2))
  \/ /\ s[1] \in 224..239 /\ Len(s) >= 3 /\ Cont(s[2]) /\ Cont(s[3])
     /\ (s[1] = 224 => s[2] >= 160) /\ (s[1] = 237 => s[2] <= 159)
     /\ isUTF8Valid(Drop(s, 3))
  \/ /\ s[1] \in 240..244 /\ Len(s) >= 4 /\ Cont(s[2]) /\ Cont(s[3]) /\ Cont(s[4])
     /\ (s[1] = 240 => s[2] >= 144) /\ (s[1] = 244 => s[2] <= 143)
     /\ isUTF8Valid(Drop(s, 4))

-----------------------------------------------------------------------------
(* Stateless readers. *)

\* readUintCore: an unsigned argument under the expected major type.
readUintCore(b, expectedMajor) ==
  IF Len(b) < 1 THEN Fail("ShortBytes", b)
  ELSE IF getMajorType(b[1]) # expectedMajor THEN Fail("BadPrefix", b)
  ELSE IF getAddInfo(b[1]) > addInfoUint64 THEN Fail("UnsupportedType", b)
  ELSE LET w == ArgWidth(getAddInfo(b[1])) IN
       IF Len(b) < 1 + w THEN Fail("ShortBytes", b)
       ELSE Ok(Arg(b), Drop(b, 1 + w))

ReadUint64Bytes(b) == readUintCore(b, majorTypeUint)

\* ReadArrayHeaderBytes / ReadMapHeaderBytes: a definite uint32 count; the
\* lead bytes 0x?c-0x?f (reserved and indefinite) are a bad prefix.
ReadContainerHeaderBytes(b, major) ==
  IF Len(b) < 1 THEN Fail("ShortBytes", b)
  ELSE IF getMajorType(b[1]) # major \/ getAddInfo(b[1]) > addInfoUint64
    THEN Fail("BadPrefix", b)
  ELSE LET w == ArgWidth(getAddInfo(b[1])) IN
       IF Len(b) < 1 + w THEN Fail("ShortBytes", b)
       ELSE IF ~FitsIn(Arg(b), 4) THEN Fail("UintOverflow", b)
       ELSE Ok(SatNat(Arg(b)), Drop(b, 1 + w))
ReadArrayHeaderBytes(b) == ReadContainerHeaderBytes(b, majorTypeArray)
ReadMapHeaderBytes(b) == ReadContainerHeaderBytes(b, majorTypeMap)

\* ReadArrayStartBytes: val is [sz, indef].
ReadArrayStartBytes(b) ==
  IF Len(b) < 1 THEN Fail("ShortBytes", b)
  ELSE IF b[1] = makeByte(majorTypeArray, addInfoIndefinite)
    THEN Ok([sz |-> 0, indef |-> TRUE], Drop(b, 1))
  ELSE LET h == ReadArrayHeaderBytes(b) IN
       IF h.err # "none" THEN h ELSE Ok([sz |-> h.val, indef |-> FALSE], h.rest)

\* Variant: no overflow check on a 64-bit argument.
ReadInt64BytesNoOverflow(b) ==
  IF Len(b) < 1 THEN Fail("ShortBytes", b)
  ELSE IF getMajorType(b[1]) \notin {majorTypeUint, majorTypeNegInt}
          \/ getAddInfo(b[1]) > addInfoUint64
    THEN Fail("BadPrefix", b)
  ELSE LET w == ArgWidth(getAddInfo(b[1])) IN
       IF Len(b) < 1 + w THEN Fail("ShortBytes", b)
       ELSE Ok(IF getMajorType(b[1]) = majorTypeUint THEN Arg(b) ELSE Complement(Arg(b)),
               Drop(b, 1 + w))

\* ReadInt64Bytes: majors 0 and 1 only; a u64 argument above MaxInt64
\* overflows; a negative value is -1 - n.
ReadInt64Bytes(b) ==
  IF Len(b) < 1 THEN Fail("ShortBytes", b)
  ELSE IF getMajorType(b[1]) \notin {majorTypeUint, majorTypeNegInt}
          \/ getAddInfo(b[1]) > addInfoUint64
    THEN Fail("BadPrefix", b)
  ELSE LET w == ArgWidth(getAddInfo(b[1])) IN
       IF Len(b) < 1 + w THEN Fail("ShortBytes", b)
       ELSE IF w = 8 /\ IsNeg(Arg(b)) THEN Fail("IntOverflow", b)
       ELSE Ok(IF getMajorType(b[1]) = majorTypeUint THEN Arg(b) ELSE Complement(Arg(b)),
               Drop(b, 1 + w))

\* int64(v) of an n-byte signed value v: the sign byte repeated above it.
SignExtend(v) ==
  [i \in 1..8 |-> IF i <= 8 - Len(v) THEN (IF v[1] >= 128 THEN 255 ELSE 0)
                  ELSE v[i - (8 - Len(v))]]
\* An int64 i is in the range of an n-byte signed integer.
FitsSigned(i, n) == SignExtend(LowBytes(i, n)) = i
\* MaxInt8 + 1, MaxInt16 + 1, MaxInt32 + 1 as int64 bytes.
MaxSignedPlusOne(n) == [i \in 1..8 |-> IF i = 9 - n THEN 128 ELSE 0]

\* Mutant: the range check lets Max + 1 through.
ReadIntNBytesOffByOne(b, n) ==
  LET r == ReadInt64Bytes(b) IN
  IF r.err # "none" THEN Fail(r.err, b)
  ELSE IF ~FitsSigned(r.val, n) /\ r.val # MaxSignedPlusOne(n) THEN Fail("IntOverflow", b)
  ELSE Ok(LowBytes(r.val, n), r.rest)

\* ReadInt32Bytes, ReadInt16Bytes, ReadInt8Bytes (n = 4, 2, 1) and
\* ReadIntBytes (n = 8, int being 64 bits wide): ReadInt64Bytes, then the
\* range check; on either error the caller's b comes back.
ReadIntNBytes(b, n) ==
  LET r == ReadInt64Bytes(b) IN
  IF r.err # "none" THEN Fail(r.err, b)
  ELSE IF ~FitsSigned(r.val, n) THEN Fail("IntOverflow", b)
  ELSE Ok(LowBytes(r.val, n), r.rest)

\* ReadDurationBytes: an int64 read as a time.Duration.
ReadDurationBytes(b) == ReadIntNBytes(b, 8)

\* ReadUint32Bytes, ReadUint16Bytes, ReadUint8Bytes and ReadUintBytes.
ReadUintNBytes(b, n) ==
  LET r == readUintCore(b, majorTypeUint) IN
  IF r.err # "none" THEN Fail(r.err, b)
  ELSE IF ~FitsIn(r.val, n) THEN Fail("UintOverflow", b)
  ELSE Ok(LowBytes(r.val, n), r.rest)

\* The definite-length payload of a byte or text string whose header has
\* additional info <= 27 (shared by ReadStringZC and ReadBytesBytes).
definiteString(b) ==
  LET w == ArgWidth(getAddInfo(b[1])) IN
  IF Len(b) < 1 + w THEN Fail("ShortBytes", b)
  ELSE IF w = 8 /\ IsNeg(Arg(b)) THEN Fail("UintOverflow", b)
  ELSE IF SatNat(Arg(b)) > Len(b) - 1 - w THEN Fail("ShortBytes", b)
  ELSE LET n == SatNat(Arg(b)) IN Ok(SubSeq(b, 2 + w, 1 + w + n), Drop(b, 1 + w + n))

\* ReadStringZC: a definite text string, zero-copy.
ReadStringZC(b) ==
  IF Len(b) < 1 THEN Fail("ShortBytes", b)
  ELSE IF getMajorType(b[1]) # majorTypeText \/ getAddInfo(b[1]) > addInfoUint64
    THEN Fail("BadPrefix", b)
  ELSE definiteString(b)

\* The chunk loop of an indefinite text string: definite text chunks up to
\* the break, then UTF-8 validation of the concatenation.
RECURSIVE readTextChunks(_, _)
\* Variant: the break byte is left in the remainder.
readTextChunksKeepBreak(p, acc) ==
  IF Len(p) < 1 THEN Fail("ShortBytes", p)
  ELSE IF p[1] = BreakByte
    THEN IF ValidateUTF8OnDecode /\ ~isUTF8Valid(acc) THEN Fail("InvalidUTF8", p)
         ELSE Ok(acc, p)
  ELSE LET z == ReadStringZC(p) IN
       IF z.err # "none" THEN z ELSE readTextChunks(z.rest, acc \o z.val)
readTextChunks(p, acc) ==
  IF Len(p) < 1 THEN Fail("ShortBytes", p)
  ELSE IF p[1] = BreakByte
    THEN IF ValidateUTF8OnDecode /\ ~isUTF8Valid(acc) THEN Fail("InvalidUTF8", p)
         ELSE Ok(acc, Drop(p, 1))
  ELSE LET z == ReadStringZC(p) IN
       IF z.err # "none" THEN z ELSE readTextChunks(z.rest, acc \o z.val)

ReadStringBytes(b) ==
  IF Len(b) < 1 THEN Fail("ShortBytes", b)
  ELSE IF b[1] = makeByte(majorTypeText, addInfoIndefinite)
    THEN Rebase(readTextChunks(Drop(b, 1), <<>>), b)
  ELSE LET z == ReadStringZC(b) IN
       IF z.err # "none" THEN z
       ELSE IF ValidateUTF8OnDecode /\ ~isUTF8Valid(z.val) THEN Fail("InvalidUTF8", b)
       ELSE z

\* The chunk loop of an indefinite byte string.
RECURSIVE readByteChunks(_, _)
readByteChunks(p, acc) ==
  IF Len(p) < 1 THEN Fail("ShortBytes", p)
  ELSE IF p[1] = BreakByte THEN Ok(acc, Drop(p, 1))
  ELSE LET h == readUintCore(p, majorTypeBytes) IN
       IF h.err # "none" THEN h
       ELSE IF Len(h.rest) < SatNat(h.val) THEN Fail("ShortBytes", p)
       ELSE readByteChunks(Drop(h.rest, SatNat(h.val)),
                           acc \o SubSeq(h.rest, 1, SatNat(h.val)))

ReadBytesBytes(b) ==
  IF Len(b) < 1 THEN Fail("ShortBytes", b)
  ELSE IF b[1] = makeByte(majorTypeBytes, addInfoIndefinite)
    THEN Rebase(readByteChunks(Drop(b, 1), <<>>), b)
  ELSE IF getMajorType(b[1]) = majorTypeBytes /\ getAddInfo(b[1]) <= addInfoUint64
    THEN definiteString(b)
  ELSE Fail(readUintCore(b, majorTypeBytes).err, b)

ReadBoolBytes(b) ==
  IF Len(b) < 1 THEN Fail("ShortBytes", b)
  ELSE IF b[1] = makeByte(majorTypeSimple, simpleTrue) THEN Ok(TRUE, Drop(b, 1))
  ELSE IF b[1] = makeByte(majorTypeSimple, simpleFalse) THEN Ok(FALSE, Drop(b, 1))
  ELSE Fail("TypeError", b)

\* ReadNilBytes: consumes one null.
ReadNilBytes(b) ==
  IF Len(b) < 1 THEN Fail("ShortBytes", b)
  ELSE IF b[1] # makeByte(majorTypeSimple, simpleNull) THEN Fail("NotNil", b)
  ELSE Ok(<<>>, Drop(b, 1))

\* ReadSimpleValue: 0..23 inline, or 0xf8 followed by the value.
ReadSimpleValue(b) ==
  IF Len(b) < 1 THEN Fail("ShortBytes", b)
  ELSE IF getMajorType(b[1]) # majorTypeSimple THEN Fail("BadPrefix", b)
  ELSE IF getAddInfo(b[1]) = addInfoUint8
    THEN IF Len(b) < 2 THEN Fail("ShortBytes", b) ELSE Ok(b[2], Drop(b, 2))
  ELSE IF getAddInfo(b[1]) <= addInfoDirect THEN Ok(getAddInfo(b[1]), Drop(b, 1))
  ELSE Fail("UnsupportedType", b)

\* isNonCanonicalLength: val is TRUE when the header's argument would fit
\* a shorter header.
\* Variant: a one-byte argument of exactly 23 counts as canonical.
NonCanonicalArgOffByOne(a, u) == CASE a = 24 -> u[8] < addInfoDirect
                                   [] a = 25 -> FitsIn(u, 1)
                                   [] a = 26 -> FitsIn(u, 2)
                                   [] a = 27 -> FitsIn(u, 4)
NonCanonicalArg(a, u) == CASE a = 24 -> u[8] <= addInfoDirect
                           [] a = 25 -> FitsIn(u, 1)
                           [] a = 26 -> FitsIn(u, 2)
                           [] a = 27 -> FitsIn(u, 4)
isNonCanonicalLength(b, expectedMajor) ==
  IF Len(b) < 1 THEN Fail("ShortBytes", b)
  ELSE IF getMajorType(b[1]) # expectedMajor THEN Fail("BadPrefix", b)
  ELSE LET a == getAddInfo(b[1]) IN
       IF a \in 28..30 THEN Fail("InvalidAdditionalInfo", b)
       ELSE IF a = addInfoIndefinite \/ a <= addInfoDirect THEN Ok(FALSE, b)
       ELSE IF Len(b) < 1 + ArgWidth(a) THEN Fail("ShortBytes", b)
       ELSE Ok(NonCanonicalArg(a, Arg(b)), b)
=============================================================================
