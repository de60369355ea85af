-------------------------------- MODULE Tags --------------------------------
(***************************************************************************)
(* The semantic-tag appenders and readers of src/runtime/read_bytes.go:    *)
(* the tag header, the tagged text and byte strings (URI, base64 forms,    *)
(* regexp, MIME, embedded CBOR, UUID), the self-describe prefix, bignums   *)
(* (tags 2 and 3), decimal fractions (tag 4) and bigfloats (tag 5).        *)
(*                                                                         *)
(* Data abstraction.  A *big.Int is a record [neg, mag]: its sign and its  *)
(* magnitude as z.Bytes() gives it, big-endian with no leading zero byte   *)
(* (zero is the empty sequence).  This is the canonical form of the value, *)
(* so equal records are equal integers; big.Int has no negative zero, so   *)
(* that record stands for the nil pointer, NilBig.  An                     *)
(* int64 exponent is its 8 bytes, as in Wire.                              *)
(***************************************************************************)
EXTENDS Walk, SequencesExt

\* The tag numbers of defs.go:81-96.
tagPosBignum        == 2
tagNegBignum        == 3
tagDecimalFrac      == 4
tagBigfloat         == 5
tagBase64URL        == 21
tagBase64           == 22
tagBase16           == 23
tagCBOR             == 24
tagURI              == 32
tagBase64URLString  == 33
tagBase64String     == 34
tagRegexp           == 35
tagMIME             == 36
tagUUID             == 37
tagSelfDescribeCBOR == 55799

NilBig == [neg |-> TRUE, mag |-> <<>>]

-----------------------------------------------------------------------------
(* big.Int arithmetic on magnitudes. *)

RECURSIVE TrimLead(_), Incr(_), Decr(_)

\* SetBytes: leading zero bytes carry no value.
TrimLead(s) == IF s # <<>> /\ s[1] = 0 THEN TrimLead(Tail(s)) ELSE s

LastByte(s) == Last(s)

\* mag + 1, with the carry.
Incr(s) ==
  IF s = <<>> THEN <<1>>
  ELSE IF LastByte(s) < 255 THEN Front(s) \o <<LastByte(s) + 1>>
  ELSE Incr(Front(s)) \o <<0>>

\* Variant: the low byte is decremented without a borrow.
DecrNoBorrow(s) == TrimLead(Front(s) \o <<LastByte(s) - 1>>)

\* mag - 1 of a non-zero magnitude, with the borrow.
Decr(s) ==
  IF LastByte(s) > 0 THEN TrimLead(Front(s) \o <<LastByte(s) - 1>>)
  ELSE TrimLead(Decr(Front(s)) \o <<255>>)

\* new(big.Int).SetBytes(bs), and SetUint64 of a uint64.
SetBytes(bs) == [neg |-> FALSE, mag |-> TrimLead(bs)]

\* mag.Add(mag, 1); mag.Neg(mag): the value -(m + 1) of tag 3.
NegBignum(bs) == [neg |-> TRUE, mag |-> Incr(TrimLead(bs))]

\* big.NewInt(i) of an int64.
NewInt(i) == IF IsNeg(i) THEN NegBignum(Complement(i)) ELSE SetBytes(i)

\* z.BitLen() <= 64 and z.BitLen() <= 63.
BitLenAtMost64(z) == Len(z.mag) <= 8
BitLenAtMost63(z) == Len(z.mag) < 8 \/ (Len(z.mag) = 8 /\ z.mag[1] < 128)

-----------------------------------------------------------------------------
(* Appenders. *)

AppendTag(tag) == appendUintCore(majorTypeTag, NatToU64(tag))
AppendTagged(tag, value) == AppendTag(tag) \o value

AppendBase64URLString(s) == AppendTag(tagBase64URLString) \o AppendString(s)
AppendBase64String(s)    == AppendTag(tagBase64String) \o AppendString(s)
AppendURI(s)             == AppendTag(tagURI) \o AppendString(s)
AppendRegexpString(s)    == AppendTag(tagRegexp) \o AppendString(s)
AppendMIMEString(s)      == AppendTag(tagMIME) \o AppendString(s)
AppendEmbeddedCBOR(d)    == AppendTag(tagCBOR) \o AppendBytes(d)
AppendBase64URL(d)       == AppendTag(tagBase64URL) \o AppendBytes(d)
AppendBase64(d)          == AppendTag(tagBase64) \o AppendBytes(d)
AppendBase16(d)          == AppendTag(tagBase16) \o AppendBytes(d)
AppendUUID(u)            == AppendTag(tagUUID) \o AppendBytes(u)
AppendSelfDescribeCBOR   == AppendTag(tagSelfDescribeCBOR)

\* Tag 2 with the magnitude, or tag 3 with -z - 1.
AppendBigInt(z) ==
  IF z = NilBig THEN AppendNil
  ELSE IF ~z.neg THEN AppendTag(tagPosBignum) \o AppendBytes(z.mag)
  ELSE AppendTag(tagNegBignum) \o AppendBytes(Decr(z.mag))

\* Variant: a negative of 64 bits is taken for an int64.
appendCBORIntegerFromBigIntNeg64(z) ==
  IF z = NilBig THEN AppendNil
  ELSE IF ~z.neg /\ BitLenAtMost64(z) THEN AppendUint64(Pad8(z.mag))
  ELSE IF z.neg /\ BitLenAtMost64(z) THEN AppendInt64(Complement(Pad8(Decr(z.mag))))
  ELSE AppendBigInt(z)

\* A plain integer when it fits uint64 or int64, else a bignum; z.Int64()
\* of a negative is the complement of |z| - 1.
appendCBORIntegerFromBigInt(z) ==
  IF z = NilBig THEN AppendNil
  ELSE IF ~z.neg /\ BitLenAtMost64(z) THEN AppendUint64(Pad8(z.mag))
  ELSE IF z.neg /\ BitLenAtMost63(z) THEN AppendInt64(Complement(Pad8(Decr(z.mag))))
  ELSE AppendBigInt(z)

\* AppendDecimalFraction (tag 4) and AppendBigfloat (tag 5).
AppendDecimalFraction(exp, mant) ==
  AppendTag(tagDecimalFrac) \o AppendArrayHeader(2) \o AppendInt64(exp)
    \o appendCBORIntegerFromBigInt(mant)
AppendBigfloat(exp, mant) ==
  AppendTag(tagBigfloat) \o AppendArrayHeader(2) \o AppendInt64(exp)
    \o appendCBORIntegerFromBigInt(mant)
-----------------------------------------------------------------------------
(* Readers. *)

ReadTagBytes(b) == readUintCore(b, majorTypeTag)

\* The shape shared by the tagged text and byte string readers: the tag
\* header, the tag number, then ReadStringBytes or ReadBytesBytes, whose
\* result is returned as it is, so an error of the payload returns the
\* bytes after the tag, not b.
TagChecked(b, tag) ==
  LET t == ReadTagBytes(b) IN
  IF t.err # "none" THEN Fail(t.err, b)
  ELSE IF t.val # NatToU64(tag) THEN Fail("BadPrefix", b)
  ELSE t
TaggedText(b, tag) ==
  LET t == TagChecked(b, tag) IN IF t.err # "none" THEN t ELSE ReadStringBytes(t.rest)
TaggedBytes(b, tag) ==
  LET t == TagChecked(b, tag) IN IF t.err # "none" THEN t ELSE ReadBytesBytes(t.rest)

ReadBase64URLStringBytes(b) == TaggedText(b, tagBase64URLString)
ReadBase64StringBytes(b)    == TaggedText(b, tagBase64String)
\* Variant: the tag number is not compared.
ReadURIStringBytesAnyTag(b) ==
  LET t == ReadTagBytes(b) IN
  IF t.err # "none" THEN Fail(t.err, b) ELSE ReadStringBytes(t.rest)
ReadURIStringBytes(b)       == TaggedText(b, tagURI)
ReadEmbeddedCBORBytes(b)    == TaggedBytes(b, tagCBOR)
ReadBase64URLBytes(b)       == TaggedBytes(b, tagBase64URL)
ReadBase64Bytes(b)          == TaggedBytes(b, tagBase64)
ReadBase16Bytes(b)          == TaggedBytes(b, tagBase16)
ReadRegexpStringBytes(b)    == TaggedText(b, tagRegexp)
ReadMIMEStringBytes(b)      == TaggedText(b, tagMIME)

\* Tag 37 and a byte string of exactly 16 bytes; every error returns b.
ReadUUIDBytes(b) ==
  LET t == ReadTagBytes(b)
      s == ReadBytesBytes(t.rest)
  IN IF t.err # "none" THEN Fail(t.err, b)
     ELSE IF t.val # NatToU64(tagUUID) THEN Fail("BadPrefix", b)
     ELSE IF s.err # "none" THEN Fail(s.err, b)
     ELSE IF Len(s.val) # 16 THEN Fail("UUIDLength", b)
     ELSE s

\* StripSelfDescribeCBOR: val is "found"; another tag or major type is
\* not an error and leaves b.
StripSelfDescribeCBOR(b) ==
  LET t == ReadTagBytes(b) IN
  IF Len(b) < 1 THEN Fail("ShortBytes", b)
  ELSE IF getMajorType(b[1]) # majorTypeTag THEN Ok(FALSE, b)
  ELSE IF t.err # "none" THEN Fail(t.err, b)
  ELSE IF t.val # NatToU64(tagSelfDescribeCBOR) THEN Ok(FALSE, b)
  ELSE Ok(TRUE, t.rest)

\* ReadBigIntBytes: the byte string is read before the tag is checked.
ReadBigIntBytes(b) ==
  LET t == ReadTagBytes(b)
      s == ReadBytesBytes(t.rest)
  IN IF t.err # "none" THEN Fail(t.err, b)
     ELSE IF s.err # "none" THEN Fail(s.err, b)
     ELSE IF t.val = NatToU64(tagPosBignum) THEN Ok(SetBytes(s.val), s.rest)
     ELSE IF t.val = NatToU64(tagNegBignum) THEN Ok(NegBignum(s.val), s.rest)
     ELSE Fail("BadPrefix", b)

\* A CBOR integer of major type 0 or 1, or a bignum.  A negative integer
\* goes through ReadInt64Bytes, so one below MinInt64 overflows.
readCBORIntegerAsBigInt(b) ==
  LET major == getMajorType(b[1])
      u == readUintCore(b, majorTypeUint)
      i == ReadInt64Bytes(b)
      t == ReadTagBytes(b)
      s == ReadBytesBytes(t.rest)
  IN
  IF Len(b) < 1 THEN Fail("ShortBytes", b)
  ELSE CASE major = majorTypeUint ->
              IF u.err # "none" THEN Fail(u.err, b) ELSE Ok(SetBytes(u.val), u.rest)
         [] major = majorTypeNegInt ->
              IF i.err # "none" THEN Fail(i.err, b) ELSE Ok(NewInt(i.val), i.rest)
         [] major = majorTypeTag ->
              IF t.err # "none" THEN Fail(t.err, b)
              ELSE IF t.val \notin {NatToU64(tagPosBignum), NatToU64(tagNegBignum)}
                THEN Fail("UnsupportedType", b)
              ELSE IF s.err # "none" THEN Fail(s.err, b)
              ELSE IF t.val = NatToU64(tagNegBignum) THEN Ok(NegBignum(s.val), s.rest)
              ELSE Ok(SetBytes(s.val), s.rest)
         [] OTHER -> Fail("UnsupportedType", b)

Pair(e, m, rest) == Ok([exp |-> e.val, mant |-> m.val], rest)

\* Variant: a missing break returns the bytes after the mantissa.
readTaggedPairBreakRest(b, tag) ==
  LET t == ReadTagBytes(b)
      o == t.rest
      e == ReadInt64Bytes(Drop(o, 1))
      m == readCBORIntegerAsBigInt(e.rest)
      h == ReadArrayHeaderBytes(o)
      de == ReadInt64Bytes(h.rest)
      dm == readCBORIntegerAsBigInt(de.rest)
  IN IF t.err # "none" THEN Fail(t.err, b)
     ELSE IF t.val # NatToU64(tag) THEN Fail("UnsupportedType", b)
     ELSE IF Len(o) < 1 THEN Fail("ShortBytes", b)
     ELSE IF o[1] = makeByte(majorTypeArray, addInfoIndefinite)
       THEN IF e.err # "none" THEN Fail(e.err, b)
            ELSE IF m.err # "none" THEN Fail(m.err, b)
            ELSE IF Len(m.rest) < 1 \/ m.rest[1] # BreakByte
              THEN Fail("UnsupportedType", m.rest)
            ELSE Pair(e, m, Drop(m.rest, 1))
     ELSE IF h.err # "none" THEN Fail(h.err, b)
     ELSE IF h.val # 2 THEN Fail("ArrayError", b)
     ELSE IF de.err # "none" THEN Fail(de.err, b)
     ELSE IF dm.err # "none" THEN Fail(dm.err, b)
     ELSE Pair(de, dm, dm.rest)

\* Tag 4 or 5, then [exponent, mantissa] as an indefinite array closed by
\* a break, or a definite array of exactly two items.  Each step's result
\* is handed to the next as an argument.
indefMant(e, m, b) ==
  IF m.err # "none" THEN Fail(m.err, b)
  ELSE IF Len(m.rest) < 1 \/ m.rest[1] # BreakByte THEN Fail("UnsupportedType", b)
  ELSE Pair(e, m, Drop(m.rest, 1))
indefPair(e, b) ==
  IF e.err # "none" THEN Fail(e.err, b) ELSE indefMant(e, readCBORIntegerAsBigInt(e.rest), b)
defMant(de, dm, b) == IF dm.err # "none" THEN Fail(dm.err, b) ELSE Pair(de, dm, dm.rest)
defExp(de, b) ==
  IF de.err # "none" THEN Fail(de.err, b) ELSE defMant(de, readCBORIntegerAsBigInt(de.rest), b)
defPair(h, b) ==
  IF h.err # "none" THEN Fail(h.err, b)
  ELSE IF h.val # 2 THEN Fail("ArrayError", b)
  ELSE defExp(ReadInt64Bytes(h.rest), b)
pairAfterTag(t, b, tag) ==
  IF t.err # "none" THEN Fail(t.err, b)
  ELSE IF t.val # NatToU64(tag) THEN Fail("UnsupportedType", b)
  ELSE IF Len(t.rest) < 1 THEN Fail("ShortBytes", b)
  ELSE IF t.rest[1] = makeByte(majorTypeArray, addInfoIndefinite)
    THEN indefPair(ReadInt64Bytes(Drop(t.rest, 1)), b)
  ELSE defPair(ReadArrayHeaderBytes(t.rest), b)
readTaggedPair(b, tag) == pairAfterTag(ReadTagBytes(b), b, tag)

ReadDecimalFractionBytes(b) == readTaggedPair(b, tagDecimalFrac)
ReadBigfloatBytes(b)        == readTaggedPair(b, tagBigfloat)
=============================================================================
