-------------------------------- MODULE Diag --------------------------------
(***************************************************************************)
(* DiagBytes and diagOneBuf of src/runtime/helpers.go: the RFC 8949        *)
(* diagnostic notation of the next CBOR item.  The text is a sequence of   *)
(* byte values (ASCII), as the ByteBuffer holds it; the buffer itself and  *)
(* the pool it comes from are modelled in JSONPool.                        *)
(*                                                                         *)
(* Abstractions.  strconv.Quote is                                         *)
(* modelled for printable ASCII (it escapes the quote and the backslash).  *)
(* Floats (formatFloat32Diag, formatFloat64Diag) are not modelled: no      *)
(* input holds one.                                                        *)
(***************************************************************************)
EXTENDS Tags

\* strconv.FormatUint(u, 10) of a big-endian byte string: long division by
\* ten, one byte at a time, so 64-bit values stay within TLC's integers.
DivTen(s) ==
  LET f[i \in 0..Len(s)] ==
        IF i = 0 THEN [q |-> <<>>, r |-> 0]
        ELSE LET a == f[i - 1].r * 256 + s[i] IN [q |-> Append(f[i - 1].q, a \div 10), r |-> a % 10]
  IN f[Len(s)]
RECURSIVE Decimal(_)
Decimal(s) ==
  LET d == DivTen(s) IN
  IF \A i \in DOMAIN d.q : d.q[i] = 0 THEN <<48 + d.r>> ELSE Decimal(d.q) \o <<48 + d.r>>
FormatUint(u) == Decimal(u)
\* strconv.FormatInt of an int64 (8 bytes, two's complement).
FormatInt(i) == IF IsNeg(i) THEN <<45>> \o Decimal(Incr(TrimLead(Complement(i)))) ELSE Decimal(i)
\* n := int64(-1) - int64(u): in 64-bit arithmetic -1 - x is the bitwise
\* complement of x, so n is Complement(u), which is not negative when u >= 2^63.
NegIntArg(u) == Complement(u)
Digits(n) == Decimal(<<n>>)

\* hex.Encode: two lowercase digits per byte.
HexDigit(v) == IF v < 10 THEN 48 + v ELSE 87 + v
HexEncode(bs) == FlattenSeq([i \in DOMAIN bs |-> <<HexDigit(bs[i] \div 16), HexDigit(bs[i] % 16)>>])

\* strconv.Quote of printable ASCII.
Quote(s) ==
  <<34>> \o FlattenSeq([i \in DOMAIN s |-> IF s[i] \in {34, 92} THEN <<92, s[i]>> ELSE <<s[i]>>]) \o <<34>>

Comma == <<44, 32>>                          \* ", "
Lead(first) == IF first THEN <<32>> ELSE Comma  \* " " before the first item of an indefinite item
Sep(i) == IF i > 0 THEN Comma ELSE <<>>
Wrap(open, x, close) == IF x.err # "none" THEN x ELSE Ok(open \o x.val \o close, x.rest)
Simple(n) == <<115, 105, 109, 112, 108, 101, 40>> \o Digits(n) \o <<41>>  \* simple(n)
\* r's text after pre, or r's failure.
Prefixed(pre, r) == IF r.err # "none" THEN r ELSE Ok(pre \o r.val, r.rest)
\* A byte string read as s, written h'..'; a text string written quoted.
HexText(s) == IF s.err # "none" THEN s ELSE Ok(<<104, 39>> \o HexEncode(s.val) \o <<39>>, s.rest)
QuotedText(s) == IF s.err # "none" THEN s ELSE Ok(Quote(s.val), s.rest)

RECURSIVE diagOne(_, _), diagItems(_, _, _, _, _), diagToBreak(_, _, _, _), diagChunks(_, _, _),
          diagChunksKeepBreak(_, _, _), diagChunkThen(_, _, _), diagEntry(_, _, _),
          diagPair(_, _), diagItemThen(_, _, _, _, _), diagNextThen(_, _, _, _), diagTag(_, _)

\* One chunk of an indefinite string, read from its header h: h'..' for
\* bytes, quoted for text.
diagByteChunk(h, p) ==
  IF h.err # "none" THEN h
  ELSE IF Len(h.rest) < SatNat(h.val) THEN Fail("ShortBytes", p)
  ELSE HexText(Ok(SubSeq(h.rest, 1, SatNat(h.val)), Drop(h.rest, SatNat(h.val))))
diagChunk(p, major) ==
  IF major = majorTypeBytes THEN diagByteChunk(readUintCore(p, majorTypeBytes), p)
  ELSE QuotedText(ReadStringZC(p))

\* Variant: the break is not consumed ("return p, nil" for p[1:]).
diagChunksKeepBreak(p, first, major) ==
  IF Len(p) < 1 THEN Fail("ShortBytes", p)
  ELSE IF p[1] = BreakByte THEN Ok(<<>>, p)
  ELSE diagChunkThen(diagChunk(p, major), first, major)

\* The chunks of an indefinite byte or text string, up to the break, the
\* first after " ", the others after ", ".
diagChunks(p, first, major) ==
  IF Len(p) < 1 THEN Fail("ShortBytes", p)
  ELSE IF p[1] = BreakByte THEN Ok(<<>>, Drop(p, 1))
  ELSE diagChunkThen(diagChunk(p, major), first, major)
diagChunkThen(c, first, major) ==
  IF c.err # "none" THEN c ELSE Prefixed(Lead(first) \o c.val, diagChunks(c.rest, FALSE, major))

\* One item, or one pair (key ": " value) of a map.
diagEntry(p, pairs, depth) == IF pairs THEN diagPair(diagOne(p, depth + 1), depth) ELSE diagOne(p, depth + 1)
diagPair(k, depth) == IF k.err # "none" THEN k ELSE Prefixed(k.val \o <<58, 32>>, diagOne(k.rest, depth + 1))

\* n items of a definite array (pairs = FALSE) or n pairs of a definite map,
\* separated by ", ".
diagItems(p, n, i, pairs, depth) ==
  IF i = n THEN Ok(<<>>, p) ELSE diagItemThen(diagEntry(p, pairs, depth), n, i, pairs, depth)
diagItemThen(x, n, i, pairs, depth) ==
  IF x.err # "none" THEN x ELSE Prefixed(Sep(i) \o x.val, diagItems(x.rest, n, i + 1, pairs, depth))

\* The items or pairs of an indefinite array or map, up to the break.
diagToBreak(p, first, pairs, depth) ==
  IF Len(p) < 1 THEN Fail("ShortBytes", p)
  ELSE IF p[1] = BreakByte THEN Ok(<<>>, Drop(p, 1))
  ELSE diagNextThen(diagEntry(p, pairs, depth), first, pairs, depth)
diagNextThen(x, first, pairs, depth) ==
  IF x.err # "none" THEN x ELSE Prefixed(Lead(first) \o x.val, diagToBreak(x.rest, FALSE, pairs, depth))

\* A tag: its number, then the item in parentheses.
diagTag(u, depth) ==
  IF u.err # "none" THEN u
  ELSE Wrap(FormatUint(u.val) \o <<40>>, diagOne(u.rest, depth + 1), <<41>>)

\* diagOneBuf: the text of the next item and the bytes after it.
diagOne(b, depth) ==
  LET maj == getMajorType(b[1])
      add == getAddInfo(b[1])
      indef == add = addInfoIndefinite
      u == readUintCore(b, maj)
      open(c) == IF indef THEN <<c, 95>> ELSE <<c>>       \* "[" or "[_"
  IN
  IF depth > RecursionLimit THEN Fail("MaxDepthExceeded", b)
  ELSE IF Len(b) < 1 THEN Fail("ShortBytes", b)
  ELSE CASE maj = majorTypeUint ->
              IF u.err # "none" THEN u ELSE Ok(FormatUint(u.val), u.rest)
         [] maj = majorTypeNegInt ->
              IF u.err # "none" THEN u ELSE Ok(FormatInt(NegIntArg(u.val)), u.rest)
         [] maj \in {majorTypeBytes, majorTypeText} /\ indef ->
              Wrap(<<40, 95>>, diagChunks(Drop(b, 1), TRUE, maj), <<41>>)
         [] maj = majorTypeBytes -> HexText(ReadBytesBytes(b))
         [] maj = majorTypeText -> QuotedText(ReadStringBytes(b))
         [] maj = majorTypeArray /\ indef -> Wrap(open(91), diagToBreak(Drop(b, 1), TRUE, FALSE, depth), <<93>>)
         [] maj = majorTypeMap /\ indef -> Wrap(open(123), diagToBreak(Drop(b, 1), TRUE, TRUE, depth), <<125>>)
         [] maj \in {majorTypeArray, majorTypeMap} /\ u.err # "none" -> u
         [] maj = majorTypeArray -> Wrap(open(91), diagItems(u.rest, SatNat(u.val), 0, FALSE, depth), <<93>>)
         [] maj = majorTypeMap -> Wrap(open(123), diagItems(u.rest, SatNat(u.val), 0, TRUE, depth), <<125>>)
         [] maj = majorTypeTag -> diagTag(u, depth)
         [] maj = majorTypeSimple /\ add \in 20..23 ->
              Ok(<< <<102, 97, 108, 115, 101>>, <<116, 114, 117, 101>>, <<110, 117, 108, 108>>,
                    <<117, 110, 100, 101, 102, 105, 110, 101, 100>> >>[add - 19], Drop(b, 1))
         [] maj = majorTypeSimple /\ add < 20 -> Ok(Simple(add), Drop(b, 1))
         [] maj = majorTypeSimple /\ add = addInfoUint8 ->
              IF Len(b) < 2 THEN Fail("ShortBytes", b) ELSE Ok(Simple(b[2]), Drop(b, 2))
         [] maj = majorTypeSimple /\ add \in 28..31 -> Fail("UnsupportedType", b)

\* DiagBytes: the text, or an error with b unchanged.
DiagBytes(b) == Rebase(diagOne(b, 0), b)
=============================================================================
