-------------------------------- MODULE Walk --------------------------------
(***************************************************************************)
(* The two recursive item walkers of the runtime package:                  *)
(*   skip               (src/runtime/read_bytes.go, Skip)                  *)
(*   validateWellFormed (src/runtime/helpers.go, ValidateWellFormedBytes)  *)
(* Both return [err, rest]: rest is the remainder after one complete item, *)
(* or, on error, the buffer the Go function returns with the error.        *)
(* A loop "for i < sz" over a container is a recursion over the count;     *)
(* each step consumes at least one byte or fails, so it ends on every      *)
(* finite buffer whatever the (saturated) count.                           *)
(***************************************************************************)
EXTENDS Wire

CONSTANT RecursionLimit  \* recursionLimit, defs.go:35

ASSUME RecursionLimit \in Nat

\* Widths of the float items 0xf9, 0xfa, 0xfb including the initial byte.
FloatItemLen == [a \in 25..27 |-> 1 + ArgWidth(a)]

RECURSIVE skip(_, _), skipN(_, _, _), skipToBreak(_, _, _), skipChunks(_, _)

\* skip `items` consecutive items at the given depth.
skipN(p, items, depth) ==
  IF items = 0 THEN Ok(<<>>, p)
  ELSE LET r == skip(p, depth) IN
       IF r.err # "none" THEN r ELSE skipN(r.rest, items - 1, depth)

\* Indefinite array (k = 1) or map (k = 2): groups of k items up to a break.
skipToBreak(p, depth, k) ==
  IF Len(p) < 1 THEN Fail("ShortBytes", p)
  ELSE IF p[1] = BreakByte THEN Ok(<<>>, Drop(p, 1))
  ELSE LET r == skipN(p, k, depth) IN
       IF r.err # "none" THEN r ELSE skipToBreak(r.rest, depth, k)

\* Indefinite byte or text string: definite chunks of the same major type.
skipChunks(p, major) ==
  IF Len(p) < 1 THEN Fail("ShortBytes", p)
  ELSE IF p[1] = BreakByte THEN Ok(<<>>, Drop(p, 1))
  ELSE LET h == readUintCore(p, major) IN
       IF h.err # "none" THEN h
       ELSE IF Len(h.rest) < SatNat(h.val) THEN Fail("ShortBytes", p)
       ELSE skipChunks(Drop(h.rest, SatNat(h.val)), major)

skip(b, depth) ==
  IF depth > RecursionLimit THEN Fail("MaxDepthExceeded", b)
  ELSE IF Len(b) < 1 THEN Fail("ShortBytes", b)
  ELSE
  LET major == getMajorType(b[1])
      add   == getAddInfo(b[1])
      h     == readUintCore(b, major)
  IN
  CASE major \in {majorTypeUint, majorTypeNegInt, majorTypeTag} ->
         IF h.err # "none" THEN Fail(h.err, b)
         \* a tag returns the inner walk's result as it is
         ELSE IF major = majorTypeTag THEN skip(h.rest, depth + 1)
         ELSE Ok(<<>>, h.rest)
    [] major \in {majorTypeBytes, majorTypeText} /\ add = addInfoIndefinite ->
         Rebase(skipChunks(Drop(b, 1), major), b)
    [] major \in {majorTypeBytes, majorTypeText} ->
         IF h.err # "none" THEN Fail(h.err, b)
         ELSE IF Len(h.rest) < SatNat(h.val) THEN Fail("ShortBytes", b)
         ELSE Ok(<<>>, Drop(h.rest, SatNat(h.val)))
    [] major \in {majorTypeArray, majorTypeMap} /\ add = addInfoIndefinite ->
         Rebase(skipToBreak(Drop(b, 1), depth + 1,
                            IF major = majorTypeMap THEN 2 ELSE 1), b)
    [] major \in {majorTypeArray, majorTypeMap} ->
         IF h.err # "none" THEN Fail(h.err, b)
         ELSE Rebase(skipN(h.rest, SatNat(h.val) * (IF major = majorTypeMap THEN 2 ELSE 1),
                           depth + 1), b)
    [] major = majorTypeSimple ->
         CASE add \in 20..23 -> Ok(<<>>, Drop(b, 1))
           [] add \in 25..27 ->
                IF Len(b) < FloatItemLen[add] THEN Fail("ShortBytes", b)
                ELSE Ok(<<>>, Drop(b, FloatItemLen[add]))
           [] add < 20 -> Ok(<<>>, Drop(b, 1))
           [] OTHER -> Fail("UnsupportedType", b)

Skip(b) == skip(b, 0)

-----------------------------------------------------------------------------
RECURSIVE validateWellFormed(_, _), validN(_, _, _), validToBreak(_, _, _),
          validByteChunks(_), validTextChunks(_)

validN(p, items, depth) ==
  IF items = 0 THEN Ok(<<>>, p)
  ELSE LET r == validateWellFormed(p, depth) IN
       IF r.err # "none" THEN r ELSE validN(r.rest, items - 1, depth)

validToBreak(p, depth, k) ==
  IF Len(p) < 1 THEN Fail("ShortBytes", p)
  ELSE IF p[1] = BreakByte THEN Ok(<<>>, Drop(p, 1))
  ELSE LET r == validN(p, k, depth) IN
       IF r.err # "none" THEN r ELSE validToBreak(r.rest, depth, k)

validByteChunks(p) ==
  IF Len(p) < 1 THEN Fail("ShortBytes", p)
  ELSE IF p[1] = BreakByte THEN Ok(<<>>, Drop(p, 1))
  ELSE LET h == readUintCore(p, majorTypeBytes) IN
       IF h.err # "none" THEN h
       ELSE IF Len(h.rest) < SatNat(h.val) THEN Fail("ShortBytes", p)
       ELSE validByteChunks(Drop(h.rest, SatNat(h.val)))

\* Each text chunk must itself be valid UTF-8, whatever ValidateUTF8OnDecode.
validTextChunks(p) ==
  IF Len(p) < 1 THEN Fail("ShortBytes", p)
  ELSE IF p[1] = BreakByte THEN Ok(<<>>, Drop(p, 1))
  ELSE LET z == ReadStringZC(p) IN
       IF z.err # "none" THEN z
       ELSE IF ~isUTF8Valid(z.val) THEN Fail("InvalidUTF8", p)
       ELSE validTextChunks(z.rest)

validateWellFormed(b, depth) ==
  IF depth > RecursionLimit THEN Fail("MaxDepthExceeded", b)
  ELSE IF Len(b) < 1 THEN Fail("ShortBytes", b)
  ELSE IF getAddInfo(b[1]) \in 28..30 THEN Fail("InvalidPrefix", b)
  ELSE
  LET major == getMajorType(b[1])
      add   == getAddInfo(b[1])
      h     == readUintCore(b, major)
      z     == ReadStringZC(b)
  IN
  CASE major \in {majorTypeUint, majorTypeNegInt, majorTypeTag} ->
         IF h.err # "none" THEN Fail(h.err, b)
         ELSE IF major = majorTypeTag THEN validateWellFormed(h.rest, depth + 1)
         ELSE Ok(<<>>, h.rest)
    [] major = majorTypeBytes /\ add = addInfoIndefinite ->
         Rebase(validByteChunks(Drop(b, 1)), b)
    [] major = majorTypeBytes ->
         IF h.err # "none" THEN Fail(h.err, b)
         ELSE IF Len(h.rest) < SatNat(h.val) THEN Fail("ShortBytes", b)
         ELSE Ok(<<>>, Drop(h.rest, SatNat(h.val)))
    [] major = majorTypeText /\ add = addInfoIndefinite ->
         Rebase(validTextChunks(Drop(b, 1)), b)
    [] major = majorTypeText ->
         IF z.err # "none" THEN Fail(z.err, b)
         ELSE IF ~isUTF8Valid(z.val) THEN Fail("InvalidUTF8", b)
         ELSE Ok(<<>>, z.rest)
    [] major \in {majorTypeArray, majorTypeMap} /\ add = addInfoIndefinite ->
         Rebase(validToBreak(Drop(b, 1), depth + 1,
                             IF major = majorTypeMap THEN 2 ELSE 1), b)
    [] major \in {majorTypeArray, majorTypeMap} ->
         IF h.err # "none" THEN Fail(h.err, b)
         ELSE Rebase(validN(h.rest, SatNat(h.val) * (IF major = majorTypeMap THEN 2 ELSE 1),
                            depth + 1), b)
    [] major = majorTypeSimple ->
         CASE add \in 20..23 -> Ok(<<>>, Drop(b, 1))
           [] add \in 25..27 ->
                IF Len(b) < FloatItemLen[add] THEN Fail("ShortBytes", b)
                ELSE Ok(<<>>, Drop(b, FloatItemLen[add]))
           [] add = addInfoUint8 ->
                IF Len(b) < 2 THEN Fail("ShortBytes", b) ELSE Ok(<<>>, Drop(b, 2))
           [] add < 20 -> Ok(<<>>, Drop(b, 1))
           [] OTHER -> Fail("UnsupportedType", b)

ValidateWellFormedBytes(b) == validateWellFormed(b, 0)
=============================================================================
