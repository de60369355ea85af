------------------------------- MODULE SeqMaps -------------------------------
(***************************************************************************)
(* The map and sequence readers of src/runtime/read_bytes.go that delimit  *)
(* raw items with Skip:                                                    *)
(*   ReadMapNoDupBytes    a map whose raw key bytes are pairwise distinct  *)
(*   ReadOrderedMapBytes  a map as its (raw key, raw value) pairs          *)
(*   ForEachSequenceBytes, SplitSequenceBytes, AppendSequence              *)
(* Each "for" loop is a recursion carrying the loop's locals; every error  *)
(* returns the caller's whole buffer b, as the Go code does.               *)
(***************************************************************************)
EXTENDS Walk, SequencesExt

\* The bytes Skip consumed from p to reach r.
SkippedBytes(p, r) == SubSeq(p, 1, Len(p) - Len(r))

RECURSIVE noDupToBreak(_, _, _), noDupN(_, _, _, _)

noDupToBreakEndIsBreak(p, seen, b) ==
  IF Len(p) < 1 THEN Ok(<<>>, p)
  ELSE IF p[1] = BreakByte THEN Ok(<<>>, Drop(p, 1))
  ELSE LET r  == Skip(p)
           r2 == Skip(r.rest)
       IN IF r.err # "none" THEN Fail(r.err, b)
          ELSE IF SkippedBytes(p, r.rest) \in seen THEN Fail("DuplicateMapKey", b)
          ELSE IF r2.err # "none" THEN Fail(r2.err, b)
          ELSE noDupToBreak(r2.rest, seen \cup {SkippedBytes(p, r.rest)}, b)

\* Indefinite map: key, duplicate check, value, until the break.
noDupToBreak(p, seen, b) ==
  IF Len(p) < 1 THEN Fail("ShortBytes", b)
  ELSE IF p[1] = BreakByte THEN Ok(<<>>, Drop(p, 1))
  ELSE LET r  == Skip(p)
           r2 == Skip(r.rest)
       IN IF r.err # "none" THEN Fail(r.err, b)
          ELSE IF SkippedBytes(p, r.rest) \in seen THEN Fail("DuplicateMapKey", b)
          ELSE IF r2.err # "none" THEN Fail(r2.err, b)
          ELSE noDupToBreak(r2.rest, seen \cup {SkippedBytes(p, r.rest)}, b)

noDupNForgetSeen(p, sz, seen, b) ==
  IF sz = 0 THEN Ok(<<>>, p)
  ELSE LET r  == Skip(p)
           r2 == Skip(r.rest)
       IN IF r.err # "none" THEN Fail(r.err, b)
          ELSE IF SkippedBytes(p, r.rest) \in seen THEN Fail("DuplicateMapKey", b)
          ELSE IF r2.err # "none" THEN Fail(r2.err, b)
          ELSE noDupN(r2.rest, sz - 1, seen, b)

\* Definite map: sz entries.
noDupN(p, sz, seen, b) ==
  IF sz = 0 THEN Ok(<<>>, p)
  ELSE LET r  == Skip(p)
           r2 == Skip(r.rest)
       IN IF r.err # "none" THEN Fail(r.err, b)
          ELSE IF SkippedBytes(p, r.rest) \in seen THEN Fail("DuplicateMapKey", b)
          ELSE IF r2.err # "none" THEN Fail(r2.err, b)
          ELSE noDupN(r2.rest, sz - 1, seen \cup {SkippedBytes(p, r.rest)}, b)

ReadMapNoDupBytes(b) ==
  IF Len(b) < 1 THEN Fail("ShortBytes", b)
  ELSE IF getMajorType(b[1]) # majorTypeMap THEN Fail("BadPrefix", b)
  ELSE IF getAddInfo(b[1]) = addInfoIndefinite THEN noDupToBreak(Drop(b, 1), {}, b)
  ELSE LET h == ReadMapHeaderBytes(b) IN
       IF h.err # "none" THEN Fail(h.err, b) ELSE noDupN(h.rest, h.val, {}, b)

-----------------------------------------------------------------------------
RECURSIVE orderedToBreak(_, _, _), orderedN(_, _, _, _)

RawPairAtFromKeyStart(p, r1, r2) ==
  [Key |-> SkippedBytes(p, r1), Value |-> SubSeq(p, 1, Len(r1) - Len(r2))]

\* One pair: the raw key and the raw value, each the bytes Skip consumed.
RawPairAt(p, r1, r2) == [Key |-> SkippedBytes(p, r1), Value |-> SkippedBytes(r1, r2)]

orderedToBreak(p, pairs, b) ==
  IF Len(p) < 1 THEN Fail("ShortBytes", b)
  ELSE IF p[1] = BreakByte THEN Ok(pairs, Drop(p, 1))
  ELSE LET r1 == Skip(p)
           r2 == Skip(r1.rest)
       IN IF r1.err # "none" THEN Fail(r1.err, b)
          ELSE IF r2.err # "none" THEN Fail(r2.err, b)
          ELSE orderedToBreak(r2.rest, Append(pairs, RawPairAt(p, r1.rest, r2.rest)), b)

orderedN(p, sz, pairs, b) ==
  IF sz = 0 THEN Ok(pairs, p)
  ELSE LET r1 == Skip(p)
           r2 == Skip(r1.rest)
       IN IF r1.err # "none" THEN Fail(r1.err, b)
          ELSE IF r2.err # "none" THEN Fail(r2.err, b)
          ELSE orderedN(r2.rest, sz - 1, Append(pairs, RawPairAt(p, r1.rest, r2.rest)), b)

ReadOrderedMapBytes(b) ==
  IF Len(b) < 1 THEN Fail("ShortBytes", b)
  ELSE IF getMajorType(b[1]) # majorTypeMap THEN Fail("BadPrefix", b)
  ELSE IF getAddInfo(b[1]) = addInfoIndefinite THEN orderedToBreak(Drop(b, 1), <<>>, b)
  ELSE LET h == ReadMapHeaderBytes(b) IN
       IF h.err # "none" THEN Fail(h.err, b) ELSE orderedN(h.rest, h.val, <<>>, b)

-----------------------------------------------------------------------------
(* ForEachSequenceBytes(b, onItem): onItem is a callback that fails on its *)
(* failAt-th call (never when failAt = 0).  The result is the error and    *)
(* the items onItem was given, in order.                                   *)
RECURSIVE forEachSeq(_, _, _, _)

forEachSeqSegByRest(p, items, i, failAt) ==
  IF Len(p) = 0 THEN [err |-> "none", items |-> items]
  ELSE LET r == Skip(p) IN
       IF r.err # "none" THEN [err |-> r.err, items |-> items]
       ELSE IF i = failAt
         THEN [err |-> "CallbackError", items |-> Append(items, SubSeq(p, 1, Len(r.rest)))]
       ELSE forEachSeq(r.rest, Append(items, SubSeq(p, 1, Len(r.rest))), i + 1, failAt)

forEachSeq(p, items, i, failAt) ==
  IF Len(p) = 0 THEN [err |-> "none", items |-> items]
  ELSE LET r == Skip(p) IN
       IF r.err # "none" THEN [err |-> r.err, items |-> items]
       ELSE IF i = failAt
         THEN [err |-> "CallbackError", items |-> Append(items, SkippedBytes(p, r.rest))]
       ELSE forEachSeq(r.rest, Append(items, SkippedBytes(p, r.rest)), i + 1, failAt)

ForEachSequenceBytes(b, failAt) == forEachSeq(b, <<>>, 1, failAt)

\* SplitSequenceBytes: the items collected by a callback that never fails,
\* returned together with the error, if any.
SplitSequenceBytes(b) ==
  LET f == ForEachSequenceBytes(b, 0) IN [err |-> f.err, val |-> f.items]

AppendSequence(items) == FlattenSeq(items)
=============================================================================
