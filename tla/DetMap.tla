------------------------------- MODULE DetMap -------------------------------
(***************************************************************************)
(* AppendRawMapDeterministic (src/runtime/read_bytes.go): a map given as  *)
(* raw (key, value) pairs of CBOR bytes is written with its entries in     *)
(* length-then-lexicographic order of the encoded keys.  The pair indices  *)
(* are bucketed by key length; buckets are taken in increasing length;     *)
(* a bucket of one index is copied, a bucket of short keys and few entries *)
(* is sorted with sort.Slice and bytes.Compare, and any other bucket with  *)
(* an LSD radix sort: one stable counting-sort pass per byte position,     *)
(* from the last byte to the first.  Each pass is one step here.           *)
(*                                                                         *)
(* The thresholds of the adaptive choice (l < 64 && len(grp) < 1024) are   *)
(* the constants RadixMinLen and RadixMinGroup, so that small inputs can   *)
(* take both paths.  sort.Slice is modelled by its contract: it returns    *)
(* the indices in some order sorted by the comparator, and, as its         *)
(* documentation says, is not guaranteed to be stable.                     *)
(***************************************************************************)
EXTENDS Wire, SequencesExt, FiniteSets

CONSTANTS
  KeyTexts,       \* strings whose text encodings are keys
  OtherKeys,      \* further encoded keys (byte sequences) of other types
  ValueTexts,     \* strings whose text encodings are values
  MaxPairs,       \* bound on the number of pairs
  RadixMinLen,    \* 64 in the code
  RadixMinGroup   \* 1024 in the code

ASSUME RadixMinLen \in Nat /\ RadixMinGroup \in Nat

VARIABLES
  pairs,   \* the []RawPair argument: a sequence of [Key, Value]
  phase,   \* "start", "group", "radix" or "done"
  lens,    \* the bucket lengths not yet taken, ascending
  order,   \* the output order of pair indices built so far
  cur,     \* the bucket being radix sorted
  pos,     \* the byte position of the next radix pass (0-based), -1 when done
  out      \* the returned bytes

vars == <<pairs, phase, lens, order, cur, pos, out>>

Keys   == {AppendString(t) : t \in KeyTexts} \cup OtherKeys
Values == {AppendString(t) : t \in ValueTexts}

Key(i) == pairs[i].Key

\* bytes.Compare(a, b) < 0
LexLess(a, b) ==
  \E i \in 0..Len(a) :
    /\ i <= Len(b) /\ SubSeq(a, 1, i) = SubSeq(b, 1, i)
    /\ \/ i < Len(a) /\ i < Len(b) /\ a[i + 1] < b[i + 1]
       \/ i = Len(a) /\ i < Len(b)

\* byLen[l]: the indices of the pairs whose key has length l, in input order.
ByLen(l) == SetToSortSeq({i \in DOMAIN pairs : Len(Key(i)) = l}, <)

\* The sort.Slice results for a bucket: arrangements sorted by the key bytes.
SortedArrangements(grp) ==
  { s \in [1..Len(grp) -> ToSet(grp)] :
      /\ ToSet(s) = ToSet(grp)
      /\ \A i, j \in DOMAIN s : i < j => ~LexLess(Key(s[j]), Key(s[i])) }

\* One counting-sort pass on byte position p (0-based) over the indices in
\* c: counts become exclusive prefix sums, then each index, in the order of
\* c, is placed at its byte's next free slot.
CountingPassUnstable(c, p) ==
  LET byteOf(j) == Key(c[j])[p + 1]
      before(v) == Cardinality({j \in DOMAIN c : byteOf(j) < v})
      slot(j)   == before(byteOf(j))
                   + Cardinality({k \in (j + 1)..Len(c) : byteOf(k) = byteOf(j)})
  IN [q \in DOMAIN c |-> c[CHOOSE j \in DOMAIN c : slot(j) + 1 = q]]

CountingPass(c, p) ==
  LET byteOf(j) == Key(c[j])[p + 1]
      before(v) == Cardinality({j \in DOMAIN c : byteOf(j) < v})
      slot(j)   == before(byteOf(j))
                   + Cardinality({k \in 1..(j - 1) : byteOf(k) = byteOf(j)})
  IN [q \in DOMAIN c |-> c[CHOOSE j \in DOMAIN c : slot(j) + 1 = q]]

-----------------------------------------------------------------------------
(* AppendMapStrStrDeterministic: the entries of a map[string]string sorted *)
(* with sort.Slice by bytes.Compare of each key's text encoding.  Map keys *)
(* are distinct, so are their encodings, and the sorted order is unique.   *)
AppendMapStrStrDeterministicByKey(m) ==
  LET arr == SetToSortSeq(DOMAIN m, LAMBDA x, y : LexLess(x, y))
  IN AppendMapHeader(Cardinality(DOMAIN m))
     \o FlattenSeq([i \in DOMAIN arr |-> AppendString(arr[i]) \o AppendString(m[arr[i]])])

AppendMapStrStrDeterministic(m) ==
  LET arr == SetToSortSeq(DOMAIN m, LAMBDA x, y : LexLess(AppendString(x), AppendString(y)))
  IN AppendMapHeader(Cardinality(DOMAIN m))
     \o FlattenSeq([i \in DOMAIN arr |-> AppendString(arr[i]) \o AppendString(m[arr[i]])])

-----------------------------------------------------------------------------
EncodePairs(o) == FlattenSeq([k \in DOMAIN o |-> pairs[o[k]].Key \o pairs[o[k]].Value])

Init ==
  /\ pairs \in BoundedSeq([Key : Keys, Value : Values], MaxPairs)
  /\ phase = "start"
  /\ lens = <<>>
  /\ order = <<>>
  /\ cur = <<>>
  /\ pos = -1
  /\ out = <<>>

StartUnsortedLens ==
  /\ phase = "start"
  /\ IF Len(pairs) = 0
       THEN out' = AppendMapHeader(0) /\ phase' = "done" /\ UNCHANGED lens
       ELSE lens' \in SetToSeqs({Len(Key(i)) : i \in DOMAIN pairs})
            /\ phase' = "group" /\ UNCHANGED out
  /\ UNCHANGED <<pairs, order, cur, pos>>

StartOrderMadeWithLength ==
  /\ phase = "start"
  /\ IF Len(pairs) = 0
       THEN out' = AppendMapHeader(0) /\ phase' = "done" /\ UNCHANGED <<lens, order>>
       ELSE lens' = SetToSortSeq({Len(Key(i)) : i \in DOMAIN pairs}, <)
            /\ order' = [i \in 1..Len(pairs) |-> 0]
            /\ phase' = "group" /\ UNCHANGED out
  /\ UNCHANGED <<pairs, cur, pos>>

\* Entry: an empty map is just a header; otherwise bucket by key length.
Start ==
  /\ phase = "start"
  /\ IF Len(pairs) = 0
       THEN out' = AppendMapHeader(0) /\ phase' = "done" /\ UNCHANGED lens
       ELSE lens' = SetToSortSeq({Len(Key(i)) : i \in DOMAIN pairs}, <)
            /\ phase' = "group" /\ UNCHANGED out
  /\ UNCHANGED <<pairs, order, cur, pos>>

\* The next bucket: a single index is appended as it is.
SingletonGroup ==
  /\ phase = "group" /\ lens # <<>>
  /\ Len(ByLen(Head(lens))) <= 1
  /\ order' = order \o ByLen(Head(lens))
  /\ lens' = Tail(lens)
  /\ UNCHANGED <<pairs, phase, cur, pos, out>>

\* The next bucket, short keys and few entries: sort.Slice with bytes.Compare.
ComparatorGroup ==
  /\ phase = "group" /\ lens # <<>>
  /\ LET l == Head(lens) grp == ByLen(l) IN
     /\ Len(grp) > 1
     /\ l < RadixMinLen /\ Len(grp) < RadixMinGroup
     /\ \E s \in SortedArrangements(grp) : order' = order \o s
  /\ lens' = Tail(lens)
  /\ UNCHANGED <<pairs, phase, cur, pos, out>>

\* The next bucket otherwise: LSD radix sort from the last byte.
StartRadix ==
  /\ phase = "group" /\ lens # <<>>
  /\ LET l == Head(lens) grp == ByLen(l) IN
     /\ Len(grp) > 1
     /\ ~(l < RadixMinLen /\ Len(grp) < RadixMinGroup)
     /\ cur' = grp
     /\ pos' = l - 1
  /\ phase' = "radix"
  /\ lens' = Tail(lens)
  /\ UNCHANGED <<pairs, order, out>>

RadixPass ==
  /\ phase = "radix" /\ pos >= 0
  /\ cur' = CountingPass(cur, pos)
  /\ pos' = pos - 1
  /\ UNCHANGED <<pairs, phase, lens, order, out>>

RadixDone ==
  /\ phase = "radix" /\ pos < 0
  /\ order' = order \o cur
  /\ phase' = "group"
  /\ UNCHANGED <<pairs, lens, cur, pos, out>>

\* All buckets taken: the header for n pairs, then each pair's key and value.
Emit ==
  /\ phase = "group" /\ lens = <<>>
  /\ out' = AppendMapHeader(Len(pairs)) \o EncodePairs(order)
  /\ phase' = "done"
  /\ UNCHANGED <<pairs, lens, order, cur, pos>>

Next ==
  \/ Start \/ SingletonGroup \/ ComparatorGroup \/ StartRadix
  \/ RadixPass \/ RadixDone \/ Emit

Spec == Init /\ [][Next]_vars
-----------------------------------------------------------------------------
(* Properties *)

Phases == {"start", "group", "radix", "done"}

TypeOK ==
  /\ pairs \in Seq([Key : Keys, Value : Values])
  /\ phase \in Phases
  /\ lens \in Seq(Nat)
  /\ order \in Seq(DOMAIN pairs) /\ Len(order) <= Len(pairs)
  /\ cur \in Seq(DOMAIN pairs)
  /\ pos \in -1..(BigLen - 1)
  /\ out \in Seq(0..255)

\* Length-first, then bytes.Compare: the order of spec 4.5 and 8.5.
LenLexLess(a, b) == Len(a) < Len(b) \/ (Len(a) = Len(b) /\ LexLess(a, b))

Arrangements == {s \in [1..Len(pairs) -> DOMAIN pairs] : ToSet(s) = DOMAIN pairs}

\* Arrangements of the pairs in which no key is preceded by a larger one.
SortedBy(less(_, _)) ==
  {s \in Arrangements : \A i, j \in DOMAIN s : i < j => ~less(Key(s[j]), Key(s[i]))}

EncodedAs(s) == AppendMapHeader(Len(pairs)) \o EncodePairs(s)

\* The LSD radix invariant of the byte passes over a bucket: after the
\* passes on positions pos+1 .. l-1, the indices in cur are sorted by the
\* key bytes from pos+1 on, and indices whose bytes there are equal are still
\* in input order.  It is what makes the last pass sort whole keys; it
\* needs every pass of the placement loop to be stable.
RadixSuffixSorted ==
  phase = "radix" =>
    LET suffix(i) == Drop(Key(i), pos + 1) IN
    \A a, b \in DOMAIN cur :
      a < b => \/ LexLess(suffix(cur[a]), suffix(cur[b]))
               \/ suffix(cur[a]) = suffix(cur[b]) /\ cur[a] < cur[b]

\* AppendRawMapDeterministic returns the map header for all n pairs followed
\* by every pair exactly once, keys in length-then-lexicographic order
\* (spec 8.5), whichever of the comparator and radix paths each bucket takes.
OutputCanonical ==
  phase = "done" => \E s \in SortedBy(LenLexLess) : out = EncodedAs(s)

\* For a map[string]string the two encoders agree: the bytes.Compare order
\* of AppendMapStrStrDeterministic over text encodings is the length-first
\* order of AppendRawMapDeterministic over the same encoded pairs.
TextOf(k) == CHOOSE t \in KeyTexts \cup ValueTexts : AppendString(t) = k

StrStrAgreesWithRaw ==
  (/\ phase = "done"
   /\ \A i \in DOMAIN pairs : Key(i) \notin OtherKeys
   /\ \A i, j \in DOMAIN pairs : Key(i) = Key(j) => i = j)
  => out = AppendMapStrStrDeterministic(
             [t \in {TextOf(Key(i)) : i \in DOMAIN pairs} |->
                TextOf(pairs[CHOOSE i \in DOMAIN pairs : TextOf(Key(i)) = t].Value)])

=============================================================================
