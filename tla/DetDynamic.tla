----------------------------- MODULE DetDynamic -----------------------------
(***************************************************************************)
(* The deterministic encoders of Go maps in src/runtime/read_bytes.go:     *)
(* AppendMapStrInterfaceDeterministic, which sorts map[string]any entries  *)
(* by bytes.Compare of their encoded keys, and the generic                 *)
(* AppendMapDeterministic with its key and value encoders (the EncKey and  *)
(* EncVal functions) and typed wrappers.  Maps are the map records of      *)
(* Dynamic; an encoder returns the set of results it can produce, since a  *)
(* value may itself hold a map that AppendInterface ranges over.           *)
(*                                                                         *)
(* AppendMapDeterministic buckets the entries by encoded key length and    *)
(* sorts each bucket with sort.Slice or an LSD radix sort: the same code   *)
(* as AppendRawMapDeterministic, which DetMap models step by step and      *)
(* detmap_core shows to produce the length-then-bytes order.  Here that    *)
(* order is used directly.                                                 *)
(***************************************************************************)
EXTENDS Dynamic

\* bytes.Compare(a, b) < 0
BytesLess(a, b) ==
  \E i \in 0..Len(a) :
    /\ i <= Len(b) /\ SubSeq(a, 1, i) = SubSeq(b, 1, i)
    /\ \/ i < Len(a) /\ i < Len(b) /\ a[i + 1] < b[i + 1]
       \/ i = Len(a) /\ i < Len(b)

\* The order of the length buckets, then bytes.Compare within a bucket.
LenFirstLess(a, b) == Len(a) < Len(b) \/ (Len(a) = Len(b) /\ BytesLess(a, b))

\* The common key encoders (EncKeyTime is not modelled).
EncKey(kind, k) ==
  CASE kind = "string" -> AppendString(k)
    [] kind = "[]byte" -> AppendBytes(k)
    [] kind \in {"int", "int64"} -> AppendInt64(k)
    [] kind = "uint64" -> AppendUint64(k)
    [] kind = "bool" -> AppendBool(k)
    [] kind = "float64" -> AppendFloat64(k)
EncKeyKinds == {"string", "[]byte", "int", "int64", "uint64", "bool", "float64"}

\* The common value encoders; EncValInterface is AppendInterface.
EncVal(kind, x) ==
  IF kind = "any" THEN AppendInterface(x) ELSE {AppendScalar(x)}
EncValKinds == {"string", "[]byte", "int", "int64", "uint64", "bool", "float64", "float32", "any"}

\* The entries' values after the sort, each key encoded once.
RECURSIVE emitEntries(_, _, _, _)
emitEntries(acc, kind, keyEncs, vals) ==
  IF keyEncs = <<>> THEN {R(acc, "none")}
  ELSE UNION {IF r.err # "none" THEN {R(acc \o Head(keyEncs) \o r.out, r.err)}
              ELSE emitEntries(acc \o Head(keyEncs) \o r.out, kind, Tail(keyEncs), Tail(vals))
              : r \in EncVal(kind, Head(vals))}

\* Mutant: the buckets sorted by bytes.Compare alone.
AppendMapDeterministicBytewise(m) ==
  LET enc(i) == EncKey(m.key, m.pairs[i].key)
      order  == SetToSortSeq(DOMAIN m.pairs, LAMBDA i, j : BytesLess(enc(i), enc(j)))
  IN emitEntries(AppendMapHeader(Len(m.pairs)), m.elem,
                 [q \in DOMAIN order |-> enc(order[q])],
                 [q \in DOMAIN order |-> m.pairs[order[q]].val])

\* AppendMapDeterministic(b, m, EncKey<key>, EncVal<elem>): the header for
\* all entries, then each entry's encoded key and its value; an error of
\* encVal returns what was appended so far.
AppendMapDeterministic(m) ==
  LET enc(i) == EncKey(m.key, m.pairs[i].key)
      order  == SetToSortSeq(DOMAIN m.pairs, LAMBDA i, j : LenFirstLess(enc(i), enc(j)))
  IN emitEntries(AppendMapHeader(Len(m.pairs)), m.elem,
                 [q \in DOMAIN order |-> enc(order[q])],
                 [q \in DOMAIN order |-> m.pairs[order[q]].val])

\* The typed wrappers AppendMapDeterministicStr<V> discard the error, which
\* their value encoders never return.
TypedDetElems == {"string", "int64", "int", "uint64", "bool", "float64", "[]byte"}
AppendMapDeterministicTyped(m) == {R(r.out, "none") : r \in AppendMapDeterministic(m)}

\* AppendMapStrInterfaceDeterministic: the keys sorted with sort.Slice by
\* bytes.Compare of their text encodings, then key and AppendInterface.
RECURSIVE strAnyEntries(_, _, _)
strAnyEntries(acc, m, keys) ==
  IF keys = <<>> THEN {R(acc, "none")}
  ELSE LET k == Head(keys)
           v == m.pairs[CHOOSE i \in DOMAIN m.pairs : m.pairs[i].key = k].val IN
       UNION {IF r.err # "none" THEN {R(acc \o AppendString(k) \o r.out, r.err)}
              ELSE strAnyEntries(acc \o AppendString(k) \o r.out, m, Tail(keys))
              : r \in AppendInterface(v)}
AppendMapStrInterfaceDeterministic(m) ==
  LET keys == SetToSortSeq({p.key : p \in ToSet(m.pairs)},
                           LAMBDA x, y : BytesLess(AppendString(x), AppendString(y)))
  IN strAnyEntries(AppendMapHeader(Len(m.pairs)), m, keys)
=============================================================================
