------------------------------- MODULE Dynamic -------------------------------
(***************************************************************************)
(* The dynamic encoder AppendInterface of src/runtime/read_bytes.go and    *)
(* the typed container helpers beside it.                                  *)
(*                                                                         *)
(* A Go value is a record [k, v]: k names its dynamic type and v its data. *)
(*   scalars    k in ScalarKinds; integers are their Width(k) bytes,       *)
(*              two's complement for the signed kinds, floats the F32/F64  *)
(*              records of Float, strings and []byte byte sequences       *)
(*   "json.Number"  v = [int, float]: what v.Int64() and v.Float64()       *)
(*              return, <<value>> on success and <<>> on error             *)
(*   "struct"   a user type: v = [recv, ptr, raw, fails]; recv is the      *)
(*              receiver of its MarshalCBOR ("value", "pointer", "none"),  *)
(*              ptr whether the value is a *T, raw what MarshalCBOR        *)
(*              appends, fails whether it returns an error                 *)
(*   "[]"       v = [elem, items]: a slice of element type elem            *)
(*   "map"      v = [key, elem, pairs]: pairs is a sequence of [key, val]  *)
(*              with distinct keys, in no particular order                 *)
(* Ranging over a Go map visits the pairs in an arbitrary order, so an     *)
(* encoder returns the SET of results [out, err] it can produce; out is    *)
(* what it appends to b, error or not.                                     *)
(***************************************************************************)
EXTENDS Float, Walk, SequencesExt

IntKinds  == {"int", "int8", "int16", "int32", "int64", "time.Duration"}
UintKinds == {"uint", "uint8", "uint16", "uint32", "uint64"}
\* The size in bytes of each integer kind (int and uint are 64 bits wide).
Width(k) ==
  CASE k \in {"int8", "uint8"} -> 1
    [] k \in {"int16", "uint16"} -> 2
    [] k \in {"int32", "uint32"} -> 4
    [] OTHER -> 8

\* int64(i) in AppendInt, AppendInt8 .. AppendInt32 and AppendDuration.
ToInt64(v) == SignExtend(v)
\* uint64(u) in AppendUint, AppendUint8 .. AppendUint32.
ToUint64(v) == Pad8(v)

ScalarKinds == IntKinds \cup UintKinds \cup
  {"string", "bool", "float32", "float64", "[]byte", "json.RawMessage", "json.Number"}

\* The element types with a case of their own in the type switch.
TypedSliceElems == {"int", "int8", "int16", "int32", "int64", "uint", "uint16",
                    "uint32", "uint64", "float32", "float64", "string"}
TypedMapElems == {"int", "int64", "uint", "uint64", "float64", "string"}

R(out, err) == [out |-> out, err |-> err]
Unsupported == R(<<>>, "UnsupportedType")

\* A Marshaler in the type switch: a value receiver, or a pointer receiver
\* reached through a *T.
HasMarshaler(x) == x.k = "struct" /\ (x.v.recv = "value" \/ (x.v.recv = "pointer" /\ x.v.ptr))

\* What v.MarshalCBOR(b) appends.
MarshalCBOR(x) == IF x.v.fails THEN R(<<>>, "MarshalError") ELSE R(x.v.raw, "none")

\* Mutant: v.Float64() tried before v.Int64().
AppendJSONNumberFloatFirst(n) ==
  IF n.float # <<>> THEN R(AppendFloat64(n.float[1]), "none")
  ELSE IF n.int # <<>> THEN R(AppendInt64(n.int[1]), "none")
  ELSE Unsupported

\* json.Number: as an int64 if it parses as one, else as a float64.
AppendJSONNumber(n) ==
  IF n.int # <<>> THEN R(AppendInt64(n.int[1]), "none")
  ELSE IF n.float # <<>> THEN R(AppendFloat64(n.float[1]), "none")
  ELSE Unsupported

\* The scalar cases of the type switch; AppendInt8..AppendInt32, AppendInt
\* and AppendDuration convert to int64 and go through AppendInt64, the
\* unsigned ones convert to uint64 and go through appendUintCore.
AppendScalar(x) ==
  CASE x.k = "string" -> R(AppendString(x.v), "none")
    [] x.k = "bool" -> R(AppendBool(x.v), "none")
    [] x.k \in IntKinds -> R(AppendInt64(ToInt64(x.v)), "none")
    [] x.k \in UintKinds -> R(AppendUint64(ToUint64(x.v)), "none")
    [] x.k = "float32" -> R(AppendFloat32(x.v), "none")
    [] x.k = "float64" -> R(AppendFloat64(x.v), "none")
    [] x.k \in {"[]byte", "json.RawMessage"} -> R(AppendBytes(x.v), "none")
    [] x.k = "json.Number" -> AppendJSONNumber(x.v)
    [] OTHER -> Unsupported

\* The orders in which ranging over a map of n pairs may visit them.
Orders(n) == Permutations(1..n)
InOrder(ps, o) == [i \in DOMAIN ps |-> ps[o[i]]]

\* The map key as the reflection path encodes it by the key's kind.
EncodeKey(kind, key) ==
  CASE kind = "string" -> R(AppendString(key), "none")
    [] kind \in UintKinds -> R(AppendUint64(ToUint64(key)), "none")
    [] kind \in IntKinds -> R(AppendInt64(ToInt64(key)), "none")
    [] OTHER -> Unsupported

\* The reflection path finds a Marshaler on the element or on a pointer to
\* it: a slice element is addressable, and for a map value the code
\* allocates a pointer of the map's element type, which has the pointer
\* receiver's method only when that type is the struct itself, not any.
ReflectMarshals(x) == x.k = "struct" /\ x.v.recv \in {"value", "pointer"}

RECURSIVE AppendInterface(_), appendItems(_, _, _), appendPairs(_, _, _),
          strInterfacePairs(_, _)

\* The map value's encoder: the scalar appender of a typed map[string]X,
\* else the reflection path.
MapValue(m, x) ==
  CASE m.key = "string" /\ m.elem \in TypedMapElems -> {AppendScalar(x)}
    [] OTHER -> IF HasMarshaler(x) \/ (m.elem # "any" /\ ReflectMarshals(x))
                THEN {MarshalCBOR(x)} ELSE AppendInterface(x)

\* The slice element's encoder: the scalar appender of a typed slice,
\* AppendInterface for []any, a Marshaler (or *T) on the reflection path.
ItemValue(s, x) ==
  CASE s.elem \in TypedSliceElems -> {AppendScalar(x)}
    [] s.elem = "any" -> AppendInterface(x)
    [] OTHER -> IF ReflectMarshals(x) THEN {MarshalCBOR(x)} ELSE {Unsupported}

\* "for _, elem := range v { b, err = enc(b, elem); if err != nil { return b, err } }"
appendItems(acc, s, items) ==
  IF items = <<>> THEN {R(acc, "none")}
  ELSE UNION {IF r.err # "none" THEN {R(acc \o r.out, r.err)}
              ELSE appendItems(acc \o r.out, s, Tail(items))
              : r \in ItemValue(s, Head(items))}

\* The pair loop of every map case: the key, then the value.
appendPairs(acc, m, ps) ==
  IF ps = <<>> THEN {R(acc, "none")}
  ELSE LET k == EncodeKey(m.key, Head(ps).key) IN
       IF k.err # "none" THEN {R(acc, k.err)}
       ELSE UNION {IF r.err # "none" THEN {R(acc \o k.out \o r.out, r.err)}
                   ELSE appendPairs(acc \o k.out \o r.out, m, Tail(ps))
                   : r \in MapValue(m, Head(ps).val)}

\* AppendMapStrInterface: the pair loop with AppendInterface for values.
strInterfacePairs(acc, ps) ==
  IF ps = <<>> THEN {R(acc, "none")}
  ELSE LET k == AppendString(Head(ps).key) IN
       UNION {IF r.err # "none" THEN {R(acc \o k \o r.out, r.err)}
              ELSE strInterfacePairs(acc \o k \o r.out, Tail(ps))
              : r \in AppendInterface(Head(ps).val)}
AppendMapStrInterface(ps) ==
  UNION {strInterfacePairs(AppendMapHeader(Len(ps)), InOrder(ps, o)) : o \in Orders(Len(ps))}

AppendSlice(s) == appendItems(AppendArrayHeader(Len(s.items)), s, s.items)
AppendMap(m) ==
  UNION {appendPairs(AppendMapHeader(Len(m.pairs)), m, InOrder(m.pairs, o))
         : o \in Orders(Len(m.pairs))}

AppendInterface(x) ==
  CASE x.k = "nil" -> {R(AppendNil, "none")}
    [] HasMarshaler(x) -> {MarshalCBOR(x)}
    [] x.k \in ScalarKinds -> {AppendScalar(x)}
    [] x.k = "[]" -> AppendSlice(x.v)
    [] x.k = "map" /\ x.v.key = "string" /\ x.v.elem = "any" -> AppendMapStrInterface(x.v.pairs)
    [] x.k = "map" -> AppendMap(x.v)
    [] OTHER -> {Unsupported}
-----------------------------------------------------------------------------
(* The typed helpers generated code calls instead of AppendInterface. *)

\* The helpers that cannot fail return the set of byte strings they can
\* write, one per order of the map's pairs.
AppendMapStrStr(ps) ==
  {AppendMapHeader(Len(ps)) \o
     FlattenSeq([i \in DOMAIN ps |-> AppendString(ps[o[i]].key) \o AppendString(ps[o[i]].val)])
   : o \in Orders(Len(ps))}

AppendStringSlice(ss) ==
  AppendArrayHeader(Len(ss)) \o FlattenSeq([i \in DOMAIN ss |-> AppendString(ss[i])])

AppendMapUint64Uint64(ps) ==
  {AppendMapHeader(Len(ps)) \o
     FlattenSeq([i \in DOMAIN ps |-> AppendUint64(ps[o[i]].key) \o AppendUint64(ps[o[i]].val)])
   : o \in Orders(Len(ps))}

\* AppendPtrMarshaler(v *T): null for a nil pointer, else *T's MarshalCBOR.
AppendPtrMarshaler(x) ==
  CASE x.k = "nil" -> R(AppendNil, "none")
    [] HasMarshaler(x) -> MarshalCBOR(x)
    [] OTHER -> Unsupported

\* Mutant: the lookup without the &v fallback.
ValueMarshalsOnly(x) == x.k = "struct" /\ x.v.recv = "value"

\* The Marshaler of v or of &v, as AppendSliceMarshaler and
\* AppendMapUint64Marshaler look for it.
ValueOrPtrMarshals(x) == x.k = "struct" /\ x.v.recv \in {"value", "pointer"}

RECURSIVE sliceMarshalers(_, _), uint64Marshalers(_, _)
sliceMarshalers(acc, items) ==
  IF items = <<>> THEN R(acc, "none")
  ELSE IF ~ValueOrPtrMarshals(Head(items)) THEN R(acc, "UnsupportedType")
  ELSE LET r == MarshalCBOR(Head(items)) IN
       IF r.err # "none" THEN R(acc \o r.out, r.err)
       ELSE sliceMarshalers(acc \o r.out, Tail(items))
AppendSliceMarshaler(items) == sliceMarshalers(AppendArrayHeader(Len(items)), items)

uint64Marshalers(acc, ps) ==
  IF ps = <<>> THEN R(acc, "none")
  ELSE LET k == AppendUint64(Head(ps).key) IN
       IF ~ValueOrPtrMarshals(Head(ps).val) THEN R(acc \o k, "UnsupportedType")
       ELSE LET r == MarshalCBOR(Head(ps).val) IN
            IF r.err # "none" THEN R(acc \o k \o r.out, r.err)
            ELSE uint64Marshalers(acc \o k \o r.out, Tail(ps))
AppendMapUint64Marshaler(ps) ==
  {uint64Marshalers(AppendMapHeader(Len(ps)), InOrder(ps, o)) : o \in Orders(Len(ps))}
=============================================================================
