------------------------------- MODULE GenCode -------------------------------
(***************************************************************************)
(* What the code cborgen writes does at run time: MarshalCBOR, DecodeSafe *)
(* and DecodeTrusted of a generated struct, as the fieldSpecs of          *)
(* GenStruct select them.  The per-field code is the encode_block and     *)
(* decode_case templates (src/cborgen/templates); the method bodies around *)
(* them come from marshal.go.tpl, which the repository does not carry, so *)
(* they are modelled from the generator section of the specification.     *)
(*                                                                         *)
(* E is the package's generated code: a function from struct name to its  *)
(* structSpec.  A struct value is a record keyed by GoName; a []T is a    *)
(* sequence; a map a function (nil and empty maps alike); a *T NilPtr or  *)
(* the struct; a scalar is in the form Dynamic gives it (ints as Width    *)
(* big-endian bytes, strings and []byte as byte sequences).               *)
(***************************************************************************)
EXTENDS GenStruct, Dynamic

CONSTANT KeyCode  \* the UTF-8 bytes of each CBOR key name

NilPtr == [ptr |-> "nil"]

\* The templates whose nested decode is DecodeTrusted; every other one
\* calls UnmarshalCBOR, which is DecodeSafe for a generated struct.
TrustedTemplates ==
  {TrustedForm[t] : t \in DOMAIN TrustedForm} \cup {"decodeCaseMapUint64PtrTrusted"}
NestedMode(t) == IF t \in TrustedTemplates THEN "Trusted" ELSE "Safe"

RECURSIVE Zero(_, _)
\* The Go zero value of a field type.
Zero(E, typ) ==
  CASE typ.t = "ident" /\ typ.name \in DOMAIN E ->
         [g \in {E[typ.name].Fields[i].GoName : i \in DOMAIN E[typ.name].Fields} |->
            Zero(E, (CHOOSE f \in Range(E[typ.name].Fields) : f.GoName = g).Type)]
    [] IsId(typ, "string") -> <<>>
    [] IsId(typ, "bool") -> FALSE
    [] Scalar(typ) -> [i \in 1..Width(VarType[typ.name]) |-> 0]
    [] typ.t = "selector" /\ typ.sel = "Duration" -> [i \in 1..8 |-> 0]
    [] typ.t = "map" -> [k \in {} |-> 0]
    [] typ.t = "star" -> NilPtr
    [] typ.t = "interface" -> [k |-> "nil", v |-> <<>>]
    [] OTHER -> <<>>
-----------------------------------------------------------------------------
(* MarshalCBOR.  Each field becomes a sequence of appends (a task): raw   *)
(* bytes, a scalar appender, a nested MarshalCBOR, a nil-checked pointer  *)
(* or AppendInterface.  A map gives one sequence per iteration order.     *)

Raw(bs) == [how |-> "raw", ty |-> "", v |-> bs]
Prim(vt, x) == [how |-> "prim", ty |-> vt, v |-> x]
Nested(n, x) == [how |-> "struct", ty |-> n, v |-> x]
Ptr(n, x) == [how |-> "ptr", ty |-> n, v |-> x]
AnyTask(x) == [how |-> "any", ty |-> "", v |-> x]

MapBlocks == {"encodeMapUint64PtrMarshaler", "encodeMapUint64Uint64", "encodeMapStrStr",
              "encodeMapStrValueMarshaler", "encodeMapStrPtrMarshaler", "encodeMapStrScalar"}

\* The body of a map block's range loop for the entry k: v.
PairTasks(blk, k, x) ==
  CASE blk.tmpl = "encodeMapUint64PtrMarshaler" -> <<Raw(AppendUint64(k)), Ptr(blk.var, x)>>
    [] blk.tmpl = "encodeMapUint64Uint64" -> <<Raw(AppendUint64(k)), Raw(AppendUint64(x))>>
    [] blk.tmpl = "encodeMapStrStr" -> <<Raw(AppendString(k)), Raw(AppendString(x))>>
    [] blk.tmpl = "encodeMapStrValueMarshaler" -> <<Raw(AppendString(k)), Nested(blk.var, x)>>
    [] blk.tmpl = "encodeMapStrPtrMarshaler" -> <<Raw(AppendString(k)), Ptr(blk.var, x)>>
    [] blk.tmpl = "encodeMapStrScalar" -> <<Raw(AppendString(k)), Prim(blk.var, x)>>

\* The body of a slice block's range loop for one element.
ElemTask(blk, x) ==
  CASE blk.tmpl = "encodeSlicePtrMarshaler" -> Ptr(blk.var, x)
    [] blk.tmpl = "encodeSliceValueMarshaler" -> Nested(blk.var, x)
    [] blk.tmpl = "encodeSliceScalar" -> Prim(blk.var, x)

\* An encode block after its key: the header, then the loop.
BlockTasks(blk, x) ==
  IF blk.tmpl \in MapBlocks
    THEN {<<Raw(AppendMapHeader(Cardinality(DOMAIN x)))>> \o
            FlattenSeq([i \in DOMAIN o |-> PairTasks(blk, o[i], x[o[i]])])
          : o \in SetToSeqs(DOMAIN x)}
    ELSE {<<Raw(AppendArrayHeader(Len(x)))>> \o [i \in DOMAIN x |-> ElemTask(blk, x[i])]}

\* The encode expression of a field.  map[string]string never reaches its
\* expression: encodeBlockForField gives it a block first.
ExprTask(f, x) ==
  CASE f.EncodeExpr.expr = "Append" -> Prim(VarType[f.Type.name], x)
    [] f.EncodeExpr.expr = "MarshalCBOR" -> Nested(f.Type.name, x)
    [] f.EncodeExpr.expr = "AppendStringSlice" -> Raw(AppendStringSlice(x))
    [] f.EncodeExpr.expr = "AppendPtrMarshaler" -> Ptr(f.Type.x.name, x)
    [] f.EncodeExpr.expr = "AppendDuration" -> Prim("time.Duration", x)
    [] f.EncodeExpr.expr = "AppendBytes" -> Raw(AppendBytes(x))

\* The field's entry in marshal.go.tpl: the key, then the block, else the
\* expression, else AppendInterface (here of a []byte or an interface).
FieldTasks(f, x) ==
  LET key == <<Raw(AppendString(KeyCode[f.CBORName]))>> IN
  CASE f.EncodeBlock.tmpl # "" -> {key \o t : t \in BlockTasks(f.EncodeBlock, x)}
    [] f.EncodeExpr.expr # "" -> {key \o <<ExprTask(f, x)>>}
    [] IsSlice(f.Type) -> {key \o <<AnyTask([k |-> "[]byte", v |-> x])>>}
    [] OTHER -> {key \o <<AnyTask(x)>>}

\* The omitempty zero test of a field's kind (zero_check.go.tpl).
IsZeroOf(kind, x) ==
  CASE kind = "string" -> x = <<>>
    [] kind = "bool" -> x = FALSE
    [] kind = "numeric" -> \A i \in DOMAIN x : x[i] = 0
    [] kind = "ptrOrInterface" -> x \in {NilPtr, [k |-> "nil", v |-> <<>>]}
    [] kind = "slice" -> x = <<>>
    [] kind = "map" -> DOMAIN x = {}
    [] OTHER -> FALSE

Omitted(f, x) == f.OmitEmpty /\ IsZeroOf(f.Kind, x[f.GoName])

\* The header counts NonOmitCount plus the omitempty fields that are set.
HeaderCount(ss, x) ==
  ss.NonOmitCount + Cardinality({i \in DOMAIN ss.Fields : ss.Fields[i].OmitEmpty /\ ~Omitted(ss.Fields[i], x)})

RECURSIVE MarshalStruct(_, _, _), encodeTask(_, _), runTasks(_, _, _), runFields(_, _, _, _)

encodeTask(E, t) ==
  CASE t.how = "raw" -> {R(t.v, "none")}
    [] t.how = "prim" -> {AppendScalar([k |-> t.ty, v |-> t.v])}
    [] t.how = "any" -> AppendInterface(t.v)
    [] OTHER -> IF t.how = "ptr" /\ t.v = NilPtr THEN {R(AppendNil, "none")}
                ELSE MarshalStruct(E, t.ty, t.v)

\* "b, err = ...; if err != nil { return b, err }" over a sequence of tasks.
runTasks(E, acc, ts) ==
  IF ts = <<>> THEN {R(acc, "none")}
  ELSE UNION {IF r.err # "none" THEN {R(acc \o r.out, r.err)}
              ELSE runTasks(E, acc \o r.out, Tail(ts))
              : r \in encodeTask(E, Head(ts))}

\* The field loop; an omitted field writes nothing.
runFields(E, acc, fs, x) ==
  IF fs = <<>> THEN {R(acc, "none")}
  ELSE LET f == Head(fs) IN
       UNION {UNION {IF r.err # "none" THEN {r} ELSE runFields(E, r.out, Tail(fs), x)
                     : r \in runTasks(E, acc, ts)}
              : ts \in IF Omitted(f, x) THEN {<<>>} ELSE FieldTasks(f, x[f.GoName])}

\* MarshalCBOR(b) of x: the map header, then the fields in order; one
\* result per order in which its maps are ranged over.
MarshalStruct(E, name, x) ==
  runFields(E, AppendMapHeader(HeaderCount(E[name], x)), E[name].Fields, x)
-----------------------------------------------------------------------------
(* DecodeSafe and DecodeTrusted.  A decoder returns Ok(value, rest) or    *)
(* Fail(err, b) with b the bytes it was given; after an error the target *)
(* is left partly written, and the model does not use it again.          *)

\* The ReadFunc decodeCaseExprSafe names for a VarType.
ReadFunc(vt, b) ==
  CASE vt = "string" -> ReadStringBytes(b)
    [] vt = "bool" -> ReadBoolBytes(b)
    [] vt = "int64" -> ReadInt64Bytes(b)
    [] vt \in IntKinds -> ReadIntNBytes(b, Width(vt))
    [] vt = "uint64" -> ReadUint64Bytes(b)
    [] vt \in UintKinds -> ReadUintNBytes(b, Width(vt))
    [] vt = "float32" -> ReadFloat32Bytes(b)
    [] vt = "float64" -> ReadFloat64Bytes(b)

\* The key of a map entry: an owned, UTF-8 checked string in DecodeSafe, a
\* zero-copy view in DecodeTrusted.
ReadKey(mode, b) == IF mode = "Safe" THEN ReadStringBytes(b) ELSE ReadStringZC(b)

\* A Safe map[uint64]uint64 decode that, like its Trusted twin, forgets
\* to clear the target's map.
MapStartNoClearU64(t, old) ==
  IF t \in {"decodeCaseMapUint64PtrTrusted", "decodeCaseMapUint64Uint64Trusted",
            "decodeCaseMapUint64Uint64"} THEN old
  ELSE [k \in {} |-> 0]

\* The maps a template starts from: "clear" or "make" empties the map,
\* except in the two Trusted map[uint64] templates, which keep it.
MapStart(t, old) ==
  IF t \in {"decodeCaseMapUint64PtrTrusted", "decodeCaseMapUint64Uint64Trusted"} THEN old
  ELSE [k \in {} |-> 0]

Put(m, k, x) == [j \in DOMAIN m \cup {k} |-> IF j = k THEN x ELSE m[j]]

ScalarMaps == {"decodeCaseMapStrBasic", "decodeCaseMapUint64Uint64", "decodeCaseMapUint64Uint64Trusted"}
Uint64Maps == {"decodeCaseMapUint64Ptr", "decodeCaseMapUint64PtrTrusted",
               "decodeCaseMapUint64Uint64", "decodeCaseMapUint64Uint64Trusted"}
PtrTemplates == {"decodeCaseMapUint64Ptr", "decodeCaseMapUint64PtrTrusted",
                 "decodeCasePtrUnmarshalField", "decodeCasePtrTrustedField",
                 "decodeCaseSlicePtrStruct", "decodeCaseSlicePtrStructTrusted"}
SliceTemplates == {"decodeCaseSliceBasic", "decodeCaseSliceStruct", "decodeCaseSliceStructTrusted",
                   "decodeCaseSlicePtrStruct", "decodeCaseSlicePtrStructTrusted"}
FieldTemplates == {"decodeCaseUnmarshalField", "decodeCaseTrustedField",
                   "decodeCasePtrUnmarshalField", "decodeCasePtrTrustedField"}

\* The struct a nested decode writes into: the field or element itself,
\* "new(T)" for a nil pointer, "var tmp T" for a value element.
NestedTarget(E, d, old) ==
  IF (d.tmpl \in PtrTemplates /\ old # NilPtr) \/ d.tmpl \in {"decodeCaseUnmarshalField", "decodeCaseTrustedField"}
  THEN old ELSE Zero(E, Id(d.var))

\* The decoders below pass each intermediate result on as an argument of
\* the step that continues the loop, the "if err != nil { return b, err }"
\* test at its head.
RECURSIVE DecodeStruct(_, _, _, _, _), structHeader(_, _, _, _, _, _),
          decodeEntries(_, _, _, _, _, _, _), entryDone(_, _, _, _, _, _, _, _),
          decodeField(_, _, _, _), readElems(_, _, _, _, _, _), elemDone(_, _, _, _, _, _),
          readPairs(_, _, _, _, _), pairKey(_, _, _, _, _), pairDone(_, _, _, _, _, _),
          readValue(_, _, _), skipped(_, _), sliceHeader(_, _, _, _), mapHeader(_, _, _, _)

\* Mutant: DecodeTrusted's map[uint64]*T template without the null check.
readValueTrustedNoNull(E, d, v) ==
  IF d.tmpl \in ScalarMaps THEN ReadFunc(IF d.var = "" THEN "uint64" ELSE d.var, v)
  ELSE IF d.tmpl = "decodeCaseMapUint64Ptr" /\ Len(v) = 0 THEN Fail("ShortBytes", v)
  ELSE IF d.tmpl = "decodeCaseMapUint64Ptr" /\ v[1] = AppendNil[1] THEN Ok(NilPtr, ReadNilBytes(v).rest)
  ELSE DecodeStruct(E, d.var, NestedMode(d.tmpl), v, Zero(E, Id(d.var)))

\* Mutant: the entry loop stops one entry short.
decodeEntriesOneShort(E, name, mode, b, v, n, x) ==
  IF n <= 1 THEN Ok(x, v)
  ELSE LET k == ReadKey(mode, v)
           F == E[name].Fields
           hit == {i \in DOMAIN F : KeyCode[F[i].CBORName] = k.val}
       IN IF k.err # "none" THEN Fail(k.err, b)
          ELSE entryDone(E, name, mode, b, n, x,
                         IF hit = {} THEN "" ELSE F[Min(hit)].GoName,
                         IF hit = {} THEN Skip(k.rest)
                         ELSE decodeField(E, IF mode = "Safe" THEN F[Min(hit)].DecodeCaseSafe
                                             ELSE F[Min(hit)].DecodeCaseTrust,
                                          k.rest, x[F[Min(hit)].GoName]))

\* One map value of a template: a scalar, or a nested struct decoded into
\* a zero value; the map[uint64]*T templates first check for a null.
readValue(E, d, v) ==
  IF d.tmpl \in ScalarMaps THEN ReadFunc(IF d.var = "" THEN "uint64" ELSE d.var, v)
  ELSE IF d.tmpl \in Uint64Maps /\ Len(v) = 0 THEN Fail("ShortBytes", v)
  ELSE IF d.tmpl \in Uint64Maps /\ v[1] = AppendNil[1] THEN Ok(NilPtr, ReadNilBytes(v).rest)
  ELSE DecodeStruct(E, d.var, NestedMode(d.tmpl), v, Zero(E, Id(d.var)))

\* The pair loop of the map templates: key, then value, then the next.
readPairs(E, d, v, n, m) ==
  IF n = 0 THEN Ok(m, v)
  ELSE pairKey(E, d, n, m, IF d.tmpl \in Uint64Maps THEN ReadUint64Bytes(v) ELSE ReadStringBytes(v))
pairKey(E, d, n, m, k) ==
  IF k.err # "none" THEN k ELSE pairDone(E, d, n, m, k.val, readValue(E, d, k.rest))
pairDone(E, d, n, m, key, r) ==
  IF r.err # "none" THEN r ELSE readPairs(E, d, r.rest, n - 1, Put(m, key, r.val))

\* The element loop of the slice templates; s is the slice after
\* "x.F = x.F[:sz]" or make (capacity is taken to be the length).
readElems(E, d, v, i, n, s) ==
  IF i > n THEN Ok(s, v)
  ELSE elemDone(E, d, i, n, s,
                IF d.tmpl = "decodeCaseSliceBasic" THEN ReadFunc(d.var, v)
                ELSE DecodeStruct(E, d.var, NestedMode(d.tmpl), v,
                                  NestedTarget(E, d, IF i <= Len(s) THEN s[i] ELSE NilPtr)))
elemDone(E, d, i, n, s, r) ==
  IF r.err # "none" THEN r
  ELSE readElems(E, d, r.rest, i + 1, n, [j \in 1..Len(s) \cup {i} |-> IF j = i THEN r.val ELSE s[j]])

skipped(old, r) == IF r.err # "none" THEN r ELSE Ok(old, r.rest)
sliceHeader(E, d, old, h) ==
  IF h.err # "none" THEN h
  ELSE readElems(E, d, h.rest, 1, h.val, SubSeq(old, 1, IF h.val < Len(old) THEN h.val ELSE Len(old)))
mapHeader(E, d, old, h) ==
  IF h.err # "none" THEN h ELSE readPairs(E, d, h.rest, h.val, MapStart(d.tmpl, old))

\* One decode_case template applied to the field's current value.
decodeField(E, d, v, old) ==
  CASE d.tmpl = "decodeCaseBasic" -> ReadFunc(d.var, v)
    [] d.tmpl = "decodeCaseStringTrusted" -> ReadStringZC(v)
    [] d.tmpl = "decodeCaseBytes" -> ReadBytesBytes(v)
    [] d.tmpl = "decodeCaseSkip" -> skipped(old, Skip(v))
    [] d.tmpl \in FieldTemplates -> DecodeStruct(E, d.var, NestedMode(d.tmpl), v, NestedTarget(E, d, old))
    [] d.tmpl \in SliceTemplates -> sliceHeader(E, d, old, ReadArrayHeaderBytes(v))
    [] OTHER -> mapHeader(E, d, old, ReadMapHeaderBytes(v))

\* The entry loop: read the key, switch on it (the first field with that
\* CBOR name) or skip an unknown key's value; any error returns b.
decodeEntries(E, name, mode, b, v, n, x) ==
  IF n = 0 THEN Ok(x, v)
  ELSE LET k == ReadKey(mode, v)
           F == E[name].Fields
           hit == {i \in DOMAIN F : KeyCode[F[i].CBORName] = k.val}
       IN IF k.err # "none" THEN Fail(k.err, b)
          ELSE entryDone(E, name, mode, b, n, x,
                         IF hit = {} THEN "" ELSE F[Min(hit)].GoName,
                         IF hit = {} THEN Skip(k.rest)
                         ELSE decodeField(E, IF mode = "Safe" THEN F[Min(hit)].DecodeCaseSafe
                                             ELSE F[Min(hit)].DecodeCaseTrust,
                                          k.rest, x[F[Min(hit)].GoName]))
entryDone(E, name, mode, b, n, x, g, r) ==
  IF r.err # "none" THEN Fail(r.err, b)
  ELSE decodeEntries(E, name, mode, b, r.rest, n - 1, IF g = "" THEN x ELSE [x EXCEPT ![g] = r.val])

\* DecodeSafe (mode "Safe") or DecodeTrusted of b into the struct x.
DecodeStruct(E, name, mode, b, x) == structHeader(E, name, mode, b, x, ReadMapHeaderBytes(b))
structHeader(E, name, mode, b, x, h) ==
  IF h.err # "none" THEN Fail(h.err, b) ELSE decodeEntries(E, name, mode, b, h.rest, h.val, x)
====
