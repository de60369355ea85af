-------------------------------- MODULE MCGen --------------------------------
(***************************************************************************)
(* cborgen run over a small package, then the generated code in use.      *)
(* The first phase is the generator's walk (GenStruct); once it is done,  *)
(* a struct value is marshalled with the generated MarshalCBOR and the    *)
(* bytes, whole or cut short, are decoded with DecodeSafe or              *)
(* DecodeTrusted into a target that is either fresh or kept from the      *)
(* previous decode of the same type, as a caller reusing a struct does.   *)
(***************************************************************************)
EXTENDS GenCode

VARIABLES sent,  \* [pkg, name, x, wire]: the value marshalled and its bytes
          dst,   \* the decode target: [name, x], or None
          got    \* the last decode: [mode, in, from, res], or None

None == [is |-> "none"]
useVars == <<sent, dst, got>>
vars == <<genVars, useVars>>

Tag(c, j) == [cbor |-> c, json |-> j]
Field(n, ty, tag) == [names |-> <<n>>, tag |-> tag, type |-> ty]
Struct(n, fs) == [name |-> n, type |-> [t |-> "struct", fields |-> fs]]
TypeDecl(specs) == [tok |-> "TYPE", specs |-> specs]
FuncDecl == [tok |-> "FUNC", specs |-> <<>>]

\* Outer refers to Leaf before Leaf is declared, and has an omitempty
\* pointer and slice, a counter map, a raw JSON field, an ignored and an
\* unexported field.  Holder's field type Empty has no exported field.
\* Wrap, in a second file of the package, holds Leaf by value, in a
\* slice of pointers and in string- and uint64-keyed maps of pointers.
MCOuter ==
  Struct("Outer",
    <<Field("ID", Id("string"), Tag(<<"i">>, Absent)),
      Field("In", Id("Leaf"), Tag(<<"l">>, Absent)),
      Field("P", Star(Id("Leaf")), Tag(<<"p", "omitempty">>, Absent)),
      Field("Cnt", MapOf(Id("uint64"), Id("uint64")), Tag(Absent, <<"c">>)),
      Field("Tags", SliceOf(Id("string")), Tag(<<"t", "omitempty">>, Absent)),
      Field("Raw", Sel("json", "RawMessage"), Tag(<<"r">>, Absent)),
      Field("Skip", Id("int"), Tag(<<"-">>, <<"s">>)),
      Field("hidden", Id("int"), NoTag)>>)
MCLeaf == Struct("Leaf", <<Field("N", Id("uint8"), Tag(<<"n">>, Absent))>>)
MCEmpty == Struct("Empty", <<Field("hidden", Id("int"), NoTag)>>)
MCHolder == Struct("Holder", <<Field("E", Id("Empty"), Tag(<<"e">>, Absent))>>)
MCWrap ==
  Struct("Wrap",
    <<Field("L", Id("Leaf"), NoTag),
      Field("Ps", SliceOf(Star(Id("Leaf"))), NoTag),
      Field("M", MapOf(Id("string"), Star(Id("Leaf"))), NoTag),
      Field("U", MapOf(Id("uint64"), Star(Id("Leaf"))), NoTag)>>)
MCAlias == [name |-> "Name", type |-> Id("string")]

MCFiles ==
  << [kind |-> "dir", pkg |-> "", parses |-> TRUE, decls |-> <<>>],
     [kind |-> "go", pkg |-> "p", parses |-> TRUE,
      decls |-> <<TypeDecl(<<MCOuter, MCAlias>>), FuncDecl,
                  TypeDecl(<<MCLeaf, MCEmpty, MCHolder>>)>>],
     [kind |-> "test", pkg |-> "p", parses |-> TRUE, decls |-> <<>>],
     [kind |-> "go", pkg |-> "p", parses |-> TRUE, decls |-> <<TypeDecl(<<MCWrap>>)>>] >>

\* The same tree with a file that does not parse before Wrap's.
MCBroken ==
  SubSeq(MCFiles, 1, 3) \o <<[kind |-> "go", pkg |-> "p", parses |-> FALSE, decls |-> <<>>]>>
                       \o SubSeq(MCFiles, 4, 4)
MCTrees == {MCFiles, MCBroken}

MCExported == {"ID", "In", "P", "Cnt", "Tags", "Raw", "Skip", "N", "E", "L", "Ps", "M", "U",
               "Outer", "Leaf", "Empty", "Holder", "Wrap", "Name"}

\* One byte per key name, as UTF-8 encodes these ASCII names.
MCKeyCode ==
  [s \in {"i", "l", "p", "c", "t", "r", "n", "e", "L", "Ps", "M", "U"} |->
     CASE s = "i" -> <<105>> [] s = "l" -> <<108>> [] s = "p" -> <<112>>
       [] s = "c" -> <<99>>  [] s = "t" -> <<116>> [] s = "r" -> <<114>>
       [] s = "n" -> <<110>> [] s = "e" -> <<101>> [] s = "L" -> <<76>>
       [] s = "Ps" -> <<80, 115>> [] s = "M" -> <<77>>
       [] s = "U" -> <<85>>]
-----------------------------------------------------------------------------
(* The generated code of a package, and the values a field may hold. *)

\* The structSpecs written for package pkg, by name.
Generated(pkg) ==
  LET ss == UNION {Range(output[i].structs) : i \in {j \in DOMAIN output : output[j].pkg = pkg}}
  IN [n \in {s.Name : s \in ss} |-> CHOOSE s \in ss : s.Name = n]

U64(n) == [i \in 1..8 |-> IF i = 8 THEN n ELSE 0]

RECURSIVE Vals(_, _), fieldVals(_, _, _)
\* The value sequences of the fields F[i..].
fieldVals(E, F, i) ==
  IF i > Len(F) THEN {<<>>}
  ELSE {<<v>> \o rest : v \in Vals(E, F[i].Type), rest \in fieldVals(E, F, i + 1)}

\* Values of a field type: one of each scalar, containers of at
\* most one element, except map[uint64]uint64 with up to two entries.
Vals(E, typ) ==
  CASE typ.t = "ident" /\ typ.name \in DOMAIN E ->
         LET F == E[typ.name].Fields IN
         {[n \in {F[i].GoName : i \in DOMAIN F} |-> r[CHOOSE i \in DOMAIN F : F[i].GoName = n]]
          : r \in fieldVals(E, F, 1)}
    [] IsId(typ, "string") -> {<<97>>}
    [] IsId(typ, "uint8") -> {<<1>>}
    [] typ.t = "selector" -> {<<7>>}
    [] typ.t = "star" -> {NilPtr} \cup Vals(E, typ.x)
    [] IsSlice(typ) -> {<<>>} \cup {<<v>> : v \in Vals(E, typ.elt)}
    [] typ.t = "map" /\ IsId(typ.key, "uint64") /\ IsId(typ.value, "uint64") ->
         {[k \in K |-> U64(1)] : K \in SUBSET {U64(1), U64(2)}}
    [] typ.t = "map" /\ IsId(typ.key, "uint64") -> {[k \in {} |-> 0]} \cup {U64(1) :> v : v \in Vals(E, typ.value)}
    [] typ.t = "map" -> {[k \in {} |-> 0]} \cup {<<109>> :> v : v \in Vals(E, typ.value)}

\* The structs whose nested types all have generated code.
NestedRefs(ss) ==
  {ss.Fields[i].DecodeCaseSafe.var : i \in {j \in DOMAIN ss.Fields :
     ss.Fields[j].DecodeCaseSafe.tmpl \in DOMAIN TrustedForm \cup {"decodeCaseMapUint64Ptr"}}}
Usable(E, n) == NestedRefs(E[n]) \subseteq DOMAIN E
-----------------------------------------------------------------------------
Init ==
  /\ GenInit
  /\ sent = None /\ dst = None /\ got = None

\* Generation: one step of the walk.
Generate == GenNext /\ UNCHANGED useVars

\* x.MarshalCBOR(nil) for a value of a generated struct, once the last
\* bytes have been decoded; the target is kept when it has the same type.
Marshal ==
  /\ status = "done" /\ (sent = None \/ got # None)
  /\ \E o \in Range(output) :
       LET E == Generated(o.pkg) IN
       \E n \in DOMAIN E : Usable(E, n) /\
         \E x \in Vals(E, Id(n)) : \E r \in MarshalStruct(E, n, x) :
           /\ r.err = "none"
           /\ sent' = [pkg |-> o.pkg, name |-> n, x |-> x, wire |-> r.out]
           /\ dst' = IF dst # None /\ dst.name = n THEN dst ELSE [name |-> n, x |-> Zero(E, Id(n))]
           /\ got' = None
  /\ UNCHANGED genVars

\* A fresh target: "var t T".
NewTarget ==
  /\ sent # None
  /\ dst' = [name |-> sent.name, x |-> Zero(Generated(sent.pkg), Id(sent.name))]
  /\ UNCHANGED <<genVars, sent, got>>

Decoded(mode, in, r) ==
  /\ got' = [mode |-> mode, in |-> in, from |-> dst.x, res |-> r]
  /\ dst' = [name |-> sent.name,
             x |-> IF r.err = "none" THEN r.val ELSE Zero(Generated(sent.pkg), Id(sent.name))]

\* t.DecodeSafe(in) or t.DecodeTrusted(in), with in the bytes sent, or
\* followed by one more byte (the properties cover truncations).  After
\* an error the target is dropped for a fresh one.
Decode(mode) ==
  /\ sent # None
  /\ \E in \in {sent.wire, sent.wire \o <<0>>} :
       Decoded(mode, in, DecodeStruct(Generated(sent.pkg), sent.name, mode, in, dst.x))
  /\ UNCHANGED <<genVars, sent>>

Next ==
  \/ Generate
  \/ Marshal
  \/ NewTarget
  \/ Decode("Safe")
  \/ Decode("Trusted")

Spec == Init /\ [][Next]_vars
-----------------------------------------------------------------------------
(* Properties. *)

GenTypeOK ==
  /\ status \in {"running", "done", "failed"}
  /\ files \in Trees /\ fi \in 1..Len(files) + 1
  /\ generatedStructs \subseteq
       UNION {UNION {{sp.name : sp \in Range(d.specs)} : d \in Range(f.decls)} : f \in Range(files)}
  /\ \A i \in DOMAIN output : output[i].file \in DOMAIN files /\ output[i].pkg = files[output[i].file].pkg
  /\ sent = None \/ (sent.name \in generatedStructs /\ sent.wire \in Seq(0..255))
  /\ got = None \/ got.mode \in {"Safe", "Trusted"}

RECURSIVE EntryKeys(_, _)
\* The keys of the n entries of a map body, read as DecodeSafe reads them.
EntryKeys(p, n) ==
  IF n = 0 THEN <<>>
  ELSE LET k == ReadStringBytes(p) IN
       IF k.err # "none" THEN <<>> ELSE <<k.val>> \o EntryKeys(Skip(k.rest).rest, n - 1)

\* What MarshalCBOR writes is one well-formed CBOR map and nothing more,
\* whose header counts its entries, whose keys are distinct, and which has
\* exactly one entry per field that is not omitted: the header count of
\* marshal.go.tpl (NonOmitCount from generateStructCode plus the set
\* omitempty fields) agrees with the entries the field loop writes.
MarshalWellFormed ==
  sent # None =>
    LET w == sent.wire
        h == ReadMapHeaderBytes(w)
        ks == EntryKeys(h.rest, h.val)
        F == Generated(sent.pkg)[sent.name].Fields
    IN /\ ValidateWellFormedBytes(w) = Ok(<<>>, <<>>)
       /\ Len(ks) = h.val /\ IsInjective(ks)
       /\ Range(ks) = {KeyCode[F[i].CBORName] : i \in {j \in DOMAIN F : ~Omitted(F[j], sent.x)}}

\* Spec 4.8: DecodeTrusted has the structure of DecodeSafe.  On the bytes
\* MarshalCBOR wrote and on every truncation of them, decoding into a
\* fresh value with either method gives the same error, the same rest and,
\* on success, the same value (decodeCaseExprSafe against
\* decodeCaseExprTrusted and their templates).
Agree(s, t) == s.err = t.err /\ s.rest = t.rest /\ (s.err = "none" => s.val = t.val)
SafeTrustedAgree ==
  sent # None =>
    \A c \in 0..Len(sent.wire) :
      Agree(DecodeStruct(Generated(sent.pkg), sent.name, "Safe", SubSeq(sent.wire, 1, c),
                         Zero(Generated(sent.pkg), Id(sent.name))),
            DecodeStruct(Generated(sent.pkg), sent.name, "Trusted", SubSeq(sent.wire, 1, c),
                         Zero(Generated(sent.pkg), Id(sent.name))))

\* A generated decoder consumes exactly one message: a successful decode
\* returns as rest what follows the bytes MarshalCBOR wrote, and a strict
\* prefix of them is an error that returns its input (the entry loop of
\* marshal.go.tpl and the "return b, err" of every decode_case template).
Refused(in, r) == r.err # "none" /\ r.rest = in
DecodeConsumesOneItem ==
  /\ got # None /\ got.res.err = "none" => got.in = sent.wire \o got.res.rest
  /\ sent # None =>
       \A c \in 0..Len(sent.wire) - 1 :
         Refused(SubSeq(sent.wire, 1, c),
                 DecodeStruct(Generated(sent.pkg), sent.name, "Safe", SubSeq(sent.wire, 1, c),
                              Zero(Generated(sent.pkg), Id(sent.name))))

\* Whether the source declares field g of struct name with omitempty.
TaggedOmitEmpty(name, g) ==
  \E f \in Range(files) : \E d \in Range(f.decls) : \E sp \in Range(d.specs) :
    /\ sp.name = name /\ sp.type.t = "struct"
    /\ \E fd \in Range(sp.type.fields) :
         fd.names # <<>> /\ fd.names[1] = g /\ resolveFieldSpec(g, fd.tag).OmitEmpty

\* Spec 4.8 and seed 5 of spec 7 (Person with "age" omitempty): what
\* MarshalCBOR writes has no entry for a field tagged omitempty whose value
\* is zero, and decoding it with either method into a fresh value succeeds,
\* consumes every byte and gives back the value encoded.  The generated
\* code breaks it three ways: omitEmptyCondExpr asks for a template that
\* zero_check.go.tpl does not define, so every field is written; a nil *T
\* is written as null, which decodeCasePtrUnmarshalField cannot read; and a
\* json.RawMessage field is written but skipped on decode.
GeneratedCodeContract ==
  /\ sent # None =>
       LET h == ReadMapHeaderBytes(sent.wire)
           F == Generated(sent.pkg)[sent.name].Fields
       IN \A i \in DOMAIN F :
            TaggedOmitEmpty(sent.name, F[i].GoName) /\ IsZeroOf(F[i].Kind, sent.x[F[i].GoName])
              => KeyCode[F[i].CBORName] \notin Range(EntryKeys(h.rest, h.val))
  /\ got # None /\ got.in = sent.wire /\ got.from = Zero(Generated(sent.pkg), Id(sent.name)) =>
       got.res = Ok(sent.x, <<>>)

\* DecodeSafe does not depend on the value it decodes into: decoding the
\* bytes MarshalCBOR wrote into the caller's reused target gives the same
\* error, the same rest and, on success, the same fields as decoding them
\* into a fresh value -- the Safe templates clear or make every map, cut
\* every slice to the new length and overwrite each reused element and
\* nested struct (decode_case.go.tpl).  Fields the decoder skips keep
\* whatever the target held, by design.
SafeDecodeIgnoresTarget ==
  got # None /\ got.mode = "Safe" =>
    LET E == Generated(sent.pkg)
        F == E[sent.name].Fields
        fresh == DecodeStruct(E, sent.name, "Safe", got.in, Zero(E, Id(sent.name)))
        kept == {F[i].GoName : i \in {j \in DOMAIN F : F[j].DecodeCaseSafe = Skipped}}
    IN /\ got.res.err = fresh.err /\ got.res.rest = fresh.rest
       /\ got.res.err = "none" =>
            \A g \in DOMAIN fresh.val \ kept : got.res.val[g] = fresh.val[g]
====
