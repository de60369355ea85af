------------------------------ MODULE GenStruct ------------------------------
(***************************************************************************)
(* The code generator cborgen (src/cborgen/main.go): runForDir walks the  *)
(* files of a directory tree and, for each Go source file, Run parses it   *)
(* and generateStructCode turns every struct type declaration into a      *)
(* structSpec, the data marshal.go.tpl renders into MarshalCBOR,          *)
(* DecodeSafe and DecodeTrusted.  The generator keeps one piece of state  *)
(* across declarations and files: the global generatedStructs, which      *)
(* decodeCaseExprTrusted consults to choose a nested DecodeTrusted.       *)
(*                                                                         *)
(* A Go type expression (ast.Expr) is a record by its AST node: an        *)
(* identifier, a *T, a []T or [n]T, a map[K]V, a pkg.Sel or an interface. *)
(* A struct tag is given by what reflect.StructTag.Get returns for "cbor" *)
(* and "json", split at the commas (<<"">> for a missing key).  The       *)
(* strings the selectors build (Go source text, Msgsize and EncodeMsg     *)
(* expressions) are abstracted to the template or appender they name.    *)
(***************************************************************************)
EXTENDS Integers, Sequences, FiniteSets

CONSTANTS Trees,     \* directory trees: the entries WalkDir visits, in lexical order
          Exported,  \* the identifiers ast.IsExported accepts
          Structs    \* opts.Structs, the -s allowlist, after TrimSpace

VARIABLES files,            \* the tree cborgen was run on
          fi, di, si,       \* the file, declaration and type spec being read
          structs,          \* the structSpecs of the current file so far
          generatedStructs, \* the global set of generated struct names
          output,           \* the files written: [file, pkg, structs]
          status            \* "running", "done" or "failed"

genVars == <<files, fi, di, si, structs, generatedStructs, output, status>>

Id(n) == [t |-> "ident", name |-> n]
Star(x) == [t |-> "star", x |-> x]
SliceOf(e) == [t |-> "array", len |-> FALSE, elt |-> e]
ArrayOf(e) == [t |-> "array", len |-> TRUE, elt |-> e]
MapOf(k, v) == [t |-> "map", key |-> k, value |-> v]
Sel(p, s) == [t |-> "selector", pkg |-> p, sel |-> s]
Iface == [t |-> "interface"]

IsId(x, n) == x.t = "ident" /\ x.name = n
StarIdent(x) == x.t = "star" /\ x.x.t = "ident"
IsSlice(x) == x.t = "array" /\ ~x.len

\* The primitive identifiers every selector switches on, with the Go type
\* of the temporary (and of the Append/Read helper) each one uses.
VarType ==
  [n \in {"string", "bool", "int", "int8", "int16", "int32", "rune", "int64", "uint",
          "uint8", "byte", "uint16", "uint32", "uint64", "float32", "float64"} |->
     CASE n = "rune" -> "int32" [] n = "byte" -> "uint8" [] OTHER -> n]
Scalar(x) == x.t = "ident" /\ x.name \in DOMAIN VarType
-----------------------------------------------------------------------------
(* Tags: resolveFieldSpec, parseTag, splitNameOptions. *)

Absent == <<"">>
NoTag == [cbor |-> Absent, json |-> Absent]  \* field.Tag == nil

parseTag(v) == v # Absent

\* The name before the first comma ("-" when empty) and whether any later
\* option is omitempty.
splitNameOptions(v) ==
  [name |-> IF v[1] = "" THEN "-" ELSE v[1],
   omit |-> \E i \in 2..Len(v) : v[i] = "omitempty"]

\* A cbor tag wins over a json tag; "-" ignores the field.
resolveFieldSpec(goName, tag) ==
  LET fs == [GoName |-> goName, CBORName |-> goName, OmitEmpty |-> FALSE, Ignore |-> FALSE]
      use(v) == IF v = <<"-">> THEN [fs EXCEPT !.Ignore = TRUE]
                ELSE [fs EXCEPT !.CBORName = splitNameOptions(v).name,
                                !.OmitEmpty = splitNameOptions(v).omit]
  IN CASE tag = NoTag -> fs
       [] parseTag(tag.cbor) -> use(tag.cbor)
       [] parseTag(tag.json) -> use(tag.json)
       [] OTHER -> fs
-----------------------------------------------------------------------------
(* omitEmptyCondExpr: the zero-check kind of a type, then the template. *)

OmitKind(x) ==
  CASE IsId(x, "string") -> "string"
    [] IsId(x, "bool") -> "bool"
    [] Scalar(x) -> "numeric"
    [] x.t = "selector" /\ x.sel = "Time" -> "time"
    [] x.t = "selector" /\ x.sel = "Duration" -> "numeric"
    [] x.t \in {"star", "interface"} -> "ptrOrInterface"
    [] IsSlice(x) -> "slice"
    [] x.t = "map" -> "map"
    [] OTHER -> "none"

\* The templates zero_check.go.tpl defines, and the one omitEmptyCondExpr
\* asks ExecuteTemplate for; a name the set does not define is an error.
ZeroCheckTemplates == {"zeroCheck"}
OmitEmptyCondTemplate == "omitEmptyCond"

omitEmptyCondExpr(x) == OmitKind(x) # "none" /\ OmitEmptyCondTemplate \in ZeroCheckTemplates
-----------------------------------------------------------------------------
(* Encode side: encodeBlockForField and encodeExprForField. *)

Block(t, v) == [tmpl |-> t, var |-> v]
NoBlock == Block("", "")

encodeBlockMap(x) ==
  CASE IsId(x.key, "uint64") /\ StarIdent(x.value) /\ x.value.x.name \in Exported ->
         Block("encodeMapUint64PtrMarshaler", x.value.x.name)
    [] IsId(x.key, "uint64") /\ IsId(x.value, "uint64") -> Block("encodeMapUint64Uint64", "")
    [] IsId(x.key, "string") /\ IsId(x.value, "string") -> Block("encodeMapStrStr", "")
    [] IsId(x.key, "string") /\ Scalar(x.value) -> Block("encodeMapStrScalar", VarType[x.value.name])
    [] IsId(x.key, "string") /\ x.value.t = "ident" /\ x.value.name \in Exported ->
         Block("encodeMapStrValueMarshaler", x.value.name)
    [] IsId(x.key, "string") /\ StarIdent(x.value) /\ x.value.x.name \in Exported ->
         Block("encodeMapStrPtrMarshaler", x.value.x.name)
    [] OTHER -> NoBlock

\* []byte leaves the switch with no block: it is a byte string.
encodeBlockSlice(x) ==
  CASE IsId(x.elt, "byte") -> NoBlock
    [] Scalar(x.elt) -> Block("encodeSliceScalar", VarType[x.elt.name])
    [] StarIdent(x.elt) /\ x.elt.x.name \in Exported -> Block("encodeSlicePtrMarshaler", x.elt.x.name)
    [] x.elt.t = "ident" /\ x.elt.name \in Exported -> Block("encodeSliceValueMarshaler", x.elt.name)
    [] OTHER -> NoBlock

encodeBlockForField(x) ==
  CASE x.t = "map" -> encodeBlockMap(x)
    [] IsSlice(x) -> encodeBlockSlice(x)
    [] OTHER -> NoBlock

\* The blocks whose MarshalCBOR calls can return an error.
MarshalerBlocks == {"encodeMapUint64PtrMarshaler", "encodeMapStrValueMarshaler",
                    "encodeMapStrPtrMarshaler", "encodeSlicePtrMarshaler",
                    "encodeSliceValueMarshaler"}

Expr(e, err) == [expr |-> e, err |-> err]

\* "" leaves the field to AppendInterface.  Any identifier that is not a
\* primitive is assumed to have a MarshalCBOR method, exported or not.
encodeExprForField(x) ==
  CASE Scalar(x) -> Expr("Append", FALSE)
    [] x.t = "ident" -> Expr("MarshalCBOR", TRUE)
    [] IsSlice(x) /\ IsId(x.elt, "string") -> Expr("AppendStringSlice", FALSE)
    [] x.t = "map" /\ IsId(x.key, "string") /\ IsId(x.value, "string") -> Expr("AppendMapStrStr", FALSE)
    [] StarIdent(x) /\ x.x.name \in Exported -> Expr("AppendPtrMarshaler", TRUE)
    [] x.t = "selector" /\ x.pkg = "time" /\ x.sel = "Time" -> Expr("AppendTime", FALSE)
    [] x.t = "selector" /\ x.pkg = "time" /\ x.sel = "Duration" -> Expr("AppendDuration", FALSE)
    [] x.t = "selector" /\ x.pkg = "json" /\ x.sel = "RawMessage" -> Expr("AppendBytes", FALSE)
    [] OTHER -> Expr("", FALSE)
-----------------------------------------------------------------------------
(* Decode side: decodeCaseExprSafe and decodeCaseExprTrusted. *)

Dec(t, v) == [tmpl |-> t, var |-> v]
Skipped == Dec("decodeCaseSkip", "")

decodeSafeSelector(x) ==
  CASE x.pkg = "time" /\ x.sel \in {"Time", "Duration"} -> Dec("decodeCaseBasic", x.pkg \o "." \o x.sel)
    [] x.pkg = "json" /\ x.sel = "Number" -> Dec("decodeCaseBasic", "json.Number")
    [] x.pkg = "cbor" /\ x.sel \in {"Raw", "Number"} -> Dec("decodeCaseUnmarshalField", "")
    [] OTHER -> Skipped

decodeSafeSlice(x) ==
  CASE IsId(x.elt, "byte") -> Dec("decodeCaseBytes", "")
    [] Scalar(x.elt) -> Dec("decodeCaseSliceBasic", VarType[x.elt.name])
    [] x.elt.t = "ident" -> Dec("decodeCaseSliceStruct", x.elt.name)
    [] StarIdent(x.elt) -> Dec("decodeCaseSlicePtrStruct", x.elt.x.name)
    [] OTHER -> Skipped

decodeSafeMap(x) ==
  CASE IsId(x.key, "uint64") /\ StarIdent(x.value) -> Dec("decodeCaseMapUint64Ptr", x.value.x.name)
    [] IsId(x.key, "uint64") /\ IsId(x.value, "uint64") -> Dec("decodeCaseMapUint64Uint64", "")
    [] IsId(x.key, "string") /\ Scalar(x.value) -> Dec("decodeCaseMapStrBasic", VarType[x.value.name])
    [] IsId(x.key, "string") /\ x.value.t = "ident" -> Dec("decodeCaseMapStrStruct", x.value.name)
    [] IsId(x.key, "string") /\ StarIdent(x.value) -> Dec("decodeCaseMapStrPtrStruct", x.value.x.name)
    [] OTHER -> Skipped

\* The Safe template of a field; an unsupported type falls back to the
\* decodeCaseSkip template.
decodeCaseExprSafe(x) ==
  CASE Scalar(x) -> Dec("decodeCaseBasic", VarType[x.name])
    [] x.t = "ident" -> Dec("decodeCaseUnmarshalField", x.name)
    [] x.t = "selector" -> decodeSafeSelector(x)
    [] IsSlice(x) -> decodeSafeSlice(x)
    [] x.t = "map" -> decodeSafeMap(x)
    [] StarIdent(x) -> Dec("decodeCasePtrUnmarshalField", x.x.name)
    [] OTHER -> Skipped

\* The templates that call a nested decoder, by their DecodeTrusted form.
TrustedForm ==
  [decodeCaseUnmarshalField    |-> "decodeCaseTrustedField",
   decodeCasePtrUnmarshalField |-> "decodeCasePtrTrustedField",
   decodeCaseSliceStruct       |-> "decodeCaseSliceStructTrusted",
   decodeCaseSlicePtrStruct    |-> "decodeCaseSlicePtrStructTrusted",
   decodeCaseMapStrStruct      |-> "decodeCaseMapStrStructTrusted",
   decodeCaseMapStrPtrStruct   |-> "decodeCaseMapStrPtrStructTrusted"]

\* The Trusted template: the same shapes as the Safe one, except a string
\* (ReadStringZC + UnsafeString), the map[uint64] shapes (which keep the
\* entries already in the map), and a nested type already in gen, the
\* generatedStructs of the moment, which gets its DecodeTrusted.
decodeCaseExprTrusted(x, gen) ==
  LET s == decodeCaseExprSafe(x) IN
  CASE IsId(x, "string") -> Dec("decodeCaseStringTrusted", "")
    [] s.tmpl \in {"decodeCaseMapUint64Ptr", "decodeCaseMapUint64Uint64"} -> Dec(s.tmpl \o "Trusted", s.var)
    [] s.tmpl \in DOMAIN TrustedForm /\ s.var \in gen -> Dec(TrustedForm[s.tmpl], s.var)
    [] OTHER -> s
-----------------------------------------------------------------------------
(* generateStructCode: the loop over the fields of one struct type. *)

\* The fieldSpec of a field that takes part, with gen the generatedStructs
\* of the moment.
fieldSpecOf(fs, typ, gen) ==
  [GoName |-> fs.GoName, CBORName |-> fs.CBORName,
   OmitEmpty |-> fs.OmitEmpty /\ omitEmptyCondExpr(typ),
   Kind |-> OmitKind(typ), Type |-> typ,
   EncodeBlock |-> encodeBlockForField(typ), EncodeExpr |-> encodeExprForField(typ),
   DecodeCaseSafe |-> decodeCaseExprSafe(typ), DecodeCaseTrust |-> decodeCaseExprTrusted(typ, gen)]

\* Whether the field makes MarshalCBOR declare err: a block with a
\* MarshalCBOR call, an expression that returns an error, or the
\* AppendInterface fallback.
NeedsErr(f) ==
  CASE f.EncodeBlock.tmpl # "" -> f.EncodeBlock.tmpl \in MarshalerBlocks
    [] f.EncodeExpr.expr # "" -> f.EncodeExpr.err
    [] OTHER -> TRUE

RECURSIVE genFieldsCountingIgnored(_, _, _), genFields(_, _, _)
\* Mutant: NonOmitCount incremented before the Ignore check.
genFieldsCountingIgnored(ss, fl, gen) ==
  IF fl = <<>> THEN ss
  ELSE LET fd == Head(fl)
           fs == resolveFieldSpec(fd.names[1], fd.tag)
           f  == fieldSpecOf(fs, fd.type, gen)
       IN IF fd.names = <<>> \/ fd.names[1] \notin Exported
            THEN genFieldsCountingIgnored(ss, Tail(fl), gen)
          ELSE IF fs.Ignore THEN genFieldsCountingIgnored([ss EXCEPT !.NonOmitCount = @ + 1], Tail(fl), gen)
          ELSE genFieldsCountingIgnored([ss EXCEPT !.Fields = Append(@, f),
                                                   !.HasOmit = @ \/ f.OmitEmpty,
                                                   !.NonOmitCount = @ + (IF f.OmitEmpty THEN 0 ELSE 1),
                                                   !.EncodeNeedsErr = @ \/ NeedsErr(f)],
                                        Tail(fl), gen)


\* Anonymous, unexported and "-" fields are skipped; each other field is
\* appended and counted in NonOmitCount unless it keeps its omitempty.
genFields(ss, fl, gen) ==
  IF fl = <<>> THEN ss
  ELSE LET fd == Head(fl)
           fs == resolveFieldSpec(fd.names[1], fd.tag)
           f  == fieldSpecOf(fs, fd.type, gen)
       IN IF fd.names = <<>> \/ fd.names[1] \notin Exported \/ fs.Ignore
            THEN genFields(ss, Tail(fl), gen)
          ELSE genFields([ss EXCEPT !.Fields = Append(@, f),
                                    !.HasOmit = @ \/ f.OmitEmpty,
                                    !.NonOmitCount = @ + (IF f.OmitEmpty THEN 0 ELSE 1),
                                    !.EncodeNeedsErr = @ \/ NeedsErr(f)],
                         Tail(fl), gen)

structSpec(name, st, gen) ==
  genFields([Name |-> name, Fields |-> <<>>, HasOmit |-> FALSE,
             EncodeNeedsErr |-> FALSE, NonOmitCount |-> 0], st.fields, gen)

\* The allowlist: entries left empty by TrimSpace are dropped, and an
\* empty allowlist admits every type.
Allowed(name) == LET allowed == Structs \ {""} IN allowed = {} \/ name \in allowed
-----------------------------------------------------------------------------
(* runForDir and Run: one action per step of the walk. *)

File == files[fi]
Decl == File.decls[di]
TypeSpec == Decl.specs[si]

\* runForDir generates for regular .go files that are neither tests nor
\* earlier output; Run begins by parsing the file.
Eligible(f) == f.kind = "go"

GenInit ==
  /\ files \in Trees
  /\ fi = 1 /\ di = 1 /\ si = 1
  /\ structs = <<>> /\ generatedStructs = {} /\ output = <<>>
  /\ status = "running"

Walking == status = "running" /\ fi <= Len(files)

\* A directory, a non-Go file, a _test.go or a _cbor.go file.
SkipEntry ==
  /\ Walking /\ ~Eligible(File)
  /\ fi' = fi + 1
  /\ UNCHANGED <<files, di, si, structs, generatedStructs, output, status>>

\* parser.ParseFile fails: Run returns the error and the walk stops.
ParseError ==
  /\ Walking /\ Eligible(File) /\ ~File.parses /\ di = 1 /\ si = 1
  /\ status' = "failed"
  /\ UNCHANGED <<files, fi, di, si, structs, generatedStructs, output>>

InFile == Walking /\ Eligible(File) /\ File.parses /\ di <= Len(File.decls)

\* A declaration that is not a type GenDecl, or one whose specs are done.
NextDecl ==
  /\ InFile /\ (Decl.tok # "TYPE" \/ si > Len(Decl.specs))
  /\ di' = di + 1 /\ si' = 1
  /\ UNCHANGED <<files, fi, structs, generatedStructs, output, status>>

InSpecs == InFile /\ Decl.tok = "TYPE" /\ si <= Len(Decl.specs)

\* A type spec that is not a struct, or a struct the allowlist leaves out.
SkipSpec ==
  /\ InSpecs /\ (TypeSpec.type.t # "struct" \/ ~Allowed(TypeSpec.name))
  /\ si' = si + 1
  /\ UNCHANGED <<files, fi, di, structs, generatedStructs, output, status>>

\* Mutant: the name recorded in generatedStructs even when no field takes part.
GenerateStructEmpty ==
  /\ InSpecs /\ TypeSpec.type.t = "struct" /\ Allowed(TypeSpec.name)
  /\ LET ss == structSpec(TypeSpec.name, TypeSpec.type, generatedStructs) IN
     /\ generatedStructs' = generatedStructs \cup {ss.Name}
     /\ structs' = IF Len(ss.Fields) > 0 THEN Append(structs, ss) ELSE structs
  /\ si' = si + 1
  /\ UNCHANGED <<files, fi, di, output, status>>

\* The body of the loop for one struct type: its structSpec, kept (and
\* its name added to generatedStructs) only when a field takes part.
GenerateStruct ==
  /\ InSpecs /\ TypeSpec.type.t = "struct" /\ Allowed(TypeSpec.name)
  /\ LET ss == structSpec(TypeSpec.name, TypeSpec.type, generatedStructs) IN
     IF Len(ss.Fields) > 0
       THEN /\ generatedStructs' = generatedStructs \cup {ss.Name}
            /\ structs' = Append(structs, ss)
       ELSE UNCHANGED <<generatedStructs, structs>>
  /\ si' = si + 1
  /\ UNCHANGED <<files, fi, di, output, status>>

AtFileEnd == Walking /\ Eligible(File) /\ File.parses /\ di > Len(File.decls)

\* Mutant: the output recorded under the index of the next entry.
WriteOutputNextIndex ==
  /\ AtFileEnd
  /\ output' = Append(output, [file |-> fi + 1, pkg |-> File.pkg, structs |-> structs])
  /\ structs' = <<>>
  /\ fi' = fi + 1 /\ di' = 1 /\ si' = 1
  /\ UNCHANGED <<files, generatedStructs, status>>

\* The output file is created and the rendered template written (imports
\* and formatting failures fall back to the raw text), and the walk goes
\* on with the next entry.
WriteOutput ==
  /\ AtFileEnd
  /\ output' = Append(output, [file |-> fi, pkg |-> File.pkg, structs |-> structs])
  /\ structs' = <<>>
  /\ fi' = fi + 1 /\ di' = 1 /\ si' = 1
  /\ UNCHANGED <<files, generatedStructs, status>>

\* os.MkdirAll, os.Create or the write fails: the error ends the walk.
WriteError ==
  /\ AtFileEnd
  /\ status' = "failed"
  /\ UNCHANGED <<files, fi, di, si, structs, generatedStructs, output>>

\* WalkDir returns nil after the last entry.
WalkDone ==
  /\ status = "running" /\ fi > Len(files)
  /\ status' = "done"
  /\ UNCHANGED <<files, fi, di, si, structs, generatedStructs, output>>

GenNext ==
  \/ SkipEntry \/ ParseError \/ NextDecl \/ SkipSpec \/ GenerateStruct
  \/ WriteOutput \/ WriteError \/ WalkDone
====
