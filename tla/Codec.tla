------------------------------- MODULE Codec -------------------------------
(***************************************************************************)
(* A caller that encodes with the AppendXxx functions and then decodes     *)
(* the result with the stateful Reader (src/unnamed/part_013, the Reader   *)
(* type of the runtime package).                                           *)
(*                                                                         *)
(* Write phase: each Append step adds one token to `log`; the encoded      *)
(* buffer is the concatenation of the tokens' bytes.  A token is a record  *)
(* [kind, val, enc]: what was appended, with which value, and the bytes    *)
(* the appender produced.  Raw.MarshalCBOR appends arbitrary caller bytes  *)
(* verbatim, which is how malformed and non-canonical input reaches the    *)
(* reader.  Read phase: NewReaderBytes over the buffer, then any sequence  *)
(* of Reader method calls and mode setters.  `last` records the method     *)
(* called by the latest read and its result.                               *)
(***************************************************************************)
EXTENDS Diag

CONSTANTS
  Int64Vals,    \* int64 values (8-byte two's complement) given to AppendInt64
  Uint64Vals,   \* uint64 values (8 bytes) given to AppendUint64
  Texts,        \* string payloads given to AppendString
  Blobs,        \* []byte payloads given to AppendBytes
  Counts,       \* element counts given to AppendArrayHeader / AppendMapHeader
  SimpleVals,   \* values given to AppendSimpleValue
  RawItems,     \* byte strings given to Raw.MarshalCBOR
  MaxLimits,    \* values given to SetMaxContainerLen
  MaxTokens     \* bound on the number of appends

VARIABLES log, reading, buf, strict, deterministic, maxContainer, last

vars == <<log, reading, buf, strict, deterministic, maxContainer, last>>

Encoded(l) == FlattenSeq([i \in DOMAIN l |-> l[i].enc])
Out == Encoded(log)

NoCall == [op |-> "none", err |-> "none", val |-> <<>>]

Init ==
  /\ log = <<>>
  /\ reading = FALSE
  /\ buf = <<>>
  /\ strict = FALSE
  /\ deterministic = FALSE
  /\ maxContainer = 0
  /\ last = NoCall

-----------------------------------------------------------------------------
(* Write phase. *)

AppendToken(kind, val, enc) ==
  /\ ~reading
  /\ Len(log) < MaxTokens
  /\ log' = Append(log, [kind |-> kind, val |-> val, enc |-> enc])
  /\ UNCHANGED <<reading, buf, strict, deterministic, maxContainer, last>>

WriteInt64 == \E i \in Int64Vals : AppendToken("int", i, AppendInt64(i))
WriteUint64 == \E u \in Uint64Vals : AppendToken("uint", u, AppendUint64(u))
WriteString == \E s \in Texts : AppendToken("text", s, AppendString(s))
WriteBytes == \E d \in Blobs : AppendToken("bytes", d, AppendBytes(d))
WriteArrayHeader == \E n \in Counts : AppendToken("array", n, AppendArrayHeader(n))
WriteArrayHeaderIndefinite == AppendToken("arrayIndef", <<>>, AppendArrayHeaderIndefinite)
WriteMapHeader == \E n \in Counts : AppendToken("map", n, AppendMapHeader(n))
WriteBool == \E v \in BOOLEAN : AppendToken("bool", v, AppendBool(v))
WriteNil == AppendToken("nil", <<>>, AppendNil)
WriteBreak == AppendToken("break", <<>>, AppendBreak)
WriteSimpleValue == \E v \in SimpleVals : AppendToken("simple", v, AppendSimpleValue(v))
\* Raw.MarshalCBOR: an empty Raw encodes as nil, otherwise verbatim.
RawMarshalCBOR == \E r \in RawItems :
  AppendToken("raw", r, IF r = <<>> THEN AppendNil ELSE r)

-----------------------------------------------------------------------------
(* Read phase: the Reader. *)

NewReaderBytes ==
  /\ ~reading
  /\ reading' = TRUE
  /\ buf' = Out
  /\ strict' = FALSE
  /\ deterministic' = FALSE
  /\ maxContainer' = 0
  /\ UNCHANGED <<log, last>>

\* The setters; `last` is cleared, as no method result belongs to this step.
SetStrictDecode == reading /\ \E s \in BOOLEAN :
  strict' = s /\ last' = NoCall /\ UNCHANGED <<log, reading, buf, deterministic, maxContainer>>
SetDeterministicDecode == reading /\ \E d \in BOOLEAN :
  deterministic' = d /\ last' = NoCall /\ UNCHANGED <<log, reading, buf, strict, maxContainer>>
SetMaxContainerLen == reading /\ \E m \in MaxLimits :
  maxContainer' = m /\ last' = NoCall /\ UNCHANGED <<log, reading, buf, strict, deterministic>>

\* A method call with result r: the buffer advances only on success.
Call(op, r) ==
  /\ reading
  /\ IF r.err = "none"
       THEN buf' = r.rest /\ last' = [op |-> op, err |-> "none", val |-> r.val]
       ELSE buf' = buf /\ last' = [op |-> op, err |-> r.err, val |-> <<>>]
  /\ UNCHANGED <<log, reading, strict, deterministic, maxContainer>>

\* The strict-mode check of a method: the error isNonCanonicalLength
\* reports, NonCanonicalLength when it answers true, "none" otherwise.
strictError(b, major) ==
  LET c == isNonCanonicalLength(b, major) IN
  IF c.err # "none" THEN c.err ELSE IF c.val THEN "NonCanonicalLength" ELSE "none"

\* ReadArrayHeader / ReadMapHeader.
readContainerHeader(major) ==
  IF Len(buf) < 1 THEN Fail("ShortBytes", buf)
  ELSE IF strict /\ strictError(buf, major) # "none" THEN Fail(strictError(buf, major), buf)
  ELSE LET h == ReadContainerHeaderBytes(buf, major) IN
       IF h.err # "none" THEN h
       ELSE IF maxContainer > 0 /\ h.val > maxContainer THEN Fail("ContainerTooLarge", buf)
       ELSE h
ReadArrayHeader == Call("ReadArrayHeader", readContainerHeader(majorTypeArray))
ReadMapHeader == Call("ReadMapHeader", readContainerHeader(majorTypeMap))

ReadArrayStart ==
  Call("ReadArrayStart",
       LET h == ReadArrayStartBytes(buf) IN
       IF h.err # "none" THEN h
       ELSE IF h.val.indef /\ deterministic THEN Fail("IndefiniteForbidden", buf)
       ELSE h)

\* ReadString / ReadBytes: strict check, deterministic check, then the
\* stateless reader.
readStringLike(major) ==
  IF Len(buf) < 1 THEN Fail("ShortBytes", buf)
  ELSE IF strict /\ strictError(buf, major) # "none" THEN Fail(strictError(buf, major), buf)
  ELSE IF deterministic /\ buf[1] = makeByte(major, addInfoIndefinite)
    THEN Fail("IndefiniteForbidden", buf)
  ELSE IF major = majorTypeText THEN ReadStringBytes(buf)
  ELSE ReadBytesBytes(buf)
ReadString == Call("ReadString", readStringLike(majorTypeText))
ReadBytes == Call("ReadBytes", readStringLike(majorTypeBytes))

\* ReadInt / ReadInt64 (int is 64 bits wide): strict check for majors 0 and 1.
readSigned ==
  IF Len(buf) < 1 THEN Fail("ShortBytes", buf)
  ELSE IF /\ strict /\ getMajorType(buf[1]) \in {majorTypeUint, majorTypeNegInt}
          /\ strictError(buf, getMajorType(buf[1])) # "none"
    THEN Fail(strictError(buf, getMajorType(buf[1])), buf)
  ELSE ReadInt64Bytes(buf)
ReadInt == Call("ReadInt", readSigned)
ReadInt64 == Call("ReadInt64", readSigned)

\* ReadUint / ReadUint64 (uint is 64 bits wide): strict check for major 0.
readUnsigned ==
  IF Len(buf) < 1 THEN Fail("ShortBytes", buf)
  ELSE IF /\ strict /\ getMajorType(buf[1]) = majorTypeUint
          /\ strictError(buf, majorTypeUint) # "none"
    THEN Fail(strictError(buf, majorTypeUint), buf)
  ELSE ReadUint64Bytes(buf)
ReadUint == Call("ReadUint", readUnsigned)
ReadUint64 == Call("ReadUint64", readUnsigned)

ReadBool == Call("ReadBool", ReadBoolBytes(buf))

ReaderSkip == Call("Skip", Skip(buf))

-----------------------------------------------------------------------------
Write ==
  \/ WriteInt64 \/ WriteUint64 \/ WriteString \/ WriteBytes
  \/ WriteArrayHeader \/ WriteArrayHeaderIndefinite \/ WriteMapHeader
  \/ WriteBool \/ WriteNil \/ WriteBreak \/ WriteSimpleValue \/ RawMarshalCBOR

Read ==
  \/ SetStrictDecode \/ SetDeterministicDecode \/ SetMaxContainerLen
  \/ ReadArrayHeader \/ ReadArrayStart \/ ReadMapHeader \/ ReadString
  \/ ReadBytes \/ ReadInt \/ ReadInt64 \/ ReadUint \/ ReadUint64
  \/ ReadBool \/ ReaderSkip

Next == Write \/ NewReaderBytes \/ Read

Spec == Init /\ [][Next]_vars

-----------------------------------------------------------------------------
(* Properties. *)

Ops == {"none", "ReadArrayHeader", "ReadArrayStart", "ReadMapHeader", "ReadString",
        "ReadBytes", "ReadInt", "ReadInt64", "ReadUint", "ReadUint64", "ReadBool", "Skip"}

Kinds == {"int", "uint", "text", "bytes", "array", "arrayIndef", "map", "bool",
          "nil", "break", "simple", "raw"}

TypeOK ==
  /\ \A i \in DOMAIN log : log[i].kind \in Kinds /\ log[i].enc \in Seq(0..255)
  /\ Len(log) <= MaxTokens
  /\ reading \in BOOLEAN /\ strict \in BOOLEAN /\ deterministic \in BOOLEAN
  /\ maxContainer \in MaxLimits \cup {0}
  /\ buf \in Seq(0..255) /\ IsSuffix(buf, Out)
  /\ last.op \in Ops /\ last.err \in STRING

\* The bytes the current step consumed from the head of the buffer.
Consumed == SubSeq(buf, 1, Len(buf) - Len(buf'))

\* The position of the reader in the encoded buffer, and the token that
\* starts there, if any.
Pos == Len(Out) - Len(buf)
Offset(i) == Len(Encoded(SubSeq(log, 1, i - 1)))
TokensAtCursor == {i \in DOMAIN log : Offset(i) = Pos}

\* The Reader methods that decode the item each kind of token writes.
ReadsOf(kind) ==
  CASE kind = "int"        -> {"ReadInt", "ReadInt64", "Skip"}
    [] kind = "uint"       -> {"ReadUint", "ReadUint64", "Skip"}
    [] kind = "text"       -> {"ReadString", "Skip"}
    [] kind = "bytes"      -> {"ReadBytes", "Skip"}
    [] kind = "bool"       -> {"ReadBool", "Skip"}
    [] kind \in {"nil", "simple"} -> {"Skip"}
    [] kind = "array"      -> {"ReadArrayHeader", "ReadArrayStart"}
    [] kind = "arrayIndef" -> {"ReadArrayStart"}
    [] kind = "map"        -> {"ReadMapHeader"}
    [] OTHER               -> {}
\* The value the method returns for the token.
Expected(t, op) ==
  CASE op = "Skip" -> <<>>
    [] op = "ReadArrayStart" ->
         IF t.kind = "arrayIndef" THEN [sz |-> 0, indef |-> TRUE]
         ELSE [sz |-> t.val, indef |-> FALSE]
    [] OTHER -> t.val
\* Errors that are the reader's configured policy, not a decoding failure.
PolicyErrors == {"ContainerTooLarge", "IndefiniteForbidden"}

\* Round trip of the appenders through the Reader (spec 8.1, 8.6): when the
\* reader stands at the start of an appended token and calls a method that
\* decodes that kind, the call either is refused by the configured policy
\* (container limit, deterministic mode) or returns exactly the appended
\* value and stops at the end of the token -- in strict mode too, so every
\* header the appenders write is canonical by isNonCanonicalLength.
RoundTrip ==
  [][\A i \in TokensAtCursor :
       last'.op \in ReadsOf(log[i].kind) =>
         \/ last'.err \in PolicyErrors
         \/ /\ last'.err = "none"
            /\ last'.val = Expected(log[i], last'.op)
            /\ Consumed = log[i].enc]_vars

\* Reader.Skip and the value readers agree on where an item ends (spec
\* 8.2): every successful ReadInt/ReadInt64/ReadUint/ReadUint64/ReadString/
\* ReadBytes/ReadBool leaves the buffer exactly where skip would.
ValueReads == {"ReadInt", "ReadInt64", "ReadUint", "ReadUint64", "ReadString",
               "ReadBytes", "ReadBool"}
SkipAgreement ==
  [][last'.op \in ValueReads /\ last'.err = "none" => buf' = Skip(buf).rest]_vars

\* The canonical encoding of what a method returned.
CanonicalOf(op, v) ==
  CASE op \in {"ReadInt", "ReadInt64"}   -> AppendInt64(v)
    [] op \in {"ReadUint", "ReadUint64"} -> AppendUint64(v)
    [] op = "ReadArrayHeader" -> AppendArrayHeader(v)
    [] op = "ReadMapHeader"   -> AppendMapHeader(v)
    [] op = "ReadString"      -> AppendString(v)
    [] op = "ReadBytes"       -> AppendBytes(v)
    [] op = "ReadArrayStart"  ->
         IF v.indef THEN AppendArrayHeaderIndefinite ELSE AppendArrayHeader(v.sz)

\* Strict mode accepts only canonical headers (SetStrictDecode, spec 4.6):
\* whatever a strict-checking method consumes in strict mode, other than
\* an indefinite-length string, is byte for byte what the matching
\* appender writes for the value it returned.
StrictChecked == {"ReadInt", "ReadInt64", "ReadUint", "ReadUint64",
                  "ReadArrayHeader", "ReadMapHeader", "ReadString", "ReadBytes"}
StrictReadsCanonical ==
  [][/\ strict /\ last'.op \in StrictChecked /\ last'.err = "none"
     /\ getAddInfo(buf[1]) # addInfoIndefinite
     => Consumed = CanonicalOf(last'.op, last'.val)]_vars

\* Decoded integers keep their value (ReadInt64Bytes, readUintCore): the
\* integer a successful ReadInt/ReadInt64/ReadUint/ReadUint64 returns,
\* appended again, is an item of the same major type and argument as the
\* one consumed -- in any mode, whatever width the input header used.
IntReads == {"ReadInt", "ReadInt64", "ReadUint", "ReadUint64"}
SameItem(x, y) == getMajorType(x[1]) = getMajorType(y[1]) /\ Arg(x) = Arg(y)
DecodedIntsReencode ==
  [][last'.op \in IntReads /\ last'.err = "none"
     => SameItem(Consumed, CanonicalOf(last'.op, last'.val))]_vars


\* DiagBytes (spec 4.4) renders every item ValidateWellFormedBytes accepts
\* and stops where validation stops, at every position the reader reaches:
\* the diagnostic walk and the validating walk are separate recursions over
\* the same grammar (helpers.go), and they must agree on indefinite chunks,
\* one-byte simple values and reserved additional information.  The
\* converse does not hold and is not claimed: diagOneBuf quotes an
\* indefinite text chunk without checking its UTF-8 (helpers.go:187), which
\* validation rejects.
DiagAgreesWithValidate ==
  reading =>
    LET v == ValidateWellFormedBytes(buf)
        d == DiagBytes(buf)
    IN v.err = "none" => d.err = "none" /\ d.rest = v.rest

\* Everything ValidateWellFormedBytes accepts, Reader.Skip can step over
\* (spec 8.3: validate_well_formed(b) = ok => skip(b) = ok), at every
\* position the reader reaches.
WellFormedSkippable ==
  reading /\ ValidateWellFormedBytes(buf).err = "none" => Skip(buf).err = "none"

\* The Reader's configuration binds every method that reads a header
\* (spec 4.6, 8.8, 8.10): in strict mode a successful read consumed the
\* canonical header of the value it returned, and with a container limit
\* set no successful read returns a size above it -- for arrays, maps,
\* byte strings and text strings, as SetMaxContainerLen's comment says.
\* ReadArrayStart is held to both, as ReadArrayHeader is.
SizeOf(op, v) ==
  CASE op \in {"ReadArrayHeader", "ReadMapHeader"} -> v
    [] op = "ReadArrayStart" -> v.sz
    [] op \in {"ReadString", "ReadBytes"} -> Len(v)
    [] OTHER -> 0
ConfigHonoured ==
  /\ strict /\ last'.op \in StrictChecked \cup {"ReadArrayStart"}
     /\ last'.err = "none" /\ getAddInfo(buf[1]) # addInfoIndefinite
     => Consumed = CanonicalOf(last'.op, last'.val)
  /\ maxContainer > 0 /\ last'.err = "none"
     => SizeOf(last'.op, last'.val) <= maxContainer

\* The Reader's contract as a whole (spec 4.6, 8.3, 8.8, 8.10): at every
\* position it reaches, Skip steps over whatever validation accepts, and
\* every read honours the strict flag and the container limit.
ReaderContract == [][WellFormedSkippable' /\ ConfigHonoured]_vars

=============================================================================
