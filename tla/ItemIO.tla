-------------------------------- MODULE ItemIO -------------------------------
(***************************************************************************)
(* A caller writes one item, optionally after AppendSelfDescribeCBOR: a    *)
(* tagged item with the appenders of Tags, a Go value with                 *)
(* AppendInterface, a value with one of the typed helpers of Dynamic, or a *)
(* map with a deterministic encoder of DetDynamic.                         *)
(* Another caller reads the bytes with the tag readers.  The bytes are     *)
(* delivered whole or cut short at any point, or the reader is given an    *)
(* item of another encoder (RawInputs): indefinite arrays, non-minimal     *)
(* bignums, wrong payload types or sizes.                                  *)
(* A JSON text is written with FromJSONBytes and read back with           *)
(* ToJSONBytes.                                                            *)
(***************************************************************************)
EXTENDS Tags, DetDynamic, FromJSON

CONSTANTS Texts,     \* text payloads
          Blobs,     \* byte-string payloads
          UUIDs,     \* 16-byte UUIDs
          Exps,      \* int64 exponents, as 8 bytes
          Bigs,      \* *big.Int values, NilBig included
          RawInputs, \* items of other encoders
          Values,    \* Go values, in the records of Dynamic
          JSONTexts  \* JSON texts, as bytes

TextTags  == {tagBase64URLString, tagBase64String, tagURI, tagRegexp, tagMIME}
BytesTags == {tagCBOR, tagBase64URL, tagBase64, tagBase16}
PairTags  == {tagDecimalFrac, tagBigfloat}

TagKinds == {"text", "bytes", "uuid", "big", "pair"}
NoItem == [kind |-> "none", tag |-> 0, val |-> <<>>]

VARIABLES item,      \* the value written, or NoItem
          prefixed,  \* whether the self-describe tag was written first
          out,       \* the writer's buffer
          wire,      \* the bytes the reader is given
          sent,      \* whether they have been delivered
          werr       \* the error the writer returned

vars == <<item, prefixed, out, wire, sent, werr>>

\* The appender the code has for each tag.
AppendText(tag, s) ==
  CASE tag = tagBase64URLString -> AppendBase64URLString(s)
    [] tag = tagBase64String    -> AppendBase64String(s)
    [] tag = tagURI             -> AppendURI(s)
    [] tag = tagRegexp          -> AppendRegexpString(s)
    [] tag = tagMIME            -> AppendMIMEString(s)
AppendBlob(tag, d) ==
  CASE tag = tagCBOR      -> AppendEmbeddedCBOR(d)
    [] tag = tagBase64URL -> AppendBase64URL(d)
    [] tag = tagBase64    -> AppendBase64(d)
    [] tag = tagBase16    -> AppendBase16(d)
AppendPair(tag, e, m) ==
  IF tag = tagDecimalFrac THEN AppendDecimalFraction(e, m) ELSE AppendBigfloat(e, m)

\* The reader the code has for each tag.
ReadTagged(tag, b) ==
  CASE tag = tagBase64URLString -> ReadBase64URLStringBytes(b)
    [] tag = tagBase64String    -> ReadBase64StringBytes(b)
    [] tag = tagURI             -> ReadURIStringBytes(b)
    [] tag = tagRegexp          -> ReadRegexpStringBytes(b)
    [] tag = tagMIME            -> ReadMIMEStringBytes(b)
    [] tag = tagCBOR            -> ReadEmbeddedCBORBytes(b)
    [] tag = tagBase64URL       -> ReadBase64URLBytes(b)
    [] tag = tagBase64          -> ReadBase64Bytes(b)
    [] tag = tagBase16          -> ReadBase16Bytes(b)
    [] tag = tagUUID            -> ReadUUIDBytes(b)
    [] tag = tagPosBignum       -> ReadBigIntBytes(b)
    [] tag = tagDecimalFrac     -> ReadDecimalFractionBytes(b)
    [] tag = tagBigfloat        -> ReadBigfloatBytes(b)

ReaderTags == TextTags \cup BytesTags \cup PairTags \cup {tagUUID, tagPosBignum}

Init ==
  /\ item = NoItem /\ prefixed = FALSE
  /\ out = <<>> /\ wire = <<>> /\ sent = FALSE /\ werr = "none"

\* AppendSelfDescribeCBOR into the empty buffer.
WriteSelfDescribe ==
  /\ out = <<>> /\ ~sent
  /\ out' = AppendSelfDescribeCBOR /\ prefixed' = TRUE
  /\ UNCHANGED <<item, wire, sent, werr>>

\* The writer appends bytes and returns err; the tag appenders cannot fail.
Written(it, bytes, err) ==
  /\ item = NoItem /\ ~sent
  /\ item' = it /\ out' = out \o bytes /\ werr' = err
  /\ UNCHANGED <<prefixed, wire, sent>>

WriteText == \E t \in TextTags, s \in Texts :
  Written([kind |-> "text", tag |-> t, val |-> s], AppendText(t, s), "none")
WriteBlob == \E t \in BytesTags, d \in Blobs :
  Written([kind |-> "bytes", tag |-> t, val |-> d], AppendBlob(t, d), "none")
WriteUUID == \E u \in UUIDs :
  Written([kind |-> "uuid", tag |-> tagUUID, val |-> u], AppendUUID(u), "none")
WriteBigInt == \E z \in Bigs :
  Written([kind |-> "big", tag |-> tagPosBignum, val |-> z], AppendBigInt(z), "none")
WritePair == \E t \in PairTags, e \in Exps, m \in Bigs :
  Written([kind |-> "pair", tag |-> t, val |-> [exp |-> e, mant |-> m]], AppendPair(t, e, m), "none")

\* AppendInterface(b, x): any of the results the order of its map ranges
\* allows.
WriteInterface == \E x \in Values : \E r \in AppendInterface(x) :
  Written([kind |-> "any", tag |-> 0, val |-> x], r.out, r.err)

\* The typed helper generated code calls for a value of its shape.
Helpers(x) ==
  LET c == x.v IN
  (IF x.k = "map" /\ c.key = "string" /\ c.elem = "string" THEN {"AppendMapStrStr"} ELSE {})
  \cup (IF x.k = "[]" /\ c.elem = "string" THEN {"AppendStringSlice"} ELSE {})
  \cup (IF x.k = "map" /\ c.key = "uint64" /\ c.elem = "uint64" THEN {"AppendMapUint64Uint64"} ELSE {})
  \cup (IF x.k = "nil" \/ (x.k = "struct" /\ x.v.ptr) THEN {"AppendPtrMarshaler"} ELSE {})
  \cup (IF x.k = "[]" /\ c.elem = "T" THEN {"AppendSliceMarshaler"} ELSE {})
  \cup (IF x.k = "map" /\ c.key = "uint64" /\ c.elem = "T" THEN {"AppendMapUint64Marshaler"} ELSE {})

\* The pairs of a typed map with the Go values of its values.
Unboxed(ps) == [i \in DOMAIN ps |-> [key |-> ps[i].key, val |-> ps[i].val.v]]

\* The results [out, err] helper h can return for x.
HelperResults(h, x) ==
  CASE h = "AppendMapStrStr" -> {R(o, "none") : o \in AppendMapStrStr(Unboxed(x.v.pairs))}
    [] h = "AppendStringSlice" -> {R(AppendStringSlice([i \in DOMAIN x.v.items |-> x.v.items[i].v]), "none")}
    [] h = "AppendMapUint64Uint64" ->
         {R(o, "none") : o \in AppendMapUint64Uint64(Unboxed(x.v.pairs))}
    [] h = "AppendPtrMarshaler" -> {AppendPtrMarshaler(x)}
    [] h = "AppendSliceMarshaler" -> {AppendSliceMarshaler(x.v.items)}
    [] h = "AppendMapUint64Marshaler" -> AppendMapUint64Marshaler(x.v.pairs)

WriteHelper == \E x \in Values : \E h \in Helpers(x) : \E r \in HelperResults(h, x) :
  Written([kind |-> h, tag |-> 0, val |-> x], r.out, r.err)

\* The deterministic encoders that accept the map x: the map[string]any one,
\* the typed AppendMapDeterministicStr<V> wrappers, and AppendMapDeterministic
\* with the EncKey and EncVal of x's key and element types (which
\* AppendMapDeterministicStrInterface is, for map[string]any).
DetWriters(x) ==
  IF x.k # "map" THEN {}
  ELSE (IF x.v.key = "string" /\ x.v.elem = "any" THEN {"AppendMapStrInterfaceDeterministic"} ELSE {})
       \cup (IF x.v.key = "string" /\ x.v.elem \in TypedDetElems THEN {"AppendMapDeterministicStr"} ELSE {})
       \cup (IF x.v.key \in EncKeyKinds /\ x.v.elem \in EncValKinds THEN {"AppendMapDeterministic"} ELSE {})

DetResults(f, x) ==
  CASE f = "AppendMapStrInterfaceDeterministic" -> AppendMapStrInterfaceDeterministic(x.v)
    [] f = "AppendMapDeterministicStr" -> AppendMapDeterministicTyped(x.v)
    [] OTHER -> AppendMapDeterministic(x.v)

WriteDeterministic == \E x \in Values : \E f \in DetWriters(x) : \E r \in DetResults(f, x) :
  Written([kind |-> f, tag |-> 0, val |-> x], r.out, r.err)

\* FromJSONBytes(js): any of the results the order of its map ranges allows.
WriteFromJSON == \E js \in JSONTexts : \E r \in FromJSONBytes(js) :
  Written([kind |-> "json", tag |-> 0, val |-> js], r.out, r.err)

\* The reader gets the first k bytes of what was written.
Deliver ==
  /\ item # NoItem /\ ~sent
  /\ \E k \in 0..Len(out) : wire' = SubSeq(out, 1, k)
  /\ sent' = TRUE
  /\ UNCHANGED <<item, prefixed, out, werr>>

\* The reader gets an item another encoder wrote.
DeliverRaw ==
  /\ ~sent
  /\ \E r \in RawInputs : wire' = r
  /\ sent' = TRUE
  /\ UNCHANGED <<item, prefixed, out, werr>>

HelperNames == {"AppendMapStrStr", "AppendStringSlice", "AppendMapUint64Uint64",
                "AppendPtrMarshaler", "AppendSliceMarshaler", "AppendMapUint64Marshaler"}
DetNames == {"AppendMapStrInterfaceDeterministic", "AppendMapDeterministicStr", "AppendMapDeterministic"}

Next == WriteSelfDescribe \/ WriteText \/ WriteBlob \/ WriteUUID \/ WriteBigInt
          \/ WritePair \/ WriteInterface \/ WriteHelper \/ WriteDeterministic \/ WriteFromJSON
          \/ Deliver \/ DeliverRaw

Spec == Init /\ [][Next]_vars
-----------------------------------------------------------------------------
(* Properties *)

IsBytes(s) == s \in Seq(Nat) /\ \A i \in 1..Len(s) : s[i] \in 0..255
IsBig(z) == DOMAIN z = {"neg", "mag"} /\ z.neg \in BOOLEAN /\ IsBytes(z.mag)

TypeOK ==
  /\ \/ item = NoItem
     \/ item.kind \in {"text", "bytes", "uuid"} /\ item.tag \in ReaderTags /\ IsBytes(item.val)
     \/ item.kind = "big" /\ item.tag = tagPosBignum /\ IsBig(item.val)
     \/ item.kind = "pair" /\ item.tag \in PairTags
          /\ IsBytes(item.val.exp) /\ Len(item.val.exp) = 8 /\ IsBig(item.val.mant)
     \/ item.kind \in {"any"} \cup HelperNames \cup DetNames /\ item.tag = 0 /\ item.val \in Values
     \/ item.kind = "json" /\ item.tag = 0 /\ item.val \in JSONTexts
  /\ prefixed \in BOOLEAN /\ sent \in BOOLEAN
  /\ IsBytes(out) /\ IsBytes(wire)
  /\ werr \in {"none", "UnsupportedType", "MarshalError"} \cup JSONErrors

Complete == sent /\ wire = out /\ item # NoItem
TagComplete == Complete /\ item.kind \in TagKinds

\* The item after the self-describe prefix, if one was written.
Body == IF prefixed THEN Drop(wire, Len(AppendSelfDescribeCBOR)) ELSE wire

HasNil == \/ item.kind = "big" /\ item.val = NilBig
          \/ item.kind = "pair" /\ item.val.mant = NilBig

\* The reader of the written tag returns the value and consumes the item.
ReadsBack(r) ==
  IF HasNil THEN r.err # "none" /\ r.rest = Body ELSE r = Ok(item.val, <<>>)
\* A reader refuses the item and returns the buffer unchanged.
Refuses(r) == r.err # "none" /\ r.rest = Body
\* The readers that return b on every error (UUID, bignum, decimal
\* fraction, bigfloat).
RebasingTags == PairTags \cup {tagUUID, tagPosBignum}

\* One reader's result r on the delivered bytes, which Skip ends at end.
OneItem(r, t, end) ==
  /\ r.err = "none" => r.rest = end
  /\ r.err = "none" /\ t = tagUUID => Len(r.val) = 16
  /\ r.err # "none" /\ t \in RebasingTags => r.rest = wire

\* Every tagged appender is read back by the reader of its tag (spec 4.2,
\* 4.3): StripSelfDescribeCBOR finds the prefix exactly when it was
\* written, and the reader returns the value written, bignums and
\* mantissas on both sides of the uint64/int64 limits included, and
\* consumes the whole item.  A nil *big.Int is written as null, which the
\* bignum and fraction readers reject without consuming anything.
TaggedRoundTrip ==
  TagComplete =>
    /\ StripSelfDescribeCBOR(wire) = Ok(prefixed, Body)
    /\ ReadsBack(ReadTagged(item.tag, Body))

\* Each tag reader requires its own tag number (spec 4.3): a whole item
\* written under another tag is refused by every other reader, with the
\* buffer returned unchanged.
TagDiscriminates ==
  TagComplete => \A t \in ReaderTags \ {item.tag} : Refuses(ReadTagged(t, Body))

\* On any bytes, whole, cut short or of another encoder, a tag reader that
\* succeeds consumes exactly the one item Skip walks over, a UUID it
\* returns has 16 bytes, and a rebasing reader that fails leaves the
\* caller's buffer as it was (spec 7, propagation policy).
ReadersConsumeOneItem ==
  sent =>
    LET end == Skip(wire).rest IN
    \A t \in ReaderTags : OneItem(ReadTagged(t, wire), t, end)

(* A reference decoder from definite-length CBOR to the data model: a     *)
(* record [t, a]; a map is its pair count and its SET of [k, v] pairs, so   *)
(* that the order of the pairs does not matter.                           *)
DM(t, a) == [t |-> t, a |-> a]

RECURSIVE Decode(_), decodeN(_, _), decodePairs(_, _)
Decode(b) ==
  IF b = <<>> THEN Fail("ShortBytes", b)
  ELSE LET m == getMajorType(b[1])  a == getAddInfo(b[1]) IN
  IF m = majorTypeSimple
    THEN CASE a \in 20..22 -> Ok(DM("simple", a), Tail(b))
           [] a = 26 /\ Len(b) >= 5 -> Ok(DM("f32", SubSeq(b, 2, 5)), Drop(b, 5))
           [] a = 27 /\ Len(b) >= 9 -> Ok(DM("f64", SubSeq(b, 2, 9)), Drop(b, 9))
           [] OTHER -> Fail("Unsupported", b)
  ELSE IF a > 27 \/ Len(b) < 1 + ArgWidth(a) THEN Fail("ShortBytes", b)
  ELSE LET u == Arg(b)  p == Drop(b, 1 + ArgWidth(a))  n == SatNat(u) IN
  CASE m = 0 -> Ok(DM("u", u), p)
    [] m = 1 -> Ok(DM("n", u), p)
    [] m \in {2, 3} /\ n <= Len(p) ->
         Ok(DM(IF m = 2 THEN "bytes" ELSE "text", SubSeq(p, 1, n)), Drop(p, n))
    [] m = 4 -> LET r == decodeN(p, n) IN
                IF r.err # "none" THEN r ELSE Ok(DM("array", r.val), r.rest)
    [] m = 5 -> LET r == decodePairs(p, n) IN
                IF r.err # "none" THEN r ELSE Ok(DM("map", [n |-> n, pairs |-> r.val]), r.rest)
    [] OTHER -> Fail("Unsupported", b)
decodeN(p, n) ==
  IF n = 0 THEN Ok(<<>>, p)
  ELSE LET h == Decode(p) IN
       IF h.err # "none" THEN h
       ELSE LET t == decodeN(h.rest, n - 1) IN
            IF t.err # "none" THEN t ELSE Ok(<<h.val>> \o t.val, t.rest)
decodePairs(p, n) ==
  LET r == decodeN(p, 2 * n) IN
  IF r.err # "none" THEN r
  ELSE Ok({[k |-> r.val[2 * i - 1], v |-> r.val[2 * i]] : i \in 1..n}, r.rest)

IntDM(i) == IF IsNeg(i) THEN DM("n", Complement(i)) ELSE DM("u", i)

\* The data-model value a Go value stands for.
RECURSIVE Erase(_)
Erase(x) ==
  CASE x.k = "nil" -> DM("simple", simpleNull)
    [] x.k = "bool" -> DM("simple", IF x.v THEN simpleTrue ELSE simpleFalse)
    [] x.k = "string" -> DM("text", x.v)
    [] x.k \in {"[]byte", "json.RawMessage"} -> DM("bytes", x.v)
    [] x.k \in UintKinds -> DM("u", Pad8(x.v))
    [] x.k \in IntKinds -> IntDM(SignExtend(x.v))
    [] x.k = "float32" -> DM("f32", F32Bytes(x.v))
    [] x.k = "float64" -> DM("f64", F64Bytes(x.v))
    [] x.k = "json.Number" ->
         IF x.v.int # <<>> THEN IntDM(x.v.int[1]) ELSE DM("f64", F64Bytes(x.v.float[1]))
    [] x.k = "struct" -> Decode(x.v.raw).val
    [] x.k = "[]" -> DM("array", [i \in DOMAIN x.v.items |-> Erase(x.v.items[i])])
    [] x.k = "map" ->
         DM("map", [n |-> Len(x.v.pairs),
                    pairs |-> {[k |-> Erase([k |-> x.v.key, v |-> p.key]), v |-> Erase(p.val)]
                               : p \in ToSet(x.v.pairs)}])

\* AppendInterface writes one item that decodes to the value it was given,
\* whatever order its map ranges took, nested []any, map[string]any,
\* Marshalers and the reflection path included (spec 4.2, append_any).
\* When it returns an error, what it has appended so far is never a
\* complete item: a caller that ignores the error cannot read a value.
EncodesValue ==
  Complete /\ item.kind = "any" =>
    IF werr = "none" THEN Decode(Body) = Ok(Erase(item.val), <<>>)
    ELSE Decode(Body).err # "none"

\* Each typed helper generated code calls (AppendMapStrStr,
\* AppendStringSlice, AppendMapUint64Uint64, AppendPtrMarshaler,
\* AppendSliceMarshaler, AppendMapUint64Marshaler) can write exactly the
\* bytes, and return exactly the errors, that AppendInterface can for the
\* same value, including the value-or-pointer Marshaler lookup.
HelpersAgreeWithInterface ==
  item.kind \in HelperNames =>
    HelperResults(item.kind, item.val) = AppendInterface(item.val)

\* The reader of each integer kind.
ReadKind(k, b) ==
  CASE k = "time.Duration" -> ReadDurationBytes(b)
    [] k \in IntKinds -> ReadIntNBytes(b, Width(k))
    [] OTHER -> ReadUintNBytes(b, Width(k))
ReadKinds == IntKinds \cup UintKinds

\* A Go integer of kind k as a sign and its 64-bit pattern, so that
\* integers of different kinds compare by value.
IntKey(k, v) ==
  [neg |-> k \in IntKinds /\ v[1] >= 128,
   bits |-> IF k \in IntKinds THEN SignExtend(v) ELSE Pad8(v)]
FitsKind(key, k) ==
  IF k \in IntKinds THEN key.neg = IsNeg(key.bits) /\ FitsSigned(key.bits, Width(k))
  ELSE ~key.neg /\ FitsIn(key.bits, Width(k))

\* The reader of kind k, giving r, on the whole item of the integer key.
IntRead(r, k, key) ==
  /\ (r.err = "none") = FitsKind(key, k)
  /\ r.err = "none" => IntKey(k, r.val) = key /\ r.rest = <<>>
  /\ r.err # "none" => r.rest = Body

\* Every Go integer AppendInterface writes (int8 to uint64, int, uint and
\* time.Duration) is read back by the reader of its own kind (spec 8.1);
\* every integer reader accepts it exactly when the value is in the
\* reader's range, returns the same value, and otherwise returns the
\* caller's buffer unchanged.
IntegersRoundTrip ==
  Complete /\ item.kind = "any" /\ item.val.k \in ReadKinds =>
    /\ ReadKind(item.val.k, Body) = Ok(item.val.v, <<>>)
    /\ \A k \in ReadKinds : IntRead(ReadKind(k, Body), k, IntKey(item.val.k, item.val.v))

\* The encoded keys of the map at the head of b, in the order written.
RECURSIVE keysOf(_, _)
keysOf(p, n) ==
  IF n = 0 THEN <<>>
  ELSE LET afterKey == Skip(p).rest IN
       <<SubSeq(p, 1, Len(p) - Len(afterKey))>> \o keysOf(Skip(afterKey).rest, n - 1)
TopKeys(b) == LET h == ReadMapHeaderBytes(b) IN keysOf(h.rest, h.val)

\* A deterministic map encoder that succeeds writes one map that decodes to
\* the map it was given, with the encoded keys strictly increasing in the
\* length-first, then bytewise order (spec 4.5, 8.5): the bytes.Compare sort
\* of AppendMapStrInterfaceDeterministic as well as the bucketed sort of
\* AppendMapDeterministic, over text, integer, bool and unsigned keys.  One
\* that fails has appended no complete item.
DeterministicMapEncoding ==
  Complete /\ item.kind \in DetNames =>
    IF werr = "none"
    THEN /\ Decode(Body) = Ok(Erase(item.val), <<>>)
         /\ LET ks == TopKeys(Body) IN \A i \in 1..(Len(ks) - 1) : LenFirstLess(ks[i], ks[i + 1])
    ELSE Decode(Body).err # "none"
-----------------------------------------------------------------------------
(* JSON interop.  A JSON text is compared with another by its decoded     *)
(* value (parseValue): objects are functions, so white space and key      *)
(* order do not count.                                                    *)

JSONTree(t) == parseValue(t).val
JSONComplete == Complete /\ item.kind = "json"
Rendered == Answer(Body)

\* Each heavy result is computed once and passed on.
SameTree(a, tree) == a.err = "none" /\ JSONTree(a.text) = tree
RendersAs(rs, tree) == \A r \in rs : r.err = "none" /\ SameTree(Answer(r.out), tree)
ReadBackAs(a) == a.err = "none" => RendersAs(FromJSONBytes(a.text), JSONTree(a.text))
\* What FromJSONBytes can write, and the verdict on each, computed once.
JSONOutputs == {r.out : r \in UNION {FromJSONBytes(js) : js \in JSONTexts}}
FixedPointOf == [b \in JSONOutputs |-> ReadBackAs(Answer(b))]

\* ToJSONBytes renders its own output as a fixed point: when FromJSONBytes
\* succeeds and ToJSONBytes renders the item as a text t, then FromJSONBytes
\* accepts t in every map order and ToJSONBytes renders the result as t
\* again -- the base64 alphabets and padding, hex, UUID, bignum and escape
\* forms written by the one are the ones the other reads (spec 4.7).
JSONFixedPoint == JSONComplete /\ werr = "none" => FixedPointOf[Body]

\* When FromJSONBytes fails, the partial output it returns with the error
\* (the array header and items before a failing element, a map's keys
\* and values before a failing value) is never one complete item: a
\* caller that ignores the error cannot read a value from it.
FromJSONErrorsLeaveNoItem ==
  JSONComplete /\ werr # "none" => Skip(Body).err # "none"

(* The wrapper table of spec 4.7, as the spec states it. *)
SpecWrapperKeys == {WrapperName[t] : t \in DOMAIN WrapperName} \cup {URIKey}
\* The tags to_json renders in a form of their own rather than as $tag.
OwnFormTags == {0, 1, 2, 3, 32} \cup DOMAIN WrapperName
IsDigits(s) == s # <<>> /\ \A i \in DOMAIN s : s[i] \in Digit
\* -?(0|[1-9][0-9]*), no "-0": the form to_json writes integers in.
CanonicalInt(tok) ==
  LET ds == IF tok # <<>> /\ tok[1] = 45 THEN Tail(tok) ELSE tok IN
  IsDigits(ds) /\ (ds[1] = 48 => tok = <<48>>)
IsLowerHex(c) == c \in Digit \cup 97..102
CanonicalUUID(s) ==
  Len(s) = 36 /\ \A i \in 1..36 : IF i \in {9, 14, 19, 24} THEN s[i] = 45 ELSE IsLowerHex(s[i])
IsStr(v) == v.t = "str"
\* "$tag": a number >= 0 that fits a CBOR tag, of a tag without a form of its own.
TagNumberOK(v) ==
  /\ v.t = "num" /\ CanonicalInt(v.v) /\ v.v[1] # 45 /\ Len(DecMag(v.v)) <= 8
  /\ \A t \in OwnFormTags : DecMag(v.v) # TrimLead(NatToU64(t))
\* The payload each wrapper of the table takes.
PayloadOK(k, v) ==
  CASE k \in {WrapperName[4], WrapperName[5]} ->
         /\ v.t = "arr" /\ Len(v.v) = 2
         /\ v.v[1].t = "num" /\ CanonicalInt(v.v[1].v) /\ Int64Of(v.v[1].v).err = "none"
         /\ IsStr(v.v[2]) /\ CanonicalInt(v.v[2].v)
    [] k = WrapperName[21] -> IsStr(v) /\ B64Decode(v.v, TRUE).err = "none"
    [] k \in {WrapperName[22], WrapperName[24]} -> IsStr(v) /\ B64Decode(v.v, FALSE).err = "none"
    [] k = WrapperName[23] -> IsStr(v) /\ HexDecode(v.v).err = "none"
    [] k \in {URIKey, WrapperName[36]} -> IsStr(v) /\ v.v # <<>>
    [] k \in {WrapperName[33], WrapperName[34]} -> IsStr(v)
    [] k = WrapperName[35] -> IsStr(v) /\ v.v # <<>> /\ RegexpCompiles(v.v)
    [] k = WrapperName[37] -> IsStr(v) /\ CanonicalUUID(v.v)
    [] k = WrapperName[55799] -> v = JV("bool", TrueText)

\* A wrapper is an object of exactly one key of the table, or exactly the
\* pair $tag, $; any other object is a plain one.
RECURSIVE UsesTable(_), Expected(_)
UsesTable(x) ==
  CASE x.t = "num" -> CanonicalInt(x.v) /\ Int64Of(x.v).err = "none"
    [] x.t = "arr" -> \A i \in DOMAIN x.v : UsesTable(x.v[i])
    [] x.t = "obj" /\ DOMAIN x.v = {TagKey, ValueKey} ->
         TagNumberOK(x.v[TagKey]) /\ UsesTable(x.v[ValueKey])
    [] x.t = "obj" /\ \E k \in SpecWrapperKeys : DOMAIN x.v = {k} ->
         \E k \in DOMAIN x.v : PayloadOK(k, x.v[k])
    [] x.t = "obj" -> \A k \in DOMAIN x.v : UsesTable(x.v[k])
    [] OTHER -> TRUE
\* x with each $uri wrapper replaced by its string (tag 32 renders plain).
Expected(x) ==
  CASE x.t = "obj" /\ DOMAIN x.v = {URIKey} -> x.v[URIKey]
    [] x.t = "obj" -> JV("obj", [k \in DOMAIN x.v |-> Expected(x.v[k])])
    [] x.t = "arr" -> JV("arr", [i \in DOMAIN x.v |-> Expected(x.v[i])])
    [] OTHER -> x

\* The round-trip law of spec 4.7: for a JSON text that uses the wrapper
\* table, FromJSONBytes succeeds and ToJSONBytes of its output is the text
\* again up to white space and key order, $uri rendering as a plain
\* string -- whatever order FromJSONBytes ranged over the objects in.
JSONRoundTripLaw ==
  JSONComplete /\ parseValue(item.val).err = "none" /\ UsesTable(JSONTree(item.val)) =>
    /\ werr = "none"
    /\ Rendered.err = "none"
    /\ JSONTree(Rendered.text) = Expected(JSONTree(item.val))
=============================================================================
