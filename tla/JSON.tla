-------------------------------- MODULE JSON --------------------------------
(***************************************************************************)
(* ToJSONBytes and toJSON of src/runtime/json_interop.go: the JSON text of *)
(* the next CBOR item, written into pooled ByteBuffers.                    *)
(*                                                                         *)
(* The control of toJSON depends only on the input bytes, never on what    *)
(* the buffers hold, so toJSON is modelled as the program it runs: the     *)
(* sequence of buffer operations (GetByteBuffer, writes, copies,           *)
(* PutByteBuffer) a call performs, computed from the input.  JSONPool      *)
(* executes these programs step by step in goroutines that share the      *)
(* pool.  Buffers are named by level: level 1 is ToJSONBytes's bb, level   *)
(* l + 1 the vbuf of a generic tag or the bb of a DiagBytes call made by   *)
(* the frame writing to level l.                                           *)
(*                                                                         *)
(* Not modelled: tags 0 and 1 (time formatting) and floats (strconv        *)
(* FormatFloat); no input holds one.  json.Marshal of a string is modelled *)
(* for valid UTF-8 without U+2028 and U+2029.                              *)
(***************************************************************************)
EXTENDS Diag

\* The instructions.  Write appends s to the buffer of level lvl; Cat
\* appends the buffer of level lvl + 1 (buf.Write(vbuf.Bytes())); Out
\* copies the buffer of level lvl into the goroutine's private string;
\* WriteOut appends s, json.Marshal of that string, then t.
Ins(op, l, s, t) == [op |-> op, lvl |-> l, s |-> s, t |-> t]
Get(l) == Ins("get", l, <<>>, <<>>)
Put(l) == Ins("put", l, <<>>, <<>>)
W(l, s) == Ins("write", l, s, <<>>)
Cat(l) == Ins("cat", l, <<>>, <<>>)
Out(l) == Ins("out", l, <<>>, <<>>)
WriteOut(l, s, t) == Ins("writeOut", l, s, t)

\* A result that carries the program run so far, also on failure.
FailP(e, b, prog) == [err |-> e, val |-> prog, rest |-> b]
Then(prog, r) == [r EXCEPT !.val = prog \o @]

-----------------------------------------------------------------------------
(* The conversions the writes use. *)

\* json.Marshal of a string: quote and backslash escaped, \n \r \t, the
\* other control bytes and the HTML-unsafe < > & as \u00XX.
JChar(c) ==
  CASE c \in {34, 92} -> <<92, c>>
    [] c = 10 -> <<92, 110>>
    [] c = 13 -> <<92, 114>>
    [] c = 9  -> <<92, 116>>
    [] c < 32 \/ c \in {38, 60, 62} ->
         <<92, 117, 48, 48, HexDigit(c \div 16), HexDigit(c % 16)>>
    [] OTHER -> <<c>>
JQuote(s) == <<34>> \o FlattenSeq([i \in DOMAIN s |-> JChar(s[i])]) \o <<34>>

\* base64.StdEncoding (padded) and base64.RawURLEncoding (unpadded, - and _).
B64Char(v, url) ==
  CASE v < 26 -> 65 + v
    [] v < 52 -> 97 + (v - 26)
    [] v < 62 -> 48 + (v - 52)
    [] v = 62 -> IF url THEN 45 ELSE 43
    [] OTHER  -> IF url THEN 95 ELSE 47
RECURSIVE B64(_, _)
B64(bs, url) ==
  LET n == Len(bs)
      x == IF n >= 3 THEN (bs[1] * 256 + bs[2]) * 256 + bs[3]
           ELSE IF n = 2 THEN (bs[1] * 256 + bs[2]) * 256 ELSE bs[1] * 65536
      c(k) == B64Char((x \div (64 ^ (3 - k))) % 64, url)
      pad(k) == IF url THEN <<>> ELSE [i \in 1..k |-> 61]
  IN CASE n = 0 -> <<>>
       [] n = 1 -> <<c(0), c(1)>> \o pad(2)
       [] n = 2 -> <<c(0), c(1), c(2)>> \o pad(1)
       [] OTHER -> <<c(0), c(1), c(2), c(3)>> \o B64(Drop(bs, 3), url)
encodeBase64Std(bs) == B64(bs, FALSE)
encodeBase64RawURL(bs) == B64(bs, TRUE)

\* The canonical 8-4-4-4-12 form of the 16 UUID bytes.
UUIDString(u) ==
  LET h == HexEncode(u) IN
  SubSeq(h, 1, 8) \o <<45>> \o SubSeq(h, 9, 12) \o <<45>> \o SubSeq(h, 13, 16)
    \o <<45>> \o SubSeq(h, 17, 20) \o <<45>> \o SubSeq(h, 21, 32)

\* big.Int String().
BigString(z) == IF z.neg /\ z.mag # <<>> THEN <<45>> \o Decimal(z.mag) ELSE Decimal(z.mag)

\* The wrapper names of the tags toJSON writes as {"$name": ...} and
\* FromJSONBytes recognises (json_from.go:15-31), as bytes.
WrapperName ==
     (4 :> <<36, 100, 101, 99, 105, 109, 97, 108>>)                      \* $decimal
  @@ (5 :> <<36, 98, 105, 103, 102, 108, 111, 97, 116>>)                 \* $bigfloat
  @@ (21 :> <<36, 98, 97, 115, 101, 54, 52, 117, 114, 108>>)             \* $base64url
  @@ (22 :> <<36, 98, 97, 115, 101, 54, 52>>)                            \* $base64
  @@ (23 :> <<36, 98, 97, 115, 101, 49, 54>>)                            \* $base16
  @@ (24 :> <<36, 99, 98, 111, 114>>)                                    \* $cbor
  @@ (33 :> <<36, 98, 97, 115, 101, 54, 52, 117, 114, 108, 115, 116, 114>>) \* $base64urlstr
  @@ (34 :> <<36, 98, 97, 115, 101, 54, 52, 115, 116, 114>>)             \* $base64str
  @@ (35 :> <<36, 114, 101, 103, 101, 120>>)                             \* $regex
  @@ (36 :> <<36, 109, 105, 109, 101>>)                                  \* $mime
  @@ (37 :> <<36, 117, 117, 105, 100>>)                                  \* $uuid
  @@ (55799 :> <<36, 115, 101, 108, 102, 100, 101, 115, 99, 114, 105, 98, 101>>) \* $selfdescribe
TagKey == <<36, 116, 97, 103>>          \* $tag
ValueKey == <<36>>                      \* $
TrueText == <<116, 114, 117, 101>>
FalseText == <<102, 97, 108, 115, 101>>
NullText == <<110, 117, 108, 108>>
\* {"name":
Open(name) == <<123, 34>> \o name \o <<34, 58>>
-----------------------------------------------------------------------------
(* toJSON as the program it runs on the buffer of level l. *)

\* The program of r followed by prog, when r succeeded.
Close(r, prog) == IF r.err = "none" THEN [r EXCEPT !.val = @ \o prog] ELSE r

\* A reader's result written as one piece of text.
WriteRead(r, b, l, text) == IF r.err # "none" THEN FailP(r.err, b, <<>>) ELSE Ok(<<W(l, text)>>, r.rest)
\* A text string read as r, written as a JSON string between pre and post.
WriteQuoted(r, b, l, pre, post) == WriteRead(r, b, l, pre \o JQuote(r.val) \o post)

\* A map key that is not text: DiagBytes renders it in a buffer of its own
\* (level l + 1), copies the text out and puts the buffer back; toJSON then
\* writes sep, the text as a JSON string and ":".  diagOneBuf's writes are
\* one write of the whole text; on an error its buffer is put back unread.
DiagKeyProg(d, p, l, sep) ==
  IF d.err # "none" THEN FailP(d.err, p, <<Get(l + 1), Put(l + 1)>>)
  ELSE Ok(<<Get(l + 1), W(l + 1, d.val), Out(l + 1), Put(l + 1), WriteOut(l, sep, <<58>>)>>, d.rest)
DiagKey(p, l, sep) == DiagKeyProg(DiagBytes(p), p, l, sep)

\* A key: a text key through ReadStringBytes and json.Marshal, any other
\* key through DiagKey; sep is written with the key.
jsonKey(p, l, sep) ==
  IF getMajorType(p[1]) = majorTypeText
  THEN WriteQuoted(ReadStringBytes(p), p, l, sep, <<58>>)
  ELSE DiagKey(p, l, sep)

RECURSIVE toJSON(_, _, _), jsonItems(_, _, _, _, _, _), jsonToBreak(_, _, _, _, _),
          jsonKeyValue(_, _, _, _), jsonValueAfter(_, _, _), jsonItem(_, _, _, _),
          jsonItemThen(_, _, _, _, _, _), jsonNext(_, _, _, _, _), jsonNextThen(_, _, _, _)

\* A key and its value.
jsonKeyValue(p, depth, l, sep) == jsonValueAfter(jsonKey(p, l, sep), depth, l)
jsonValueAfter(key, depth, l) ==
  IF key.err # "none" THEN key ELSE Then(key.val, toJSON(key.rest, depth + 1, l))

\* The n items (or pairs) of a definite array (or map), "," between them.
\* A definite map reads p[0] for the key's major type without a length
\* check (json_interop.go:176): on a truncated map Go panics.
jsonItems(p, n, i, pairs, depth, l) ==
  IF i = n THEN Ok(<<>>, p)
  ELSE Then(IF i > 0 THEN <<W(l, <<44>>)>> ELSE <<>>,
            jsonItemThen(jsonItem(p, pairs, depth, l), n, i, pairs, depth, l))
jsonItem(p, pairs, depth, l) ==
  IF ~pairs THEN toJSON(p, depth + 1, l)
  ELSE IF Len(p) < 1 THEN FailP("panic", p, <<>>)
  ELSE jsonKeyValue(p, depth, l, <<>>)
jsonItemThen(x, n, i, pairs, depth, l) ==
  IF x.err # "none" THEN x ELSE Then(x.val, jsonItems(x.rest, n, i + 1, pairs, depth, l))

\* The items (or pairs) of an indefinite array (or map), up to the break.
jsonToBreak(p, first, pairs, depth, l) ==
  IF Len(p) < 1 THEN FailP("ShortBytes", p, <<>>)
  ELSE IF p[1] = BreakByte THEN Ok(<<W(l, <<IF pairs THEN 125 ELSE 93>>)>>, Drop(p, 1))
  ELSE jsonNextThen(jsonNext(p, first, pairs, depth, l), pairs, depth, l)
jsonNext(p, first, pairs, depth, l) ==
  LET sep == IF first THEN <<>> ELSE <<44>> IN
  IF pairs THEN jsonKeyValue(p, depth, l, sep) ELSE Then(<<W(l, sep)>>, toJSON(p, depth + 1, l))
jsonNextThen(x, pairs, depth, l) ==
  IF x.err # "none" THEN x ELSE Then(x.val, jsonToBreak(x.rest, FALSE, pairs, depth, l))

\* Variant: the vbuf is put back before its bytes are copied into buf.
GenericTagPutFirst(b, t, inner, l) ==
  LET got == <<Get(l + 1)>> \o inner.val IN
  CASE inner.err = "panic" -> FailP("panic", b, got)
    [] inner.err # "none"  -> FailP(inner.err, b, got \o <<Put(l + 1)>>)
    [] OTHER -> Ok(got \o <<W(l, Open(TagKey) \o FormatUint(t.val) \o <<44, 34, 36, 34, 58>>),
                           Put(l + 1), Cat(l), W(l, <<125>>)>>, inner.rest)

\* The generic tag: the value is written into a vbuf of level l + 1, then
\* {"$tag":N,"$": the vbuf's bytes } into the buffer of level l, and the
\* vbuf is put back -- also when the value fails, but not on a panic.
GenericTag(b, t, inner, l) ==
  LET got == <<Get(l + 1)>> \o inner.val IN
  CASE inner.err = "panic" -> FailP("panic", b, got)
    [] inner.err # "none"  -> FailP(inner.err, b, got \o <<Put(l + 1)>>)
    [] OTHER -> Ok(got \o <<W(l, Open(TagKey) \o FormatUint(t.val) \o <<44, 34, 36, 34, 58>>),
                           Cat(l), W(l, <<125>>), Put(l + 1)>>, inner.rest)

\* The tags with a reader of their own, each given the reader's result.
\* Mutant: $base64url written with the padded standard alphabet.
BytesEncodingURLPadded(tn, bs) ==
  CASE tn = tagBase16 -> HexEncode(bs)
    [] OTHER -> encodeBase64Std(bs)
BytesEncoding(tn, bs) ==
  CASE tn = tagBase64URL -> encodeBase64RawURL(bs)
    [] tn = tagBase16 -> HexEncode(bs)
    [] OTHER -> encodeBase64Std(bs)     \* 22 and 24
WriteBytesWrapper(r, b, l, tn) ==
  WriteRead(r, b, l, Open(WrapperName[tn]) \o JQuote(BytesEncoding(tn, r.val)) \o <<125>>)
WriteFraction(q, b, l, tn) ==
  WriteRead(q, b, l, Open(WrapperName[tn]) \o <<91>> \o FormatInt(q.val.exp) \o <<44>>
                       \o JQuote(BigString(q.val.mant)) \o <<93, 125>>)
WriteBase64(r, b, l) == WriteRead(r, b, l, JQuote(encodeBase64Std(r.val)))
WriteBigIntJSON(z, b, l) == WriteRead(z, b, l, JQuote(BigString(z.val)))
WriteUUIDJSON(u, b, l) == WriteRead(u, b, l, Open(WrapperName[tagUUID]) \o JQuote(UUIDString(u.val)) \o <<125>>)
WriteSelfDescribeJSON(found, b, l) ==
  IF found.err = "none" /\ found.val
  THEN Ok(<<W(l, Open(WrapperName[tagSelfDescribeCBOR]) \o TrueText \o <<125>>)>>, ReadTagBytes(b).rest)
  ELSE FailP("UnsupportedType", b, <<>>)
TagCase(b, tn, l) ==
  CASE tn \in {tagPosBignum, tagNegBignum} -> WriteBigIntJSON(ReadBigIntBytes(b), b, l)
    [] tn \in {tagDecimalFrac, tagBigfloat} -> WriteFraction(readTaggedPair(b, tn), b, l, tn)
    [] tn \in {tagBase64URL, tagBase64, tagBase16, tagCBOR} ->
         WriteBytesWrapper(TaggedBytes(b, tn), b, l, tn)
    [] tn = tagURI -> WriteQuoted(TaggedText(b, tn), b, l, <<>>, <<>>)
    [] tn \in {tagBase64URLString, tagBase64String, tagRegexp, tagMIME} ->
         WriteQuoted(TaggedText(b, tn), b, l, Open(WrapperName[tn]), <<125>>)
    [] tn = tagUUID -> WriteUUIDJSON(ReadUUIDBytes(b), b, l)
    [] tn = tagSelfDescribeCBOR -> WriteSelfDescribeJSON(StripSelfDescribeCBOR(b), b, l)

\* toJSON(buf, b, depth): the program writing the JSON of the next item to
\* the buffer of level l, and the bytes after the item.
toJSON(b, depth, l) ==
  LET maj == getMajorType(b[1])
      add == getAddInfo(b[1])
      u == readUintCore(b, maj)
      tn == IF FitsIn(u.val, 3) THEN SatNat(u.val) ELSE -1
      close == IF maj = majorTypeArray THEN 93 ELSE 125
  IN
  IF depth > RecursionLimit THEN FailP("MaxDepthExceeded", b, <<>>)
  ELSE IF Len(b) < 1 THEN FailP("ShortBytes", b, <<>>)
  ELSE CASE maj = majorTypeUint -> WriteRead(u, b, l, FormatUint(u.val))
         [] maj = majorTypeNegInt -> WriteRead(u, b, l, FormatInt(NegIntArg(u.val)))
         [] maj = majorTypeBytes -> WriteBase64(ReadBytesBytes(b), b, l)
         [] maj = majorTypeText -> WriteQuoted(ReadStringBytes(b), b, l, <<>>, <<>>)
         [] maj \in {majorTypeArray, majorTypeMap} /\ add = addInfoIndefinite ->
              Then(<<W(l, <<close - 2>>)>>, jsonToBreak(Drop(b, 1), TRUE, maj = majorTypeMap, depth, l))
         [] maj \in {majorTypeArray, majorTypeMap} ->
              IF u.err # "none" THEN FailP(u.err, b, <<>>)
              ELSE Then(<<W(l, <<close - 2>>)>>,
                        Close(jsonItems(u.rest, SatNat(u.val), 0, maj = majorTypeMap, depth, l),
                              <<W(l, <<close>>)>>))
         [] maj = majorTypeTag /\ u.err # "none" -> FailP(u.err, b, <<>>)
         [] maj = majorTypeTag /\ tn \in DOMAIN WrapperName \cup {tagPosBignum, tagNegBignum, tagURI} ->
              TagCase(b, tn, l)
         [] maj = majorTypeTag /\ tn \notin {0, 1} ->
              GenericTag(b, u, toJSON(u.rest, depth + 1, l + 1), l)
         [] maj = majorTypeSimple /\ add = simpleFalse -> Ok(<<W(l, FalseText)>>, Drop(b, 1))
         [] maj = majorTypeSimple /\ add = simpleTrue -> Ok(<<W(l, TrueText)>>, Drop(b, 1))
         [] maj = majorTypeSimple /\ (add \in {simpleNull, 23} \/ add < 20) ->
              Ok(<<W(l, NullText)>>, Drop(b, 1))
         [] maj = majorTypeSimple /\ add = addInfoUint8 ->
              IF Len(b) < 2 THEN FailP("ShortBytes", b, <<>>) ELSE Ok(<<W(l, NullText)>>, Drop(b, 2))
         [] maj = majorTypeSimple /\ add \in 28..31 -> FailP("UnsupportedType", b, <<>>)

\* Variant: bb is put back on the error path, and again by the defer.
ToJSONBytesDoublePut(b) ==
  LET r == toJSON(b, 0, 1) IN
  [err |-> r.err,
   prog |-> <<Get(1)>> \o r.val \o (IF r.err = "none" THEN <<Out(1)>> ELSE <<Put(1)>>) \o <<Put(1)>>,
   rest |-> IF r.err = "none" THEN r.rest ELSE b]

\* ToJSONBytes: bb is taken from the pool, toJSON writes into it, on
\* success its bytes are copied out, and the deferred PutByteBuffer puts
\* it back -- on an error and on a panic too.  err is "panic" when Go
\* would panic; rest is b on any failure.
CallResult(b, r) ==
  [err |-> r.err,
   prog |-> <<Get(1)>> \o r.val \o (IF r.err = "none" THEN <<Out(1)>> ELSE <<>>) \o <<Put(1)>>,
   rest |-> IF r.err = "none" THEN r.rest ELSE b]
ToJSONBytes(b) == CallResult(b, toJSON(b, 0, 1))

\* The text a program leaves in the private string when every level has
\* a buffer of its own: what ToJSONBytes returns when no other call
\* touches its buffers.
Exec(prog) ==
  LET step(st, x) ==
        LET c == st.buf IN
        CASE x.op = "get" -> [st EXCEPT !.buf = [c EXCEPT ![x.lvl] = <<>>]]
          [] x.op = "write" -> [st EXCEPT !.buf = [c EXCEPT ![x.lvl] = @ \o x.s]]
          [] x.op = "cat" -> [st EXCEPT !.buf = [c EXCEPT ![x.lvl] = @ \o c[x.lvl + 1]]]
          [] x.op = "out" -> [st EXCEPT !.out = c[x.lvl]]
          [] x.op = "writeOut" -> [st EXCEPT !.buf = [c EXCEPT ![x.lvl] = @ \o x.s \o JQuote(st.out) \o x.t]]
          [] x.op = "put" -> st
  IN FoldLeft(step, [buf |-> [l \in 1..Len(prog) |-> <<>>], out |-> <<>>], prog).out
\* The result of ToJSONBytes(b) run alone: the JSON text on success.
AnswerOf(r) == [err |-> r.err, text |-> IF r.err = "none" THEN Exec(r.prog) ELSE <<>>, rest |-> r.rest]
Answer(b) == AnswerOf(ToJSONBytes(b))
=============================================================================
