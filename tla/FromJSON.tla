------------------------------ MODULE FromJSON ------------------------------
(***************************************************************************)
(* FromJSONBytes of src/runtime/json_from.go: a JSON text decoded by       *)
(* encoding/json (UseNumber) into an any, then written as CBOR by          *)
(* jsonToCBOR, wrapper objects by tryWrapper.                              *)
(*                                                                         *)
(* A decoded JSON value is a record [t, v]:                                *)
(*   "null" v = <<>>; "bool" v = the literal's bytes; "num" v = the        *)
(*   json.Number text; "str" v = the bytes; "arr" v = the tuple of items;  *)
(*   "obj" v = the function from keys (bytes) to values.                   *)
(* Ranging over a map[string]any visits the keys in any order, so          *)
(* jsonToCBOR returns the SET of results [out, err] it can produce (R of   *)
(* Dynamic); out is what it appended, error or not.                        *)
(*                                                                         *)
(* Not modelled: numbers with a fraction or an exponent and integers       *)
(* outside int64 (AppendFloat64 of x.Float64()), the $rfc3339 and $epoch   *)
(* wrappers (time.Parse, time.Unix), \u escapes above U+007F and invalid   *)
(* UTF-8 in strings.  regexp.Compile is reduced to parenthesis balance.    *)
(***************************************************************************)
EXTENDS JSON, Dynamic

JV(t, v) == [t |-> t, v |-> v]
NoJSON == JV("null", <<>>)
Digit == 48..57

-----------------------------------------------------------------------------
(* json.Decoder.Decode: the first JSON value of the text; what follows it  *)
(* is left unread.  Results are Ok(value, rest) or Fail(err, rest).        *)

RECURSIVE SkipWS(_)
SkipWS(s) == IF s # <<>> /\ s[1] \in {9, 10, 13, 32} THEN SkipWS(Tail(s)) ELSE s

RECURSIVE DigitRun(_)
DigitRun(s) == IF s # <<>> /\ s[1] \in Digit THEN 1 + DigitRun(Tail(s)) ELSE 0

\* The length of the number at the head of s: -? (0 | [1-9][0-9]*)
\* (. [0-9]+)? ([eE] [+-]? [0-9]+)?; 0 when there is none or when a "."
\* or an exponent has no digits (the scanner's error).
NumLen(s) ==
  LET a == IF s # <<>> /\ s[1] = 45 THEN 1 ELSE 0
      i == IF a < Len(s) /\ s[a + 1] = 48 THEN 1 ELSE DigitRun(Drop(s, a))
      dot == a + i < Len(s) /\ s[a + i + 1] = 46
      f == IF dot THEN 1 + DigitRun(Drop(s, a + i + 1)) ELSE 0
      e0 == a + i + f
      ex == e0 < Len(s) /\ s[e0 + 1] \in {69, 101}
      sg == IF ex /\ e0 + 1 < Len(s) /\ s[e0 + 2] \in {43, 45} THEN 1 ELSE 0
      e == IF ex THEN 1 + sg + DigitRun(Drop(s, e0 + 1 + sg)) ELSE 0
  IN IF i = 0 \/ f = 1 \/ (ex /\ e = 1 + sg) THEN 0 ELSE a + i + f + e

HexVal(c) == CASE c \in Digit -> c - 48
             [] c \in 97..102 -> c - 87
             [] c \in 65..70 -> c - 55
             [] OTHER -> -1

\* The escapes of a JSON string; \u only for ASCII.
Unescape(e) == CASE e \in {34, 47, 92} -> e [] e = 98 -> 8 [] e = 102 -> 12
                 [] e = 110 -> 10 [] e = 114 -> 13 [] e = 116 -> 9 [] OTHER -> -1
RECURSIVE strChars(_, _)
strChars(s, acc) ==
  CASE s = <<>> -> Fail("SyntaxError", s)
    [] s[1] = 34 -> Ok(acc, Tail(s))
    [] s[1] < 32 -> Fail("SyntaxError", s)
    [] s[1] = 92 /\ Len(s) >= 2 /\ s[2] = 117 ->
         LET h == [i \in 1..4 |-> IF 2 + i <= Len(s) THEN HexVal(s[2 + i]) ELSE -1] IN
         IF \E i \in 1..4 : h[i] < 0 THEN Fail("SyntaxError", s)
         ELSE IF h[1] = 0 /\ h[2] = 0 /\ h[3] < 8 THEN strChars(Drop(s, 6), Append(acc, h[3] * 16 + h[4]))
         ELSE Assert(FALSE, "\\u escape above U+007F not modelled")
    [] s[1] = 92 -> IF Len(s) < 2 \/ Unescape(s[2]) < 0 THEN Fail("SyntaxError", s)
                    ELSE strChars(Drop(s, 2), Append(acc, Unescape(s[2])))
    [] OTHER -> strChars(Tail(s), Append(acc, s[1]))

NumberToken(s, n) == IF n = 0 THEN Fail("SyntaxError", s) ELSE Ok(JV("num", SubSeq(s, 1, n)), Drop(s, n))

Literal(s, text, v) ==
  IF Len(s) >= Len(text) /\ SubSeq(s, 1, Len(text)) = text THEN Ok(v, Drop(s, Len(text))) ELSE Fail("SyntaxError", s)

RECURSIVE parseValue(_), parseItems(_, _), parseItemThen(_, _), parseMembers(_, _),
          parseColon(_, _), parseMemberThen(_, _, _)

\* A value after optional white space.
parseValue(s0) ==
  LET s == SkipWS(s0) IN
  CASE s = <<>> -> Fail("EOF", s)
    [] s[1] = 123 -> IF SkipWS(Tail(s)) # <<>> /\ SkipWS(Tail(s))[1] = 125
                     THEN Ok(JV("obj", <<>>), Tail(SkipWS(Tail(s))))
                     ELSE parseMembers(SkipWS(Tail(s)), <<>>)
    [] s[1] = 91 -> IF SkipWS(Tail(s)) # <<>> /\ SkipWS(Tail(s))[1] = 93
                    THEN Ok(JV("arr", <<>>), Tail(SkipWS(Tail(s))))
                    ELSE parseItems(Tail(s), <<>>)
    [] s[1] = 34 -> LET r == strChars(Tail(s), <<>>) IN
                    IF r.err # "none" THEN r ELSE Ok(JV("str", r.val), r.rest)
    [] s[1] = 45 \/ s[1] \in Digit -> NumberToken(s, NumLen(s))
    [] s[1] = 116 -> Literal(s, TrueText, JV("bool", TrueText))
    [] s[1] = 102 -> Literal(s, FalseText, JV("bool", FalseText))
    [] s[1] = 110 -> Literal(s, NullText, NoJSON)
    [] OTHER -> Fail("SyntaxError", s)

\* The items of an array after "[", then "," or "]" after each.
parseItems(s, acc) == parseItemThen(parseValue(s), acc)
parseItemThen(r, acc) ==
  IF r.err # "none" THEN r
  ELSE LET t == SkipWS(r.rest) IN
       CASE t = <<>> -> Fail("EOF", t)
         [] t[1] = 44 -> parseItems(Tail(t), Append(acc, r.val))
         [] t[1] = 93 -> Ok(JV("arr", Append(acc, r.val)), Tail(t))
         [] OTHER -> Fail("SyntaxError", t)

\* The members of an object: "key" : value, then "," or "}".  A key seen
\* twice keeps its last value (the decoder assigns into the map).
parseMembers(s, m) ==
  IF s = <<>> THEN Fail("EOF", s)
  ELSE IF s[1] # 34 THEN Fail("SyntaxError", s)
  ELSE parseColon(strChars(Tail(s), <<>>), m)
parseColon(k, m) ==
  IF k.err # "none" THEN k
  ELSE IF SkipWS(k.rest) = <<>> \/ SkipWS(k.rest)[1] # 58 THEN Fail("SyntaxError", k.rest)
  ELSE parseMemberThen(k.val, parseValue(Tail(SkipWS(k.rest))), m)
parseMemberThen(key, r, m) ==
  IF r.err # "none" THEN r
  ELSE LET t == SkipWS(r.rest)
           m2 == (key :> r.val) @@ m
       IN CASE t = <<>> -> Fail("EOF", t)
            [] t[1] = 44 -> parseMembers(SkipWS(Tail(t)), m2)
            [] t[1] = 125 -> Ok(JV("obj", m2), Tail(t))
            [] OTHER -> Fail("SyntaxError", t)
-----------------------------------------------------------------------------
(* The conversions tryWrapper applies to a payload.                        *)

\* mag * 10 + c on a big-endian magnitude.
RECURSIVE mulTenAdd(_, _)
mulTenAdd(s, c) ==
  IF s = <<>> THEN (IF c = 0 THEN <<>> ELSE mulTenAdd(<<>>, c \div 256) \o <<c % 256>>)
  ELSE LET x == Last(s) * 10 + c IN mulTenAdd(Front(s), x \div 256) \o <<x % 256>>

\* The magnitude of a run of decimal digits.
DecMag(ds) == FoldLeft(LAMBDA acc, d : mulTenAdd(acc, d - 48), <<>>, ds)

IsInt64Mag(m) == Len(m) < 8 \/ (Len(m) = 8 /\ m[1] < 128)

\* json.Number.Int64, that is strconv.ParseInt(s, 10, 64): a syntax error
\* on anything but -?[0-9]+, a range error outside int64.
Int64Of(tok) ==
  LET neg == tok # <<>> /\ tok[1] = 45
      ds == IF neg THEN Tail(tok) ELSE tok
      m == DecMag(ds)
  IN CASE ds = <<>> \/ \E i \in DOMAIN ds : ds[i] \notin Digit -> Fail("SyntaxError", tok)
       [] ~neg -> IF IsInt64Mag(m) THEN Ok(Pad8(m), <<>>) ELSE Fail("RangeError", tok)
       [] m = <<>> -> Ok(Pad8(<<>>), <<>>)
       [] IsInt64Mag(Decr(m)) -> Ok(Complement(Pad8(Decr(m))), <<>>)
       [] OTHER -> Fail("RangeError", tok)

\* new(big.Int).SetString(s, 10): an optional sign, then digits only.
SetString10(s) ==
  LET sg == s # <<>> /\ s[1] \in {43, 45}
      ds == IF sg THEN Tail(s) ELSE s
  IN IF ds = <<>> \/ \E i \in DOMAIN ds : ds[i] \notin Digit THEN Fail("InvalidMantissa", s)
     ELSE Ok([neg |-> sg /\ s[1] = 45 /\ TrimLead(DecMag(ds)) # <<>>,
              mag |-> TrimLead(DecMag(ds))], <<>>)

\* base64 alphabets; -1 off the alphabet.
B64Val(c, url) ==
  CASE c \in 65..90 -> c - 65
    [] c \in 97..122 -> c - 71
    [] c \in Digit -> c + 4
    [] c = IF url THEN 45 ELSE 43 -> 62
    [] c = IF url THEN 95 ELSE 47 -> 63
    [] OTHER -> -1

\* Groups of up to four sextets to bytes; bits left over in a short last
\* group are dropped (the decoders are not Strict).
RECURSIVE b64Groups(_, _)
b64Groups(d, url) ==
  LET n == IF Len(d) < 4 THEN Len(d) ELSE 4
      x == FoldLeft(LAMBDA a, i : a * 64 + (IF i <= n THEN B64Val(d[i], url) ELSE 0), 0, <<1, 2, 3, 4>>)
      bs == <<x \div 65536, (x \div 256) % 256, x % 256>>
  IN IF d = <<>> THEN <<>> ELSE SubSeq(bs, 1, n - 1) \o b64Groups(Drop(d, n), url)

\* base64.StdEncoding.DecodeString (padded, url = FALSE) and
\* base64.RawURLEncoding.DecodeString (unpadded, url = TRUE); \r and \n
\* are skipped.
B64Decode(s0, url) ==
  LET s == SelectSeq(s0, LAMBDA c : c \notin {10, 13})
      pad == IF ~url /\ Len(s) >= 2 /\ s[Len(s) - 1] = 61 /\ s[Len(s)] = 61 THEN 2
             ELSE IF ~url /\ s # <<>> /\ s[Len(s)] = 61 THEN 1 ELSE 0
      d == SubSeq(s, 1, Len(s) - pad)
  IN IF (~url /\ Len(s) % 4 # 0) \/ Len(d) % 4 = 1 \/ \E i \in DOMAIN d : B64Val(d[i], url) < 0
     THEN Fail("CorruptInput", s0)
     ELSE Ok(b64Groups(d, url), <<>>)

\* hex.DecodeString: pairs of digits of either case.
HexDecode(s) ==
  IF Len(s) % 2 = 1 \/ \E i \in DOMAIN s : HexVal(s[i]) < 0 THEN Fail("InvalidHex", s)
  ELSE Ok([i \in 1..(Len(s) \div 2) |-> HexVal(s[2 * i - 1]) * 16 + HexVal(s[2 * i])], <<>>)

\* regexp.Compile, reduced to the one rule the inputs exercise: every ")"
\* closes an open "(" and every "(" is closed.
RegexpCompiles(s) ==
  LET depth(k) == Cardinality({i \in 1..k : s[i] = 40}) - Cardinality({i \in 1..k : s[i] = 41})
  IN depth(Len(s)) = 0 /\ \A k \in 1..Len(s) : depth(k) >= 0
-----------------------------------------------------------------------------
(* jsonToCBOR and tryWrapper.                                              *)

URIKey == <<36, 117, 114, 105>>                                     \* $uri
RFC3339Key == <<36, 114, 102, 99, 51, 51, 51, 57>>                  \* $rfc3339
EpochKey == <<36, 101, 112, 111, 99, 104>>                          \* $epoch

\* The keys tryWrapper looks up, in the order it looks them up.
WrapperOrder ==
  <<TagKey, RFC3339Key, EpochKey, WrapperName[4], WrapperName[5], WrapperName[21],
    WrapperName[22], WrapperName[23], WrapperName[24], URIKey, WrapperName[33],
    WrapperName[34], WrapperName[35], WrapperName[36], WrapperName[37], WrapperName[55799]>>

IsWrapper(m) == \E i \in DOMAIN WrapperOrder : WrapperOrder[i] \in DOMAIN m
FirstWrapper(m) ==
  WrapperOrder[CHOOSE i \in DOMAIN WrapperOrder :
                 WrapperOrder[i] \in DOMAIN m /\ \A j \in 1..(i - 1) : WrapperOrder[j] \notin DOMAIN m]

\* s, _ := v.(string)
StrOf(v) == IF v.t = "str" THEN v.v ELSE <<>>

HasFloatSyntax(tok) == \E i \in DOMAIN tok : tok[i] \in {46, 69, 101}

\* The json.Number case of jsonToCBOR.
IntResult(i) ==
  IF i.err # "none" THEN Assert(FALSE, "json.Number as float64 not modelled")
  ELSE {R(AppendInt64(i.val), "none")}
NumberResult(tok) ==
  IF HasFloatSyntax(tok) THEN Assert(FALSE, "json.Number as float64 not modelled")
  ELSE IntResult(Int64Of(tok))

\* numToUint64 and anyToInt64 of a decoded value (always a json.Number).
NonNegTag(i) == IF i.err = "none" /\ IsNeg(i.val) THEN Fail("NegativeTag", <<>>) ELSE i
NumToUint64(v) ==
  CASE v.t # "num" -> Fail("ExpectedNumericTag", <<>>)
    [] HasFloatSyntax(v.v) -> Assert(FALSE, "float tag not modelled")
    [] OTHER -> NonNegTag(Int64Of(v.v))
AnyToInt64(v) == IF v.t = "num" THEN Int64Of(v.v) ELSE Fail("ExpectedInteger", <<>>)

\* A wrapper whose payload is decoded first: the error, or the appended item.
Wrapped(d, A(_)) == IF d.err # "none" THEN {R(<<>>, d.err)} ELSE {R(A(d.val), "none")}

\* $decimal and $bigfloat: [exp, "mant"].
FractionAppend(tn, e, z) ==
  IF tn = tagDecimalFrac THEN AppendDecimalFraction(e, z) ELSE AppendBigfloat(e, z)
mantissaOf(z, e, tn) ==
  IF z.err # "none" THEN {R(<<>>, z.err)} ELSE {R(FractionAppend(tn, e.val, z.val), "none")}
\* Mutant: the item is appended, with a nil mantissa, before the mantissa
\* is found not to be a string.
fractionOfAppendFirst(e, mant, tn) ==
  CASE e.err # "none" -> {R(<<>>, e.err)}
    [] mant.t # "str" -> {R(FractionAppend(tn, e.val, NilBig), "MantissaNotString")}
    [] OTHER -> mantissaOf(SetString10(mant.v), e, tn)
fractionOf(e, mant, tn) ==
  CASE e.err # "none" -> {R(<<>>, e.err)}
    [] mant.t # "str" -> {R(<<>>, "MantissaNotString")}
    [] OTHER -> mantissaOf(SetString10(mant.v), e, tn)
Fraction(v, tn) ==
  IF v.t # "arr" \/ Len(v.v) # 2 THEN {R(<<>>, "ExpectsPair")}
  ELSE fractionOf(AnyToInt64(v.v[1]), v.v[2], tn)

NonEmpty(s, A(_)) == IF s = <<>> THEN {R(<<>>, "ExpectsString")} ELSE {R(A(s), "none")}

UUIDDecode(s) ==
  LET h == HexDecode(SelectSeq(s, LAMBDA c : c # 45)) IN
  IF Len(s) # 36 \/ h.err # "none" \/ Len(h.val) # 16 THEN Fail("InvalidUUID", s) ELSE h

RECURSIVE jsonToCBOR(_), arrayItems(_, _, _), objectPairs(_, _, _), tryWrapper(_), wrapperCase(_, _), tagged(_, _)

\* The set of [out, err] jsonToCBOR(nil, v) can return.
jsonToCBOR(v) ==
  CASE v.t = "null" -> {R(AppendNil, "none")}
    [] v.t = "bool" -> {R(AppendBool(v.v = TrueText), "none")}
    [] v.t = "num" -> NumberResult(v.v)
    [] v.t = "str" -> {R(AppendString(v.v), "none")}
    [] v.t = "arr" -> arrayItems(AppendArrayHeader(Len(v.v)), v.v, 1)
    [] v.t = "obj" /\ IsWrapper(v.v) -> tryWrapper(v.v)
    [] v.t = "obj" -> UNION {objectPairs(AppendMapHeader(Cardinality(DOMAIN v.v)), v.v, ks)
                             : ks \in SetToSeqs(DOMAIN v.v)}

\* The elements from the i-th on; the first error stops the loop.
arrayItems(acc, xs, i) ==
  IF i > Len(xs) THEN {R(acc, "none")}
  ELSE UNION {IF r.err # "none" THEN {R(acc \o r.out, r.err)}
              ELSE arrayItems(acc \o r.out, xs, i + 1) : r \in jsonToCBOR(xs[i])}

\* The pairs of a plain object in the range order ks.
objectPairs(acc, m, ks) ==
  IF ks = <<>> THEN {R(acc, "none")}
  ELSE LET pre == acc \o AppendString(Head(ks)) IN
       UNION {IF r.err # "none" THEN {R(pre \o r.out, r.err)}
              ELSE objectPairs(pre \o r.out, m, Tail(ks)) : r \in jsonToCBOR(m[Head(ks)])}

\* {"$tag": N, "$": x}: the tag number, then x written on its own.
tagged(n, x) ==
  IF n.err # "none" THEN {R(<<>>, n.err)}
  ELSE {IF r.err # "none" THEN R(<<>>, r.err) ELSE R(appendUintCore(majorTypeTag, n.val) \o r.out, "none")
        : r \in jsonToCBOR(x)}

\* The first wrapper key of m decides; the other keys are not looked at.
\* An error leaves b as it was.
tryWrapper(m) == wrapperCase(m, FirstWrapper(m))
wrapperCase(m, k) ==
  LET v == m[k]
      s == StrOf(v)
  IN CASE k = TagKey ->
            IF ValueKey \notin DOMAIN m THEN {R(<<>>, "MissingValueField")}
            ELSE tagged(NumToUint64(v), m[ValueKey])
       [] k \in {RFC3339Key, EpochKey} -> Assert(FALSE, "time wrappers not modelled")
       [] k = WrapperName[4] -> Fraction(v, tagDecimalFrac)
       [] k = WrapperName[5] -> Fraction(v, tagBigfloat)
       [] k = WrapperName[21] -> Wrapped(B64Decode(s, TRUE), AppendBase64URL)
       [] k = WrapperName[22] -> Wrapped(B64Decode(s, FALSE), AppendBase64)
       [] k = WrapperName[23] -> Wrapped(HexDecode(s), AppendBase16)
       [] k = WrapperName[24] -> Wrapped(B64Decode(s, FALSE), AppendEmbeddedCBOR)
       [] k = URIKey -> NonEmpty(s, AppendURI)
       [] k = WrapperName[33] -> {R(AppendBase64URLString(s), "none")}
       [] k = WrapperName[34] -> {R(AppendBase64String(s), "none")}
       [] k = WrapperName[35] -> IF s # <<>> /\ ~RegexpCompiles(s) THEN {R(<<>>, "RegexpSyntax")}
                                 ELSE NonEmpty(s, AppendRegexpString)
       [] k = WrapperName[36] -> NonEmpty(s, AppendMIMEString)
       [] k = WrapperName[37] -> Wrapped(UUIDDecode(s), AppendUUID)
       [] k = WrapperName[55799] ->
            IF v.t = "bool" /\ v.v = TrueText THEN {R(AppendSelfDescribeCBOR, "none")}
            ELSE {R(<<>>, "ExpectsTrue")}

JSONErrors == {"SyntaxError", "EOF", "RangeError", "NegativeTag", "ExpectedNumericTag",
               "ExpectedInteger", "ExpectsPair", "MantissaNotString", "InvalidMantissa",
               "CorruptInput", "InvalidHex", "InvalidUUID", "ExpectsString", "RegexpSyntax",
               "ExpectsTrue", "MissingValueField"}

\* FromJSONBytes: a decode error returns nil and the error.
FromDecoded(d) == IF d.err # "none" THEN {R(<<>>, d.err)} ELSE jsonToCBOR(d.val)
FromJSONBytes(js) == FromDecoded(parseValue(js))
=============================================================================
