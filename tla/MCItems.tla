-------------------------------- MODULE MCItems -------------------------------
(* Instantiation of ItemIO for TLC: payloads of zero and one byte, a UUID, *)
(* exponents at 0, -1 and MaxInt64, and big integers at every boundary    *)
(* of appendCBORIntegerFromBigInt; Go values of every case of the type    *)
(* switch of AppendInterface, and of the shapes of the typed helpers.     *)
EXTENDS ItemIO

Z(n) == [i \in 1..n |-> 0]
FF(n) == [i \in 1..n |-> 255]
Pos(m) == [neg |-> FALSE, mag |-> m]
Neg(m) == [neg |-> TRUE, mag |-> m]

MCTexts == {<<>>, <<97>>}
MCBlobs == {<<>>, <<1>>}
MCUUIDs == {[i \in 1..16 |-> i - 1]}
\* 0, -1, MaxInt64.
MCExps == {Z(8), FF(8), <<127>> \o FF(7)}

\* 0, 255, 2^64 - 1, 2^64; -1, -256, -2^63, -(2^63 + 1), -2^64; nil.
MCBigs == {Pos(<<>>), Pos(<<255>>), Pos(FF(8)), Pos(<<1>> \o Z(8)),
           Neg(<<1>>), Neg(<<1, 0>>), Neg(<<128>> \o Z(7)),
           Neg(<<128>> \o Z(6) \o <<1>>), Neg(<<1>> \o Z(8)), NilBig}

\* Items of other encoders.
MCRawInputs ==
  { <<196, 159, 1, 2, 255>>,             \* 4([_ 1, 2])
    <<197, 159, 1, 2>>,                  \* 5([_ 1, 2 with no break
    <<196, 130, 0, 59>> \o FF(8),        \* 4([0, -2^64]) as a plain negative integer
    <<195, 66, 0, 1>>,                   \* 3(h'0001'): -2, non-minimal
    <<216, 37, 79>> \o Z(15),            \* 37(15 bytes)
    <<196, 131, 0, 0, 0>>,               \* 4([0, 0, 0])
    <<216, 33, 65, 97>>,                 \* 33(h'61'): bytes where text is due
    <<194, 95, 65, 1, 255>> }            \* 2((_ h'01'))

U8(n) == Z(7) \o <<n>>                \* a small non-negative integer as 8 bytes
V(k, v) == [k |-> k, v |-> v]
Str(s) == V("string", s)
\* A user type: receiver of MarshalCBOR, *T or T, what it appends, failure.
Struct(recv, ptr, raw, fails) == V("struct", [recv |-> recv, ptr |-> ptr, raw |-> raw, fails |-> fails])
Slice(elem, items) == V("[]", [elem |-> elem, items |-> items])
GoMap(key, elem, pairs) == V("map", [key |-> key, elem |-> elem, pairs |-> pairs])
P(k, v) == [key |-> k, val |-> v]

ValT   == Struct("value", FALSE, <<1>>, FALSE)       \* T with a value receiver
PtrT   == Struct("pointer", TRUE, <<130, 1, 2>>, FALSE) \* *T with a pointer receiver
BareT  == Struct("pointer", FALSE, <<2>>, FALSE)     \* T whose method is on *T
FailT  == Struct("value", FALSE, <<>>, TRUE)         \* MarshalCBOR fails
PlainT == Struct("none", TRUE, <<>>, FALSE)          \* *T with no MarshalCBOR

MCValues ==
  { V("nil", <<>>), V("bool", TRUE), Str(<<97>>),
    V("int8", <<255>>), V("int16", <<0, 128>>), V("int32", <<255, 255, 255, 127>>),
    V("uint16", <<0, 255>>), V("uint32", <<0, 1, 0, 0>>),     \* -1, 128, -129, 255, 65536
    V("uint64", FF(8)), V("uint", U8(24)),
    V("float32", F32(1, 127, 4194304)),                \* -1.5
    V("float64", F64(0, 1023, 4194304, 0)),            \* 1.5
    V("[]byte", <<1>>), V("json.RawMessage", <<123, 125>>),
    V("json.Number", [int |-> <<U8(5)>>, float |-> <<F64(0, 1025, 2097152, 0)>>]), \* "5"
    V("json.Number", [int |-> <<>>, float |-> <<F64(0, 1023, 4194304, 0)>>]),
    V("json.Number", [int |-> <<>>, float |-> <<>>]),
    ValT, PtrT, BareT, FailT, PlainT,
    Slice("any", <<V("int", U8(1)), V("nil", <<>>)>>),
    Slice("any", <<ValT, BareT>>),
    Slice("int8", <<V("int8", <<255>>)>>),
    Slice("string", <<Str(<<97>>), Str(<<>>)>>),
    Slice("T", <<BareT, ValT>>),
    Slice("T", <<ValT, FailT>>),
    Slice("bool", <<>>), Slice("bool", <<V("bool", FALSE)>>),
    GoMap("string", "any", <<P(<<97>>, V("uint", U8(1))), P(<<98>>, Slice("any", <<>>))>>),
    GoMap("string", "any", <<P(<<97>>, BareT)>>),
    GoMap("string", "int", <<P(<<97>>, V("int", FF(8)))>>),
    GoMap("string", "string", <<P(<<97>>, Str(<<>>)), P(<<98>>, Str(<<97>>))>>),
    GoMap("string", "bool", <<P(<<97>>, V("bool", TRUE))>>),
    GoMap("uint64", "T", <<P(U8(1), BareT), P(U8(2), ValT)>>),
    GoMap("uint64", "T", <<P(U8(1), PlainT)>>),
    GoMap("uint64", "uint64", <<P(FF(8), V("uint64", U8(0))), P(U8(0), V("uint64", FF(8)))>>),
    GoMap("int", "any", <<P(FF(8), BareT)>>),
    GoMap("int", "T", <<P(FF(8), BareT)>>),
    GoMap("bool", "string", <<P(TRUE, Str(<<97>>))>>),
    GoMap("int", "string", <<P(U8(24), Str(<<97>>)), P(FF(8), Str(<<>>))>>),  \* keys 18 18 and 20
    GoMap("string", "any", <<P(<<98>>, V("bool", FALSE)),
                            P(<<97>>, GoMap("string", "any", <<P(<<97>>, V("uint", U8(1))),
                                                            P(<<98>>, V("nil", <<>>))>>))>>) }
\* JSON texts: a plain object (two range orders, escapes), each wrapper,
\* wrappers nested in $tag and in arrays, and the error paths of the
\* payload checks, of numToUint64 and of the decoder.
MCJSONTexts ==
  {
    \* {"b":[1,true,null],"a":"<\n"}
    <<123, 34, 98, 34, 58, 91, 49, 44, 116, 114, 117, 101, 44, 110, 117, 108, 108, 93, 44, 34, 97, 34, 58, 34, 60, 92, 110, 34, 125>>,
    \* {"$tag":100,"$":{"$base64url":"AQ"}}
    <<123, 34, 36, 116, 97, 103, 34, 58, 49, 48, 48, 44, 34, 36, 34, 58, 123, 34, 36, 98, 97, 115, 101, 54, 52, 117, 114, 108, 34, 58, 34, 65, 81, 34, 125, 125>>,
    \* {"$decimal":[-2,"-18446744073709551617"]}
    <<123, 34, 36, 100, 101, 99, 105, 109, 97, 108, 34, 58, 91, 45, 50, 44, 34, 45, 49, 56, 52, 52, 54, 55, 52, 52, 48, 55, 51, 55, 48, 57, 53, 53, 49, 54, 49, 55, 34, 93, 125>>,
    \* {"$bigfloat":[1,2]}
    <<123, 34, 36, 98, 105, 103, 102, 108, 111, 97, 116, 34, 58, 91, 49, 44, 50, 93, 125>>,
    \* [1,{"$uri":""}]
    <<91, 49, 44, 123, 34, 36, 117, 114, 105, 34, 58, 34, 34, 125, 93>>,
    \* {"$base16":"0A"}
    <<123, 34, 36, 98, 97, 115, 101, 49, 54, 34, 58, 34, 48, 65, 34, 125>>,
    \* {"$uuid":"00112233-4455-6677-8899-aabbccddeeff"}
    <<123, 34, 36, 117, 117, 105, 100, 34, 58, 34, 48, 48, 49, 49, 50, 50, 51, 51, 45, 52, 52, 53, 53, 45, 54, 54, 55, 55, 45, 56, 56, 57, 57, 45, 97, 97, 98, 98, 99, 99, 100, 100, 101, 101, 102, 102, 34, 125>>,
    \* {"$base64":"+/8="}
    <<123, 34, 36, 98, 97, 115, 101, 54, 52, 34, 58, 34, 43, 47, 56, 61, 34, 125>>,
    \* {"$regex":"(a)"}
    <<123, 34, 36, 114, 101, 103, 101, 120, 34, 58, 34, 40, 97, 41, 34, 125>>,
    \* [{"$selfdescribe":true},-9223372036854775808]
    <<91, 123, 34, 36, 115, 101, 108, 102, 100, 101, 115, 99, 114, 105, 98, 101, 34, 58, 116, 114, 117, 101, 125, 44, 45, 57, 50, 50, 51, 51, 55, 50, 48, 51, 54, 56, 53, 52, 55, 55, 53, 56, 48, 56, 93>>,
    \* {"$base64urlstr":5}
    <<123, 34, 36, 98, 97, 115, 101, 54, 52, 117, 114, 108, 115, 116, 114, 34, 58, 53, 125>>,
    \* {"$tag":-1,"$":0}
    <<123, 34, 36, 116, 97, 103, 34, 58, 45, 49, 44, 34, 36, 34, 58, 48, 125>>,
    \* {"$mime":"t","$uri":"x"}
    <<123, 34, 36, 109, 105, 109, 101, 34, 58, 34, 116, 34, 44, 34, 36, 117, 114, 105, 34, 58, 34, 120, 34, 125>>,
    \* {"a":{"$uri":"x"},"b":{"$regex":")"}}
    <<123, 34, 97, 34, 58, 123, 34, 36, 117, 114, 105, 34, 58, 34, 120, 34, 125, 44, 34, 98, 34, 58, 123, 34, 36, 114, 101, 103, 101, 120, 34, 58, 34, 41, 34, 125, 125>>,
    \* [1,
    <<91, 49, 44>>,
    \* {"$cbor":"oQ=="}
    <<123, 34, 36, 99, 98, 111, 114, 34, 58, 34, 111, 81, 61, 61, 34, 125>> }

\* JSON texts that use the wrapper table of spec 4.7.
MCLawTexts ==
  {
    \* {"$base16":"0A"}
    <<123, 34, 36, 98, 97, 115, 101, 49, 54, 34, 58, 34, 48, 65, 34, 125>>,
    \* {"$tag":9223372036854775808,"$":1}
    <<123, 34, 36, 116, 97, 103, 34, 58, 57, 50, 50, 51, 51, 55, 50, 48, 51, 54, 56, 53, 52, 55, 55, 53, 56, 48, 56, 44, 34, 36, 34, 58, 49, 125>>,
    \* {"$uri":"x","a":1}
    <<123, 34, 36, 117, 114, 105, 34, 58, 34, 120, 34, 44, 34, 97, 34, 58, 49, 125>>,
    \* {"$base64":"QR=="}
    <<123, 34, 36, 98, 97, 115, 101, 54, 52, 34, 58, 34, 81, 82, 61, 61, 34, 125>>,
    \* {"$uuid":"00112233-4455-6677-8899-aabbccddeeff"}
    <<123, 34, 36, 117, 117, 105, 100, 34, 58, 34, 48, 48, 49, 49, 50, 50, 51, 51, 45, 52, 52, 53, 53, 45, 54, 54, 55, 55, 45, 56, 56, 57, 57, 45, 97, 97, 98, 98, 99, 99, 100, 100, 101, 101, 102, 102, 34, 125>>,
    \* {"$tag":100,"$":[1,{"$uri":"y"}]}
    <<123, 34, 36, 116, 97, 103, 34, 58, 49, 48, 48, 44, 34, 36, 34, 58, 91, 49, 44, 123, 34, 36, 117, 114, 105, 34, 58, 34, 121, 34, 125, 93, 125>> }

MCNone == {}
=============================================================================
