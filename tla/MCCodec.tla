------------------------------ MODULE MCCodec ------------------------------
(***************************************************************************)
(* Model values for Codec.  The integer values sit on both sides of every  *)
(* header-width boundary (23/24, 255/256, 65535/65536, 2^32-1/2^32) and at *)
(* the int64 extremes; the raw items are the malformed and non-canonical   *)
(* inputs the Reader has to refuse or tolerate.                            *)
(***************************************************************************)
EXTENDS Codec

\* An int64 literal with |n| < 2^31, as 8 bytes of two's complement.
I64(n) == IF n >= 0 THEN NatToU64(n) ELSE Complement(NatToU64(-n - 1))
MaxInt64 == <<127, 255, 255, 255, 255, 255, 255, 255>>
MinInt64 == <<128, 0, 0, 0, 0, 0, 0, 0>>
TwoTo32 == <<0, 0, 0, 1, 0, 0, 0, 0>>
MaxUint32 == <<0, 0, 0, 0, 255, 255, 255, 255>>
MaxUint64 == [i \in 1..8 |-> 255]

\* The string "a" repeated n times.
As(n) == [i \in 1..n |-> 97]

MCInt64Vals == {I64(23), I64(24), I64(-24), I64(-25), I64(256), I64(65536),
                TwoTo32, MinInt64}
MCUint64Vals == {NatToU64(255), NatToU64(65535), MaxUint32, MaxUint64}
\* "", "a", 24 x "a" (first one-byte length), "é" (two-byte UTF-8).
MCTexts == {<<>>, As(1), As(24), <<195, 169>>}
MCBlobs == {<<>>, <<1, 2, 3>>}
MCCounts == {0, 2, 24}
MCSimpleVals == {16}
MCRawItems ==
  { <<152, 2>>,                          \* 98 02: array of 2, one-byte length
    <<152, 23>>,                         \* 98 17: array of 23, one-byte length
    <<131, 1, 2, 3>>,                    \* 83 01 02 03: [1, 2, 3]
    <<159, 255>>,                        \* 9f ff: empty indefinite array
    <<127, 97, 97, 255>>,                \* 7f 61 61 ff: indefinite "a"
    <<95, 65, 1, 255>>,                  \* 5f 41 01 ff: indefinite h'01'
    <<24, 5>>,                           \* 18 05: 5 with a one-byte argument
    <<59, 128, 0, 0, 0, 0, 0, 0, 0>>,    \* 3b 80..: -1-2^63, below MinInt64
    <<120, 1, 97>>,                      \* 78 01 61: "a", one-byte length
    <<97, 255>>,                         \* 61 ff: invalid UTF-8 text
    <<127, 97, 255, 255>>,               \* 7f 61 ff ff: indefinite text, invalid chunk
    <<28>> }                             \* 1c: reserved additional info
MCMaxLimits == {0, 2}
\* Simple values on both sides of the inline limit 23.
MCSimpleValsWide == {16, 32}
=============================================================================
