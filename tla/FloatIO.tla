------------------------------- MODULE FloatIO -------------------------------
(***************************************************************************)
(* A caller writes one float64 value with one of the float appenders and  *)
(* reads the bytes back with one of the stateless float readers.  The     *)
(* float32 appenders are given float32(arg), as a Go caller converts.     *)
(* The reader is a stateless ReadFloatXBytes, or a Reader over the bytes  *)
(* (NewReaderBytes), set strict or not, calling ReadFloat32/ReadFloat64.  *)
(***************************************************************************)
EXTENDS Float

CONSTANT Args   \* float64 values the caller may write

VARIABLES arg, writer, out, reader, got,
          strict   \* the Reader's strict flag

vars == <<arg, writer, out, reader, got, strict>>

Writers == {"canonical", "float", "f64", "f32", "f16"}
Readers == {"f16", "f32", "f64", "Reader.ReadFloat32", "Reader.ReadFloat64"}

Init ==
  /\ arg \in Args
  /\ writer = "none" /\ out = <<>>
  /\ reader = "none" /\ got = Fail("unread", <<>>)
  /\ strict = FALSE

Write(w, bytes) ==
  /\ writer = "none"
  /\ writer' = w /\ out' = bytes
  /\ UNCHANGED <<arg, reader, got, strict>>

WriteFloatCanonical == Write("canonical", AppendFloatCanonical(arg))
WriteFloat          == Write("float", AppendFloat(arg))
WriteFloat64        == Write("f64", AppendFloat64(arg))
WriteFloat32        == Write("f32", AppendFloat32(ToF32(arg)))
WriteFloat16        == Write("f16", AppendFloat16(ToF32(arg)))

\* A reader's result, its value widened to float64.
Widened(r, k) ==
  IF r.err # "none" \/ k \in {"f64", "Reader.ReadFloat64"} THEN r ELSE [r EXCEPT !.val = ToF64(r.val)]

Read(k, r) ==
  /\ writer # "none" /\ reader = "none"
  /\ reader' = k /\ got' = Widened(r, k)
  /\ UNCHANGED <<arg, writer, out, strict>>

ReadFloat16 == Read("f16", ReadFloat16Bytes(out))
ReadFloat32 == Read("f32", ReadFloat32Bytes(out))
ReadFloat64 == Read("f64", ReadFloat64Bytes(out))

\* SetStrictDecode on the Reader before its first read.
SetStrictDecode ==
  /\ writer # "none" /\ reader = "none" /\ ~strict
  /\ strict' = TRUE
  /\ UNCHANGED <<arg, writer, out, reader, got>>

ReaderFloat32 == Read("Reader.ReadFloat32", ReaderReadFloat32(out, strict))
ReaderFloat64 == Read("Reader.ReadFloat64", ReaderReadFloat64(out, strict))

Next ==
  \/ WriteFloatCanonical \/ WriteFloat \/ WriteFloat64 \/ WriteFloat32 \/ WriteFloat16
  \/ ReadFloat16 \/ ReadFloat32 \/ ReadFloat64
  \/ SetStrictDecode \/ ReaderFloat32 \/ ReaderFloat64

Spec == Init /\ [][Next]_vars
-----------------------------------------------------------------------------
(* Properties *)

TypeOK ==
  /\ arg \in Args
  /\ writer \in Writers \cup {"none"} /\ out \in Seq(0..255)
  /\ reader \in Readers \cup {"none"} /\ strict \in BOOLEAN
  /\ got.err = "none" => got.val \in [sign : 0..1, exp : 0..2047, hi : 0..(Pow2[23] - 1),
                                       lo : 0..(Pow2[29] - 1)]

\* The low k bits of the 52-bit mantissa are zero.
LowZero(f, k) ==
  IF k <= 29 THEN f.lo % Pow2[k] = 0 ELSE f.lo = 0 /\ f.hi % Pow2[k - 29] = 0

IsInf64(f) == f.exp = 2047 /\ f.hi = 0 /\ f.lo = 0

\* Exactly representable in binary16 (normal or subnormal) or binary32,
\* computed from the float64 fields alone.
FitsHalf(f) ==
  \/ IsZero64(f) \/ IsInf64(f)
  \/ /\ f.exp \in 1..2046
     /\ LET e == f.exp - 1023 IN
        \/ e \in -14..15 /\ LowZero(f, 42)
        \/ e \in -24..-15 /\ LowZero(f, 52 - (e + 24))

SameValue(a, b) == F64Eq(a, b) \/ (IsNaN64(a) /\ IsNaN64(b))

\* AppendFloatCanonical and AppendFloat never change a value: whichever
\* width they pick, reading that width back gives a float equal to the
\* argument (NaN stays NaN) and consumes the whole item.
ValuePreserved ==
  writer \in {"canonical", "float"} /\ got.err = "none" =>
    SameValue(got.val, arg) /\ got.rest = <<>>

\* Spec 8.1 for the fixed widths: AppendFloat64 then ReadFloat64Bytes gives
\* back the same 64 bits, and AppendFloat32 then ReadFloat32Bytes the same
\* float32, NaN payloads included.
FixedWidthRoundTrip ==
  /\ writer = "f64" /\ reader = "f64" => got.err = "none" /\ got.val = arg /\ got.rest = <<>>
  /\ writer = "f32" /\ reader = "f32" =>
       got.err = "none" /\ got.val = ToF64(ToF32(arg)) /\ got.rest = <<>>

\* The value the appender was called with, as a float64.
Given == IF writer \in {"f32", "f16"} THEN ToF64(ToF32(arg)) ELSE arg

Strict == strict /\ reader \in {"Reader.ReadFloat32", "Reader.ReadFloat64"}

\* Spec 4.6, strict mode: a strict Reader.ReadFloat32/ReadFloat64 succeeds
\* only on the bytes AppendFloatCanonical writes for the appender's value,
\* whichever appender wrote them, returns that value and empties the
\* buffer; on failure r.buf is left where it was.
StrictAcceptsOnlyCanonical ==
  /\ Strict /\ got.err = "none" =>
       out = AppendFloatCanonical(Given) /\ SameValue(got.val, Given) /\ got.rest = <<>>
  /\ reader # "none" /\ got.err # "none" => got.rest = out
=============================================================================
