# TLA+ models of cbor-go

This directory holds TLA+ models of the cbor-go runtime (`src/runtime`, `src/unnamed/part_013`) and
of its code generator (`src/cborgen`) together with the code it emits. Each module is translated from the Go source. `PROJECT.json`
maps every modelling definition to the lines it stands for and lists the runs, mutants, findings and
hazards.

## The system

cbor-go is a CBOR (RFC 8949) library. It is single-threaded except for two shared objects: the
process-wide flags in `defs.go` and the `sync.Pool` of byte buffers. It has these parts:

| part | source | state | operations |
|---|---|---|---|
| wire layout | `runtime/defs.go` | none | `makeByte`, `getMajorType`, `getAddInfo` |
| appenders | `runtime/read_bytes.go` 1562-2500 | the caller's `[]byte` | `appendUintCore`, `AppendInt64`, `AppendString`, headers, floats, tags |
| stateless readers | `runtime/read_bytes.go` 1-1560 | none (slice in, slice out) | `readUintCore`, `ReadXxxBytes` |
| walkers | `read_bytes.go` `skip`, `helpers.go` `validateWellFormed` | none | structural walk, recursion limit |
| Reader | `unnamed/part_013` | `buf`, `strict`, `deterministic`, `maxContainer` | setters, `ReadXxx`, `Skip` |
| deterministic maps | `read_bytes.go` 2449-2630 | none | bucket by key length, comparator or radix sort |
| no-dup / ordered maps, sequences | `read_bytes.go` 1109-1292 | none | use `Skip` to delimit raw keys |
| float canonicalisation | `read_bytes.go` 1655-1690, 2038-2100, 1295-1325 | none | f64 to f32 to f16 narrowing |
| Number | `runtime/number.go` | `bits`, `typ` | marshal, unmarshal, coercions |
| ByteBuffer pool, Writer | `runtime/bytebufferpool.go`, `runtime/writer.go` | pool, buffer | Get/Put, Ensure, WriteXxx |
| JSON interop, diagnostics | `json_*.go`, `helpers.go` | none | text conversions |
| generator | `cborgen/main.go`, `cborgen/templates`, `unnamed/part_011` | `generatedStructs` (global), the current file's `structs` | directory walk, field-spec resolution, template selection, writing each output file |

The parts interact in two ways:
- The Reader calls the stateless readers, adding mode checks before them.
- The walkers delimit items for every higher-level reader.
- The appenders are the encoders whose output all of the above must accept.
- The generator emits `MarshalCBOR`, `DecodeSafe` and `DecodeTrusted` methods that call the
  appenders and stateless readers; which template a field gets depends on the global
  `generatedStructs`, which the walk fills as it goes.
- `ToJSONBytes` and `DiagBytes` read items with the stateless readers and write text into
  `ByteBuffer`s taken from the shared `sync.Pool`; concurrent calls share that pool.

## Modules

The modules are listed most important first.

1. **Wire** (pure operators). It holds the byte layout, the appenders of integers, strings, headers,
   bool, nil, break and simple values, and the stateless readers the Reader uses.
   - A `uint64` or `int64` is kept as 8 big-endian bytes. This keeps the 64-bit edges exact despite
     TLC's 32-bit integers:
     - `u <= MaxUint32` is a test on leading zero bytes.
     - `i < 0` tests the sign bit.
     - `-1 - i` is the bytewise complement.
   - Lengths become integers only through `SatNat`. It saturates at 2^24, above every buffer and limit
     of the models.
   - A reader returns `[err, val, rest]`, standing for the Go `(value, remainder, error)`.
   - The narrowing readers (`ReadInt32Bytes` .. `ReadInt8Bytes`, `ReadUint32Bytes` ..
     `ReadUint8Bytes`, and `ReadIntBytes`, `ReadUintBytes`, `ReadDurationBytes`) are
     `ReadIntNBytes`/`ReadUintNBytes`. They read 64 bits, then check the range as sign extension
     of the low bytes or leading zero bytes, and return the low n bytes. `int` and `uint` are taken
     as 64 bits wide.
   - `isUTF8Valid` follows `utf8.Valid`: each byte is ASCII or starts a 2-, 3- or 4-byte sequence. It
     has the E0/ED/F0/F4 second-byte ranges.
2. **Walk** (`EXTENDS Wire`). It holds `skip` and `validateWellFormed` as RECURSIVE operators, one
   branch per case of the Go switch.
   - Each loop over a container or chunk list is a recursion.
   - An error result carries the buffer the Go function returns. For a tag, this is the inner walk's
     own buffer, as in the code.
3. **Codec** (`EXTENDS Walk`). It models a caller that encodes and then decodes with the Reader.
   - **Write phase.** Each `WriteXxx` action calls one appender and records a token `[kind, val, enc]`
     in `log`. `RawMarshalCBOR` appends caller-supplied bytes verbatim. This is how non-canonical and
     malformed items reach the reader.
   - **Read phase.** `NewReaderBytes` builds a Reader over the concatenated bytes. The three setters,
     and every Reader method except the float readers, are then actions.
   - Each method action is the whole Go method. Its guards are the length check, the strict check
     (`isNonCanonicalLength`), the deterministic check, the stateless reader, and the container limit,
     in the code's order.
   - `buf` advances only on success, as every method assigns `r.buf` last.
   - `last` is a ghost variable holding the latest method's name and result. It is cleared by the
     setters.
4. **MCCodec** binds the constants for TLC.
5. **DetMap** (`EXTENDS Wire`). It models `AppendRawMapDeterministic` as a step machine over one call.
   - The variables are the steps' locals:
     - `pairs` is the argument;
     - `lens` holds the bucket lengths still to take;
     - `order` holds the output order built so far;
     - `cur` and `pos` are the radix loop's state;
     - `out` is the returned buffer.
   - `Start` buckets the pairs and sorts the lengths.
   - Each bucket takes one of three actions:
     - `SingletonGroup` for a bucket of at most one pair;
     - `ComparatorGroup` for `sort.Slice` with `bytes.Compare`;
     - `StartRadix` followed by `RadixPass` steps, one per byte position from last to first, then
       `RadixDone`.
   - `CountingPass` is the Go placement loop: exclusive prefix sums over the byte values, then each
     index placed, in the order of `cur`, at its byte's next free slot.
   - `sort.Slice` is modelled by its documented contract: any arrangement sorted by the comparator,
     not necessarily stable.
   - `AppendMapStrStrDeterministic` is an operator. It is compared with the raw encoder on string
     maps.
   - The thresholds `64` and `1024` are the constants `RadixMinLen` and `RadixMinGroup`.
6. (DetMap has no MC module of its own: MCMapIO instantiates it through MapIO.)

7. **SeqMaps** (`EXTENDS Walk`). It holds these readers and helpers as operators, each translated
   loop by loop:
   - `ReadMapNoDupBytes`, where `seen` is the set of raw keys;
   - `ReadOrderedMapBytes`;
   - `ForEachSequenceBytes`, whose callback fails on a chosen call;
   - `SplitSequenceBytes` and `AppendSequence`.

   Every key and value is delimited with `Skip`, as in the code.
8. **MapIO** (`EXTENDS SeqMaps`, `INSTANCE DetMap`). It connects a writer to a reader.
   - The writer is either the DetMap step machine, or the indefinite-length appenders
     (`AppendMapHeaderIndefinite`, the pairs in input order, `AppendBreak`).
   - `Deliver` hands the reader any prefix of the bytes written, which models an input cut short.
   - `DeliverSequence` hands it two copies, a CBOR sequence of two maps.
   - The readers are evaluated on what was delivered.
9. **MCMapIO** binds the constants. It sets the radix thresholds to 2 and 3, so keys of two or
   more bytes take the radix path, and so do buckets of three pairs. The text keys are `"a"`,
   `"b"`, `"aa"`, and 23 and 24 times `"a"` (the last one-byte text header and the first
   two-byte one); the other keys are `-1`, `24` and `1`; there are up to three pairs.

10. **Float** (`EXTENDS Wire`). It models the float appenders and stateless readers at the bit
    level.
    - A float32 is `[sign, exp, mant]`. A float64 is `[sign, exp, hi, lo]`: the 52-bit mantissa is
      split into its top 23 bits and its low 29 bits, so every field fits TLC's integers.
    - Go's `float32(f)` is `ToF32`, round to nearest even, including subnormal results. `float64(f)`
      is `ToF64`, which is exact. `==` on floats is `F64Eq`: NaN is unequal to everything, and -0
      equals +0.
    - `float32ToFloat16Bits` and `float16BitsToFloat32` are translated branch by branch, including
      the subnormal shift `14 - e32`.
    - `AppendFloat16/32/64`, `AppendFloat`, `AppendFloatCanonical` and `ReadFloat16/32/64Bytes` build
      and parse the big-endian bit patterns.
11. **FloatIO** (`EXTENDS Float`). A caller writes one float64 with one of the five appenders and reads
    the bytes with one of five readers: the three stateless `ReadFloatXBytes`, or a Reader over the
    bytes calling `ReadFloat32` or `ReadFloat64`, after an optional `SetStrictDecode(true)`. The
    float32 and float16 appenders get `float32(arg)`, as a Go caller must convert. The Reader methods
    (`ReaderReadFloat32/64` in Float) are the stateless read, then in strict mode the comparison of
    the bytes read with `AppendFloatCanonical` of the value. `r.buf` advances only on success.
12. **MCFloatIO** binds `Args`. These are every half mantissa (0..1023) at the half exponents where
    the conversions change branch or bias: 0 (subnormal), 1 and 30 (the normal edges), 14 and 15
    (around 1.0) and 31 (Inf and NaN). Both signs are used at exponents 0 and 31. Float32 and float64
    edge values are added: 1+2^-23, 1+2^-24, 1+2^-52, 65520, 2^-149, 2^-25, 1/3, 2^200 and -2^-1074.

13. **Number** (`EXTENDS Float`). It models one `Number` (`number.go`): its kind `typ` and its raw
    64 bits `bits`, kept as 8 bytes.
    - The actions are the setters `AsInt`, `AsUint`, `AsFloat32` and `AsFloat64`, plus `Marshal` and
      `Unmarshal`. `Unmarshal` takes the buffer `MarshalCBOR` returned, or one of a few other buffers.
      `UnmarshalCBOR` dispatches on `NextType`/`getType` (`helpers.go`), as the code does, and leaves
      the Number unchanged on error.
    - `isExactInt`, `CoerceInt` and `CoerceUInt` are operators over the bits. Go's `int64(f)` and
      `uint64(f)` of a float outside the target range are implementation-defined. A coercion is
      therefore the set of its possible results: amd64 gives the "integer indefinite" value, arm64
      saturates.
14. **MCNumber** sets the values:
    - integers at the inline-header and int64 edges;
    - floats at the coercion edges: ±0, x.5 one bit below the binary point, 2^23+1 and 2^52+1, the
      largest floats below 2^63 and 2^64, ±2^63, 2^64, Inf, NaN and subnormals;
    - raw inputs: a half, a text string, `true`, a short header and an int64 overflow.
15. **Tags** (`EXTENDS Walk`). It models the semantic-tag appenders and readers of `read_bytes.go`
    as operators, each under its Go name:
    - `AppendTag` and the tagged string, byte, UUID and self-describe appenders;
    - `ReadTagBytes` and the nine readers of the form "tag, compare, then `ReadStringBytes` or
      `ReadBytesBytes`" (the shared shape is `TagChecked`, then `TaggedText` or `TaggedBytes`);
    - `ReadUUIDBytes`, `StripSelfDescribeCBOR` and `ReadBigIntBytes`;
    - `readCBORIntegerAsBigInt` and `ReadDecimalFractionBytes`/`ReadBigfloatBytes`, both array
      forms included;
    - `AppendBigInt`, `appendCBORIntegerFromBigInt`, `AppendDecimalFraction` and `AppendBigfloat`.

    A `*big.Int` is a record holding its sign and `z.Bytes()`, the minimal big-endian magnitude. The
    library's `Add`, `Sub`, `SetBytes` and `BitLen` are translated onto it as `Incr`, `Decr`,
    `TrimLead` and the `BitLenAtMost` tests. The record "negative zero", which `big.Int` cannot
    hold, stands for the nil pointer.
16. **Dynamic** (`EXTENDS Float, Walk`). This models `AppendInterface` and the typed helpers
    beside it (`read_bytes.go` 2103-2447). A Go value is a record `[k, v]`: `k` names its
    dynamic type, covering every case of the type switch, typed slices and maps, `[]any`,
    `map[string]any`, other slices and maps, and user structs. A struct's `v` gives the receiver of
    its `MarshalCBOR` (value, pointer or none), whether it is held as `*T`, what the method appends,
    and whether it fails. Ranging over a Go map visits pairs in an arbitrary order, so each encoder
    returns the set of `[out, err]` results it can produce. On an error, `out` is what was appended
    before the error, as the code returns it. The reflection paths look up a Marshaler on the
    element or on a pointer to it, as the code does. For a slice element the address is taken. For
    a map value a new pointer of the map's element type is allocated, so it finds a pointer
    receiver only when that type is the struct itself, not `any`. The helpers `AppendMapStrStr`,
    `AppendStringSlice`, `AppendMapUint64Uint64`, `AppendPtrMarshaler`, `AppendSliceMarshaler` and
    `AppendMapUint64Marshaler` are translated separately from their own code.
17. **DetDynamic** (`EXTENDS Dynamic`). This models the deterministic encoders of Go maps
    (`read_bytes.go` 2470-2694):
    - `AppendMapStrInterfaceDeterministic`, which sorts keys by `bytes.Compare` of their text
      encodings;
    - the generic `AppendMapDeterministic`, with the `EncKey*` and `EncVal*` encoders and the
      `AppendMapDeterministicStr*` wrappers.

    The bucketed comparator/radix sort of `AppendMapDeterministic` is the same code as
    `AppendRawMapDeterministic`. DetMap models that code step by step, and mapio_core shows it
    yields the length-first order, so DetDynamic uses that order directly.
18. **ItemIO** (`EXTENDS Tags, DetDynamic, FromJSON`). A caller optionally writes the self-describe tag, then one
    tagged item with one of the tag appenders, a Go value with `AppendInterface`, or a value with
    the typed helper that fits its shape, or a map with a deterministic encoder, or a JSON text
    with `FromJSONBytes` (`WriteFromJSON`). The bytes are delivered whole or cut at any length, or the
    reader is given an item from another encoder. The properties apply every tag reader to what
    was delivered.
    It also holds a reference decoder from definite-length CBOR to the data model (maps as a
    count and a set of pairs) and `Erase`, the data-model value a Go value stands for.
19. **MCItems** sets the values:
    - payloads of zero and one byte, and one UUID;
    - exponents 0, -1 and MaxInt64;
    - big integers 0, 255, 2^64-1, 2^64, -1, -256, -2^63, -(2^63+1) and -2^64, plus nil. These sit
      on both sides of the uint64 and int64 limits of `appendCBORIntegerFromBigInt`, and make the
      borrow and carry in `Decr`/`Incr` cross byte boundaries;
    - eight foreign items:
      - an indefinite fraction, with and without its break;
      - a plain mantissa of -2^64;
      - a non-minimal bignum;
      - a 15-byte UUID;
      - a three-element fraction;
      - bytes under a text tag;
      - an indefinite bignum payload;
    - 41 Go values:
      - one of each scalar case, including float32 -1.5 and float64 1.5, and integers on both
        sides of the narrow ranges: `int8(-1)`, `int16(128)`, `int32(-129)`, `uint16(255)`,
        `uint32(65536)`, `uint(24)` and `uint64` max;
      - three `json.Number` outcomes: an int, a float only, and neither;
      - five structs: value receiver; `*T` with pointer receiver; `T` whose method is on `*T`; a
        failing marshaler; `*T` with no method;
      - `[]any` with a nil and with a `T` that is not a Marshaler, `[]int8`, `[]string`, `[]T` that
        needs the pointer fallback, `[]T` with a failing element, and empty and non-empty `[]bool`;
      - two-pair `map[string]any`, `map[string]string` and `map[uint64]uint64`, so both range orders
        occur, and `map[string]int`, `map[string]bool`, `map[uint64]T` (with and without a
        Marshaler), `map[int]any`, `map[int]T` and `map[bool]string`;
      - `map[int]string` with keys 24 and -1, whose encodings (`18 18`, `20`) are in different
        orders under bytewise and length-first comparison;
      - a `map[string]any` holding a two-pair `map[string]any`.

20. **Diag** (`EXTENDS Tags`). `DiagBytes` and `diagOneBuf` (`helpers.go` 111-314) as RECURSIVE
    operators returning the text as bytes. `strconv.FormatUint`/`FormatInt` of 8-byte values are
    long division by ten (`DivTen`, `Decimal`), so 64-bit values stay exact. `n := int64(-1) -
    int64(u)` is `NegIntArg`, the 64-bit complement, which wraps as the code does for u >= 2^63.
    `Codec` extends Diag to check it against `validateWellFormed`.
21. **JSON** (`EXTENDS Diag`). `toJSON`'s control depends only on the input bytes, so it is
    modelled as the program it runs: `toJSON(b, depth, l)` returns the sequence of buffer
    operations (`Get`, `Put`, `W` for `WriteString`/`Write`/`Extend`, `Cat` for
    `buf.Write(vbuf.Bytes())`, `Out` for `DiagBytes`'s copy, `WriteOut` for the JSON key written
    from that copy) on buffer levels: level 1 is `ToJSONBytes`'s `bb`, level l + 1 the `vbuf` of a
    generic tag or the `bb` of a `DiagBytes` call made at level l. `ToJSONBytes` wraps it in
    `Get(1)`, the copy out and the deferred `Put(1)`. A definite map whose pairs run out returns
    the error `"panic"` (line 176 reads `p[0]` unchecked). `Exec` is the sequential meaning of a
    program.
22. **JSONCalls** (`EXTENDS JSON`). The abstract specification of `ToJSONBytes`: goroutines call
    it, and each call atomically returns `Exec` of its own program, as if it ran alone.
23. **JSONPool** (`EXTENDS JSON, Bags`). Goroutines in `Procs` run `ToJSONBytes` programs one
    buffer operation per step over a shared `sync.Pool`:
    - `pool` is a bag of buffer names (nothing stops a double `Put`); `content` the bytes of each
      buffer; `loc[p][l]` the buffer the goroutine's level-l variable points to (it keeps pointing
      there after `PutByteBuffer`); `held[p]` the buffers taken and not yet put back.
    - `GetPooled` and `GetNew` are the two outcomes of `bbPool.Get` (any pooled buffer, or `New`'s
      fresh one, here a name no one can reach); both reset it, as `GetByteBuffer` does.
      `PutBuffer` resets and pools. `GCDrop` is the collector clearing a pooled buffer.
    - `Return` gives the copied-out text on success, the error and `b` otherwise.
    - `Abs == INSTANCE JSONCalls` maps `arg` and `result` to themselves, so the buffers are the
      hidden implementation state.
24. **MCJSONPool** binds two inputs: `c6 a1 01 02` (`6({1: 2})`, three levels: the call's buffer,
    the tag's `vbuf`, the `DiagBytes` buffer of the integer key) and `c6` (a tag whose value is
    missing: the error path that puts the `vbuf` back). `MCTruncatedInputs` is `a2 61 61 01`.

25. **FromJSON** (`EXTENDS JSON, Dynamic`). `FromJSONBytes` (`json_from.go`):
    - `parseValue` stands for `json.Decoder.Decode` with `UseNumber`: a recursive parser over the
      text's bytes giving a tree `JV(t, v)` (null, bool, number token, string, array, object). An
      object is a function from keys to values, so a repeated key keeps its last value as Go's
      decoder does. Trailing input after the first value is ignored, as one `Decode` call does.
    - `jsonToCBOR` has one arm per case of the type switch. The object arm calls `tryWrapper`, and
      `wrapperCase` tests the wrapper keys in the code's order (`WrapperOrder`), so the first one
      present wins and other keys are dropped. A plain object ranges over every order of its keys
      (`SetToSeqs`), so the result is a set of `[out, err]`, with `out` what was appended before an
      error.
    - `numToUint64` and `anyToInt64` parse the token with `json.Number.Int64` onto 8 bytes
      (`Int64Of`: a range error past int64); `big.Int.SetString(s, 10)` is `SetString10`;
      `base64` (`B64Decode`, std or raw URL, non-strict, `\r\n` stripped) and `hex.DecodeString`
      are decoders over the bytes.
    - Abstracted: `regexp.Compile` is parenthesis balance; number tokens with `.`, `e` or `E`,
      `$rfc3339`, `$epoch` and `\u` escapes above U+007F are outside the model, and TLC stops with
      an assertion if an input reaches them.

26. **GenStruct**. The generator's control: `runForDir` walks a tree (`Trees`, a constant set of
    entry sequences); `Run` parses a file (`ParseError` ends the walk); `generateStructCode` loops
    over declarations (`NextDecl`), type specs (`SkipSpec` for non-structs and the `-s` allowlist,
    `GenerateStruct`), then writes the file (`WriteOutput`) or fails to (`WriteError`).
    - A Go type expression is a record by its AST node (`Id`, `Star`, `SliceOf`, `MapOf`, `Sel`).
      A tag is what `StructTag.Get` returns for `cbor` and `json`, split at commas.
    - `genFields` is the field loop: only `Names[0]`, unexported and `"-"` fields skipped,
      `NonOmitCount`, and the template choices `encodeBlockForField`, `encodeExprForField`,
      `decodeCaseExprSafe` and `decodeCaseExprTrusted(x, gen)`, which reads `generatedStructs`
      as it is at that moment.
    - Generated strings are abstracted to the template and the variable type they name.
      `omitEmptyCondExpr` asks for the template `"omitEmptyCond"`, which `zero_check.go.tpl`
      does not define, so it always fails (see the findings).
27. **GenCode** (`EXTENDS GenStruct, Dynamic`). What the emitted methods do at run time, per
    template:
    - `MarshalStruct` writes the map header (`HeaderCount`) and each field's tasks: the key, then
      the encode block's loop, the encode expression, or `AppendInterface`. A map block gives one
      output per range order.
    - `DecodeStruct` is the entry loop: read a key (Safe: `ReadStringBytes`, Trusted:
      `ReadStringZC`), switch to the first field with that name or `Skip` the value, and on any
      error return `b`. `decodeField` has one arm per `decode_case` template.
    - The decoders are in continuation style: each intermediate result is passed once as an
      argument to the step that continues the loop (the `if err != nil { return b, err }` at
      its head). A `LET` bound result used several times would be expanded at every use by
      TLC's coverage, exponentially through the recursion.
    - `marshal.go.tpl`, which holds the method bodies around the templates, is not in the
      repository. `MarshalStruct`, `runFields`, `HeaderCount`, `DecodeStruct`, `decodeEntries`
      and `ReadKey` are therefore modelled from spec 4.8 (marked `spec_modelled`). They assume
      `UnmarshalCBOR` is `DecodeSafe`, that absent fields are left as they are, and the key reads
      above.
28. **MCGen** (`EXTENDS GenCode`). It runs the generator on one of two trees, then lets a caller
    marshal a value of a generated struct (`Marshal`), take a fresh target (`NewTarget`) and decode
    the bytes, or the bytes plus one byte, with either method (`Decode`).
    - The trees hold a directory, a `.go` file of package `p` with `Outer`, a non-struct alias, a
      function, and `Leaf`, `Empty` and `Holder`; a `_test.go` file; and a file with `Wrap`. The
      second tree has an unparsable file before `Wrap`'s.
    - `Outer` has a string, a forward-declared `Leaf` field, `*Leaf` with omitempty, a
      `map[uint64]uint64` named by its json tag, a `[]string` with omitempty, a
      `json.RawMessage`, a `cbor:"-"` field and an unexported one. `Wrap` has `Leaf`, `[]*Leaf`,
      `map[string]*Leaf` and `map[uint64]*Leaf`.
    - Values (`Vals`): one value per scalar, nil or one struct per pointer, slices and maps of
      at most one element (two keys for the `uint64` map).

## Runs

| run | cfg | expect | what it shows |
|---|---|---|---|
| codec_core | `MCCodec.cfg` | pass | see below |
| codec_reader_contract | `MCCodec_ReaderContract.cfg` | violation | `ReaderContract`: at every position the Reader reaches, `Skip` steps over what `ValidateWellFormedBytes` accepts, and every read honours the strict flag and the container limit. TLC finds `f8 20` (written by `AppendSimpleValue(32)`), which `Skip` rejects; `ReadArrayStart` ignoring strict mode and the limit, and `ReadString` ignoring the limit, are further findings of the same property |
| mapio_core | `MCMapIO.cfg` | pass | see below |
| float_core | `MCFloatIO.cfg` | pass | see below |
| number_core | `MCNumber.cfg` | pass | see below |
| number_coerce_exact | `MCNumber_CoerceExact.cfg` | violation | `CoerceExact` (spec 4.9): a coercion that reports success returns the Number's value. TLC sets a float32 Number to 2^63 with `AsFloat32`; `float64(MaxInt64)` is 2^63, so the range test `f > math.MaxInt64` (`number.go:143`) lets it through and `int64(f)` is out of range |
| items_core | `MCItems.cfg` | pass | see below |
| json_pool | `MCJSONPool.cfg` | pass | see below |
| json_truncated_map | `MCJSONPool_TruncatedMap.cfg` | violation | `ToJSONBytes(a2 61 61 01)`, a map announcing two pairs and holding one, panics (index out of range at `json_interop.go:176`) instead of returning ErrShortBytes |
| gen_core | `MCGen.cfg` | pass | see below |
| gen_contract | `MCGen_Contract.cfg` | violation | `GeneratedCodeContract` (spec 4.8, seed 5): an omitempty field at its zero value is not written, and decoding `MarshalCBOR`'s output into a fresh value gives the value back. TLC finds `Outer{Tags: nil}` written with its `"t"` entry (omitempty is never honoured); with that fixed in a copy, `P: nil` is written as null and then rejected by both decoders; with nil pointers left out, a `json.RawMessage` is written and dropped on decode |
| json_round_trip_law | `MCItemsJSONLaw.cfg` | violation | `JSONRoundTripLaw` (spec 4.7): JSON using the wrapper table comes back unchanged through `FromJSONBytes` then `ToJSONBytes`. It fails for `{"$base16":"0A"}` (written back lowercase), `{"$base64":"QR=="}` (spare bits dropped), `{"$uri":"x","a":1}` (the extra key is lost) and `{"$tag":9223372036854775808,"$":1}` (range error) |

The codec_core run checks these properties:
- `TypeOK` is the type invariant. It also requires that the reader's buffer is always a suffix of
  what was written.
- `RoundTrip` (spec 8.1, 8.6): the reader stands at the start of an appended token and calls a method
  that decodes that kind. Then either the configured policy refuses the call (container limit,
  deterministic mode), or the call returns the appended value and consumes exactly the token's bytes.
  This holds in strict mode too, so every header an appender writes is canonical.
- `SkipAgreement` (spec 8.2): every successful value read ends where `skip` ends.
- `StrictReadsCanonical`: in strict mode, what a strict-checking method consumes is byte for byte the
  canonical encoding of the value it returns.
- `DecodedIntsReencode`: a decoded integer, appended again, has the same major type and argument as
  the consumed item. This is what catches a lost overflow check at MaxInt64.
- `DiagAgreesWithValidate` (spec 4.4): at every position the reader reaches, `DiagBytes` renders
  every item `ValidateWellFormedBytes` accepts, and stops where it stops. The two are separate
  recursions that must agree on indefinite chunks, one-byte simple values and reserved additional
  information. The converse does not hold: `diagOneBuf` quotes an indefinite text chunk without a
  UTF-8 check (`helpers.go:187`), so it renders `7f 61 ff ff`, which validation rejects. That raw
  item is among the inputs, and the gap is a finding.

Each of these properties has a mutant in `PROJECT.json`, a plausible bug that TLC then catches:
- a shift of 6 in `makeByte`;
- `< 255` for the one-byte width in `appendUintCore`;
- the break left unconsumed in `readTextChunks`;
- `< 23` in `isNonCanonicalLength`;
- no overflow check in `ReadInt64Bytes`;
- `diagOneBuf`'s indefinite-string loop not consuming the break.

The mapio_core run checks the deterministic writer's properties, which MapIO restates from DetMap
for the states where the deterministic writer made `out`:
- `TypeOK`.
- `RadixSuffixSorted`: the LSD invariant. During the radix passes over a bucket, the indices are
  sorted by the key bytes already passed over, and ties are kept in input order.
- `OutputCanonical` (spec 8.5): on either sort path, the result is the header for all `n` pairs
  followed by every pair exactly once, in length-then-lex key order.
- `StrStrAgreesWithRaw`: on a map with string keys, `AppendMapStrStrDeterministic` produces the
  same bytes as the raw encoder over the encoded pairs. It sorts by `bytes.Compare` over the whole
  encodings, the raw encoder by length first.

Their mutants:
- `order` made with length `n` instead of capacity `n`;
- a counting pass that places equal bytes in reverse order;
- the missing `sort.Ints(lens)`;
- `AppendMapStrStrDeterministic` comparing the key strings instead of their encodings.

It also checks the readers' properties:
- `NoDupIffDistinct` (spec 4.6, 9): on a whole map, `ReadMapNoDupBytes` reports a duplicate exactly
  when two written pairs had equal keys. The writer accepts such pairs. When no two keys are equal,
  the reader consumes the whole map.
- `OrderedReadsBack`: `ReadOrderedMapBytes` returns exactly the written pairs, in wire order.
- `ReadersAgree`: on every delivered buffer, including truncated and doubled ones, the no-dup reader
  succeeds exactly when the ordered reader succeeds with distinct keys. When it succeeds, both stop
  where `Skip` stops.
- `SplitReassembles`: a successful split concatenates back to the buffer, and two maps written in a
  row split into those two maps.

Its mutants:
- the key not added to `seen`;
- the value sliced from the key's start;
- end of input taken for the break;
- an item sliced by the remainder's length.

The float_core run checks these properties:
- `TypeOK`.
- `ValuePreserved`: whichever width `AppendFloat` or `AppendFloatCanonical` picks, reading that width
  gives a float equal to the argument (a NaN stays a NaN) and consumes the item. This covers the
  -0 normalisation, the NaN reroute and mantissa rounding that carries into the exponent.
- `FixedWidthRoundTrip` (spec 8.1): `AppendFloat64` then `ReadFloat64Bytes`, and `AppendFloat32` then
  `ReadFloat32Bytes`, give back the same bits, NaN payloads included.
- `StrictAcceptsOnlyCanonical` (spec 4.6): a strict `Reader.ReadFloat32/64` succeeds only on the bytes
  `AppendFloatCanonical` writes for the value the appender was given, whichever appender wrote them.
  It then returns that value and empties the buffer. On failure, the buffer stays where it was.

Its mutants:
- the float32 exponent not shifted into place;
- the f16 test made against `float64(float32(f))` instead of `f`;
- the length check `len(b) <= 9`;
- the strict check comparing against `AppendFloat` instead of `AppendFloatCanonical`.

Two float disagreements were met while modelling and have no run of their own (they are findings).
In the subnormal branch of `float32ToFloat16Bits`, `e16 <= 0`,
so `shift = 14 - e32 >= 29 > 24`, and the code returns 0 before its rounding code. The comment above
the line gives the correct shift, `126 - exp`. As a result, `AppendFloat16` loses every half
subnormal. `AppendFloatCanonical` still preserves the value, because its f16 test fails and it falls
back to f32. It no longer picks the shortest width, though: `2^-24` is written as 5 bytes, not 3.
And `getType` (`helpers.go:31`) names a float32 item `Float64Type`, so a float32 `Number` comes back
from `MarshalCBOR`/`UnmarshalCBOR` as a float64.

The number_core run checks these properties:
- `TypeOK`: the type invariant, plus the zero value `InvalidType` holding zero bits, which `Int` and
  `CoerceInt` rely on.
- `CoerceOnlyIntegers`: a coercion succeeds on a float only when the float is an integer. The
  reference decides this by the significand's bit positions, not by trailing zeros.
- `MarshalRoundTrip`: `MarshalCBOR` then `UnmarshalCBOR` gives back the same bits. The kind comes back
  too, except that a non-negative int or the zero value comes back as a uint. Float32 values are
  excluded: `getType` names them `Float64Type` (a finding).

The number_coerce_exact run checks `CoerceExact` on the same model and finds it violated (see the
runs table).

Its mutants:
- `AsInt(0)` not clearing `bits`;
- `isExactInt` one trailing zero short;
- `MarshalCBOR` writing an int as unsigned.

The items_core run checks these properties:
- `TypeOK`.
- `TaggedRoundTrip` (spec 4.2, 4.3): `StripSelfDescribeCBOR` finds the prefix exactly when it was
  written. The reader of the written tag returns the value and consumes the item, including bignums
  and mantissas either side of the uint64/int64 limits. A nil `*big.Int` (null) is refused without
  consuming anything.
- `TagDiscriminates`: every other tag reader refuses the item and returns the buffer unchanged.
- `ReadersConsumeOneItem`: this holds on whole, cut-short and foreign bytes:
  - a tag reader that succeeds stops where `Skip` stops;
  - a UUID it returns has 16 bytes;
  - a UUID, bignum or fraction reader that fails returns the caller's buffer (spec 7).
- `EncodesValue` (spec 4.2, `append_any`): when `AppendInterface` succeeds, the bytes decode to
  the value's data-model form and are consumed whole. This covers every map order, nesting through
  `[]any` and `map[string]any`, Marshalers, and the reflection paths. When it fails, what it has
  appended never decodes as a complete item.
- `HelpersAgreeWithInterface`: each typed helper that generated code calls can return exactly the
  results `AppendInterface` can return for the same value: the same bytes and the same errors,
  including the value-or-pointer Marshaler lookup.
- `IntegersRoundTrip` (spec 8.1): every Go integer `AppendInterface` writes is read back by the
  reader of its own kind, from `int8` to `uint64`, `int`, `uint` and `time.Duration`. Each of
  the ten integer readers accepts it exactly when it is in the reader's range and returns the same
  value. Otherwise the reader returns the caller's buffer. Signed and unsigned kinds are compared
  by value.
- `DeterministicMapEncoding` (spec 4.5, 8.5): a deterministic map encoder that succeeds writes a
  map that decodes to its value, with the encoded keys strictly increasing, length first. This
  covers the `bytes.Compare` sort of the `map[string]any` encoder and the bucketed sort of
  `AppendMapDeterministic` over text, integer, bool and unsigned keys. One that fails has written
  no complete item.

- `JSONFixedPoint`: when `FromJSONBytes` succeeds, rendering its output with `ToJSONBytes` and
  converting that text again gives the same bytes, for every range order of every map, with
  wrappers nested in `$tag` and in arrays.
- `FromJSONErrorsLeaveNoItem`: when `FromJSONBytes` fails, the bytes it returns never `Skip` as a
  complete item: a caller that keeps them cannot mistake them for a value.

Its mutants:
- the decrement of `-z - 1` without a borrow;
- `appendCBORIntegerFromBigInt` taking a 64-bit negative for an int64;
- `ReadURIStringBytes` not comparing the tag number;
- the missing break of an indefinite fraction returning the position reached;
- `json.Number` tried as a float before as an int;
- the helpers' Marshaler lookup without the `&v` fallback;
- `AppendMapDeterministic` sorting by `bytes.Compare` alone;
- the narrowing readers' range check letting Max + 1 through;
- `ToJSONBytes` writing every tagged byte string as padded URL base64;
- `$decimal`/`$bigfloat` appending the tag and exponent before checking the mantissa.

Model checking also shows these disagreements, recorded as hazards rather than runs:
- The nine tagged text and byte readers return the bytes after the tag when the payload is wrong.
  Spec 7 says the original buffer.
- A plain negative mantissa below MinInt64 is refused with an overflow.
- The reflection slice path of `AppendInterface` accepts only Marshaler elements, so
  `[]bool{true}` is an unsupported type. Spec 4.2 says that path recursively encodes each element.
- The deterministic `map[string]any` encoders sort only the top-level keys. A map nested in a value
  goes through `AppendInterface` in range order, so the same value has two encodings in the model.

The json_pool run checks:
- `TypeOK`.
- `ExclusiveOwnership` (spec 5, buffers borrowed for one call): no buffer is held by two
  goroutines, held and pooled, or pooled twice. This is what a second `PutByteBuffer` of a buffer,
  on any path of `ToJSONBytes`, `toJSON` or `DiagBytes`, breaks.
- `ImplementsJSONCalls`: the refinement. Under every interleaving of the two goroutines' buffer
  operations and the collector, each call returns exactly what it returns alone (`JSONCalls`).

Its mutants: a pool without `New` (`Get` returns nil when empty); the generic tag putting `vbuf`
back before copying it into `buf`, where the other goroutine can reset and refill it; and
`ToJSONBytes` putting `bb` back on the error path as well as in the defer.

Further disagreements were met while modelling. They have no run of
their own:
- `int64(-1) - int64(u)` wraps for u >= 2^63: `DiagBytes` and `ToJSONBytes` render
  `3b 80 00 00 00 00 00 00 00` (-2^63 - 1) as `9223372036854775807`. The models reproduce this.
- `{"$selfdescribe":true}` appends a bare tag header, so `[{"$selfdescribe":true},1]` gives
  `82 d9 d9 f7 01`, which `Skip` rejects, with no error from `FromJSONBytes`.
- `$base64urlstr`, `$base64str` and `$base64url` take a non-string payload as `""` and succeed.
- A strict Reader cannot read `AppendFloatCanonical(0)` (a half): `ReadFloat32`/`ReadFloat64`
  reject the `f9` lead byte and the Reader has no half method.

The gen_core run checks these properties:
- `GenTypeOK` is the type invariant. It also requires that each output file is written for the
  entry it came from, in that entry's package.
- `MarshalWellFormed`: what `MarshalCBOR` writes is one well-formed map (`ValidateWellFormedBytes`
  consumes all of it), its header counts its entries, its keys are distinct, and there is one
  entry for each field that is not omitted. The header count (`NonOmitCount` plus the set
  omitempty fields) is computed apart from the loop that writes the entries.
- `SafeTrustedAgree` (spec 4.8): on the bytes written and on every truncation of them,
  `DecodeSafe` and `DecodeTrusted` into a fresh value give the same error, the same rest and the
  same value. The Trusted templates are separate copies of the Safe ones.
- `DecodeConsumesOneItem`: a successful decode returns exactly what follows the written message,
  and every strict prefix is an error that returns its input.
- `SafeDecodeIgnoresTarget`: `DecodeSafe` into the caller's reused value (the model keeps the last
  target when the next message is of the same struct) gives the same error, rest and fields as
  `DecodeSafe` into a fresh value. Each Safe template must clear or make its map, cut its slice and
  overwrite reused element pointers and nested structs. Fields the decoder skips keep the old value
  by design and are left out.

Their mutants: `WriteOutput` recording the next entry's index; `NonOmitCount` counted for
`"-"` fields; the Trusted `map[uint64]*T` template without its null check; the entry loop
stopping one entry short; the Safe `map[uint64]uint64` template keeping the target's map (no `clear`).

Further disagreements in the generator, with no run of their own (they are in the findings):
- `generatedStructs` is filled in declaration and walk order, so a forward-declared or
  self-referencing nested type gets `UnmarshalCBOR` in `DecodeTrusted`, where spec 4.8 says it is
  preferred. In the fixture, `Outer.In` of type `Leaf` shows this.
- The Trusted `map[uint64]` templates do not clear a reused map, as their comment says, so
  `DecodeTrusted` into a reused value keeps stale entries.
- `A, B int` generates code only for `A` (`field.Names[0]`).

## Bounds and why they suffice

- **Two appended tokens.** This is enough for a header followed by an element, and for any value
  followed by a value of another kind. Every Reader method and both modes can then be tried at both
  token boundaries and at the end of input.
- **Integer values.** They sit on both sides of each width boundary: 23/24, -24/-25, 255, 256,
  65535/65536, 2^32-1/2^32, MinInt64 and MaxUint64. These are the values where `appendUintCore`,
  `AppendInt64` and `isNonCanonicalLength` change branch.
- **Strings.** `""`, `"a"`, 24 times `"a"` (the first 1-byte length) and `"é"` (two-byte UTF-8).
- **Counts.** 0, 2 and 24.
- **Raw items.** One representative of each reader branch not reached by the appenders:
  - non-canonical headers (`98 02`, `98 17`, `18 05`, `78 01 61`);
  - indefinite array, text and bytes;
  - a 64-bit negative argument above MaxInt64;
  - invalid UTF-8;
  - reserved additional info 28.
- **Container limit.** 0 (off) and 2, so the limit is below and above the sizes written.
- **Recursion limit.** 100000, as in `defs.go`. Nesting in the models is shallow, so the limit never
  fires; see the hazards.

For DetMap:
- **Pairs.** Up to 3 pairs, in every order, with repeated keys allowed.
- **Keys.** Text keys `"a"`, `"b"` and `"aa"`. They are also 23 and 24 times `"a"`, the two sides
  of the one-byte text header. Three keys of other types: `-1` (`20`), `24` (`18 18`) and `1`
  (`01`).
- **Buckets.** The bounds give buckets of one, two and three pairs, at key lengths 1, 2, 3, 24 and
  26. With the lowered thresholds, every path runs, including radix sorts of 24 and 26 passes.
- **Deadlock.** Checking is off (`CHECK_DEADLOCK FALSE`): one call of the encoder ends in the
  `done` state, as the Go function returns.

For MapIO: the same pair bounds as DetMap, with four keys. Key `24` (`18 18`) has the same length as
the text keys, so duplicates and distinct keys share buckets. Truncation tries every prefix length.
This covers an input ending inside a header, a key or a value, and just before the break.

For FloatIO: the writers and readers are total functions of one argument. The Go code branches on
the exponent only at the edges listed for MCFloatIO, and on every mantissa bit that rounding can
reach. Every mantissa is therefore tried at each edge exponent. The float32/float64 extras reach
rounding ties, carries, overflow to Inf, float32 subnormals and values that only float64 holds.

For Number: the setters are given every value listed for MCNumber, so each branch of `isExactInt`,
`CoerceInt` and `CoerceUInt` is taken. Each float case is tried at both widths. Any sequence of
operations is explored, and the state space closes at about 13,000 states.

For Tags: each reader is a total function of the delivered bytes, and every branch depends on the
tag, the payload's major type and length, and the magnitude's byte count and edge bytes. The
payload and integer values above reach every branch. Every truncation length of every written item
is tried. For Dynamic: every branch of `AppendInterface` is a case of the value's kind, its
receiver or its map's key and element types. The values above reach each case once, and reach the
error and fallback branches inside containers. Two-pair maps give both range orders, and that is
enough for order to matter to the bytes. The run closes at about 5,400 states.

For FromJSON: 16 texts (`MCJSONTexts`) reach every arm of `jsonToCBOR` and `tryWrapper` that the
model covers, each error return of a wrapper, `numToUint64`'s negative and range paths, a
two-key object (both range orders, and string escapes), two wrapper keys in one object, wrappers
nested in `$tag`, in an array and in a plain object whose second value fails, and a truncated text.
The law run uses six texts of the wrapper table (`MCLawTexts`) with no other writes.

The codec_core run explores about 500,000 distinct states in under two minutes.

For JSONPool: two goroutines, one call each (`MaxCalls = 1`), six buffer names (two goroutines times
three levels, so `New` can always hand out a fresh one), `MaxLevel = 3` (an `ASSUME` checks
that every input's program stays within it), buffer names symmetric. The first input
holds three buffers at once and has a `Cat` and a `WriteOut`, so every operation meets every
operation of the other goroutine, and a buffer one call put back can be handed to the other call
while the first still points at it. The second input is the error path. `CHECK_DEADLOCK FALSE`:
the goroutines stop after their calls. The run closes at about 12,000 states in about a minute.

For MCGen: two trees of four and five entries reach every step of the walk: a directory, a test
file, a non-type declaration, a non-struct type, a struct left out with no fields, a parse failure
before a later file, and two output files. The fixture's field types reach every encode block and
every decode template family: scalar, string, forward and backward nested struct, pointer, slice
of pointers, `map[string]*T`, both `map[uint64]` shapes, a selector, and a skipped field. Nil and
non-nil pointers, empty and one-element containers, and both `uint64` keys are each one value, and
that is enough for every null check, clear and omitempty test to matter. Decoding into a reused
target happens after a `Marshal` of the same type. Truncations are quantified inside the
properties, not enumerated as states, so the run closes at about 3,700 states in under two minutes.

## Fairness

No liveness is claimed. The library runs no threads and has no waiting. In JSONPool, `bbPool.Get`
never blocks (it calls `New` when nothing is pooled) and every program is finite, so every call
returns under any fair scheduler; a liveness property would hold by the shape of the model. A caller's sequence of calls
is arbitrary, so no step is ever owed. Deadlock checking is on: after `NewReaderBytes` the setters
are always enabled. It is off for DetMap, MapIO, FloatIO and ItemIO, which model one call, or one write and
one read, and end when the call returns. It is off for MCGen too: the generator's walk ends,
and after a failed walk nothing can be marshalled.

## Not modelled, and why

- **Error messages and error types.** They are abstracted to names.
- **Disagreements recorded as hazards, not runs.** Three are listed in `PROJECT.json` hazards:
  - `sort.Slice` is not stable, while spec 9 asks for stability;
  - the raw deterministic map encoder's doc comment promises bytewise key order, but it sorts length
    first;
  - `ReadString`/`ReadBytes` ignore the container limit, which `SetMaxContainerLen`'s comment says
    covers strings.
- **Number getters.** `Int`, `Uint`, `Float`, `Type`, `CoerceFloat`, `Msgsize` and `String` read the
  state and change nothing. `String` is text formatting.
- **`part_012` constants.** The float16/float32 layout constants are declared but used nowhere.
- **Time tags and compiled regexps.** These are `AppendTime`, `AppendRFC3339Time`,
  `ReadRFC3339TimeBytes`, `AppendRegexp` and `ReadRegexpBytes`. They wrap the modelled tag framing
  around `time.Time` formatting and parsing and `regexp` compilation.
- **`AppendInterface` of a `time.Time` and typed nil pointers.** The first is the time tag
  (above). For the second, the code calls the nil pointer's own `MarshalCBOR`, which is the
  generated code's behaviour, not this library's.
- **32-bit builds.** `int` and `uint` are taken as 64 bits wide, as on amd64 and arm64.
- **Float and time text.** `formatFloat*Diag`, `strconv.FormatFloat` and time formatting in
  `toJSON` (tags 0 and 1): no modelled input holds a float or a time tag.
- **Parts of `FromJSONBytes`.** JSON floats (`AppendFloat64` of `json.Number.Float64`),
  `$rfc3339` and `$epoch` (time parsing), and `\u` escapes above U+007F (UTF-16 to UTF-8):
  the first two are text-to-float and time conversions the float and time models do not carry;
  the model refuses these inputs with an assertion rather than guessing.
- **`IsLikelyJSON`.** A pure predicate used by no modelled caller; not modelled yet.
- **`ByteBuffer` capacity.** `Ensure`, `GetMinSize` and capacity growth do not change content.
  `ReadFrom`, the `Append*` wrappers on `ByteBuffer` and `Writer` are not used by any modelled caller.
- **Tests and benchmarks.** These are `src/unnamed/part_000`-`010`, `src/tests/*` and `src/benchmarks/*`.
- **Generator error paths.** `GenStruct` leaves out the directory walk's own errors (`WalkDir` and
  `Info` failing) and, after a failed render, the empty output file that `os.Create` has already
  made. Both are filesystem failures that the model has no state for. A cross-package collision in
  `generatedStructs` (two packages of one run declaring a struct of the same name) is not built
  either: the model emits one package.
- **The generator's CLI and strings.** `main`, `run`, `defaultOutputPath` and the flag handling
  only choose the input and output paths. `fieldSizeExpr` (`Msgsize`) and `encodeCaseExpr`
  (`EncodeMsg`) build source text that no modelled method uses. `imports.Process` and
  `format.Source` only lay out the text.
- **Generated time and `json.Number` fields, capacity and aliasing.** Time values are outside the
  models (above). A slice's capacity is taken to equal its length. The zero-copy strings of
  `DecodeTrusted` alias the input, and nothing in the models writes to an input afterwards.
