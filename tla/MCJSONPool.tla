----------------------------- MODULE MCJSONPool -----------------------------
(***************************************************************************)
(* Two goroutines converting CBOR items to JSON at the same time.  The     *)
(* inputs use every instruction: a generic tag around a map with an       *)
(* integer key (three buffers at once: the call's, the tag's vbuf and the  *)
(* DiagBytes buffer of the key), and a generic tag whose value is missing  *)
(* (the error path that puts the vbuf back).                               *)
(***************************************************************************)
EXTENDS JSONPool

MCInputs ==
  { <<198, 161, 1, 2>>,         \* c6 a1 01 02: 6({1: 2}), {"$tag":6,"$":{"1":2}}
    <<198>> }                   \* c6: a tag with no value
\* A definite map of two pairs holding one: a2 61 61 01, {"a": 1, ...
MCTruncatedInputs == { <<162, 97, 97, 1>> }
\* Buffer names are interchangeable.
MCSymmetry == Permutations(Bufs)
=============================================================================
