-------------------------------- MODULE MapIO --------------------------------
(***************************************************************************)
(* A caller writes a map of raw pairs and another caller reads it back.    *)
(* The writer is AppendRawMapDeterministic (the DetMap step machine), or   *)
(* the indefinite-length appenders: AppendMapHeaderIndefinite, each key    *)
(* and value in input order, AppendBreak.  The bytes are delivered whole,  *)
(* cut short at any point, or twice in a row as a CBOR sequence            *)
(* (AppendSequence).  The readers of SeqMaps are then applied to them.     *)
(***************************************************************************)
EXTENDS SeqMaps

CONSTANTS KeyTexts, OtherKeys, ValueTexts, MaxPairs, RadixMinLen, RadixMinGroup

VARIABLES pairs, phase, lens, order, cur, pos, out,
          wire,   \* the bytes the reader is given
          sent    \* whether they have been delivered

D == INSTANCE DetMap

vars == <<pairs, phase, lens, order, cur, pos, out, wire, sent>>

\* AppendMapHeaderIndefinite
AppendMapHeaderIndefinite == <<makeByte(majorTypeMap, addInfoIndefinite)>>

Init == D!Init /\ wire = <<>> /\ sent = FALSE

\* A step of AppendRawMapDeterministic.
Encode == D!Next /\ UNCHANGED <<wire, sent>>

\* The indefinite-length writer; the pairs go out in input order.
EncodeIndefinite ==
  /\ phase = "start"
  /\ order' = [i \in DOMAIN pairs |-> i]
  /\ out' = AppendMapHeaderIndefinite \o D!EncodePairs(order') \o AppendBreak
  /\ phase' = "done"
  /\ UNCHANGED <<pairs, lens, cur, pos, wire, sent>>

\* The reader gets the first k bytes of what was written.
Deliver ==
  /\ phase = "done" /\ ~sent
  /\ \E k \in 0..Len(out) : wire' = SubSeq(out, 1, k)
  /\ sent' = TRUE
  /\ UNCHANGED <<pairs, phase, lens, order, cur, pos, out>>

\* The map is written twice into one buffer, a CBOR sequence of two items.
DeliverSequence ==
  /\ phase = "done" /\ ~sent
  /\ wire' = AppendSequence(<<out, out>>)
  /\ sent' = TRUE
  /\ UNCHANGED <<pairs, phase, lens, order, cur, pos, out>>

Next == Encode \/ EncodeIndefinite \/ Deliver \/ DeliverSequence

Spec == Init /\ [][Next]_vars

-----------------------------------------------------------------------------
(* Properties *)

TypeOK == D!TypeOK /\ wire \in Seq(0..255) /\ sent \in BOOLEAN

Complete == sent /\ wire = out

\* The properties of the deterministic writer (DetMap), checked on every
\* state of the writes it makes here.  The stable radix passes keep each
\* bucket sorted on the key suffixes already passed over, in input order
\* among equal suffixes.
RadixSuffixSorted == D!RadixSuffixSorted

\* Whether out is the deterministic writer's (the indefinite writer starts
\* with the 0xbf header).
ByDetMap == phase # "done" \/ out[1] # AppendMapHeaderIndefinite[1]

\* AppendRawMapDeterministic writes the header and every pair once, keys in
\* length-then-lexicographic order (spec 8.5), on both sorting paths.
OutputCanonical == ByDetMap => D!OutputCanonical

\* AppendMapStrStrDeterministic and AppendRawMapDeterministic write the
\* same bytes for a map of text keys and values.
StrStrAgreesWithRaw == ByDetMap => D!StrStrAgreesWithRaw

HasDuplicateKeys == \E i, j \in DOMAIN pairs : i # j /\ pairs[i].Key = pairs[j].Key

\* ReadMapNoDupBytes over a whole written map (spec 4.6 and 9): it fails
\* with the duplicate-key error exactly when two of the written pairs have
\* the same key bytes, which AppendRawMapDeterministic accepts; otherwise
\* it consumes the whole map.
NoDupIffDistinct ==
  Complete =>
    LET n == ReadMapNoDupBytes(wire) IN
    /\ n.err = "DuplicateMapKey" <=> HasDuplicateKeys
    /\ ~HasDuplicateKeys => n.err = "none" /\ n.rest = <<>>

\* ReadOrderedMapBytes over a whole written map returns exactly the pairs
\* written, in wire order (spec 4.6): the sorted order of the deterministic
\* writer, or input order for the indefinite one.
OrderedReadsBack ==
  Complete =>
    LET o == ReadOrderedMapBytes(wire) IN
    /\ o.err = "none" /\ o.rest = <<>>
    /\ o.val = [k \in DOMAIN order |-> pairs[order[k]]]

\* On every buffer, whole, cut short or doubled, the two map readers agree:
\* the no-dup reader succeeds exactly when the ordered reader does and its
\* keys are distinct, and then both stop where Skip stops.
ReadersAgree ==
  sent =>
    LET n == ReadMapNoDupBytes(wire)
        o == ReadOrderedMapBytes(wire)
    IN /\ n.err = "none" <=> (o.err = "none" /\ IsInjective([k \in DOMAIN o.val |-> o.val[k].Key]))
       /\ n.err = "none" => n.rest = o.rest /\ n.rest = Skip(wire).rest

\* SplitSequenceBytes (spec 5, sequences): a split that succeeds gives items
\* whose concatenation is the buffer, and two maps written one after the
\* other are split back into exactly those two maps.
SplitReassembles ==
  sent =>
    LET s == SplitSequenceBytes(wire) IN
    /\ s.err = "none" => AppendSequence(s.val) = wire
    /\ wire = AppendSequence(<<out, out>>) => s = [err |-> "none", val |-> <<out, out>>]
=============================================================================
