------------------------------- MODULE MCMapIO -------------------------------
(* Instantiation of MapIO for TLC.  Radix thresholds are lowered from     *)
(* 64 and 1024 to 2 and 3, so that keys of two or more bytes, and buckets  *)
(* of three pairs, take the radix path of the deterministic writer.        *)
EXTENDS MapIO

Rep(n, c) == [i \in 1..n |-> c]

\* "a", "b", "aa", and 23 and 24 times "a" (the last one-byte text header
\* and the first two-byte one).
MCKeyTexts == {<<97>>, <<98>>, <<97, 97>>, Rep(23, 97), Rep(24, 97)}

\* -1 (20), 24 (18 18) and 1 (01): keys of other types, shorter or longer
\* than text keys.
MCOtherKeys == {<<32>>, <<24, 24>>, <<1>>}

\* "" and "a".
MCValueTexts == {<<>>, <<97>>}
=============================================================================
