------------------------------- MODULE MCWire -------------------------------
(* Small instances of Wire for TLC. *)
EXTENDS Wire

MCNames == UNION {[1..n -> NameChars] : n \in 0..4}
MCTitles == UNION {[1..n -> TitleChars] : n \in 0..5}

\* Around one, two and many clusters of 2400 and of 4400 bytes.
MCLengths == {0, 1, 8, 2399, 2400, 2401, 4399, 4400, 4401, 4800, 8800, 8801, 96000}
=============================================================================
