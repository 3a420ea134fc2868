----------------------------- MODULE MCKeyValue -----------------------------
(***************************************************************************)
(* Small instances of KeyValue.  A byte has two bits and an i64 two bytes:  *)
(* words run from -8 to 7 and the first byte weighs 4.                     *)
(***************************************************************************)
EXTENDS KeyValue, TLC

CONSTANTS g1, g2, b1, b2, k1, k2

MCHalf == 8
MCTop == 4

\* One short value and one word; an increment by 3 takes 7 over the edge.
MCWritten == {Short(1), Full(7)}
MCDeltas == {3}
\* Incremented by the least of the numbers, 4 goes over the edge and comes back.
OneWritten == {Full(4)}
OneDelta == {-8}
MCSymmetry == Permutations(Guests) \cup Permutations(Buckets)
=============================================================================
