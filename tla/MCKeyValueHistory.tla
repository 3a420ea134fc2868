-------------------------- MODULE MCKeyValueHistory --------------------------
(***************************************************************************)
(* Small instances of KeyValueHistory; bytes and words as in MCKeyValue.    *)
(***************************************************************************)
EXTENDS KeyValueHistory, TLC

CONSTANTS g1, g2, b1, b2, k1, k2

MCHalf == 8
MCTop == 4
\* Incremented by the least of the numbers, 4 goes over the edge and comes back.
OneWritten == {Full(4)}
MCDeltas == {-8}
MCSymmetry == Permutations(Guests) \cup Permutations(Keys) \cup Permutations(Buckets)
=============================================================================
