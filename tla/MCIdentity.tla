----------------------------- MODULE MCIdentity -----------------------------
(***************************************************************************)
(* Small instances of Identity: tokens that are born expired, short-lived   *)
(* and longer-lived ones.                                                   *)
(***************************************************************************)
EXTENDS Identity, TLC

CONSTANTS c1, c2, c3, s1, s2

MCSymmetry == Permutations(Calls) \cup Permutations(Scopes)
=============================================================================
