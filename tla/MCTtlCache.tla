----------------------------- MODULE MCTtlCache -----------------------------
(***************************************************************************)
(* Small instances of TtlCache: two ticks to a second, so that an expiry   *)
(* can fall between two whole seconds; an i64 of three bits, and dates one *)
(* second back and three and a half ahead.                                 *)
(***************************************************************************)
EXTENDS TtlCache, TLC

CONSTANTS g1, g2, k1, v1

BeforeEpoch == -2
MCSymmetry == Permutations(Guests)
=============================================================================
