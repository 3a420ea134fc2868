---------------------------- MODULE MCHttpCache -----------------------------
(***************************************************************************)
(* A small instance of HttpCache: with the cache and without, a max-age    *)
(* that is stored, one that is not, no-cache.  An i64 has three bits, and  *)
(* the dates end after a second: the clock comes to where a max-age of one *)
(* is no date any more.                                                    *)
(***************************************************************************)
EXTENDS HttpCache, TLC

CONSTANTS g1, g2, e1, e2, r1

MCTtls == {0, 1, 4}
MCHeaders ==
  {<<C!MaxAge(1)>>, <<C!MaxAge(4), C!MaxAge(0)>>, <<C!NoCache, C!MaxAge(4)>>}
MCPayloads == Response
MCSymmetry == Permutations(Guests) \cup Permutations(Keys)
=============================================================================
