---------------------------- MODULE MCMessaging -----------------------------
(***************************************************************************)
(* Small instances of Messaging.  The channel holds two messages, so that   *)
(* three sent ahead of the server overrun it.                               *)
(***************************************************************************)
EXTENDS Messaging, TLC

CONSTANTS g1, g2, t1, t2, p1, p2, k1

MCSymmetry == Permutations(Guests) \cup Permutations(Payloads)
=============================================================================
