---------------------------- MODULE MCWebSockets -----------------------------
(***************************************************************************)
(* Small instances of WebSockets.  Three connections at two addresses, so   *)
(* that one address is used twice.                                          *)
(***************************************************************************)
EXTENDS WebSockets, TLC

CONSTANTS a1, a2, s1, q1, q2
=============================================================================
