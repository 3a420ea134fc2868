---------------------------- MODULE MCBlobstore ----------------------------
(***************************************************************************)
(* A small instance of Blobstore: two instances share one container name,  *)
(* which may be created twice.                                             *)
(***************************************************************************)
EXTENDS Blobstore, TLC

CONSTANTS g1, g2, n1, o1, o2, c1

MCSymmetry == Permutations(Guests) \cup Permutations(Objects)
=============================================================================
