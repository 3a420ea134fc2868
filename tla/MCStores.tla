------------------------------ MODULE MCStores ------------------------------
(* Vault: two instances, two lockers.  Sql: two instances of three handles,  *)
(* values on both sides of each conversion.                                  *)
EXTENDS Stores, TLC

CONSTANTS g1, g2, l1, l2, k1, v1, v2, t1

MCParams == {[type |-> "uint64", val |-> 5]}
Symmetry == Permutations({v1, v2}) \cup Permutations({g1, g2}) \cup Permutations({l1, l2})
=============================================================================
