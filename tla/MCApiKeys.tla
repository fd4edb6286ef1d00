------------------------------ MODULE MCApiKeys ------------------------------
(* Instances of ApiKeys for TLC. *)
EXTENDS ApiKeys, TLC

CONSTANTS u1, t1, k1, k2, k3, r1, r2

Symmetry == Permutations({k1, k2, k3}) \cup Permutations({r1, r2})
=============================================================================
