------------------------------ MODULE MCSignIn ------------------------------
(* Instances of SignIn for TLC. *)
EXTENDS SignIn, TLC

CONSTANTS u1, v1, a1, k1, l1, l2, s1, r1, r2

Symmetry == Permutations({l1, l2}) \cup Permutations({r1, r2})
=============================================================================
