------------------------ MODULE MCVisitTransactions ------------------------
(* Instances of VisitTransactions for TLC. *)
EXTENDS VisitTransactions, TLC

CONSTANTS p1, p2, t1, t2, t3

Symmetry == Permutations({p1, p2}) \cup Permutations({t1, t2, t3})
=============================================================================
