-------------------------- MODULE MCVisitorRecords --------------------------
(* Instances of VisitorRecords for TLC. *)
EXTENDS VisitorRecords, TLC

CONSTANTS r1, g1, l1, l2, t1, t2, n1
=============================================================================
