------------------------------ MODULE MCRoutes ------------------------------
(* Routes for TLC: the nodes and CIDRs are interchangeable model values.     *)
EXTENDS Routes, TLC

Symmetry == Permutations(Nodes) \cup Permutations(CIDRs)
=============================================================================
