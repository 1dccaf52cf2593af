--------------------------- MODULE MCVisitorPass ---------------------------
(* Instances of VisitorPass for TLC.                                       *)
EXTENDS VisitorPass, TLC

Symmetry == Permutations(Visitor) \cup Permutations(Handler)
=============================================================================
