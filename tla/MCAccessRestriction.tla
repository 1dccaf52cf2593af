------------------------ MODULE MCAccessRestriction ------------------------
(* Instances of AccessRestriction for TLC.                                 *)
EXTENDS AccessRestriction, TLC

Symmetry == Permutations(Handler)
=============================================================================
