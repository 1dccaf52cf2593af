--------------------------- MODULE MCGovernance ---------------------------
(* Instances of Governance for TLC.                                        *)
EXTENDS Governance, TLC

Symmetry == Permutations(Poll) \cup Permutations(Unit) \cup Permutations(Handler)
=============================================================================
