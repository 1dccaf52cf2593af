----------------------------- MODULE MCDeposit -----------------------------
(* Instances of Deposit for TLC.                                           *)
EXTENDS Deposit, TLC

Symmetry == Permutations(Deposit) \cup Permutations(Handler)
=============================================================================
