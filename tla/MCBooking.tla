----------------------------- MODULE MCBooking -----------------------------
(* Instances of Booking for TLC.                                           *)
EXTENDS Booking, TLC

Symmetry ==
  Permutations(Booking) \cup Permutations(Handler)
    \cup Permutations(Deposit) \cup Permutations(FeeInvoice)
=============================================================================
