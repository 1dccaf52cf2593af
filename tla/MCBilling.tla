----------------------------- MODULE MCBilling -----------------------------
(* Instances of Billing for TLC.                                           *)
EXTENDS BillingProperties, TLC

MCTotal == [i \in 1 .. NumInvoices |-> 2]
MCDueAt == [i \in 1 .. NumInvoices |-> i]

Symmetry == Permutations(Payment) \cup Permutations(Handler)
=============================================================================
