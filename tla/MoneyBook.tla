----------------------------- MODULE MoneyBook -----------------------------
(***************************************************************************)
(* What the billing code promises of one unit's ledger, whatever requests  *)
(* race or die: every charge, reversal and payment is booked at most once, *)
(* under the key of its source, and never changed or withdrawn; credit is  *)
(* spent only by booking the payment it pays for, and never beyond what    *)
(* was prepaid.                                                            *)
(***************************************************************************)
EXTENDS Integers

CONSTANTS Invoice, Payment

VARIABLES
  charged,    \* invoices whose lines are charged
  reversed,   \* invoices whose charges are reversed
  entry,      \* the amount booked for each payment, 0 before
  prepaid,    \* prepayments booked
  applied     \* credit spent

bookVars == <<charged, reversed, entry, prepaid, applied>>

Init ==
  /\ charged = {}
  /\ reversed = {}
  /\ entry = [p \in Payment |-> 0]
  /\ prepaid = 0
  /\ applied = 0

Charge(i) ==
  /\ i \notin charged
  /\ charged' = charged \cup {i}
  /\ UNCHANGED <<reversed, entry, prepaid, applied>>

Reverse(i) ==
  /\ i \in charged \ reversed
  /\ reversed' = reversed \cup {i}
  /\ UNCHANGED <<charged, entry, prepaid, applied>>

Enter(p) ==
  /\ entry[p] = 0
  /\ entry'[p] > 0
  /\ entry' = [entry EXCEPT ![p] = entry'[p]]

(* Money received for an invoice.                                          *)
Receive(p) ==
  /\ Enter(p)
  /\ UNCHANGED <<charged, reversed, prepaid, applied>>

(* Credit spent on an invoice.                                             *)
Apply(p) ==
  /\ Enter(p)
  /\ applied' = applied + entry'[p]
  /\ applied' <= prepaid
  /\ UNCHANGED <<charged, reversed, prepaid>>

Prepay ==
  /\ prepaid' > prepaid
  /\ UNCHANGED <<charged, reversed, entry, applied>>

Next ==
  \/ \E i \in Invoice : Charge(i) \/ Reverse(i)
  \/ \E p \in Payment : Receive(p) \/ Apply(p)
  \/ Prepay

Spec == Init /\ [][Next]_bookVars
=============================================================================
