------------------------- MODULE BillingProperties -------------------------
(* What the billing code promises about one unit's money.                  *)
EXTENDS Billing, FiniteSetsExt

(* Every row, total and request is one the code can write.                 *)
TypeOK ==
  /\ invoice \in [Invoice -> [status : InvoiceStatus, paid : Int]]
  /\ payment \in [Payment -> PaymentRow]
  /\ succeeded \in [Invoice -> Int]
  /\ gateway \in [Payment -> Outcome]
  /\ advance \in [Advance -> AdvanceRow]
  /\ credit \in Nat
  /\ ledger \in Ledger
  /\ receipts \subseteq Payment
  /\ reminder \in [Invoice -> [notified : BOOLEAN, sent : Nat]]
  /\ now \in Nat
  /\ req \in [Handler -> Request]

-----------------------------------------------------------------------------
(* Under every interleaving and crash.                                     *)

(* The credit of the unit is what was prepaid less what was applied: two   *)
(* credit applications that read the same balance never spend it twice     *)
(* (consumeCredit's conditional decrement, in one transaction with the     *)
(* payment and the PREPAYMENT_APPLIED entry).                              *)
CreditConserved == credit = ledger.prepaid - ledger.applied /\ credit >= 0

(* What an invoice shows as paid is backed by PAYMENT entries of the       *)
(* ledger, whatever races settleInvoice loses.                             *)
PaidIsBooked == \A i \in Invoice : invoice[i].paid <= ledger.payments[i]

(* An invoice the unit is told is PAID had its whole total booked.         *)
PaidIsCovered ==
  \A i \in Invoice : invoice[i].status = "PAID" => ledger.payments[i] >= TotalOf[i]

(* However many voids of an invoice run at once, its charges stand in the  *)
(* ledger once, or not at all after a void.                                *)
ReversedOnce ==
  \A i \in Invoice :
    /\ ledger.charges[i] = IF invoice[i].status = "none" \/ i \in ledger.reversed
                           THEN 0 ELSE TotalOf[i]
    /\ invoice[i].status = "VOID" => i \in ledger.reversed

(* A gateway payment that settled was paid: in full, or short with the     *)
(* approval of management, or short through the DuitNow inquiry, which     *)
(* reports no amount to compare (pollDuitNowQrStatus).                     *)
SettledWasPaid ==
  \A p \in Payment :
    payment[p].status = "SUCCEEDED" /\ gateway[p] # "none"
      => \/ gateway[p] = "full"
         \/ /\ gateway[p] = "short"
            /\ payment[p].approved \/ payment[p].provider = "DUITNOW_QR"

(* A settled payment has its PAYMENT entries, and a receipt unless it only *)
(* moves credit that was receipted when it was prepaid; nothing else does, *)
(* except a settled payment dismissed afterwards.                          *)
SettledIsReceipted ==
  \A p \in Payment :
    /\ payment[p].status = "SUCCEEDED" => p \in ledger.booked
    /\ p \in ledger.booked => payment[p].status \in {"SUCCEEDED", "CANCELLED"}
    /\ p \in receipts <=> p \in ledger.booked /\ payment[p].method # "prepaid"

(* A late or repeated callback never revives an attempt that failed or was *)
(* superseded (markPaymentSucceeded moves PENDING rows only).              *)
DeadAttemptsStayDead ==
  [][\A p \in Payment : payment[p].status \in {"FAILED", "CANCELLED"}
       => payment'[p].status \in {"FAILED", "CANCELLED"}]_vars

(* The requests of the unit, read through its ledger, only ever append to  *)
(* it: every step books one charge, reversal, payment, prepayment or       *)
(* application of credit, or nothing.                                      *)
Book == INSTANCE MoneyBook WITH
  charged <- {i \in Invoice : ledger.charges[i] > 0 \/ i \in ledger.reversed},
  reversed <- ledger.reversed,
  entry <- [p \in Payment |-> IF p \in ledger.booked THEN payment[p].amount ELSE 0],
  prepaid <- ledger.prepaid,
  applied <- ledger.applied

LedgerAppendOnly == Book!Spec

(* runDueSweep's "due soon" reminders: management starts a sweep over HTTP *)
(* under no lock, so two sweeps may both list an invoice before either has *)
(* marked it; but no invoice is reminded more often than requests run at   *)
(* once, whatever crashes and repeats there are, and by one request once.  *)
RemindedOncePerSweep ==
  \A i \in Invoice : reminder[i].sent <= Cardinality(Handler)

-----------------------------------------------------------------------------
(* When requests do not overlap.  BillingProofs has these promises of      *)
(* every behaviour in which no two requests are at work on one invoice;    *)
(* with a single request at a time none can be.                            *)

(* The invoices a request is at work on: what it read and will act on.     *)
Concerns(h) ==
  ({req[h].inv} \cup req[h].todo
     \cup (IF req[h].pc = "dismiss" THEN {payment[req[h].pay].inv} ELSE {})) \ {0}
Apart == \A g, h \in Handler : g # h => Concerns(g) \cap Concerns(h) = {}

Rows(i) == {p \in Payment : payment[p].inv = i /\ payment[p].status = "SUCCEEDED"}

(* "Recompute an invoice's paid amount and status from its SUCCEEDED       *)
(* payments": the amount is their sum once the transaction has committed.  *)
AmountPaidExact ==
  \A i \in Invoice : invoice[i].paid = MapThenSumSet(LAMBDA p : payment[p].amount, Rows(i))

(* An invoice settled in full never reads OVERDUE.                         *)
PaidNotOverdue ==
  \A i \in Invoice : invoice[i].status = "OVERDUE" => invoice[i].paid < TotalOf[i]

(* A void invoice holds no money: "Cannot void an invoice with payments".  *)
VoidHasNoPayments == \A i \in Invoice : invoice[i].status = "VOID" => Rows(i) = {}

(* Once void, an invoice stays void: "Cannot pay a voided invoice".  Not   *)
(* so one of a booking: voidUnpaidInvoiceInTx leaves its pending payments, *)
(* and a callback settles them.                                            *)
VoidIsFinal ==
  [][\A i \in Invoice \ BookingInvoice :
       invoice[i].status = "VOID" => invoice'[i].status = "VOID"]_vars

(* "Payment exceeds the outstanding balance": a manual payment does not    *)
(* take the SUCCEEDED payments of an invoice above its total.              *)
ManualWithinBalance ==
  [][\A p \in Payment :
       /\ payment[p].status = "none"
       /\ payment'[p].status = "SUCCEEDED"
       /\ payment'[p].method = "manual"
       => succeeded'[payment'[p].inv] <= TotalOf[payment'[p].inv]]_vars

(* Credit goes to the oldest open invoice: no application passes over an   *)
(* older invoice that still has something to pay.                          *)
CreditOldestFirst ==
  [][\A i, j \in Invoice :
       j < i /\ Open(j) /\ Outstanding(j) > 0
       => ledger'.applied = ledger.applied \/ ledger'.payments[i] = ledger.payments[i]]_vars

(* Credit does not lie idle beside an invoice it could pay ("a unit credit *)
(* that offsets current and future invoices").                             *)
Payable == \E i \in Invoice : Open(i) /\ Outstanding(i) > 0
CreditIsApplied == (credit > 0 /\ Payable) ~> (credit = 0 \/ ~Payable)
=============================================================================
