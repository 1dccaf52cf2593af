--------------------------- MODULE BillingProofs ---------------------------
(***************************************************************************)
(* The safety of Billing for any number of invoices, payments and          *)
(* concurrent requests.  The inductive invariant adds to the properties    *)
(* what the locks of open transactions guarantee: the rows a settlement    *)
(* holds are its own and still unsettled (LocksHold), and the sum it read  *)
(* is at most what will be booked when it commits (SumsBooked).            *)
(*                                                                         *)
(* What the code promises only of requests that do not overlap follows     *)
(* under conditions: of requests that are at work on different invoices    *)
(* (Apart) that what each has read still stands when it writes             *)
(* (SerialInv); of requests one at a time that credit goes to the oldest   *)
(* invoice (CreditInv).  That payment.aggregate is the sum of the rows     *)
(* (AggregateIsSum), and how often an invoice is reminded (RemindInv),     *)
(* need no condition, only sums and counts over finite sets.               *)
(***************************************************************************)
EXTENDS BillingProperties, FiniteSetTheorems, WellFoundedInduction, TLAPS

(* A request at work on an invoice or a payment row names one that exists. *)
RequestsNameRows ==
  \A h \in Handler :
    /\ req[h].pc \in {"payCancel", "payInsert", "manual", "credit", "settle"}
       => /\ req[h].inv \in Invoice
          /\ invoice[req[h].inv].status # "none"
          /\ req[h].amount > 0
    /\ req[h].pc \in {"void", "bookVoid"}
       => req[h].inv \in Invoice /\ invoice[req[h].inv].status # "none"
    /\ req[h].pc \in {"settle", "dismiss"} => req[h].pay \in Payment
    /\ req[h].pc = "dismiss" => payment[req[h].pay].status # "none"
    /\ req[h].pc = "overdue" => \A i \in req[h].todo : invoice[i].status # "none"

Held(h) == {req[h].pay} \cup req[h].cancels

LocksHold ==
  /\ \A h \in Settling :
       /\ payment[req[h].pay].status \in {"none", "PENDING"}
       /\ \A q \in req[h].cancels : q # req[h].pay /\ payment[q].status = "PENDING"
  /\ \A g, h \in Settling : g # h => Held(g) \cap Held(h) = {}

BooksMatchRows ==
  /\ SettledIsReceipted
  /\ \A p \in Payment : payment[p].status # "none"
       => /\ payment[p].inv \in Invoice
          /\ invoice[payment[p].inv].status # "none"
          /\ payment[p].amount > 0
  /\ \A i \in ledger.reversed : invoice[i].status # "none"

SumsBooked ==
  /\ \A i \in Invoice : succeeded[i] <= ledger.payments[i]
  /\ \A h \in Settling : req[h].sum <= ledger.payments[req[h].inv] + req[h].amount
  /\ \A i \in Invoice : invoice[i].status = "PAID" => invoice[i].paid >= TotalOf[i]

Cleared(p) ==
  \/ gateway[p] \in {"none", "full"}
  \/ payment[p].approved
  \/ gateway[p] = "short" /\ payment[p].provider = "DUITNOW_QR"
Flagged(p) == payment[p].review \/ payment[p].approved

SettlingIsCleared ==
  /\ \A p \in Payment : payment[p].status = "none" => gateway[p] = "none"
  /\ \A p \in Payment : Flagged(p) => gateway[p] = "short"
  /\ \A p \in Payment : payment[p].status = "SUCCEEDED" => Cleared(p)
  /\ \A h \in Settling : Cleared(req[h].pay)

IInv ==
  /\ TypeOK
  /\ RequestsNameRows
  /\ LocksHold
  /\ BooksMatchRows
  /\ SumsBooked
  /\ SettlingIsCleared
  /\ PaidIsBooked
  /\ ReversedOnce
  /\ CreditConserved

-----------------------------------------------------------------------------
(* A request record a handler may be left with: not settling, and naming   *)
(* the rows its program counter needs.                                     *)
Resting(r) ==
  /\ r.pc # "settle"
  /\ r.pc \in {"payCancel", "payInsert", "manual", "credit"}
     => r.inv \in Invoice /\ invoice[r.inv].status # "none" /\ r.amount > 0
  /\ r.pc \in {"void", "bookVoid"} => r.inv \in Invoice /\ invoice[r.inv].status # "none"
  /\ r.pc = "dismiss" => r.pay \in Payment /\ payment[r.pay].status # "none"
  /\ r.pc = "overdue" => \A i \in r.todo : invoice[i].status # "none"

(* A step after which every request is as it was, or rests.                *)
RequestsRest ==
  /\ req' \in [Handler -> Request]
  /\ \A g \in Handler : req'[g] = req[g] \/ Resting(req'[g])

(* Every conjunct of the invariant that does not mention the credit.       *)
RowsSafe ==
  /\ RequestsNameRows
  /\ LocksHold
  /\ BooksMatchRows
  /\ SumsBooked
  /\ SettlingIsCleared
  /\ PaidIsBooked
  /\ ReversedOnce

(* Handing one request a resting record leaves the others as they were.    *)
LEMMA GotoRests ==
  ASSUME TypeOK, NEW h \in Handler, NEW r \in Request, Resting(r), Goto(h, r)
  PROVE  RequestsRest
BY DEF TypeOK, Goto, RequestsRest

(* The idle request is a record of the type and rests.                     *)
LEMMA IdleRests == Idle \in Request /\ Resting(Idle)
BY DEF Resting, Idle, Request, Method

(* So is a loop over invoices.                                             *)
LEMMA IdleWithTodo ==
  ASSUME NEW T \in SUBSET Invoice, NEW c \in {"apply", "remind"}
  PROVE  [Idle EXCEPT !.pc = c, !.todo = T] \in Request
<1>1. ASSUME NEW r \in Request
      PROVE  [r EXCEPT !.pc = c, !.todo = T] \in Request
  <2>1. c \in {"idle", "apply", "remind"}
    OBVIOUS
  <2> QED BY <2>1 DEF Request
<1> QED BY <1>1, IdleRests

(* And so is a request that voids an invoice.                              *)
LEMMA IdleWithInvoice ==
  ASSUME NEW i \in Invoice, NEW c \in {"void", "bookVoid"}
  PROVE  [Idle EXCEPT !.pc = c, !.inv = i] \in Request
<1>1. ASSUME NEW r \in Request
      PROVE  [r EXCEPT !.pc = c, !.inv = i] \in Request
  <2>1. c \in {"idle", "void", "bookVoid"}
    OBVIOUS
  <2> QED BY <2>1 DEF Request
<1> QED BY <1>1, IdleRests

(* Finish is a step to rest.                                               *)
LEMMA FinishRests ==
  ASSUME TypeOK, NEW h \in Handler, Finish(h)
  PROVE  RequestsRest
BY IdleRests, GotoRests DEF Finish

(* No request starts to settle in a step to rest, and those that settle on *)
(* keep their records.                                                     *)
LEMMA RestKeepsSettling ==
  ASSUME RequestsRest
  PROVE  /\ Settling' \subseteq Settling
         /\ \A g \in Settling' : g \in Handler /\ req'[g] = req[g]
         /\ \A g \in Settling' : Held(g)' = Held(g) /\ Held(g) \subseteq LockedPayments
BY DEF RequestsRest, Resting, Settling, Held, LockedPayments

(* What issues, reverses, withdraws or moves nothing keeps the rows safe.  *)
LEMMA RequestMoves ==
  ASSUME IInv, RequestsRest,
         UNCHANGED <<invoice, payment, succeeded, gateway, receipts>>,
         ledger'.booked = ledger.booked, ledger'.payments = ledger.payments,
         ledger'.charges = ledger.charges, ledger'.reversed = ledger.reversed
  PROVE  RowsSafe'
<1>1. RequestsNameRows'
  BY DEF IInv, RequestsNameRows, RequestsRest, Resting
<1>2. LocksHold'
  BY RestKeepsSettling DEF IInv, LocksHold
<1>3. SumsBooked' /\ SettlingIsCleared'
  BY RestKeepsSettling DEF IInv, SumsBooked, SettlingIsCleared, Cleared, Flagged
<1>4. BooksMatchRows' /\ PaidIsBooked' /\ ReversedOnce'
  BY DEF IInv, BooksMatchRows, SettledIsReceipted, PaidIsBooked, ReversedOnce
<1> QED
  BY <1>1, <1>2, <1>3, <1>4 DEF RowsSafe

-----------------------------------------------------------------------------
(* Charging an invoice that was not issued.                                *)
LEMMA ChargeSafe ==
  ASSUME IInv, BillingAssumption, RequestsRest, NEW i \in Invoice, Charge(i)
  PROVE  RowsSafe'
<1>1. /\ invoice[i].status = "none"
      /\ \A j \in Invoice : j # i => invoice'[j] = invoice[j]
      /\ invoice'[i].status = "ISSUED" /\ invoice'[i].paid = invoice[i].paid
      /\ ledger'.booked = ledger.booked /\ ledger'.payments = ledger.payments
      /\ ledger'.reversed = ledger.reversed
      /\ \A j \in Invoice : j # i => ledger'.charges[j] = ledger.charges[j]
      /\ ledger'.charges[i] = ledger.charges[i] + TotalOf[i]
  BY DEF Charge, IInv, TypeOK, Ledger
<1>2. RequestsNameRows'
  BY <1>1 DEF IInv, RequestsNameRows, RequestsRest, Resting, TypeOK, Request, Charge
<1>3. LocksHold'
  BY RestKeepsSettling DEF IInv, LocksHold, Charge
<1>4. SumsBooked' /\ SettlingIsCleared'
  BY <1>1, RestKeepsSettling DEF IInv, SumsBooked, SettlingIsCleared, Cleared, Flagged, Charge
<1>5. BooksMatchRows' /\ PaidIsBooked'
  BY <1>1 DEF IInv, BooksMatchRows, SettledIsReceipted, PaidIsBooked, Charge
<1>6. i \notin ledger.reversed /\ ledger.charges[i] = 0
  BY <1>1 DEF IInv, ReversedOnce, BooksMatchRows
<1>7. ReversedOnce'
  BY <1>1, <1>6 DEF IInv, ReversedOnce, BillingAssumption
<1> QED
  BY <1>2, <1>3, <1>4, <1>5, <1>7 DEF RowsSafe

-----------------------------------------------------------------------------
(* Withdrawing payments, and voiding an invoice with them.                 *)

(* A row no open transaction holds is cancelled, or a pending one failed,  *)
(* flagged or approved.                                                    *)
Withdrawn(p) ==
  /\ p \notin LockedPayments
  /\ payment[p].status # "none"
  /\ payment'[p].amount = payment[p].amount
  /\ payment'[p].inv = payment[p].inv
  /\ payment'[p].method = payment[p].method
  /\ payment'[p].provider = payment[p].provider
  /\ payment[p].approved => payment'[p].approved
  /\ payment'[p].review \/ payment'[p].approved => Flagged(p) \/ gateway[p] = "short"
  /\ \/ payment'[p].status = "CANCELLED"
     \/ payment[p].status = "PENDING" /\ payment'[p].status \in {"PENDING", "FAILED"}

Void(i) ==
  /\ invoice[i].status # "none"
  /\ Reverse(i)
  /\ invoice' = [invoice EXCEPT ![i].status = "VOID"]

(* Voiding an invoice, again or for the first time, leaves its charges     *)
(* reversed once and the payments alone (reverseInvoiceCharges).           *)
LEMMA VoidReverses ==
  ASSUME IInv, NEW i \in Invoice, Void(i)
  PROVE  /\ ReversedOnce'
         /\ ledger'.booked = ledger.booked /\ ledger'.payments = ledger.payments
         /\ ledger'.reversed = ledger.reversed \cup {i}
         /\ \A j \in Invoice : /\ invoice'[j].paid = invoice[j].paid
                               /\ invoice'[j].status = "PAID" => invoice[j].status = "PAID"
                               /\ invoice[j].status # "none" => invoice'[j].status # "none"
         /\ invoice'[i].status # "none"
<1>1. /\ ledger'.reversed = ledger.reversed \cup {i}
      /\ ledger'.booked = ledger.booked /\ ledger'.payments = ledger.payments
      /\ \A j \in Invoice : j # i => ledger'.charges[j] = ledger.charges[j]
      /\ ledger'.charges[i] = IF i \in ledger.reversed THEN ledger.charges[i]
                              ELSE ledger.charges[i] - TotalOf[i]
  BY DEF Void, Reverse, IInv, TypeOK, Ledger
<1>2. /\ \A j \in Invoice : j # i => invoice'[j] = invoice[j]
      /\ invoice'[i].status = "VOID" /\ invoice'[i].paid = invoice[i].paid
  BY DEF Void, IInv, TypeOK
<1>3. ledger'.charges[i] = 0
  <2>1. CASE i \in ledger.reversed
    BY <1>1, <2>1 DEF IInv, ReversedOnce
  <2>2. CASE i \notin ledger.reversed
    <3>1. ledger.charges[i] = TotalOf[i] /\ ledger.charges[i] \in Nat
      BY <2>2 DEF IInv, ReversedOnce, Void, TypeOK, Ledger
    <3> QED BY <1>1, <2>2, <3>1
  <2> QED BY <2>1, <2>2
<1>4. ReversedOnce'
  BY <1>1, <1>2, <1>3 DEF IInv, ReversedOnce
<1> QED
  BY <1>1, <1>2, <1>4

(* Withdrawing attempts and voiding an invoice keep the rows safe: what    *)
(* a settlement holds is not withdrawn (cancelStalePendingPayments,        *)
(* voidInvoice).                                                           *)
LEMMA WithdrawSafe ==
  ASSUME IInv, RequestsRest,
         \A p \in Payment : payment'[p] = payment[p] \/ Withdrawn(p),
         \A i \in Invoice : succeeded'[i] <= succeeded[i],
         succeeded' \in [Invoice -> Int],
         UNCHANGED <<invoice, ledger>> \/ \E i \in Invoice : Void(i),
         UNCHANGED <<gateway, receipts>>
  PROVE  RowsSafe'
<1>1. /\ ReversedOnce'
      /\ ledger'.booked = ledger.booked /\ ledger'.payments = ledger.payments
      /\ \A i \in ledger'.reversed : i \in ledger.reversed \/ invoice'[i].status # "none"
      /\ \A j \in Invoice : /\ invoice'[j].paid = invoice[j].paid
                            /\ invoice'[j].status = "PAID" => invoice[j].status = "PAID"
                            /\ invoice[j].status # "none" => invoice'[j].status # "none"
  <2>1. CASE UNCHANGED <<invoice, ledger>>
    BY <2>1 DEF IInv, ReversedOnce
  <2>2. CASE \E i \in Invoice : Void(i)
    BY <2>2, VoidReverses
  <2> QED BY <2>1, <2>2
<1>2. \A p \in Payment :
        /\ payment[p].status # "none" <=> payment'[p].status # "none"
        /\ payment'[p].status = "SUCCEEDED" => payment[p].status = "SUCCEEDED"
        /\ payment'[p].amount = payment[p].amount /\ payment'[p].method = payment[p].method
        /\ payment'[p].inv = payment[p].inv
        /\ payment'[p].provider = payment[p].provider
        /\ payment[p].approved => payment'[p].approved
        /\ Flagged(p)' => Flagged(p) \/ gateway[p] = "short"
        /\ p \in LockedPayments => payment'[p] = payment[p]
  BY DEF Withdrawn, Flagged
<1>3. RequestsNameRows'
  <2>1. \A h \in Handler : req'[h].todo \subseteq Invoice
    BY DEF RequestsRest, Request
  <2> QED BY <1>1, <1>2, <2>1 DEF IInv, RequestsNameRows, RequestsRest, Resting
<1>4. \A h \in Handler : h \in Settling => Held(h) \subseteq Payment
  BY DEF IInv, TypeOK, RequestsNameRows, Settling, Held, Request
<1>5. LocksHold'
  BY <1>2, <1>4, RestKeepsSettling DEF IInv, LocksHold, Held
<1>6. SumsBooked'
  <2>1. \A i \in Invoice : succeeded'[i] <= ledger'.payments[i]
    BY <1>1 DEF IInv, SumsBooked, TypeOK, Ledger
  <2> QED BY <1>1, <2>1, RestKeepsSettling DEF IInv, SumsBooked
<1>7. SettlingIsCleared'
  BY <1>2, <1>4, RestKeepsSettling DEF IInv, SettlingIsCleared, Cleared, Flagged, Held
<1>8. \A p \in ledger.booked : payment'[p].status \in {"SUCCEEDED", "CANCELLED"}
  BY DEF IInv, BooksMatchRows, SettledIsReceipted, Withdrawn, TypeOK, Ledger
<1>9. BooksMatchRows'
  <2>1. \A i \in ledger'.reversed : invoice'[i].status # "none"
    BY <1>1 DEF IInv, BooksMatchRows, TypeOK, Ledger
  <2>2. ledger.booked \subseteq Payment
    BY DEF IInv, TypeOK, Ledger
  <2>3. SettledIsReceipted'
    BY <1>1, <1>2, <1>8 DEF IInv, BooksMatchRows, SettledIsReceipted
  <2> QED BY <1>1, <1>2, <2>1, <2>2, <2>3 DEF IInv, BooksMatchRows
<1>10. PaidIsBooked'
  BY <1>1 DEF IInv, PaidIsBooked
<1> QED
  BY <1>1, <1>3, <1>5, <1>6, <1>7, <1>9, <1>10 DEF RowsSafe

-----------------------------------------------------------------------------
(* A new pending row is one no transaction holds.                          *)
LEMMA InsertSafe ==
  ASSUME IInv, NEW h \in Handler, NEW p \in Payment, PayInsert(h, p)
  PROVE  RowsSafe' /\ RequestsRest
<1>1. RequestsRest
  BY FinishRests DEF PayInsert, IInv
<1>2. /\ p \notin LockedPayments /\ payment[p].status = "none" /\ payment'[p].status = "PENDING"
      /\ payment'[p].inv \in Invoice /\ payment'[p].amount > 0
      /\ invoice[payment'[p].inv].status # "none"
      /\ ~Flagged(p)'
      /\ \A q \in Payment : q # p => payment'[q] = payment[q] /\ gateway'[q] = gateway[q]
  BY DEF PayInsert, Fresh, IInv, TypeOK, NoRow, Flagged, RequestsNameRows
<1>3. p \notin ledger.booked /\ p \notin receipts
  BY <1>2 DEF IInv, BooksMatchRows, SettledIsReceipted
<1>4. ledger.booked \subseteq Payment
  BY DEF IInv, TypeOK, Ledger
<1>5. RequestsNameRows'
  <2>1. \A g \in Handler : req[g].pc = "dismiss" =>
          req[g].pay \in Payment /\ payment'[req[g].pay].status # "none"
    BY <1>2 DEF IInv, RequestsNameRows
  <2> QED BY <1>1, <2>1 DEF IInv, RequestsNameRows, RequestsRest, Resting, PayInsert, Goto, Finish, Idle, TypeOK
<1>6. \A g \in Handler : g \in Settling => Held(g) \subseteq Payment /\ p \notin Held(g)
  BY <1>2 DEF IInv, TypeOK, RequestsNameRows, Settling, Held, Request, LockedPayments
<1>7. LocksHold'
  BY <1>1, <1>2, <1>6, RestKeepsSettling DEF IInv, LocksHold, Held
<1>8. SumsBooked' /\ PaidIsBooked' /\ ReversedOnce'
  BY <1>1, RestKeepsSettling DEF IInv, SumsBooked, PaidIsBooked, ReversedOnce, PayInsert
<1>9. SettlingIsCleared'
  BY <1>1, <1>2, <1>6, RestKeepsSettling DEF IInv, SettlingIsCleared, Cleared, Flagged, Held
<1>10. BooksMatchRows'
  BY <1>2, <1>3, <1>4 DEF IInv, BooksMatchRows, SettledIsReceipted, PayInsert
<1> QED
  BY <1>1, <1>5, <1>7, <1>8, <1>9, <1>10 DEF RowsSafe

(* What the provider decides of an open intent.                            *)
LEMMA GatewaySafe ==
  ASSUME IInv, NEW p \in Payment, NEW o, GatewayDecides(p, o)
  PROVE  RowsSafe'
<1>1. /\ gateway[p] = "open"
      /\ \A q \in Payment : q # p => gateway'[q] = gateway[q]
  BY DEF GatewayDecides, IInv, TypeOK
<1>2. \A q \in Payment : Cleared(q) => Cleared(q)'
  BY <1>1 DEF Cleared, GatewayDecides
<1>3. \A h \in Settling : req[h].pay \in Payment
  BY DEF IInv, RequestsNameRows, Settling
<1>4. SettlingIsCleared'
  BY <1>1, <1>2, <1>3 DEF IInv, SettlingIsCleared, Flagged, GatewayDecides, Settling
<1>5. RequestsNameRows' /\ LocksHold' /\ SumsBooked' /\ BooksMatchRows'
  BY DEF IInv, RequestsNameRows, LocksHold, Held, Settling, SumsBooked, BooksMatchRows,
         SettledIsReceipted, GatewayDecides
<1>6. PaidIsBooked' /\ ReversedOnce'
  BY DEF IInv, PaidIsBooked, ReversedOnce, GatewayDecides
<1> QED
  BY <1>4, <1>5, <1>6 DEF RowsSafe

(* A sweep marks invoices that were issued.                                *)
LEMMA SweepSafe ==
  ASSUME IInv, RequestsRest, NEW h \in Handler, SweepWrite(h)
  PROVE  RowsSafe'
<1>1. \A i \in Invoice : /\ invoice'[i].paid = invoice[i].paid
                         /\ invoice[i].status # "none" <=> invoice'[i].status # "none"
                         /\ invoice'[i].status = "PAID" => invoice[i].status = "PAID"
                         /\ invoice'[i].status = "VOID" => invoice[i].status = "VOID"
  BY DEF SweepWrite, IInv, TypeOK, RequestsNameRows
<1>2. \A g \in Handler : req'[g].todo \subseteq Invoice
  BY DEF RequestsRest, Request
<1>3. RequestsNameRows'
  BY <1>1, <1>2 DEF IInv, RequestsNameRows, RequestsRest, Resting, SweepWrite
<1>4. LocksHold' /\ SettlingIsCleared'
  BY RestKeepsSettling
  DEF IInv, LocksHold, SettlingIsCleared, Cleared, Flagged, SweepWrite
<1>5. SumsBooked' /\ PaidIsBooked' /\ ReversedOnce'
  BY <1>1, RestKeepsSettling DEF IInv, SumsBooked, PaidIsBooked, ReversedOnce, SweepWrite
<1>6. BooksMatchRows'
  BY <1>1 DEF IInv, BooksMatchRows, SettledIsReceipted, SweepWrite, TypeOK, Ledger
<1> QED
  BY <1>3, <1>4, <1>5, <1>6 DEF RowsSafe

-----------------------------------------------------------------------------
(* Settling.                                                               *)

(* A settlement begins on rows that are unsettled and not held, with a sum *)
(* no larger than what is booked and what it will book.                    *)
LEMMA BeginSafe ==
  ASSUME IInv, NEW h \in Handler, NEW p \in Payment, NEW i \in Invoice,
         NEW a \in Nat, a > 0, invoice[i].status # "none", NEW m \in Method,
         NEW C \in SUBSET Payment, NEW T \in SUBSET Invoice,
         req[h].pc # "settle", p \notin LockedPayments, C \cap LockedPayments = {},
         payment[p].status \in {"none", "PENDING"}, Cleared(p),
         \A q \in C : q # p /\ payment[q].status = "PENDING",
         BeginSettle(h, p, i, a, m, C, T)
  PROVE  RowsSafe' /\ req' \in [Handler -> Request]
<1> DEFINE r == [pc |-> "settle", inv |-> i, pay |-> p, amount |-> a, method |-> m,
                 sum |-> Aggregate(i, a), cancels |-> C, todo |-> T, at |-> 0]
<1>1. /\ r \in Request
      /\ r.pc = "settle" /\ r.pay = p /\ r.inv = i /\ r.amount = a /\ r.cancels = C
      /\ r.sum = succeeded[i] + a
  BY DEF Request, Aggregate, IInv, TypeOK
<1>2. req' = [req EXCEPT ![h] = r]
  BY DEF BeginSettle, Goto
<1> HIDE DEF r
<1>3. /\ req'[h] = r
      /\ \A g \in Handler : g # h => req'[g] = req[g]
      /\ req' \in [Handler -> Request]
  BY <1>1, <1>2 DEF IInv, TypeOK
<1>4. RequestsNameRows'
  BY <1>1, <1>3 DEF IInv, RequestsNameRows, BeginSettle
<1>5. /\ Settling' = Settling \cup {h}
      /\ h \notin Settling
      /\ Held(h)' = {p} \cup C
      /\ \A g \in Settling : Held(g)' = Held(g) /\ Held(g) \subseteq LockedPayments
  BY <1>1, <1>3 DEF Settling, Held, LockedPayments
<1>6. LocksHold'
  <2>1. \A g \in Settling' : /\ payment[req'[g].pay].status \in {"none", "PENDING"}
                             /\ \A q \in req'[g].cancels : q # req'[g].pay /\ payment[q].status = "PENDING"
    BY <1>1, <1>3, <1>5 DEF IInv, LocksHold, Settling
  <2>2. \A f, g \in Settling' : f # g => Held(f)' \cap Held(g)' = {}
    <3>1. \A g \in Settling : Held(g)' \cap Held(h)' = {}
      BY <1>5
    <3> QED BY <1>5, <3>1 DEF IInv, LocksHold
  <2> QED BY <2>1, <2>2 DEF LocksHold, BeginSettle
<1>7. SumsBooked'
  <2>1. r.sum <= ledger.payments[i] + a
    BY <1>1 DEF IInv, SumsBooked, TypeOK, Ledger
  <2> QED BY <1>1, <1>3, <1>5, <2>1 DEF IInv, SumsBooked, BeginSettle, Settling
<1>8. SettlingIsCleared'
  BY <1>1, <1>3, <1>5 DEF IInv, SettlingIsCleared, Cleared, Flagged, BeginSettle, Settling
<1>9. BooksMatchRows' /\ PaidIsBooked' /\ ReversedOnce'
  BY DEF IInv, BooksMatchRows, SettledIsReceipted, PaidIsBooked, ReversedOnce, BeginSettle
<1> QED
  BY <1>3, <1>4, <1>6, <1>7, <1>8, <1>9 DEF RowsSafe

(* The commit books the payment it holds, which was never booked before.   *)
LEMMA CommitRests ==
  ASSUME IInv, NEW h \in Handler, CommitSettle(h)
  PROVE  RequestsRest /\ req'[h].pc # "settle" /\ \A g \in Handler : g # h => req'[g] = req[g]
<1>1. NextOf(h, req[h].inv) \in Request /\ Resting(NextOf(h, req[h].inv))
      /\ NextOf(h, req[h].inv).pc # "settle"
  <2>1. req[h].todo \ {req[h].inv} \in SUBSET Invoice
    BY DEF IInv, TypeOK, Request
  <2> QED BY <2>1, IdleRests, IdleWithTodo DEF NextOf, Resting, Idle
<1>2. \E r \in Request : Resting(r) /\ Goto(h, r) /\ r.pc # "settle"
  BY <1>1, IdleRests DEF CommitSettle, Idle
<1> QED
  BY <1>2, GotoRests DEF Goto, IInv, TypeOK

(* A settlement leaves a row's provider and flags as they were.            *)
SameFlags(p) ==
  /\ payment'[p].provider = payment[p].provider
  /\ payment'[p].review = payment[p].review
  /\ payment'[p].approved = payment[p].approved

(* A settlement keeps the rows safe: it books a payment not booked before, *)
(* with its receipt (settleInvoice).                                       *)
LEMMA CommitSafe ==
  ASSUME IInv, NEW h \in Handler, CommitSettle(h)
  PROVE  RowsSafe'
<1> DEFINE r == req[h]
           i == req[h].inv
           p == req[h].pay
<1>1. /\ h \in Settling /\ i \in Invoice /\ p \in Payment
      /\ r.amount \in Nat /\ r.amount > 0 /\ r.sum \in Int
      /\ Held(h) \subseteq Payment
      /\ payment[p].status \in {"none", "PENDING"}
      /\ \A q \in r.cancels : q # p /\ payment[q].status = "PENDING"
  BY DEF CommitSettle, IInv, TypeOK, RequestsNameRows, LocksHold, Settling, Request, Held
<1>2. p \notin ledger.booked /\ p \notin receipts
  BY <1>1 DEF IInv, BooksMatchRows, SettledIsReceipted
<1>3. /\ payment'[p].status = "SUCCEEDED" /\ payment'[p].inv = i
      /\ payment'[p].amount = r.amount /\ payment'[p].method = r.method
      /\ SameFlags(p)
      /\ \A q \in Payment : q \notin Held(h) => payment'[q] = payment[q]
      /\ \A q \in r.cancels : /\ payment'[q].status = "CANCELLED"
                              /\ payment'[q].inv = payment[q].inv
                              /\ payment'[q].amount = payment[q].amount
                              /\ payment'[q].method = payment[q].method
                              /\ SameFlags(q)
  <2>1. /\ payment'[p] = [payment[p] EXCEPT !.status = "SUCCEEDED", !.inv = i,
                                           !.amount = r.amount, !.method = r.method]
        /\ \A q \in r.cancels : payment'[q] = [payment[q] EXCEPT !.status = "CANCELLED"]
        /\ \A q \in Payment : q \notin Held(h) => payment'[q] = payment[q]
    BY <1>1 DEF CommitSettle, SettledRows, Held
  <2>2. \A q \in Held(h) : payment[q] \in PaymentRow
    BY <1>1 DEF IInv, TypeOK
  <2>3. /\ payment'[p].status = "SUCCEEDED" /\ payment'[p].inv = i
        /\ payment'[p].amount = r.amount /\ payment'[p].method = r.method
        /\ SameFlags(p)
    <3>1. payment[p] \in PaymentRow
      BY <2>2 DEF Held
    <3> QED BY <2>1, <3>1 DEF PaymentRow, SameFlags
  <2>4. \A q \in r.cancels : /\ payment'[q].status = "CANCELLED"
                             /\ payment'[q].inv = payment[q].inv
                             /\ payment'[q].amount = payment[q].amount
                             /\ payment'[q].method = payment[q].method
                             /\ SameFlags(q)
    <3>1. \A q \in r.cancels : payment[q] \in PaymentRow
      BY <2>2 DEF Held
    <3>2. SUFFICES ASSUME NEW q \in r.cancels, payment[q] \in PaymentRow,
                          payment'[q] = [payment[q] EXCEPT !.status = "CANCELLED"]
                   PROVE  /\ payment'[q].status = "CANCELLED"
                          /\ payment'[q].inv = payment[q].inv
                          /\ payment'[q].amount = payment[q].amount
                          /\ payment'[q].method = payment[q].method
                          /\ SameFlags(q)
      BY <2>1, <3>1
    <3> QED BY <3>2 DEF PaymentRow, SameFlags
  <2> QED BY <2>1, <2>3, <2>4
<1>4. /\ ledger'.booked = ledger.booked \cup {p}
      /\ ledger'.reversed = ledger.reversed /\ ledger'.charges = ledger.charges
      /\ ledger'.payments[i] = ledger.payments[i] + r.amount
      /\ \A j \in Invoice : j # i => ledger'.payments[j] = ledger.payments[j]
  BY <1>1, <1>2 DEF CommitSettle, BookPayment, IInv, TypeOK, Ledger
<1>5. /\ \A j \in Invoice : j # i => invoice'[j] = invoice[j] /\ succeeded'[j] = succeeded[j]
      /\ invoice'[i] = [status |-> StatusForPaid(i, r.sum), paid |-> r.sum]
      /\ succeeded'[i] = succeeded[i] + r.amount
  BY <1>1 DEF CommitSettle, IInv, TypeOK
<1>6. /\ RequestsRest
      /\ Settling' = Settling \ {h}
      /\ \A g \in Settling' : g \in Handler /\ req'[g] = req[g] /\ Held(g)' = Held(g)
  BY CommitRests DEF Settling, Held
<1>7. \A g \in Settling' : Held(g) \subseteq Payment /\ Held(g) \cap Held(h) = {}
  BY <1>1, <1>6 DEF IInv, TypeOK, RequestsNameRows, LocksHold, Settling, Request, Held
<1>8. \A g \in Settling' : \A q \in Held(g) : payment'[q] = payment[q]
  BY <1>3, <1>7
<1>9. \A j \in Invoice : invoice[j].status # "none" => invoice'[j].status # "none"
  BY <1>5 DEF StatusForPaid
<1>10. \A q \in Payment : payment[q].status # "none" => payment'[q].status # "none"
  BY <1>3 DEF Held
<1>11. RequestsNameRows'
  <2>1. \A g \in Handler : req'[g].todo \subseteq Invoice
    BY <1>6 DEF RequestsRest, Request
  <2> QED BY <1>6, <1>9, <1>10, <2>1 DEF IInv, RequestsNameRows, RequestsRest, Resting
<1>12. LocksHold'
  BY <1>6, <1>8 DEF IInv, LocksHold, Held
<1>13. ledger.payments \in [Invoice -> Nat] /\ succeeded \in [Invoice -> Int]
  BY DEF IInv, TypeOK, Ledger
<1>14. r.sum <= ledger'.payments[i]
  BY <1>1, <1>4 DEF IInv, SumsBooked
<1>15. SumsBooked'
  <2>1. \A j \in Invoice : succeeded'[j] <= ledger'.payments[j]
    BY <1>1, <1>4, <1>5, <1>13 DEF IInv, SumsBooked
  <2>2. \A g \in Settling' : req'[g].sum <= ledger'.payments[req'[g].inv] + req'[g].amount
    <3>1. SUFFICES ASSUME NEW g \in Settling'
                   PROVE  req[g].sum <= ledger'.payments[req[g].inv] + req[g].amount
      BY <1>6
    <3>2. /\ req[g].sum <= ledger.payments[req[g].inv] + req[g].amount
          /\ req[g].inv \in Invoice /\ req[g].sum \in Int /\ req[g].amount \in Nat
      BY <1>6 DEF IInv, SumsBooked, RequestsNameRows, Settling, TypeOK, Request
    <3> QED BY <1>1, <1>4, <1>13, <3>2
  <2>3. \A j \in Invoice : invoice'[j].status = "PAID" => invoice'[j].paid >= TotalOf[j]
    BY <1>5 DEF IInv, SumsBooked, StatusForPaid
  <2> QED BY <2>1, <2>2, <2>3 DEF SumsBooked
<1>16. PaidIsBooked'
  BY <1>4, <1>5, <1>14 DEF IInv, PaidIsBooked
<1>17. ReversedOnce'
  BY <1>1, <1>4, <1>5 DEF IInv, ReversedOnce, RequestsNameRows, Settling, StatusForPaid
<1>18. SettlingIsCleared'
  <2>1. \A q \in Payment : (Cleared(q) => Cleared(q)') /\ (Flagged(q)' => Flagged(q))
    BY <1>3 DEF Cleared, Flagged, SameFlags, Held, CommitSettle
  <2>2. gateway' = gateway
    BY DEF CommitSettle
  <2>3. Cleared(p)
    BY <1>1 DEF IInv, SettlingIsCleared
  <2>4. \A q \in Payment : payment'[q].status = "none" => gateway'[q] = "none"
    BY <1>10, <2>2 DEF IInv, SettlingIsCleared
  <2>5. \A q \in Payment : payment'[q].status = "SUCCEEDED" => Cleared(q)'
    BY <1>3, <2>1, <2>3 DEF IInv, SettlingIsCleared, Held
  <2>6. \A g \in Settling' : Cleared(req[g].pay)'
    BY <1>6, <1>7, <2>1 DEF IInv, SettlingIsCleared, Held
  <2>7. \A q \in Payment : Flagged(q)' => gateway'[q] = "short"
    BY <2>1, <2>2 DEF IInv, SettlingIsCleared
  <2> QED BY <2>4, <2>5, <2>6, <2>7 DEF SettlingIsCleared
<1>19. BooksMatchRows'
  <2>1. \A q \in Payment :
          /\ payment'[q].status = "SUCCEEDED" => q \in ledger'.booked
          /\ q \in ledger'.booked => payment'[q].status \in {"SUCCEEDED", "CANCELLED"}
    BY <1>3, <1>4 DEF IInv, BooksMatchRows, SettledIsReceipted, Held
  <2>2. \A q \in Payment :
          q \in receipts' <=> q \in ledger'.booked /\ payment'[q].method # "prepaid"
    BY <1>2, <1>3, <1>4 DEF IInv, BooksMatchRows, SettledIsReceipted, Held, CommitSettle, ReceiptFor
  <2>3. \A q \in Payment : payment'[q].status # "none"
          => /\ payment'[q].inv \in Invoice
             /\ invoice'[payment'[q].inv].status # "none"
             /\ payment'[q].amount > 0
    BY <1>1, <1>3, <1>5, <1>9 DEF IInv, BooksMatchRows, Held, StatusForPaid
  <2>4. \A j \in ledger'.reversed : invoice'[j].status # "none"
    BY <1>4, <1>9 DEF IInv, BooksMatchRows, TypeOK, Ledger
  <2> QED BY <2>1, <2>2, <2>3, <2>4 DEF BooksMatchRows, SettledIsReceipted
<1> QED
  BY <1>11, <1>12, <1>15, <1>16, <1>17, <1>18, <1>19 DEF RowsSafe

-----------------------------------------------------------------------------
(* What a request becomes in each of its steps that does not settle.       *)

(* Starting from idle with any resting fields gives a request.             *)
LEMMA StartRests ==
  ASSUME TypeOK, BillingAssumption, NEW h \in Handler,
         Start(h), \A p \in Payment : ~GatewaySettle(h, p)
  PROVE  RequestsRest
<1> USE DEF Goto, Idle, Request, Method, Open, Resting, RequestsRest
<1>0. req \in [Handler -> Request] /\ now \in Nat
  BY DEF TypeOK
<1>1. ASSUME NEW i \in Invoice, IssueInvoice(h, i)
      PROVE  RequestsRest
  BY <1>0, <1>1 DEF IssueInvoice
<1>2. ASSUME NEW i \in Invoice, PayRead(h, i)
      PROVE  RequestsRest
  <2>1. Outstanding(i) \in Nat /\ Outstanding(i) > 0
    BY <1>2 DEF PayRead, TypeOK, Outstanding, BillingAssumption, InvoiceStatus
  <2> QED BY <1>0, <1>2, <2>1 DEF PayRead
<1>3. ASSUME NEW i \in Invoice, VoidRead(h, i)
      PROVE  RequestsRest
  <2>1. Resting([Idle EXCEPT !.pc = "void", !.inv = i])
    BY <1>3 DEF VoidRead, Voidable
  <2>2. [Idle EXCEPT !.pc = "void", !.inv = i] \in Request
    <3> HIDE DEF Idle, Request
    <3> QED BY IdleWithInvoice
  <2> QED BY <1>3, <2>1, <2>2, GotoRests DEF VoidRead
<1>4. ASSUME NEW i \in Invoice, BookVoidRead(h, i)
      PROVE  RequestsRest
  <2>1. Resting([Idle EXCEPT !.pc = "bookVoid", !.inv = i])
    BY <1>4 DEF BookVoidRead, Voidable
  <2>2. [Idle EXCEPT !.pc = "bookVoid", !.inv = i] \in Request
    <3> HIDE DEF Idle, Request
    <3> QED BY IdleWithInvoice
  <2> QED BY <1>4, <2>1, <2>2, GotoRests DEF BookVoidRead
<1>5. ASSUME NEW i \in Invoice, NEW a \in Amount, ManualRead(h, i, a)
      PROVE  RequestsRest
  <2>1. a \in Nat /\ a > 0
    BY DEF BillingAssumption
  <2> QED BY <1>0, <1>5, <2>1 DEF ManualRead
<1>6. ASSUME NEW p \in Payment, DismissRead(h, p)
      PROVE  RequestsRest
  BY <1>0, <1>6 DEF DismissRead
<1>7. ASSUME NEW a \in Nat, AddCredit(h, a)
      PROVE  RequestsRest
  <2>1. [Idle EXCEPT !.pc = "list"] \in Request
    OBVIOUS
  <2>2. Resting([Idle EXCEPT !.pc = "list"])
    OBVIOUS
  <2> QED BY <1>7, <2>1, <2>2, GotoRests DEF AddCredit
<1>8. ASSUME NEW a \in Amount, AdvanceCancel(h, a)
      PROVE  RequestsRest
  <2>1. a \in Nat
    BY DEF BillingAssumption
  <2> QED BY <1>0, <1>8, <2>1 DEF AdvanceCancel
<1>9. ASSUME SweepRead(h)
      PROVE  RequestsRest
  <2>1. OverdueIds \subseteq Invoice /\ \A i \in OverdueIds : invoice[i].status # "none"
    BY DEF OverdueIds
  <2> QED BY <1>0, <1>9, <2>1 DEF SweepRead
<1>10. \A v \in Advance : advance[v].amount \in Nat
  BY DEF TypeOK, AdvanceRow
<1>11. Amount \subseteq Nat
  BY DEF BillingAssumption
<1> HIDE DEF Goto, Idle, Request, Method, Open, Resting, RequestsRest
<1> QED
  BY <1>1, <1>2, <1>3, <1>4, <1>5, <1>6, <1>7, <1>8, <1>9, <1>10, <1>11
  DEF Start, RecordPrepayment, AdvanceSettle

(* A step that ends a request or takes it past a read, a check or a        *)
(* withdrawal does not start a settlement, and names rows that exist.      *)
LEMMA ContinueRests ==
  ASSUME IInv, BillingAssumption, NEW h \in Handler,
         \/ PayCancel(h) \/ ListOpen(h) \/ InsufficientCredit(h)
         \/ \E v \in Advance : AdvanceInsert(h, v)
         \/ VoidWrite(h) \/ BookVoidWrite(h) \/ DismissWrite(h)
         \/ SweepWrite(h) \/ \E i \in Invoice : Remind(h, i) \/ CreditRead(h, i)
         \/ Crash(h)
  PROVE  RequestsRest
<1>0. TypeOK /\ req \in [Handler -> Request]
  BY DEF IInv, TypeOK
<1>1. CASE PayCancel(h)
  <2>1. [req[h] EXCEPT !.pc = "payInsert"] \in Request
    BY <1>0 DEF Request
  <2>2. Resting([req[h] EXCEPT !.pc = "payInsert"])
    BY <1>0, <1>1 DEF PayCancel, IInv, RequestsNameRows, Resting, Request
  <2> QED BY <1>0, <1>1, <2>1, <2>2, GotoRests DEF PayCancel
<1>2. CASE ListOpen(h)
  <2> DEFINE open == {i \in Invoice : Open(i)}
  <2>1. [Idle EXCEPT !.pc = "apply", !.todo = open] \in Request
    BY IdleWithTodo
  <2>2. Resting([Idle EXCEPT !.pc = "apply", !.todo = open])
    BY DEF Idle, Resting
  <2> QED BY <1>0, <1>2, <2>1, <2>2, IdleRests, GotoRests DEF ListOpen
<1>3. ASSUME NEW i \in Invoice, CreditRead(h, i)
      PROVE  RequestsRest
  <2> DEFINE a == IF credit < Outstanding(i) THEN credit ELSE Outstanding(i)
  <2>1. CASE Finish(h)
    BY <1>0, <2>1, FinishRests
  <2>2. CASE Goto(h, NextOf(h, i))
    <3>1. req[h].todo \ {i} \in SUBSET Invoice
      BY <1>0 DEF Request
    <3>2. NextOf(h, i) \in Request /\ Resting(NextOf(h, i))
      BY <3>1, IdleRests, IdleWithTodo DEF NextOf, Resting, Idle
    <3> QED BY <1>0, <2>2, <3>2, GotoRests
  <2>3. CASE Open(i) /\ a > 0 /\ Goto(h, [req[h] EXCEPT !.pc = "credit", !.inv = i, !.amount = a])
    <3>1. a \in Nat
      BY <2>3, <1>0 DEF Outstanding, TypeOK, BillingAssumption
    <3> DEFINE r == [req[h] EXCEPT !.pc = "credit", !.inv = i, !.amount = a]
    <3>2. r \in Request
      <4>1. req[h] \in Request
        BY <1>0
      <4> QED BY <4>1, <3>1 DEF Request
    <3>3. Resting(r)
      BY <1>0, <2>3, <3>1 DEF Resting, Request, Open
    <3> QED BY <1>0, <2>3, <3>2, <3>3, GotoRests
  <2> QED BY <1>3, <2>1, <2>2, <2>3 DEF CreditRead
<1>4. CASE InsufficientCredit(h) \/ VoidWrite(h) \/ BookVoidWrite(h) \/ DismissWrite(h)
           \/ Crash(h) \/ \E v \in Advance : AdvanceInsert(h, v)
  BY <1>0, <1>4, FinishRests
  DEF InsufficientCredit, VoidWrite, BookVoidWrite, DismissWrite, Crash, AdvanceInsert
<1>5. CASE SweepWrite(h)
  <2> DEFINE soon == DueSoonIds(req[h].at)
  <2>1. [Idle EXCEPT !.pc = "remind", !.todo = soon] \in Request
    BY IdleWithTodo DEF DueSoonIds
  <2>2. Resting([Idle EXCEPT !.pc = "remind", !.todo = soon])
    BY DEF Idle, Resting
  <2> QED BY <1>0, <1>5, <2>1, <2>2, IdleRests, GotoRests DEF SweepWrite
<1>6. ASSUME NEW i \in Invoice, Remind(h, i)
      PROVE  RequestsRest
  <2>1. [req[h] EXCEPT !.todo = @ \ {i}] \in Request
    BY <1>0 DEF Request
  <2>2. Resting([req[h] EXCEPT !.todo = @ \ {i}])
    BY <1>0, <1>6 DEF Remind, Resting, Request
  <2> QED BY <1>0, <1>6, <2>1, <2>2, IdleRests, GotoRests DEF Remind
<1> QED
  BY <1>1, <1>2, <1>3, <1>4, <1>5, <1>6
-----------------------------------------------------------------------------
(* Types, and the credit, of everything but the requests.                  *)

DataOK ==
  /\ invoice \in [Invoice -> [status : InvoiceStatus, paid : Int]]
  /\ payment \in [Payment -> PaymentRow]
  /\ succeeded \in [Invoice -> Int]
  /\ gateway \in [Payment -> Outcome]
  /\ advance \in [Advance -> AdvanceRow]
  /\ credit \in Nat
  /\ ledger \in Ledger
  /\ receipts \subseteq Payment
  /\ reminder \in [Invoice -> [notified : BOOLEAN, sent : Nat]]
  /\ now \in Nat

DataSafe == DataOK /\ CreditConserved

(* Steps that only move a request.                                         *)
Quiet == UNCHANGED <<invoice, payment, succeeded, gateway, advance, credit, ledger,
                     receipts, reminder, now>>

(* Steps that change neither the credit nor the ledger.                    *)
LEMMA CreditKept ==
  ASSUME CreditConserved, credit' = credit,
         ledger'.prepaid = ledger.prepaid, ledger'.applied = ledger.applied
  PROVE  CreditConserved'
BY DEF CreditConserved

(* Issuing an invoice and reversing one keep the ledger's totals typed.    *)
LEMMA LedgerTyped ==
  ASSUME IInv, BillingAssumption, NEW i \in Invoice,
         \/ Charge(i)
         \/ Void(i)
  PROVE  ledger' \in Ledger /\ ledger'.prepaid = ledger.prepaid
                           /\ ledger'.applied = ledger.applied
<1>1. ledger \in Ledger /\ TotalOf[i] \in Nat /\ ledger.charges[i] \in Nat
  BY DEF IInv, TypeOK, Ledger, BillingAssumption
<1>2. CASE Charge(i)
  BY <1>1, <1>2 DEF Charge, Ledger
<1>3. CASE Void(i)
  <2>1. i \in ledger.reversed \/ ledger.charges[i] = TotalOf[i]
    BY <1>3 DEF Void, IInv, ReversedOnce
  <2>2. (IF i \in ledger.reversed THEN ledger.charges[i]
         ELSE ledger.charges[i] - TotalOf[i]) \in Nat
    BY <1>1, <2>1
  <2> QED BY <1>1, <1>3, <2>2 DEF Void, Reverse, Ledger
<1> QED BY <1>2, <1>3

(* A commit keeps every row typed and the credit accounted for.            *)
LEMMA CommitData ==
  ASSUME IInv, BillingAssumption, NEW h \in Handler, CommitSettle(h)
  PROVE  DataSafe'
<1> DEFINE r == req[h]
<1>1. /\ r \in Request /\ r.inv \in Invoice /\ r.pay \in Payment /\ r.amount \in Nat
      /\ r.sum \in Int /\ r.method \in Method /\ r.pc = "settle"
  BY DEF CommitSettle, IInv, TypeOK, RequestsNameRows, Request
<1>2. /\ ledger \in Ledger /\ credit \in Nat /\ ledger.applied \in Nat
      /\ ledger.payments[r.inv] \in Nat /\ ledger.prepaid \in Nat
  BY <1>1 DEF IInv, TypeOK, Ledger
<1>3. payment' \in [Payment -> PaymentRow]
  <2>1. ASSUME NEW p \in Payment
        PROVE  SettledRows(r)[p] \in PaymentRow
    <3>1. payment[p] \in PaymentRow
      BY DEF IInv, TypeOK
    <3> QED BY <1>1, <3>1 DEF SettledRows, PaymentRow, PaymentStatus
  <2> QED BY <2>1 DEF CommitSettle, SettledRows
<1>4. invoice' \in [Invoice -> [status : InvoiceStatus, paid : Int]]
  <2>1. StatusForPaid(r.inv, r.sum) \in InvoiceStatus
    BY DEF StatusForPaid, InvoiceStatus
  <2> QED BY <1>1, <2>1 DEF CommitSettle, IInv, TypeOK
<1>5. succeeded' \in [Invoice -> Int] /\ receipts' \subseteq Payment
  BY <1>1 DEF CommitSettle, ReceiptFor, IInv, TypeOK
<1>6. ledger' \in Ledger
  <2>1. /\ (IF r.pay \in ledger.booked THEN ledger.payments[r.inv]
            ELSE ledger.payments[r.inv] + r.amount) \in Nat
        /\ (IF r.method = "prepaid" THEN ledger.applied + r.amount ELSE ledger.applied) \in Nat
    BY <1>1, <1>2
  <2> HIDE DEF r
  <2> QED BY <1>1, <1>2, <2>1 DEF CommitSettle, BookPayment, Ledger, r
<1>7. credit' \in Nat
  BY <1>1, <1>2 DEF CommitSettle, CreditCovers
<1>8. CreditConserved'
  <2>1. /\ ledger'.prepaid = ledger.prepaid
        /\ ledger'.applied = IF r.method = "prepaid" THEN ledger.applied + r.amount
                             ELSE ledger.applied
    BY <1>2 DEF CommitSettle, BookPayment, Ledger
  <2> QED BY <1>1, <1>2, <1>7, <2>1 DEF CommitSettle, IInv, CreditConserved
<1> QED
  BY <1>3, <1>4, <1>5, <1>6, <1>7, <1>8
  DEF DataSafe, DataOK, IInv, TypeOK, CommitSettle

(* A prepayment adds the same amount to the credit and to the ledger.      *)
LEMMA AddCreditData ==
  ASSUME IInv, NEW h \in Handler, NEW a \in Nat, AddCredit(h, a),
         advance' \in [Advance -> AdvanceRow]
  PROVE  DataSafe'
<1>1. ledger \in Ledger /\ credit \in Nat /\ ledger.prepaid \in Nat /\ ledger.applied \in Nat
  BY DEF IInv, TypeOK, Ledger
<1>2. /\ ledger' \in Ledger /\ credit' \in Nat
      /\ ledger'.prepaid = ledger.prepaid + a /\ ledger'.applied = ledger.applied
  BY <1>1 DEF AddCredit, Ledger
<1>3. CreditConserved'
  BY <1>1, <1>2 DEF AddCredit, IInv, CreditConserved
<1> QED
  BY <1>2, <1>3 DEF DataSafe, DataOK, AddCredit, IInv, TypeOK
(* Every other step keeps the data typed and moves no credit.              *)
LEMMA OtherData ==
  ASSUME IInv, BillingAssumption,
         \/ Quiet \/ Tick
         \/ \E h \in Handler : \/ PayCancel(h) \/ DismissWrite(h) \/ SweepWrite(h)
                               \/ \E p \in Payment : PayInsert(h, p)
                               \/ \E v \in Advance : AdvanceInsert(h, v)
                               \/ \E a \in Amount : AdvanceCancel(h, a)
                               \/ \E i \in Invoice : Remind(h, i)
         \/ \E p \in Payment : \/ GatewayFails(p) \/ FlagForReview(p) \/ ApproveReviewed(p)
                               \/ \E o \in Outcome : GatewayDecides(p, o)
         \/ \E v \in Advance : AdvanceFails(v) \/ \E o \in Outcome : AdvanceDecides(v, o)
  PROVE  DataSafe'
<1>1. /\ \A h \in Handler : req[h] \in Request
      /\ payment \in [Payment -> PaymentRow]
      /\ \A q \in Payment : payment[q] \in PaymentRow
  BY DEF IInv, TypeOK
<1>2. CASE Quiet
  BY <1>2 DEF Quiet, IInv, TypeOK, CreditConserved, DataSafe, DataOK
<1>3. ASSUME NEW h \in Handler, PayCancel(h)
      PROVE  DataSafe'
  <2>1. payment' \in [Payment -> PaymentRow]
    BY <1>1, <1>3 DEF PayCancel, WithStatus, PaymentRow, PaymentStatus
  <2> QED BY <1>3, <2>1 DEF PayCancel, IInv, TypeOK, CreditConserved, DataSafe, DataOK
<1>4. ASSUME NEW h \in Handler, NEW p \in Payment, PayInsert(h, p)
      PROVE  DataSafe'
  <2>1. req[h].inv \in Invoice \cup {0} /\ req[h].amount \in Nat
    BY <1>1 DEF Request
  <2>2. ASSUME NEW pr \in Enabled
        PROVE  [NoRow EXCEPT !.status = "PENDING", !.inv = req[h].inv,
                             !.amount = req[h].amount, !.provider = pr] \in PaymentRow
    <3>1. pr \in Provider
      BY DEF BillingAssumption
    <3> QED BY <2>1, <3>1 DEF NoRow, PaymentRow, PaymentStatus, Method
  <2>3. payment' \in [Payment -> PaymentRow] /\ gateway' \in [Payment -> Outcome]
    BY <1>1, <1>4, <2>2 DEF PayInsert, Outcome, IInv, TypeOK
  <2> QED BY <1>4, <2>3 DEF PayInsert, IInv, TypeOK, CreditConserved, DataSafe, DataOK
<1>5. ASSUME NEW p \in Payment, NEW o \in Outcome, GatewayDecides(p, o)
      PROVE  DataSafe'
  BY <1>5 DEF GatewayDecides, IInv, TypeOK, CreditConserved, DataSafe, DataOK
<1>6. ASSUME NEW p \in Payment,
             GatewayFails(p) \/ FlagForReview(p) \/ ApproveReviewed(p)
      PROVE  DataSafe'
  <2>1. payment' \in [Payment -> PaymentRow]
    <3>1. payment[p] \in PaymentRow
      BY <1>1
    <3>2. /\ [payment[p] EXCEPT !.status = "FAILED"] \in PaymentRow
          /\ [payment[p] EXCEPT !.review = TRUE] \in PaymentRow
          /\ [payment[p] EXCEPT !.approved = TRUE] \in PaymentRow
      BY <3>1 DEF PaymentRow, PaymentStatus
    <3> QED BY <1>1, <1>6, <3>2 DEF GatewayFails, FlagForReview, ApproveReviewed
  <2> QED BY <1>6, <2>1 DEF GatewayFails, FlagForReview, ApproveReviewed,
                            IInv, TypeOK, CreditConserved, DataSafe, DataOK
<1>7. ASSUME NEW h \in Handler, DismissWrite(h)
      PROVE  DataSafe'
  <2>1. req[h].pay \in Payment
    BY <1>7 DEF DismissWrite, IInv, RequestsNameRows
  <2>2. payment[req[h].pay] \in PaymentRow
    BY <1>1, <2>1
  <2>3. payment' \in [Payment -> PaymentRow]
    BY <1>1, <1>7, <2>1, <2>2 DEF DismissWrite, PaymentRow, PaymentStatus
  <2>4. succeeded' \in [Invoice -> Int]
    <3>1. payment[req[h].pay].amount \in Nat /\ succeeded \in [Invoice -> Int]
      BY <2>2 DEF PaymentRow, IInv, TypeOK
    <3>2. payment[req[h].pay].status = "SUCCEEDED" => payment[req[h].pay].inv \in Invoice
      BY <2>1 DEF IInv, BooksMatchRows
    <3> DEFINE i0 == payment[req[h].pay].inv
               n == payment[req[h].pay].amount
    <3>3. CASE payment[req[h].pay].status = "SUCCEEDED"
      <4>1. succeeded' = [succeeded EXCEPT ![i0] = succeeded[i0] - n]
        BY <1>7, <3>3 DEF DismissWrite
      <4>2. succeeded[i0] - n \in Int
        BY <3>1, <3>2, <3>3
      <4> HIDE DEF i0, n
      <4> QED BY <3>1, <4>1, <4>2
    <3> QED BY <1>7, <3>1, <3>3 DEF DismissWrite
  <2> QED BY <1>7, <2>3, <2>4 DEF DismissWrite, IInv, TypeOK, CreditConserved, DataSafe, DataOK
<1>8. ASSUME \/ \E h \in Handler : \/ \E v \in Advance : AdvanceInsert(h, v)
                                   \/ \E a \in Amount : AdvanceCancel(h, a)
             \/ \E v \in Advance : AdvanceFails(v) \/ \E o \in Outcome : AdvanceDecides(v, o)
      PROVE  DataSafe'
  <2>1. /\ advance \in [Advance -> AdvanceRow]
        /\ \A h \in Handler : req[h].amount \in Nat
        /\ \A w \in Advance : advance[w] \in AdvanceRow
    BY <1>1 DEF IInv, TypeOK, Request
  <2>2. advance' \in [Advance -> AdvanceRow]
    <3>1. ASSUME NEW h \in Handler, NEW a \in Amount, AdvanceCancel(h, a)
          PROVE  advance' \in [Advance -> AdvanceRow]
      BY <2>1, <3>1 DEF AdvanceCancel, AdvanceRow, PaymentStatus
    <3>2. ASSUME NEW h \in Handler, NEW v \in Advance, AdvanceInsert(h, v)
          PROVE  advance' \in [Advance -> AdvanceRow]
      BY <2>1, <3>2 DEF AdvanceInsert, AdvanceRow, PaymentStatus, Outcome, BillingAssumption
    <3>3. ASSUME NEW v \in Advance, NEW o \in Outcome, AdvanceDecides(v, o)
          PROVE  advance' \in [Advance -> AdvanceRow]
      <4>1. advance[v] \in AdvanceRow
        BY <2>1
      <4> QED BY <2>1, <3>3, <4>1 DEF AdvanceDecides, AdvanceRow
    <3>4. ASSUME NEW v \in Advance, AdvanceFails(v)
          PROVE  advance' \in [Advance -> AdvanceRow]
      <4>1. advance[v] \in AdvanceRow
        BY <2>1
      <4> QED BY <2>1, <3>4, <4>1 DEF AdvanceFails, AdvanceRow, PaymentStatus
    <3> QED BY <1>8, <3>1, <3>2, <3>3, <3>4
  <2>3. UNCHANGED <<invoice, payment, succeeded, gateway, credit, ledger, receipts,
                    reminder, now>>
    BY <1>8 DEF AdvanceCancel, AdvanceInsert, AdvanceDecides, AdvanceFails
  <2> QED BY <2>2, <2>3 DEF AdvanceRow, IInv, TypeOK, CreditConserved, DataSafe, DataOK
<1>9. ASSUME NEW h \in Handler, SweepWrite(h)
      PROVE  DataSafe'
  BY <1>9 DEF SweepWrite, InvoiceStatus, IInv, TypeOK, CreditConserved, DataSafe, DataOK
<1>10. ASSUME NEW h \in Handler, NEW i \in Invoice, Remind(h, i)
       PROVE  DataSafe'
  BY <1>10 DEF Remind, IInv, TypeOK, CreditConserved, DataSafe, DataOK
<1>11. CASE Tick
  BY <1>11 DEF Tick, IInv, TypeOK, CreditConserved, DataSafe, DataOK
<1> QED
  BY <1>2, <1>3, <1>4, <1>5, <1>6, <1>7, <1>8, <1>9, <1>10, <1>11

(* Issuing and voiding: the books stay typed, the credit is untouched.     *)
LEMMA BookData ==
  ASSUME IInv, BillingAssumption, NEW i \in Invoice, Charge(i) \/ Void(i),
         payment' \in [Payment -> PaymentRow],
         UNCHANGED <<succeeded, gateway, advance, credit, receipts, reminder, now>>
  PROVE  DataSafe'
<1>1. invoice' \in [Invoice -> [status : InvoiceStatus, paid : Int]]
  <2>1. invoice[i] \in [status : InvoiceStatus, paid : Int]
    BY DEF IInv, TypeOK
  <2>2. /\ [invoice[i] EXCEPT !.status = "ISSUED"] \in [status : InvoiceStatus, paid : Int]
        /\ [invoice[i] EXCEPT !.status = "VOID"] \in [status : InvoiceStatus, paid : Int]
    BY <2>1 DEF InvoiceStatus
  <2> QED BY <2>2 DEF Charge, Void, IInv, TypeOK
<1>2. ledger' \in Ledger /\ CreditConserved'
  BY LedgerTyped, CreditKept DEF IInv
<1> QED
  BY <1>1, <1>2 DEF DataSafe, DataOK, IInv, TypeOK
-----------------------------------------------------------------------------
(* Every step preserves the invariant: a step that keeps the rows safe and *)
(* the other data in order keeps all of it (used under every action).      *)
LEMMA Assemble ==
  ASSUME RowsSafe', DataSafe', req' \in [Handler -> Request]
  PROVE  IInv'
BY DEF RowsSafe, DataSafe, DataOK, IInv, TypeOK

(* The steps that begin to settle: a callback or an approval, a manual     *)
(* payment, an application of credit.                                      *)
LEMMA BeginStep ==
  ASSUME IInv, BillingAssumption, NEW h \in Handler, NEW p \in Payment,
         GatewaySettle(h, p) \/ ManualSettle(h, p) \/ CreditSettle(h, p)
  PROVE  IInv'
<1>1. /\ req[h] \in Request /\ payment[p] \in PaymentRow /\ gateway[p] \in Outcome
      /\ req[h].amount \in Nat /\ payment[p].amount \in Nat
      /\ req[h].todo \in SUBSET Invoice
  BY DEF IInv, TypeOK, Request, PaymentRow
<1>2. CASE GatewaySettle(h, p)
  <2> DEFINE i == payment[p].inv
             C == PendingOf(i) \ {p}
  <2>1. /\ i \in Invoice /\ invoice[i].status # "none" /\ payment[p].amount > 0
        /\ Cleared(p)
    BY <1>2 DEF GatewaySettle, Claim, Verified, ByCallback, ByInquiry, Cleared,
       IInv, BooksMatchRows
  <2>2. /\ C \in SUBSET Payment /\ C \cap LockedPayments = {} /\ p \notin LockedPayments
        /\ \A q \in C : q # p /\ payment[q].status = "PENDING"
        /\ payment[p].status = "PENDING" /\ req[h].pc # "settle"
        /\ BeginSettle(h, p, i, payment[p].amount, "gateway", C, {})
    BY <1>2 DEF GatewaySettle, Claim, PendingOf, Idle
  <2>3. RowsSafe' /\ req' \in [Handler -> Request]
    <3> HIDE DEF i, C
    <3> QED BY <1>1, <2>1, <2>2, BeginSafe DEF Method, i
  <2> QED BY <2>2, <2>3, OtherData, Assemble DEF BeginSettle, Quiet
<1>3. CASE ManualSettle(h, p) \/ CreditSettle(h, p)
  <2>1. /\ req[h].pc \in {"manual", "credit"} /\ p \in Fresh
        /\ \E m \in Method, T \in SUBSET Invoice :
             BeginSettle(h, p, req[h].inv, req[h].amount, m, {}, T)
    BY <1>1, <1>3 DEF ManualSettle, CreditSettle, Method
  <2>2. /\ req[h].inv \in Invoice /\ invoice[req[h].inv].status # "none"
        /\ req[h].amount > 0
    BY <2>1 DEF IInv, RequestsNameRows
  <2>3. p \notin LockedPayments /\ payment[p].status = "none" /\ Cleared(p)
    BY <2>1 DEF Fresh, Cleared, IInv, SettlingIsCleared
  <2>4. RowsSafe' /\ req' \in [Handler -> Request]
    <3>1. PICK m \in Method, T \in SUBSET Invoice :
            BeginSettle(h, p, req[h].inv, req[h].amount, m, {}, T)
      BY <2>1
    <3>2. {} \in SUBSET Payment /\ {} \cap LockedPayments = {} /\ req[h].pc # "settle"
      BY <2>1
    <3> QED BY <1>1, <2>2, <2>3, <3>1, <3>2, BeginSafe
  <2> QED BY <2>1, <2>4, OtherData, Assemble DEF BeginSettle, Quiet
<1> QED BY <1>2, <1>3

(* Cancelling the pending payments of an invoice, none of them held by an  *)
(* open transaction, only withdraws payments.                              *)
LEMMA CancelPending ==
  ASSUME TypeOK, NEW i \in Invoice, PendingOf(i) \cap LockedPayments = {},
         payment' = WithStatus(PendingOf(i), "CANCELLED")
  PROVE  /\ \A p \in Payment : payment'[p] = payment[p] \/ Withdrawn(p)
         /\ payment' \in [Payment -> PaymentRow]
         /\ PendingOf(i)' = {}
<1>0. payment \in [Payment -> PaymentRow]
  BY DEF TypeOK
<1>1. ASSUME NEW p \in PendingOf(i)
      PROVE  Withdrawn(p) /\ payment'[p] \in PaymentRow /\ payment'[p].status = "CANCELLED"
  <2>1. /\ p \in Payment /\ payment[p] \in PaymentRow /\ payment[p].status = "PENDING"
        /\ p \notin LockedPayments
        /\ payment'[p] = [payment[p] EXCEPT !.status = "CANCELLED"]
    BY <1>0, <1>1 DEF PendingOf, WithStatus
  <2> QED BY <2>1 DEF Withdrawn, Flagged, PaymentRow, PaymentStatus
<1>2. \A p \in Payment : p \notin PendingOf(i) => payment'[p] = payment[p]
  BY DEF WithStatus
<1>3. payment' \in [Payment -> PaymentRow]
  BY <1>0, <1>1, <1>2 DEF WithStatus
<1>4. PendingOf(i)' = {}
  BY <1>1, <1>2 DEF PendingOf
<1> QED BY <1>1, <1>2, <1>3, <1>4

(* What withdraws payments, and what voids an invoice.                     *)
LEMMA WithdrawStep ==
  ASSUME IInv, BillingAssumption, NEW h \in Handler,
         PayCancel(h) \/ DismissWrite(h) \/ VoidWrite(h) \/ BookVoidWrite(h)
  PROVE  IInv'
<1>0. /\ TypeOK /\ RequestsRest /\ req' \in [Handler -> Request]
      /\ payment \in [Payment -> PaymentRow]
      /\ \A p \in Payment : payment[p] \in PaymentRow
  BY ContinueRests DEF RequestsRest, IInv, TypeOK
<1>1. CASE PayCancel(h)
  <2>1. req[h].inv \in Invoice
    BY <1>1 DEF PayCancel, IInv, RequestsNameRows
  <2>2. \A p \in Payment : payment'[p] = payment[p] \/ Withdrawn(p)
    BY <1>0, <1>1, <2>1, CancelPending DEF PayCancel
  <2>3. RowsSafe'
    BY <1>0, <1>1, <2>2, WithdrawSafe DEF PayCancel, TypeOK
  <2> QED BY <1>0, <1>1, <2>3, OtherData, Assemble
<1>2. CASE DismissWrite(h)
  <2> DEFINE p == req[h].pay
  <2>1. /\ p \in Payment /\ payment[p].status # "none" /\ p \notin LockedPayments
    BY <1>2 DEF DismissWrite, IInv, RequestsNameRows
  <2>2. Withdrawn(p) /\ \A q \in Payment : q # p => payment'[q] = payment[q]
    <3>1. /\ payment[p] \in PaymentRow
          /\ payment'[p] = [payment[p] EXCEPT !.status = "CANCELLED"]
          /\ \A q \in Payment : q # p => payment'[q] = payment[q]
      BY <1>0, <1>2, <2>1 DEF DismissWrite
    <3> HIDE DEF p
    <3> QED BY <2>1, <3>1 DEF Withdrawn, Flagged, PaymentRow
  <2>3. \A i \in Invoice : succeeded'[i] <= succeeded[i]
    <3>1. payment[p].amount \in Nat /\ \A i \in Invoice : succeeded[i] \in Int
      BY <1>0, <2>1 DEF PaymentRow, TypeOK
    <3> QED BY <1>2, <3>1 DEF DismissWrite, TypeOK, IInv
  <2>4. DataSafe'
    BY <1>2, OtherData
  <2>5. RowsSafe'
    BY <1>0, <1>2, <2>2, <2>3, <2>4, WithdrawSafe DEF DismissWrite, DataSafe, DataOK
  <2> QED BY <1>0, <2>4, <2>5, Assemble
<1>3. CASE VoidWrite(h) \/ BookVoidWrite(h)
  <2>1. /\ req[h].inv \in Invoice
        /\ Void(req[h].inv)
        /\ UNCHANGED <<succeeded, gateway, advance, credit, receipts, reminder, now>>
    BY <1>3 DEF VoidWrite, BookVoidWrite, Void, IInv, RequestsNameRows
  <2>2. /\ \A p \in Payment : payment'[p] = payment[p] \/ Withdrawn(p)
        /\ payment' \in [Payment -> PaymentRow]
    BY <1>0, <1>3, <2>1, CancelPending DEF VoidWrite, BookVoidWrite
  <2>3. \A i \in Invoice : succeeded'[i] <= succeeded[i]
    BY <1>0, <2>1 DEF TypeOK
  <2>4. DataSafe'
    BY <2>1, <2>2, BookData
  <2>5. RowsSafe'
    BY <1>0, <2>1, <2>2, <2>3, WithdrawSafe DEF TypeOK
  <2> QED BY <1>0, <2>4, <2>5, Assemble
<1> QED BY <1>1, <1>2, <1>3

(* What a callback or management does to a payment without a transaction.  *)
LEMMA RowStep ==
  ASSUME IInv, BillingAssumption, NEW p \in Payment,
         GatewayFails(p) \/ FlagForReview(p) \/ ApproveReviewed(p)
  PROVE  IInv'
<1>1. RequestsRest /\ req' \in [Handler -> Request]
  BY DEF GatewayFails, FlagForReview, ApproveReviewed, RequestsRest, IInv, TypeOK
<1>2. payment[p] \in PaymentRow /\ payment[p].status = "PENDING" /\ p \notin LockedPayments
  BY DEF GatewayFails, FlagForReview, ApproveReviewed, IInv, TypeOK
<1>3. /\ \/ payment'[p] = [payment[p] EXCEPT !.status = "FAILED"]
         \/ payment'[p] = [payment[p] EXCEPT !.review = TRUE] /\ gateway[p] = "short"
         \/ payment'[p] = [payment[p] EXCEPT !.approved = TRUE] /\ payment[p].review
      /\ \A q \in Payment : q # p => payment'[q] = payment[q]
      /\ UNCHANGED <<invoice, succeeded, gateway, ledger, receipts>>
  BY DEF GatewayFails, FlagForReview, ApproveReviewed, IInv, TypeOK
<1>4. Withdrawn(p)
  BY <1>2, <1>3 DEF Withdrawn, Flagged, PaymentRow
<1>5. /\ \A i \in Invoice : succeeded'[i] <= succeeded[i]
      /\ succeeded' \in [Invoice -> Int]
  BY <1>3 DEF IInv, TypeOK
<1>6. RowsSafe'
  BY <1>1, <1>3, <1>4, <1>5, WithdrawSafe
<1> QED BY <1>1, <1>6, OtherData, Assemble

(* Issuing an invoice, with or without the credit that follows.            *)
LEMMA ChargeStep ==
  ASSUME IInv, BillingAssumption, NEW i \in Invoice,
         IssueBookingInvoice(i) \/ \E h \in Handler : IssueInvoice(h, i)
  PROVE  IInv'
<1>1. Charge(i) /\ UNCHANGED <<payment, succeeded, gateway, advance, credit, receipts,
                               reminder, now>>
  BY DEF IssueBookingInvoice, IssueInvoice, Charge
<1>2. RequestsRest
  <2>1. ASSUME NEW h \in Handler, IssueInvoice(h, i)
        PROVE  RequestsRest
    <3>1. {i} \in SUBSET Invoice
      OBVIOUS
    <3>2. [Idle EXCEPT !.pc = "apply", !.todo = {i}] \in Request
      BY <3>1, IdleWithTodo
    <3>3. Resting([Idle EXCEPT !.pc = "apply", !.todo = {i}])
      BY DEF Resting, Idle
    <3> QED BY <2>1, <3>2, <3>3, GotoRests DEF IssueInvoice, IInv
  <2>2. CASE IssueBookingInvoice(i)
    BY <2>2 DEF IssueBookingInvoice, RequestsRest, IInv, TypeOK
  <2> QED BY <2>1, <2>2
<1>3. DataSafe'
  BY <1>1, BookData DEF IInv, TypeOK
<1>4. RowsSafe'
  BY <1>1, <1>2, ChargeSafe
<1> QED BY <1>2, <1>3, <1>4, Assemble DEF RequestsRest

(* The steps that only move requests, reminders, advances or the clock.    *)
LEMMA MoveStep ==
  ASSUME IInv, BillingAssumption, RequestsRest,
         UNCHANGED <<invoice, payment, succeeded, gateway, receipts, ledger>>,
         DataSafe'
  PROVE  IInv'
BY RequestMoves, Assemble DEF RequestsRest

(* A prepayment, recorded by management or made through a gateway.         *)
LEMMA PrepayStep ==
  ASSUME IInv, BillingAssumption, NEW h \in Handler,
         \/ \E a \in Amount : RecordPrepayment(h, a)
         \/ \E v \in Advance : AdvanceSettle(h, v)
  PROVE  IInv'
<1>1. PICK a \in Nat :
        /\ AddCredit(h, a)
        /\ advance' \in [Advance -> AdvanceRow]
  <2>1. ASSUME NEW a \in Amount, RecordPrepayment(h, a)
        PROVE  a \in Nat /\ AddCredit(h, a) /\ advance' = advance
    BY <2>1 DEF RecordPrepayment, BillingAssumption
  <2>2. ASSUME NEW v \in Advance, AdvanceSettle(h, v)
        PROVE  /\ advance[v].amount \in Nat /\ AddCredit(h, advance[v].amount)
               /\ advance' \in [Advance -> AdvanceRow]
    <3>1. advance[v] \in AdvanceRow
      BY DEF IInv, TypeOK
    <3>2. [advance[v] EXCEPT !.status = "SUCCEEDED"] \in AdvanceRow
      BY <3>1 DEF AdvanceRow, PaymentStatus
    <3>3. advance[v].amount \in Nat
      BY <3>1 DEF AdvanceRow
    <3> QED BY <2>2, <3>2, <3>3 DEF AdvanceSettle, IInv, TypeOK
  <2> QED BY <2>1, <2>2 DEF IInv, TypeOK
<1>2. RequestsRest
  <2>1. \A r \in Request : [r EXCEPT !.pc = "list"] \in Request
    BY DEF Request
  <2>2. [Idle EXCEPT !.pc = "list"] \in Request
    BY <2>1, IdleRests
  <2>3. Resting([Idle EXCEPT !.pc = "list"])
    BY DEF Resting, Idle
  <2> QED BY <1>1, <2>2, <2>3, GotoRests DEF AddCredit, IInv
<1>3. DataSafe'
  BY <1>1, AddCreditData
<1>4. /\ ledger'.booked = ledger.booked /\ ledger'.payments = ledger.payments
      /\ ledger'.charges = ledger.charges /\ ledger'.reversed = ledger.reversed
      /\ UNCHANGED <<invoice, payment, succeeded, gateway, receipts>>
  BY <1>1 DEF AddCredit, IInv, TypeOK, Ledger
<1> QED BY <1>2, <1>3, <1>4, RequestMoves, Assemble DEF RequestsRest

(* The next step of a request being served, of whatever kind.              *)
LEMMA ContinueStep ==
  ASSUME IInv, BillingAssumption, NEW h \in Handler, Continue(h) \/ Crash(h)
  PROVE  IInv'
<1>1. CASE PayCancel(h) \/ DismissWrite(h) \/ VoidWrite(h) \/ BookVoidWrite(h)
  BY <1>1, WithdrawStep
<1>2. ASSUME NEW p \in Payment, PayInsert(h, p)
      PROVE  IInv'
  BY <1>2, InsertSafe, OtherData, Assemble DEF RequestsRest
<1>3. ASSUME NEW p \in Payment, ManualSettle(h, p) \/ CreditSettle(h, p)
      PROVE  IInv'
  BY <1>3, BeginStep
<1>4. CASE CommitSettle(h)
  BY <1>4, CommitRests, CommitSafe, CommitData, Assemble DEF RequestsRest
<1>5. CASE InsufficientCredit(h) \/ ListOpen(h) \/ Crash(h) \/ \E i \in Invoice : CreditRead(h, i)
  <2>1. RequestsRest
    BY <1>5, ContinueRests
  <2>2. Quiet
    BY <1>5 DEF InsufficientCredit, ListOpen, Crash, CreditRead, Quiet
  <2>3. DataSafe'
    BY <2>2, OtherData
  <2> QED BY <2>1, <2>2, <2>3, MoveStep DEF Quiet
<1>6. CASE (\E v \in Advance : AdvanceInsert(h, v)) \/ \E i \in Invoice : Remind(h, i)
  <2>1. RequestsRest
    BY <1>6, ContinueRests
  <2>2. UNCHANGED <<invoice, payment, succeeded, gateway, receipts, ledger>>
    BY <1>6 DEF AdvanceInsert, Remind
  <2>3. DataSafe'
    BY <1>6, OtherData
  <2> QED BY <2>1, <2>2, <2>3, MoveStep
<1>7. CASE SweepWrite(h)
  <2>1. RequestsRest
    BY <1>7, ContinueRests
  <2>2. RowsSafe'
    BY <1>7, <2>1, SweepSafe
  <2> QED BY <1>7, <2>1, <2>2, OtherData, Assemble DEF RequestsRest
<1> QED
  BY <1>1, <1>2, <1>3, <1>4, <1>5, <1>6, <1>7 DEF Continue

(* A request arrives: the read and the check before its transaction.       *)
LEMMA StartStep ==
  ASSUME IInv, BillingAssumption, NEW h \in Handler, Start(h)
  PROVE  IInv'
<1>1. ASSUME NEW p \in Payment, GatewaySettle(h, p)
      PROVE  IInv'
  BY <1>1, BeginStep
<1>2. CASE \E i \in Invoice : IssueInvoice(h, i)
  BY <1>2, ChargeStep
<1>3. CASE (\E a \in Amount : RecordPrepayment(h, a)) \/ \E v \in Advance : AdvanceSettle(h, v)
  BY <1>3, PrepayStep
<1>4. CASE \/ \E i \in Invoice : \/ PayRead(h, i) \/ VoidRead(h, i) \/ BookVoidRead(h, i)
                                 \/ \E a \in Amount : ManualRead(h, i, a)
           \/ \E p \in Payment : DismissRead(h, p)
           \/ SweepRead(h)
  <2>1. Quiet
    BY <1>4 DEF PayRead, VoidRead, BookVoidRead, ManualRead, DismissRead, SweepRead, Quiet
  <2>2. CASE \A p \in Payment : ~GatewaySettle(h, p)
    <3>1. RequestsRest
      BY <2>2, StartRests DEF IInv
    <3>2. DataSafe'
      BY <2>1, OtherData
    <3> QED BY <2>1, <3>1, <3>2, MoveStep DEF Quiet
  <2> QED BY <1>1, <2>2
<1>5. CASE \E a \in Amount : AdvanceCancel(h, a)
  <2>1. UNCHANGED <<invoice, payment, succeeded, gateway, receipts, ledger>>
    BY <1>5 DEF AdvanceCancel
  <2>2. CASE \A p \in Payment : ~GatewaySettle(h, p)
    <3>1. RequestsRest
      BY <2>2, StartRests DEF IInv
    <3>2. DataSafe'
      BY <1>5, OtherData
    <3> QED BY <2>1, <3>1, <3>2, MoveStep
  <2> QED BY <1>1, <2>2
<1> QED
  BY <1>1, <1>2, <1>3, <1>4, <1>5 DEF Start

(* Any step of requests, the payment provider or the clock.                *)
LEMMA StepSafe ==
  ASSUME IInv, BillingAssumption, [Next]_vars
  PROVE  IInv'
<1>1. ASSUME NEW h \in Handler, Continue(h) \/ Start(h) \/ Crash(h)
      PROVE  IInv'
  BY <1>1, ContinueStep, StartStep
<1>2. CASE \E i \in Invoice : IssueBookingInvoice(i)
  BY <1>2, ChargeStep
<1>3. CASE \E p \in Payment : GatewayFails(p) \/ FlagForReview(p) \/ ApproveReviewed(p)
  BY <1>3, RowStep
<1>4. ASSUME NEW p \in Payment, NEW o \in Outcome, GatewayDecides(p, o)
      PROVE  IInv'
  <2>1. RowsSafe' /\ DataSafe'
    BY <1>4, GatewaySafe, OtherData
  <2> QED BY <1>4, <2>1, Assemble DEF GatewayDecides, IInv, TypeOK
<1>5. CASE Tick \/ \E v \in Advance : AdvanceFails(v) \/ \E o \in Outcome : AdvanceDecides(v, o)
  <2>1. UNCHANGED <<invoice, payment, succeeded, gateway, receipts, ledger, req>>
    BY <1>5 DEF Tick, AdvanceFails, AdvanceDecides
  <2>2. RequestsRest
    BY <2>1 DEF RequestsRest, IInv, TypeOK
  <2>3. DataSafe'
    BY <1>5, OtherData
  <2> QED BY <2>1, <2>2, <2>3, MoveStep
<1>6. CASE UNCHANGED vars
  <2>1. RequestsRest /\ Quiet
    BY <1>6 DEF vars, RequestsRest, Quiet, IInv, TypeOK
  <2>2. DataSafe'
    BY <2>1, OtherData
  <2> QED BY <2>1, <2>2, MoveStep DEF Quiet
<1> QED
  BY <1>1, <1>2, <1>3, <1>4, <1>5, <1>6 DEF Next, Environment

(* A unit without invoices, payments or credit.                            *)
LEMMA InitSafe ==
  ASSUME BillingAssumption, Init
  PROVE  IInv
<1>1. TypeOK
  BY IdleRests DEF Init, TypeOK, InvoiceStatus, PaymentRow, PaymentStatus, NoRow, Method,
     Provider, Outcome, AdvanceRow, Ledger
<1>2. \A h \in Handler : req[h].pc = "idle"
  BY DEF Init, Idle
<1>3. \A p \in Payment : payment[p].status = "none"
  BY DEF Init, NoRow
<1>4. RequestsNameRows /\ LocksHold
  BY <1>2 DEF RequestsNameRows, LocksHold, Settling
<1>5. BooksMatchRows /\ SumsBooked /\ SettlingIsCleared
  BY <1>2, <1>3 DEF Init, NoRow, BooksMatchRows, SettledIsReceipted, SumsBooked,
     SettlingIsCleared, Flagged, Settling
<1>6. PaidIsBooked /\ ReversedOnce /\ CreditConserved
  BY DEF Init, PaidIsBooked, ReversedOnce, CreditConserved
<1> QED
  BY <1>1, <1>4, <1>5, <1>6 DEF IInv
-----------------------------------------------------------------------------
(* The books through the refinement mapping.                               *)

Charged == {i \in Invoice : ledger.charges[i] > 0 \/ i \in ledger.reversed}
Entry == [p \in Payment |-> IF p \in ledger.booked THEN payment[p].amount ELSE 0]

(* A step that books nothing and keeps the amounts of booked payments is a *)
(* stutter of the ledger.                                                  *)
LEMMA BookStutters ==
  ASSUME ledger' = ledger,
         \A p \in ledger.booked : payment'[p].amount = payment[p].amount
  PROVE  UNCHANGED Book!bookVars
BY DEF Book!bookVars

(* Issuing an invoice appends its charges, and voiding it their reversal   *)
(* unless they were reversed before.                                       *)
LEMMA ChargeBooks ==
  ASSUME IInv, BillingAssumption, NEW i \in Invoice,
         Charge(i) \/ (Void(i) /\ \A p \in Payment : payment'[p].amount = payment[p].amount)
  PROVE  [Book!Next]_Book!bookVars
<1>1. ledger \in Ledger /\ TotalOf[i] \in Nat /\ TotalOf[i] > 0 /\ ledger.booked \subseteq Payment
  BY DEF IInv, TypeOK, Ledger, BillingAssumption
<1>2. CASE Charge(i)
  <2>1. i \notin ledger.reversed /\ ledger.charges[i] = 0
    BY <1>2 DEF Charge, IInv, ReversedOnce, BooksMatchRows
  <2>2. /\ ledger'.charges = [ledger.charges EXCEPT ![i] = @ + TotalOf[i]]
        /\ ledger'.booked = ledger.booked /\ ledger'.reversed = ledger.reversed
        /\ ledger'.prepaid = ledger.prepaid /\ ledger'.applied = ledger.applied
        /\ payment' = payment
    BY <1>1, <1>2 DEF Charge, Ledger
  <2>3. Charged' = Charged \cup {i} /\ i \notin Charged
    BY <1>1, <2>1, <2>2 DEF Charged, Ledger
  <2>4. Entry' = Entry
    BY <2>2 DEF Entry
  <2> QED BY <2>2, <2>3, <2>4 DEF Book!Next, Book!Charge, Charged, Entry
<1>3. CASE Void(i) /\ \A p \in Payment : payment'[p].amount = payment[p].amount
  <2>1. /\ ledger'.booked = ledger.booked /\ ledger'.reversed = ledger.reversed \cup {i}
        /\ ledger'.prepaid = ledger.prepaid /\ ledger'.applied = ledger.applied
        /\ ledger'.charges = [ledger.charges EXCEPT ![i] =
             IF i \in ledger.reversed THEN ledger.charges[i] ELSE ledger.charges[i] - TotalOf[i]]
    BY <1>1, <1>3 DEF Void, Reverse, Ledger
  <2>2. Entry' = Entry
    BY <1>1, <1>3, <2>1 DEF Entry
  <2>3. i \in Charged
    BY <1>1, <1>3 DEF Charged, Void, IInv, ReversedOnce
  <2>4. Charged' = Charged
    BY <1>1, <2>1, <2>3 DEF Charged, Ledger
  <2>5. CASE i \in ledger.reversed
    BY <2>1, <2>2, <2>4, <2>5 DEF Book!bookVars, Charged, Entry
  <2>6. CASE i \notin ledger.reversed
    BY <2>1, <2>2, <2>3, <2>4, <2>6 DEF Book!Next, Book!Reverse, Charged, Entry
  <2> QED BY <2>5, <2>6
<1> QED BY <1>2, <1>3

(* A commit enters the payment it settles; credit is spent only with it    *)
(* and never beyond what was prepaid.                                      *)
LEMMA CommitBooks ==
  ASSUME IInv, BillingAssumption, NEW h \in Handler, CommitSettle(h)
  PROVE  Book!Next
<1> DEFINE r == req[h]
<1>0. PICK p \in Payment : p = r.pay
  BY DEF CommitSettle, IInv, RequestsNameRows
<1>1. /\ r.inv \in Invoice /\ r.amount \in Nat /\ r.amount > 0
      /\ r.method \in Method /\ r.cancels \subseteq Payment
      /\ payment[p].status \in {"none", "PENDING"} /\ p \notin r.cancels
      /\ \A q \in r.cancels : payment[q].status = "PENDING"
  BY <1>0 DEF CommitSettle, IInv, TypeOK, RequestsNameRows, LocksHold, Settling, Request
<1>2. p \notin ledger.booked /\ \A q \in r.cancels : q \notin ledger.booked
  BY <1>1 DEF IInv, BooksMatchRows, SettledIsReceipted
<1>3. /\ payment' = SettledRows(r) /\ BookPayment(r) /\ CreditCovers(r)
      /\ payment[p] \in PaymentRow
      /\ ledger \in Ledger /\ ledger.booked \subseteq Payment
      /\ ledger.applied \in Nat /\ ledger.prepaid \in Nat /\ credit \in Nat
  BY <1>1 DEF CommitSettle, IInv, TypeOK, Ledger
<1>4. /\ payment'[p].amount = r.amount
      /\ \A q \in ledger.booked : payment'[q] = payment[q]
  BY <1>0, <1>1, <1>2, <1>3 DEF SettledRows, PaymentRow
<1>5. /\ ledger'.booked = ledger.booked \cup {p}
      /\ ledger'.charges = ledger.charges /\ ledger'.reversed = ledger.reversed
      /\ ledger'.prepaid = ledger.prepaid
      /\ ledger'.applied = IF r.method = "prepaid" THEN ledger.applied + r.amount
                           ELSE ledger.applied
  BY <1>0, <1>3 DEF BookPayment, Ledger
<1>6. Charged' = Charged
  BY <1>5 DEF Charged
<1>7. /\ Entry[p] = 0 /\ Entry'[p] = r.amount
      /\ Entry' = [Entry EXCEPT ![p] = Entry'[p]]
  BY <1>1, <1>2, <1>4, <1>5 DEF Entry
<1>8. CASE r.method = "prepaid"
  <2>1. ledger'.applied = ledger.applied + r.amount /\ ledger'.applied <= ledger'.prepaid
    BY <1>1, <1>3, <1>5, <1>8 DEF CreditCovers, IInv, CreditConserved
  <2> HIDE DEF r
  <2>2. Entry[p] = 0 /\ Entry'[p] > 0 /\ Entry' = [Entry EXCEPT ![p] = Entry'[p]]
        /\ ledger'.applied = ledger.applied + Entry'[p]
    BY <1>1, <1>7, <2>1
  <2>3. Book!Apply(p)
    <3>1. Book!Enter(p)
      BY <2>2 DEF Book!Enter, Entry
    <3> QED BY <1>5, <1>6, <2>1, <2>2, <3>1 DEF Book!Apply, Charged, Entry
  <2> QED BY <2>3 DEF Book!Next
<1>9. CASE r.method # "prepaid"
  <2> HIDE DEF r
  <2>1. Entry[p] = 0 /\ Entry'[p] > 0 /\ Entry' = [Entry EXCEPT ![p] = Entry'[p]]
    BY <1>1, <1>7
  <2>2. Book!Receive(p)
    <3>1. Book!Enter(p)
      BY <2>1 DEF Book!Enter, Entry
    <3> QED BY <1>5, <1>6, <1>9, <3>1 DEF Book!Receive, Charged
  <2> QED BY <2>2 DEF Book!Next
<1> QED BY <1>8, <1>9
(* A prepayment enlarges what was prepaid.                                 *)
LEMMA PrepayBooks ==
  ASSUME IInv, NEW h \in Handler, NEW a \in Nat, AddCredit(h, a)
  PROVE  [Book!Next]_Book!bookVars
<1>1. /\ ledger'.booked = ledger.booked /\ ledger'.applied = ledger.applied
      /\ ledger'.charges = ledger.charges /\ ledger'.reversed = ledger.reversed
      /\ ledger'.prepaid = ledger.prepaid + a /\ ledger.prepaid \in Nat
      /\ payment' = payment
  BY DEF AddCredit, IInv, TypeOK, Ledger
<1>2. CASE a = 0
  BY <1>1, <1>2 DEF Book!bookVars
<1>3. CASE a > 0
  BY <1>1, <1>3 DEF Book!Next, Book!Prepay
<1> QED BY <1>2, <1>3

(* The requests that write payment rows.                                   *)
LEMMA PaymentWriters ==
  ASSUME [Next]_vars
  PROVE  \/ UNCHANGED payment
         \/ \E h \in Handler : \/ \E p \in Payment : PayInsert(h, p)
                               \/ PayCancel(h) \/ VoidWrite(h) \/ DismissWrite(h) \/ CommitSettle(h)
         \/ \E p \in Payment : GatewayFails(p) \/ FlagForReview(p) \/ ApproveReviewed(p)
<1>1. ASSUME NEW h \in Handler, Continue(h)
      PROVE  \/ UNCHANGED payment \/ \E p \in Payment : PayInsert(h, p)
             \/ PayCancel(h) \/ VoidWrite(h) \/ DismissWrite(h) \/ CommitSettle(h)
  BY <1>1 DEF Continue, ManualSettle, CreditSettle, BeginSettle, InsufficientCredit, ListOpen,
     CreditRead, AdvanceInsert, BookVoidWrite, SweepWrite, Remind
<1>2. ASSUME NEW h \in Handler, Start(h) \/ Crash(h)
      PROVE  UNCHANGED payment
  BY <1>2 DEF Start, Crash, IssueInvoice, Charge, PayRead, VoidRead, BookVoidRead, ManualRead,
     GatewaySettle, BeginSettle, DismissRead, RecordPrepayment, AddCredit, AdvanceCancel,
     AdvanceSettle, SweepRead
<1>3. CASE Environment
  BY <1>3 DEF Environment, IssueBookingInvoice, Charge, GatewayDecides, AdvanceFails,
     AdvanceDecides, Tick
<1> QED BY <1>1, <1>2, <1>3 DEF Next, vars

(* Rows change their amount only before they are booked.                   *)
LEMMA BookedAmountsStay ==
  ASSUME IInv, [Next]_vars, ~ \E h \in Handler : CommitSettle(h)
  PROVE  \A p \in ledger.booked : payment'[p].amount = payment[p].amount
<1>1. \A p \in ledger.booked : p \in Payment /\ payment[p].status # "none"
                                           /\ payment[p] \in PaymentRow
  BY DEF IInv, TypeOK, Ledger, BooksMatchRows, SettledIsReceipted
<1>2. ASSUME NEW h \in Handler, NEW p \in Payment, PayInsert(h, p)
      PROVE  \A q \in ledger.booked : payment'[q].amount = payment[q].amount
  BY <1>1, <1>2 DEF PayInsert, Fresh
<1>3. ASSUME NEW S \in SUBSET Payment, payment' = WithStatus(S, "CANCELLED")
      PROVE  \A q \in ledger.booked : payment'[q].amount = payment[q].amount
  BY <1>1, <1>3 DEF WithStatus, PaymentRow
<1>4. ASSUME NEW h \in Handler, PayCancel(h) \/ VoidWrite(h)
      PROVE  \A q \in ledger.booked : payment'[q].amount = payment[q].amount
  BY <1>3, <1>4 DEF PayCancel, VoidWrite, PendingOf
<1>5. ASSUME NEW p \in Payment,
             \/ GatewayFails(p) \/ FlagForReview(p) \/ ApproveReviewed(p)
             \/ payment' = [payment EXCEPT ![p].status = "CANCELLED"]
      PROVE  \A q \in ledger.booked : payment'[q].amount = payment[q].amount
  <2>1. payment \in [Payment -> PaymentRow]
    BY DEF IInv, TypeOK
  <2> QED BY <1>1, <1>5, <2>1 DEF GatewayFails, FlagForReview, ApproveReviewed, PaymentRow
<1>6. ASSUME NEW h \in Handler, DismissWrite(h)
      PROVE  \A q \in ledger.booked : payment'[q].amount = payment[q].amount
  BY <1>5, <1>6 DEF DismissWrite, IInv, RequestsNameRows
<1>7. CASE UNCHANGED payment
  BY <1>7
<1>8. \/ UNCHANGED payment
      \/ \E h \in Handler : \/ \E p \in Payment : PayInsert(h, p)
                            \/ PayCancel(h) \/ VoidWrite(h) \/ DismissWrite(h) \/ CommitSettle(h)
      \/ \E p \in Payment : GatewayFails(p) \/ FlagForReview(p) \/ ApproveReviewed(p)
  BY PaymentWriters
<1> QED
  BY <1>2, <1>4, <1>5, <1>6, <1>7, <1>8

(* Only charges, reversals, commits and prepayments write the ledger.      *)
LEMMA LedgerWriters ==
  ASSUME IInv, BillingAssumption, [Next]_vars
  PROVE  \/ UNCHANGED ledger
         \/ \E h \in Handler : \/ CommitSettle(h) \/ VoidWrite(h) \/ BookVoidWrite(h)
                               \/ \E a \in Nat : AddCredit(h, a)
         \/ \E i \in Invoice : Charge(i)
<1>1. ASSUME NEW h \in Handler, Continue(h)
      PROVE  UNCHANGED ledger \/ CommitSettle(h) \/ VoidWrite(h) \/ BookVoidWrite(h)
  BY <1>1 DEF Continue, ManualSettle, CreditSettle, BeginSettle, InsufficientCredit, ListOpen,
     CreditRead, AdvanceInsert, SweepWrite, Remind, PayCancel, PayInsert, DismissWrite
<1>2. ASSUME NEW h \in Handler, Start(h) \/ Crash(h)
      PROVE  \/ UNCHANGED ledger
             \/ \E a \in Nat : AddCredit(h, a)
             \/ \E i \in Invoice : Charge(i)
  <2>1. Amount \subseteq Nat /\ \A v \in Advance : advance[v].amount \in Nat
    BY DEF BillingAssumption, IInv, TypeOK, AdvanceRow
  <2>2. CASE Crash(h)
    BY <2>2 DEF Crash
  <2>3. CASE Start(h)
    <3>1. CASE \E v \in Advance : AdvanceSettle(h, v)
      BY <2>1, <3>1 DEF AdvanceSettle
    <3>2. CASE \E a \in Amount : RecordPrepayment(h, a)
      BY <2>1, <3>2 DEF RecordPrepayment
    <3>3. CASE \E i \in Invoice : IssueInvoice(h, i)
      BY <3>3 DEF IssueInvoice
    <3> QED BY <2>3, <3>1, <3>2, <3>3 DEF Start, PayRead, VoidRead, BookVoidRead, ManualRead,
               GatewaySettle, BeginSettle, DismissRead, AdvanceCancel, SweepRead
  <2> QED BY <1>2, <2>2, <2>3
<1>3. CASE Environment
  BY <1>3 DEF Environment, IssueBookingInvoice, GatewayDecides, GatewayFails, FlagForReview,
     ApproveReviewed, AdvanceFails, AdvanceDecides, Tick
<1> QED BY <1>1, <1>2, <1>3 DEF Next, vars

(* Every step of the requests is a step of the ledger, or a stutter.       *)
LEMMA StepBooks ==
  ASSUME IInv, BillingAssumption, [Next]_vars
  PROVE  [Book!Next]_Book!bookVars
<1>1. CASE \E h \in Handler : CommitSettle(h)
  BY <1>1, CommitBooks
<1>2. ASSUME NEW i \in Invoice, Charge(i)
      PROVE  [Book!Next]_Book!bookVars
  BY <1>2, ChargeBooks
<1>3. ASSUME NEW h \in Handler, NEW a \in Nat, AddCredit(h, a)
      PROVE  [Book!Next]_Book!bookVars
  BY <1>3, PrepayBooks
<1>4. ASSUME NEW h \in Handler, VoidWrite(h) \/ BookVoidWrite(h)
      PROVE  [Book!Next]_Book!bookVars
  <2>1. req[h].inv \in Invoice /\ Void(req[h].inv)
    BY <1>4 DEF VoidWrite, BookVoidWrite, Void, IInv, RequestsNameRows
  <2>2. \A p \in Payment : payment[p] \in PaymentRow
    BY DEF IInv, TypeOK
  <2>3. \A p \in Payment : payment'[p].amount = payment[p].amount
    BY <1>4, <2>2 DEF VoidWrite, BookVoidWrite, WithStatus, PaymentRow
  <2>4. PICK i \in Invoice : i = req[h].inv
    BY <2>1
  <2>5. Void(i)
    BY <2>1, <2>4 DEF Void, Reverse
  <2> QED BY <2>3, <2>5, ChargeBooks
<1>5. ASSUME UNCHANGED ledger, ~ \E h \in Handler : CommitSettle(h)
      PROVE  [Book!Next]_Book!bookVars
  BY <1>5, BookedAmountsStay, BookStutters
<1> QED
  BY <1>1, <1>2, <1>3, <1>4, <1>5, LedgerWriters

(* No step takes a payment out of FAILED or CANCELLED.                     *)
LEMMA StepKeepsDead ==
  ASSUME IInv, [Next]_vars, NEW p \in Payment, payment[p].status \in {"FAILED", "CANCELLED"}
  PROVE  payment'[p].status \in {"FAILED", "CANCELLED"}
<1>0. /\ payment \in [Payment -> PaymentRow] /\ payment[p] \in PaymentRow
      /\ payment[p].status \notin {"none", "PENDING"}
  BY DEF IInv, TypeOK
<1>1. ASSUME NEW h \in Handler, CommitSettle(h)
      PROVE  payment'[p].status \in {"FAILED", "CANCELLED"}
  <2>1. p # req[h].pay /\ p \notin req[h].cancels
    BY <1>0, <1>1 DEF CommitSettle, IInv, LocksHold, Settling
  <2> QED BY <1>1, <2>1 DEF CommitSettle, SettledRows
<1>2. ASSUME NEW h \in Handler, NEW q \in Payment, PayInsert(h, q)
      PROVE  payment'[p].status \in {"FAILED", "CANCELLED"}
  BY <1>0, <1>2 DEF PayInsert, Fresh
<1>3. ASSUME NEW h \in Handler, PayCancel(h) \/ VoidWrite(h)
      PROVE  payment'[p].status \in {"FAILED", "CANCELLED"}
  BY <1>0, <1>3 DEF PayCancel, VoidWrite, WithStatus, PendingOf
<1>4. ASSUME NEW q \in Payment, GatewayFails(q) \/ FlagForReview(q) \/ ApproveReviewed(q)
      PROVE  payment'[p].status \in {"FAILED", "CANCELLED"}
  BY <1>0, <1>4 DEF GatewayFails, FlagForReview, ApproveReviewed
<1>5. ASSUME NEW h \in Handler, DismissWrite(h)
      PROVE  payment'[p].status \in {"FAILED", "CANCELLED"}
  <2>1. payment' = [payment EXCEPT ![req[h].pay].status = "CANCELLED"]
    BY <1>5 DEF DismissWrite
  <2> QED BY <1>0, <2>1 DEF PaymentRow
<1>6. \/ UNCHANGED payment
      \/ \E h \in Handler : \/ \E q \in Payment : PayInsert(h, q)
                            \/ PayCancel(h) \/ VoidWrite(h) \/ DismissWrite(h) \/ CommitSettle(h)
      \/ \E q \in Payment : GatewayFails(q) \/ FlagForReview(q) \/ ApproveReviewed(q)
  BY PaymentWriters
<1> QED
  BY <1>1, <1>2, <1>3, <1>4, <1>5, <1>6

(* A settled gateway payment was paid, and a PAID invoice is booked in     *)
(* full: consequences of the invariant.                                    *)
LEMMA IInvImplies ==
  ASSUME IInv, BillingAssumption
  PROVE  /\ TypeOK /\ CreditConserved /\ PaidIsBooked /\ ReversedOnce
         /\ SettledIsReceipted /\ SettledWasPaid /\ PaidIsCovered
<1>1. SettledWasPaid
  BY DEF IInv, SettlingIsCleared, Cleared, Flagged, SettledWasPaid
<1>2. PaidIsCovered
  <2>1. ASSUME NEW i \in Invoice, invoice[i].status = "PAID"
        PROVE  ledger.payments[i] >= TotalOf[i]
    <3>1. /\ ledger.payments[i] \in Nat /\ invoice[i].paid \in Int /\ TotalOf[i] \in Nat
          /\ invoice[i].paid <= ledger.payments[i]
      BY DEF IInv, TypeOK, Ledger, PaidIsBooked, BillingAssumption
    <3>2. invoice[i].paid >= TotalOf[i]
      BY <2>1 DEF IInv, SumsBooked
    <3> QED BY <3>1, <3>2
  <2> QED BY <2>1 DEF PaidIsCovered
<1> QED
  BY <1>1, <1>2 DEF IInv, BooksMatchRows

-----------------------------------------------------------------------------
(* The invariant holds of every behaviour: whatever createPayment, the     *)
(* gateway callbacks, recordManualPayment, applyCreditToInvoice, the voids *)
(* and the sweep interleave, crashes included.                             *)
THEOREM Invariance == Spec => []IInv
<1>1. Init => IInv
  BY BillingAssumption, InitSafe
<1>2. IInv /\ [Next]_vars => IInv'
  BY BillingAssumption, StepSafe
<1> QED BY <1>1, <1>2, PTL DEF Spec

(* Every row and request is one the code can write.                        *)
THEOREM TypeCorrect == Spec => []TypeOK
<1>1. IInv => TypeOK
  BY BillingAssumption, IInvImplies
<1> QED BY <1>1, Invariance, PTL

(* No credit is lost or spent twice: consumeCredit's conditional decrement *)
(* holds against every race.                                               *)
THEOREM CreditIsConserved == Spec => []CreditConserved
<1>1. IInv => CreditConserved
  BY BillingAssumption, IInvImplies
<1> QED BY <1>1, Invariance, PTL

(* amountPaid never exceeds the PAYMENT entries that settleInvoice booked. *)
THEOREM PaidIsAlwaysBooked == Spec => []PaidIsBooked
<1>1. IInv => PaidIsBooked
  BY BillingAssumption, IInvImplies
<1> QED BY <1>1, Invariance, PTL

(* An invoice settleInvoice marked PAID has its whole total booked.        *)
THEOREM PaidIsAlwaysCovered == Spec => []PaidIsCovered
<1>1. IInv => PaidIsCovered
  BY BillingAssumption, IInvImplies
<1> QED BY <1>1, Invariance, PTL

(* However many times an invoice is voided, reverseInvoiceCharges undoes   *)
(* its charges once.                                                       *)
THEOREM ChargesReversedOnce == Spec => []ReversedOnce
<1>1. IInv => ReversedOnce
  BY BillingAssumption, IInvImplies
<1> QED BY <1>1, Invariance, PTL

(* A gateway payment settles only when it was paid in full, or short with  *)
(* management's approval or through the DuitNow inquiry, in every race of  *)
(* callbacks, polls, flags and approvals.                                  *)
THEOREM SettledAttemptWasPaid == Spec => []SettledWasPaid
<1>1. IInv => SettledWasPaid
  BY BillingAssumption, IInvImplies
<1> QED BY <1>1, Invariance, PTL

(* Settled payments and only they have ledger entries, and receipts unless *)
(* they move credit.                                                       *)
THEOREM SettledAlwaysReceipted == Spec => []SettledIsReceipted
<1>1. IInv => SettledIsReceipted
  BY BillingAssumption, IInvImplies
<1> QED BY <1>1, Invariance, PTL

(* No callback, poll or approval revives an attempt that failed or was     *)
(* cancelled.                                                              *)
THEOREM DeadStayDead == Spec => DeadAttemptsStayDead
<1>1. IInv /\ [Next]_vars
        => [\A p \in Payment : payment[p].status \in {"FAILED", "CANCELLED"}
              => payment'[p].status \in {"FAILED", "CANCELLED"}]_vars
  BY StepKeepsDead
<1> QED BY <1>1, Invariance, PTL DEF Spec, DeadAttemptsStayDead

(* The requests implement the append-only ledger of MoneyBook.             *)
THEOREM Refinement == Spec => LedgerAppendOnly
<1>1. Init => Book!Init
  BY DEF Init, Book!Init
<1>2. IInv /\ [Next]_vars => [Book!Next]_Book!bookVars
  BY BillingAssumption, StepBooks
<1> QED BY <1>1, <1>2, Invariance, PTL DEF Spec, LedgerAppendOnly, Book!Spec

-----------------------------------------------------------------------------
(* Sums over finite sets of rows. MapThenSumSet is a fold, defined by      *)
(* choosing a recursive function; that the function exists, and that a sum *)
(* does not depend on the order, follows from the smallest set for which   *)
(* it would fail.                                                          *)

AmountsOf(rows, S) == MapThenSumSet(LAMBDA p : rows[p].amount, S)

(* The element the fold takes next, and the function it defines.           *)
Next1(s) == CHOOSE x \in s : TRUE
IsFold(g, rows, S) ==
  g = [s \in SUBSET S |-> IF s = {} THEN 0 ELSE rows[Next1(s)].amount + g[s \ {Next1(s)}]]

(* A family of subsets of a finite set has a smallest member.              *)
LEMMA Smallest ==
  ASSUME NEW S, IsFiniteSet(S), NEW B, B \subseteq SUBSET S, B # {}
  PROVE  \E T \in B : \A U \in B : U \subseteq T => U = T
<1>1. IsWellFoundedOn(StrictSubsetOrdering(S), SUBSET S)
  BY FS_StrictSubsetOrderingWellFounded, FS_FiniteSubsetsOfFinite
<1>2. PICK T \in B : \A U \in B : ~(<<U, T>> \in StrictSubsetOrdering(S))
  BY <1>1, WFMin
<1>3. ASSUME NEW U \in B, U \subseteq T, U # T
      PROVE  FALSE
  <2>1. <<U, T>> \in StrictSubsetOrdering(S)
    BY <1>3 DEF StrictSubsetOrdering
  <2> QED BY <1>2, <2>1
<1> QED BY <1>3

(* The sum is the value of its fold at the whole set.                      *)
LEMMA AmountsFold ==
  ASSUME NEW rows, NEW S
  PROVE  AmountsOf(rows, S) = (CHOOSE g : IsFold(g, rows, S))[S]
BY DEF AmountsOf, MapThenSumSet, MapThenFoldSet, IsFold, Next1

(* The element the fold takes is one of the set.                           *)
LEMMA NextIn ==
  ASSUME NEW s, s # {}
  PROVE  Next1(s) \in s /\ s \ {Next1(s)} \subseteq s /\ s \ {Next1(s)} # s
         /\ s = (s \ {Next1(s)}) \cup {Next1(s)}
BY DEF Next1

(* The folds over two sets agree on what both take in.                     *)
LEMMA FoldsAgree ==
  ASSUME NEW S, IsFiniteSet(S), NEW T, NEW rows, NEW other, NEW g, NEW h,
         IsFold(g, rows, S), IsFold(h, other, T), S \subseteq T,
         \A p \in S : rows[p].amount = other[p].amount
  PROVE  \A s \in SUBSET S : g[s] = h[s]
<1> DEFINE B == {s \in SUBSET S : g[s] # h[s]}
<1>1. SUFFICES ASSUME B # {} PROVE FALSE
  OBVIOUS
<1>2. PICK s \in B : \A u \in B : u \subseteq s => u = s
  <2>1. B \subseteq SUBSET S
    OBVIOUS
  <2> HIDE DEF B
  <2> QED BY <1>1, <2>1, Smallest
<1>3. s \in SUBSET S /\ s \in SUBSET T /\ g[s] # h[s]
  OBVIOUS
<1>4. /\ g[s] = IF s = {} THEN 0 ELSE rows[Next1(s)].amount + g[s \ {Next1(s)}]
      /\ h[s] = IF s = {} THEN 0 ELSE other[Next1(s)].amount + h[s \ {Next1(s)}]
  BY <1>3 DEF IsFold
<1>5. CASE s = {}
  BY <1>3, <1>4, <1>5
<1>6. CASE s # {}
  <2>1. g[s \ {Next1(s)}] = h[s \ {Next1(s)}]
    BY <1>2, <1>3, <1>6, NextIn
  <2>2. rows[Next1(s)].amount = other[Next1(s)].amount
    BY <1>3, <1>6, NextIn
  <2> QED BY <1>3, <1>4, <1>6, <2>1, <2>2
<1> QED BY <1>5, <1>6

(* The fold over S.                                                         *)
Fold(rows, S) == CHOOSE g : IsFold(g, rows, S)

(* The fold of a finite set exists: of the subsets without one, a smallest *)
(* has smaller ones, and their folds make its own.                         *)
LEMMA FoldExists ==
  ASSUME NEW S, IsFiniteSet(S), NEW rows
  PROVE  IsFold(Fold(rows, S), rows, S)
<1> DEFINE B == {s \in SUBSET S : ~IsFold(Fold(rows, s), rows, s)}
<1>1. SUFFICES ASSUME B # {} PROVE FALSE
  OBVIOUS
<1>2. PICK T \in B : \A u \in B : u \subseteq T => u = T
  <2>1. B \subseteq SUBSET S
    OBVIOUS
  <2> HIDE DEF B
  <2> QED BY <1>1, <2>1, Smallest
<1>3. \A s \in SUBSET T : s # T => IsFold(Fold(rows, s), rows, s)
  BY <1>2
<1> DEFINE At(s) == Fold(rows, s)[s]
           g == [s \in SUBSET T |-> IF s = {} THEN 0 ELSE rows[Next1(s)].amount + At(s \ {Next1(s)})]
<1>4. ASSUME NEW s \in SUBSET T, s # T
      PROVE  g[s] = At(s)
  <2>1. IsFold(Fold(rows, s), rows, s)
    BY <1>3, <1>4
  <2>2. At(s) = IF s = {} THEN 0 ELSE rows[Next1(s)].amount + Fold(rows, s)[s \ {Next1(s)}]
    BY <2>1 DEF IsFold
  <2>3. CASE s # {}
    <3> DEFINE u == s \ {Next1(s)}
    <3>1. u \subseteq s /\ u # T /\ u \in SUBSET T
      BY <1>4, <2>3, NextIn
    <3>2. IsFold(Fold(rows, u), rows, u) /\ IsFiniteSet(u)
      BY <1>3, <3>1, FS_Subset
    <3>3. Fold(rows, s)[u] = At(u)
      <4> HIDE DEF u
      <4>1. \A v \in SUBSET u : Fold(rows, u)[v] = Fold(rows, s)[v]
        BY <2>1, <3>1, <3>2, FoldsAgree
      <4> QED BY <4>1
    <3> QED BY <2>2, <2>3, <3>3
  <2> QED BY <2>2, <2>3
<1>5. IsFold(g, rows, T)
  <2>1. ASSUME NEW s \in SUBSET T, s # {}
        PROVE  g[s \ {Next1(s)}] = At(s \ {Next1(s)})
    <3>1. s \ {Next1(s)} \in SUBSET T /\ s \ {Next1(s)} # T
      BY <2>1, NextIn
    <3> QED BY <1>4, <3>1
  <2> HIDE DEF At
  <2>2. g = [s \in SUBSET T |-> IF s = {} THEN 0 ELSE rows[Next1(s)].amount + g[s \ {Next1(s)}]]
    BY <2>1
  <2> QED BY <2>2 DEF IsFold
<1> HIDE DEF g
<1>6. IsFold(Fold(rows, T), rows, T)
  BY <1>5 DEF Fold
<1> QED BY <1>2, <1>6

(* Over no rows, and over one more.                                        *)
LEMMA AmountsEmpty ==
  ASSUME NEW rows
  PROVE  AmountsOf(rows, {}) = 0
BY FoldExists, FS_EmptySet, AmountsFold DEF Fold, IsFold

(* One step of the fold: the sum is that element and the sum of the rest.  *)
LEMMA AmountsNext ==
  ASSUME NEW rows, NEW S, IsFiniteSet(S), S # {}
  PROVE  AmountsOf(rows, S) = rows[Next1(S)].amount + AmountsOf(rows, S \ {Next1(S)})
<1> DEFINE U == S \ {Next1(S)}
<1>1. U \subseteq S /\ IsFiniteSet(U)
  BY NextIn, FS_Subset
<1>2. IsFold(Fold(rows, S), rows, S) /\ IsFold(Fold(rows, U), rows, U)
  BY <1>1, FoldExists
<1>3. Fold(rows, S)[S] = rows[Next1(S)].amount + Fold(rows, S)[U]
  BY <1>2 DEF IsFold
<1>4. Fold(rows, U)[U] = Fold(rows, S)[U]
  <2> HIDE DEF U
  <2>1. \A v \in SUBSET U : Fold(rows, U)[v] = Fold(rows, S)[v]
    BY <1>1, <1>2, FoldsAgree
  <2> QED BY <2>1
<1> QED BY <1>3, <1>4, AmountsFold DEF Fold

(* Amounts of cents sum to cents.                                          *)
LEMMA AmountsNat ==
  ASSUME NEW rows, NEW S, IsFiniteSet(S), \A p \in S : rows[p].amount \in Nat
  PROVE  AmountsOf(rows, S) \in Nat
<1> DEFINE B == {s \in SUBSET S : AmountsOf(rows, s) \notin Nat}
<1>1. SUFFICES ASSUME B # {} PROVE FALSE
  OBVIOUS
<1>2. PICK s \in B : \A u \in B : u \subseteq s => u = s
  <2>1. B \subseteq SUBSET S
    OBVIOUS
  <2> HIDE DEF B
  <2> QED BY <1>1, <2>1, Smallest
<1>3. s \in SUBSET S /\ IsFiniteSet(s) /\ AmountsOf(rows, s) \notin Nat
  BY FS_Subset
<1>4. s # {}
  BY <1>3, AmountsEmpty
<1>5. AmountsOf(rows, s \ {Next1(s)}) \in Nat
  BY <1>2, <1>3, <1>4, NextIn
<1>6. rows[Next1(s)].amount \in Nat
  BY <1>3, <1>4, NextIn
<1> QED BY <1>3, <1>4, <1>5, <1>6, AmountsNext

(* A row that joins the sum adds its amount, whatever order the fold       *)
(* takes.                                                                  *)
LEMMA AmountsAdd ==
  ASSUME NEW rows, NEW S, IsFiniteSet(S), \A p \in S : rows[p].amount \in Nat,
         NEW q, q \notin S, rows[q].amount \in Nat
  PROVE  AmountsOf(rows, S \cup {q}) = AmountsOf(rows, S) + rows[q].amount
<1> DEFINE R == S \cup {q}
           Bad(s) == \E x \in R \ s : AmountsOf(rows, s \cup {x}) # AmountsOf(rows, s) + rows[x].amount
           B == {s \in SUBSET R : Bad(s)}
<1>0. IsFiniteSet(R) /\ \A p \in R : rows[p].amount \in Nat
  BY FS_AddElement
<1>1. SUFFICES ASSUME B # {} PROVE FALSE
  <2>1. S \in SUBSET R /\ q \in R \ S
    OBVIOUS
  <2> QED BY <2>1
<1>2. PICK s \in B : \A u \in B : u \subseteq s => u = s
  <2>1. B \subseteq SUBSET R
    OBVIOUS
  <2> HIDE DEF B, R
  <2> QED BY <1>0, <1>1, <2>1, Smallest
<1>3. PICK x \in R \ s : AmountsOf(rows, s \cup {x}) # AmountsOf(rows, s) + rows[x].amount
  BY <1>2
<1> DEFINE t == s \cup {x}
           y == Next1(t)
<1>4. /\ s \in SUBSET R /\ t \in SUBSET R /\ x \in R /\ x \notin s /\ t # {}
      /\ IsFiniteSet(s) /\ IsFiniteSet(t) /\ y \in t
  <2>1. s \in SUBSET R /\ t \in SUBSET R /\ x \in R /\ x \notin s /\ t # {}
    OBVIOUS
  <2> HIDE DEF R
  <2> QED BY <1>0, <2>1, FS_Subset, NextIn
<1>5. AmountsOf(rows, t) = rows[y].amount + AmountsOf(rows, t \ {y})
  BY <1>4, AmountsNext
<1>6. /\ rows[x].amount \in Nat /\ rows[y].amount \in Nat
      /\ \A u \in SUBSET R : AmountsOf(rows, u) \in Nat
  <2> HIDE DEF R, y, t
  <2>1. rows[x].amount \in Nat /\ rows[y].amount \in Nat
    BY <1>0, <1>4
  <2>2. ASSUME NEW u \in SUBSET R PROVE AmountsOf(rows, u) \in Nat
    BY <1>0, FS_Subset, AmountsNat
  <2> QED BY <2>1, <2>2
<1>7. CASE y = x
  <2>1. t \ {y} = s
    BY <1>4, <1>7
  <2>2. AmountsOf(rows, t) = rows[x].amount + AmountsOf(rows, s)
    BY <1>5, <1>7, <2>1
  <2>3. rows[x].amount \in Nat /\ AmountsOf(rows, s) \in Nat
    BY <1>4, <1>6
  <2> HIDE DEF R
  <2> QED BY <1>3, <2>2, <2>3
<1>8. CASE y # x
  <2> DEFINE u == s \ {y}
  <2>1. y \in s /\ u \subseteq s /\ u # s /\ u \in SUBSET R /\ u \cup {y} = s
        /\ t \ {y} = u \cup {x} /\ x \notin u /\ y \notin u /\ y \in R
    BY <1>4, <1>8
  <2>2. u \notin B
    BY <1>2, <2>1
  <2>3. /\ AmountsOf(rows, u \cup {x}) = AmountsOf(rows, u) + rows[x].amount
        /\ AmountsOf(rows, u \cup {y}) = AmountsOf(rows, u) + rows[y].amount
    BY <1>4, <2>1, <2>2
  <2>4. AmountsOf(rows, u) \in Nat
    BY <1>6, <2>1
  <2> HIDE DEF u, R, y
  <2> QED BY <1>3, <1>5, <1>6, <2>1, <2>3, <2>4
<1> QED BY <1>7, <1>8

(* Rows that show the same amounts have the same sum.                      *)
LEMMA AmountsEqual ==
  ASSUME NEW rows, NEW other, NEW S, IsFiniteSet(S),
         \A p \in S : rows[p].amount = other[p].amount
  PROVE  AmountsOf(rows, S) = AmountsOf(other, S)
<1>1. IsFold(Fold(rows, S), rows, S) /\ IsFold(Fold(other, S), other, S)
  BY FoldExists
<1>2. Fold(rows, S)[S] = Fold(other, S)[S]
  BY <1>1, FoldsAgree
<1> QED BY <1>2, AmountsFold DEF Fold

-----------------------------------------------------------------------------
(* Requests apart: no two are at work on one invoice. The invariant says   *)
(* that what a request read is still so, and that an invoice shows the sum *)
(* of its payments.                                                        *)

(* What a request read still holds of the rows it will act on.             *)
Sound(h) ==
  LET r == req[h] IN
  /\ r.pc \in {"payCancel", "payInsert", "manual", "credit"} => Open(r.inv)
  /\ r.pc = "manual" => r.amount <= Outstanding(r.inv)
  /\ r.pc \in {"void", "bookVoid"} => Voidable(r.inv)
  /\ r.pc = "bookVoid" => r.inv \in BookingInvoice
  /\ r.pc = "dismiss" => payment[r.pay].status # "SUCCEEDED"
  /\ r.pc = "overdue" => \A i \in r.todo : invoice[i].status \in {"ISSUED", "PARTIAL"}
  /\ r.pc = "settle" =>
       /\ r.sum = succeeded[r.inv] + r.amount
       /\ payment[r.pay].status = "PENDING" =>
            payment[r.pay].inv = r.inv /\ payment[r.pay].amount = r.amount
       /\ r.inv \notin BookingInvoice => invoice[r.inv].status # "VOID"
       /\ r.method = "manual" => r.sum <= TotalOf[r.inv]

(* What an invoice shows is what its payments come to.                     *)
Exact(i) ==
  /\ invoice[i].paid = succeeded[i] /\ succeeded[i] >= 0
  /\ Open(i) => succeeded[i] < TotalOf[i]
  /\ invoice[i].status \in {"none", "VOID"} => succeeded[i] = 0
  /\ invoice[i].status = "VOID" /\ i \notin BookingInvoice => PendingOf(i) = {}

Counted(p) ==
  payment[p].status = "SUCCEEDED" => succeeded[payment[p].inv] >= payment[p].amount

SerialInv ==
  /\ \A h \in Handler : Sound(h)
  /\ \A i \in Invoice : Exact(i)
  /\ \A p \in Payment : Counted(p)

(* The rows a request is at work on are as they were.                      *)
Undisturbed(h) ==
  /\ req'[h] = req[h]
  /\ \A i \in Concerns(h) : invoice'[i] = invoice[i] /\ succeeded'[i] = succeeded[i]
  /\ req[h].pc = "dismiss" =>
       (payment'[req[h].pay].status = "SUCCEEDED" => payment[req[h].pay].status = "SUCCEEDED")
  /\ req[h].pc = "settle" => payment'[req[h].pay] = payment[req[h].pay]

(* A request nobody disturbed can still rely on what it read.              *)
LEMMA StaysSound ==
  ASSUME IInv, NEW h \in Handler, Sound(h), Undisturbed(h)
  PROVE  Sound(h)'
<1>1. /\ req[h] \in Request /\ req'[h] = req[h]
      /\ req[h].todo \subseteq Invoice /\ 0 \notin Invoice
  BY DEF IInv, TypeOK, Request, Undisturbed, Invoice
<1>2. /\ req[h].pc \in {"payCancel", "payInsert", "manual", "credit", "settle", "void", "bookVoid"}
           => req[h].inv \in Concerns(h)
      /\ req[h].todo \subseteq Concerns(h)
  BY <1>1 DEF IInv, RequestsNameRows, Concerns
<1>3. \A i \in Concerns(h) : invoice'[i] = invoice[i] /\ succeeded'[i] = succeeded[i]
  BY DEF Undisturbed
<1> QED
  BY <1>1, <1>2, <1>3 DEF Sound, Undisturbed, Open, Outstanding, Voidable

(* Steps that leave the invoices and their sums alone, and settle no       *)
(* payment row: only the requests that move need a look.                   *)
LEMMA SerialMoves ==
  ASSUME IInv, SerialInv, UNCHANGED <<invoice, succeeded>>,
         \A h \in Handler : Undisturbed(h) \/ Sound(h)',
         \A p \in Payment :
           /\ payment'[p].status = "SUCCEEDED" =>
                /\ payment[p].status = "SUCCEEDED"
                /\ payment'[p].inv = payment[p].inv /\ payment'[p].amount = payment[p].amount
           /\ payment'[p].status = "PENDING" =>
                \/ payment[p].status = "PENDING" /\ payment'[p].inv = payment[p].inv
                \/ invoice[payment'[p].inv].status # "VOID"
  PROVE  SerialInv'
<1>1. \A h \in Handler : Sound(h)'
  BY StaysSound DEF SerialInv
<1>2. ASSUME NEW i \in Invoice PROVE Exact(i)'
  BY DEF SerialInv, Exact, Open, PendingOf
<1>3. \A p \in Payment : Counted(p)'
  BY DEF SerialInv, Counted
<1> QED BY <1>1, <1>2, <1>3 DEF SerialInv

(* A request that moves to one of these has nothing it relies on.          *)
LEMMA RestIsSound ==
  ASSUME NEW h \in Handler,
         req'[h].pc \in {"idle", "list", "apply", "advInsert", "remind"}
  PROVE  Sound(h)'
BY DEF Sound

(* A step of one request that leaves the rows alone.                       *)
LEMMA SerialQuiet ==
  ASSUME IInv, SerialInv, NEW h \in Handler, UNCHANGED <<invoice, payment, succeeded>>,
         \A g \in Handler : g # h => req'[g] = req[g], Sound(h)'
  PROVE  SerialInv'
<1>1. \A g \in Handler : Undisturbed(g) \/ Sound(g)'
  BY DEF Undisturbed
<1>2. \A p \in Payment : payment'[p] = payment[p]
  OBVIOUS
<1> QED BY <1>1, <1>2, SerialMoves

(* What a request reads when it starts is so.                              *)
LEMMA ReadIsSound ==
  ASSUME IInv, SerialInv, NEW h \in Handler, UNCHANGED <<invoice, payment, succeeded>>,
         \/ \E i \in Invoice : \/ PayRead(h, i) \/ VoidRead(h, i) \/ BookVoidRead(h, i)
                               \/ \E a \in Amount : ManualRead(h, i, a)
         \/ \E p \in Payment : DismissRead(h, p)
         \/ SweepRead(h)
  PROVE  Sound(h)' /\ \A g \in Handler : g # h => req'[g] = req[g]
<1>1. req \in [Handler -> Request]
  BY DEF IInv, TypeOK
<1>2. ASSUME NEW i \in Invoice, PayRead(h, i)
      PROVE  Sound(h)' /\ \A g \in Handler : g # h => req'[g] = req[g]
  BY <1>1, <1>2 DEF PayRead, Goto, Idle, Sound, Open
<1>3. ASSUME NEW i \in Invoice, VoidRead(h, i) \/ BookVoidRead(h, i)
      PROVE  Sound(h)' /\ \A g \in Handler : g # h => req'[g] = req[g]
  <2>1. /\ req'[h].pc \in {"void", "bookVoid"} /\ req'[h].inv = i
        /\ \A g \in Handler : g # h => req'[g] = req[g]
        /\ Voidable(i) /\ (req'[h].pc = "bookVoid" => i \in BookingInvoice)
    BY <1>1, <1>3 DEF VoidRead, BookVoidRead, Goto, Idle
  <2>2. Voidable(i)'
    BY <2>1 DEF Voidable, Open
  <2> QED BY <2>1, <2>2 DEF Sound
<1>4. ASSUME NEW i \in Invoice, NEW a \in Amount, ManualRead(h, i, a)
      PROVE  Sound(h)' /\ \A g \in Handler : g # h => req'[g] = req[g]
  BY <1>1, <1>4 DEF ManualRead, Goto, Idle, Sound, Outstanding, Open
<1>5. ASSUME NEW p \in Payment, DismissRead(h, p)
      PROVE  Sound(h)' /\ \A g \in Handler : g # h => req'[g] = req[g]
  BY <1>1, <1>5 DEF DismissRead, Goto, Idle, Sound
<1>6. ASSUME SweepRead(h)
      PROVE  Sound(h)' /\ \A g \in Handler : g # h => req'[g] = req[g]
  BY <1>1, <1>6 DEF SweepRead, Goto, Idle, Sound, OverdueIds
<1> QED BY <1>2, <1>3, <1>4, <1>5, <1>6

(* Beginning to settle: the sum it carries is the one the commit is to     *)
(* write.                                                                  *)
LEMMA BeginIsSound ==
  ASSUME IInv, SerialInv, BillingAssumption, NEW h \in Handler, NEW p \in Payment,
         GatewaySettle(h, p) \/ ManualSettle(h, p) \/ CreditSettle(h, p)
  PROVE  SerialInv'
<1>1. /\ req \in [Handler -> Request] /\ req[h] \in Request /\ Sound(h)
      /\ UNCHANGED <<invoice, payment, succeeded>>
  BY DEF IInv, TypeOK, SerialInv, GatewaySettle, ManualSettle, CreditSettle, BeginSettle
<1>2. CASE GatewaySettle(h, p)
  <2>1. PICK r : r = req'[h]
    OBVIOUS
  <2>2. /\ r.pc = "settle" /\ r.inv = payment[p].inv /\ r.pay = p
        /\ r.amount = payment[p].amount /\ r.method = "gateway"
        /\ r.sum = succeeded[payment[p].inv] + payment[p].amount
        /\ \A g \in Handler : g # h => req'[g] = req[g]
    BY <1>1, <1>2, <2>1 DEF GatewaySettle, BeginSettle, Goto, Aggregate
  <2>3. payment[p].inv \in Invoice /\ payment[p].status = "PENDING"
    BY <1>2 DEF GatewaySettle, Claim, IInv, BooksMatchRows
  <2>4. payment[p].inv \notin BookingInvoice => invoice[payment[p].inv].status # "VOID"
    BY <2>3 DEF SerialInv, Exact, PendingOf
  <2>5. Sound(h)'
    BY <1>1, <2>1, <2>2, <2>4 DEF Sound
  <2> QED BY <1>1, <2>2, <2>5, SerialQuiet
<1>3. CASE ManualSettle(h, p) \/ CreditSettle(h, p)
  <2>1. PICK r : r = req'[h]
    OBVIOUS
  <2>2. /\ r.pc = "settle" /\ r.inv = req[h].inv /\ r.pay = p
        /\ r.amount = req[h].amount
        /\ r.method = IF req[h].pc = "manual" THEN "manual" ELSE "prepaid"
        /\ r.sum = succeeded[req[h].inv] + req[h].amount
        /\ \A g \in Handler : g # h => req'[g] = req[g]
        /\ payment[p].status = "none" /\ req[h].pc \in {"manual", "credit"}
    BY <1>1, <1>3, <2>1 DEF ManualSettle, CreditSettle, BeginSettle, Goto, Aggregate, Fresh
  <2>3. req[h].inv \in Invoice /\ Open(req[h].inv) /\ Exact(req[h].inv)
    BY <1>1, <2>2 DEF SerialInv, Sound, IInv, RequestsNameRows
  <2>4. req[h].pc = "manual" => succeeded[req[h].inv] + req[h].amount <= TotalOf[req[h].inv]
    <3>1. /\ req[h].amount \in Nat /\ succeeded[req[h].inv] \in Int
          /\ TotalOf[req[h].inv] \in Nat
      BY <1>1, <2>3 DEF Request, IInv, TypeOK, BillingAssumption
    <3> QED BY <1>1, <2>3, <3>1 DEF Sound, Outstanding, Exact
  <2>5. Sound(h)'
    BY <1>1, <2>1, <2>2, <2>3, <2>4 DEF Sound, Open
  <2> QED BY <1>1, <2>2, <2>5, SerialQuiet
<1> QED BY <1>2, <1>3

(* The steps that withdraw payments and touch no invoice.                  *)
LEMMA WithdrawalIsSound ==
  ASSUME IInv, SerialInv, UNCHANGED <<invoice, succeeded>>,
         \A g \in Handler : req'[g] = req[g] \/ Sound(g)',
         \A p \in Payment : payment'[p] = payment[p] \/ Withdrawn(p)
  PROVE  SerialInv'
<1>1. ASSUME NEW g \in Handler, req'[g] = req[g]
      PROVE  Undisturbed(g)
  <2>1. req[g].pc = "settle" => req[g].pay \in Payment /\ req[g].pay \in LockedPayments
    BY DEF IInv, RequestsNameRows, LockedPayments, Settling
  <2>2. req[g].pc = "dismiss" => req[g].pay \in Payment
    BY DEF IInv, RequestsNameRows
  <2> QED BY <1>1, <2>1, <2>2 DEF Undisturbed, Withdrawn
<1>2. \A g \in Handler : Undisturbed(g) \/ Sound(g)'
  BY <1>1
<1>3. ASSUME NEW p \in Payment
      PROVE  /\ payment'[p].status = "SUCCEEDED" =>
                /\ payment[p].status = "SUCCEEDED"
                /\ payment'[p].inv = payment[p].inv /\ payment'[p].amount = payment[p].amount
             /\ payment'[p].status = "PENDING" =>
                \/ payment[p].status = "PENDING" /\ payment'[p].inv = payment[p].inv
                \/ invoice[payment'[p].inv].status # "VOID"
  BY DEF Withdrawn
<1> QED BY <1>2, <1>3, SerialMoves

(* createPayment's updateMany and the write of dismissReviewedPayment.     *)
LEMMA WithdrawSerial ==
  ASSUME IInv, SerialInv, BillingAssumption, NEW h \in Handler,
         PayCancel(h) \/ DismissWrite(h)
  PROVE  SerialInv'
<1>1. /\ req \in [Handler -> Request] /\ payment \in [Payment -> PaymentRow] /\ Sound(h)
      /\ TypeOK
  BY DEF IInv, TypeOK, SerialInv
<1>2. CASE PayCancel(h)
  <2>1. /\ req'[h].pc = "payInsert" /\ req'[h].inv = req[h].inv
        /\ \A g \in Handler : g # h => req'[g] = req[g]
        /\ UNCHANGED <<invoice, succeeded>>
    <3>1. /\ req' = [req EXCEPT ![h] = [req[h] EXCEPT !.pc = "payInsert"]]
          /\ UNCHANGED <<invoice, succeeded>>
      BY <1>2 DEF PayCancel, Goto
    <3>2. req[h] \in Request
      BY <1>1
    <3> QED BY <1>1, <3>1, <3>2 DEF Request
  <2>2. Open(req[h].inv)
    BY <1>1, <1>2 DEF PayCancel, Sound
  <2>3. Sound(h)'
    BY <2>1, <2>2 DEF Sound, Open
  <2>4. req[h].inv \in Invoice
    BY <1>2 DEF PayCancel, IInv, RequestsNameRows
  <2>5. \A p \in Payment : payment'[p] = payment[p] \/ Withdrawn(p)
    BY <1>1, <1>2, <2>4, CancelPending DEF PayCancel
  <2> QED BY <2>1, <2>3, <2>5, WithdrawalIsSound
<1>3. CASE DismissWrite(h)
  <2> DEFINE p == req[h].pay
  <2>1. /\ p \in Payment /\ payment[p].status # "none" /\ p \notin LockedPayments
        /\ payment[p].status # "SUCCEEDED"
    BY <1>1, <1>3 DEF DismissWrite, IInv, RequestsNameRows, Sound
  <2>2. /\ UNCHANGED <<invoice, succeeded>> /\ req'[h].pc = "idle"
        /\ \A g \in Handler : g # h => req'[g] = req[g]
    BY <1>1, <1>3, <2>1 DEF DismissWrite, Finish, Goto, Idle
  <2>3. Sound(h)'
    BY <2>2, RestIsSound
  <2>4. ASSUME NEW q \in Payment PROVE payment'[q] = payment[q] \/ Withdrawn(q)
    <3>1. payment[q] \in PaymentRow
      BY <1>1
    <3>2. payment'[q] = IF q = p THEN [payment[q] EXCEPT !.status = "CANCELLED"] ELSE payment[q]
      BY <1>1, <1>3 DEF DismissWrite
    <3> HIDE DEF p
    <3> QED BY <2>1, <3>1, <3>2 DEF Withdrawn, Flagged, PaymentRow
  <2> QED BY <2>2, <2>3, <2>4, WithdrawalIsSound
<1> QED BY <1>2, <1>3

(* A failed, flagged or approved payment.                                  *)
LEMMA RowSerial ==
  ASSUME IInv, SerialInv, NEW p \in Payment,
         GatewayFails(p) \/ FlagForReview(p) \/ ApproveReviewed(p)
  PROVE  SerialInv'
<1>1. payment[p] \in PaymentRow /\ payment[p].status = "PENDING" /\ p \notin LockedPayments
  BY DEF GatewayFails, FlagForReview, ApproveReviewed, IInv, TypeOK
<1>2. /\ \/ payment'[p] = [payment[p] EXCEPT !.status = "FAILED"]
         \/ payment'[p] = [payment[p] EXCEPT !.review = TRUE] /\ gateway[p] = "short"
         \/ payment'[p] = [payment[p] EXCEPT !.approved = TRUE] /\ payment[p].review
      /\ \A q \in Payment : q # p => payment'[q] = payment[q]
      /\ UNCHANGED <<invoice, succeeded, req>>
  BY DEF GatewayFails, FlagForReview, ApproveReviewed, IInv, TypeOK
<1>3. Withdrawn(p)
  BY <1>1, <1>2 DEF Withdrawn, Flagged, PaymentRow
<1> QED BY <1>2, <1>3, WithdrawalIsSound

(* createPayment's insert: its invoice is still open.                      *)
LEMMA InsertSerial ==
  ASSUME IInv, SerialInv, NEW h \in Handler, NEW p \in Payment, PayInsert(h, p)
  PROVE  SerialInv'
<1>1. /\ req \in [Handler -> Request] /\ payment \in [Payment -> PaymentRow] /\ Sound(h)
  BY DEF IInv, TypeOK, SerialInv
<1>2. /\ req'[h].pc = "idle" /\ \A g \in Handler : g # h => req'[g] = req[g]
      /\ payment'[p].status = "PENDING" /\ payment'[p].inv = req[h].inv
      /\ \A q \in Payment : q # p => payment'[q] = payment[q]
      /\ UNCHANGED <<invoice, succeeded>>
  BY <1>1 DEF PayInsert, Finish, Goto, Idle, NoRow
<1>3. Open(req[h].inv) /\ p \notin LockedPayments
  BY <1>1 DEF PayInsert, Sound, Fresh
<1>4. Sound(h)'
  BY <1>2, RestIsSound
<1>5. ASSUME NEW g \in Handler, g # h
      PROVE  Undisturbed(g)
  <2>1. req[g].pc = "settle" => req[g].pay \in Payment /\ req[g].pay \in LockedPayments
    BY DEF IInv, RequestsNameRows, LockedPayments, Settling
  <2>2. req[g].pc = "dismiss" => req[g].pay \in Payment
    BY DEF IInv, RequestsNameRows
  <2> QED BY <1>2, <1>3, <1>5, <2>1, <2>2 DEF Undisturbed
<1>6. \A g \in Handler : Undisturbed(g) \/ Sound(g)'
  BY <1>4, <1>5
<1>7. \A q \in Payment :
        /\ payment'[q].status = "SUCCEEDED" =>
                /\ payment[q].status = "SUCCEEDED"
                /\ payment'[q].inv = payment[q].inv /\ payment'[q].amount = payment[q].amount
        /\ payment'[q].status = "PENDING" =>
                \/ payment[q].status = "PENDING" /\ payment'[q].inv = payment[q].inv
                \/ invoice[payment'[q].inv].status # "VOID"
  BY <1>2, <1>3 DEF Open
<1> QED BY <1>2, <1>6, <1>7, SerialMoves

(* What one request is at work on, no other is.                            *)
LEMMA NotOthers ==
  ASSUME IInv, Apart, NEW h \in Handler, NEW g \in Handler, g # h
  PROVE  /\ req[h].inv \in Invoice => req[h].inv \notin Concerns(g)
         /\ \A i \in req[h].todo : i \notin Concerns(g)
<1>1. req[h].todo \subseteq Invoice /\ 0 \notin Invoice
  BY DEF IInv, TypeOK, Request, Invoice
<1>2. Concerns(g) \cap Concerns(h) = {}
  BY DEF Apart
<1> QED BY <1>1, <1>2 DEF Concerns

(* What a request is at work on are invoices.                              *)
LEMMA ConcernsInvoices ==
  ASSUME IInv, NEW g \in Handler
  PROVE  Concerns(g) \subseteq Invoice
<1>1. req[g].pc = "dismiss" => payment[req[g].pay].inv \in Invoice
  BY DEF IInv, RequestsNameRows, BooksMatchRows
<1> QED BY <1>1 DEF IInv, TypeOK, Request, Concerns

(* Voiding an invoice that is still unpaid.                                *)
LEMMA VoidSerial ==
  ASSUME IInv, SerialInv, Apart, BillingAssumption, NEW h \in Handler,
         VoidWrite(h) \/ BookVoidWrite(h)
  PROVE  SerialInv'
<1>0. /\ TypeOK /\ invoice \in [Invoice -> [status : InvoiceStatus, paid : Int]]
      /\ req \in [Handler -> Request] /\ Sound(h)
  BY DEF IInv, TypeOK, SerialInv
<1>1. PICK i \in Invoice : i = req[h].inv
  BY DEF VoidWrite, BookVoidWrite, IInv, RequestsNameRows
<1>2. /\ invoice'[i].status = "VOID" /\ invoice'[i].paid = invoice[i].paid
      /\ \A j \in Invoice : j # i => invoice'[j] = invoice[j]
      /\ succeeded' = succeeded
      /\ Voidable(i)
  BY <1>0, <1>1 DEF VoidWrite, BookVoidWrite, Sound
<1>3. req'[h].pc = "idle" /\ \A g \in Handler : g # h => req'[g] = req[g]
  BY <1>0 DEF VoidWrite, BookVoidWrite, Finish, Goto, Idle
<1>4. /\ \A p \in Payment : payment'[p] = payment[p] \/ Withdrawn(p)
      /\ i \in BookingInvoice \/ PendingOf(i)' = {}
  <2>1. CASE VoidWrite(h)
    BY <1>0, <1>1, <2>1, CancelPending DEF VoidWrite
  <2>2. CASE BookVoidWrite(h)
    BY <1>0, <1>1, <2>2 DEF BookVoidWrite, Sound
  <2> QED BY <2>1, <2>2
<1>5. ASSUME NEW g \in Handler, g # h
      PROVE  Undisturbed(g)
  <2>1. req[g].pc = "settle" => req[g].pay \in Payment /\ req[g].pay \in LockedPayments
    BY DEF IInv, RequestsNameRows, LockedPayments, Settling
  <2>2. req[g].pc = "dismiss" => req[g].pay \in Payment
    BY DEF IInv, RequestsNameRows
  <2>3. i \notin Concerns(g)
    BY <1>1, <1>5, NotOthers
  <2>4. Concerns(g) \subseteq Invoice
    BY ConcernsInvoices
  <2> QED BY <1>2, <1>3, <1>4, <1>5, <2>1, <2>2, <2>3, <2>4 DEF Undisturbed, Withdrawn
<1>6. \A g \in Handler : Sound(g)'
  <2>1. Sound(h)'
    BY <1>3, RestIsSound
  <2> QED BY <1>5, <2>1, StaysSound DEF SerialInv
<1>7. ASSUME NEW j \in Invoice PROVE Exact(j)'
  <2>1. Exact(j)
    BY DEF SerialInv
  <2>2. CASE j = i
    <3>1. invoice[i].paid = 0 /\ succeeded'[i] = succeeded[i]
      BY <1>2 DEF Voidable
    <3> QED BY <1>2, <1>4, <2>1, <2>2, <3>1 DEF Exact, Open
  <2>3. CASE j # i
    <3>1. invoice'[j] = invoice[j] /\ succeeded'[j] = succeeded[j]
      BY <1>2, <2>3
    <3>2. PendingOf(j)' \subseteq PendingOf(j)
      BY <1>4 DEF PendingOf, Withdrawn
    <3> QED BY <2>1, <3>1, <3>2 DEF Exact, Open
  <2> QED BY <2>2, <2>3
<1>8. \A p \in Payment : Counted(p)'
  BY <1>2, <1>4 DEF SerialInv, Counted, Withdrawn
<1> QED BY <1>6, <1>7, <1>8 DEF SerialInv

(* markOverdue, on invoices that are still unpaid.                         *)
LEMMA SweepSerial ==
  ASSUME IInv, SerialInv, Apart, NEW h \in Handler, SweepWrite(h)
  PROVE  SerialInv'
<1>0. /\ invoice \in [Invoice -> [status : InvoiceStatus, paid : Int]]
      /\ req \in [Handler -> Request] /\ Sound(h)
  BY DEF IInv, TypeOK, SerialInv
<1>1. /\ \A i \in Invoice : invoice'[i].paid = invoice[i].paid
      /\ \A i \in Invoice : i \in req[h].todo =>
           invoice'[i].status = "OVERDUE" /\ invoice[i].status \in {"ISSUED", "PARTIAL"}
      /\ \A i \in Invoice : i \notin req[h].todo => invoice'[i] = invoice[i]
      /\ UNCHANGED <<payment, succeeded>>
  BY <1>0 DEF SweepWrite, Sound
<1>2. req'[h].pc \in {"idle", "remind"} /\ \A g \in Handler : g # h => req'[g] = req[g]
  BY <1>0 DEF SweepWrite, Goto, Idle
<1>3. ASSUME NEW g \in Handler, g # h
      PROVE  Undisturbed(g)
  <2>1. \A i \in Concerns(g) : i \notin req[h].todo
    BY <1>3, NotOthers
  <2>2. Concerns(g) \subseteq Invoice
    BY ConcernsInvoices
  <2> QED BY <1>1, <1>2, <1>3, <2>1, <2>2 DEF Undisturbed
<1>4. \A g \in Handler : Sound(g)'
  <2>1. Sound(h)'
    BY <1>2, RestIsSound
  <2> QED BY <1>3, <2>1, StaysSound DEF SerialInv
<1>5. ASSUME NEW j \in Invoice PROVE Exact(j)'
  <2>1. Exact(j) /\ succeeded'[j] = succeeded[j] /\ PendingOf(j)' = PendingOf(j)
    BY <1>1 DEF SerialInv, PendingOf
  <2>2. /\ Open(j)' => Open(j)
        /\ invoice'[j].status \in {"none", "VOID"} => invoice'[j] = invoice[j]
    BY <1>1 DEF Open
  <2> QED BY <1>1, <2>1, <2>2 DEF Exact
<1>6. \A p \in Payment : Counted(p)'
  BY <1>1 DEF SerialInv, Counted
<1> QED BY <1>4, <1>5, <1>6 DEF SerialInv

(* An invoice just issued: nobody is at work on it yet.                    *)
LEMMA ChargeSerial ==
  ASSUME IInv, SerialInv, BillingAssumption, NEW i \in Invoice,
         IssueBookingInvoice(i) \/ \E h \in Handler : IssueInvoice(h, i)
  PROVE  SerialInv'
<1>0. /\ invoice \in [Invoice -> [status : InvoiceStatus, paid : Int]]
      /\ req \in [Handler -> Request] /\ TotalOf[i] > 0 /\ TotalOf[i] \in Nat
  BY DEF IInv, TypeOK, BillingAssumption
<1>1. /\ invoice[i].status = "none" /\ invoice'[i].status = "ISSUED"
      /\ invoice'[i].paid = invoice[i].paid
      /\ \A j \in Invoice : j # i => invoice'[j] = invoice[j]
      /\ UNCHANGED <<payment, succeeded>>
  BY <1>0 DEF IssueBookingInvoice, IssueInvoice, Charge
<1>2. \A g \in Handler : req'[g] = req[g] \/ req'[g].pc = "apply"
  BY <1>0 DEF IssueBookingInvoice, IssueInvoice, Goto, Idle
<1>3. ASSUME NEW g \in Handler PROVE Sound(g)'
  <2>1. CASE req'[g].pc = "apply"
    BY <2>1, RestIsSound
  <2>2. CASE req'[g] = req[g]
    <3>1. Sound(g)
      BY DEF SerialInv
    <3>2. req[g].pc \in {"payCancel", "payInsert", "manual", "credit", "settle", "void", "bookVoid"}
            => /\ req[g].inv \in Invoice /\ req[g].inv # i
               /\ invoice'[req[g].inv] = invoice[req[g].inv]
      BY <1>1 DEF IInv, RequestsNameRows
    <3>3. req[g].pc = "overdue" => \A j \in req[g].todo : j # i /\ invoice'[j] = invoice[j]
      <4>1. req[g].todo \subseteq Invoice
        BY <1>0 DEF Request
      <4> QED BY <1>1, <3>1, <4>1 DEF Sound
    <3> QED BY <1>1, <2>2, <3>1, <3>2, <3>3 DEF Sound, Open, Outstanding, Voidable
  <2> QED BY <1>2, <2>1, <2>2
<1>4. ASSUME NEW j \in Invoice PROVE Exact(j)'
  BY <1>0, <1>1 DEF SerialInv, Exact, Open, PendingOf
<1>5. \A p \in Payment : Counted(p)'
  BY <1>1 DEF SerialInv, Counted
<1> QED BY <1>3, <1>4, <1>5 DEF SerialInv

(* The rows a commit leaves.                                               *)
LEMMA CommitRows ==
  ASSUME NEW h \in Handler, CommitSettle(h), req[h] \in Request,
         payment \in [Payment -> PaymentRow],
         NEW i \in Invoice, NEW p \in Payment, NEW a \in Nat,
         i = req[h].inv, p = req[h].pay, a = req[h].amount,
         \A q \in req[h].cancels : q # p
  PROVE  /\ payment'[p].status = "SUCCEEDED" /\ payment'[p].inv = i /\ payment'[p].amount = a
         /\ payment'[p].method = req[h].method
         /\ \A q \in req[h].cancels : payment'[q].status = "CANCELLED"
         /\ \A q \in Payment : q # p /\ q \notin req[h].cancels => payment'[q] = payment[q]
<1>1. payment' = SettledRows(req[h]) /\ payment[p] \in PaymentRow
      /\ req[h].cancels \subseteq Payment /\ \A q \in Payment : payment[q] \in PaymentRow
  BY DEF CommitSettle, Request
<1>2. payment'[p] = [payment[p] EXCEPT !.status = "SUCCEEDED", !.inv = i,
                                       !.amount = a, !.method = req[h].method]
  BY <1>1 DEF SettledRows
<1>3. \A q \in req[h].cancels : payment'[q] = [payment[q] EXCEPT !.status = "CANCELLED"]
  BY <1>1 DEF SettledRows
<1>4. /\ payment'[p].status = "SUCCEEDED" /\ payment'[p].inv = i /\ payment'[p].amount = a
      /\ payment'[p].method = req[h].method
  BY <1>1, <1>2 DEF PaymentRow
<1>5. ASSUME NEW q \in req[h].cancels PROVE payment'[q].status = "CANCELLED"
  <2>1. payment[q] \in PaymentRow /\ payment'[q] = [payment[q] EXCEPT !.status = "CANCELLED"]
    BY <1>1, <1>3
  <2> QED BY <2>1 DEF PaymentRow
<1>6. \A q \in Payment : q # p /\ q \notin req[h].cancels => payment'[q] = payment[q]
  BY <1>1 DEF SettledRows
<1> QED BY <1>4, <1>5, <1>6

(* The commit of a settlement makes its invoice exact.                     *)
LEMMA CommitSerial ==
  ASSUME IInv, SerialInv, Apart, BillingAssumption, NEW h \in Handler, CommitSettle(h)
  PROVE  SerialInv'
<1>0. /\ invoice \in [Invoice -> [status : InvoiceStatus, paid : Int]]
      /\ req \in [Handler -> Request] /\ req[h] \in Request
      /\ payment \in [Payment -> PaymentRow]
      /\ succeeded \in [Invoice -> Int]
      /\ Sound(h) /\ h \in Settling
  BY DEF IInv, TypeOK, SerialInv, Settling, CommitSettle
<1>1. PICK i \in Invoice, p \in Payment, a \in Nat : i = req[h].inv /\ p = req[h].pay /\ a = req[h].amount
  BY <1>0 DEF CommitSettle, IInv, RequestsNameRows, Request
<1>2. /\ a > 0 /\ succeeded[i] >= 0 /\ invoice[i].status # "none"
      /\ Exact(i)
      /\ req[h].sum = succeeded[i] + a
      /\ payment[p].status \in {"none", "PENDING"}
      /\ payment[p].status = "PENDING" => payment[p].inv = i
      /\ i \notin BookingInvoice => invoice[i].status # "VOID"
      /\ \A q \in req[h].cancels : q # p /\ payment[q].status = "PENDING"
  BY <1>0, <1>1 DEF CommitSettle, Sound, SerialInv, Exact, IInv, RequestsNameRows, LocksHold
<1>3. /\ invoice'[i] = [status |-> StatusForPaid(i, succeeded[i] + a), paid |-> succeeded[i] + a]
      /\ succeeded'[i] = succeeded[i] + a
      /\ \A j \in Invoice : j # i => invoice'[j] = invoice[j] /\ succeeded'[j] = succeeded[j]
  BY <1>0, <1>1, <1>2 DEF CommitSettle
<1>4. /\ payment'[p].status = "SUCCEEDED" /\ payment'[p].inv = i /\ payment'[p].amount = a
      /\ \A q \in req[h].cancels : payment'[q].status = "CANCELLED"
      /\ \A q \in Payment : q # p /\ q \notin req[h].cancels => payment'[q] = payment[q]
  BY <1>0, <1>1, <1>2, CommitRows
<1>5. req'[h].pc \in {"idle", "apply"} /\ \A g \in Handler : g # h => req'[g] = req[g]
  BY <1>0 DEF CommitSettle, Goto, NextOf, Idle
<1>6. ASSUME NEW g \in Handler, g # h
      PROVE  Undisturbed(g)
  <2>1. i \notin Concerns(g) /\ Concerns(g) \subseteq Invoice
    BY <1>1, <1>6, NotOthers, ConcernsInvoices
  <2>2. ASSUME req[g].pc = "settle"
        PROVE  payment'[req[g].pay] = payment[req[g].pay]
    <3>1. req[g].pay \in Payment /\ req[g].pay # p /\ req[g].pay \notin req[h].cancels
      BY <1>0, <1>1, <1>6, <2>2 DEF IInv, RequestsNameRows, LocksHold, Settling, Held
    <3> QED BY <1>4, <3>1
  <2>3. ASSUME req[g].pc = "dismiss", payment'[req[g].pay].status = "SUCCEEDED"
        PROVE  payment[req[g].pay].status = "SUCCEEDED"
    <3>1. /\ req[g].pay \in Payment /\ payment[req[g].pay].status # "none"
          /\ payment[req[g].pay].inv \in Invoice
      BY <2>3 DEF IInv, RequestsNameRows, BooksMatchRows
    <3>2. payment[req[g].pay].inv \in Concerns(g)
      BY <2>3, <3>1 DEF Concerns, Invoice
    <3>3. req[g].pay # p
      BY <1>2, <2>1, <3>1, <3>2
    <3>4. req[g].pay \notin req[h].cancels
      BY <1>4, <2>3
    <3> QED BY <1>4, <2>3, <3>1, <3>3, <3>4
  <2> QED BY <1>3, <1>5, <1>6, <2>1, <2>2, <2>3 DEF Undisturbed
<1>7. \A g \in Handler : Sound(g)'
  <2>1. Sound(h)'
    BY <1>5, RestIsSound
  <2> QED BY <1>6, <2>1, StaysSound DEF SerialInv
<1>8. ASSUME NEW j \in Invoice PROVE Exact(j)'
  <2>1. Exact(j)
    BY DEF SerialInv
  <2>2. CASE j = i
    <3>1. succeeded[i] \in Int /\ TotalOf[i] \in Nat
      BY <1>0 DEF BillingAssumption
    <3> QED BY <1>2, <1>3, <2>2, <3>1 DEF Exact, Open, StatusForPaid
  <2>3. CASE j # i
    <3>1. invoice'[j] = invoice[j] /\ succeeded'[j] = succeeded[j]
      BY <1>3, <2>3
    <3>2. PendingOf(j)' \subseteq PendingOf(j)
      BY <1>4 DEF PendingOf
    <3> QED BY <2>1, <3>1, <3>2 DEF Exact, Open
  <2> QED BY <2>2, <2>3
<1>9. ASSUME NEW q \in Payment PROVE Counted(q)'
  <2>1. CASE q = p
    <3>1. succeeded[i] \in Int
      BY <1>0
    <3> QED BY <1>2, <1>3, <1>4, <2>1, <3>1 DEF Counted
  <2>2. CASE q # p /\ payment'[q].status = "SUCCEEDED"
    <3>1. payment'[q] = payment[q] /\ Counted(q)
      BY <1>4, <2>2 DEF SerialInv
    <3>2. payment[q].inv \in Invoice /\ payment[q].amount \in Nat
      BY <1>0, <2>2, <3>1 DEF IInv, BooksMatchRows, PaymentRow
    <3>3. succeeded[payment[q].inv] \in Int /\ succeeded'[payment[q].inv] >= succeeded[payment[q].inv]
      BY <1>0, <1>2, <1>3, <3>2
    <3>4. succeeded'[payment[q].inv] \in Int
      BY <1>0, <1>3, <3>2
    <3> HIDE <1>3
    <3> QED BY <2>2, <3>1, <3>2, <3>3, <3>4 DEF Counted
  <2> QED BY <2>1, <2>2 DEF Counted
<1> QED BY <1>7, <1>8, <1>9 DEF SerialInv

(* The steps of a request that change neither rows nor sums.               *)
LEMMA QuietStepSerial ==
  ASSUME IInv, SerialInv, NEW h \in Handler,
         \/ InsufficientCredit(h) \/ ListOpen(h) \/ Crash(h)
         \/ \E i \in Invoice : CreditRead(h, i) \/ Remind(h, i)
         \/ \E v \in Advance : AdvanceInsert(h, v) \/ AdvanceSettle(h, v)
         \/ \E a \in Amount : RecordPrepayment(h, a) \/ AdvanceCancel(h, a)
  PROVE  SerialInv'
<1>0. /\ req \in [Handler -> Request] /\ req[h] \in Request
      /\ UNCHANGED <<invoice, payment, succeeded>>
  BY DEF IInv, TypeOK, InsufficientCredit, ListOpen, Crash, CreditRead, Remind, AdvanceInsert,
     AdvanceSettle, RecordPrepayment, AdvanceCancel, AddCredit
<1>1. CASE \E i \in Invoice : CreditRead(h, i)
  <2>1. PICK i \in Invoice : CreditRead(h, i)
    BY <1>1
  <2>2. CASE Goto(h, Idle) \/ Goto(h, NextOf(h, i))
    <3>1. req'[h].pc \in {"idle", "apply"} /\ \A g \in Handler : g # h => req'[g] = req[g]
      <4>1. Idle.pc = "idle" /\ NextOf(h, i).pc \in {"idle", "apply"}
        BY DEF NextOf, Idle
      <4> QED BY <1>0, <2>2, <4>1 DEF Goto
    <3> QED BY <1>0, <3>1, RestIsSound, SerialQuiet
  <2>3. CASE /\ Open(i)
             /\ \E a \in Int : Goto(h, [req[h] EXCEPT !.pc = "credit", !.inv = i, !.amount = a])
    <3>1. /\ req'[h].pc = "credit" /\ req'[h].inv = i
          /\ \A g \in Handler : g # h => req'[g] = req[g]
      BY <1>0, <2>3 DEF Goto, Request
    <3>2. Sound(h)'
      BY <1>0, <2>3, <3>1 DEF Sound, Open
    <3> QED BY <1>0, <3>1, <3>2, SerialQuiet
  <2>4. credit \in Int /\ Outstanding(i) \in Int
    <3>1. /\ credit \in Nat /\ invoice[i].paid \in Int /\ TotalOf[i] \in Nat
      BY BillingAssumption DEF IInv, TypeOK
    <3> QED BY <3>1 DEF Outstanding
  <2> QED BY <2>1, <2>2, <2>3, <2>4 DEF CreditRead, Finish
<1>2. CASE \/ InsufficientCredit(h) \/ ListOpen(h) \/ Crash(h)
           \/ \E i \in Invoice : Remind(h, i)
           \/ \E v \in Advance : AdvanceInsert(h, v) \/ AdvanceSettle(h, v)
           \/ \E a \in Amount : RecordPrepayment(h, a) \/ AdvanceCancel(h, a)
  <2>1. /\ req'[h].pc \in {"idle", "list", "apply", "advInsert", "remind"}
        /\ \A g \in Handler : g # h => req'[g] = req[g]
    <3>1. CASE InsufficientCredit(h) \/ Crash(h) \/ \E v \in Advance : AdvanceInsert(h, v)
      BY <1>0, <3>1 DEF InsufficientCredit, Crash, AdvanceInsert, Finish, Goto, Idle
    <3>2. CASE ListOpen(h)
      BY <1>0, <3>2 DEF ListOpen, Goto, Idle
    <3>3. CASE (\E v \in Advance : AdvanceSettle(h, v)) \/ \E a \in Amount : RecordPrepayment(h, a)
      BY <1>0, <3>3 DEF AdvanceSettle, RecordPrepayment, AddCredit, Goto, Idle
    <3>4. CASE \E a \in Amount : AdvanceCancel(h, a)
      BY <1>0, <3>4 DEF AdvanceCancel, Goto, Idle
    <3>5. CASE \E i \in Invoice : Remind(h, i)
      <4>1. \A T : [req[h] EXCEPT !.todo = T].pc = req[h].pc
        BY <1>0 DEF Request
      <4> QED BY <1>0, <3>5, <4>1 DEF Remind, Goto, Idle
    <3> QED BY <1>2, <3>1, <3>2, <3>3, <3>4, <3>5
  <2> QED BY <1>0, <2>1, RestIsSound, SerialQuiet
<1> QED BY <1>1, <1>2

(* Any step, while no two requests are at work on one invoice.             *)
LEMMA StepSerial ==
  ASSUME IInv, SerialInv, Apart, BillingAssumption, [Next]_vars
  PROVE  SerialInv'
<1>1. ASSUME NEW h \in Handler, Continue(h) \/ Crash(h)
      PROVE  SerialInv'
  BY <1>1, QuietStepSerial, WithdrawSerial, InsertSerial, BeginIsSound, CommitSerial, VoidSerial,
     SweepSerial DEF Continue
<1>2. ASSUME NEW h \in Handler, Start(h)
      PROVE  SerialInv'
  <2>1. CASE \/ \E i \in Invoice : \/ PayRead(h, i) \/ VoidRead(h, i) \/ BookVoidRead(h, i)
                                   \/ \E a \in Amount : ManualRead(h, i, a)
             \/ \E p \in Payment : DismissRead(h, p)
             \/ SweepRead(h)
    <3>1. UNCHANGED <<invoice, payment, succeeded>>
      BY <2>1 DEF PayRead, VoidRead, BookVoidRead, ManualRead, DismissRead, SweepRead
    <3>2. Sound(h)' /\ \A g \in Handler : g # h => req'[g] = req[g]
      BY <2>1, <3>1, ReadIsSound
    <3> QED BY <3>1, <3>2, SerialQuiet
  <2>2. CASE \E i \in Invoice : IssueInvoice(h, i)
    BY <2>2, ChargeSerial
  <2>3. CASE \E p \in Payment : GatewaySettle(h, p)
    BY <2>3, BeginIsSound
  <2>4. CASE \/ \E v \in Advance : AdvanceSettle(h, v)
             \/ \E a \in Amount : RecordPrepayment(h, a) \/ AdvanceCancel(h, a)
    BY <2>4, QuietStepSerial
  <2> QED BY <1>2, <2>1, <2>2, <2>3, <2>4 DEF Start
<1>3. CASE \E i \in Invoice : IssueBookingInvoice(i)
  BY <1>3, ChargeSerial
<1>4. CASE \E p \in Payment : GatewayFails(p) \/ FlagForReview(p) \/ ApproveReviewed(p)
  BY <1>4, RowSerial
<1>5. CASE \/ Tick \/ UNCHANGED vars
           \/ \E p \in Payment, o \in Outcome : GatewayDecides(p, o)
           \/ \E v \in Advance : AdvanceFails(v) \/ \E o \in Outcome : AdvanceDecides(v, o)
  <2>1. UNCHANGED <<invoice, payment, succeeded, req>>
    BY <1>5 DEF Tick, vars, GatewayDecides, AdvanceFails, AdvanceDecides
  <2>2. \A g \in Handler : Undisturbed(g)
    BY <2>1 DEF Undisturbed
  <2>3. \A p \in Payment : payment'[p] = payment[p]
    BY <2>1
  <2> QED BY <2>1, <2>2, <2>3, SerialMoves
<1> QED BY <1>1, <1>2, <1>3, <1>4, <1>5 DEF Next, Environment

(* A unit without invoices or payments.                                    *)
LEMMA InitSerial ==
  ASSUME BillingAssumption, Init
  PROVE  SerialInv
BY DEF Init, SerialInv, Sound, Exact, Counted, Idle, NoRow, Open, PendingOf, BillingAssumption

(* While no two requests are at work on one invoice, what each read        *)
(* outside its transaction (createPayment, recordManualPayment, the voids, *)
(* dismissReviewedPayment, the sweep) still holds when it writes.          *)
THEOREM ApartIsSerial == Spec /\ []Apart => []SerialInv
<1>1. Init => SerialInv
  BY BillingAssumption, InitSerial
<1>2. IInv /\ SerialInv /\ Apart /\ [Next]_vars => SerialInv'
  BY BillingAssumption, StepSerial
<1> QED BY <1>1, <1>2, Invariance, PTL DEF Spec

(* The shown amounts of OVERDUE and VOID invoices.                         *)
LEMMA SerialImplies ==
  ASSUME IInv, SerialInv
  PROVE  PaidNotOverdue /\ VoidHasNoPayments
<1>1. PaidNotOverdue
  BY DEF SerialInv, Exact, Open, PaidNotOverdue
<1>2. VoidHasNoPayments
  <2>1. ASSUME NEW i \in Invoice, invoice[i].status = "VOID", NEW p \in Rows(i)
        PROVE  FALSE
    <3>1. /\ p \in Payment /\ payment[p].status = "SUCCEEDED" /\ payment[p].inv = i
          /\ payment[p].amount > 0 /\ payment[p].amount \in Nat
      BY <2>1 DEF Rows, IInv, BooksMatchRows, TypeOK, PaymentRow
    <3>2. succeeded[i] >= payment[p].amount /\ succeeded[i] = 0
      BY <2>1, <3>1 DEF SerialInv, Counted, Exact
    <3> QED BY <3>1, <3>2
  <2> QED BY <2>1 DEF VoidHasNoPayments
<1> QED BY <1>1, <1>2

(* Requests on different invoices never leave an invoice settled in full   *)
(* OVERDUE: the sweep marks only what it read unpaid.                      *)
THEOREM PaidIsNotOverdue == Spec /\ []Apart => []PaidNotOverdue
<1>1. IInv /\ SerialInv => PaidNotOverdue
  BY SerialImplies
<1> QED BY <1>1, Invariance, ApartIsSerial, PTL

(* No payment is settled on a void invoice when no other request is at     *)
(* work on it: voidInvoice refuses one with payments and withdraws the     *)
(* pending ones.                                                           *)
THEOREM VoidHoldsNoMoney == Spec /\ []Apart => []VoidHasNoPayments
<1>1. IInv /\ SerialInv => VoidHasNoPayments
  BY SerialImplies
<1> QED BY <1>1, Invariance, ApartIsSerial, PTL

(* No step takes an invoice that is no booking's out of VOID.              *)
LEMMA StepKeepsVoid ==
  ASSUME IInv, SerialInv, [Next]_vars, NEW i \in Invoice \ BookingInvoice,
         invoice[i].status = "VOID"
  PROVE  invoice'[i].status = "VOID"
<1>0. /\ invoice \in [Invoice -> [status : InvoiceStatus, paid : Int]]
      /\ \A h \in Handler : Sound(h)
  BY DEF IInv, TypeOK, SerialInv
<1>1. ASSUME NEW h \in Handler, CommitSettle(h)
      PROVE  invoice'[i].status = "VOID"
  <2>1. req[h].inv # i
    BY <1>0, <1>1 DEF CommitSettle, Sound
  <2> QED BY <1>0, <1>1, <2>1 DEF CommitSettle
<1>2. ASSUME NEW h \in Handler, VoidWrite(h) \/ BookVoidWrite(h)
      PROVE  invoice'[i].status = "VOID"
  BY <1>0, <1>2 DEF VoidWrite, BookVoidWrite
<1>3. ASSUME NEW h \in Handler, SweepWrite(h)
      PROVE  invoice'[i].status = "VOID"
  BY <1>0, <1>3 DEF SweepWrite, Sound
<1>4. ASSUME NEW j \in Invoice, Charge(j)
      PROVE  invoice'[i].status = "VOID"
  BY <1>0, <1>4 DEF Charge
<1>5. \/ invoice' = invoice
      \/ \E h \in Handler : CommitSettle(h) \/ VoidWrite(h) \/ BookVoidWrite(h) \/ SweepWrite(h)
      \/ \E j \in Invoice : Charge(j)
  <2>1. ASSUME NEW h \in Handler, Continue(h) \/ Crash(h)
        PROVE  invoice' = invoice \/ CommitSettle(h) \/ VoidWrite(h) \/ BookVoidWrite(h) \/ SweepWrite(h)
    BY <2>1 DEF Continue, ManualSettle, CreditSettle, BeginSettle, InsufficientCredit, ListOpen,
       CreditRead, AdvanceInsert, Remind, PayCancel, PayInsert, DismissWrite, Crash
  <2>2. ASSUME NEW h \in Handler, Start(h)
        PROVE  invoice' = invoice \/ \E j \in Invoice : Charge(j)
    BY <2>2 DEF Start, IssueInvoice, PayRead, VoidRead, BookVoidRead, ManualRead,
       GatewaySettle, BeginSettle, DismissRead, AdvanceCancel, SweepRead, AdvanceSettle,
       RecordPrepayment, AddCredit
  <2>3. ASSUME Environment
        PROVE  invoice' = invoice \/ \E j \in Invoice : Charge(j)
    BY <2>3 DEF Environment, IssueBookingInvoice, GatewayDecides, GatewayFails, FlagForReview,
       ApproveReviewed, AdvanceFails, AdvanceDecides, Tick
  <2> QED BY <2>1, <2>2, <2>3 DEF Next, vars
<1> QED BY <1>1, <1>2, <1>3, <1>4, <1>5

(* Then voidInvoice is final, whatever callbacks come late: settleInvoice  *)
(* never reopens the invoice.                                              *)
THEOREM VoidStaysVoid == Spec /\ []Apart => VoidIsFinal
<1>1. IInv /\ SerialInv /\ [Next]_vars
        => [\A i \in Invoice \ BookingInvoice :
              invoice[i].status = "VOID" => invoice'[i].status = "VOID"]_vars
  BY StepKeepsVoid
<1> QED BY <1>1, Invariance, ApartIsSerial, PTL DEF Spec, VoidIsFinal

(* The commit of a manual payment stays within the total.                  *)
LEMMA StepWithinBalance ==
  ASSUME IInv, SerialInv, [Next]_vars, NEW p \in Payment,
         payment[p].status = "none", payment'[p].status = "SUCCEEDED",
         payment'[p].method = "manual"
  PROVE  succeeded'[payment'[p].inv] <= TotalOf[payment'[p].inv]
<1>0. payment \in [Payment -> PaymentRow] /\ payment[p] \in PaymentRow
  BY DEF IInv, TypeOK
<1>1. PICK h \in Handler : CommitSettle(h)
  <2>1. ASSUME NEW h \in Handler, NEW q \in Payment, PayInsert(h, q)
        PROVE  FALSE
    BY <1>0, <2>1 DEF PayInsert, NoRow
  <2>2. ASSUME NEW h \in Handler, PayCancel(h) \/ VoidWrite(h)
        PROVE  FALSE
    BY <2>2 DEF PayCancel, VoidWrite, WithStatus, PendingOf
  <2>3. ASSUME NEW q \in Payment, GatewayFails(q) \/ FlagForReview(q) \/ ApproveReviewed(q)
        PROVE  FALSE
    BY <1>0, <2>3 DEF GatewayFails, FlagForReview, ApproveReviewed
  <2>4. ASSUME NEW h \in Handler, DismissWrite(h)
        PROVE  FALSE
    <3>1. payment' = [payment EXCEPT ![req[h].pay].status = "CANCELLED"]
      BY <2>4 DEF DismissWrite
    <3> QED BY <1>0, <3>1 DEF PaymentRow
  <2> QED BY <2>1, <2>2, <2>3, <2>4, PaymentWriters
<1>2. /\ req[h] \in Request /\ Sound(h) /\ h \in Settling /\ req[h].inv \in Invoice
      /\ succeeded \in [Invoice -> Int] /\ req[h].pc = "settle"
      /\ payment' = SettledRows(req[h])
  BY <1>1 DEF IInv, TypeOK, SerialInv, Settling, CommitSettle, RequestsNameRows
<1>3. p = req[h].pay /\ payment'[p].inv = req[h].inv /\ req[h].method = "manual"
  <2>1. p \notin req[h].cancels /\ \A q \in req[h].cancels : q # req[h].pay
    BY <1>2 DEF IInv, LocksHold
  <2>2. p = req[h].pay
    BY <1>2, <2>1 DEF SettledRows
  <2>3. req[h].amount \in Nat
    BY <1>2 DEF Request
  <2> QED BY <1>0, <1>1, <1>2, <2>1, <2>2, <2>3, CommitRows
<1>4. succeeded'[req[h].inv] = req[h].sum
  BY <1>1, <1>2 DEF CommitSettle, Sound
<1> QED BY <1>2, <1>3, <1>4 DEF Sound

(* And the balance recordManualPayment checked is still there when its     *)
(* transaction commits.                                                    *)
THEOREM ManualStaysWithinBalance == Spec /\ []Apart => ManualWithinBalance
<1>1. IInv /\ SerialInv /\ [Next]_vars
        => [\A p \in Payment :
              /\ payment[p].status = "none"
              /\ payment'[p].status = "SUCCEEDED"
              /\ payment'[p].method = "manual"
              => succeeded'[payment'[p].inv] <= TotalOf[payment'[p].inv]]_vars
  BY StepWithinBalance
<1> QED BY <1>1, Invariance, ApartIsSerial, PTL DEF Spec, ManualWithinBalance

-----------------------------------------------------------------------------
(* What payment.aggregate sums, in every interleaving.                     *)

(* The sum payment.aggregate returns for an invoice.                       *)
Summed(i) == IsFiniteSet(Rows(i)) /\ succeeded[i] = AmountsOf(payment, Rows(i))
AggregateIsSum == \A i \in Invoice : Summed(i)

(* A sum nobody wrote, over rows nobody settled or dismissed.              *)
LEMMA SumKept ==
  ASSUME NEW i \in Invoice, Summed(i), succeeded'[i] = succeeded[i], Rows(i)' = Rows(i),
         \A p \in Rows(i) : payment'[p].amount = payment[p].amount
  PROVE  Summed(i)'
<1>1. AmountsOf(payment', Rows(i)) = AmountsOf(payment, Rows(i))
  BY AmountsEqual DEF Summed
<1> QED BY <1>1 DEF Summed

(* Steps that settle and dismiss no payment keep every sum.                *)
LEMMA SumsKept ==
  ASSUME AggregateIsSum, UNCHANGED succeeded,
         \A p \in Payment :
           /\ payment'[p].status = "SUCCEEDED" <=> payment[p].status = "SUCCEEDED"
           /\ payment[p].status = "SUCCEEDED" =>
                payment'[p].inv = payment[p].inv /\ payment'[p].amount = payment[p].amount
  PROVE  AggregateIsSum'
<1>1. ASSUME NEW i \in Invoice PROVE Summed(i)'
  <2>1. Rows(i)' = Rows(i)
    BY DEF Rows
  <2>2. \A p \in Rows(i) : payment'[p].amount = payment[p].amount
    BY DEF Rows
  <2> QED BY <2>1, <2>2, SumKept DEF AggregateIsSum
<1> QED BY <1>1 DEF AggregateIsSum

(* A commit adds its payment to the sum of its invoice.                    *)
LEMMA CommitSums ==
  ASSUME IInv, AggregateIsSum, NEW h \in Handler, CommitSettle(h)
  PROVE  AggregateIsSum'
<1>0. /\ req \in [Handler -> Request] /\ req[h] \in Request
      /\ payment \in [Payment -> PaymentRow]
      /\ succeeded \in [Invoice -> Int]
      /\ h \in Settling
  BY DEF IInv, TypeOK, Settling, CommitSettle
<1>1. PICK i \in Invoice, p \in Payment, a \in Nat : i = req[h].inv /\ p = req[h].pay /\ a = req[h].amount
  BY <1>0 DEF CommitSettle, IInv, RequestsNameRows, Request
<1>2. /\ payment[p].status \in {"none", "PENDING"}
      /\ \A q \in req[h].cancels : q # p /\ payment[q].status = "PENDING"
  BY <1>0, <1>1 DEF IInv, LocksHold
<1>3. /\ succeeded'[i] = succeeded[i] + a
      /\ \A j \in Invoice : j # i => succeeded'[j] = succeeded[j]
  BY <1>0, <1>1 DEF CommitSettle
<1>4. /\ payment'[p].status = "SUCCEEDED" /\ payment'[p].inv = i /\ payment'[p].amount = a
      /\ \A q \in req[h].cancels : payment'[q].status = "CANCELLED"
      /\ \A q \in Payment : q # p /\ q \notin req[h].cancels => payment'[q] = payment[q]
  BY <1>0, <1>1, <1>2, CommitRows
<1>5. ASSUME NEW j \in Invoice PROVE Summed(j)'
  <2>0. Summed(j) /\ \A q \in Rows(j) : payment[q].amount \in Nat
    BY <1>0 DEF AggregateIsSum, Rows, PaymentRow
  <2>1. \A q \in Rows(j) : payment'[q] = payment[q] /\ q # p
    BY <1>2, <1>4 DEF Rows
  <2>2. CASE j # i
    <3>1. Rows(j)' = Rows(j)
      BY <1>2, <1>4, <2>2 DEF Rows
    <3> QED BY <1>3, <2>0, <2>1, <2>2, <3>1, SumKept
  <2>3. CASE j = i
    <3>1. Rows(j)' = Rows(j) \cup {p} /\ p \notin Rows(j)
      BY <1>2, <1>4, <2>3 DEF Rows
    <3>2. IsFiniteSet(Rows(j) \cup {p})
      BY <2>0, FS_AddElement DEF Summed
    <3>3. AmountsOf(payment', Rows(j)) = succeeded[j]
      BY <2>0, <2>1, AmountsEqual DEF Summed
    <3>4. AmountsOf(payment', Rows(j) \cup {p}) = AmountsOf(payment', Rows(j)) + a
      BY <1>4, <2>0, <2>1, <3>1, AmountsAdd DEF Summed
    <3> QED BY <1>3, <2>3, <3>1, <3>2, <3>3, <3>4 DEF Summed
  <2> QED BY <2>2, <2>3
<1> QED BY <1>5 DEF AggregateIsSum

(* Dismissing a settled payment takes it out of the sum.                   *)
LEMMA DismissSums ==
  ASSUME IInv, AggregateIsSum, NEW h \in Handler, DismissWrite(h)
  PROVE  AggregateIsSum'
<1>0. payment \in [Payment -> PaymentRow] /\ succeeded \in [Invoice -> Int]
  BY DEF IInv, TypeOK
<1>1. PICK p \in Payment : p = req[h].pay
  BY DEF DismissWrite, IInv, RequestsNameRows
<1>2. /\ payment'[p].status = "CANCELLED"
      /\ \A q \in Payment : q # p => payment'[q] = payment[q]
      /\ succeeded' = IF payment[p].status = "SUCCEEDED"
                      THEN [succeeded EXCEPT ![payment[p].inv] = @ - payment[p].amount]
                      ELSE succeeded
  <2>1. payment'[p] = [payment[p] EXCEPT !.status = "CANCELLED"] /\ payment[p] \in PaymentRow
    BY <1>0, <1>1 DEF DismissWrite
  <2> QED BY <1>0, <1>1, <2>1 DEF DismissWrite, PaymentRow
<1>3. CASE payment[p].status # "SUCCEEDED"
  BY <1>2, <1>3, SumsKept
<1>4. CASE payment[p].status = "SUCCEEDED"
  <2>1. ASSUME NEW j \in Invoice PROVE Summed(j)'
    <3>0. /\ Summed(j) /\ p \in Payment
          /\ \A q \in Rows(j) : payment[q].amount \in Nat
          /\ \A q \in Rows(j)' : q # p /\ payment'[q] = payment[q] /\ payment'[q].amount \in Nat
      BY <1>0, <1>2 DEF AggregateIsSum, Rows, PaymentRow
    <3>1. CASE payment[p].inv # j
      <4>1. Rows(j)' = Rows(j) /\ succeeded'[j] = succeeded[j]
        BY <1>0, <1>2, <1>4, <3>1 DEF Rows
      <4> QED BY <3>0, <4>1, SumKept
    <3>2. CASE payment[p].inv = j
      <4>1. Rows(j) = Rows(j)' \cup {p} /\ p \notin Rows(j)'
        BY <1>2, <1>4, <3>2 DEF Rows
      <4>2. IsFiniteSet(Rows(j)')
        BY <3>0, <4>1, FS_Subset DEF Summed
      <4>3. AmountsOf(payment, Rows(j)' \cup {p}) = AmountsOf(payment, Rows(j)') + payment[p].amount
        <5>1. payment[p].amount \in Nat /\ \A q \in Rows(j)' : payment[q].amount \in Nat
          BY <3>0, <4>1
        <5> QED BY <4>1, <4>2, <5>1, AmountsAdd
      <4>4. AmountsOf(payment', Rows(j)') = AmountsOf(payment, Rows(j)')
        BY <3>0, <4>2, AmountsEqual
      <4>5. AmountsOf(payment, Rows(j)') \in Nat
        <5>1. \A q \in Rows(j)' : payment[q].amount \in Nat
          BY <3>0, <4>1
        <5> QED BY <4>2, <5>1, AmountsNat
      <4>6. succeeded'[j] = succeeded[j] - payment[p].amount
        BY <1>0, <1>2, <1>4, <3>2
      <4>7. payment[p].amount \in Nat /\ succeeded[j] = AmountsOf(payment, Rows(j))
        BY <3>0, <4>1 DEF Summed
      <4> QED BY <4>1, <4>2, <4>3, <4>4, <4>5, <4>6, <4>7 DEF Summed
    <3> QED BY <3>1, <3>2
  <2> QED BY <2>1 DEF AggregateIsSum
<1> QED BY <1>3, <1>4

(* Any step, in any interleaving.                                          *)
LEMMA StepSums ==
  ASSUME IInv, AggregateIsSum, [Next]_vars
  PROVE  AggregateIsSum'
<1>0. payment \in [Payment -> PaymentRow]
  BY DEF IInv, TypeOK
<1>1. ASSUME NEW h \in Handler, CommitSettle(h)
      PROVE  AggregateIsSum'
  BY <1>1, CommitSums
<1>2. ASSUME NEW h \in Handler, DismissWrite(h)
      PROVE  AggregateIsSum'
  BY <1>2, DismissSums
<1>3. \/ UNCHANGED succeeded
      \/ \E h \in Handler : CommitSettle(h) \/ DismissWrite(h)
  <2>1. ASSUME NEW h \in Handler, Continue(h) \/ Crash(h)
        PROVE  UNCHANGED succeeded \/ CommitSettle(h) \/ DismissWrite(h)
    BY <2>1 DEF Continue, ManualSettle, CreditSettle, BeginSettle, InsufficientCredit, ListOpen,
       CreditRead, AdvanceInsert, Remind, PayCancel, PayInsert, VoidWrite, BookVoidWrite,
       SweepWrite, Crash
  <2>2. ASSUME NEW h \in Handler, Start(h)
        PROVE  UNCHANGED succeeded
    BY <2>2 DEF Start, IssueInvoice, Charge, PayRead, VoidRead, BookVoidRead, ManualRead,
       GatewaySettle, BeginSettle, DismissRead, AdvanceCancel, SweepRead, AdvanceSettle,
       RecordPrepayment, AddCredit
  <2>3. ASSUME Environment
        PROVE  UNCHANGED succeeded
    BY <2>3 DEF Environment, IssueBookingInvoice, Charge, GatewayDecides, GatewayFails,
       FlagForReview, ApproveReviewed, AdvanceFails, AdvanceDecides, Tick
  <2> QED BY <2>1, <2>2, <2>3 DEF Next, vars
<1>4. CASE UNCHANGED succeeded /\ ~ \E h \in Handler : CommitSettle(h) \/ DismissWrite(h)
  <2>1. \/ UNCHANGED payment
        \/ \E h \in Handler : (\E q \in Payment : PayInsert(h, q)) \/ PayCancel(h) \/ VoidWrite(h)
        \/ \E q \in Payment : GatewayFails(q) \/ FlagForReview(q) \/ ApproveReviewed(q)
    BY <1>4, PaymentWriters
  <2>2. CASE UNCHANGED payment
    BY <1>4, <2>2, SumsKept
  <2>3. ASSUME NEW h \in Handler, NEW q \in Payment, PayInsert(h, q)
        PROVE  AggregateIsSum'
    <3>1. payment[q].status = "none" /\ payment'[q].status = "PENDING"
          /\ \A p \in Payment : p # q => payment'[p] = payment[p]
      BY <1>0, <2>3 DEF PayInsert, Fresh, NoRow
    <3> QED BY <1>4, <3>1, SumsKept
  <2>4. ASSUME NEW h \in Handler, PayCancel(h) \/ VoidWrite(h)
        PROVE  AggregateIsSum'
    <3>1. PICK i : payment' = WithStatus(PendingOf(i), "CANCELLED")
      BY <2>4 DEF PayCancel, VoidWrite
    <3>2. ASSUME NEW p \in Payment
          PROVE  /\ payment'[p].status = "SUCCEEDED" <=> payment[p].status = "SUCCEEDED"
                 /\ payment[p].status = "SUCCEEDED" =>
                      payment'[p].inv = payment[p].inv /\ payment'[p].amount = payment[p].amount
      <4>1. payment[p] \in PaymentRow
        BY <1>0
      <4>2. CASE p \notin PendingOf(i)
        BY <3>1, <4>2 DEF WithStatus
      <4>3. CASE p \in PendingOf(i)
        <5>1. payment'[p] = [payment[p] EXCEPT !.status = "CANCELLED"] /\ payment[p].status = "PENDING"
          BY <3>1, <4>3 DEF WithStatus, PendingOf
        <5> QED BY <4>1, <5>1 DEF PaymentRow
      <4> QED BY <4>2, <4>3
    <3> QED BY <1>4, <3>2, SumsKept
  <2>5. ASSUME NEW q \in Payment, GatewayFails(q) \/ FlagForReview(q) \/ ApproveReviewed(q)
        PROVE  AggregateIsSum'
    <3>1. payment[q].status = "PENDING" /\ payment'[q].status # "SUCCEEDED"
          /\ \A p \in Payment : p # q => payment'[p] = payment[p]
      <4>1. payment[q] \in PaymentRow
        BY <1>0
      <4>2. \/ payment' = [payment EXCEPT ![q].status = "FAILED"]
            \/ payment' = [payment EXCEPT ![q].review = TRUE]
            \/ payment' = [payment EXCEPT ![q].approved = TRUE]
        BY <2>5 DEF GatewayFails, FlagForReview, ApproveReviewed
      <4>3. payment[q].status = "PENDING"
        BY <2>5 DEF GatewayFails, FlagForReview, ApproveReviewed
      <4> QED BY <1>0, <4>1, <4>2, <4>3 DEF PaymentRow
    <3> QED BY <1>4, <3>1, SumsKept
  <2> QED BY <2>1, <2>2, <2>3, <2>4, <2>5
<1> QED BY <1>1, <1>2, <1>3, <1>4

(* Nothing paid.                                                           *)
LEMMA InitSums ==
  ASSUME Init
  PROVE  AggregateIsSum
<1>1. ASSUME NEW i \in Invoice PROVE Summed(i)
  <2>1. Rows(i) = {} /\ succeeded[i] = 0
    BY DEF Init, Rows, NoRow
  <2> QED BY <2>1, AmountsEmpty, FS_EmptySet DEF Summed
<1> QED BY <1>1 DEF AggregateIsSum

(* In every interleaving, crashes included, payment.aggregate reads the    *)
(* sum of the SUCCEEDED payments of the invoice.                           *)
THEOREM AggregateAlwaysSum == Spec => []AggregateIsSum
<1>1. Init => AggregateIsSum
  BY InitSums
<1>2. IInv /\ AggregateIsSum /\ [Next]_vars => AggregateIsSum'
  BY StepSums
<1> QED BY <1>1, <1>2, Invariance, PTL DEF Spec

(* So settleInvoice shows as paid exactly what the SUCCEEDED payments of   *)
(* the invoice come to, whatever runs on the others.                       *)
THEOREM PaidIsExact == Spec /\ []Apart => []AmountPaidExact
<1>1. SerialInv /\ AggregateIsSum => AmountPaidExact
  BY DEF SerialInv, Exact, AggregateIsSum, Summed, AmountsOf, AmountPaidExact
<1> QED BY <1>1, ApartIsSerial, AggregateAlwaysSum, PTL

-----------------------------------------------------------------------------
(* How often an invoice is reminded.                                       *)

(* Where a request is once it has started; the others have not moved.      *)
LEMMA StartGoes ==
  ASSUME req \in [Handler -> Request], NEW h \in Handler, Start(h)
  PROVE  /\ \A g \in Handler : g # h => req'[g] = req[g]
         /\ req[h] = Idle
         /\ \/ /\ \/ req'[h].pc \in {"payCancel", "manual", "void", "bookVoid", "dismiss",
                                      "overdue", "advInsert"}
                  \/ req'[h].pc = "settle" /\ req'[h].method = "gateway"
               /\ UNCHANGED <<invoice, credit>>
            \/ req'[h].pc = "apply" /\ \E i \in Invoice : IssueInvoice(h, i)
            \/ req'[h].pc = "list"
<1> DEFINE Others == req[h] = Idle /\ \A g \in Handler : g # h => req'[g] = req[g]
           Kept == UNCHANGED <<invoice, credit>>
<1>1. ASSUME NEW i \in Invoice, IssueInvoice(h, i)
      PROVE  Others /\ req'[h].pc = "apply"
  BY <1>1 DEF IssueInvoice, Goto, Idle
<1>2. ASSUME NEW i \in Invoice, PayRead(h, i)
      PROVE  Others /\ Kept /\ req'[h].pc = "payCancel"
  BY <1>2 DEF PayRead, Goto, Idle
<1>3. ASSUME NEW i \in Invoice, VoidRead(h, i)
      PROVE  Others /\ Kept /\ req'[h].pc = "void"
  BY <1>3 DEF VoidRead, Goto, Idle
<1>4. ASSUME NEW i \in Invoice, BookVoidRead(h, i)
      PROVE  Others /\ Kept /\ req'[h].pc = "bookVoid"
  BY <1>4 DEF BookVoidRead, Goto, Idle
<1>5. ASSUME NEW i \in Invoice, NEW a \in Amount, ManualRead(h, i, a)
      PROVE  Others /\ Kept /\ req'[h].pc = "manual"
  BY <1>5 DEF ManualRead, Goto, Idle
<1>6. ASSUME NEW p \in Payment, GatewaySettle(h, p)
      PROVE  Others /\ Kept /\ req'[h].pc = "settle" /\ req'[h].method = "gateway"
  BY <1>6 DEF GatewaySettle, BeginSettle, Goto
<1>7. ASSUME NEW p \in Payment, DismissRead(h, p)
      PROVE  Others /\ Kept /\ req'[h].pc = "dismiss"
  BY <1>7 DEF DismissRead, Goto, Idle
<1>8. ASSUME NEW a \in Amount, AdvanceCancel(h, a)
      PROVE  Others /\ Kept /\ req'[h].pc = "advInsert"
  BY <1>8 DEF AdvanceCancel, Goto, Idle
<1>9. ASSUME SweepRead(h)
       PROVE  Others /\ Kept /\ req'[h].pc = "overdue"
  BY <1>9 DEF SweepRead, Goto, Idle
<1>10. ASSUME NEW a, AddCredit(h, a), req[h] = Idle
       PROVE  Others /\ req'[h].pc = "list"
  BY <1>10 DEF AddCredit, Goto, Idle
<1> QED
  BY <1>1, <1>2, <1>3, <1>4, <1>5, <1>6, <1>7, <1>8, <1>9, <1>10
     DEF Start, RecordPrepayment, AdvanceSettle

(* The sweeps that still have an invoice to remind, and what they may add. *)
Reminding(i) == {h \in Handler : req[h].pc = "remind" /\ i \in req[h].todo}
RemindInv ==
  \A i \in Invoice :
    /\ reminder[i].sent > 0 => reminder[i].notified
    /\ reminder[i].sent + Cardinality(Reminding(i)) <= Cardinality(Handler)

(* Fewer sweeps have an invoice to remind than requests run.               *)
LEMMA RemindingCounts ==
  ASSUME IsFiniteSet(Handler), NEW S \in SUBSET Handler, NEW R \in SUBSET S
  PROVE  /\ Cardinality(R) \in Nat /\ Cardinality(S) \in Nat
         /\ Cardinality(R) <= Cardinality(S)
         /\ \A h \in S : Cardinality(S \ {h}) = Cardinality(S) - 1
<1>1. IsFiniteSet(S) /\ IsFiniteSet(R)
  BY FS_Subset
<1> QED BY <1>1, FS_Subset, FS_CardinalityType, FS_RemoveElement

(* A step that sends nothing and puts no sweep to an invoice that had one. *)
LEMMA NoReminder ==
  ASSUME IsFiniteSet(Handler), RemindInv, NEW i \in Invoice,
         reminder \in [Invoice -> [notified : BOOLEAN, sent : Nat]],
         reminder'[i] = reminder[i], Reminding(i)' \subseteq Reminding(i)
  PROVE  /\ reminder'[i].sent > 0 => reminder'[i].notified
         /\ reminder'[i].sent + Cardinality(Reminding(i)') <= Cardinality(Handler)
<1>1. /\ Reminding(i) \in SUBSET Handler /\ Reminding(i)' \in SUBSET Reminding(i)
      /\ Handler \in SUBSET Handler
  BY DEF Reminding
<1>2. /\ Cardinality(Reminding(i)') <= Cardinality(Reminding(i))
      /\ Cardinality(Reminding(i)') \in Nat /\ Cardinality(Reminding(i)) \in Nat
      /\ Cardinality(Handler) \in Nat /\ reminder[i].sent \in Nat
  BY <1>1, RemindingCounts
<1> QED BY <1>2 DEF RemindInv

(* Any step: an invoice not marked yet has had no reminder, and each mark  *)
(* uses up one of the sweeps that had listed the invoice before it.        *)
LEMMA StepReminds ==
  ASSUME IsFiniteSet(Handler), IInv, RemindInv, [Next]_vars
  PROVE  RemindInv'
<1>0. /\ req \in [Handler -> Request]
      /\ reminder \in [Invoice -> [notified : BOOLEAN, sent : Nat]]
  BY DEF IInv, TypeOK
<1>1. ASSUME NEW h \in Handler, NEW i \in Invoice, Remind(h, i)
      PROVE  RemindInv'
  <2>1. /\ i \in req[h].todo /\ req[h].pc = "remind"
        /\ reminder'[i].sent = reminder[i].sent + 1 /\ reminder'[i].notified
        /\ \A j \in Invoice : j # i => reminder'[j] = reminder[j]
    BY <1>0, <1>1 DEF Remind
  <2>2. /\ \A g \in Handler : g # h => req'[g] = req[g]
        /\ req'[h].pc = "remind" => req'[h].todo = req[h].todo \ {i}
    <3>1. /\ [req[h] EXCEPT !.todo = @ \ {i}].pc = "remind"
          /\ [req[h] EXCEPT !.todo = @ \ {i}].todo = req[h].todo \ {i}
      BY <1>0, <2>1 DEF Request
    <3>2. req'[h] = Idle \/ req'[h] = [req[h] EXCEPT !.todo = @ \ {i}]
      BY <1>0, <1>1 DEF Remind, Goto
    <3>3. Idle.pc # "remind"
      BY DEF Idle
    <3>4. \A g \in Handler : g # h => req'[g] = req[g]
      BY <1>0, <1>1 DEF Remind, Goto
    <3> QED BY <3>1, <3>2, <3>3, <3>4
  <2>3. \A j \in Invoice : Reminding(j)' \subseteq Reminding(j)
    BY <2>1, <2>2 DEF Reminding
  <2>4. reminder'[i].sent + Cardinality(Reminding(i)') <= Cardinality(Handler)
    <3>1. /\ Reminding(i) \in SUBSET Handler /\ h \in Reminding(i)
          /\ Reminding(i)' \in SUBSET (Reminding(i) \ {h})
          /\ Reminding(i) \ {h} \in SUBSET Handler /\ Handler \in SUBSET Handler
      BY <2>1, <2>2 DEF Reminding
    <3>2. /\ Cardinality(Reminding(i)') <= Cardinality(Reminding(i)) - 1
          /\ Cardinality(Reminding(i)') \in Nat /\ Cardinality(Reminding(i)) \in Nat
          /\ Cardinality(Handler) \in Nat
      <4>1. /\ Cardinality(Reminding(i) \ {h}) = Cardinality(Reminding(i)) - 1
            /\ Cardinality(Reminding(i)) \in Nat /\ Cardinality(Handler) \in Nat
        BY <3>1, RemindingCounts
      <4>2. /\ Cardinality(Reminding(i)') <= Cardinality(Reminding(i) \ {h})
            /\ Cardinality(Reminding(i)') \in Nat
        BY <3>1, RemindingCounts
      <4> QED BY <4>1, <4>2
    <3>3. reminder[i].sent \in Nat
      BY <1>0
    <3> QED BY <2>1, <3>2, <3>3 DEF RemindInv
  <2>5. ASSUME NEW j \in Invoice, j # i
        PROVE  /\ reminder'[j].sent > 0 => reminder'[j].notified
               /\ reminder'[j].sent + Cardinality(Reminding(j)') <= Cardinality(Handler)
    BY <1>0, <2>1, <2>3, <2>5, NoReminder
  <2> QED BY <2>1, <2>4, <2>5 DEF RemindInv
<1>2. ASSUME NEW h \in Handler, SweepWrite(h)
      PROVE  RemindInv'
  <2>1. UNCHANGED reminder /\ \A g \in Handler : g # h => req'[g] = req[g]
    BY <1>0, <1>2 DEF SweepWrite, Goto
  <2>2. req'[h].pc = "remind" => req'[h].todo \subseteq {i \in Invoice : ~reminder[i].notified}
    BY <1>0, <1>2 DEF SweepWrite, Goto, Idle, DueSoonIds
  <2>3. SUFFICES ASSUME NEW i \in Invoice
                 PROVE  /\ reminder'[i].sent > 0 => reminder'[i].notified
                        /\ reminder'[i].sent + Cardinality(Reminding(i)') <= Cardinality(Handler)
    BY DEF RemindInv
  <2>4. CASE reminder[i].notified
    <3>1. Reminding(i)' \subseteq Reminding(i)
      BY <2>1, <2>2, <2>4 DEF Reminding
    <3> QED BY <1>0, <2>1, <3>1, NoReminder
  <2>5. CASE ~reminder[i].notified
    <3>1. reminder'[i].sent = 0
      BY <1>0, <2>1, <2>5 DEF RemindInv
    <3>2. Reminding(i)' \in SUBSET Handler /\ Handler \in SUBSET Handler
      BY DEF Reminding
    <3>3. Cardinality(Reminding(i)') <= Cardinality(Handler) /\ Cardinality(Reminding(i)') \in Nat
      BY <3>2, RemindingCounts
    <3> QED BY <3>1, <3>3
  <2> QED BY <2>4, <2>5
<1>3. ASSUME UNCHANGED reminder, \A g \in Handler : req'[g] = req[g] \/ req'[g].pc # "remind"
      PROVE  RemindInv'
  <2>1. \A i \in Invoice : Reminding(i)' \subseteq Reminding(i)
    BY <1>3 DEF Reminding
  <2>2. ASSUME NEW i \in Invoice
        PROVE  /\ reminder'[i].sent > 0 => reminder'[i].notified
               /\ reminder'[i].sent + Cardinality(Reminding(i)') <= Cardinality(Handler)
    BY <1>0, <1>3, <2>1, NoReminder
  <2> QED BY <2>2 DEF RemindInv
<1>4. \/ \E h \in Handler : SweepWrite(h) \/ \E i \in Invoice : Remind(h, i)
      \/ UNCHANGED reminder /\ \A g \in Handler : req'[g] = req[g] \/ req'[g].pc # "remind"
  <2> DEFINE Elsewhere == UNCHANGED reminder /\ \A g \in Handler : req'[g] = req[g] \/ req'[g].pc # "remind"
  <2>1. ASSUME NEW h \in Handler, NEW r, Goto(h, r), r.pc # "remind", UNCHANGED reminder
        PROVE  Elsewhere
    BY <1>0, <2>1 DEF Goto
  <2>2. Idle.pc = "idle"
    BY DEF Idle
  <2>3. ASSUME NEW h \in Handler, Continue(h) \/ Crash(h),
               ~SweepWrite(h), \A i \in Invoice : ~Remind(h, i)
        PROVE  Elsewhere
    <3> HIDE DEF Elsewhere
    <3>1. CASE PayCancel(h)
      <4>1. [req[h] EXCEPT !.pc = "payInsert"].pc # "remind"
        BY <1>0 DEF Request
      <4> QED BY <2>1, <3>1, <4>1 DEF PayCancel
    <3>2. CASE \/ \E p \in Payment : PayInsert(h, p)
               \/ InsufficientCredit(h) \/ Crash(h) \/ \E v \in Advance : AdvanceInsert(h, v)
               \/ VoidWrite(h) \/ BookVoidWrite(h) \/ DismissWrite(h)
      BY <2>1, <2>2, <3>2 DEF PayInsert, InsufficientCredit, Crash, AdvanceInsert, VoidWrite,
         BookVoidWrite, DismissWrite, Finish
    <3>3. CASE \E p \in Payment : ManualSettle(h, p) \/ CreditSettle(h, p)
      BY <2>1, <3>3 DEF ManualSettle, CreditSettle, BeginSettle
    <3>4. \A i : NextOf(h, i).pc # "remind"
      BY DEF NextOf, Idle
    <3>5. CASE CommitSettle(h)
      BY <2>1, <2>2, <3>4, <3>5 DEF CommitSettle
    <3>6. CASE ListOpen(h)
      <4>1. \A T : [Idle EXCEPT !.pc = "apply", !.todo = T].pc # "remind"
        BY DEF Idle
      <4> QED BY <2>1, <2>2, <3>6, <4>1 DEF ListOpen
    <3>7. CASE \E i \in Invoice : CreditRead(h, i)
      <4>1. \A i, a : [req[h] EXCEPT !.pc = "credit", !.inv = i, !.amount = a].pc # "remind"
        BY <1>0 DEF Request
      <4> QED BY <2>1, <2>2, <3>4, <3>7, <4>1 DEF CreditRead, Finish
    <3> QED BY <2>3, <3>1, <3>2, <3>3, <3>5, <3>6, <3>7 DEF Continue
  <2>4. ASSUME NEW h \in Handler, Start(h)
        PROVE  Elsewhere
    <3>1. /\ \A g \in Handler : g # h => req'[g] = req[g]
          /\ req'[h].pc # "remind"
      BY <1>0, <2>4, StartGoes
    <3>2. UNCHANGED reminder
      BY <2>4 DEF Start, IssueInvoice, Charge, PayRead, VoidRead, BookVoidRead, ManualRead,
         GatewaySettle, BeginSettle, DismissRead, AdvanceCancel, SweepRead, AdvanceSettle,
         RecordPrepayment, AddCredit
    <3> QED BY <3>1, <3>2
  <2>5. ASSUME Environment \/ UNCHANGED vars
        PROVE  Elsewhere
    BY <2>5 DEF Environment, IssueBookingInvoice, Charge, GatewayDecides, GatewayFails,
       FlagForReview, ApproveReviewed, AdvanceFails, AdvanceDecides, Tick, vars
  <2> QED BY <2>3, <2>4, <2>5 DEF Next
<1> QED BY <1>1, <1>2, <1>3, <1>4

(* Management's sweeps run under no lock, so several may have listed an    *)
(* invoice before one marks it: it is reminded at most once by each of     *)
(* them, crashes and later sweeps included, and once by a server that      *)
(* takes one request at a time.                                            *)
THEOREM RemindedOnceByEach ==
  ASSUME IsFiniteSet(Handler)
  PROVE  Spec => []RemindedOncePerSweep
<1>1. Init => RemindInv
  <2>1. ASSUME Init, NEW i \in Invoice
        PROVE  reminder[i].sent = 0 /\ Reminding(i) = {}
    BY <2>1 DEF Init, Reminding, Idle
  <2>2. Cardinality({}) = 0 /\ Cardinality(Handler) \in Nat
    BY FS_EmptySet, FS_CardinalityType
  <2> QED BY <2>1, <2>2 DEF RemindInv
<1>2. IInv /\ RemindInv /\ [Next]_vars => RemindInv'
  BY StepReminds
<1>3. IInv /\ RemindInv => RemindedOncePerSweep
  <2>1. ASSUME IInv, RemindInv, NEW i \in Invoice
        PROVE  reminder[i].sent <= Cardinality(Handler)
    <3>1. Reminding(i) \in SUBSET Handler /\ Handler \in SUBSET Handler
      BY DEF Reminding
    <3>2. Cardinality(Reminding(i)) \in Nat /\ Cardinality(Handler) \in Nat
      BY <3>1, RemindingCounts
    <3>3. reminder[i].sent \in Nat
      BY <2>1 DEF IInv, TypeOK
    <3> QED BY <2>1, <3>2, <3>3 DEF RemindInv
  <2> QED BY <2>1 DEF RemindedOncePerSweep
<1> QED BY <1>1, <1>2, <1>3, Invariance, PTL DEF Spec

(* A server that takes requests one at a time, as the run serial does,     *)
(* never has two at work on one invoice.                                   *)
THEOREM OneRequestIsApart ==
  ASSUME \A g, h \in Handler : g = h
  PROVE  Spec => []Apart
<1>1. Apart
  BY DEF Apart
<1> QED BY <1>1, PTL

-----------------------------------------------------------------------------
(* Credit, when requests are served one at a time.                         *)

(* What the unit still owes, and the requests that are applying credit.    *)
Owing == {i \in Invoice : Open(i) /\ Outstanding(i) > 0}
Consuming(h) == req[h].pc = "credit" \/ (req[h].pc = "settle" /\ req[h].method = "prepaid")
Applying(h) == req[h].pc = "apply" \/ Consuming(h)

CreditTurn(h) ==
  /\ req[h].pc = "list" \/ Applying(h) \/ credit = 0 \/ Owing = {}
  /\ Applying(h) => credit = 0 \/ Owing \subseteq req[h].todo
  /\ Consuming(h) =>
       /\ OldestDue(req[h].inv, req[h].todo) /\ req[h].inv \in Owing
       /\ req[h].amount > 0 /\ req[h].amount <= credit
       /\ req[h].amount \in {credit, Outstanding(req[h].inv)}
CreditInv == \A h \in Handler : CreditTurn(h)

Alone == (\A g, h \in Handler : g = h) /\ MayCrash = FALSE /\ BookingInvoice = {}

(* A request that applies no credit and adds no debt keeps its turn.       *)
LEMMA NoNewDebt ==
  ASSUME NEW h \in Handler, CreditTurn(h), req[h].pc # "list", ~Applying(h),
         req'[h].pc # "list", ~Applying(h)', Owing' \subseteq Owing, credit' = credit
  PROVE  CreditTurn(h)'
BY DEF CreditTurn, Applying

(* What the unit owes is read off its invoices.                            *)
LEMMA SameOwing ==
  ASSUME UNCHANGED invoice
  PROVE  Owing' = Owing /\ \A i \in Invoice : Outstanding(i)' = Outstanding(i)
BY DEF Owing, Open, Outstanding

(* Requests start when no credit is left or nothing is owed.               *)
LEMMA CreditStarts ==
  ASSUME IInv, BillingAssumption, NEW h \in Handler, CreditTurn(h), Start(h)
  PROVE  CreditTurn(h)'
<1>0. /\ req \in [Handler -> Request] /\ invoice \in [Invoice -> [status : InvoiceStatus, paid : Int]]
  BY DEF IInv, TypeOK
<1>1. CASE /\ req'[h].pc \notin {"list", "apply", "credit"}
           /\ req'[h].pc = "settle" => req'[h].method = "gateway"
           /\ UNCHANGED <<invoice, credit>> /\ req[h] = Idle
  <2>1. req[h].pc # "list" /\ ~Applying(h) /\ ~Applying(h)'
    BY <1>1 DEF Applying, Consuming, Idle
  <2> QED BY <1>1, <2>1, SameOwing, NoNewDebt
<1>2. CASE \E i \in Invoice : IssueInvoice(h, i)
  <2>1. PICK i \in Invoice : IssueInvoice(h, i)
    BY <1>2
  <2>2. /\ req'[h].pc = "apply" /\ req'[h].todo = {i} /\ req[h].pc = "idle" /\ credit' = credit
        /\ \A j \in Invoice : j # i => invoice'[j] = invoice[j]
    BY <1>0, <2>1 DEF IssueInvoice, Charge, Goto, Idle
  <2>3. Owing' \subseteq Owing \cup {i}
    BY <2>2 DEF Owing, Open, Outstanding
  <2>4. credit = 0 \/ Owing = {}
    BY <2>2 DEF CreditTurn, Applying, Consuming
  <2> QED BY <2>2, <2>3, <2>4 DEF CreditTurn, Applying, Consuming
<1>3. CASE req'[h].pc = "list"
  BY <1>3 DEF CreditTurn, Applying, Consuming
<1> QED BY <1>0, <1>1, <1>2, <1>3, StartGoes

(* After an invoice the loop goes on with the others, or ends.             *)
LEMMA NextKeepsTurn ==
  ASSUME NEW h \in Handler, NEW i, req \in [Handler -> Request], Goto(h, NextOf(h, i)),
         credit' = 0 \/ Owing' \subseteq req[h].todo \ {i}
  PROVE  CreditTurn(h)'
<1>1. CASE req[h].todo \ {i} = {}
  <2>1. req'[h].pc = "idle" /\ (credit' = 0 \/ Owing' = {})
    BY <1>1 DEF Goto, NextOf, Idle
  <2> QED BY <2>1 DEF CreditTurn, Applying, Consuming
<1>2. CASE req[h].todo \ {i} # {}
  <2>1. req'[h].pc = "apply" /\ req'[h].todo = req[h].todo \ {i}
    BY <1>2 DEF Goto, NextOf, Idle
  <2> QED BY <2>1 DEF CreditTurn, Applying, Consuming
<1> QED BY <1>1, <1>2

(* The loop over the open invoices.                                        *)
LEMMA CreditLoops ==
  ASSUME IInv, BillingAssumption, NEW h \in Handler, CreditTurn(h),
         \/ ListOpen(h) \/ InsufficientCredit(h)
         \/ \E i \in Invoice : CreditRead(h, i)
         \/ \E p \in Payment : CreditSettle(h, p)
  PROVE  CreditTurn(h)'
<1>0. /\ req \in [Handler -> Request] /\ req[h] \in Request /\ credit \in Nat
      /\ invoice \in [Invoice -> [status : InvoiceStatus, paid : Int]]
      /\ req[h].todo \subseteq Invoice
      /\ \A i \in Invoice : Outstanding(i) \in Int
      /\ UNCHANGED <<invoice, credit>>
      /\ Owing' = Owing /\ \A i \in Invoice : Outstanding(i)' = Outstanding(i)
  <2>1. UNCHANGED <<invoice, credit>>
    BY DEF ListOpen, InsufficientCredit, CreditRead, CreditSettle, BeginSettle
  <2> QED BY <2>1, SameOwing DEF IInv, TypeOK, Request, Outstanding, BillingAssumption
<1>1. CASE ListOpen(h)
  <2>1. req'[h].pc \in {"idle", "apply"}
    BY <1>0, <1>1 DEF ListOpen, Goto, Idle
  <2>2. req'[h].pc = "idle" => Owing = {}
    BY <1>0, <1>1 DEF ListOpen, Goto, Idle, Owing
  <2>3. req'[h].pc = "apply" => Owing \subseteq req'[h].todo
    BY <1>0, <1>1 DEF ListOpen, Goto, Idle, Owing
  <2> QED BY <1>0, <2>1, <2>2, <2>3 DEF CreditTurn, Applying, Consuming
<1>2. CASE InsufficientCredit(h)
  BY <1>2 DEF InsufficientCredit, CreditCovers, CreditTurn, Consuming
<1>3. ASSUME NEW i \in Invoice, CreditRead(h, i)
      PROVE  CreditTurn(h)'
  <2>0. /\ req[h].pc = "apply" /\ OldestDue(i, req[h].todo)
        /\ credit = 0 \/ Owing \subseteq req[h].todo
    BY <1>3 DEF CreditRead, CreditTurn, Applying
  <2>1. CASE credit = 0 /\ Finish(h)
    BY <1>0, <2>1 DEF Finish, Goto, Idle, CreditTurn, Applying, Consuming
  <2>2. CASE /\ credit = 0 \/ i \notin Owing
             /\ Goto(h, NextOf(h, i))
    <3>1. credit = 0 \/ Owing \subseteq req[h].todo \ {i}
      BY <2>0, <2>2
    <3> QED BY <1>0, <2>2, <3>1, NextKeepsTurn
  <2>3. CASE /\ i \in Owing /\ credit > 0
             /\ Goto(h, [req[h] EXCEPT !.pc = "credit", !.inv = i,
                     !.amount = IF credit < Outstanding(i) THEN credit ELSE Outstanding(i)])
    <3>1. PICK r : r = req'[h]
      OBVIOUS
    <3>2. /\ r.pc = "credit" /\ r.inv = i /\ r.todo = req[h].todo
          /\ r.amount = IF credit < Outstanding(i) THEN credit ELSE Outstanding(i)
      BY <1>0, <2>3, <3>1 DEF Goto, Request
    <3>3. Outstanding(i) > 0
      BY <2>3 DEF Owing
    <3>4. r.amount > 0 /\ r.amount <= credit /\ r.amount \in {credit, Outstanding(i)}
      BY <1>0, <2>3, <3>2, <3>3
    <3> QED BY <1>0, <2>0, <2>3, <3>1, <3>2, <3>4 DEF CreditTurn, Applying, Consuming, OldestDue
  <2>4. /\ Open(i) /\ (IF credit < Outstanding(i) THEN credit ELSE Outstanding(i)) > 0
              => i \in Owing /\ credit > 0
        /\ ~(Open(i) /\ (IF credit < Outstanding(i) THEN credit ELSE Outstanding(i)) > 0)
              => credit = 0 \/ i \notin Owing
    <3>1. Outstanding(i) \in Int /\ credit \in Nat
      BY <1>0
    <3> QED BY <3>1 DEF Owing
  <2> QED BY <1>3, <2>1, <2>2, <2>3, <2>4 DEF CreditRead
<1>4. ASSUME NEW p \in Payment, CreditSettle(h, p)
      PROVE  CreditTurn(h)'
  <2>1. PICK r : r = req'[h]
    OBVIOUS
  <2>2. /\ req[h].pc = "credit" /\ r.pc = "settle" /\ r.method = "prepaid"
        /\ r.inv = req[h].inv /\ r.amount = req[h].amount /\ r.todo = req[h].todo
    BY <1>0, <1>4, <2>1 DEF CreditSettle, BeginSettle, Goto
  <2>3. Outstanding(r.inv)' = Outstanding(r.inv)
    BY <1>0 DEF Outstanding
  <2> QED BY <1>0, <2>1, <2>2, <2>3 DEF CreditTurn, Applying, Consuming, OldestDue
<1> QED BY <1>1, <1>2, <1>3, <1>4

(* The commit of a settlement uses up the credit or pays its invoice.      *)
LEMMA CreditCommits ==
  ASSUME IInv, SerialInv, BillingAssumption, BookingInvoice = {},
         NEW h \in Handler, CreditTurn(h), CommitSettle(h)
  PROVE  CreditTurn(h)'
<1>0. /\ req \in [Handler -> Request] /\ req[h] \in Request /\ credit \in Nat
      /\ invoice \in [Invoice -> [status : InvoiceStatus, paid : Int]]
      /\ succeeded \in [Invoice -> Int] /\ TotalOf \in [Invoice -> Nat \ {0}]
      /\ req[h].pc = "settle" /\ Sound(h)
  BY DEF IInv, TypeOK, BillingAssumption, CommitSettle, SerialInv
<1>1. PICK i \in Invoice, a \in Nat : i = req[h].inv /\ a = req[h].amount /\ a > 0
  BY <1>0 DEF IInv, RequestsNameRows, Request
<1>2. /\ invoice[i].status # "none" /\ invoice[i].status # "VOID"
      /\ invoice[i].paid = succeeded[i] /\ req[h].sum = succeeded[i] + a
      /\ invoice[i].status = "PAID" => invoice[i].paid >= TotalOf[i]
      /\ Open(i) => succeeded[i] < TotalOf[i]
  BY <1>0, <1>1 DEF IInv, RequestsNameRows, Sound, SerialInv, Exact, SumsBooked
<1>3. /\ invoice'[i] = [status |-> StatusForPaid(i, succeeded[i] + a), paid |-> succeeded[i] + a]
      /\ \A j \in Invoice : j # i => invoice'[j] = invoice[j]
  BY <1>0, <1>1, <1>2 DEF CommitSettle
<1>4. Open(i)' => Open(i) /\ succeeded[i] + a < TotalOf[i]
  <2>1. TotalOf[i] \in Nat /\ succeeded[i] \in Int /\ invoice[i].status \in InvoiceStatus
    BY <1>0
  <2> QED BY <1>2, <1>3, <2>1 DEF Open, StatusForPaid, InvoiceStatus
<1>5. Owing' \subseteq Owing
  <2>1. succeeded[i] \in Int /\ TotalOf[i] \in Nat
    BY <1>0
  <2>2. i \in Owing' => i \in Owing
    BY <1>2, <1>4, <2>1 DEF Owing, Outstanding
  <2>3. ASSUME NEW j \in Invoice, j # i, j \in Owing' PROVE j \in Owing
    BY <1>3, <2>3 DEF Owing, Open, Outstanding
  <2> QED BY <2>2, <2>3 DEF Owing
<1>6. CASE req[h].method # "prepaid"
  <2>1. credit' = credit /\ req'[h].pc = "idle"
    BY <1>0, <1>6 DEF CommitSettle, Goto, Idle
  <2> QED BY <1>0, <1>5, <1>6, <2>1, NoNewDebt DEF Applying, Consuming
<1>7. CASE req[h].method = "prepaid"
  <2>1. /\ credit' = credit - a /\ Goto(h, NextOf(h, i))
        /\ Consuming(h) /\ Applying(h)
    BY <1>0, <1>1, <1>7 DEF CommitSettle, Consuming, Applying
  <2>2. /\ Owing \subseteq req[h].todo
        /\ a = credit \/ a = Outstanding(i)
    BY <1>0, <1>1, <2>1 DEF CreditTurn
  <2>3. CASE a = credit
    BY <1>0, <2>1, <2>3, NextKeepsTurn
  <2>4. CASE a = Outstanding(i)
    <3>1. succeeded[i] + a = TotalOf[i]
      BY <1>0, <1>2, <2>4 DEF Outstanding
    <3>2. i \notin Owing'
      <4>1. TotalOf[i] \in Nat
        BY <1>0
      <4> QED BY <1>4, <3>1, <4>1 DEF Owing
    <3>3. Owing' \subseteq req[h].todo \ {i}
      BY <1>5, <2>2, <3>2
    <3> QED BY <1>0, <2>1, <3>3, NextKeepsTurn
  <2> QED BY <2>2, <2>3, <2>4
<1> QED BY <1>6, <1>7

(* The steps of other requests: no debt is added.                          *)
LEMMA CreditRests ==
  ASSUME IInv, SerialInv, BillingAssumption, NEW h \in Handler, CreditTurn(h),
         \/ PayCancel(h) \/ DismissWrite(h) \/ VoidWrite(h) \/ BookVoidWrite(h) \/ SweepWrite(h)
         \/ \E i \in Invoice : Remind(h, i)
         \/ \E p \in Payment : PayInsert(h, p) \/ ManualSettle(h, p)
         \/ \E v \in Advance : AdvanceInsert(h, v)
  PROVE  CreditTurn(h)'
<1>0. /\ req \in [Handler -> Request] /\ req[h] \in Request
      /\ invoice \in [Invoice -> [status : InvoiceStatus, paid : Int]]
  BY DEF IInv, TypeOK
<1>1. CASE \/ PayCancel(h) \/ DismissWrite(h) \/ \E i \in Invoice : Remind(h, i)
           \/ \E p \in Payment : PayInsert(h, p) \/ ManualSettle(h, p)
           \/ \E v \in Advance : AdvanceInsert(h, v)
  <2>1. UNCHANGED <<invoice, credit>> /\ req[h].pc \notin {"list", "apply", "credit", "settle"}
    BY <1>1 DEF PayCancel, DismissWrite, Remind, PayInsert, ManualSettle, BeginSettle, AdvanceInsert
  <2>2. /\ req'[h].pc \notin {"list", "apply", "credit"}
        /\ req'[h].pc = "settle" => req'[h].method = "manual"
    <3>1. CASE DismissWrite(h) \/ (\E p \in Payment : PayInsert(h, p))
               \/ \E v \in Advance : AdvanceInsert(h, v)
      <4>1. Finish(h)
        BY <3>1 DEF DismissWrite, PayInsert, AdvanceInsert
      <4> QED BY <1>0, <4>1 DEF Finish, Goto, Idle
    <3>2. CASE PayCancel(h)
      <4>1. [req[h] EXCEPT !.pc = "payInsert"].pc = "payInsert"
        BY <1>0 DEF Request
      <4> QED BY <1>0, <3>2, <4>1 DEF PayCancel, Goto
    <3>3. CASE \E p \in Payment : ManualSettle(h, p)
      BY <1>0, <3>3 DEF ManualSettle, BeginSettle, Goto
    <3>4. ASSUME NEW i \in Invoice, Remind(h, i)
          PROVE  req'[h].pc \in {"idle", "remind"}
      <4>1. Idle.pc = "idle" /\ [req[h] EXCEPT !.todo = @ \ {i}].pc = req[h].pc
        BY <1>0 DEF Request, Idle
      <4>2. req'[h] = Idle \/ req'[h] = [req[h] EXCEPT !.todo = @ \ {i}]
        BY <1>0, <3>4 DEF Remind, Goto
      <4> QED BY <3>4, <4>1, <4>2 DEF Remind
    <3> QED BY <1>1, <3>1, <3>2, <3>3, <3>4
  <2> QED BY <2>1, <2>2, SameOwing, NoNewDebt DEF Applying, Consuming
<1>2. CASE VoidWrite(h) \/ BookVoidWrite(h) \/ SweepWrite(h)
  <2>1. credit' = credit /\ req[h].pc \notin {"list", "apply", "credit", "settle"}
    BY <1>2 DEF VoidWrite, BookVoidWrite, SweepWrite
  <2>2. req'[h].pc \notin {"list", "apply", "credit", "settle"}
    <3>1. CASE VoidWrite(h) \/ BookVoidWrite(h)
      BY <1>0, <3>1 DEF VoidWrite, BookVoidWrite, Finish, Goto, Idle
    <3>2. ASSUME SweepWrite(h) PROVE req'[h].pc \in {"idle", "remind"}
      BY <1>0, <3>2 DEF SweepWrite, Goto, Idle
    <3> QED BY <1>2, <3>1, <3>2
  <2>3. Owing' \subseteq Owing
    <3>1. CASE VoidWrite(h) \/ BookVoidWrite(h)
      <4>1. invoice' = [invoice EXCEPT ![req[h].inv].status = "VOID"]
        BY <3>1 DEF VoidWrite, BookVoidWrite
      <4>2. ASSUME NEW j \in Invoice
            PROVE  invoice'[j] = invoice[j] \/ invoice'[j].status = "VOID"
        BY <1>0, <4>1
      <4> QED BY <4>2 DEF Owing, Open, Outstanding
    <3>2. CASE SweepWrite(h)
      <4>1. ASSUME NEW j \in Invoice
            PROVE  invoice'[j] = invoice[j] \/ (Open(j) /\ invoice'[j].paid = invoice[j].paid)
        BY <1>0, <3>2 DEF SweepWrite, SerialInv, Sound, Open
      <4> QED BY <4>1 DEF Owing, Open, Outstanding
    <3> QED BY <1>2, <3>1, <3>2
  <2> QED BY <2>1, <2>2, <2>3, NoNewDebt DEF Applying, Consuming
<1> QED BY <1>1, <1>2

(* Any step, when requests are served one at a time and none dies.         *)
LEMMA StepCredits ==
  ASSUME IInv, SerialInv, BillingAssumption, Alone, CreditInv, [Next]_vars
  PROVE  CreditInv'
<1>1. ASSUME NEW h \in Handler, CreditTurn(h)', \A g \in Handler : g = h
      PROVE  CreditInv'
  BY <1>1 DEF CreditInv
<1>2. ASSUME NEW h \in Handler, Continue(h) \/ Start(h) \/ Crash(h)
      PROVE  CreditTurn(h)'
  <2>1. CreditTurn(h) /\ ~Crash(h) /\ BookingInvoice = {}
    BY DEF CreditInv, Alone, Crash
  <2>2. CASE Start(h)
    BY <2>1, <2>2, CreditStarts
  <2>3. CASE Continue(h)
    BY <2>1, <2>3, CreditLoops, CreditRests, CreditCommits DEF Continue
  <2> QED BY <1>2, <2>1, <2>2, <2>3
<1>3. CASE Environment \/ UNCHANGED vars
  <2>1. UNCHANGED <<invoice, credit, req>>
    BY <1>3 DEF Environment, IssueBookingInvoice, Alone, GatewayDecides, GatewayFails,
       FlagForReview, ApproveReviewed, AdvanceFails, AdvanceDecides, Tick, vars
  <2>2. Owing' = Owing
    BY <2>1, SameOwing
  <2> QED BY <2>1, <2>2 DEF CreditInv, CreditTurn, Applying, Consuming, Outstanding
<1> QED BY <1>1, <1>2, <1>3 DEF Next, Alone

(* No application passes over an older invoice.                            *)
LEMMA StepOldest ==
  ASSUME IInv, BillingAssumption, CreditInv, [Next]_vars,
         NEW i \in Invoice, NEW j \in Invoice, j < i, Open(j), Outstanding(j) > 0
  PROVE  ledger'.applied = ledger.applied \/ ledger'.payments[i] = ledger.payments[i]
<1>0. ledger \in Ledger
  BY DEF IInv, TypeOK
<1>1. ASSUME NEW h \in Handler, CommitSettle(h)
      PROVE  ledger'.applied = ledger.applied \/ ledger'.payments[i] = ledger.payments[i]
  <2>1. CASE req[h].method # "prepaid"
    BY <1>0, <1>1, <2>1 DEF CommitSettle, BookPayment, Ledger
  <2>2. CASE req[h].method = "prepaid"
    <3>1. /\ OldestDue(req[h].inv, req[h].todo) /\ credit > 0
          /\ Owing \subseteq req[h].todo
      <4>1. /\ Consuming(h) /\ Applying(h) /\ CreditTurn(h)
            /\ credit \in Nat /\ req[h].amount \in Nat
        BY <1>1, <2>2 DEF Consuming, Applying, CreditInv, CommitSettle, IInv, TypeOK, Request
      <4> QED BY <4>1 DEF CreditTurn
    <3>2. req[h].inv # i
      <4>1. j \in Owing /\ i \in Int /\ j \in Int
        BY DEF Owing, Invoice
      <4> QED BY <3>1, <4>1 DEF OldestDue
    <3>3. ledger'.payments[i] = ledger.payments[i]
      BY <1>0, <1>1, <3>2 DEF CommitSettle, BookPayment, Ledger
    <3> QED BY <3>3
  <2> QED BY <2>1, <2>2
<1>2. ASSUME NEW h \in Handler, VoidWrite(h) \/ BookVoidWrite(h)
      PROVE  ledger'.applied = ledger.applied
  BY <1>0, <1>2 DEF VoidWrite, BookVoidWrite, Reverse, Ledger
<1>3. ASSUME NEW h \in Handler, NEW a \in Nat, AddCredit(h, a)
      PROVE  ledger'.applied = ledger.applied
  BY <1>0, <1>3 DEF AddCredit, Ledger
<1>4. ASSUME NEW k \in Invoice, Charge(k)
      PROVE  ledger'.applied = ledger.applied
  BY <1>0, <1>4 DEF Charge, Ledger
<1> QED BY <1>1, <1>2, <1>3, <1>4, LedgerWriters

(* Served one at a time and never cut short, the requests of a unit        *)
(* without booking invoices apply credit to the oldest open invoice:       *)
(* between requests no credit lies beside a debt, and the list             *)
(* applyCreditToOutstanding works through holds every debt.                *)
THEOREM CreditGoesToOldest ==
  ASSUME \A g, h \in Handler : g = h, MayCrash = FALSE, BookingInvoice = {}
  PROVE  Spec => CreditOldestFirst
<1>1. Alone /\ (Spec => []Apart)
  <2>1. Spec => []Apart
    BY OneRequestIsApart, PTL
  <2> QED BY <2>1 DEF Alone
<1>2. Init => CreditInv
  BY DEF Init, CreditInv, CreditTurn, Applying, Consuming, Idle
<1>3. IInv /\ SerialInv /\ CreditInv /\ [Next]_vars => CreditInv'
  BY <1>1, BillingAssumption, StepCredits
<1>4. IInv /\ CreditInv /\ [Next]_vars
        => [\A i, j \in Invoice :
              j < i /\ Open(j) /\ Outstanding(j) > 0
              => ledger'.applied = ledger.applied \/ ledger'.payments[i] = ledger.payments[i]]_vars
  BY BillingAssumption, StepOldest
<1> QED BY <1>1, <1>2, <1>3, <1>4, Invariance, ApartIsSerial, PTL DEF Spec, CreditOldestFirst
=============================================================================
