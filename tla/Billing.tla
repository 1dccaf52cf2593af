------------------------------ MODULE Billing ------------------------------
(***************************************************************************)
(* The money of one unit in apps/api/src/billing: its invoices, the        *)
(* payments made against them, its prepaid credit, and the ledger and the  *)
(* receipts that record them (billing.service.ts, ledger.service.ts,       *)
(* receipt.service.ts).                                                    *)
(*                                                                         *)
(* The database is PostgreSQL at its default isolation, READ COMMITTED.  A *)
(* request is a handler h; its program counter req[h].pc separates the     *)
(* points where another request can run: a check made outside the          *)
(* transaction that relies on it, and, inside settleInvoice, the aggregate *)
(* over the payments and the write of the invoice.  A row a transaction    *)
(* has updated is locked until it commits (LockedPayments).  Amounts are   *)
(* cents: with two decimals the code's tolerance of 0.005 is exact.        *)
(***************************************************************************)
EXTENDS Integers

CONSTANTS
  NumInvoices,      \* invoices of the unit, numbered in the order of their due dates
  Payment,          \* rows of the payments table
  NoPayment,        \* no row
  Advance,          \* rows of the advance_payments table
  Handler,          \* requests the server runs at once
  Endpoint,         \* bound: the kinds of request this instance receives
  Enabled,          \* the gateways the condo has enabled
  BookingInvoice,   \* invoices issued for a facility booking
  TotalOf,          \* the total of each invoice
  DueAt,            \* the due date of each invoice
  Amount,           \* the amounts a manual payment or a prepayment can have
  MaxPrepaid,       \* bound: the prepayments ever recorded
  MaxNow,           \* bound: the clock
  MayCrash          \* whether a request can die between two of its steps

Invoice == 1 .. NumInvoices
DueSoonWindow == 1

(* DUITNOW_QR is the provider with an inquiry (pollStatus) beside its      *)
(* callbacks; "other" stands for the ones that only call back.             *)
Provider == {"DUITNOW_QR", "other"}

ASSUME BillingAssumption ==
  /\ NumInvoices \in Nat
  /\ NoPayment \notin Payment
  /\ Enabled \subseteq Provider
  /\ BookingInvoice \subseteq Invoice
  /\ TotalOf \in [Invoice -> Nat \ {0}]
  /\ DueAt \in [Invoice -> Nat]
  /\ Amount \subseteq Nat \ {0}
  /\ MaxPrepaid \in Nat
  /\ MaxNow \in Nat
  /\ MayCrash \in BOOLEAN

VARIABLES
  invoice,    \* invoice rows: status and amountPaid
  payment,    \* payment rows
  succeeded,  \* per invoice, what payment.aggregate sums over the SUCCEEDED rows
  gateway,    \* per payment, what became of its intent at the provider
  advance,    \* advance payment rows, with what became of their intents
  credit,     \* unitAccount.creditBalance
  ledger,     \* ledger entries: the keys written, and their totals
  receipts,   \* payments with a receipt (paymentId is unique)
  reminder,   \* per invoice, metadata.dueSoonNotifiedAt and the events sent
  now,        \* the clock
  req         \* the requests being served

vars == <<invoice, payment, succeeded, gateway, advance, credit, ledger,
          receipts, reminder, now, req>>

-----------------------------------------------------------------------------
Endpoints == {"issue", "pay", "callback", "manual", "prepay", "advance", "void",
              "cancelBooking", "dismiss", "sweep"}

(* "none" is a row not written yet.  The enums also have DRAFT (invoices)  *)
(* and REFUNDED (payments), which no statement of the repository writes.   *)
InvoiceStatus == {"none", "ISSUED", "PARTIAL", "PAID", "VOID", "OVERDUE"}
PaymentStatus == {"none", "PENDING", "SUCCEEDED", "FAILED", "CANCELLED"}
Method == {"gateway", "manual", "prepaid"}

(* An intent is open, or was paid in full or short of the amount asked.    *)
Outcome == {"none", "open", "full", "short"}

PaymentRow ==
  [status : PaymentStatus, inv : Invoice \cup {0}, amount : Nat, method : Method,
   provider : Provider, review : BOOLEAN, approved : BOOLEAN]

NoRow == [status |-> "none", inv |-> 0, amount |-> 0, method |-> "gateway",
          provider |-> "other", review |-> FALSE, approved |-> FALSE]

AdvanceRow ==
  [status : PaymentStatus, amount : Nat, provider : Provider, outcome : Outcome]

Ledger ==
  [booked : SUBSET Payment, reversed : SUBSET Invoice,
   payments : [Invoice -> Nat], charges : [Invoice -> Nat],
   prepaid : Nat, applied : Nat]

Request ==
  [pc : {"idle", "payCancel", "payInsert", "manual", "settle",
         "list", "apply", "credit", "advInsert", "void", "bookVoid",
         "dismiss", "overdue", "remind"},
   inv : Invoice \cup {0}, pay : Payment \cup {NoPayment}, amount : Nat,
   method : Method, sum : Int, cancels : SUBSET Payment,
   todo : SUBSET Invoice, at : Nat]

Idle == [pc |-> "idle", inv |-> 0, pay |-> NoPayment, amount |-> 0,
         method |-> "gateway", sum |-> 0, cancels |-> {}, todo |-> {}, at |-> 0]

-----------------------------------------------------------------------------
(* Rows, as a committed read sees them.                                    *)

OpenUnlessPaid(i) == invoice[i].status \notin {"none", "PAID"}
Open(i) == invoice[i].status \in {"ISSUED", "PARTIAL", "OVERDUE"}
Outstanding(i) == TotalOf[i] - invoice[i].paid
PendingOf(i) == {p \in Payment : payment[p].status = "PENDING" /\ payment[p].inv = i}

(* Payment rows an open transaction has updated or inserted.               *)
Settling == {h \in Handler : req[h].pc = "settle"}
LockedPayments == UNION {{req[h].pay} \cup req[h].cancels : h \in Settling}
Fresh == {p \in Payment : payment[p].status = "none"} \ LockedPayments

WithStatus(S, st) ==
  [p \in Payment |-> IF p \in S THEN [payment[p] EXCEPT !.status = st] ELSE payment[p]]

Goto(h, r) == req' = [req EXCEPT ![h] = r]
Finish(h) == Goto(h, Idle)

NextOfFirstOnly(h, i) == Idle

(* After applyCreditToInvoice for i: the rest of the loop, or the end.     *)
NextOf(h, i) ==
  IF req[h].todo \ {i} = {} THEN Idle
  ELSE [Idle EXCEPT !.pc = "apply", !.todo = req[h].todo \ {i}]

-----------------------------------------------------------------------------
(* Issuing: create and generateRecurring issue, then apply credit.         *)

Charge(i) ==
  /\ invoice[i].status = "none"
  /\ invoice' = [invoice EXCEPT ![i].status = "ISSUED"]
  /\ ledger' = [ledger EXCEPT !.charges[i] = @ + TotalOf[i]]
  /\ UNCHANGED <<payment, succeeded, gateway, advance, credit, receipts, reminder, now>>

IssueInvoice(h, i) ==
  /\ req[h] = Idle
  /\ i \notin BookingInvoice
  /\ Charge(i)
  /\ Goto(h, [Idle EXCEPT !.pc = "apply", !.todo = {i}])

(* createInvoiceInTx, inside the booking's own transaction: no credit.     *)
IssueBookingInvoice(i) ==
  /\ i \in BookingInvoice
  /\ Charge(i)
  /\ UNCHANGED req

-----------------------------------------------------------------------------
(* createPayment: check, cancel the pending rows, insert.  A row whose     *)
(* intent is never created is one whose provider never decides.            *)

PayRead(h, i) ==
  /\ req[h] = Idle
  /\ Open(i)
  /\ Outstanding(i) > 0
  /\ Goto(h, [Idle EXCEPT !.pc = "payCancel", !.inv = i, !.amount = Outstanding(i)])
  /\ UNCHANGED <<invoice, payment, succeeded, gateway, advance, credit, ledger,
                 receipts, reminder, now>>

PayCancel(h) ==
  /\ req[h].pc = "payCancel"
  /\ PendingOf(req[h].inv) \cap LockedPayments = {}
  /\ payment' = WithStatus(PendingOf(req[h].inv), "CANCELLED")
  /\ Goto(h, [req[h] EXCEPT !.pc = "payInsert"])
  /\ UNCHANGED <<invoice, succeeded, gateway, advance, credit, ledger, receipts,
                 reminder, now>>

PayInsert(h, p) ==
  /\ req[h].pc = "payInsert"
  /\ p \in Fresh
  /\ \E pr \in Enabled :
       payment' = [payment EXCEPT ![p] =
         [NoRow EXCEPT !.status = "PENDING", !.inv = req[h].inv,
                       !.amount = req[h].amount, !.provider = pr]]
  /\ gateway' = [gateway EXCEPT ![p] = "open"]
  /\ Finish(h)
  /\ UNCHANGED <<invoice, succeeded, advance, credit, ledger, receipts, reminder, now>>

(* External: the payer pays an intent, in full or short.  Nothing tells    *)
(* the provider that the row was cancelled meanwhile.                      *)
GatewayDecides(p, o) ==
  /\ gateway[p] = "open"
  /\ o \in {"full", "short"}
  /\ gateway' = [gateway EXCEPT ![p] = o]
  /\ UNCHANGED <<invoice, payment, succeeded, advance, credit, ledger, receipts,
                 reminder, now, req>>

-----------------------------------------------------------------------------
(* settleInvoice: every way of paying an invoice ends here.                *)

AggregateBefore(i, a) == succeeded[i]
Aggregate(i, a) == succeeded[i] + a

BeginSettle(h, p, i, a, m, cancels, todo) ==
  /\ Goto(h, [pc |-> "settle", inv |-> i, pay |-> p, amount |-> a, method |-> m,
              sum |-> Aggregate(i, a), cancels |-> cancels, todo |-> todo, at |-> 0])
  /\ UNCHANGED <<invoice, payment, succeeded, gateway, advance, credit, ledger,
                 receipts, reminder, now>>

(* A callback settles only when the amount it reports is the one asked.    *)
(* pollDuitNowQrStatus has the status of the transaction and no amount.    *)
ByCallback(o) == o = "full"
ByInquiryOfAny(pr, o) == o \in {"full", "short"}
ByInquiry(pr, o) == pr = "DUITNOW_QR" /\ o \in {"full", "short"}

VerifiedAnyAmount(p) == gateway[p] \in {"full", "short"} \/ payment[p].approved
Verified(p) ==
  \/ ByCallback(gateway[p])
  \/ ByInquiry(payment[p].provider, gateway[p])
  \/ payment[p].approved

ClaimUnlessSettled(p) == payment[p].status \notin {"none", "SUCCEEDED"}
Claim(p) == payment[p].status = "PENDING"

(* markPaymentSucceeded, from a callback, a poll or an approval: move the  *)
(* row from PENDING, cancel the other attempts on the invoice, aggregate.  *)
GatewaySettle(h, p) ==
  LET i == payment[p].inv IN
  /\ req[h] = Idle
  /\ Verified(p)
  /\ Claim(p)
  /\ p \notin LockedPayments
  /\ PendingOf(i) \cap LockedPayments = {}
  /\ BeginSettle(h, p, i, payment[p].amount, "gateway", PendingOf(i) \ {p}, {})

ManualReadUnchecked(h, i, a) ==
  /\ req[h] = Idle
  /\ Open(i)
  /\ Goto(h, [Idle EXCEPT !.pc = "manual", !.inv = i, !.amount = a])
  /\ UNCHANGED <<invoice, payment, succeeded, gateway, advance, credit, ledger,
                 receipts, reminder, now>>

(* recordManualPayment checks the invoice before its transaction starts.   *)
ManualRead(h, i, a) ==
  /\ req[h] = Idle
  /\ Open(i)
  /\ a <= Outstanding(i)
  /\ Goto(h, [Idle EXCEPT !.pc = "manual", !.inv = i, !.amount = a])
  /\ UNCHANGED <<invoice, payment, succeeded, gateway, advance, credit, ledger,
                 receipts, reminder, now>>

ManualSettle(h, p) ==
  /\ req[h].pc = "manual"
  /\ p \in Fresh
  /\ BeginSettle(h, p, req[h].inv, req[h].amount, "manual", {}, {})

NewestDue(i, S) == i \in S /\ \A j \in S : j <= i
OldestDue(i, S) == i \in S /\ \A j \in S : i <= j

(* applyCreditToInvoice, the reads of its transaction.  Without credit the *)
(* loop of applyCreditToOutstanding breaks, or the transaction returns     *)
(* null and the loop goes on.                                              *)
CreditRead(h, i) ==
  LET apply == IF credit < Outstanding(i) THEN credit ELSE Outstanding(i) IN
  /\ req[h].pc = "apply"
  /\ OldestDue(i, req[h].todo)
  /\ \/ credit = 0 /\ Finish(h)
     \/ ~(Open(i) /\ apply > 0) /\ Goto(h, NextOf(h, i))
     \/ /\ Open(i)
        /\ apply > 0
        /\ Goto(h, [req[h] EXCEPT !.pc = "credit", !.inv = i, !.amount = apply])
  /\ UNCHANGED <<invoice, payment, succeeded, gateway, advance, credit, ledger,
                 receipts, reminder, now>>

CreditSettle(h, p) ==
  /\ req[h].pc = "credit"
  /\ p \in Fresh
  /\ BeginSettle(h, p, req[h].inv, req[h].amount, "prepaid", {}, req[h].todo)

(* The commit: the payment rows, the invoice from the sum read earlier,    *)
(* the PAYMENT entries (skipDuplicates), the receipt, and for a credit     *)
(* application consumeCredit's conditional decrement.                      *)
SettledRows(r) ==
  [p \in Payment |->
    IF p = r.pay THEN [payment[p] EXCEPT !.status = "SUCCEEDED", !.inv = r.inv,
                                         !.amount = r.amount, !.method = r.method]
    ELSE IF p \in r.cancels THEN [payment[p] EXCEPT !.status = "CANCELLED"]
    ELSE payment[p]]

StatusForPaidRounded(i, paid) == IF paid + 1 >= TotalOf[i] THEN "PAID" ELSE "PARTIAL"
StatusForPaid(i, paid) == IF paid >= TotalOf[i] THEN "PAID" ELSE "PARTIAL"

BookPaymentPerInvoice(r) ==
  ledger' = [ledger EXCEPT
    !.booked = @ \cup {r.pay},
    !.payments[r.inv] = IF @ > 0 THEN @ ELSE r.amount,
    !.applied = IF r.method = "prepaid" THEN @ + r.amount ELSE @]

BookPaymentOnly(r) ==
  ledger' = [ledger EXCEPT
    !.booked = @ \cup {r.pay},
    !.payments[r.inv] = IF r.pay \in ledger.booked THEN @ ELSE @ + r.amount]

BookPayment(r) ==
  ledger' = [ledger EXCEPT
    !.booked = @ \cup {r.pay},
    !.payments[r.inv] = IF r.pay \in ledger.booked THEN @ ELSE @ + r.amount,
    !.applied = IF r.method = "prepaid" THEN @ + r.amount ELSE @]

CreditUnchecked(r) == TRUE
CreditCovers(r) == r.method = "prepaid" => credit >= r.amount

ReceiptAlways(r) == {r.pay}
ReceiptFor(r) == IF r.method = "prepaid" THEN {} ELSE {r.pay}

CommitSettle(h) ==
  LET r == req[h] IN
  /\ r.pc = "settle"
  /\ CreditCovers(r)
  /\ payment' = SettledRows(r)
  /\ succeeded' = [succeeded EXCEPT ![r.inv] = @ + r.amount]
  /\ invoice' = [invoice EXCEPT ![r.inv] =
       [status |-> StatusForPaid(r.inv, r.sum), paid |-> r.sum]]
  /\ BookPayment(r)
  /\ credit' = IF r.method = "prepaid" THEN credit - r.amount ELSE credit
  /\ receipts' = receipts \cup ReceiptFor(r)
  /\ Goto(h, IF r.method = "prepaid" THEN NextOf(h, r.inv) ELSE Idle)
  /\ UNCHANGED <<gateway, advance, reminder, now>>

(* consumeCredit throws: the transaction rolls back and the request fails. *)
InsufficientCredit(h) ==
  /\ req[h].pc = "settle"
  /\ ~CreditCovers(req[h])
  /\ Finish(h)
  /\ UNCHANGED <<invoice, payment, succeeded, gateway, advance, credit, ledger,
                 receipts, reminder, now>>

-----------------------------------------------------------------------------
(* The other callbacks, and management's decision on a flagged payment.    *)

(* The report of a failed attempt.  The payer may try again until the    *)
(* intent is paid, and what is reported arrives late and in any order: so  *)
(* at any time once there is an intent.                                    *)
GatewayFails(p) ==
  /\ gateway[p] # "none"
  /\ payment[p].status = "PENDING"
  /\ p \notin LockedPayments
  /\ payment' = [payment EXCEPT ![p].status = "FAILED"]
  /\ UNCHANGED <<invoice, succeeded, gateway, advance, credit, ledger, receipts,
                 reminder, now, req>>

(* review and approved say that the flag and the approval were written.    *)
(* Both are metadata, updated by id from an earlier reading: on a row that *)
(* has left PENDING meanwhile nothing reads them again.                    *)
FlagForReview(p) ==
  /\ gateway[p] = "short"
  /\ payment[p].status = "PENDING"
  /\ p \notin LockedPayments
  /\ payment' = [payment EXCEPT ![p].review = TRUE]
  /\ UNCHANGED <<invoice, succeeded, gateway, advance, credit, ledger, receipts,
                 reminder, now, req>>

(* approveReviewedPayment then calls markPaymentSucceeded: GatewaySettle.  *)
ApproveReviewed(p) ==
  /\ payment[p].status = "PENDING"
  /\ payment[p].review
  /\ p \notin LockedPayments
  /\ payment' = [payment EXCEPT ![p].approved = TRUE]
  /\ UNCHANGED <<invoice, succeeded, gateway, advance, credit, ledger, receipts,
                 reminder, now, req>>

DismissRead(h, p) ==
  /\ req[h] = Idle
  /\ payment[p].status \in {"PENDING", "FAILED"}
  /\ Goto(h, [Idle EXCEPT !.pc = "dismiss", !.pay = p])
  /\ UNCHANGED <<invoice, payment, succeeded, gateway, advance, credit, ledger,
                 receipts, reminder, now>>

(* The update has no condition on the status the read saw.                 *)
DismissWrite(h) ==
  LET p == req[h].pay IN
  /\ req[h].pc = "dismiss"
  /\ p \notin LockedPayments
  /\ payment' = [payment EXCEPT ![p].status = "CANCELLED"]
  /\ succeeded' = IF payment[p].status = "SUCCEEDED"
                  THEN [succeeded EXCEPT ![payment[p].inv] = @ - payment[p].amount]
                  ELSE succeeded
  /\ Finish(h)
  /\ UNCHANGED <<invoice, gateway, advance, credit, ledger, receipts, reminder, now>>

-----------------------------------------------------------------------------
(* Credit: recordPrepayment, and advance payments through a gateway.       *)

AddCredit(h, a) ==
  /\ ledger.prepaid + a <= MaxPrepaid
  /\ credit' = credit + a
  /\ ledger' = [ledger EXCEPT !.prepaid = @ + a]
  /\ Goto(h, [Idle EXCEPT !.pc = "list"])
  /\ UNCHANGED <<invoice, payment, succeeded, gateway, receipts, reminder, now>>

RecordPrepayment(h, a) ==
  /\ req[h] = Idle
  /\ AddCredit(h, a)
  /\ UNCHANGED advance

(* applyCreditToOutstanding: the open invoices, oldest due first.          *)
ListOpen(h) ==
  LET open == {i \in Invoice : Open(i)} IN
  /\ req[h].pc = "list"
  /\ Goto(h, IF open = {} THEN Idle ELSE [Idle EXCEPT !.pc = "apply", !.todo = open])
  /\ UNCHANGED <<invoice, payment, succeeded, gateway, advance, credit, ledger,
                 receipts, reminder, now>>

AdvanceCancel(h, a) ==
  /\ req[h] = Idle
  /\ advance' = [v \in Advance |->
       IF advance[v].status = "PENDING" THEN [advance[v] EXCEPT !.status = "CANCELLED"]
       ELSE advance[v]]
  /\ Goto(h, [Idle EXCEPT !.pc = "advInsert", !.amount = a])
  /\ UNCHANGED <<invoice, payment, succeeded, gateway, credit, ledger, receipts,
                 reminder, now>>

AdvanceInsert(h, v) ==
  /\ req[h].pc = "advInsert"
  /\ advance[v].status = "none"
  /\ \E pr \in Enabled :
       advance' = [advance EXCEPT ![v] =
         [status |-> "PENDING", amount |-> req[h].amount, provider |-> pr,
          outcome |-> "open"]]
  /\ Finish(h)
  /\ UNCHANGED <<invoice, payment, succeeded, gateway, credit, ledger, receipts,
                 reminder, now>>

(* External.                                                               *)
AdvanceDecides(v, o) ==
  /\ advance[v].outcome = "open"
  /\ o \in {"full", "short"}
  /\ advance' = [advance EXCEPT ![v].outcome = o]
  /\ UNCHANGED <<invoice, payment, succeeded, gateway, credit, ledger, receipts,
                 reminder, now, req>>

(* A short one that only a callback reports is held, and nothing approves it. *)
AdvanceSettle(h, v) ==
  /\ req[h] = Idle
  /\ \/ ByCallback(advance[v].outcome)
     \/ ByInquiry(advance[v].provider, advance[v].outcome)
  /\ advance[v].status = "PENDING"
  /\ advance' = [advance EXCEPT ![v].status = "SUCCEEDED"]
  /\ AddCredit(h, advance[v].amount)

AdvanceFails(v) ==
  /\ advance[v].outcome # "none"
  /\ advance[v].status = "PENDING"
  /\ advance' = [advance EXCEPT ![v].status = "FAILED"]
  /\ UNCHANGED <<invoice, payment, succeeded, gateway, credit, ledger, receipts,
                 reminder, now, req>>

-----------------------------------------------------------------------------
(* Voiding.  record() upserts on the key of the reversal: it counts once.  *)

ReverseUnkeyed(i) ==
  ledger' = [ledger EXCEPT !.reversed = @ \cup {i}, !.charges[i] = @ - TotalOf[i]]

Reverse(i) ==
  ledger' = [ledger EXCEPT !.reversed = @ \cup {i},
                           !.charges[i] = IF i \in ledger.reversed THEN @ ELSE @ - TotalOf[i]]

VoidableUnlessPaid(i) == Open(i)
Voidable(i) == Open(i) /\ invoice[i].paid = 0

VoidRead(h, i) ==
  /\ req[h] = Idle
  /\ Voidable(i)
  /\ Goto(h, [Idle EXCEPT !.pc = "void", !.inv = i])
  /\ UNCHANGED <<invoice, payment, succeeded, gateway, advance, credit, ledger,
                 receipts, reminder, now>>

VoidWrite(h) ==
  LET i == req[h].inv IN
  /\ req[h].pc = "void"
  /\ PendingOf(i) \cap LockedPayments = {}
  /\ payment' = WithStatus(PendingOf(i), "CANCELLED")
  /\ Reverse(i)
  /\ invoice' = [invoice EXCEPT ![i].status = "VOID"]
  /\ Finish(h)
  /\ UNCHANGED <<succeeded, gateway, advance, credit, receipts, reminder, now>>

(* voidUnpaidInvoiceInTx, when a booking is cancelled: pending payments stay. *)
BookVoidRead(h, i) ==
  /\ req[h] = Idle
  /\ i \in BookingInvoice
  /\ Voidable(i)
  /\ Goto(h, [Idle EXCEPT !.pc = "bookVoid", !.inv = i])
  /\ UNCHANGED <<invoice, payment, succeeded, gateway, advance, credit, ledger,
                 receipts, reminder, now>>

BookVoidWrite(h) ==
  LET i == req[h].inv IN
  /\ req[h].pc = "bookVoid"
  /\ Reverse(i)
  /\ invoice' = [invoice EXCEPT ![i].status = "VOID"]
  /\ Finish(h)
  /\ UNCHANGED <<payment, succeeded, gateway, advance, credit, receipts, reminder, now>>

-----------------------------------------------------------------------------
(* runDueSweep: `now` is read once; the ids found overdue are updated      *)
(* without a condition on their status, then the due-soon ones reminded.   *)

OverdueIdsAny == {i \in Invoice : invoice[i].status \notin {"none", "VOID"} /\ DueAt[i] < now}
OverdueIds == {i \in Invoice : invoice[i].status \in {"ISSUED", "PARTIAL"} /\ DueAt[i] < now}

DueSoonIdsAlways(at) ==
  {i \in Invoice : invoice[i].status = "ISSUED" /\ DueAt[i] \in at .. at + DueSoonWindow}

DueSoonIds(at) ==
  {i \in Invoice : /\ invoice[i].status = "ISSUED"
                   /\ DueAt[i] \in at .. at + DueSoonWindow
                   /\ ~reminder[i].notified}

SweepRead(h) ==
  /\ req[h] = Idle
  /\ OverdueIds \cup DueSoonIds(now) # {}
  /\ Goto(h, [Idle EXCEPT !.pc = "overdue", !.todo = OverdueIds, !.at = now])
  /\ UNCHANGED <<invoice, payment, succeeded, gateway, advance, credit, ledger,
                 receipts, reminder, now>>

SweepWrite(h) ==
  LET soon == DueSoonIds(req[h].at) IN
  /\ req[h].pc = "overdue"
  /\ invoice' = [i \in Invoice |->
       IF i \in req[h].todo THEN [invoice[i] EXCEPT !.status = "OVERDUE"] ELSE invoice[i]]
  /\ Goto(h, IF soon = {} THEN Idle ELSE [Idle EXCEPT !.pc = "remind", !.todo = soon])
  /\ UNCHANGED <<payment, succeeded, gateway, advance, credit, ledger, receipts,
                 reminder, now>>

(* The metadata tested is the snapshot the sweep read.  The mark is        *)
(* written before the event: a crash in between loses one counted as sent. *)
Remind(h, i) ==
  /\ req[h].pc = "remind"
  /\ i \in req[h].todo
  /\ reminder' = [reminder EXCEPT ![i] = [notified |-> TRUE, sent |-> @.sent + 1]]
  /\ Goto(h, IF req[h].todo = {i} THEN Idle ELSE [req[h] EXCEPT !.todo = @ \ {i}])
  /\ UNCHANGED <<invoice, payment, succeeded, gateway, advance, credit, ledger,
                 receipts, now>>

Tick ==
  /\ now < MaxNow
  /\ now' = now + 1
  /\ UNCHANGED <<invoice, payment, succeeded, gateway, advance, credit, ledger,
                 receipts, reminder, req>>

(* The process dies: an open transaction rolls back, the rest is not done. *)
Crash(h) ==
  /\ MayCrash
  /\ req[h] # Idle
  /\ Finish(h)
  /\ UNCHANGED <<invoice, payment, succeeded, gateway, advance, credit, ledger,
                 receipts, reminder, now>>

-----------------------------------------------------------------------------
Init ==
  /\ invoice = [i \in Invoice |-> [status |-> "none", paid |-> 0]]
  /\ payment = [p \in Payment |-> NoRow]
  /\ succeeded = [i \in Invoice |-> 0]
  /\ gateway = [p \in Payment |-> "none"]
  /\ advance = [v \in Advance |-> [status |-> "none", amount |-> 0,
                                   provider |-> "other", outcome |-> "none"]]
  /\ credit = 0
  /\ ledger = [booked |-> {}, reversed |-> {}, payments |-> [i \in Invoice |-> 0],
               charges |-> [i \in Invoice |-> 0], prepaid |-> 0, applied |-> 0]
  /\ receipts = {}
  /\ reminder = [i \in Invoice |-> [notified |-> FALSE, sent |-> 0]]
  /\ now = 0
  /\ req = [h \in Handler |-> Idle]

(* What a request does once it has started.                                *)
Continue(h) ==
  \/ PayCancel(h)
  \/ \E p \in Payment : PayInsert(h, p) \/ ManualSettle(h, p) \/ CreditSettle(h, p)
  \/ CommitSettle(h) \/ InsufficientCredit(h)
  \/ ListOpen(h) \/ \E i \in Invoice : CreditRead(h, i)
  \/ \E v \in Advance : AdvanceInsert(h, v)
  \/ VoidWrite(h) \/ BookVoidWrite(h) \/ DismissWrite(h)
  \/ SweepWrite(h) \/ \E i \in Invoice : Remind(h, i)

Start(h) ==
  \/ \E i \in Invoice :
       \/ "issue" \in Endpoint /\ IssueInvoice(h, i)
       \/ "pay" \in Endpoint /\ PayRead(h, i)
       \/ "void" \in Endpoint /\ VoidRead(h, i)
       \/ "cancelBooking" \in Endpoint /\ BookVoidRead(h, i)
       \/ "manual" \in Endpoint /\ \E a \in Amount : ManualRead(h, i, a)
  \/ \E p \in Payment :
       \/ "callback" \in Endpoint /\ GatewaySettle(h, p)
       \/ "dismiss" \in Endpoint /\ DismissRead(h, p)
  \/ \E a \in Amount :
       \/ "prepay" \in Endpoint /\ RecordPrepayment(h, a)
       \/ "advance" \in Endpoint /\ AdvanceCancel(h, a)
  \/ "callback" \in Endpoint /\ \E v \in Advance : AdvanceSettle(h, v)
  \/ "sweep" \in Endpoint /\ SweepRead(h)

Environment ==
  \/ \E i \in Invoice : IssueBookingInvoice(i)
  \/ \E p \in Payment : \/ GatewayFails(p) \/ FlagForReview(p) \/ ApproveReviewed(p)
                        \/ \E o \in Outcome : GatewayDecides(p, o)
  \/ \E v \in Advance : AdvanceFails(v) \/ \E o \in Outcome : AdvanceDecides(v, o)
  \/ Tick

Next == (\E h \in Handler : Continue(h) \/ Start(h) \/ Crash(h)) \/ Environment

Spec == Init /\ [][Next]_vars

(* A request that has started keeps running while the process lives.       *)
FairSpec == Spec /\ \A h \in Handler : WF_vars(Continue(h))
=============================================================================
