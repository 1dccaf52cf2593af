------------------------------ MODULE Booking ------------------------------
(***************************************************************************)
(* Bookings of one facility (facility/booking.service.ts), with the fee    *)
(* invoice and the deposit a confirmed booking takes.                      *)
(*                                                                         *)
(* create and approve do all their writes in a Serializable transaction,   *)
(* one step here: reads of bookings that a Serializable transaction of     *)
(* another request invalidates, and rows changed since its snapshot, abort *)
(* it (Abandon).  reject and cancel run at READ COMMITTED.  approve,       *)
(* reject and cancel check the status before their transaction, in a step  *)
(* of its own, and the update in it is by id alone; cancel's update locks  *)
(* the booking until it commits (Locked).  The fee invoice is reduced to   *)
(* its status: Billing has the rest.  What a booking does with its deposit *)
(* is Deposit's: settleMoney records one, a cancellation that finds        *)
(* something held is a release.  The rows of Deposit are those of bookings.*)
(***************************************************************************)
EXTENDS Deposit, FiniteSets

CONSTANTS
  Booking,          \* rows of the bookings table
  NoBooking,        \* no row
  Instant,          \* the times a booking can start and end at
  FeeInvoice,       \* invoices of booking fees
  NoInvoice,        \* no row
  MaxConcurrent,    \* facility.maxConcurrent
  Fee,              \* whether the facility takes a fee
  BookingDeposit    \* the deposit it takes, of Amount; 0 if none

ASSUME BookingAssumption ==
  /\ IsFiniteSet(Booking)
  /\ NoBooking \notin Booking
  /\ Instant \subseteq Int
  /\ NoInvoice \notin FeeInvoice
  /\ MaxConcurrent \in Nat
  /\ Fee \in BOOLEAN
  /\ BookingDeposit \in Amount \cup {0}

VARIABLES
  booking,      \* the rows
  feeInvoice,   \* per fee invoice, its status and the booking it is for
  task,         \* requests on bookings being served
  contended     \* history: bookings on which two requests have overlapped

bookingVars == <<booking, feeInvoice, task, contended>>
vars == <<booking, feeInvoice, task, contended, deposit, books, req, raced>>

BookingStatus == {"none", "PENDING", "CONFIRMED", "CANCELLED", "REJECTED"}
BookingRow == [status : BookingStatus, start : Int, end : Int,
               dep : Deposit \cup {NoDeposit}, inv : FeeInvoice \cup {NoInvoice}]
Task == [pc : {"idle", "approve", "reject", "cancel", "cancelling"},
         booking : Booking \cup {NoBooking},
         dep : Deposit \cup {NoDeposit}, inv : FeeInvoice \cup {NoInvoice}]
At(pc, b, d, iv) == [pc |-> pc, booking |-> b, dep |-> d, inv |-> iv]
Rest == At("idle", NoBooking, NoDeposit, NoInvoice)

Active(b) == booking[b].status \in {"PENDING", "CONFIRMED"}
Ready(h) == task[h].pc = "idle" /\ req[h] = Idle
Locked(b) == \E g \in Handler : task[g].pc = "cancelling" /\ task[g].booking = b

(* A request on b begins, and one ends.                                    *)
Take(h, t) ==
  /\ task' = [task EXCEPT ![h] = t]
  /\ contended' = IF \E g \in Handler : task[g].booking = t.booking
                  THEN contended \cup {t.booking} ELSE contended
End(h) == task' = [task EXCEPT ![h] = Rest] /\ UNCHANGED contended

-----------------------------------------------------------------------------
(* assertNoConflict: the bookings, but for one, that overlap an interval.  *)
Overlapping(s, e, but) ==
  {b \in Booking \ {but} : Active(b) /\ booking[b].start < e /\ s < booking[b].end}

NoConflictUpTo(s, e, but) ==                       \* mutated: > for >=
  Cardinality(Overlapping(s, e, but)) <= MaxConcurrent
NoConflict(s, e, but) == Cardinality(Overlapping(s, e, but)) < MaxConcurrent

(* settleMoney: a new invoice iv and a new deposit d, if the facility      *)
(* takes them, and a booking row linked to them.                           *)
SettleMoney(b, iv, d) ==
  /\ IF Fee
     THEN /\ iv \in FeeInvoice /\ feeInvoice[iv].status = "none"
          /\ feeInvoice' = [feeInvoice EXCEPT ![iv] = [status |-> "ISSUED", of |-> b]]
     ELSE iv = NoInvoice /\ UNCHANGED feeInvoice
  /\ IF BookingDeposit > 0
     THEN d \in Deposit /\ Hold(d, BookingDeposit)
     ELSE d = NoDeposit /\ UNCHANGED <<deposit, books>>
  /\ UNCHANGED <<req, raced>>

LinkedFirst(row, iv, d) ==                         \* mutated: deposit link lost
  [row EXCEPT !.status = "CONFIRMED", !.inv = IF Fee THEN iv ELSE @]
Linked(row, iv, d) ==
  [row EXCEPT !.status = "CONFIRMED",
              !.inv = IF Fee THEN iv ELSE @,
              !.dep = IF BookingDeposit > 0 THEN d ELSE @]

(* auto: the facility as read before the transaction needed no approval,   *)
(* which management can change from one booking to the next.               *)
Create(h, b, s, e, auto, iv, d) ==
  LET row == [status |-> "PENDING", start |-> s, end |-> e, dep |-> NoDeposit, inv |-> NoInvoice]
  IN /\ Ready(h)
     /\ booking[b].status = "none"
     /\ s < e
     /\ NoConflict(s, e, b)
     /\ IF auto
        THEN /\ SettleMoney(b, iv, d)
             /\ booking' = [booking EXCEPT ![b] = Linked(row, iv, d)]
        ELSE /\ iv = NoInvoice /\ d = NoDeposit
             /\ booking' = [booking EXCEPT ![b] = row]
             /\ UNCHANGED <<feeInvoice, depositVars>>
     /\ UNCHANGED <<task, contended>>

-----------------------------------------------------------------------------
(* approve, reject and cancel: the read of the booking and its check.      *)
ReviewableAny(b) == booking[b].status # "none"     \* mutated: check of the status lost
Reviewable(b) == booking[b].status = "PENDING"

Review(h, b, pc) ==
  /\ Ready(h)
  /\ Reviewable(b)
  /\ Take(h, At(pc, b, NoDeposit, NoInvoice))
  /\ UNCHANGED <<booking, feeInvoice, depositVars>>

ApproveWrite(h, iv, d) ==
  LET b == task[h].booking
  IN /\ task[h].pc = "approve"
     /\ ~Locked(b)
     /\ NoConflict(booking[b].start, booking[b].end, b)
     /\ SettleMoney(b, iv, d)
     /\ booking' = [booking EXCEPT ![b] = Linked(@, iv, d)]
     /\ End(h)

RejectWrite(h) ==
  LET b == task[h].booking
  IN /\ task[h].pc = "reject"
     /\ ~Locked(b)
     /\ booking' = [booking EXCEPT ![b].status = "REJECTED"]
     /\ End(h)
     /\ UNCHANGED <<feeInvoice, depositVars>>

(* cancel keeps the links of the row it read.                              *)
CancelRead(h, b) ==
  /\ Ready(h)
  /\ Active(b)
  /\ Take(h, At("cancel", b, booking[b].dep, booking[b].inv))
  /\ UNCHANGED <<booking, feeInvoice, depositVars>>

(* Its transaction: the update of the booking, and refundHeldInTx's read.  *)
CancelUpdate(h) ==
  LET t == task[h]
  IN /\ t.pc = "cancel"
     /\ ~Locked(t.booking)
     /\ task' = [task EXCEPT ![h].pc = "cancelling"]
     /\ IF t.dep # NoDeposit /\ Held(deposit[t.dep]) > 0
        THEN ReleaseRead(h, t.dep)
        ELSE UNCHANGED depositVars
     /\ UNCHANGED <<booking, feeInvoice, contended>>

(* voidUnpaidInvoiceInTx, at a step: Billing has its race with a payment.  *)
VoidedAlways(iv) == [feeInvoice EXCEPT ![iv] = @]  \* mutated: void forgotten
Voided(iv) ==
  [feeInvoice EXCEPT ![iv].status = IF @ = "ISSUED" THEN "VOID" ELSE @]

CancelCommit(h) ==
  LET t == task[h]
  IN /\ t.pc = "cancelling"
     /\ booking' = [booking EXCEPT ![t.booking].status = "CANCELLED"]
     /\ IF req[h].pc = "release" THEN ReleaseWrite(h) ELSE UNCHANGED depositVars
     /\ feeInvoice' = IF t.inv # NoInvoice THEN Voided(t.inv) ELSE feeInvoice
     /\ End(h)

(* A request ends in an exception, or its process dies: nothing commits.   *)
AbandonTask(h) ==
  /\ task[h].pc # "idle"
  /\ End(h)
  /\ req' = [req EXCEPT ![h] = Idle]
  /\ UNCHANGED <<booking, feeInvoice, deposit, books, raced>>

-----------------------------------------------------------------------------
(* Billing: the invoice is paid, wholly or in part, or management voids it *)
(* (the rows that voidUnpaidInvoiceInTx leaves alone).                     *)
SettleFee(iv, st) ==
  /\ feeInvoice[iv].status = "ISSUED"
  /\ feeInvoice' = [feeInvoice EXCEPT ![iv].status = st]
  /\ UNCHANGED <<booking, task, contended, depositVars>>

(* Refunds and forfeits of deposits through the deposit endpoints.         *)
DepositRequest(h) ==
  /\ task[h].pc = "idle"
  /\ Refunds(h)
  /\ UNCHANGED bookingVars

Init ==
  /\ InitDeposit
  /\ booking = [b \in Booking |-> [status |-> "none", start |-> 0, end |-> 0,
                                   dep |-> NoDeposit, inv |-> NoInvoice]]
  /\ feeInvoice = [iv \in FeeInvoice |-> [status |-> "none", of |-> NoBooking]]
  /\ task = [h \in Handler |-> Rest]
  /\ contended = {}

Step(h) ==
  \/ \E b \in Booking, s, e \in Instant, auto \in BOOLEAN :
       \E iv \in FeeInvoice \cup {NoInvoice}, d \in Deposit \cup {NoDeposit} :
         Create(h, b, s, e, auto, iv, d)
  \/ \E b \in Booking : Review(h, b, "approve") \/ Review(h, b, "reject") \/ CancelRead(h, b)
  \/ \E iv \in FeeInvoice \cup {NoInvoice}, d \in Deposit \cup {NoDeposit} :
       ApproveWrite(h, iv, d)
  \/ RejectWrite(h) \/ CancelUpdate(h) \/ CancelCommit(h) \/ AbandonTask(h)
  \/ DepositRequest(h)

Next ==
  \/ \E h \in Handler : Step(h)
  \/ \E iv \in FeeInvoice, st \in {"PAID", "VOID"} : SettleFee(iv, st)

Spec == Init /\ [][Next]_vars

-----------------------------------------------------------------------------
TypeOK ==
  /\ DepositTypeOK
  /\ booking \in [Booking -> BookingRow]
  /\ feeInvoice \in [FeeInvoice -> [status : {"none", "ISSUED", "PAID", "VOID"},
                                    of : Booking \cup {NoBooking}]]
  /\ task \in [Handler -> Task]
  /\ contended \subseteq Booking

Present(t) == {b \in Booking : Active(b) /\ booking[b].start <= t /\ t < booking[b].end}

(* "Prevent double-booking": at no time do more bookings than the facility *)
(* takes hold it, however creates, approvals, rejections and cancellations *)
(* interleave (assertNoConflict).                                          *)
NoOverbooking == \A t \in Instant : Cardinality(Present(t)) <= MaxConcurrent

-----------------------------------------------------------------------------
(* What else the code promises of a booking holds as long as no two        *)
(* requests on that booking have overlapped (approve, reject and cancel    *)
(* act on what they read before their transaction), and of its deposit as  *)
(* long as no two requests on the deposit have.                            *)

(* A fee that can be collected, and a deposit that is held, belong to a    *)
(* confirmed booking that has the link to release them by (settleMoney,    *)
(* and cancel's money policy).                                             *)
MoneyFollowsBooking ==
  /\ \A iv \in FeeInvoice :
       LET b == feeInvoice[iv].of
       IN feeInvoice[iv].status = "ISSUED" /\ b \notin contended =>
            booking[b].status = "CONFIRMED" /\ booking[b].inv = iv
  /\ \A d \in Deposit :
       contended = {} /\ raced[d] = "no" /\ Held(deposit[d]) > 0 =>
         \E b \in Booking : booking[b].status = "CONFIRMED" /\ booking[b].dep = d

(* "fully release any still-held deposit and void the fee invoice when it  *)
(* is still unpaid": a cancelled booking keeps neither.                    *)
KeepsMoney(b) ==
  \/ booking[b].dep # NoDeposit /\ raced[booking[b].dep] = "no"
       /\ Held(deposit[booking[b].dep]) > 0
  \/ booking[b].inv # NoInvoice /\ feeInvoice[booking[b].inv].status = "ISSUED"
CancelledReleasesMoney ==
  \A b \in Booking \ contended : booking[b].status = "CANCELLED" => ~KeepsMoney(b)

(* A booking is charged one fee (settleMoney runs once per booking).       *)
OneFee ==
  \A i, j \in FeeInvoice :
    /\ feeInvoice[i].status # "none"
    /\ feeInvoice[i].of = feeInvoice[j].of
    /\ feeInvoice[i].of \notin contended
    => i = j

(* "Only pending bookings can be approved": a cancelled or rejected one    *)
(* never comes back.                                                       *)
OnlyPendingApproved ==
  [][\A b \in Booking \ contended :
       booking'[b].status = "CONFIRMED" =>
         booking[b].status \in {"none", "PENDING", "CONFIRMED"}]_vars
=============================================================================
