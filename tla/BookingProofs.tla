--------------------------- MODULE BookingProofs ---------------------------
(***************************************************************************)
(* The facility is never overbooked, bookings do to deposits only what     *)
(* Deposit does, and a booking no two requests contend for is approved     *)
(* once and charged once, for any number of bookings, times, requests and  *)
(* places.                                                                 *)
(*                                                                         *)
(* Only create and approve make a booking active, and both count, in the   *)
(* transaction that does it, the active bookings that overlap it.  Those   *)
(* present at a time the new booking covers overlap it, so they are fewer  *)
(* than the facility takes.  Every other step leaves the intervals alone   *)
(* and can only make a booking inactive.                                   *)
(*                                                                         *)
(* A step of a booking is a request on its deposit, or touches none: the   *)
(* invariant Tasks keeps a handler's request on a booking apart from its   *)
(* requests on deposits, until cancel begins its release.                  *)
(*                                                                         *)
(* OneFee and OnlyPendingApproved are not inductive: between the check and *)
(* the transaction of an approval, Steady says that the booking stays      *)
(* pending unless it is contended, and Meet that whoever decides it        *)
(* meanwhile makes it so.                                                  *)
(*                                                                         *)
(* The money of a booking follows from its links.  LinksRead says that a   *)
(* cancellation nothing contends with has the links of its booking, and    *)
(* Releasing that between its update and its commit it is releasing the    *)
(* deposit or there was nothing to release; what is held of a deposit only *)
(* falls (Falls), so nothing comes back once it is.                        *)
(***************************************************************************)
EXTENDS Booking, DepositProofs, FiniteSetTheorems

FeeRow == [status : {"none", "ISSUED", "PAID", "VOID"}, of : Booking \cup {NoBooking}]

BookingTyped ==
  /\ booking \in [Booking -> BookingRow]
  /\ feeInvoice \in [FeeInvoice -> FeeRow]
  /\ task \in [Handler -> Task]
  /\ contended \subseteq Booking

Tasks ==
  \A h \in Handler :
    /\ task[h].pc # "idle" => task[h].booking \in Booking
    /\ task[h].pc \in {"approve", "reject", "cancel"} => req[h] = Idle

(* The deposits and their requests satisfy Deposit's own invariant.        *)
BInv == BookingTyped /\ Tasks /\ Base

-----------------------------------------------------------------------------
(* settleMoney is a recorded deposit, or touches none.                     *)
LEMMA SettleIsDeposits ==
  ASSUME NEW h \in Handler, req[h] = Idle, NEW b, NEW iv, NEW d, SettleMoney(b, iv, d)
  PROVE  [NextDeposit]_depositVars
<1>1. CASE BookingDeposit > 0
  <2>1. d \in Deposit /\ Hold(d, BookingDeposit) /\ UNCHANGED <<req, raced>>
    BY <1>1 DEF SettleMoney
  <2>2. BookingDeposit \in Amount
    BY <1>1, BookingAssumption
  <2>3. Record(h, d, BookingDeposit)
    BY <2>1 DEF Record
  <2> QED BY <2>1, <2>2, <2>3 DEF NextDeposit, Endpoints
<1>2. CASE ~(BookingDeposit > 0)
  BY <1>2 DEF SettleMoney, depositVars
<1> QED BY <1>1, <1>2

(* Every step of a booking is a step of its deposits or none of theirs.    *)
LEMMA StepIsDeposits ==
  ASSUME BInv, [Next]_vars
  PROVE  [NextDeposit]_depositVars
<1>1. ASSUME NEW h \in Handler, NEW b \in Booking, NEW s \in Instant, NEW e \in Instant,
             NEW auto \in BOOLEAN, NEW iv, NEW d, Create(h, b, s, e, auto, iv, d)
      PROVE  [NextDeposit]_depositVars
  <2>1. CASE auto
    <3>1. req[h] = Idle /\ SettleMoney(b, iv, d)
      BY <1>1, <2>1 DEF Create, Ready
    <3> QED BY <3>1, SettleIsDeposits
  <2>2. CASE ~auto
    BY <1>1, <2>2 DEF Create
  <2> QED BY <2>1, <2>2
<1>2. ASSUME NEW h \in Handler, NEW iv, NEW d, ApproveWrite(h, iv, d)
      PROVE  [NextDeposit]_depositVars
  <2>1. req[h] = Idle /\ SettleMoney(task[h].booking, iv, d)
    BY <1>2 DEF ApproveWrite, BInv, Tasks
  <2> QED BY <2>1, SettleIsDeposits
<1>3. ASSUME NEW h \in Handler, CancelUpdate(h)
      PROVE  [NextDeposit]_depositVars
  <2>1. CASE task[h].dep # NoDeposit /\ Held(deposit[task[h].dep]) > 0
    <3>1. task[h].dep \in Deposit
      BY <2>1 DEF BInv, BookingTyped, Task
    <3>2. ReleaseRead(h, task[h].dep)
      BY <1>3, <2>1 DEF CancelUpdate
    <3> QED BY <3>1, <3>2 DEF NextDeposit
  <2>2. CASE ~(task[h].dep # NoDeposit /\ Held(deposit[task[h].dep]) > 0)
    BY <1>3, <2>2 DEF CancelUpdate
  <2> QED BY <2>1, <2>2
<1>4. ASSUME NEW h \in Handler, CancelCommit(h)
      PROVE  [NextDeposit]_depositVars
  BY <1>4 DEF CancelCommit, NextDeposit
<1>5. ASSUME NEW h \in Handler, AbandonTask(h)
      PROVE  [NextDeposit]_depositVars
  <2>1. req' = [req EXCEPT ![h] = Idle] /\ UNCHANGED <<deposit, books, raced>>
    BY <1>5 DEF AbandonTask
  <2>2. CASE req[h] = Idle
    <3>1. req' = req
      BY <2>1, <2>2 DEF BInv, Base, DepositTypeOK
    <3> QED BY <2>1, <3>1 DEF depositVars
  <2>3. CASE req[h] # Idle
    BY <2>1, <2>3 DEF Abandon, NextDeposit, Endpoints, Refunds
  <2> QED BY <2>2, <2>3
<1>6. ASSUME NEW h \in Handler, DepositRequest(h)
      PROVE  [NextDeposit]_depositVars
  BY <1>6 DEF DepositRequest, NextDeposit, Endpoints
<1>7. ASSUME NEW h \in Handler,
             \/ \E b \in Booking : Review(h, b, "approve") \/ Review(h, b, "reject")
                                   \/ CancelRead(h, b)
             \/ RejectWrite(h)
      PROVE  [NextDeposit]_depositVars
  BY <1>7 DEF Review, CancelRead, RejectWrite
<1>8. ASSUME NEW iv \in FeeInvoice, NEW st \in {"PAID", "VOID"}, SettleFee(iv, st)
      PROVE  [NextDeposit]_depositVars
  BY <1>8 DEF SettleFee
<1>9. CASE UNCHANGED vars
  BY <1>9 DEF vars, depositVars
<1> QED BY <1>1, <1>2, <1>3, <1>4, <1>5, <1>6, <1>7, <1>8, <1>9 DEF Next, Step

(* A deposit's request is served for its own handler.                      *)
LEMMA RefundsServe ==
  ASSUME BInv, NEW h \in Handler, Refunds(h)
  PROVE  \A g \in Handler : g # h => req'[g] = req[g]
BY DEF Refunds, RefundRead, RefundWrite, Abandon, Begin, BInv, Base, DepositTypeOK

-----------------------------------------------------------------------------
(* What a step does to one booking, its invoices and its handler's task.   *)

(* settleMoney writes an invoice of the booking, or none.                  *)
LEMMA SettleTypes ==
  ASSUME BookingTyped, NEW b \in Booking, NEW iv, NEW d, SettleMoney(b, iv, d)
  PROVE  /\ feeInvoice' \in [FeeInvoice -> FeeRow]
         /\ iv \in FeeInvoice \cup {NoInvoice}
         /\ d \in Deposit \cup {NoDeposit}
         /\ req' = req
BY DEF SettleMoney, BookingTyped, FeeRow

(* The row settleMoney links is a row, with its interval.                  *)
LEMMA LinkedRow ==
  ASSUME NEW row \in BookingRow, NEW iv \in FeeInvoice \cup {NoInvoice},
         NEW d \in Deposit \cup {NoDeposit}
  PROVE  /\ Linked(row, iv, d) \in BookingRow
         /\ Linked(row, iv, d).status = "CONFIRMED"
         /\ Linked(row, iv, d).start = row.start
         /\ Linked(row, iv, d).end = row.end
BY DEF Linked, BookingRow, BookingStatus

(* The task of a request that begins.                                      *)
LEMMA Taken ==
  ASSUME BookingTyped, NEW h \in Handler, NEW t, t \in Task, t.booking \in Booking, Take(h, t)
  PROVE  /\ task' = [task EXCEPT ![h] = t]
         /\ task' \in [Handler -> Task]
         /\ contended' \subseteq Booking
         /\ contended \subseteq contended'
         /\ \A g \in Handler : task[g].booking = t.booking => t.booking \in contended'
         /\ \A c \in Booking : c # t.booking => (c \in contended' <=> c \in contended)
BY DEF Take, BookingTyped

(* Every action keeps the invariant.                                       *)
LEMMA BStep ==
  ASSUME BInv, [Next]_vars
  PROVE  BInv'
<1>0. Base'
  BY StepIsDeposits, BaseStep DEF BInv
<1>1. /\ BookingTyped /\ Tasks
      /\ DOMAIN req = Handler /\ DOMAIN task = Handler
      /\ Rest \in Task /\ Rest.pc = "idle"
  BY DEF BInv, BookingTyped, Base, DepositTypeOK, Rest, At, Task
<1>2. ASSUME NEW h \in Handler, task' = [task EXCEPT ![h] = Rest],
             \A g \in Handler : g # h => req'[g] = req[g]
      PROVE  task' \in [Handler -> Task] /\ Tasks'
  BY <1>1, <1>2 DEF BookingTyped, Tasks
<1>3. ASSUME NEW h \in Handler, NEW b \in Booking, NEW s \in Instant, NEW e \in Instant,
             NEW auto \in BOOLEAN, NEW iv, NEW d, Create(h, b, s, e, auto, iv, d)
      PROVE  BInv'
  <2> DEFINE row == [status |-> "PENDING", start |-> s, end |-> e,
                     dep |-> NoDeposit, inv |-> NoInvoice]
  <2>1. row \in BookingRow
    BY BookingAssumption DEF BookingRow, BookingStatus
  <2>2. PICK new \in BookingRow :
          /\ booking' = [booking EXCEPT ![b] = new]
          /\ feeInvoice' \in [FeeInvoice -> FeeRow]
          /\ UNCHANGED <<req, task, contended>>
    <3>1. CASE auto
      <4>1. SettleMoney(b, iv, d) /\ booking' = [booking EXCEPT ![b] = Linked(row, iv, d)]
            /\ UNCHANGED <<task, contended>>
        BY <1>3, <3>1 DEF Create
      <4> HIDE DEF row
      <4> QED BY <1>1, <2>1, <4>1, SettleTypes, LinkedRow
    <3>2. CASE ~auto
      <4>1. booking' = [booking EXCEPT ![b] = row] /\ UNCHANGED <<task, contended>>
            /\ UNCHANGED <<feeInvoice, depositVars>>
        BY <1>3, <3>2 DEF Create
      <4> HIDE DEF row
      <4> QED BY <1>1, <2>1, <4>1 DEF BookingTyped, depositVars
    <3> QED BY <3>1, <3>2
  <2>3. BookingTyped' /\ Tasks'
    BY <1>1, <2>2 DEF BookingTyped, Tasks
  <2> QED BY <1>0, <2>3 DEF BInv
<1>4. ASSUME NEW h \in Handler, NEW t \in Task, t.booking \in Booking, Take(h, t),
             req[h] = Idle, UNCHANGED <<booking, feeInvoice, req>>
      PROVE  BInv'
  <2>1. task' = [task EXCEPT ![h] = t] /\ task' \in [Handler -> Task]
        /\ contended' \subseteq Booking
    BY <1>1, <1>4, Taken
  <2>2. BookingTyped' /\ Tasks'
    BY <1>1, <1>4, <2>1 DEF BookingTyped, Tasks
  <2> QED BY <1>0, <2>2 DEF BInv
<1>5. ASSUME NEW h \in Handler, NEW b \in Booking, NEW pc \in {"approve", "reject"},
             Review(h, b, pc)
      PROVE  BInv'
  <2>1. /\ At(pc, b, NoDeposit, NoInvoice) \in Task
        /\ At(pc, b, NoDeposit, NoInvoice).booking = b
    BY DEF At, Task
  <2>2. /\ Take(h, At(pc, b, NoDeposit, NoInvoice)) /\ req[h] = Idle
        /\ UNCHANGED <<booking, feeInvoice, req>>
    BY <1>5 DEF Review, Ready, depositVars
  <2> QED BY <1>4, <2>1, <2>2
<1>6. ASSUME NEW h \in Handler, NEW b \in Booking, CancelRead(h, b)
      PROVE  BInv'
  <2> DEFINE t == At("cancel", b, booking[b].dep, booking[b].inv)
  <2>1. t \in Task /\ t.booking = b
    BY <1>1 DEF At, Task, BookingTyped, BookingRow
  <2>2. Take(h, t) /\ req[h] = Idle /\ UNCHANGED <<booking, feeInvoice, req>>
    BY <1>6 DEF CancelRead, Ready, depositVars
  <2> HIDE DEF t
  <2>3. task' = [task EXCEPT ![h] = t] /\ task' \in [Handler -> Task]
        /\ contended' \subseteq Booking
    BY <1>1, <2>1, <2>2, Taken
  <2>4. BookingTyped' /\ Tasks'
    BY <1>1, <2>1, <2>2, <2>3 DEF BookingTyped, Tasks
  <2> QED BY <1>0, <2>4 DEF BInv
<1>7. ASSUME NEW h \in Handler, NEW iv, NEW d, ApproveWrite(h, iv, d)
      PROVE  BInv'
  <2> DEFINE b == task[h].booking
  <2>1. /\ b \in Booking /\ SettleMoney(b, iv, d)
        /\ booking' = [booking EXCEPT ![b] = Linked(booking[b], iv, d)]
        /\ task' = [task EXCEPT ![h] = Rest] /\ contended' = contended
    BY <1>1, <1>7 DEF ApproveWrite, End, Tasks
  <2> HIDE DEF b
  <2>2. /\ feeInvoice' \in [FeeInvoice -> FeeRow] /\ req' = req
        /\ Linked(booking[b], iv, d) \in BookingRow
    BY <1>1, <2>1, SettleTypes, LinkedRow DEF BookingTyped
  <2>3. task' \in [Handler -> Task] /\ Tasks'
    BY <1>2, <2>1, <2>2
  <2>4. BookingTyped'
    BY <1>1, <2>1, <2>2, <2>3 DEF BookingTyped
  <2> QED BY <1>0, <2>3, <2>4 DEF BInv
<1>8. ASSUME NEW b \in Booking, NEW st \in {"REJECTED", "CANCELLED"}
      PROVE  [booking EXCEPT ![b].status = st] \in [Booking -> BookingRow]
  <2>1. ASSUME NEW row \in BookingRow PROVE [row EXCEPT !.status = st] \in BookingRow
    BY DEF BookingRow, BookingStatus
  <2> QED BY <1>1, <2>1 DEF BookingTyped
<1>9. ASSUME NEW h \in Handler, RejectWrite(h)
      PROVE  BInv'
  <2>1. /\ task[h].booking \in Booking
        /\ booking' = [booking EXCEPT ![task[h].booking].status = "REJECTED"]
        /\ task' = [task EXCEPT ![h] = Rest] /\ contended' = contended
        /\ UNCHANGED <<feeInvoice, req>>
    BY <1>1, <1>9 DEF RejectWrite, End, Tasks, depositVars
  <2>2. task' \in [Handler -> Task] /\ Tasks'
    BY <1>2, <2>1
  <2>3. BookingTyped'
    BY <1>1, <1>8, <2>1, <2>2 DEF BookingTyped
  <2> QED BY <1>0, <2>2, <2>3 DEF BInv
<1>10. ASSUME NEW h \in Handler, CancelUpdate(h)
       PROVE  BInv'
  <2>1. /\ task[h].pc = "cancel" /\ task' = [task EXCEPT ![h].pc = "cancelling"]
        /\ UNCHANGED <<booking, feeInvoice, contended>>
        /\ \A g \in Handler : g # h => req'[g] = req[g]
    BY <1>1, <1>10 DEF CancelUpdate, ReleaseRead, Begin, depositVars
  <2>2. ASSUME NEW t \in Task
        PROVE  /\ [t EXCEPT !.pc = "cancelling"] \in Task
               /\ [t EXCEPT !.pc = "cancelling"].pc = "cancelling"
               /\ [t EXCEPT !.pc = "cancelling"].booking = t.booking
    BY DEF Task
  <2>3. BookingTyped' /\ Tasks'
    BY <1>1, <2>1, <2>2 DEF BookingTyped, Tasks
  <2> QED BY <1>0, <2>3 DEF BInv
<1>11. ASSUME NEW h \in Handler, CancelCommit(h)
       PROVE  BInv'
  <2>1. /\ task[h].booking \in Booking /\ task[h] \in Task
        /\ booking' = [booking EXCEPT ![task[h].booking].status = "CANCELLED"]
        /\ task' = [task EXCEPT ![h] = Rest] /\ contended' = contended
        /\ feeInvoice' = IF task[h].inv # NoInvoice THEN Voided(task[h].inv) ELSE feeInvoice
        /\ \A g \in Handler : g # h => req'[g] = req[g]
    BY <1>1, <1>11 DEF CancelCommit, End, Tasks, ReleaseWrite, depositVars, BookingTyped
  <2>2. ASSUME NEW f \in FeeRow
        PROVE  [f EXCEPT !.status = IF @ = "ISSUED" THEN "VOID" ELSE @] \in FeeRow
    BY DEF FeeRow
  <2>3. feeInvoice' \in [FeeInvoice -> FeeRow]
    BY <1>1, <2>1, <2>2 DEF BookingTyped, Voided
  <2>4. task' \in [Handler -> Task] /\ Tasks'
    BY <1>2, <2>1
  <2>5. BookingTyped'
    BY <1>1, <1>8, <2>1, <2>3, <2>4 DEF BookingTyped
  <2> QED BY <1>0, <2>4, <2>5 DEF BInv
<1>12. ASSUME NEW h \in Handler, AbandonTask(h)
       PROVE  BInv'
  <2>1. /\ task' = [task EXCEPT ![h] = Rest] /\ UNCHANGED <<booking, feeInvoice, contended>>
        /\ \A g \in Handler : g # h => req'[g] = req[g]
    BY <1>1, <1>12 DEF AbandonTask, End
  <2>2. task' \in [Handler -> Task] /\ Tasks'
    BY <1>2, <2>1
  <2> QED BY <1>0, <1>1, <2>1, <2>2 DEF BInv, BookingTyped
<1>13. ASSUME NEW h \in Handler, DepositRequest(h)
       PROVE  BInv'
  <2>1. /\ task[h].pc = "idle" /\ UNCHANGED <<booking, feeInvoice, task, contended>>
        /\ \A g \in Handler : g # h => req'[g] = req[g]
    BY <1>13, RefundsServe DEF DepositRequest, bookingVars
  <2>2. BookingTyped' /\ Tasks'
    BY <1>1, <2>1 DEF BookingTyped, Tasks
  <2> QED BY <1>0, <2>2 DEF BInv
<1>14. ASSUME NEW iv \in FeeInvoice, NEW st \in {"PAID", "VOID"}, SettleFee(iv, st)
       PROVE  BInv'
  <2>1. /\ feeInvoice' = [feeInvoice EXCEPT ![iv].status = st]
        /\ UNCHANGED <<booking, task, contended, req>>
    BY <1>14 DEF SettleFee, depositVars
  <2>2. ASSUME NEW f \in FeeRow PROVE [f EXCEPT !.status = st] \in FeeRow
    BY DEF FeeRow
  <2>3. BookingTyped' /\ Tasks'
    BY <1>1, <2>1, <2>2 DEF BookingTyped, Tasks
  <2> QED BY <1>0, <2>3 DEF BInv
<1>15. CASE UNCHANGED vars
  <2>1. BookingTyped' /\ Tasks'
    BY <1>1, <1>15 DEF vars, BookingTyped, Tasks
  <2> QED BY <1>0, <2>1 DEF BInv
<1> QED
  BY <1>3, <1>5, <1>6, <1>7, <1>9, <1>10, <1>11, <1>12, <1>13, <1>14, <1>15 DEF Next, Step

(* No bookings, no requests, no deposits.                                  *)
LEMMA BInit == Init => BInv
<1> SUFFICES ASSUME Init PROVE BInv
  OBVIOUS
<1>1. Base
  BY InitHolds DEF Init
<1>2. Rest \in Task /\ Rest.pc = "idle" /\ \A h \in Handler : task[h] = Rest
  BY DEF Rest, At, Task, Init
<1>3. [status |-> "none", start |-> 0, end |-> 0, dep |-> NoDeposit, inv |-> NoInvoice]
        \in BookingRow
  BY DEF BookingRow, BookingStatus
<1>4. BookingTyped
  BY <1>2, <1>3 DEF Init, BookingTyped, FeeRow
<1>5. Tasks
  BY <1>2 DEF Tasks
<1> QED BY <1>1, <1>4, <1>5 DEF BInv

(* Every variable of bookings keeps its type: the rows of bookings, fee    *)
(* invoices and deposits, and the links requests carry between the read    *)
(* and the transaction of approve, reject and cancel.                      *)
THEOREM BookingTypeCorrect == Spec => []TypeOK
<1>1. BInv => TypeOK
  BY DEF BInv, BookingTyped, FeeRow, Base, TypeOK
<1>2. BInv /\ [Next]_vars => BInv'
  BY BStep
<1> QED BY <1>1, <1>2, BInit, PTL DEF Spec

(* Bookings implement Deposit: settleMoney and the release of a            *)
(* cancellation are its requests (recordInTx, refundHeldInTx).             *)
THEOREM BookingImplementsDeposit == Spec => SpecDeposit
<1>1. Init => InitDeposit
  BY DEF Init
<1>2. BInv /\ [Next]_vars => [NextDeposit]_depositVars
  BY StepIsDeposits
<1>3. BInv /\ [Next]_vars => BInv'
  BY BStep
<1> QED BY <1>1, <1>2, <1>3, BInit, PTL DEF Spec, SpecDeposit

(* So the fund, the receipts and the income of a booking's deposit follow  *)
(* its row through refunds, forfeits and the release of a cancellation     *)
(* that no other request on the deposit overlaps.                          *)
THEOREM BookingDepositsInStep == Spec => []FundIsHeld
BY BookingImplementsDeposit, BooksFollowRows, PTL

-----------------------------------------------------------------------------
(* A step that adds no active booking and moves none adds nobody to a      *)
(* time (reject, cancel, and all that only touches money).                 *)
LEMMA StillRoom ==
  ASSUME NoOverbooking,
         \A b \in Booking :
           (Active(b))' => Active(b) /\ booking'[b].start = booking[b].start
                                     /\ booking'[b].end = booking[b].end
  PROVE  NoOverbooking'
<1> SUFFICES ASSUME NEW t \in Instant
             PROVE  Cardinality(Present(t)') <= MaxConcurrent
  BY DEF NoOverbooking
<1>1. Present(t)' \subseteq Present(t) /\ Present(t) \subseteq Booking
  BY DEF Present
<1>2. IsFiniteSet(Present(t))
  BY <1>1, FS_Subset, BookingAssumption
<1>3. Cardinality(Present(t)') <= Cardinality(Present(t))
  BY <1>1, <1>2, FS_Subset
<1>4. Cardinality(Present(t)) <= MaxConcurrent
  BY DEF NoOverbooking
<1>5. IsFiniteSet(Present(t)')
  BY <1>1, <1>2, FS_Subset
<1>6. Cardinality(Present(t)) \in Nat /\ Cardinality(Present(t)') \in Nat
  BY <1>2, <1>5, FS_CardinalityType
<1> QED BY <1>3, <1>4, <1>6, BookingAssumption

(* create and approve: the booking made active found less than             *)
(* maxConcurrent others over its interval (assertNoConflict), and whoever  *)
(* is present while it is overlaps it.                                     *)
LEMMA RoomTaken ==
  ASSUME NoOverbooking, BookingTyped, BookingTyped', NEW b \in Booking,
         NEW s \in Int, NEW e \in Int, NoConflict(s, e, b),
         booking'[b].start = s, booking'[b].end = e,
         \A c \in Booking : c # b => booking'[c] = booking[c]
  PROVE  NoOverbooking'
<1> SUFFICES ASSUME NEW t \in Instant
             PROVE  Cardinality(Present(t)') <= MaxConcurrent
  BY DEF NoOverbooking
<1> DEFINE Others == Overlapping(s, e, b)
<1>1. /\ Others \subseteq Booking /\ Present(t) \subseteq Booking
      /\ Present(t)' \subseteq Booking
  BY DEF Overlapping, Present
<1>2. IsFiniteSet(Others) /\ IsFiniteSet(Present(t)) /\ IsFiniteSet(Present(t)')
  BY <1>1, FS_Subset, BookingAssumption
<1>3. /\ Cardinality(Others) \in Nat /\ Cardinality(Present(t)) \in Nat
      /\ Cardinality(Present(t)') \in Nat
  BY <1>2, FS_CardinalityType
<1>4. Cardinality(Others) < MaxConcurrent /\ Cardinality(Present(t)) <= MaxConcurrent
  BY DEF NoConflict, NoOverbooking
<1>5. CASE b \notin Present(t)'
  <2>1. Present(t)' \subseteq Present(t)
    BY <1>5 DEF Present, Active
  <2>2. Cardinality(Present(t)') <= Cardinality(Present(t))
    BY <1>2, <2>1, FS_Subset
  <2> QED BY <1>3, <1>4, <2>2, BookingAssumption
<1>6. CASE b \in Present(t)'
  <2>1. s <= t /\ t < e /\ t \in Int
    BY <1>6, BookingAssumption DEF Present
  <2>2. ASSUME NEW c \in Present(t)', c # b
        PROVE  c \in Others
    <3>1. /\ c \in Booking /\ (Active(c))' /\ booking'[c] = booking[c]
          /\ booking'[c].start <= t /\ t < booking'[c].end
      BY <2>2 DEF Present
    <3>2. Active(c) /\ booking[c].start \in Int /\ booking[c].end \in Int
      BY <3>1 DEF Active, BookingTyped, BookingRow
    <3>3. booking[c].start < e /\ s < booking[c].end
      BY <2>1, <3>1, <3>2
    <3> QED BY <2>2, <3>1, <3>2, <3>3 DEF Overlapping
  <2>3. Present(t)' \subseteq Others \cup {b} /\ b \notin Others
    BY <2>2 DEF Overlapping
  <2>4. /\ IsFiniteSet(Others \cup {b})
        /\ Cardinality(Others \cup {b}) = Cardinality(Others) + 1
    BY <1>2, <2>3, FS_AddElement
  <2>5. Cardinality(Present(t)') <= Cardinality(Others \cup {b})
    BY <2>3, <2>4, FS_Subset
  <2> QED BY <1>3, <1>4, <2>4, <2>5, BookingAssumption
<1> QED BY <1>5, <1>6

(* The facility is never overbooked: only create and approve make a        *)
(* booking active, and both have counted who overlaps it (NoOverbooking).  *)
THEOREM NeverOverbooked == Spec => []NoOverbooking
<1>1. Init => NoOverbooking
  <2> SUFFICES ASSUME Init, NEW t \in Instant
               PROVE  Cardinality(Present(t)) <= MaxConcurrent
    BY DEF NoOverbooking
  <2>1. Present(t) = {}
    BY DEF Init, Present, Active
  <2> QED BY <2>1, FS_EmptySet, BookingAssumption
<1>2. BInv /\ BInv' /\ NoOverbooking /\ [Next]_vars => NoOverbooking'
  <2> SUFFICES ASSUME BInv, BInv', NoOverbooking, [Next]_vars
               PROVE  NoOverbooking'
    OBVIOUS
  <2>0. /\ BookingTyped /\ BookingTyped'
        /\ \A b \in Booking : booking[b] \in BookingRow
    BY DEF BInv, BookingTyped
  <2>1. ASSUME NEW h \in Handler, NEW b \in Booking, NEW s \in Instant, NEW e \in Instant,
               NEW auto \in BOOLEAN, NEW iv, NEW d, Create(h, b, s, e, auto, iv, d)
        PROVE  NoOverbooking'
    <3> DEFINE row == [status |-> "PENDING", start |-> s, end |-> e,
                       dep |-> NoDeposit, inv |-> NoInvoice]
    <3>1. PICK new \in {row, Linked(row, iv, d)} :
            NoConflict(s, e, b) /\ booking' = [booking EXCEPT ![b] = new]
      BY <2>1 DEF Create
    <3>2. new.start = s /\ new.end = e
      <4>1. row.start = s /\ row.end = e
        OBVIOUS
      <4>2. Linked(row, iv, d).start = s /\ Linked(row, iv, d).end = e
        BY DEF Linked
      <4> QED BY <3>1, <4>1, <4>2
    <3> HIDE DEF row
    <3>3. booking'[b] = new /\ \A c \in Booking : c # b => booking'[c] = booking[c]
      BY <3>1 DEF BInv, BookingTyped
    <3>4. s \in Int /\ e \in Int
      BY BookingAssumption
    <3> QED BY <2>0, <3>1, <3>2, <3>3, <3>4, RoomTaken
  <2>2. ASSUME NEW h \in Handler, NEW iv, NEW d, ApproveWrite(h, iv, d)
        PROVE  NoOverbooking'
    <3> DEFINE b == task[h].booking
               old == booking[b]
    <3>1. /\ b \in Booking /\ NoConflict(old.start, old.end, b)
          /\ booking' = [booking EXCEPT ![b] = Linked(old, iv, d)]
      BY <2>2 DEF ApproveWrite, BInv, Tasks
    <3>2. old \in BookingRow /\ old.start \in Int /\ old.end \in Int
      BY <2>0, <3>1 DEF BookingRow
    <3>3. Linked(old, iv, d).start = old.start /\ Linked(old, iv, d).end = old.end
      BY <3>2 DEF Linked, BookingRow
    <3>4. /\ booking'[b].start = old.start /\ booking'[b].end = old.end
          /\ \A c \in Booking : c # b => booking'[c] = booking[c]
      BY <3>1, <3>3 DEF BInv, BookingTyped
    <3> HIDE DEF b, old
    <3> QED BY <2>0, <3>1, <3>2, <3>4, RoomTaken
  <2>3. ASSUME NEW h \in Handler, NEW st \in {"REJECTED", "CANCELLED"},
               booking' = [booking EXCEPT ![task[h].booking].status = st]
        PROVE  NoOverbooking'
    <3>1. \A b \in Booking :
            \/ booking'[b] = booking[b]
            \/ booking'[b] = [booking[b] EXCEPT !.status = st]
      BY <2>3 DEF BInv, BookingTyped
    <3>2. \A b \in Booking :
            (Active(b))' => Active(b) /\ booking'[b].start = booking[b].start
                                      /\ booking'[b].end = booking[b].end
      BY <2>0, <3>1 DEF Active, BookingRow
    <3> QED BY <3>2, StillRoom
  <2>4. ASSUME UNCHANGED booking
        PROVE  NoOverbooking'
    BY <2>4, StillRoom DEF Active
  <2>5. ASSUME NEW h \in Handler, RejectWrite(h) \/ CancelCommit(h)
        PROVE  NoOverbooking'
    BY <2>3, <2>5 DEF RejectWrite, CancelCommit
  <2>6. ASSUME NEW h \in Handler,
               \/ \E b \in Booking : Review(h, b, "approve") \/ Review(h, b, "reject")
                                     \/ CancelRead(h, b)
               \/ CancelUpdate(h) \/ AbandonTask(h) \/ DepositRequest(h)
        PROVE  NoOverbooking'
    BY <2>4, <2>6 DEF Review, CancelRead, CancelUpdate, AbandonTask, DepositRequest, bookingVars
  <2>7. ASSUME NEW iv \in FeeInvoice, NEW st \in {"PAID", "VOID"}, SettleFee(iv, st)
        PROVE  NoOverbooking'
    BY <2>4, <2>7 DEF SettleFee
  <2>8. ASSUME UNCHANGED vars
        PROVE  NoOverbooking'
    BY <2>4, <2>8 DEF vars
  <2> QED BY <2>1, <2>2, <2>5, <2>6, <2>7, <2>8 DEF Next, Step
<1>3. BInv /\ [Next]_vars => BInv'
  BY BStep
<1> QED BY <1>1, <1>2, <1>3, BInit, PTL DEF Spec

-----------------------------------------------------------------------------
(* Bookings no two requests contend for.                                   *)

(* Two requests at work on a booking have been seen to overlap.            *)
Meet ==
  \A g, h \in Handler :
    g # h /\ task[g].pc # "idle" /\ task[g].booking = task[h].booking =>
      task[g].booking \in contended

(* The check of approve and reject still holds when they write.            *)
Steady ==
  \A h \in Handler :
    task[h].pc \in {"approve", "reject"} /\ task[h].booking \notin contended =>
      booking[task[h].booking].status = "PENDING"

(* Invoices are of bookings, and a booking that has one is no longer new   *)
(* or pending.                                                             *)
Charged ==
  \A i \in FeeInvoice :
    /\ feeInvoice[i].status = "none" => feeInvoice[i].of = NoBooking
    /\ feeInvoice[i].status # "none" =>
         /\ feeInvoice[i].of \in Booking
         /\ feeInvoice[i].of \notin contended =>
              booking[feeInvoice[i].of].status \notin {"none", "PENDING"}

SInv == Meet /\ Steady /\ Charged /\ OneFee

(* An invoice that stays of its booking: paid or voided, not issued.       *)
Kept(i) ==
  /\ feeInvoice'[i].of = feeInvoice[i].of
  /\ (feeInvoice'[i].status = "none") <=> (feeInvoice[i].status = "none")

(* A step that settles a booking's money, or decides it: the booking is    *)
(* contended, or was new or pending and has no other request; at most one  *)
(* invoice becomes one, of this booking.                                   *)
LEMMA Decided ==
  ASSUME BInv, SInv, UNCHANGED contended,
         NEW b \in Booking,
         \A c \in Booking : c # b => booking'[c] = booking[c],
         b \in contended \/ \A h \in Handler :
           task'[h].pc \in {"approve", "reject"} => task'[h].booking # b,
         b \in contended \/
           \/ booking[b].status \in {"none", "PENDING"}
           \/ /\ booking'[b].status \notin {"none", "PENDING"}
              /\ \A i \in FeeInvoice : Kept(i),
         NEW iv,
         \A i \in FeeInvoice :
           \/ Kept(i)
           \/ /\ i = iv
              /\ feeInvoice[i].status = "none" /\ feeInvoice'[i].status = "ISSUED"
              /\ feeInvoice'[i].of = b
              /\ booking'[b].status \notin {"none", "PENDING"},
         \A h \in Handler : task'[h] = task[h] \/ task'[h] = Rest
  PROVE  SInv'
<1> USE DEF SInv
<1>1. Rest.pc = "idle" /\ Rest.booking = NoBooking
  BY DEF Rest, At
<1>2. /\ \A h \in Handler : task[h].pc # "idle" => task[h].booking \in Booking
      /\ NoBooking \notin Booking
  BY BookingAssumption DEF BInv, Tasks
<1>3. Meet'
  BY <1>1, <1>2 DEF Meet
<1>4. Steady'
  <2> SUFFICES ASSUME NEW h \in Handler, task'[h].pc \in {"approve", "reject"},
                      task'[h].booking \notin contended
               PROVE  booking'[task'[h].booking].status = "PENDING"
    BY DEF Steady
  <2>1. task'[h] = task[h] /\ task[h].booking \in Booking /\ task[h].booking # b
    BY <1>1, <1>2
  <2> QED BY <2>1 DEF Steady
<1>5. ASSUME NEW i \in FeeInvoice, feeInvoice[i].status # "none", feeInvoice[i].of = b,
             b \notin contended, booking[b].status \in {"none", "PENDING"}
      PROVE  FALSE
  BY <1>5 DEF Charged
<1>6. Charged'
  <2> SUFFICES ASSUME NEW i \in FeeInvoice
               PROVE  /\ feeInvoice'[i].status = "none" => feeInvoice'[i].of = NoBooking
                      /\ feeInvoice'[i].status # "none" =>
                           /\ feeInvoice'[i].of \in Booking
                           /\ feeInvoice'[i].of \notin contended' =>
                                booking'[feeInvoice'[i].of].status \notin {"none", "PENDING"}
    BY DEF Charged
  <2>1. CASE Kept(i) /\ feeInvoice[i].of # b
    BY <2>1 DEF Charged, Kept
  <2>2. CASE Kept(i) /\ feeInvoice[i].of = b
    <3>1. feeInvoice[i].status # "none" /\ feeInvoice'[i].status # "none"
          /\ feeInvoice'[i].of = b
      BY <1>2, <2>2 DEF Charged, Kept
    <3> QED BY <1>5, <2>2, <3>1
  <2>3. CASE ~Kept(i)
    BY <2>3
  <2> QED BY <2>1, <2>2, <2>3
<1>7. OneFee'
  <2> SUFFICES ASSUME NEW i \in FeeInvoice, NEW j \in FeeInvoice,
                      feeInvoice'[i].status # "none",
                      feeInvoice'[i].of = feeInvoice'[j].of,
                      feeInvoice'[i].of \notin contended
               PROVE  i = j
    BY DEF OneFee
  <2>1. CASE Kept(i) /\ Kept(j)
    BY <2>1 DEF OneFee, Kept
  <2>2. CASE ~Kept(i) /\ Kept(j)
    <3>1. feeInvoice[j].of = b /\ b \notin contended
      BY <2>2 DEF Kept
    <3>2. feeInvoice[j].status # "none"
      BY <1>2, <3>1 DEF Charged
    <3> QED BY <1>5, <2>2, <3>1, <3>2
  <2>3. CASE Kept(i) /\ ~Kept(j)
    <3>1. feeInvoice[i].of = b /\ feeInvoice[i].status # "none" /\ b \notin contended
      BY <2>3 DEF Kept
    <3> QED BY <1>5, <2>3, <3>1
  <2>4. CASE ~Kept(i) /\ ~Kept(j)
    BY <2>4
  <2> QED BY <2>1, <2>2, <2>3, <2>4
<1> QED BY <1>3, <1>4, <1>6, <1>7

(* A step of requests and payments only: no booking changes, and no        *)
(* request on a booking begins.                                            *)
LEMMA Settled ==
  ASSUME BInv, SInv, UNCHANGED <<booking, contended>>,
         \A i \in FeeInvoice : Kept(i),
         \A h \in Handler :
           \/ task'[h] = task[h] \/ task'[h] = Rest
           \/ task[h].pc # "idle" /\ task'[h].pc = "cancelling"
                /\ task'[h].booking = task[h].booking
  PROVE  SInv'
<1>1. Rest.pc = "idle" /\ Rest.booking = NoBooking
  BY DEF Rest, At
<1>2. /\ \A h \in Handler : task[h].pc # "idle" => task[h].booking \in Booking
      /\ NoBooking \notin Booking
  BY BookingAssumption DEF BInv, Tasks
<1>3. Meet'
  BY <1>1, <1>2 DEF SInv, Meet
<1>4. Steady'
  BY <1>1, <1>2 DEF SInv, Steady
<1>5. Charged'
  BY DEF SInv, Charged, Kept
<1>6. OneFee'
  BY DEF SInv, OneFee, Kept
<1> QED BY <1>3, <1>4, <1>5, <1>6 DEF SInv

(* A request on a booking begins, having read what it will act on.         *)
LEMMA RequestBegins ==
  ASSUME BInv, SInv, NEW h \in Handler, NEW t \in Task, t.booking \in Booking, Take(h, t),
         t.pc \in {"approve", "reject"} => booking[t.booking].status = "PENDING",
         UNCHANGED <<booking, feeInvoice>>
  PROVE  SInv'
<1>1. BookingTyped
  BY DEF BInv
<1>2. /\ task'[h] = t /\ \A g \in Handler : g # h => task'[g] = task[g]
      /\ contended \subseteq contended'
      /\ \A g \in Handler : task[g].booking = t.booking => t.booking \in contended'
  BY <1>1, Taken DEF BookingTyped
<1>3. Meet'
  BY <1>2 DEF SInv, Meet
<1>4. Steady'
  BY <1>2 DEF SInv, Steady
<1>5. Charged' /\ OneFee'
  BY <1>2 DEF SInv, Charged, OneFee
<1> QED BY <1>3, <1>4, <1>5 DEF SInv

(* Every action keeps it: the check of approve and reject stands until     *)
(* their transaction, unless another request on the booking came between.  *)
LEMMA SStep ==
  ASSUME BInv, SInv, [Next]_vars
  PROVE  SInv'
<1>0. /\ BookingTyped /\ Tasks
      /\ \A b \in Booking : booking[b] \in BookingRow
  BY DEF BInv, BookingTyped
<1>1. Rest.pc = "idle"
  BY DEF Rest, At
<1>2. ASSUME NEW h \in Handler, NEW b \in Booking, NEW s \in Instant, NEW e \in Instant,
             NEW auto \in BOOLEAN, NEW iv, NEW d, Create(h, b, s, e, auto, iv, d)
      PROVE  SInv'
  <2> DEFINE row == [status |-> "PENDING", start |-> s, end |-> e,
                     dep |-> NoDeposit, inv |-> NoInvoice]
  <2>1. booking[b].status = "none" /\ UNCHANGED <<task, contended>>
    BY <1>2 DEF Create
  <2>2. b \in contended \/ \A g \in Handler :
          task'[g].pc \in {"approve", "reject"} => task'[g].booking # b
    BY <2>1 DEF SInv, Steady
  <2>3. CASE auto
    <3>1. SettleMoney(b, iv, d) /\ booking' = [booking EXCEPT ![b] = Linked(row, iv, d)]
      BY <1>2, <2>3 DEF Create
    <3>2. Linked(row, iv, d).status = "CONFIRMED"
      BY DEF Linked
    <3> HIDE DEF row
    <3>3. booking'[b].status = "CONFIRMED" /\ \A c \in Booking : c # b => booking'[c] = booking[c]
      BY <1>0, <3>1, <3>2 DEF BookingTyped
    <3>4. \A i \in FeeInvoice :
            \/ Kept(i)
            \/ /\ i = iv
               /\ feeInvoice[i].status = "none" /\ feeInvoice'[i].status = "ISSUED"
               /\ feeInvoice'[i].of = b
      BY <1>0, <3>1 DEF SettleMoney, BookingTyped, Kept
    <3> QED BY <2>1, <2>2, <3>3, <3>4, Decided
  <2>4. CASE ~auto
    <3>1. booking' = [booking EXCEPT ![b] = row] /\ UNCHANGED feeInvoice
      BY <1>2, <2>4 DEF Create
    <3> HIDE DEF row
    <3>2. /\ \A c \in Booking : c # b => booking'[c] = booking[c]
          /\ \A i \in FeeInvoice : Kept(i)
      BY <1>0, <3>1 DEF BookingTyped, Kept
    <3> QED BY <2>1, <2>2, <3>2, Decided
  <2> QED BY <2>3, <2>4
<1>3. ASSUME NEW h \in Handler, task[h].pc # "idle", task' = [task EXCEPT ![h] = Rest]
      PROVE  /\ task[h].booking \in contended \/ \A g \in Handler :
                  task'[g].pc \in {"approve", "reject"} => task'[g].booking # task[h].booking
             /\ \A g \in Handler : task'[g] = task[g] \/ task'[g] = Rest
  <2>1. task'[h] = Rest /\ \A g \in Handler : g # h => task'[g] = task[g]
    BY <1>0, <1>3 DEF BookingTyped
  <2>2. ASSUME NEW g \in Handler, task'[g].pc \in {"approve", "reject"},
               task'[g].booking = task[h].booking
        PROVE  task[h].booking \in contended
    <3>1. g # h /\ task'[g] = task[g]
      BY <1>1, <2>1, <2>2
    <3> QED BY <1>3, <2>2, <3>1 DEF SInv, Meet
  <2> QED BY <2>1, <2>2
<1>4. ASSUME NEW h \in Handler, NEW iv, NEW d, ApproveWrite(h, iv, d)
      PROVE  SInv'
  <2> DEFINE b == task[h].booking
  <2>1. /\ b \in Booking /\ SettleMoney(b, iv, d)
        /\ booking' = [booking EXCEPT ![b] = Linked(booking[b], iv, d)]
        /\ task[h].pc = "approve" /\ task' = [task EXCEPT ![h] = Rest]
        /\ contended' = contended
    BY <1>0, <1>4 DEF ApproveWrite, End, Tasks
  <2>2. b \in contended \/ booking[b].status = "PENDING"
    BY <2>1 DEF SInv, Steady
  <2>3. /\ b \in contended \/ \A g \in Handler :
             task'[g].pc \in {"approve", "reject"} => task'[g].booking # b
        /\ \A g \in Handler : task'[g] = task[g] \/ task'[g] = Rest
    BY <1>3, <2>1
  <2> HIDE DEF b
  <2>4. Linked(booking[b], iv, d).status = "CONFIRMED"
    BY <1>0, <2>1, SettleTypes, LinkedRow
  <2>5. booking'[b].status = "CONFIRMED" /\ \A c \in Booking : c # b => booking'[c] = booking[c]
    BY <1>0, <2>1, <2>4 DEF BookingTyped
  <2>6. \A i \in FeeInvoice :
          \/ Kept(i)
          \/ /\ i = iv
             /\ feeInvoice[i].status = "none" /\ feeInvoice'[i].status = "ISSUED"
             /\ feeInvoice'[i].of = b
    BY <1>0, <2>1 DEF SettleMoney, BookingTyped, Kept
  <2> QED BY <2>1, <2>2, <2>3, <2>5, <2>6, Decided
<1>5. ASSUME NEW h \in Handler, RejectWrite(h)
      PROVE  SInv'
  <2> DEFINE b == task[h].booking
  <2>1. /\ b \in Booking /\ task[h].pc = "reject" /\ task' = [task EXCEPT ![h] = Rest]
        /\ booking' = [booking EXCEPT ![b].status = "REJECTED"]
        /\ UNCHANGED <<contended, feeInvoice>>
    BY <1>0, <1>5 DEF RejectWrite, End, Tasks
  <2>2. b \in contended \/ booking[b].status = "PENDING"
    BY <2>1 DEF SInv, Steady
  <2>3. /\ b \in contended \/ \A g \in Handler :
             task'[g].pc \in {"approve", "reject"} => task'[g].booking # b
        /\ \A g \in Handler : task'[g] = task[g] \/ task'[g] = Rest
    BY <1>3, <2>1
  <2> HIDE DEF b
  <2>4. /\ \A c \in Booking : c # b => booking'[c] = booking[c]
        /\ \A i \in FeeInvoice : Kept(i)
    BY <1>0, <2>1 DEF BookingTyped, Kept
  <2> QED BY <2>1, <2>2, <2>3, <2>4, Decided
<1>6. ASSUME NEW h \in Handler, CancelCommit(h)
      PROVE  SInv'
  <2> DEFINE b == task[h].booking
  <2>1. /\ b \in Booking /\ task[h].pc = "cancelling" /\ task' = [task EXCEPT ![h] = Rest]
        /\ booking' = [booking EXCEPT ![b].status = "CANCELLED"]
        /\ contended' = contended
        /\ feeInvoice' = IF task[h].inv # NoInvoice THEN Voided(task[h].inv) ELSE feeInvoice
    BY <1>0, <1>6 DEF CancelCommit, End, Tasks
  <2>2. /\ b \in contended \/ \A g \in Handler :
             task'[g].pc \in {"approve", "reject"} => task'[g].booking # b
        /\ \A g \in Handler : task'[g] = task[g] \/ task'[g] = Rest
    BY <1>3, <2>1
  <2> HIDE DEF b
  <2>3. /\ booking'[b].status = "CANCELLED"
        /\ \A c \in Booking : c # b => booking'[c] = booking[c]
    BY <1>0, <2>1 DEF BookingTyped, BookingRow
  <2>4. ASSUME NEW i \in FeeInvoice PROVE Kept(i)
    <3>1. feeInvoice[i] \in FeeRow
      BY <1>0 DEF BookingTyped
    <3>2. /\ feeInvoice'[i].of = feeInvoice[i].of
          /\ \/ feeInvoice'[i].status = feeInvoice[i].status
             \/ feeInvoice[i].status = "ISSUED" /\ feeInvoice'[i].status = "VOID"
      BY <1>0, <2>1, <3>1 DEF BookingTyped, Voided, FeeRow
    <3> QED BY <3>2 DEF Kept
  <2> QED BY <2>1, <2>2, <2>3, <2>4, Decided
<1>7. ASSUME NEW h \in Handler, NEW b \in Booking, NEW pc \in {"approve", "reject"},
             Review(h, b, pc)
      PROVE  SInv'
  <2> DEFINE t == At(pc, b, NoDeposit, NoInvoice)
  <2>1. t \in Task /\ t.booking = b
    BY DEF At, Task
  <2>2. Take(h, t) /\ booking[b].status = "PENDING" /\ UNCHANGED <<booking, feeInvoice>>
    BY <1>7 DEF Review, Reviewable
  <2> HIDE DEF t
  <2> QED BY <2>1, <2>2, RequestBegins
<1>8. ASSUME NEW h \in Handler, NEW b \in Booking, CancelRead(h, b)
      PROVE  SInv'
  <2> DEFINE t == At("cancel", b, booking[b].dep, booking[b].inv)
  <2>1. t \in Task /\ t.booking = b /\ t.pc = "cancel"
    BY <1>0 DEF At, Task, BookingRow
  <2>2. Take(h, t) /\ UNCHANGED <<booking, feeInvoice>>
    BY <1>8 DEF CancelRead
  <2> HIDE DEF t
  <2> QED BY <2>1, <2>2, RequestBegins
<1>9. ASSUME NEW h \in Handler, CancelUpdate(h) \/ AbandonTask(h) \/ DepositRequest(h)
      PROVE  SInv'
  <2>1. UNCHANGED <<booking, feeInvoice, contended>>
    BY <1>9 DEF CancelUpdate, AbandonTask, DepositRequest, End, bookingVars
  <2>2. \A i \in FeeInvoice : Kept(i)
    BY <2>1 DEF Kept
  <2>3. CASE CancelUpdate(h)
    <3>1. task[h].pc = "cancel" /\ task' = [task EXCEPT ![h].pc = "cancelling"]
      BY <2>3 DEF CancelUpdate
    <3>2. \A g \in Handler :
            \/ task'[g] = task[g]
            \/ task[g].pc # "idle" /\ task'[g].pc = "cancelling"
                 /\ task'[g].booking = task[g].booking
      BY <1>0, <3>1 DEF BookingTyped, Task
    <3> QED BY <2>1, <2>2, <3>2, Settled
  <2>4. CASE AbandonTask(h) \/ DepositRequest(h)
    <3>1. task' = [task EXCEPT ![h] = Rest] \/ task' = task
      BY <2>4 DEF AbandonTask, DepositRequest, End, bookingVars
    <3>2. \A g \in Handler : task'[g] = task[g] \/ task'[g] = Rest
      BY <1>0, <3>1 DEF BookingTyped
    <3> QED BY <2>1, <2>2, <3>2, Settled
  <2> QED BY <1>9, <2>3, <2>4
<1>10. ASSUME NEW iv \in FeeInvoice, NEW st \in {"PAID", "VOID"}, SettleFee(iv, st)
       PROVE  SInv'
  <2>1. /\ feeInvoice[iv].status = "ISSUED"
        /\ feeInvoice' = [feeInvoice EXCEPT ![iv].status = st]
        /\ UNCHANGED <<booking, task, contended>>
    BY <1>10 DEF SettleFee
  <2>2. ASSUME NEW i \in FeeInvoice PROVE Kept(i)
    BY <1>0, <2>1 DEF BookingTyped, FeeRow, Kept
  <2> QED BY <2>1, <2>2, Settled
<1>11. CASE UNCHANGED vars
  <2>1. \A i \in FeeInvoice : Kept(i)
    BY <1>11 DEF vars, Kept
  <2> QED BY <1>11, <2>1, Settled DEF vars
<1> QED
  BY <1>2, <1>4, <1>5, <1>6, <1>7, <1>8, <1>9, <1>10, <1>11 DEF Next, Step

(* No requests, no invoices.                                               *)
LEMMA SInit == Init => SInv
BY BookingAssumption DEF Init, Rest, At, SInv, Meet, Steady, Charged, OneFee

(* A booking is charged one fee (settleMoney), as long as no two requests  *)
(* on it overlap: its second approval would have to pass the check of one  *)
(* that is confirmed already.                                              *)
THEOREM ChargedOnce == Spec => []OneFee
<1>1. SInv => OneFee
  BY DEF SInv
<1>2. BInv /\ SInv /\ [Next]_vars => BInv' /\ SInv'
  BY BStep, SStep
<1> QED BY <1>1, <1>2, BInit, SInit, PTL DEF Spec

(* "Only pending bookings can be approved": until two requests on it       *)
(* overlap, a booking is confirmed when it is made or while it is pending. *)
THEOREM ApprovedOnce == Spec => OnlyPendingApproved
<1> DEFINE Rightly ==
      \A b \in Booking \ contended :
        booking'[b].status = "CONFIRMED" =>
          booking[b].status \in {"none", "PENDING", "CONFIRMED"}
<1>1. ASSUME BInv, SInv, [Next]_vars
      PROVE  [Rightly]_vars
  <2>0. /\ BookingTyped /\ Tasks
        /\ \A b \in Booking : booking[b] \in BookingRow
    BY <1>1 DEF BInv, BookingTyped
  <2>1. ASSUME NEW b \in Booking, booking[b].status \in {"none", "PENDING"} \/ b \in contended,
               \A c \in Booking : c # b => booking'[c] = booking[c]
        PROVE  Rightly
    BY <2>1
  <2>2. ASSUME NEW h \in Handler, NEW b \in Booking, NEW s \in Instant, NEW e \in Instant,
               NEW auto \in BOOLEAN, NEW iv, NEW d, Create(h, b, s, e, auto, iv, d)
        PROVE  Rightly
    <3>1. booking[b].status = "none" /\ \A c \in Booking : c # b => booking'[c] = booking[c]
      BY <2>0, <2>2 DEF Create, BookingTyped
    <3> QED BY <2>1, <3>1
  <2>3. ASSUME NEW h \in Handler, NEW iv, NEW d, ApproveWrite(h, iv, d)
        PROVE  Rightly
    <3> DEFINE b == task[h].booking
    <3>1. b \in Booking /\ task[h].pc = "approve"
          /\ \A c \in Booking : c # b => booking'[c] = booking[c]
      BY <2>0, <2>3 DEF ApproveWrite, Tasks, BookingTyped
    <3>2. booking[b].status = "PENDING" \/ b \in contended
      BY <1>1, <3>1 DEF SInv, Steady
    <3> HIDE DEF b
    <3> QED BY <2>1, <3>1, <3>2
  <2>4. ASSUME NEW h \in Handler, RejectWrite(h) \/ CancelCommit(h)
        PROVE  Rightly
    <3>1. PICK st \in {"REJECTED", "CANCELLED"} :
            booking' = [booking EXCEPT ![task[h].booking].status = st]
      BY <2>4 DEF RejectWrite, CancelCommit
    <3>2. \A b \in Booking : booking'[b] = booking[b] \/ booking'[b].status = st
      BY <2>0, <3>1 DEF BookingTyped, BookingRow
    <3> QED BY <2>0, <3>2 DEF BookingRow, BookingStatus
  <2>5. ASSUME UNCHANGED booking
        PROVE  Rightly
    BY <2>0, <2>5 DEF BookingRow, BookingStatus
  <2>6. ASSUME NEW h \in Handler,
               \/ \E b \in Booking : Review(h, b, "approve") \/ Review(h, b, "reject")
                                     \/ CancelRead(h, b)
               \/ CancelUpdate(h) \/ AbandonTask(h) \/ DepositRequest(h)
        PROVE  Rightly
    BY <2>5, <2>6 DEF Review, CancelRead, CancelUpdate, AbandonTask, DepositRequest, bookingVars
  <2>7. ASSUME NEW iv \in FeeInvoice, NEW st \in {"PAID", "VOID"}, SettleFee(iv, st)
        PROVE  Rightly
    BY <2>5, <2>7 DEF SettleFee
  <2> HIDE DEF Rightly
  <2> QED BY <1>1, <2>2, <2>3, <2>4, <2>6, <2>7 DEF Next, Step
<1>2. BInv /\ SInv /\ [Next]_vars => BInv' /\ SInv'
  BY BStep, SStep
<1>3. [][Rightly]_vars => OnlyPendingApproved
  BY DEF OnlyPendingApproved
<1> HIDE DEF Rightly
<1> QED BY <1>1, <1>2, <1>3, BInit, SInit, PTL DEF Spec

-----------------------------------------------------------------------------
(* The money of bookings: fee invoices and deposits.                       *)

(* A deposit or an invoice that a booking is linked to has been made.      *)
LinksExist ==
  \A b \in Booking :
    /\ booking[b].dep # NoDeposit => deposit[booking[b].dep].status # "none"
    /\ booking[b].inv # NoInvoice => feeInvoice[booking[b].inv].status # "none"

(* The links cancel has read are still the booking's.                      *)
LinksRead ==
  \A h \in Handler :
    /\ task[h].pc # "idle" => booking[task[h].booking].status # "none"
    /\ task[h].pc \in {"cancel", "cancelling"} /\ task[h].booking \notin contended =>
         /\ task[h].dep = booking[task[h].booking].dep
         /\ task[h].inv = booking[task[h].booking].inv

(* Between its update and its commit, cancel is releasing the deposit of   *)
(* its booking, or nothing is held on it.                                  *)
Releasing ==
  \A h \in Handler :
    /\ task[h].pc = "cancelling" /\ task[h].booking \notin contended
    /\ task[h].dep # NoDeposit /\ raced[task[h].dep] = "no"
    => \/ req[h].pc = "release" /\ req[h].dep = task[h].dep
       \/ ~(Held(deposit[task[h].dep]) > 0)

MInv == LinksExist /\ LinksRead /\ Releasing /\ MoneyFollowsBooking /\ CancelledReleasesMoney

(* A step that leaves bookings and their money, and so does not collect,   *)
(* hold or link anything new.                                              *)
LEMMA MoneyStays ==
  ASSUME BInv, MInv, booking' = booking, contended \subseteq contended',
         \A i \in FeeInvoice : Kept(i) /\ (feeInvoice'[i].status = "ISSUED"
                                             => feeInvoice[i].status = "ISSUED"),
         Falls
  PROVE  LinksExist' /\ MoneyFollowsBooking' /\ CancelledReleasesMoney'
<1>0. /\ \A b \in Booking : booking[b] \in BookingRow
      /\ NoDeposit \notin Deposit /\ NoInvoice \notin FeeInvoice
  BY DepositAssumption, BookingAssumption DEF BInv, BookingTyped
<1>1. \A b \in Booking : /\ booking[b].dep # NoDeposit => booking[b].dep \in Deposit
                         /\ booking[b].inv # NoInvoice => booking[b].inv \in FeeInvoice
  BY <1>0 DEF BookingRow
<1>2. LinksExist'
  BY <1>1 DEF MInv, LinksExist, Falls, Kept, Exists
<1>3. MoneyFollowsBooking'
  <2>1. ASSUME NEW i \in FeeInvoice, feeInvoice'[i].status = "ISSUED",
               feeInvoice'[i].of \notin contended'
        PROVE  booking'[feeInvoice'[i].of].status = "CONFIRMED"
               /\ booking'[feeInvoice'[i].of].inv = i
    <3>1. /\ feeInvoice[i].status = "ISSUED" /\ feeInvoice'[i].of = feeInvoice[i].of
          /\ feeInvoice[i].of \notin contended
      BY <2>1 DEF Kept
    <3> QED BY <3>1 DEF MInv, MoneyFollowsBooking
  <2>2. ASSUME NEW d \in Deposit, contended' = {}, raced'[d] = "no", Held(deposit'[d]) > 0
        PROVE  \E b \in Booking : booking'[b].status = "CONFIRMED" /\ booking'[b].dep = d
    <3>1. contended = {} /\ raced[d] = "no" /\ Held(deposit[d]) > 0
      BY <2>2 DEF Falls
    <3> QED BY <3>1 DEF MInv, MoneyFollowsBooking
  <2> QED BY <2>1, <2>2 DEF MoneyFollowsBooking, Held, Left
<1>4. CancelledReleasesMoney'
  <2> SUFFICES ASSUME NEW b \in Booking, b \notin contended', booking'[b].status = "CANCELLED",
                      KeepsMoney(b)'
               PROVE  FALSE
    BY DEF CancelledReleasesMoney
  <2>1. KeepsMoney(b)
    BY <1>1 DEF KeepsMoney, Falls, Held, Left
  <2> QED BY <2>1 DEF MInv, CancelledReleasesMoney
<1> QED BY <1>2, <1>3, <1>4

(* What a step may do to the deposits: requests pay out of them, or a new  *)
(* one is held for booking b.                                              *)
HeldFor(b) ==
  \A d \in Deposit :
    /\ Exists(d) => Exists(d)'
    /\ raced'[d] = "no" /\ Held(deposit'[d]) > 0 =>
         \/ raced[d] = "no" /\ Held(deposit[d]) > 0 /\ Exists(d)
         \/ ~Exists(d) /\ booking'[b].status = "CONFIRMED" /\ booking'[b].dep = d
IssuedFor(b) ==
  \A i \in FeeInvoice :
    /\ feeInvoice[i].status # "none" => Kept(i)
    /\ feeInvoice'[i].status = "ISSUED" =>
         \/ feeInvoice[i].status = "ISSUED"
         \/ /\ feeInvoice[i].status = "none" /\ feeInvoice'[i].of = b
            /\ booking'[b].status = "CONFIRMED" /\ booking'[b].inv = i

(* A request on a booking ends with a write to its row, which was new or   *)
(* pending, or has lost its money, unless the booking is contended.        *)
LEMMA MoneyMoves ==
  ASSUME BInv, SInv, MInv, NEW b \in Booking, contended' = contended,
         \A c \in Booking : c # b => booking'[c] = booking[c],
         booking'[b] \in BookingRow, booking'[b].status # "none",
         booking'[b].dep # NoDeposit => deposit'[booking'[b].dep].status # "none",
         booking'[b].inv # NoInvoice => feeInvoice'[booking'[b].inv].status # "none",
         HeldFor(b), IssuedFor(b),
         \/ b \in contended
         \/ booking[b].status \in {"none", "PENDING"} /\ booking'[b].status # "CANCELLED"
         \/ /\ booking'[b].dep = booking[b].dep /\ booking'[b].inv = booking[b].inv
            /\ ~KeepsMoney(b)',
         \A g \in Handler :
           \/ task'[g] = Rest
           \/ /\ task'[g] = task[g] /\ req'[g] = req[g]
              /\ task[g].pc # "idle" => task[g].booking # b \/ b \in contended
  PROVE  MInv'
<1>0. /\ \A c \in Booking : booking[c] \in BookingRow
      /\ NoDeposit \notin Deposit /\ NoInvoice \notin FeeInvoice /\ NoBooking \notin Booking
      /\ \A h \in Handler : task[h].pc # "idle" => task[h].booking \in Booking
      /\ Rest.pc = "idle"
  BY DepositAssumption, BookingAssumption DEF BInv, BookingTyped, Tasks, Rest, At
<1>1. \A c \in Booking : /\ booking[c].dep # NoDeposit => booking[c].dep \in Deposit
                         /\ booking[c].inv # NoInvoice => booking[c].inv \in FeeInvoice
  BY <1>0 DEF BookingRow
<1>2. LinksExist'
  <2> SUFFICES ASSUME NEW c \in Booking
               PROVE  /\ booking'[c].dep # NoDeposit => deposit'[booking'[c].dep].status # "none"
                      /\ booking'[c].inv # NoInvoice =>
                           feeInvoice'[booking'[c].inv].status # "none"
    BY DEF LinksExist
  <2>1. CASE c = b
    BY <2>1
  <2>2. CASE c # b
    <3>1. booking'[c] = booking[c]
      BY <2>2
    <3> QED BY <1>1, <3>1 DEF MInv, LinksExist, HeldFor, IssuedFor, Kept, Exists
  <2> QED BY <2>1, <2>2
<1>3. LinksRead'
  <2> SUFFICES ASSUME NEW g \in Handler, task'[g].pc # "idle"
               PROVE  /\ booking'[task'[g].booking].status # "none"
                      /\ task'[g].pc \in {"cancel", "cancelling"}
                           /\ task'[g].booking \notin contended' =>
                           /\ task'[g].dep = booking'[task'[g].booking].dep
                           /\ task'[g].inv = booking'[task'[g].booking].inv
    BY DEF LinksRead
  <2>1. task'[g] = task[g] /\ (task[g].booking # b \/ b \in contended)
        /\ task[g].booking \in Booking
    BY <1>0
  <2>2. CASE task[g].booking = b
    BY <2>1, <2>2
  <2>3. CASE task[g].booking # b
    <3>1. booking'[task[g].booking] = booking[task[g].booking]
      BY <2>1, <2>3
    <3> QED BY <2>1, <3>1 DEF MInv, LinksRead
  <2> QED BY <2>2, <2>3
<1>4. Releasing'
  <2> SUFFICES ASSUME NEW g \in Handler, task'[g].pc = "cancelling",
                      task'[g].booking \notin contended', task'[g].dep # NoDeposit,
                      raced'[task'[g].dep] = "no", Held(deposit'[task'[g].dep]) > 0
               PROVE  req'[g].pc = "release" /\ req'[g].dep = task'[g].dep
    BY DEF Releasing, Held, Left
  <2>1. task'[g] = task[g] /\ req'[g] = req[g] /\ task[g].booking \in Booking
    BY <1>0
  <2>2. task[g].dep = booking[task[g].booking].dep
    BY <2>1 DEF MInv, LinksRead
  <2>3. task[g].dep \in Deposit /\ Exists(task[g].dep)
    BY <1>1, <2>1, <2>2 DEF MInv, LinksExist, Exists
  <2>4. raced[task[g].dep] = "no" /\ Held(deposit[task[g].dep]) > 0
    BY <2>1, <2>3 DEF HeldFor
  <2> QED BY <2>1, <2>4 DEF MInv, Releasing
<1>5. ASSUME NEW i \in FeeInvoice, feeInvoice'[i].status = "ISSUED",
             feeInvoice'[i].of \notin contended
      PROVE  booking'[feeInvoice'[i].of].status = "CONFIRMED"
             /\ booking'[feeInvoice'[i].of].inv = i
  <2>1. CASE feeInvoice[i].status = "none"
    <3>1. feeInvoice'[i].of = b /\ booking'[b].status = "CONFIRMED" /\ booking'[b].inv = i
      BY <1>5, <2>1 DEF IssuedFor
    <3> QED BY <3>1
  <2>2. CASE feeInvoice[i].status # "none"
    <3>1. feeInvoice[i].status = "ISSUED" /\ feeInvoice'[i].of = feeInvoice[i].of
      BY <1>5, <2>2 DEF IssuedFor, Kept
    <3>2. booking[feeInvoice[i].of].status = "CONFIRMED" /\ booking[feeInvoice[i].of].inv = i
      BY <1>5, <3>1 DEF MInv, MoneyFollowsBooking
    <3>3. feeInvoice[i].of \in Booking
      BY <3>1 DEF SInv, Charged
    <3>4. CASE feeInvoice[i].of = b
      <4>1. booking'[b].inv = i /\ ~KeepsMoney(b)'
        BY <1>5, <3>1, <3>2, <3>4
      <4>2. i # NoInvoice
        BY <1>0
      <4> QED BY <1>5, <4>1, <4>2 DEF KeepsMoney
    <3>5. CASE feeInvoice[i].of # b
      BY <3>1, <3>2, <3>3, <3>5
    <3> QED BY <3>4, <3>5
  <2> QED BY <2>1, <2>2
<1>6. ASSUME NEW d \in Deposit, contended' = {}, raced'[d] = "no", Held(deposit'[d]) > 0
      PROVE  \E c \in Booking : booking'[c].status = "CONFIRMED" /\ booking'[c].dep = d
  <2>1. CASE raced[d] = "no" /\ Held(deposit[d]) > 0
    <3>1. PICK c \in Booking : booking[c].status = "CONFIRMED" /\ booking[c].dep = d
      BY <1>6, <2>1 DEF MInv, MoneyFollowsBooking
    <3>2. CASE c = b
      <4>1. booking'[b].dep = d /\ ~KeepsMoney(b)'
        BY <1>6, <3>1, <3>2
      <4>2. d # NoDeposit
        BY <1>0
      <4> QED BY <1>6, <4>1, <4>2 DEF KeepsMoney, Held, Left
    <3> QED BY <3>1, <3>2
  <2>2. CASE ~(raced[d] = "no" /\ Held(deposit[d]) > 0)
    BY <1>6, <2>2 DEF HeldFor
  <2> QED BY <2>1, <2>2
<1>7. MoneyFollowsBooking'
  BY <1>5, <1>6 DEF MoneyFollowsBooking, Held, Left
<1>8. CancelledReleasesMoney'
  <2> SUFFICES ASSUME NEW c \in Booking, c \notin contended', booking'[c].status = "CANCELLED",
                      KeepsMoney(c)'
               PROVE  FALSE
    BY DEF CancelledReleasesMoney
  <2>1. CASE c = b
    BY <2>1
  <2>2. CASE c # b
    <3>1. booking'[c] = booking[c]
      BY <2>2
    <3>2. ASSUME booking'[c].dep # NoDeposit, raced'[booking'[c].dep] = "no",
                 Held(deposit'[booking'[c].dep]) > 0
          PROVE  KeepsMoney(c)
      <4>1. booking[c].dep \in Deposit /\ Exists(booking[c].dep)
        BY <1>1, <3>1, <3>2 DEF MInv, LinksExist, Exists
      <4>2. raced[booking[c].dep] = "no" /\ Held(deposit[booking[c].dep]) > 0
        BY <3>1, <3>2, <4>1 DEF HeldFor
      <4> QED BY <3>1, <3>2, <4>2 DEF KeepsMoney
    <3>3. ASSUME booking'[c].inv # NoInvoice, feeInvoice'[booking'[c].inv].status = "ISSUED"
          PROVE  KeepsMoney(c)
      <4>1. booking[c].inv \in FeeInvoice /\ feeInvoice[booking[c].inv].status # "none"
        BY <1>1, <3>1, <3>3 DEF MInv, LinksExist, Exists
      <4>2. feeInvoice[booking[c].inv].status = "ISSUED"
        BY <3>1, <3>3, <4>1 DEF IssuedFor
      <4> QED BY <3>1, <3>3, <4>2 DEF KeepsMoney
    <3>4. KeepsMoney(c)
      BY <3>2, <3>3 DEF KeepsMoney, Held, Left
    <3> QED BY <3>1, <3>4 DEF MInv, CancelledReleasesMoney
  <2> QED BY <2>1, <2>2
<1> QED BY <1>2, <1>3, <1>4, <1>7, <1>8 DEF MInv

(* Every action keeps it: a request that writes to a booking nothing       *)
(* contends for is the only one at work on it, and what it read still      *)
(* stands.                                                                 *)
LEMMA MStep ==
  ASSUME BInv, SInv, RacesOK, RowsOK, MInv, [Next]_vars
  PROVE  MInv'
<1>0. /\ BookingTyped /\ Tasks /\ Base
      /\ \A b \in Booking : booking[b] \in BookingRow
      /\ \A h \in Handler : task[h] \in Task
      /\ DOMAIN deposit = Deposit /\ DOMAIN req = Handler /\ DOMAIN feeInvoice = FeeInvoice
      /\ Rest.pc = "idle" /\ Rest.booking = NoBooking
      /\ NoBooking \notin Booking /\ NoDeposit \notin Deposit /\ NoInvoice \notin FeeInvoice
  BY BookingAssumption, DepositAssumption
     DEF BInv, BookingTyped, Base, DepositTypeOK, Rest, At
<1>1. \A i \in FeeInvoice : UNCHANGED feeInvoice =>
        Kept(i) /\ (feeInvoice'[i].status = "ISSUED" => feeInvoice[i].status = "ISSUED")
  BY DEF Kept
(* The requests that were not ended keep their tasks, and theirs alone.    *)
<1>2. ASSUME NEW h \in Handler, task[h].pc # "idle", task' = [task EXCEPT ![h] = Rest],
             \A g \in Handler : g # h => req'[g] = req[g]
      PROVE  \A g \in Handler :
               \/ task'[g] = Rest
               \/ /\ task'[g] = task[g] /\ req'[g] = req[g]
                  /\ task[g].pc # "idle" =>
                       task[g].booking # task[h].booking \/ task[h].booking \in contended
  <2>1. task'[h] = Rest /\ \A g \in Handler : g # h => task'[g] = task[g]
    BY <1>0, <1>2 DEF BookingTyped
  <2>2. ASSUME NEW g \in Handler, g # h, task[g].pc # "idle",
               task[g].booking = task[h].booking
        PROVE  task[h].booking \in contended
    BY <1>2, <2>2 DEF SInv, Meet
  <2> QED BY <1>2, <2>1, <2>2
(* What settleMoney does to the deposits and the fee invoices.             *)
<1>3. ASSUME NEW b \in Booking, NEW row \in BookingRow, NEW iv, NEW d,
             SettleMoney(b, iv, d), booking'[b] = Linked(row, iv, d),
             row.dep # NoDeposit => deposit[row.dep].status # "none",
             row.inv # NoInvoice => feeInvoice[row.inv].status # "none"
      PROVE  /\ HeldFor(b) /\ IssuedFor(b)
             /\ booking'[b].status = "CONFIRMED"
             /\ booking'[b].dep # NoDeposit => deposit'[booking'[b].dep].status # "none"
             /\ booking'[b].inv # NoInvoice => feeInvoice'[booking'[b].inv].status # "none"
  <2>1. /\ booking'[b].status = "CONFIRMED"
        /\ booking'[b].inv = IF Fee THEN iv ELSE row.inv
        /\ booking'[b].dep = IF BookingDeposit > 0 THEN d ELSE row.dep
    BY <1>3 DEF Linked, BookingRow
  <2>2. row.dep \in Deposit \cup {NoDeposit} /\ row.inv \in FeeInvoice \cup {NoInvoice}
    BY DEF BookingRow
  <2>3. raced' = raced
    BY <1>3 DEF SettleMoney
  <2>4. HeldFor(b) /\ (booking'[b].dep # NoDeposit => deposit'[booking'[b].dep].status # "none")
    <3>1. CASE BookingDeposit > 0
      <4> DEFINE new == [NoRow EXCEPT !.status = "HELD", !.amount = BookingDeposit]
      <4>1. /\ d \in Deposit /\ ~Exists(d) /\ deposit' = [deposit EXCEPT ![d] = new]
            /\ booking'[b].dep = d
        BY <1>3, <2>1, <3>1 DEF SettleMoney, Hold
      <4>2. new.status = "HELD"
        BY DEF NoRow
      <4> HIDE DEF new
      <4>3. deposit'[d] = new /\ \A e \in Deposit : e # d => deposit'[e] = deposit[e]
        BY <1>0, <4>1
      <4>4. \A e \in Deposit : ~Exists(e) => ~(Held(deposit[e]) > 0)
        BY <1>0 DEF Base, NoRow, Held, Left
      <4> QED BY <2>1, <2>3, <4>1, <4>2, <4>3, <4>4 DEF HeldFor, Exists
    <3>2. CASE ~(BookingDeposit > 0)
      <4>1. deposit' = deposit /\ booking'[b].dep = row.dep
        BY <1>3, <2>1, <3>2 DEF SettleMoney
      <4>2. \A e \in Deposit : ~Exists(e) => ~(Held(deposit[e]) > 0)
        BY <1>0 DEF Base, NoRow, Held, Left
      <4> QED BY <1>3, <2>3, <4>1, <4>2 DEF HeldFor, Exists
    <3> QED BY <3>1, <3>2
  <2>5. IssuedFor(b) /\ (booking'[b].inv # NoInvoice
                           => feeInvoice'[booking'[b].inv].status # "none")
    <3>1. CASE Fee
      <4> DEFINE new == [status |-> "ISSUED", of |-> b]
      <4>1. /\ iv \in FeeInvoice /\ feeInvoice[iv].status = "none"
            /\ feeInvoice' = [feeInvoice EXCEPT ![iv] = new]
            /\ booking'[b].inv = iv
        BY <1>3, <2>1, <3>1 DEF SettleMoney
      <4>2. new.status = "ISSUED" /\ new.of = b
        OBVIOUS
      <4> HIDE DEF new
      <4>3. feeInvoice'[iv] = new
            /\ \A i \in FeeInvoice : i # iv => feeInvoice'[i] = feeInvoice[i]
        BY <1>0, <4>1
      <4> QED BY <2>1, <4>1, <4>2, <4>3 DEF IssuedFor, Kept
    <3>2. CASE ~Fee
      <4>1. feeInvoice' = feeInvoice /\ booking'[b].inv = row.inv
        BY <1>3, <2>1, <3>2 DEF SettleMoney
      <4> QED BY <1>3, <4>1 DEF IssuedFor, Kept
    <3> QED BY <3>1, <3>2
  <2> QED BY <2>1, <2>4, <2>5
(* Steps that only pay out of deposits, or touch none.                     *)
<1>4. ASSUME Falls, NEW b \in Booking
      PROVE  HeldFor(b)
  <2>1. \A e \in Deposit : ~Exists(e) => ~(Held(deposit[e]) > 0)
    BY <1>0 DEF Base, NoRow, Held, Left
  <2> QED BY <1>4, <2>1 DEF Falls, HeldFor
<1>5. ASSUME NEW b \in Booking, UNCHANGED feeInvoice
      PROVE  IssuedFor(b)
  BY <1>5 DEF IssuedFor, Kept
<1>6. ASSUME NEW h \in Handler, NEW b \in Booking, NEW s \in Instant, NEW e \in Instant,
             NEW auto \in BOOLEAN, NEW iv, NEW d, Create(h, b, s, e, auto, iv, d)
      PROVE  MInv'
  <2> DEFINE row == [status |-> "PENDING", start |-> s, end |-> e,
                     dep |-> NoDeposit, inv |-> NoInvoice]
  <2>1. booking[b].status = "none" /\ UNCHANGED <<task, contended>>
    BY <1>6 DEF Create
  <2>2. row \in BookingRow /\ row.dep = NoDeposit /\ row.inv = NoInvoice /\ row.status = "PENDING"
    BY BookingAssumption DEF BookingRow, BookingStatus
  <2>3. PICK new \in BookingRow :
          /\ booking' = [booking EXCEPT ![b] = new]
          /\ \/ new = row /\ UNCHANGED <<feeInvoice, depositVars>>
             \/ new = Linked(row, iv, d) /\ SettleMoney(b, iv, d)
    <3>1. CASE auto
      <4>1. SettleMoney(b, iv, d) /\ booking' = [booking EXCEPT ![b] = Linked(row, iv, d)]
        BY <1>6, <3>1 DEF Create
      <4> HIDE DEF row
      <4> QED BY <1>0, <2>2, <4>1, SettleTypes, LinkedRow
    <3>2. CASE ~auto
      <4>1. booking' = [booking EXCEPT ![b] = row] /\ UNCHANGED <<feeInvoice, depositVars>>
        BY <1>6, <3>2 DEF Create
      <4> HIDE DEF row
      <4> QED BY <2>2, <4>1
    <3> QED BY <3>1, <3>2
  <2> HIDE DEF row
  <2>4. booking'[b] = new /\ \A c \in Booking : c # b => booking'[c] = booking[c]
    BY <1>0, <2>3 DEF BookingTyped
  <2>5. /\ HeldFor(b) /\ IssuedFor(b)
        /\ booking'[b].status \notin {"none", "CANCELLED"}
        /\ booking'[b].dep # NoDeposit => deposit'[booking'[b].dep].status # "none"
        /\ booking'[b].inv # NoInvoice => feeInvoice'[booking'[b].inv].status # "none"
    <3>1. CASE new = row /\ UNCHANGED <<feeInvoice, depositVars>>
      <4>1. Falls
        BY <1>0, <1>6, <3>1, HeldFalls DEF depositVars, BInv
      <4> QED BY <1>4, <1>5, <2>2, <2>4, <3>1, <4>1
    <3>2. CASE new = Linked(row, iv, d) /\ SettleMoney(b, iv, d)
      BY <1>3, <2>2, <2>4, <3>2
    <3> QED BY <2>3, <3>1, <3>2
  <2>6. req' = req
    BY <2>3 DEF SettleMoney, depositVars
  <2>7. \A g \in Handler : task[g].pc # "idle" => task[g].booking # b
    BY <2>1 DEF MInv, LinksRead
  <2> QED BY <2>1, <2>4, <2>5, <2>6, <2>7, MoneyMoves
<1>7. ASSUME NEW h \in Handler, NEW iv, NEW d, ApproveWrite(h, iv, d)
      PROVE  MInv'
  <2> DEFINE b == task[h].booking
  <2>1. /\ b \in Booking /\ SettleMoney(b, iv, d)
        /\ booking' = [booking EXCEPT ![b] = Linked(booking[b], iv, d)]
        /\ task[h].pc = "approve" /\ task' = [task EXCEPT ![h] = Rest]
        /\ contended' = contended
    BY <1>0, <1>7 DEF ApproveWrite, End, Tasks
  <2>2. b \in contended \/ booking[b].status = "PENDING"
    BY <2>1 DEF SInv, Steady
  <2>3. req' = req
    BY <2>1 DEF SettleMoney
  <2>4. \A g \in Handler :
          \/ task'[g] = Rest
          \/ /\ task'[g] = task[g] /\ req'[g] = req[g]
             /\ task[g].pc # "idle" => task[g].booking # b \/ b \in contended
    BY <1>2, <2>1, <2>3
  <2> HIDE DEF b
  <2>5. Linked(booking[b], iv, d) \in BookingRow
    BY <1>0, <2>1, SettleTypes, LinkedRow
  <2>6. booking'[b] = Linked(booking[b], iv, d)
        /\ \A c \in Booking : c # b => booking'[c] = booking[c]
    BY <1>0, <2>1 DEF BookingTyped
  <2>7. /\ booking[b].dep # NoDeposit => deposit[booking[b].dep].status # "none"
        /\ booking[b].inv # NoInvoice => feeInvoice[booking[b].inv].status # "none"
    BY <2>1 DEF MInv, LinksExist
  <2>8. /\ HeldFor(b) /\ IssuedFor(b) /\ booking'[b].status = "CONFIRMED"
        /\ booking'[b].dep # NoDeposit => deposit'[booking'[b].dep].status # "none"
        /\ booking'[b].inv # NoInvoice => feeInvoice'[booking'[b].inv].status # "none"
    BY <1>0, <1>3, <2>1, <2>6, <2>7
  <2> QED BY <2>1, <2>2, <2>4, <2>5, <2>6, <2>8, MoneyMoves
<1>8. ASSUME NEW h \in Handler, RejectWrite(h)
      PROVE  MInv'
  <2> DEFINE b == task[h].booking
  <2>1. /\ b \in Booking /\ task[h].pc = "reject" /\ task' = [task EXCEPT ![h] = Rest]
        /\ booking' = [booking EXCEPT ![b].status = "REJECTED"]
        /\ UNCHANGED <<contended, feeInvoice, depositVars>>
    BY <1>0, <1>8 DEF RejectWrite, End, Tasks
  <2>2. b \in contended \/ booking[b].status = "PENDING"
    BY <2>1 DEF SInv, Steady
  <2>3. req' = req /\ deposit' = deposit /\ raced' = raced
    BY <2>1 DEF depositVars
  <2>4. \A g \in Handler :
          \/ task'[g] = Rest
          \/ /\ task'[g] = task[g] /\ req'[g] = req[g]
             /\ task[g].pc # "idle" => task[g].booking # b \/ b \in contended
    BY <1>2, <2>1, <2>3
  <2>5. Falls
    BY <1>0, <2>3, HeldFalls
  <2> HIDE DEF b
  <2>6. /\ booking'[b] = [booking[b] EXCEPT !.status = "REJECTED"]
        /\ \A c \in Booking : c # b => booking'[c] = booking[c]
    BY <1>0, <2>1 DEF BookingTyped
  <2>7. /\ booking'[b] \in BookingRow /\ booking'[b].status = "REJECTED"
        /\ booking'[b].dep = booking[b].dep /\ booking'[b].inv = booking[b].inv
    BY <1>0, <2>1, <2>6 DEF BookingRow, BookingStatus
  <2>8. /\ booking[b].dep # NoDeposit => deposit[booking[b].dep].status # "none"
        /\ booking[b].inv # NoInvoice => feeInvoice[booking[b].inv].status # "none"
    BY <2>1 DEF MInv, LinksExist
  <2>9. HeldFor(b) /\ IssuedFor(b)
    BY <1>4, <1>5, <2>1, <2>5
  <2> QED BY <2>1, <2>2, <2>3, <2>4, <2>6, <2>7, <2>8, <2>9, MoneyMoves
<1>9. ASSUME NEW h \in Handler, NEW b \in Booking, b = task[h].booking, CancelCommit(h)
      PROVE  MInv'
  <2> DEFINE t == task[h]
  <2>1. /\ t.pc = "cancelling" /\ task' = [task EXCEPT ![h] = Rest]
        /\ booking' = [booking EXCEPT ![b].status = "CANCELLED"]
        /\ contended' = contended
        /\ IF req[h].pc = "release" THEN ReleaseWrite(h) ELSE UNCHANGED depositVars
        /\ feeInvoice' = IF t.inv # NoInvoice THEN Voided(t.inv) ELSE feeInvoice
    BY <1>9 DEF CancelCommit, End
  <2>2. raced' = raced /\ \A g \in Handler : g # h => req'[g] = req[g]
    BY <1>0, <2>1 DEF ReleaseWrite, depositVars
  <2>3. \A g \in Handler :
          \/ task'[g] = Rest
          \/ /\ task'[g] = task[g] /\ req'[g] = req[g]
             /\ task[g].pc # "idle" => task[g].booking # b \/ b \in contended
    BY <1>2, <1>9, <2>1, <2>2
  <2>4. Falls
    BY <1>0, <2>1, HeldFalls DEF Paying, depositVars
  <2>5. b \notin contended => t.dep = booking[b].dep /\ t.inv = booking[b].inv
    BY <1>9, <2>1 DEF MInv, LinksRead
  <2>6. booking[b].dep \in Deposit \cup {NoDeposit} /\ booking[b].inv \in FeeInvoice \cup {NoInvoice}
    BY <1>0, <2>1 DEF BookingRow
  <2>7. b \notin contended /\ booking[b].dep # NoDeposit /\ raced[booking[b].dep] = "no" =>
          ~(Held(deposit'[booking[b].dep]) > 0)
    <3> SUFFICES ASSUME b \notin contended, booking[b].dep # NoDeposit,
                        raced[booking[b].dep] = "no"
                 PROVE  ~(Held(deposit'[booking[b].dep]) > 0)
      OBVIOUS
    <3>1. CASE req[h].pc = "release" /\ req[h].dep = t.dep
      <4>1. ReleaseWrite(h) /\ raced[req[h].dep] = "no"
        BY <2>1, <2>5, <3>1
      <4>2. Held(deposit'[req[h].dep]) = 0
        BY <1>0, <4>1, Drained
      <4> QED BY <2>5, <3>1, <4>2
    <3>2. CASE ~(Held(deposit[t.dep]) > 0)
      BY <2>2, <2>4, <2>5, <2>6, <3>2 DEF Falls
    <3> QED BY <1>9, <2>1, <2>5, <3>1, <3>2 DEF MInv, Releasing
  <2>8. ASSUME NEW i \in FeeInvoice
        PROVE  /\ Kept(i)
               /\ feeInvoice'[i].status = "ISSUED" => feeInvoice[i].status = "ISSUED" /\ i # t.inv
    <3>1. feeInvoice[i] \in FeeRow
      BY <1>0 DEF BookingTyped
    <3>2. CASE t.inv = i
      <4>1. feeInvoice'[i] = [feeInvoice[i] EXCEPT !.status = IF @ = "ISSUED" THEN "VOID" ELSE @]
        BY <1>0, <2>1, <3>2 DEF Voided
      <4>2. feeInvoice'[i].of = feeInvoice[i].of
            /\ feeInvoice'[i].status = IF feeInvoice[i].status = "ISSUED" THEN "VOID"
                                       ELSE feeInvoice[i].status
        BY <3>1, <4>1 DEF FeeRow
      <4> QED BY <4>2 DEF Kept
    <3>3. CASE t.inv # i
      <4>1. feeInvoice'[i] = feeInvoice[i]
        BY <1>0, <2>1, <3>3 DEF Voided
      <4> QED BY <3>3, <4>1 DEF Kept
    <3> QED BY <3>2, <3>3
  <2> HIDE DEF t
  <2>9. /\ booking'[b] = [booking[b] EXCEPT !.status = "CANCELLED"]
        /\ \A c \in Booking : c # b => booking'[c] = booking[c]
    BY <1>0, <2>1 DEF BookingTyped
  <2>10. /\ booking'[b] \in BookingRow /\ booking'[b].status = "CANCELLED"
         /\ booking'[b].dep = booking[b].dep /\ booking'[b].inv = booking[b].inv
    BY <1>0, <2>1, <2>9 DEF BookingRow, BookingStatus
  <2>11. /\ booking[b].dep # NoDeposit => deposit[booking[b].dep].status # "none"
         /\ booking[b].inv # NoInvoice => feeInvoice[booking[b].inv].status # "none"
    BY <2>1 DEF MInv, LinksExist
  <2>12. HeldFor(b) /\ IssuedFor(b)
    BY <1>4, <2>1, <2>4, <2>8 DEF IssuedFor
  <2>13. b \notin contended => ~KeepsMoney(b)'
    <3> SUFFICES ASSUME b \notin contended, KeepsMoney(b)' PROVE FALSE
      OBVIOUS
    <3>1. CASE booking'[b].dep # NoDeposit /\ raced'[booking'[b].dep] = "no"
               /\ Held(deposit'[booking'[b].dep]) > 0
      BY <2>2, <2>7, <2>10, <3>1
    <3>2. CASE booking'[b].inv # NoInvoice /\ feeInvoice'[booking'[b].inv].status = "ISSUED"
      <4>1. booking[b].inv \in FeeInvoice /\ booking[b].inv # t.inv
        BY <2>6, <2>8, <2>10, <3>2
      <4> QED BY <2>5, <4>1
    <3>3. \/ /\ booking'[b].dep # NoDeposit /\ raced'[booking'[b].dep] = "no"
             /\ Held(deposit'[booking'[b].dep]) > 0
          \/ booking'[b].inv # NoInvoice /\ feeInvoice'[booking'[b].inv].status = "ISSUED"
      BY DEF KeepsMoney, Held, Left
    <3> QED BY <3>1, <3>2, <3>3
  <2>14. /\ booking'[b].dep # NoDeposit => deposit'[booking'[b].dep].status # "none"
         /\ booking'[b].inv # NoInvoice => feeInvoice'[booking'[b].inv].status # "none"
    BY <2>4, <2>6, <2>8, <2>10, <2>11 DEF Falls, Exists, Kept
  <2>15. booking'[b].status # "none"
    BY <2>10
  <2>16. \/ b \in contended
         \/ /\ booking'[b].dep = booking[b].dep /\ booking'[b].inv = booking[b].inv
            /\ ~KeepsMoney(b)'
    BY <2>10, <2>13
  <2>17. /\ contended' = contended /\ booking'[b] \in BookingRow
         /\ \A c \in Booking : c # b => booking'[c] = booking[c]
    BY <2>1, <2>9, <2>10
  <2> QED BY <2>3, <2>12, <2>14, <2>15, <2>16, <2>17, MoneyMoves
<1>10. ASSUME NEW h \in Handler, CancelCommit(h)
       PROVE  MInv'
  <2>1. task[h].booking \in Booking
    BY <1>0, <1>10 DEF CancelCommit, Tasks
  <2> QED BY <1>9, <1>10, <2>1
(* A request on a booking begins with the links it reads.                  *)
<1>11. ASSUME NEW h \in Handler, NEW t \in Task, t.booking \in Booking, Take(h, t),
              booking[t.booking].status # "none", t.pc # "cancelling",
              t.pc = "cancel" => /\ t.dep = booking[t.booking].dep
                                 /\ t.inv = booking[t.booking].inv,
              UNCHANGED <<booking, feeInvoice, depositVars>>
       PROVE  MInv'
  <2>1. /\ task'[h] = t /\ \A g \in Handler : g # h => task'[g] = task[g]
        /\ contended \subseteq contended'
    BY <1>0, <1>11, Taken DEF BookingTyped
  <2>2. Falls /\ req' = req /\ deposit' = deposit /\ raced' = raced
    BY <1>0, <1>11, HeldFalls DEF depositVars
  <2>3. LinksExist' /\ MoneyFollowsBooking' /\ CancelledReleasesMoney'
    BY <1>1, <1>11, <2>1, <2>2, MoneyStays
  <2>4. LinksRead'
    BY <1>11, <2>1 DEF MInv, LinksRead
  <2>5. Releasing'
    BY <1>11, <2>1, <2>2 DEF MInv, Releasing
  <2> QED BY <2>3, <2>4, <2>5 DEF MInv
<1>12. ASSUME NEW h \in Handler, NEW b \in Booking, NEW pc \in {"approve", "reject"},
              Review(h, b, pc)
       PROVE  MInv'
  <2> DEFINE t == At(pc, b, NoDeposit, NoInvoice)
  <2>1. t \in Task /\ t.booking = b /\ t.pc = pc
    BY DEF At, Task
  <2>2. Take(h, t) /\ booking[b].status = "PENDING"
        /\ UNCHANGED <<booking, feeInvoice, depositVars>>
    BY <1>12 DEF Review, Reviewable
  <2> HIDE DEF t
  <2> QED BY <1>11, <2>1, <2>2
<1>13. ASSUME NEW h \in Handler, NEW b \in Booking, CancelRead(h, b)
       PROVE  MInv'
  <2> DEFINE t == At("cancel", b, booking[b].dep, booking[b].inv)
  <2>1. /\ t \in Task /\ t.booking = b /\ t.pc = "cancel"
        /\ t.dep = booking[b].dep /\ t.inv = booking[b].inv
    BY <1>0 DEF At, Task, BookingRow
  <2>2. Take(h, t) /\ booking[b].status # "none"
        /\ UNCHANGED <<booking, feeInvoice, depositVars>>
    BY <1>13 DEF CancelRead, Active
  <2> HIDE DEF t
  <2> QED BY <1>11, <2>1, <2>2
<1>14. ASSUME NEW h \in Handler, CancelUpdate(h)
       PROVE  MInv'
  <2> DEFINE t == task[h]
  <2>1. /\ t.pc = "cancel" /\ task' = [task EXCEPT ![h].pc = "cancelling"]
        /\ IF t.dep # NoDeposit /\ Held(deposit[t.dep]) > 0
           THEN ReleaseRead(h, t.dep) ELSE UNCHANGED depositVars
        /\ UNCHANGED <<booking, feeInvoice, contended>>
    BY <1>14 DEF CancelUpdate
  <2>2. t \in Task
    BY <1>0
  <2>3. t.dep # NoDeposit => t.dep \in Deposit
    BY <2>2 DEF Task
  <2> HIDE DEF t
  <2>4. /\ task'[h].pc = "cancelling" /\ task'[h].booking = t.booking
        /\ task'[h].dep = t.dep /\ task'[h].inv = t.inv
        /\ \A g \in Handler : g # h => task'[g] = task[g]
    BY <1>0, <2>1, <2>2 DEF BookingTyped, Task, t
  <2>5. Falls
    BY <1>0, <2>1, <2>3, HeldFalls DEF Paying, depositVars
  <2>6. LinksExist' /\ MoneyFollowsBooking' /\ CancelledReleasesMoney'
    BY <1>1, <2>1, <2>5, MoneyStays
  <2>7. LinksRead'
    BY <2>1, <2>4 DEF MInv, LinksRead, t
  <2>8. contended' = contended
    BY <2>1
  <2>9. \A g \in Handler : g # h => req'[g] = req[g]
    BY <1>0, <2>1 DEF ReleaseRead, Begin, depositVars
  <2>10. t.dep # NoDeposit =>
          \/ req'[h].pc = "release" /\ req'[h].dep = t.dep
          \/ ~(Held(deposit'[t.dep]) > 0)
    <3>1. CASE t.dep # NoDeposit /\ Held(deposit[t.dep]) > 0
      <4> DEFINE r == [Idle EXCEPT !.pc = "release", !.dep = t.dep, !.row = deposit[t.dep]]
      <4>1. req' = [req EXCEPT ![h] = r]
        BY <2>1, <3>1 DEF ReleaseRead, Begin
      <4>2. r.pc = "release" /\ r.dep = t.dep
        BY DEF Idle
      <4> HIDE DEF r
      <4>3. req'[h] = r
        BY <1>0, <4>1
      <4> QED BY <4>2, <4>3
    <3>2. CASE ~(t.dep # NoDeposit /\ Held(deposit[t.dep]) > 0)
      BY <2>1, <3>2 DEF depositVars
    <3> QED BY <3>1, <3>2
  <2>11. Releasing'
    <3> SUFFICES ASSUME NEW g \in Handler, task'[g].pc = "cancelling",
                        task'[g].booking \notin contended', task'[g].dep # NoDeposit,
                        raced'[task'[g].dep] = "no", Held(deposit'[task'[g].dep]) > 0
                 PROVE  req'[g].pc = "release" /\ req'[g].dep = task'[g].dep
      BY DEF Releasing, Held, Left
    <3>1. CASE g = h
      <4>1. task'[h].dep = t.dep
        BY <2>4
      <4> QED BY <2>10, <3>1, <4>1
    <3>2. CASE g # h
      <4>1. task'[g] = task[g] /\ req'[g] = req[g] /\ task[g].dep \in Deposit
        BY <1>0, <2>4, <2>9, <3>2 DEF Task
      <4>2. raced[task[g].dep] = "no" /\ Held(deposit[task[g].dep]) > 0
        BY <2>5, <4>1 DEF Falls
      <4>3. task[g].booking \notin contended /\ task[g].pc = "cancelling"
            /\ task[g].dep # NoDeposit
        BY <2>8, <4>1
      <4>4. req[g].pc = "release" /\ req[g].dep = task[g].dep
        BY <4>2, <4>3 DEF MInv, Releasing
      <4> QED BY <4>1, <4>4
    <3> QED BY <3>1, <3>2
  <2> QED BY <2>6, <2>7, <2>11 DEF MInv
(* A step that ends no cancellation but its own, and begins none.          *)
<1>15. ASSUME UNCHANGED <<booking, contended>>, Falls,
              \A i \in FeeInvoice : Kept(i) /\ (feeInvoice'[i].status = "ISSUED"
                                                  => feeInvoice[i].status = "ISSUED"),
              \A g \in Handler :
                \/ task'[g] = Rest
                \/ task'[g] = task[g] /\ (task[g].pc # "idle" => req'[g] = req[g])
       PROVE  MInv'
  <2>1. LinksExist' /\ MoneyFollowsBooking' /\ CancelledReleasesMoney'
    BY <1>15, MoneyStays
  <2>2. LinksRead'
    BY <1>0, <1>15 DEF MInv, LinksRead
  <2>3. Releasing'
    <3> SUFFICES ASSUME NEW g \in Handler, task'[g].pc = "cancelling",
                        task'[g].booking \notin contended', task'[g].dep # NoDeposit,
                        raced'[task'[g].dep] = "no", Held(deposit'[task'[g].dep]) > 0
                 PROVE  req'[g].pc = "release" /\ req'[g].dep = task'[g].dep
      BY DEF Releasing, Held, Left
    <3>1. task'[g] = task[g] /\ req'[g] = req[g]
      BY <1>0, <1>15
    <3>2. task[g].dep \in Deposit
      BY <1>0, <3>1 DEF Task
    <3>3. raced[task[g].dep] = "no" /\ Held(deposit[task[g].dep]) > 0
      BY <1>15, <3>1, <3>2 DEF Falls
    <3> QED BY <1>15, <3>1, <3>3 DEF MInv, Releasing
  <2> QED BY <2>1, <2>2, <2>3 DEF MInv
<1>16. ASSUME NEW h \in Handler, AbandonTask(h)
       PROVE  MInv'
  <2>1. /\ task' = [task EXCEPT ![h] = Rest] /\ req' = [req EXCEPT ![h] = Idle]
        /\ UNCHANGED <<booking, feeInvoice, contended, deposit, raced>>
    BY <1>16 DEF AbandonTask, End
  <2>2. task'[h] = Rest /\ \A g \in Handler : g # h => task'[g] = task[g] /\ req'[g] = req[g]
    BY <1>0, <2>1 DEF BookingTyped
  <2>3. Falls
    BY <1>0, <2>1, HeldFalls
  <2> QED BY <1>1, <1>15, <2>1, <2>2, <2>3
<1>17. ASSUME NEW h \in Handler, DepositRequest(h)
       PROVE  MInv'
  <2>1. /\ task[h].pc = "idle" /\ Refunds(h)
        /\ UNCHANGED <<booking, feeInvoice, task, contended>>
    BY <1>17 DEF DepositRequest, bookingVars
  <2>2. \A g \in Handler : g # h => req'[g] = req[g]
    BY <2>1, RefundsServe
  <2>3. Falls
    BY <1>0, <2>1, HeldFalls DEF Paying
  <2> QED BY <1>1, <1>15, <2>1, <2>2, <2>3
<1>18. ASSUME NEW iv \in FeeInvoice, NEW st \in {"PAID", "VOID"}, SettleFee(iv, st)
       PROVE  MInv'
  <2>1. /\ feeInvoice[iv].status = "ISSUED"
        /\ feeInvoice' = [feeInvoice EXCEPT ![iv].status = st]
        /\ UNCHANGED <<booking, task, contended, depositVars>>
    BY <1>18 DEF SettleFee
  <2>2. ASSUME NEW i \in FeeInvoice
        PROVE  Kept(i) /\ (feeInvoice'[i].status = "ISSUED" => feeInvoice[i].status = "ISSUED")
    BY <1>0, <2>1 DEF BookingTyped, FeeRow, Kept
  <2>3. req' = req /\ deposit' = deposit /\ raced' = raced
    BY <2>1 DEF depositVars
  <2>4. Falls
    <3>1. \A d \in Deposit : Exists(d)' <=> Exists(d)
      BY <2>3 DEF Exists
    <3> QED BY <2>3, <3>1 DEF Falls
  <2> QED BY <1>15, <2>1, <2>2, <2>3, <2>4
<1>19. CASE UNCHANGED vars
  <2>1. UNCHANGED <<booking, feeInvoice, task, contended, deposit, raced, req>>
    BY <1>19 DEF vars
  <2>2. Falls
    BY <2>1 DEF Falls, Exists
  <2> QED BY <1>1, <1>15, <2>1, <2>2
<1> QED
  BY <1>6, <1>7, <1>8, <1>10, <1>12, <1>13, <1>14, <1>16, <1>17, <1>18, <1>19 DEF Next, Step

(* Nothing is linked, and nothing held.                                    *)
LEMMA MInit == Init => MInv
<1> SUFFICES ASSUME Init PROVE MInv
  OBVIOUS
<1>1. /\ \A b \in Booking : /\ booking[b].status = "none"
                            /\ booking[b].dep = NoDeposit /\ booking[b].inv = NoInvoice
      /\ \A i \in FeeInvoice : feeInvoice[i].status = "none"
      /\ \A h \in Handler : task[h].pc = "idle"
      /\ \A d \in Deposit : deposit[d] = NoRow
  BY DEF Init, InitDeposit, Rest, At
<1>2. ~(Held(NoRow) > 0)
  BY DEF Held, Left, NoRow
<1>3. LinksExist /\ LinksRead /\ Releasing
  BY <1>1 DEF LinksExist, LinksRead, Releasing
<1>4. MoneyFollowsBooking
  BY <1>1, <1>2 DEF MoneyFollowsBooking
<1>5. CancelledReleasesMoney
  BY <1>1 DEF CancelledReleasesMoney
<1> QED BY <1>3, <1>4, <1>5 DEF MInv

(* The invariants of bookings, of their deposits and of their money.       *)
LEMMA MoneyInvariant == Spec => [](BInv /\ SInv /\ RacesOK /\ RowsOK /\ MInv)
<1> DEFINE I == BInv /\ SInv /\ RacesOK /\ RowsOK /\ MInv
<1>1. Init => I
  BY BInit, SInit, MInit, InitHolds DEF Init
<1>2. I /\ [Next]_vars => I'
  <2> SUFFICES ASSUME I, [Next]_vars PROVE I'
    OBVIOUS
  <2>1. Base /\ [NextDeposit]_depositVars
    BY StepIsDeposits DEF BInv
  <2>2. RacesOK' /\ RowsOK'
    BY <2>1, RacesStep, RowsStep
  <2> QED BY <2>2, BStep, SStep, MStep
<1> HIDE DEF I
<1>3. Spec => []I
  BY <1>1, <1>2, PTL DEF Spec
<1> QED BY <1>3 DEF I

(* A fee that can be collected belongs to a confirmed booking linked to    *)
(* it, as does a deposit that is held (settleMoney, and cancel's money     *)
(* policy), until two requests on one booking, or on the deposit, overlap. *)
THEOREM MoneyStaysWithBooking == Spec => []MoneyFollowsBooking
<1>1. MInv => MoneyFollowsBooking
  BY DEF MInv
<1> QED BY <1>1, MoneyInvariant, PTL

(* "fully release any still-held deposit and void the fee invoice when it  *)
(* is still unpaid": so it is with a cancelled booking, whatever refunds,  *)
(* forfeits and payments went before or come after, until two requests on  *)
(* the booking, or on its deposit, overlap.                                *)
THEOREM CancelledGivesBack == Spec => []CancelledReleasesMoney
<1>1. MInv => CancelledReleasesMoney
  BY DEF MInv
<1> QED BY <1>1, MoneyInvariant, PTL
=============================================================================
