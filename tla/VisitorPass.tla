---------------------------- MODULE VisitorPass ----------------------------
(***************************************************************************)
(* Visitor passes and walk-ins (apps/api/src/visitor/visitor.service.ts):  *)
(* the status of each, its check-in rows, and the overnight slots of one   *)
(* night.                                                                  *)
(*                                                                         *)
(* A request reads the visitor, checks what it read, and writes by id in a *)
(* transaction of its own.  A pass is shown at the gate when its visit is  *)
(* due, and its code names it: codes are unique by an index.               *)
(***************************************************************************)
EXTENDS Integers, FiniteSets

CONSTANTS
  Visitor,   \* rows of the visitors table
  NoVisitor, \* the visitor of a request that serves none
  Handler,   \* requests and sweeps the server runs at once
  MaxSlots,  \* overnightSlotsPerNight
  MaxVisits  \* bound: check-in rows of a visitor

ASSUME VisitorAssumption ==
  /\ NoVisitor \notin Visitor
  /\ IsFiniteSet(Visitor)
  /\ MaxSlots \in Nat
  /\ MaxVisits \in Nat

VARIABLES
  visitor,   \* visitType (overnight told apart) and status
  inside,    \* visitor_check_ins: the rows whose checkOutAt is not set
  visits,    \* how many rows each visitor has had
  lapsed,    \* visitors whose approvalDeadline or expiresAt has come
  overdue,   \* visitors whose stay is past what resolveAutoCloseAt allows
  call,      \* the requests being served
  torn,      \* history: visitors written from an outdated reading or left half done
  unchecked  \* history: overnight visitors registered without a look at the slots

vars == <<visitor, inside, visits, lapsed, overdue, call, torn, unchecked>>

Kind == {"day", "overnight", "walkIn"}
Status == {"none", "PENDING_OWNER_APPROVAL", "PENDING_MANAGEMENT_APPROVAL", "APPROVED",
           "CHECKED_IN", "CHECKED_OUT", "EXPIRED", "REJECTED", "CANCELLED"}
Final == {"CHECKED_OUT", "EXPIRED", "REJECTED", "CANCELLED"}
Upcoming == {"PENDING_OWNER_APPROVAL", "PENDING_MANAGEMENT_APPROVAL", "APPROVED"}
VisitorRow == [kind : Kind, status : Status]

(* A request is about to decide (write a status), or to close a check-in   *)
(* row, or has closed it and is about to write CHECKED_OUT.                *)
Call == [pc : {"idle", "deciding", "closing", "closed"}, visitor : Visitor \cup {NoVisitor},
         read : Status, to : Status, row : 0 .. MaxVisits]
Idle == [pc |-> "idle", visitor |-> NoVisitor, read |-> "none", to |-> "none", row |-> 0]

Decision(v, read, to) ==
  [pc |-> "deciding", visitor |-> v, read |-> read, to |-> to, row |-> 0]
CheckOut(v, read, row) ==
  [pc |-> "closing", visitor |-> v, read |-> read, to |-> "CHECKED_OUT", row |-> row]

(* countOvernightSlots                                                     *)
Occupying ==
  {v \in Visitor :
     /\ visitor[v].kind = "overnight"
     /\ visitor[v].status \in {"APPROVED", "PENDING_MANAGEMENT_APPROVAL", "CHECKED_IN"}}

SlotsLeftOver == Cardinality(Occupying) <= MaxSlots  \* mutated: one too many
SlotsLeft == Cardinality(Occupying) < MaxSlots

(* expireStale: two conditional updates of all visitors.                   *)
Stale(v) ==
  /\ v \in lapsed
  /\ \/ visitor[v].status = "PENDING_OWNER_APPROVAL"
     \/ visitor[v].status = "APPROVED"

Expired == [v \in Visitor |-> IF Stale(v) THEN [visitor[v] EXCEPT !.status = "EXPIRED"]
                              ELSE visitor[v]]

-----------------------------------------------------------------------------
(* Registrations.  A holiday's overnight visitor is approved at once if a  *)
(* slot is left: the count and the insert are one serializable             *)
(* transaction, retried when another aborts it.                            *)
Register(v, kind, status) ==
  /\ visitor[v].status = "none"
  /\ visitor' = [visitor EXCEPT ![v] = [kind |-> kind, status |-> status]]

CreateDay(v) ==
  /\ Register(v, "day", "APPROVED")
  /\ UNCHANGED <<inside, visits, lapsed, overdue, call, torn, unchecked>>

CreateOvernight(v, holiday) ==
  /\ holiday => SlotsLeft
  /\ Register(v, "overnight", IF holiday THEN "APPROVED" ELSE "PENDING_MANAGEMENT_APPROVAL")
  /\ unchecked' = IF holiday THEN unchecked ELSE unchecked \cup {v}
  /\ UNCHANGED <<inside, visits, lapsed, overdue, call, torn>>

CreateWalkIn(v) ==
  /\ Register(v, "walkIn", "PENDING_OWNER_APPROVAL")
  /\ UNCHANGED <<inside, visits, lapsed, overdue, call, torn, unchecked>>

(* createWalkInOffice, and createWalkInUnit when nobody's approval is      *)
(* needed: the visitor and its check-in row in one transaction.            *)
CreateOnSite(v) ==
  /\ MaxVisits > 0
  /\ Register(v, "walkIn", "CHECKED_IN")
  /\ visits' = [visits EXCEPT ![v] = 1]
  /\ inside' = [inside EXCEPT ![v] = {1}]
  /\ UNCHANGED <<lapsed, overdue, call, torn, unchecked>>

-----------------------------------------------------------------------------
(* What a request that begins by expiring stale visitors reads after it.   *)
Begin(h, c) ==
  /\ call[h] = Idle
  /\ call' = [call EXCEPT ![h] = c]

BeginFresh(h, v, from, to) ==
  /\ Expired[v].status = from
  /\ Begin(h, Decision(v, from, to))
  /\ visitor' = Expired
  /\ UNCHANGED <<inside, visits, lapsed, overdue, torn, unchecked>>

(* The visitor's time comes after the expiry and before the request has    *)
(* looked at the clock: the request itself is to write EXPIRED.            *)
BeginLate(h, v, from) ==
  /\ Expired[v].status = from
  /\ Begin(h, Decision(v, from, "EXPIRED"))
  /\ visitor' = Expired
  /\ lapsed' = lapsed \cup {v}
  /\ UNCHANGED <<inside, visits, overdue, torn, unchecked>>

BeginAsIs(h, v, to) ==
  /\ Begin(h, Decision(v, visitor[v].status, to))
  /\ UNCHANGED <<visitor, inside, visits, lapsed, overdue, torn, unchecked>>

ApproveOvernight(h, v) ==
  /\ visitor[v].kind = "overnight"
  /\ BeginFresh(h, v, "PENDING_MANAGEMENT_APPROVAL", "APPROVED")

Approve(h, v) ==
  /\ visitor[v].kind = "walkIn"
  /\ \/ BeginFresh(h, v, "PENDING_OWNER_APPROVAL", "APPROVED")
     \/ BeginLate(h, v, "PENDING_OWNER_APPROVAL")

Reject(h, v) ==
  /\ visitor[v].kind = "walkIn"
  /\ BeginFresh(h, v, "PENDING_OWNER_APPROVAL", "REJECTED")

(* approveWalkInByGuard looks at the status alone, deadline or not.        *)
ApproveWalkInByGuard(h, v) ==
  /\ visitor[v].kind = "walkIn"
  /\ visitor[v].status = "PENDING_OWNER_APPROVAL"
  /\ BeginAsIs(h, v, "CHECKED_IN")

AcknowledgeWalkIn(h, v) ==
  /\ visitor[v].kind = "walkIn"
  /\ visitor[v].status = "APPROVED"
  /\ BeginAsIs(h, v, IF v \in lapsed THEN "EXPIRED" ELSE "CHECKED_IN")

CancelsExpired(v) ==                                \* mutated: expired ones too
  visitor[v].status \in Upcoming \cup {"EXPIRED"}
Cancels(v) == visitor[v].status \in Upcoming

Cancel(h, v) ==
  /\ Cancels(v)
  /\ BeginAsIs(h, v, "CANCELLED")

CheckIn(h, v) ==
  \/ BeginFresh(h, v, "APPROVED", "CHECKED_IN")
  \/ BeginLate(h, v, "APPROVED")

(* verifyByPass on its own, and every list that expires before it reads.   *)
ExpireStale ==
  /\ \E v \in Visitor : Stale(v)
  /\ visitor' = Expired
  /\ UNCHANGED <<inside, visits, lapsed, overdue, call, torn, unchecked>>

(* The write of a decision, with a check-in row when the visitor enters.   *)
Entered(v) ==
  /\ visits' = [visits EXCEPT ![v] = @ + 1]
  /\ inside' = [inside EXCEPT ![v] = @ \cup {visits[v] + 1}]
  /\ overdue' = overdue \ {v}

Enters(to) == to = "CHECKED_IN"

Outdated(h) == visitor[call[h].visitor].status # call[h].read

Decide(h) ==
  LET v == call[h].visitor
      to == call[h].to
  IN /\ call[h].pc = "deciding"
     /\ visitor' = [visitor EXCEPT ![v].status = to]
     /\ IF Enters(to) THEN visits[v] < MaxVisits /\ Entered(v)
        ELSE UNCHANGED <<inside, visits, overdue>>
     /\ lapsed' = IF visitor[v].kind = "walkIn" /\ to = "APPROVED" THEN lapsed \ {v} ELSE lapsed
     /\ torn' = IF Outdated(h) THEN torn \cup {v} ELSE torn
     /\ call' = [call EXCEPT ![h] = Idle]
     /\ UNCHANGED unchecked

-----------------------------------------------------------------------------
(* checkOut by a guard, and autoCloseStaleVisitors: the latest open row is *)
(* closed, and then, in a write of its own, the visitor checked out.       *)
LatestRow(v, row) == row \in inside[v] /\ \A r \in inside[v] : r <= row

CheckOutByPass(h, v, row) ==
  /\ visitor[v].kind # "walkIn"
  /\ Expired[v].status \notin {"CANCELLED", "EXPIRED"}
  /\ LatestRow(v, row)
  /\ Begin(h, CheckOut(v, Expired[v].status, row))
  /\ visitor' = Expired
  /\ UNCHANGED <<inside, visits, lapsed, overdue, torn, unchecked>>

AutoClose(h, v, row) ==
  /\ visitor[v].status = "CHECKED_IN"
  /\ v \in overdue
  /\ LatestRow(v, row)
  /\ Begin(h, CheckOut(v, "CHECKED_IN", row))
  /\ UNCHANGED <<visitor, inside, visits, lapsed, overdue, torn, unchecked>>

ClosesNone(rows, row) == rows                       \* mutated: row left open
Closes(rows, row) == rows \ {row}

CloseRow(h) ==
  LET v == call[h].visitor
  IN /\ call[h].pc = "closing"
     /\ inside' = [inside EXCEPT ![v] = Closes(@, call[h].row)]
     /\ call' = [call EXCEPT ![h].pc = "closed"]
     /\ torn' = IF Outdated(h) THEN torn \cup {v} ELSE torn
     /\ UNCHANGED <<visitor, visits, lapsed, overdue, unchecked>>

WriteCheckedOut(h) ==
  LET v == call[h].visitor
  IN /\ call[h].pc = "closed"
     /\ visitor' = [visitor EXCEPT ![v].status = "CHECKED_OUT"]
     /\ call' = [call EXCEPT ![h] = Idle]
     /\ torn' = IF Outdated(h) THEN torn \cup {v} ELSE torn
     /\ UNCHANGED <<inside, visits, lapsed, overdue, unchecked>>

-----------------------------------------------------------------------------
Lapse(v) ==
  /\ visitor[v].status \in Upcoming
  /\ v \notin lapsed
  /\ lapsed' = lapsed \cup {v}
  /\ UNCHANGED <<visitor, inside, visits, overdue, call, torn, unchecked>>

Overstay(v) ==
  /\ visitor[v].status = "CHECKED_IN"
  /\ v \notin overdue
  /\ overdue' = overdue \cup {v}
  /\ UNCHANGED <<visitor, inside, visits, lapsed, call, torn, unchecked>>

(* The process stops, or the database refuses a write.                     *)
Die(h) ==
  /\ call[h] # Idle
  /\ call' = [call EXCEPT ![h] = Idle]
  /\ torn' = IF call[h].pc = "closed" THEN torn \cup {call[h].visitor} ELSE torn
  /\ UNCHANGED <<visitor, inside, visits, lapsed, overdue, unchecked>>

Init ==
  /\ visitor = [v \in Visitor |-> [kind |-> "day", status |-> "none"]]
  /\ inside = [v \in Visitor |-> {}]
  /\ visits = [v \in Visitor |-> 0]
  /\ lapsed = {}
  /\ overdue = {}
  /\ call = [h \in Handler |-> Idle]
  /\ torn = {}
  /\ unchecked = {}

Next ==
  \/ \E v \in Visitor :
       \/ CreateDay(v) \/ CreateWalkIn(v) \/ CreateOnSite(v)
       \/ \E holiday \in BOOLEAN : CreateOvernight(v, holiday)
       \/ Lapse(v) \/ Overstay(v)
  \/ \E h \in Handler, v \in Visitor :
       \/ ApproveOvernight(h, v) \/ Approve(h, v) \/ Reject(h, v)
       \/ ApproveWalkInByGuard(h, v) \/ AcknowledgeWalkIn(h, v) \/ Cancel(h, v) \/ CheckIn(h, v)
       \/ \E row \in 1 .. MaxVisits : CheckOutByPass(h, v, row) \/ AutoClose(h, v, row)
  \/ \E h \in Handler : Decide(h) \/ CloseRow(h) \/ WriteCheckedOut(h) \/ Die(h)
  \/ ExpireStale

Spec == Init /\ [][Next]_vars

-----------------------------------------------------------------------------
TypeOK ==
  /\ visitor \in [Visitor -> VisitorRow]
  /\ inside \in [Visitor -> SUBSET (1 .. MaxVisits)]
  /\ visits \in [Visitor -> 0 .. MaxVisits]
  /\ lapsed \subseteq Visitor
  /\ overdue \subseteq Visitor
  /\ call \in [Handler -> Call]
  /\ torn \subseteq Visitor
  /\ unchecked \subseteq Visitor

(* The slots of a holiday night hold, however registrations, approvals,    *)
(* cancellations and arrivals interleave: what exceeds them was registered *)
(* without a look at them or came back by a write from an outdated reading. *)
SlotsKept == Cardinality(Occupying \ (unchecked \cup torn)) <= MaxSlots

(* Who the table says is on site has one open check-in row and nobody else *)
(* has any, between requests.  (An open row is also what the sweep needs   *)
(* to close a visit, so no such visit can be stuck.)                       *)
HalfDone(v) == \E h \in Handler : call[h].pc = "closed" /\ call[h].visitor = v

VisitsAddUp ==
  \A v \in Visitor \ torn :
    ~HalfDone(v) =>
      Cardinality(inside[v]) = IF visitor[v].status = "CHECKED_IN" THEN 1 ELSE 0

(* A pass that was used, refused, cancelled or has expired admits no one.  *)
DeadPassesStayDead ==
  [][\A v \in Visitor \ torn' :
       visitor[v].status \in Final => visitor'[v].status = visitor[v].status]_vars
=============================================================================
