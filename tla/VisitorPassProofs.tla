------------------------- MODULE VisitorPassProofs -------------------------
(***************************************************************************)
(* Proofs about VisitorPass, for any visitors, requests, slots and visits. *)
(***************************************************************************)
EXTENDS VisitorPass, FiniteSetTheorems, TLAPS

-----------------------------------------------------------------------------
(* A request at work serves a visitor who is registered; a decision was    *)
(* taken on an upcoming visit, and an owner decides on walk-ins only.      *)
DecisionKnows(c) ==
  c.pc = "deciding" =>
    /\ c.read \in Upcoming
    /\ c.to \notin {"none", "PENDING_OWNER_APPROVAL"}
    /\ c.read = "PENDING_OWNER_APPROVAL" => visitor[c.visitor].kind = "walkIn"

CallsKnow ==
  \A h \in Handler :
    call[h].pc # "idle" =>
      /\ call[h].visitor \in Visitor
      /\ visitor[call[h].visitor].status # "none"
      /\ DecisionKnows(call[h])

(* The open rows of a visitor; and whoever closes one found it CHECKED_IN, *)
(* and knows the only row there is.                                        *)
OpenRows(v) ==
  /\ HalfDone(v) => inside[v] = {} /\ visitor[v].status \in {"CHECKED_IN", "CHECKED_OUT"}
  /\ ~HalfDone(v) => IF visitor[v].status = "CHECKED_IN" THEN \E r \in 1 .. MaxVisits : inside[v] = {r}
                     ELSE inside[v] = {}

ClosesOnly(c) ==
  /\ c.pc \in {"closing", "closed"} => c.read = "CHECKED_IN"
  /\ c.pc = "closing" => /\ visitor[c.visitor].status \in {"CHECKED_IN", "CHECKED_OUT"}
                         /\ inside[c.visitor] \subseteq {c.row}

RowsAddUp ==
  /\ \A v \in Visitor \ torn : OpenRows(v)
  /\ \A h \in Handler : call[h].visitor \in Visitor \ torn => ClosesOnly(call[h])

(* Only walk-ins wait for an owner; nobody enters without registration.    *)
TableKnows ==
  \A v \in Visitor :
    /\ visitor[v].status = "PENDING_OWNER_APPROVAL" => visitor[v].kind = "walkIn"
    /\ visitor[v].status = "none" => inside[v] = {}

IInv == TypeOK /\ CallsKnow /\ TableKnows /\ RowsAddUp

-----------------------------------------------------------------------------
(* What a step does to the table when it only expires, and what a new      *)
(* request is.                                                             *)
LEMMA Expiring ==
  ASSUME TypeOK, NEW v \in Visitor
  PROVE  /\ Expired[v] \in VisitorRow
         /\ Expired[v].kind = visitor[v].kind
         /\ visitor[v].status \notin Upcoming => Expired[v] = visitor[v]
         /\ \/ Expired[v] = visitor[v]
            \/ Expired[v].status = "EXPIRED" /\ visitor[v].status \in Upcoming
<1>1. CASE Stale(v)
  <2>1. Expired[v] = [visitor[v] EXCEPT !.status = "EXPIRED"] /\ visitor[v].status \in Upcoming
    BY <1>1 DEF Expired, Stale, Upcoming
  <2> QED  BY <2>1 DEF TypeOK, VisitorRow, Status
<1>2. CASE ~Stale(v)
  BY <1>2 DEF TypeOK, Expired
<1> QED  BY <1>1, <1>2

Fades == visitor' = visitor \/ visitor' = Expired

LEMMA Fading ==
  ASSUME TypeOK, Fades
  PROVE  /\ visitor' \in [Visitor -> VisitorRow]
         /\ \A v \in Visitor :
              /\ visitor'[v].kind = visitor[v].kind
              /\ \/ visitor'[v] = visitor[v]
                 \/ visitor'[v].status = "EXPIRED" /\ visitor[v].status \in Upcoming
<1>1. CASE visitor' = visitor
  BY <1>1 DEF TypeOK
<1>2. CASE visitor' = Expired
  BY <1>2, Expiring DEF TypeOK, Expired
<1> QED  BY <1>1, <1>2 DEF Fades

LEMMA RequestsAreCalls ==
  /\ Idle \in Call
  /\ \A v \in Visitor, read \in Status, to \in Status : Decision(v, read, to) \in Call
  /\ \A v \in Visitor, read \in Status, row \in 1 .. MaxVisits : CheckOut(v, read, row) \in Call
  BY VisitorAssumption DEF Idle, Decision, CheckOut, Call, Status

-----------------------------------------------------------------------------
(* Expiring visitors disturbs no request and no open row: who is on site   *)
(* or has a decision's kind keeps them.                                    *)
LEMMA FadingKeeps ==
  ASSUME IInv, Fades, UNCHANGED <<inside, torn>>,
         NEW v \in Visitor
  PROVE  /\ visitor[v].status # "none" => visitor'[v].status # "none"
         /\ visitor'[v].kind = visitor[v].kind
         /\ visitor[v].status \in {"CHECKED_IN", "CHECKED_OUT"} => visitor'[v].status = visitor[v].status
         /\ visitor'[v].status = "CHECKED_IN" => visitor[v].status = "CHECKED_IN"
<1>1. \/ visitor'[v] = visitor[v]
      \/ visitor'[v].status = "EXPIRED" /\ visitor[v].status \in Upcoming
  BY Fading DEF IInv
<1>2. visitor'[v].kind = visitor[v].kind
  BY Fading DEF IInv
<1> QED  BY <1>1, <1>2 DEF Upcoming

LEMMA BeginKeeps ==
  ASSUME IInv, Fades, UNCHANGED <<inside, visits, overdue, torn, unchecked>>, lapsed' \subseteq Visitor,
         NEW h \in Handler, NEW c \in Call,
         call[h] = Idle, call' = [call EXCEPT ![h] = c],
         c.pc \in {"deciding", "closing"},
         c.visitor \in Visitor, visitor[c.visitor].status # "none", DecisionKnows(c),
         c.visitor \notin torn => ClosesOnly(c)
  PROVE  IInv'
<1>1. TypeOK'
  BY Fading DEF IInv, TypeOK
<1>2. \A g \in Handler : call'[g] = IF g = h THEN c ELSE call[g]
  BY DEF IInv, TypeOK
<1>3. ASSUME NEW g \in Handler, call'[g].pc # "idle"
      PROVE  /\ call'[g].visitor \in Visitor
             /\ visitor'[call'[g].visitor].status # "none"
             /\ DecisionKnows(call[g])' 
  <2> DEFINE d == call'[g]
  <2>1. d.visitor \in Visitor /\ visitor[d.visitor].status # "none" /\ DecisionKnows(d)
    BY <1>2, <1>3 DEF IInv, CallsKnow
  <2>2. visitor'[d.visitor].status # "none" /\ visitor'[d.visitor].kind = visitor[d.visitor].kind
    BY <2>1, FadingKeeps
  <2> QED  BY <2>1, <2>2 DEF DecisionKnows
<1>4. CallsKnow'
  BY <1>3 DEF CallsKnow
<1>8. TableKnows'
  BY Fading DEF IInv, TableKnows
<1>5. \A v \in Visitor : HalfDone(v)' <=> HalfDone(v)
  BY <1>2 DEF HalfDone, Idle
<1>6. ASSUME NEW v \in Visitor \ torn  PROVE OpenRows(v)'
  BY <1>5, <1>6, FadingKeeps DEF OpenRows, IInv, RowsAddUp
<1>7. ASSUME NEW g \in Handler, call'[g].visitor \in Visitor \ torn  PROVE ClosesOnly(call[g])'
  <2>1. ClosesOnly(call'[g])
    BY <1>2, <1>7 DEF IInv, RowsAddUp
  <2> QED  BY <2>1, <1>7, FadingKeeps DEF ClosesOnly
<1> QED
  BY <1>1, <1>4, <1>6, <1>7, <1>8 DEF IInv, RowsAddUp

LEMMA BeginDecisionKeeps ==
  ASSUME IInv, Fades, UNCHANGED <<inside, visits, overdue, torn, unchecked>>, lapsed' \subseteq Visitor,
         NEW h \in Handler, NEW v \in Visitor, NEW from \in Upcoming, NEW to \in Status \ {"none", "PENDING_OWNER_APPROVAL"},
         Begin(h, Decision(v, from, to)),
         visitor[v].status # "none",
         from = "PENDING_OWNER_APPROVAL" => visitor[v].kind = "walkIn"
  PROVE  IInv'
<1> DEFINE c == Decision(v, from, to)
<1>1. c \in Call
  BY RequestsAreCalls DEF Upcoming, Status
<1>2. c.pc = "deciding" /\ c.visitor = v /\ DecisionKnows(c) /\ ClosesOnly(c)
  BY DEF Decision, DecisionKnows, ClosesOnly
<1>3. call[h] = Idle /\ call' = [call EXCEPT ![h] = c]
  BY DEF Begin
<1> HIDE DEF c
<1> QED  BY <1>1, <1>2, <1>3, BeginKeeps

LEMMA FreshDecisionKeeps ==
  ASSUME IInv, NEW h \in Handler, NEW v \in Visitor, NEW from \in Upcoming,
         NEW to \in Status \ {"none", "PENDING_OWNER_APPROVAL"},
         BeginFresh(h, v, from, to) \/ BeginLate(h, v, from),
         from = "PENDING_OWNER_APPROVAL" => visitor[v].kind = "walkIn"
  PROVE  IInv'
<1>1. visitor[v].status # "none"
  BY Expiring DEF BeginFresh, BeginLate, Upcoming, IInv
<1>2. lapsed' \subseteq Visitor
  BY DEF BeginFresh, BeginLate, IInv, TypeOK
<1>3. CASE BeginFresh(h, v, from, to)
  BY <1>1, <1>2, <1>3, BeginDecisionKeeps DEF BeginFresh, Fades
<1>4. CASE BeginLate(h, v, from)
  BY <1>1, <1>2, <1>4, BeginDecisionKeeps DEF BeginLate, Fades, Status
<1> QED  BY <1>3, <1>4

LEMMA AsIsDecisionKeeps ==
  ASSUME IInv, NEW h \in Handler, NEW v \in Visitor, NEW to \in Status \ {"none", "PENDING_OWNER_APPROVAL"},
         BeginAsIs(h, v, to), visitor[v].status \in Upcoming,
         visitor[v].status = "PENDING_OWNER_APPROVAL" => visitor[v].kind = "walkIn"
  PROVE  IInv'
<1>1. visitor[v].status # "none"
  BY DEF Upcoming
<1>2. lapsed' \subseteq Visitor
  BY DEF BeginAsIs, IInv, TypeOK
<1> QED
  BY <1>1, <1>2, BeginDecisionKeeps DEF BeginAsIs, Fades

(* An open row belongs to a visitor who is CHECKED_IN and not half done.   *)
LEMMA CheckOutKeeps ==
  ASSUME IInv, Fades, UNCHANGED <<inside, visits, overdue, torn, unchecked>>, lapsed' \subseteq Visitor,
         NEW h \in Handler, NEW v \in Visitor, NEW read \in Status, NEW row \in 1 .. MaxVisits,
         Begin(h, CheckOut(v, read, row)),
         LatestRow(v, row),
         visitor[v].status = "CHECKED_IN" => read = "CHECKED_IN"
  PROVE  IInv'
<1> DEFINE c == CheckOut(v, read, row)
<1>1. c \in Call
  BY RequestsAreCalls
<1>2. /\ c.pc = "closing" /\ c.visitor = v /\ c.row = row /\ c.read = read
      /\ DecisionKnows(c)
  BY DEF CheckOut, DecisionKnows
<1>3. call[h] = Idle /\ call' = [call EXCEPT ![h] = c]
  BY DEF Begin
<1>4. ASSUME v \notin torn  PROVE ClosesOnly(c)
  <2>1. OpenRows(v) /\ row \in inside[v]
    BY <1>4 DEF IInv, RowsAddUp, LatestRow
  <2>2. visitor[v].status = "CHECKED_IN" /\ inside[v] \subseteq {row}
    BY <2>1 DEF OpenRows
  <2> QED  BY <1>2, <2>2 DEF ClosesOnly
<1>5. visitor[v].status # "none"
  BY DEF IInv, TableKnows, LatestRow
<1> HIDE DEF c
<1> QED  BY <1>1, <1>2, <1>3, <1>4, <1>5, BeginKeeps

-----------------------------------------------------------------------------
Beginning(h, v) ==
  \/ ApproveOvernight(h, v) \/ Approve(h, v) \/ Reject(h, v)
  \/ ApproveWalkInByGuard(h, v) \/ AcknowledgeWalkIn(h, v) \/ Cancel(h, v) \/ CheckIn(h, v)
  \/ \E row \in 1 .. MaxVisits : CheckOutByPass(h, v, row) \/ AutoClose(h, v, row)

LEMMA BeginningKeeps ==
  ASSUME IInv, NEW h \in Handler, NEW v \in Visitor, Beginning(h, v)
  PROVE  IInv'
<1>1. CASE ApproveOvernight(h, v)
  BY <1>1, FreshDecisionKeeps DEF ApproveOvernight, Upcoming, Status
<1>2. CASE Approve(h, v)
  BY <1>2, FreshDecisionKeeps DEF Approve, Upcoming, Status
<1>3. CASE Reject(h, v)
  BY <1>3, FreshDecisionKeeps DEF Reject, Upcoming, Status
<1>4. CASE ApproveWalkInByGuard(h, v)
  BY <1>4, AsIsDecisionKeeps DEF ApproveWalkInByGuard, Upcoming, Status
<1>5. CASE AcknowledgeWalkIn(h, v)
  <2> DEFINE to == IF v \in lapsed THEN "EXPIRED" ELSE "CHECKED_IN"
  <2>1. BeginAsIs(h, v, to) /\ visitor[v].status = "APPROVED"
    BY <1>5 DEF AcknowledgeWalkIn
  <2>2. to \in Status \ {"none", "PENDING_OWNER_APPROVAL"} /\ "APPROVED" \in Upcoming
    BY DEF Status, Upcoming
  <2> HIDE DEF to
  <2> QED  BY <2>1, <2>2, AsIsDecisionKeeps
<1>6. CASE Cancel(h, v)
  <2>1. visitor[v].status = "PENDING_OWNER_APPROVAL" => visitor[v].kind = "walkIn"
    BY DEF IInv, TableKnows
  <2> QED  BY <1>6, <2>1, AsIsDecisionKeeps DEF Cancel, Cancels, Status
<1>7. CASE CheckIn(h, v)
  BY <1>7, FreshDecisionKeeps DEF CheckIn, Upcoming, Status
<1>8. ASSUME NEW row \in 1 .. MaxVisits, CheckOutByPass(h, v, row)
      PROVE  IInv'
  <2>1. /\ Expired[v].status \in Status
        /\ visitor[v].status = "CHECKED_IN" => Expired[v].status = "CHECKED_IN"
    BY Expiring DEF IInv, VisitorRow, Upcoming
  <2>2. lapsed' \subseteq Visitor
    BY <1>8 DEF CheckOutByPass, IInv, TypeOK
  <2> QED  BY <1>8, <2>1, <2>2, CheckOutKeeps DEF CheckOutByPass, Fades
<1>9. ASSUME NEW row \in 1 .. MaxVisits, AutoClose(h, v, row)
      PROVE  IInv'
  <2>1. lapsed' \subseteq Visitor
    BY <1>9 DEF AutoClose, IInv, TypeOK
  <2> QED  BY <1>9, <2>1, CheckOutKeeps DEF AutoClose, Fades, Status
<1> QED
  BY <1>1, <1>2, <1>3, <1>4, <1>5, <1>6, <1>7, <1>8, <1>9 DEF Beginning

-----------------------------------------------------------------------------
(* The steps that leave the requests alone.                                *)
LEMMA ExpireKeeps ==
  ASSUME IInv, Fades, UNCHANGED <<inside, visits, call, torn, unchecked>>,
         lapsed' \subseteq Visitor, overdue' \subseteq Visitor
  PROVE  IInv'
<1>1. TypeOK'
  BY Fading DEF IInv, TypeOK
<1>2. TableKnows'
  BY Fading DEF IInv, TableKnows
<1>3. CallsKnow'
  BY FadingKeeps DEF CallsKnow, DecisionKnows, IInv
<1>4. ASSUME NEW v \in Visitor \ torn  PROVE OpenRows(v)'
  <2>1. HalfDone(v)' <=> HalfDone(v)
    BY DEF HalfDone
  <2> QED  BY <1>4, <2>1, FadingKeeps DEF OpenRows, IInv, RowsAddUp
<1>5. ASSUME NEW g \in Handler, call[g].visitor \in Visitor \ torn  PROVE ClosesOnly(call[g])'
  BY <1>5, FadingKeeps DEF ClosesOnly, IInv, RowsAddUp
<1> QED
  BY <1>1, <1>2, <1>3, <1>4, <1>5 DEF IInv, RowsAddUp

(* Nobody works for a visitor who is not registered.                       *)
LEMMA RegisterKeeps ==
  ASSUME IInv, NEW v \in Visitor, NEW kind \in Kind,
         NEW status \in Status \ {"none"}, Register(v, kind, status),
         status = "PENDING_OWNER_APPROVAL" => kind = "walkIn",
         UNCHANGED <<lapsed, overdue, call, torn>>,
         unchecked' \subseteq Visitor,
         \/ UNCHANGED <<inside, visits>> /\ status # "CHECKED_IN"
         \/ /\ status = "CHECKED_IN" /\ 1 \in 1 .. MaxVisits
            /\ visits' = [visits EXCEPT ![v] = 1]
            /\ inside' = [inside EXCEPT ![v] = {1}]
  PROVE  IInv'
<1>1. \A w \in Visitor : /\ visitor'[w] = IF w = v THEN [kind |-> kind, status |-> status] ELSE visitor[w]
                         /\ w # v => inside'[w] = inside[w]
  BY DEF Register, IInv, TypeOK
<1>2. TypeOK'
  BY VisitorAssumption DEF Register, IInv, TypeOK, VisitorRow
<1>3. visitor[v].status = "none" /\ inside[v] = {}
  BY DEF Register, IInv, TableKnows
<1>4. \A h \in Handler : call[h].pc # "idle" => call[h].visitor # v
  BY <1>3 DEF IInv, CallsKnow
<1>5. TableKnows'
  BY <1>1, <1>3 DEF IInv, TableKnows
<1>6. CallsKnow'
  BY <1>1, <1>4 DEF IInv, CallsKnow, DecisionKnows
<1>7. ASSUME NEW w \in Visitor \ torn  PROVE OpenRows(w)'
  <2>1. HalfDone(w)' <=> HalfDone(w)
    BY DEF HalfDone
  <2>2. OpenRows(w)
    BY <1>7 DEF IInv, RowsAddUp
  <2>3. ~HalfDone(v)
    BY <1>4 DEF HalfDone
  <2>4. CASE w = v
    <3>1. inside'[v] = IF status = "CHECKED_IN" THEN {1} ELSE {}
      BY <1>3 DEF IInv, TypeOK
    <3> QED  BY <2>1, <2>3, <2>4, <3>1, <1>1 DEF OpenRows
  <2>5. CASE w # v
    BY <2>1, <2>2, <2>5, <1>1 DEF OpenRows
  <2> QED  BY <2>4, <2>5
<1>8. ASSUME NEW g \in Handler, call[g].visitor \in Visitor \ torn  PROVE ClosesOnly(call[g])'
  <2>1. ClosesOnly(call[g])
    BY <1>8 DEF IInv, RowsAddUp
  <2> QED  BY <2>1, <1>1, <1>4, <1>8 DEF ClosesOnly
<1> QED
  BY <1>2, <1>5, <1>6, <1>7, <1>8 DEF IInv, RowsAddUp

-----------------------------------------------------------------------------
(* The steps that write for a visitor and end.  A decision that is not     *)
(* outdated finds an upcoming visit, whose visitor has no open row and     *)
(* nobody about to close one.                                              *)
LEMMA DecideReads ==
  ASSUME IInv, NEW h \in Handler, Decide(h), NEW v, v = call[h].visitor
  PROVE  /\ v \in Visitor
         /\ visitor[v].status # "none"
         /\ call[h].to \in Status \ {"none", "PENDING_OWNER_APPROVAL"}
         /\ visitor' = [visitor EXCEPT ![v].status = call[h].to]
         /\ torn \subseteq torn'
         /\ v \notin torn' =>
              /\ visitor[v].status \in Upcoming
              /\ visitor[v].status = call[h].read
              /\ inside[v] = {}
              /\ \A g \in Handler : call[g].visitor = v => call[g].pc \notin {"closing", "closed"}
<1>1. /\ v \in Visitor /\ visitor[v].status # "none"
      /\ DecisionKnows(call[h]) /\ call[h].pc = "deciding" /\ call[h].to \in Status
  BY DEF IInv, CallsKnow, Decide, TypeOK, Call
<1>2. visitor' = [visitor EXCEPT ![v].status = call[h].to] /\ torn \subseteq torn'
  BY DEF Decide
<1>3. ASSUME v \notin torn'
      PROVE  /\ visitor[v].status \in Upcoming
             /\ visitor[v].status = call[h].read
             /\ inside[v] = {}
             /\ \A g \in Handler : call[g].visitor = v => call[g].pc \notin {"closing", "closed"}
  <2>1. v \notin torn /\ visitor[v].status = call[h].read
    BY <1>3 DEF Decide, Outdated
  <2>2. visitor[v].status \in Upcoming
    BY <2>1, <1>1 DEF DecisionKnows
  <2>3. OpenRows(v)
    BY <1>1, <2>1 DEF IInv, RowsAddUp
  <2>4. ~HalfDone(v) /\ inside[v] = {}
    BY <2>2, <2>3 DEF OpenRows, Upcoming
  <2>5. \A g \in Handler : call[g].visitor = v => call[g].pc # "closing"
    BY <1>1, <2>1, <2>2 DEF IInv, RowsAddUp, ClosesOnly, Upcoming
  <2> QED  BY <2>1, <2>2, <2>4, <2>5 DEF HalfDone
<1> QED
  BY <1>1, <1>2, <1>3 DEF DecisionKnows

LEMMA DecideTypes ==
  ASSUME IInv, NEW h \in Handler, Decide(h)
  PROVE  TypeOK'
<1> DEFINE v == call[h].visitor
<1> DEFINE to == call[h].to
<1>1. v \in Visitor /\ to \in Status /\ visitor' = [visitor EXCEPT ![v].status = to]
  BY DecideReads
<1>2. visitor' \in [Visitor -> VisitorRow]
  BY <1>1 DEF IInv, TypeOK, VisitorRow
<1>3. call' \in [Handler -> Call]
  BY RequestsAreCalls DEF Decide, IInv, TypeOK
<1>4. /\ lapsed' \subseteq Visitor /\ torn' \subseteq Visitor /\ unchecked' \subseteq Visitor
      /\ overdue' \subseteq Visitor
  BY <1>1 DEF Decide, Entered, IInv, TypeOK
<1>5. inside' \in [Visitor -> SUBSET (1 .. MaxVisits)] /\ visits' \in [Visitor -> 0 .. MaxVisits]
  <2>1. CASE Enters(to)
    <3>1. visits[v] \in 0 .. MaxVisits /\ visits[v] < MaxVisits /\ Entered(v)
      BY <1>1, <2>1 DEF Decide, IInv, TypeOK
    <3>2. visits[v] + 1 \in 1 .. MaxVisits
      BY <3>1, VisitorAssumption
    <3> HIDE DEF v, to
    <3> QED  BY <3>1, <3>2, <1>1, VisitorAssumption DEF Entered, IInv, TypeOK
  <2>2. CASE ~Enters(to)
    BY <2>2 DEF Decide, IInv, TypeOK
  <2> QED  BY <2>1, <2>2
<1> QED
  BY <1>2, <1>3, <1>4, <1>5 DEF TypeOK

LEMMA DecideKeeps ==
  ASSUME IInv, NEW h \in Handler, Decide(h)
  PROVE  IInv'
<1>0. PICK v, to : v = call[h].visitor /\ to = call[h].to
  OBVIOUS
<1>1. /\ v \in Visitor /\ visitor[v].status # "none"
      /\ to \notin {"none", "PENDING_OWNER_APPROVAL"}
      /\ visitor' = [visitor EXCEPT ![v].status = to] /\ torn \subseteq torn'
      /\ v \notin torn' =>
           /\ inside[v] = {}
           /\ \A g \in Handler : call[g].visitor = v => call[g].pc \notin {"closing", "closed"}
  BY <1>0, DecideReads
<1>2. \A w \in Visitor : /\ visitor'[w].kind = visitor[w].kind
                         /\ visitor'[w].status = IF w = v THEN to ELSE visitor[w].status
  BY <1>1 DEF IInv, TypeOK, VisitorRow
<1>3. \A w \in Visitor : w # v \/ to # "CHECKED_IN" => inside'[w] = inside[w]
  BY <1>0 DEF Decide, Enters, Entered, IInv, TypeOK
<1>4. \A g \in Handler : call'[g] = IF g = h THEN Idle ELSE call[g]
  BY DEF Decide, IInv, TypeOK
<1>5. to = "CHECKED_IN" => inside'[v] = inside[v] \cup {visits[v] + 1} /\ visits[v] + 1 \in 1 .. MaxVisits
  BY <1>0, <1>1, VisitorAssumption DEF Decide, Enters, Entered, IInv, TypeOK
<1>6. TypeOK'
  BY DecideTypes
<1>7. TableKnows'
  BY <1>1, <1>2, <1>3 DEF IInv, TableKnows
<1>8. ASSUME NEW g \in Handler, call'[g].pc # "idle"
      PROVE  /\ call'[g].visitor \in Visitor
             /\ visitor'[call'[g].visitor].status # "none"
             /\ DecisionKnows(call[g])'
  <2>1. call'[g] = call[g] /\ call[g].pc # "idle"
    BY <1>4, <1>8 DEF Idle
  <2> QED  BY <2>1, <1>1, <1>2 DEF IInv, CallsKnow, DecisionKnows
<1>9. CallsKnow'
  BY <1>8 DEF CallsKnow
<1>10. ASSUME NEW w \in Visitor \ torn'  PROVE OpenRows(w)'
  <2>1. w \notin torn /\ OpenRows(w)
    BY <1>1, <1>10 DEF IInv, RowsAddUp
  <2>2. CASE w = v
    <3>1. ~HalfDone(v)'
      BY <1>1, <1>4, <1>10, <2>2 DEF HalfDone, Idle
    <3> QED  BY <3>1, <2>2, <1>1, <1>2, <1>3, <1>5, <1>10 DEF OpenRows
  <2>3. CASE w # v
    <3>1. HalfDone(w)' <=> HalfDone(w)
      <4>1. call[h].visitor # w
        BY <2>3, <1>0
      <4>2. Idle.pc # "closed"
        BY DEF Idle
      <4> QED  BY <4>1, <4>2, <1>4 DEF HalfDone
    <3> QED  BY <3>1, <2>1, <2>3, <1>2, <1>3 DEF OpenRows
  <2> QED  BY <2>2, <2>3
<1>11. ASSUME NEW g \in Handler, call'[g].visitor \in Visitor \ torn'  PROVE ClosesOnly(call[g])'
  <2>1. CASE g = h
    BY <2>1, <1>4 DEF ClosesOnly, Idle
  <2>2. CASE g # h
    <3>1. call'[g] = call[g] /\ ClosesOnly(call[g])
      BY <1>1, <1>4, <1>11, <2>2 DEF IInv, RowsAddUp
    <3> QED  BY <3>1, <1>1, <1>2, <1>3, <1>11 DEF ClosesOnly
  <2> QED  BY <2>1, <2>2
<1> QED
  BY <1>6, <1>7, <1>9, <1>10, <1>11 DEF IInv, RowsAddUp

-----------------------------------------------------------------------------
(* A request that has closed its row, all else as before.                  *)
Closed(c) == [c EXCEPT !.pc = "closed"]

LEMMA ClosedIsACall ==
  ASSUME NEW c \in Call
  PROVE  /\ Closed(c) \in Call
         /\ Closed(c).pc = "closed"
         /\ Closed(c).visitor = c.visitor
         /\ Closed(c).read = c.read
  BY DEF Closed, Call

LEMMA CloseRowKeeps ==
  ASSUME IInv, NEW h \in Handler, CloseRow(h)
  PROVE  IInv'
<1>0. PICK v : v = call[h].visitor
  OBVIOUS
<1>1. /\ call[h].pc = "closing" /\ v \in Visitor /\ visitor[v].status # "none"
      /\ call[h] \in Call
  BY <1>0 DEF CloseRow, IInv, TypeOK, CallsKnow
<1>2. \A g \in Handler : call'[g] = IF g = h THEN Closed(call[h]) ELSE call[g]
  BY DEF CloseRow, Closed, IInv, TypeOK
<1>3. /\ visitor' = visitor /\ torn \subseteq torn' /\ torn' \subseteq Visitor
      /\ inside' = [inside EXCEPT ![v] = @ \ {call[h].row}]
  BY <1>0, <1>1 DEF CloseRow, Closes, IInv, TypeOK
<1>4. TypeOK'
  <2>1. call' \in [Handler -> Call]
    <3>1. call' = [call EXCEPT ![h] = Closed(call[h])]
      BY DEF CloseRow, Closed, IInv, TypeOK
    <3> QED  BY <3>1, <1>1, ClosedIsACall DEF IInv, TypeOK
  <2>2. inside' \in [Visitor -> SUBSET (1 .. MaxVisits)]
    BY <1>1, <1>3 DEF IInv, TypeOK
  <2> QED  BY <2>1, <2>2, <1>3 DEF CloseRow, IInv, TypeOK
<1>5. TableKnows'
  BY <1>3 DEF IInv, TableKnows, TypeOK
<1>6. CallsKnow'
  BY <1>0, <1>1, <1>2, <1>3, ClosedIsACall DEF IInv, CallsKnow, DecisionKnows
<1>7. v \notin torn' => /\ visitor[v].status = "CHECKED_IN"
                       /\ call[h].read = "CHECKED_IN"
                       /\ inside'[v] = {}
  <2>1. v \notin torn' => v \notin torn /\ visitor[v].status = call[h].read
    BY <1>0 DEF CloseRow, Outdated
  <2>2. v \notin torn => ClosesOnly(call[h])
    BY <1>0, <1>1 DEF IInv, RowsAddUp
  <2> QED  BY <2>1, <2>2, <1>0, <1>1, <1>3 DEF ClosesOnly, IInv, TypeOK
<1>8. ASSUME NEW w \in Visitor \ torn'  PROVE OpenRows(w)'
  <2>1. CASE w = v
    <3>1. HalfDone(v)'
      BY <1>0, <1>1, <1>2, ClosedIsACall DEF HalfDone
    <3> QED  BY <3>1, <2>1, <1>3, <1>7, <1>8 DEF OpenRows
  <2>2. CASE w # v
    <3>1. HalfDone(w)' <=> HalfDone(w)
      BY <2>2, <1>0, <1>1, <1>2, ClosedIsACall DEF HalfDone
    <3>2. inside'[w] = inside[w] /\ OpenRows(w)
      BY <2>2, <1>3, <1>8 DEF IInv, RowsAddUp, TypeOK
    <3> QED  BY <3>1, <3>2, <1>3 DEF OpenRows
  <2> QED  BY <2>1, <2>2
<1>9. ASSUME NEW g \in Handler, call'[g].visitor \in Visitor \ torn'  PROVE ClosesOnly(call[g])'
  <2>1. CASE g = h
    BY <2>1, <1>0, <1>1, <1>2, <1>7, <1>9, ClosedIsACall DEF ClosesOnly
  <2>2. CASE g # h
    <3>1. call'[g] = call[g] /\ ClosesOnly(call[g])
      BY <2>2, <1>2, <1>3, <1>9 DEF IInv, RowsAddUp
    <3>2. inside'[call[g].visitor] \subseteq inside[call[g].visitor]
      BY <3>1, <1>3, <1>9 DEF IInv, TypeOK
    <3> QED  BY <3>1, <3>2, <1>3 DEF ClosesOnly
  <2> QED  BY <2>1, <2>2
<1> QED
  BY <1>4, <1>5, <1>6, <1>8, <1>9 DEF IInv, RowsAddUp

(* A request that ends, and at most leaves its visitor CHECKED_OUT.        *)
LEMMA EndKeeps ==
  ASSUME IInv, NEW h \in Handler, WriteCheckedOut(h) \/ Die(h)
  PROVE  IInv'
<1>0. PICK v : v = call[h].visitor
  OBVIOUS
<1>1. \A g \in Handler : call'[g] = IF g = h THEN Idle ELSE call[g]
  BY DEF WriteCheckedOut, Die, IInv, TypeOK
<1>2. call[h].pc = "closed" => v \in Visitor /\ visitor[v].status # "none"
  BY <1>0 DEF IInv, CallsKnow
<1>3. /\ torn \subseteq torn' /\ torn' \subseteq Visitor /\ inside' = inside
      /\ \A w \in Visitor \ {v} : visitor'[w] = visitor[w]
      /\ visitor' \in [Visitor -> VisitorRow]
      /\ \A w \in Visitor : visitor'[w].kind = visitor[w].kind
  BY <1>0, <1>2 DEF WriteCheckedOut, Die, IInv, TypeOK, VisitorRow, Status
<1>4. CASE WriteCheckedOut(h)
  <2>1. v \in Visitor /\ visitor'[v].status = "CHECKED_OUT" /\ visitor[v].status # "none"
    BY <1>0, <1>2, <1>4 DEF WriteCheckedOut, IInv, TypeOK, VisitorRow
  <2>2. TypeOK'
    BY <1>3, <1>4, RequestsAreCalls DEF WriteCheckedOut, IInv, TypeOK
  <2>3. TableKnows'
    BY <2>1, <1>3 DEF IInv, TableKnows
  <2>4. CallsKnow'
    BY <2>1, <1>1, <1>3 DEF IInv, CallsKnow, DecisionKnows, Idle
  <2>5. v \notin torn' => v \notin torn /\ HalfDone(v) /\ inside[v] = {}
    BY <1>0, <1>3, <1>4, <2>1 DEF WriteCheckedOut, HalfDone, IInv, RowsAddUp, OpenRows
  <2>6. ASSUME NEW w \in Visitor \ torn'  PROVE OpenRows(w)'
    <3>1. CASE w = v
      BY <3>1, <2>1, <2>5, <2>6, <1>3 DEF OpenRows
    <3>2. CASE w # v
      <4>1. HalfDone(w)' <=> HalfDone(w)
        BY <3>2, <1>0, <1>1 DEF HalfDone, Idle
      <4> QED  BY <4>1, <3>2, <2>6, <1>3 DEF OpenRows, IInv, RowsAddUp
    <3> QED  BY <3>1, <3>2
  <2>7. ASSUME NEW g \in Handler, call'[g].visitor \in Visitor \ torn'  PROVE ClosesOnly(call[g])'
    <3>1. CASE g = h
      BY <3>1, <1>1 DEF ClosesOnly, Idle
    <3>2. CASE g # h
      BY <3>2, <2>1, <2>7, <1>1, <1>3 DEF ClosesOnly, IInv, RowsAddUp
    <3> QED  BY <3>1, <3>2
  <2> QED  BY <2>2, <2>3, <2>4, <2>6, <2>7 DEF IInv, RowsAddUp
<1>5. CASE Die(h)
  <2>1. TypeOK'
    BY <1>3, <1>5, RequestsAreCalls DEF Die, IInv, TypeOK
  <2>2. visitor' = visitor
    BY <1>5 DEF Die
  <2>3. TableKnows' /\ CallsKnow'
    BY <2>2, <1>1, <1>3 DEF IInv, TableKnows, CallsKnow, DecisionKnows, Idle
  <2>4. ASSUME NEW w \in Visitor \ torn'  PROVE OpenRows(w)'
    <3>1. HalfDone(w)' <=> HalfDone(w)
      BY <1>1, <1>5, <2>4 DEF HalfDone, Idle, Die
    <3> QED  BY <3>1, <2>2, <2>4, <1>3 DEF OpenRows, IInv, RowsAddUp
  <2>5. ASSUME NEW g \in Handler, call'[g].visitor \in Visitor \ torn'  PROVE ClosesOnly(call[g])'
    <3>1. CASE g = h
      BY <3>1, <1>1 DEF ClosesOnly, Idle
    <3>2. CASE g # h
      BY <3>2, <2>2, <2>5, <1>1, <1>3 DEF ClosesOnly, IInv, RowsAddUp
    <3> QED  BY <3>1, <3>2
  <2> QED  BY <2>1, <2>3, <2>4, <2>5 DEF IInv, RowsAddUp
<1> QED  BY <1>4, <1>5

-----------------------------------------------------------------------------
(* Every step, by who takes it.                                            *)
Registering(v) ==
  \/ CreateDay(v) \/ CreateWalkIn(v) \/ CreateOnSite(v)
  \/ \E holiday \in BOOLEAN : CreateOvernight(v, holiday)

TimePassing(v) == Lapse(v) \/ Overstay(v)

LEMMA NextCases ==
  ASSUME Next
  PROVE  \/ \E v \in Visitor : Registering(v) \/ TimePassing(v)
         \/ \E h \in Handler, v \in Visitor : Beginning(h, v)
         \/ \E h \in Handler : Decide(h) \/ CloseRow(h) \/ WriteCheckedOut(h) \/ Die(h)
         \/ ExpireStale
  BY DEF Next, Registering, TimePassing, Beginning

LEMMA RegisteringKeeps ==
  ASSUME IInv, NEW v \in Visitor, Registering(v)
  PROVE  IInv'
<1>1. unchecked \subseteq Visitor
  BY DEF IInv, TypeOK
<1>2. CASE CreateDay(v)
  BY <1>1, <1>2, RegisterKeeps DEF CreateDay, Kind, Status
<1>3. CASE CreateWalkIn(v)
  BY <1>1, <1>3, RegisterKeeps DEF CreateWalkIn, Kind, Status
<1>4. CASE CreateOnSite(v)
  <2>1. 1 \in 1 .. MaxVisits
    BY <1>4, VisitorAssumption DEF CreateOnSite
  <2> QED  BY <1>1, <1>4, <2>1, RegisterKeeps DEF CreateOnSite, Kind, Status
<1>5. ASSUME NEW holiday \in BOOLEAN, CreateOvernight(v, holiday)
      PROVE  IInv'
  <2> DEFINE status == IF holiday THEN "APPROVED" ELSE "PENDING_MANAGEMENT_APPROVAL"
  <2>1. status \in Status \ {"none"} /\ status \notin {"PENDING_OWNER_APPROVAL", "CHECKED_IN"}
    BY DEF Status
  <2>2. Register(v, "overnight", status) /\ unchecked' \subseteq Visitor
    BY <1>1, <1>5 DEF CreateOvernight
  <2>3. "overnight" \in Kind /\ UNCHANGED <<lapsed, overdue, call, torn>> /\ UNCHANGED <<inside, visits>>
    BY <1>5 DEF CreateOvernight, Kind
  <2> HIDE DEF status
  <2> QED  BY <2>1, <2>2, <2>3, RegisterKeeps
<1> QED  BY <1>2, <1>3, <1>4, <1>5 DEF Registering

LEMMA NextKeeps == IInv /\ [Next]_vars => IInv'
<1> SUFFICES ASSUME IInv, [Next]_vars  PROVE IInv'
  OBVIOUS
<1>1. ASSUME NEW v \in Visitor, TimePassing(v)  PROVE IInv'
  <2>1. lapsed' \subseteq Visitor /\ overdue' \subseteq Visitor
    BY <1>1 DEF TimePassing, Lapse, Overstay, IInv, TypeOK
  <2> QED  BY <1>1, <2>1, ExpireKeeps DEF TimePassing, Lapse, Overstay, Fades
<1>2. CASE ExpireStale
  <2>1. lapsed' \subseteq Visitor /\ overdue' \subseteq Visitor
    BY <1>2 DEF ExpireStale, IInv, TypeOK
  <2> QED  BY <1>2, <2>1, ExpireKeeps DEF ExpireStale, Fades
<1>3. CASE UNCHANGED vars
  <2>1. lapsed' \subseteq Visitor /\ overdue' \subseteq Visitor
    BY <1>3 DEF vars, IInv, TypeOK
  <2> QED  BY <1>3, <2>1, ExpireKeeps DEF vars, Fades
<1> QED
  BY <1>1, <1>2, <1>3, NextCases, RegisteringKeeps, BeginningKeeps, DecideKeeps, CloseRowKeeps,
     EndKeeps

LEMMA InitHolds == Init => IInv
<1> SUFFICES ASSUME Init  PROVE IInv
  OBVIOUS
<1>1. TypeOK
  BY RequestsAreCalls, VisitorAssumption DEF Init, TypeOK, VisitorRow, Kind, Status
<1>2. CallsKnow /\ TableKnows
  BY DEF Init, CallsKnow, TableKnows, Idle
<1>3. RowsAddUp
  BY DEF Init, RowsAddUp, OpenRows, ClosesOnly, HalfDone, Idle
<1> QED  BY <1>1, <1>2, <1>3 DEF IInv

(* The inductive invariant holds of every behaviour.                       *)
THEOREM VisitsInvariance == Spec => []IInv
<1> QED  BY InitHolds, NextKeeps, PTL DEF Spec

(* Visitors, their check-in rows and the requests keep their types.        *)
THEOREM VisitsTypeCorrect == Spec => []TypeOK
<1>1. IInv => TypeOK
  BY DEF IInv
<1> QED  BY <1>1, VisitsInvariance, PTL

(* Who is on site has one open check-in row and nobody else has any, while *)
(* requests, sweeps and deaths interleave, unless a write was outdated or  *)
(* stopped between the row and the visitor.                                *)
THEOREM VisitsAlwaysAddUp == Spec => []VisitsAddUp
<1>1. ASSUME IInv  PROVE VisitsAddUp
  <2>1. ASSUME NEW v \in Visitor \ torn, ~HalfDone(v)
        PROVE  Cardinality(inside[v]) = IF visitor[v].status = "CHECKED_IN" THEN 1 ELSE 0
    <3>1. OpenRows(v)
      BY <1>1 DEF IInv, RowsAddUp
    <3>2. CASE visitor[v].status = "CHECKED_IN"
      BY <2>1, <3>1, <3>2, FS_Singleton DEF OpenRows
    <3>3. CASE visitor[v].status # "CHECKED_IN"
      BY <2>1, <3>1, <3>3, FS_EmptySet DEF OpenRows
    <3> QED  BY <3>2, <3>3
  <2> QED  BY <2>1 DEF VisitsAddUp
<1> QED  BY <1>1, VisitsInvariance, PTL

-----------------------------------------------------------------------------
(* What becomes of one visitor's status in a step: a registration starts   *)
(* it, requests begin with a sweep at most, and a write by id that is not  *)
(* outdated takes it from where the request read it.                       *)
StatusMoves(v) ==
  \/ visitor'[v] = visitor[v]
  \/ visitor[v].status = "none" /\ Registering(v)
  \/ /\ visitor'[v].kind = visitor[v].kind
     /\ \/ visitor[v].status \in Upcoming
        \/ visitor[v].status = "CHECKED_IN" /\ visitor'[v].status = "CHECKED_OUT"
     /\ visitor[v].status = "PENDING_OWNER_APPROVAL" => visitor[v].kind = "walkIn"

LEMMA StatusStep ==
  ASSUME IInv, [Next]_vars, NEW v \in Visitor \ torn'
  PROVE  StatusMoves(v)
<1>1. visitor[v].status = "PENDING_OWNER_APPROVAL" => visitor[v].kind = "walkIn"
  BY DEF IInv, TableKnows
<1>2. CASE Fades
  BY <1>1, <1>2, Fading DEF StatusMoves, IInv
<1>3. ASSUME NEW w \in Visitor, Registering(w)  PROVE StatusMoves(v)
  <2>1. /\ visitor[w].status = "none"
        /\ \E kind, status : visitor' = [visitor EXCEPT ![w] = [kind |-> kind, status |-> status]]
    BY <1>3 DEF Registering, CreateDay, CreateWalkIn, CreateOnSite, CreateOvernight, Register
  <2>2. w # v => visitor'[v] = visitor[v]
    BY <2>1 DEF IInv, TypeOK
  <2> QED  BY <1>3, <2>1, <2>2 DEF StatusMoves
<1>4. ASSUME NEW h \in Handler, Decide(h)  PROVE StatusMoves(v)
  <2>0. PICK w : w = call[h].visitor
    OBVIOUS
  <2>1. /\ w \in Visitor
        /\ visitor' = [visitor EXCEPT ![w].status = call[h].to]
        /\ w \notin torn' => visitor[w].status \in Upcoming
    BY <1>4, <2>0, DecideReads
  <2>2. CASE w = v
    BY <2>1, <2>2, <1>1 DEF StatusMoves, IInv, TypeOK, VisitorRow
  <2>3. CASE w # v
    BY <2>1, <2>3 DEF StatusMoves, IInv, TypeOK
  <2> QED  BY <2>2, <2>3
<1>5. ASSUME NEW h \in Handler, WriteCheckedOut(h)  PROVE StatusMoves(v)
  <2>0. PICK w : w = call[h].visitor
    OBVIOUS
  <2>1. /\ visitor' = [visitor EXCEPT ![w].status = "CHECKED_OUT"]
        /\ call[h].pc = "closed"
        /\ w \notin torn' => w \notin torn /\ visitor[w].status = call[h].read
    BY <1>5, <2>0 DEF WriteCheckedOut, Outdated
  <2>2. CASE w = v
    <3>1. visitor[v].status = "CHECKED_IN"
      BY <2>0, <2>1, <2>2 DEF IInv, RowsAddUp, ClosesOnly
    <3> QED  BY <3>1, <2>1, <2>2, <1>1 DEF StatusMoves, IInv, TypeOK, VisitorRow
  <2>3. CASE w # v
    BY <2>1, <2>3 DEF StatusMoves, IInv, TypeOK
  <2> QED  BY <2>2, <2>3
<1>6. CASE ExpireStale \/ UNCHANGED vars
  BY <1>2, <1>6 DEF ExpireStale, vars, Fades
<1>7. ASSUME NEW h \in Handler, CloseRow(h) \/ Die(h)  PROVE Fades
  BY <1>7 DEF CloseRow, Die, Fades
<1>8. ASSUME NEW w \in Visitor, TimePassing(w)  PROVE Fades
  BY <1>8 DEF TimePassing, Lapse, Overstay, Fades
<1>9. ASSUME NEW h \in Handler, NEW w \in Visitor, Beginning(h, w)  PROVE Fades
  BY <1>9 DEF Beginning, ApproveOvernight, Approve, Reject, ApproveWalkInByGuard, AcknowledgeWalkIn,
     Cancel, CheckIn, CheckOutByPass, AutoClose, BeginFresh, BeginLate, BeginAsIs, Fades
<1> QED
  BY <1>2, <1>3, <1>4, <1>5, <1>6, <1>7, <1>8, <1>9, NextCases

(* A pass that was used, refused, cancelled or has expired admits no one,  *)
(* unless a request wrote over what it had not read.                       *)
THEOREM DeadPassesStayDeadForever == Spec => DeadPassesStayDead
<1>1. ASSUME IInv, [Next]_vars
      PROVE  \A v \in Visitor \ torn' :
               visitor[v].status \in Final => visitor'[v].status = visitor[v].status
  BY <1>1, StatusStep DEF StatusMoves, Final, Upcoming
<1> QED  BY <1>1, VisitsInvariance, PTL DEF Spec, DeadPassesStayDead

-----------------------------------------------------------------------------
(* Slots that count: a step adds a visitor to them only by a registration  *)
(* that found one free.                                                    *)
Counted == Occupying \ (unchecked \cup torn)

LEMMA SlotTaken ==
  ASSUME IInv, [Next]_vars
  PROVE  \/ Counted' \subseteq Counted
         \/ SlotsLeft /\ \E v \in Visitor : Counted' \subseteq Occupying \cup {v}
<1>1. torn \subseteq torn' /\ unchecked \subseteq unchecked'
  BY NextCases DEF Registering, CreateDay, CreateWalkIn, CreateOnSite, CreateOvernight, TimePassing,
     Lapse, Overstay, Beginning, ApproveOvernight, Approve, Reject, ApproveWalkInByGuard,
     AcknowledgeWalkIn, Cancel, CheckIn, CheckOutByPass, AutoClose, BeginFresh, BeginLate, BeginAsIs, Decide,
     CloseRow, WriteCheckedOut, Die, ExpireStale, vars
<1>2. ASSUME NEW v \in Counted', v \notin Counted
      PROVE  Registering(v)
  <2>1. /\ v \in Visitor /\ v \notin torn' /\ v \notin Occupying
        /\ visitor'[v].kind = "overnight"
        /\ visitor'[v].status \in {"APPROVED", "PENDING_MANAGEMENT_APPROVAL", "CHECKED_IN"}
    BY <1>1, <1>2 DEF Counted, Occupying
  <2>2. StatusMoves(v)
    BY <2>1, StatusStep
  <2> QED  BY <2>1, <2>2 DEF StatusMoves, Occupying, Upcoming
<1>3. ASSUME NEW v \in Visitor, Registering(v), v \in Counted'
      PROVE  SlotsLeft /\ Counted' \subseteq Occupying \cup {v}
  <2>1. /\ visitor[v].status = "none"
        /\ \E kind, status : visitor' = [visitor EXCEPT ![v] = [kind |-> kind, status |-> status]]
    BY <1>3 DEF Registering, CreateDay, CreateWalkIn, CreateOnSite, CreateOvernight, Register
  <2>2. visitor'[v].kind = "overnight" /\ v \notin unchecked'
    BY <1>3 DEF Counted, Occupying
  <2>3. SlotsLeft
    BY <1>3, <2>2 DEF Registering, CreateDay, CreateWalkIn, CreateOnSite, CreateOvernight, Register,
       IInv, TypeOK
  <2>4. \A w \in Visitor : w # v => visitor'[w] = visitor[w]
    BY <2>1 DEF IInv, TypeOK
  <2> QED  BY <2>3, <2>4 DEF Counted, Occupying
<1> QED
  <2>1. Counted' \subseteq Visitor
    BY DEF Counted, Occupying
  <2> QED  BY <2>1, <1>2, <1>3

(* The overnight slots of a holiday hold for any number of visitors, slots *)
(* and requests, but for who registered for a working night or came back   *)
(* by an outdated write.                                                   *)
THEOREM SlotsAlwaysKept == Spec => []SlotsKept
<1>1. ASSUME NEW s, NEW t, s \subseteq t, t \subseteq Visitor
      PROVE  /\ Cardinality(s) \in Nat /\ Cardinality(t) \in Nat
             /\ Cardinality(s) <= Cardinality(t)
  BY <1>1, FS_Subset, FS_CardinalityType, VisitorAssumption
<1>2. Init => SlotsKept
  <2> SUFFICES ASSUME Init  PROVE SlotsKept
    OBVIOUS
  <2>1. Occupying = {}
    BY DEF Init, Occupying
  <2> QED  BY <2>1, FS_EmptySet, VisitorAssumption DEF SlotsKept
<1>3. ASSUME IInv, SlotsKept, [Next]_vars
      PROVE  SlotsKept'
  <2>1. Counted \subseteq Visitor /\ Counted' \subseteq Visitor /\ Occupying \subseteq Visitor
    BY DEF Counted, Occupying
  <2>2. CASE Counted' \subseteq Counted
    BY <1>1, <1>3, <2>1, <2>2, VisitorAssumption DEF SlotsKept, Counted
  <2>3. ASSUME SlotsLeft, NEW v \in Visitor, Counted' \subseteq Occupying \cup {v}
        PROVE  SlotsKept'
    <3>1. IsFiniteSet(Occupying)
      BY <2>1, FS_Subset, VisitorAssumption
    <3>2. Cardinality(Occupying \cup {v}) <= Cardinality(Occupying) + 1
      BY <3>1, FS_AddElement, FS_CardinalityType
    <3>3. Cardinality(Counted') <= Cardinality(Occupying \cup {v})
      BY <1>1, <2>1, <2>3
    <3>4. Cardinality(Occupying) < MaxSlots /\ Cardinality(Occupying) \in Nat
      BY <2>3, <3>1, FS_CardinalityType DEF SlotsLeft
    <3>5. Cardinality(Counted') \in Nat /\ Cardinality(Occupying \cup {v}) \in Nat
      BY <1>1, <2>1
    <3>6. Cardinality(Counted') <= MaxSlots
      BY <3>2, <3>3, <3>4, <3>5, VisitorAssumption
    <3> QED  BY <3>6 DEF SlotsKept, Counted
  <2> QED  BY <1>3, <2>2, <2>3, SlotTaken
<1>4. IInv /\ SlotsKept /\ [Next]_vars => SlotsKept'
  BY <1>3
<1> QED  BY <1>2, <1>4, VisitsInvariance, PTL DEF Spec

=============================================================================
