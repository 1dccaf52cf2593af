---------------------- MODULE AccessRestrictionProofs ----------------------
(***************************************************************************)
(* Proofs about AccessRestriction, for any units, requests, amounts owed   *)
(* and settings.                                                           *)
(***************************************************************************)
EXTENDS AccessRestriction, TLAPS

(* One webhook about a unit is under way at a time, and it says what the   *)
(* row says; without one the barrier does already.                         *)
NoticeIsTrue(u) ==
  /\ \A h \in Notifying(u) : call[h].restricted = row[u].active
  /\ \A h, g \in Notifying(u) : h = g
  /\ Notifying(u) = {} => barrier[u] = row[u].active

NoticesAreTrue == \A u \in Unit \ astray : NoticeIsTrue(u)

IInv == TypeOK /\ NoticesAreTrue /\ PaidIsUnlocked

-----------------------------------------------------------------------------
(* The call of a request that goes on: its next place, and what it keeps.  *)
Sending(c, rest, u, restricted) ==
  [c EXCEPT !.pc = "notifying", !.left = rest, !.unit = u, !.restricted = restricted]
Going(c) == [c EXCEPT !.pc = "writing", !.unit = Idle.unit, !.restricted = FALSE]

LEMMA IdleIsACall ==
  /\ Idle \in Call
  /\ Idle.pc = "idle" /\ Idle.left = {}
  /\ Idle.unit \in Unit
<1>1. (CHOOSE u \in Unit : TRUE) \in Unit
  BY RestrictionAssumption
<1>2. Cleared \in [Unit -> Restriction]
  BY DEF Cleared, Clear, Restriction
<1> DEFINE someone == CHOOSE u \in Unit : TRUE
<1> HIDE DEF someone
<1>3. Idle = [pc |-> "idle", min |-> 0, owing |-> {}, read |-> Cleared, left |-> {},
              unit |-> someone, restricted |-> FALSE]
  BY DEF Idle, someone
<1>4. someone \in Unit
  BY <1>1 DEF someone
<1> QED  BY <1>2, <1>3, <1>4 DEF Call

LEMMA SendingIsACall ==
  ASSUME NEW c \in Call, NEW rest \in SUBSET Unit, NEW u \in Unit, NEW restricted \in BOOLEAN
  PROVE  LET d == Sending(c, rest, u, restricted)
         IN  /\ d \in Call
             /\ d.pc = "notifying" /\ d.left = rest /\ d.unit = u /\ d.restricted = restricted
             /\ d.owing = c.owing /\ d.read = c.read
  BY DEF Sending, Call

LEMMA GoingIsACall ==
  ASSUME NEW c \in Call
  PROVE  /\ Going(c) \in Call
         /\ Going(c).pc = "writing" /\ Going(c).left = c.left
         /\ Going(c).owing = c.owing /\ Going(c).read = c.read
<1>1. Idle.unit \in Unit
  BY IdleIsACall
<1> QED  BY <1>1 DEF Going, Call

LEMMA WrittenIsARow ==
  ASSUME TypeOK, NEW h \in Handler, NEW u \in Unit
  PROVE  Written(h, u) \in Restriction
<1>1. row[u] \in Restriction
  BY DEF TypeOK
<1>2. [row[u] EXCEPT !.active = FALSE, !.manualExempt = FALSE] \in Restriction
  BY <1>1 DEF Restriction
<1>3. [active |-> TRUE, source |-> "AUTO", manualExempt |-> FALSE] \in Restriction
  BY DEF Restriction
<1> QED  BY <1>1, <1>2, <1>3 DEF Written

-----------------------------------------------------------------------------
(* How each step changes the calls.                                        *)
CallBecomes(h, d) == d \in Call /\ call' = [call EXCEPT ![h] = d]

LEMMA BeginCall ==
  ASSUME TypeOK, NEW h \in Handler, Begin(h)
  PROVE  \E d : CallBecomes(h, d) /\ d.pc = "begun" /\ d.left = {} /\ call[h] = Idle
<1> DEFINE d == [call[h] EXCEPT !.pc = "begun"]
<1>1. d \in Call /\ d.pc = "begun" /\ d.left = call[h].left
  BY DEF TypeOK, Call
<1>2. call' = [call EXCEPT ![h] = d] /\ call[h] = Idle
  BY DEF Begin
<1> QED  BY <1>1, <1>2, IdleIsACall DEF CallBecomes

LEMMA ReadSettingsCall ==
  ASSUME TypeOK, NEW h \in Handler, ReadSettings(h)
  PROVE  \E d : /\ CallBecomes(h, d) /\ d.pc # "notifying"
                /\ settings.enabled => d.pc = "arrears" /\ d.min = settings.minOutstanding
<1>1. CASE ~settings.enabled
  BY <1>1, IdleIsACall DEF ReadSettings, CallBecomes
<1>2. CASE settings.enabled
  <2> DEFINE d == [call[h] EXCEPT !.pc = "arrears", !.min = settings.minOutstanding]
  <2>1. d \in Call /\ d.pc = "arrears" /\ d.min = settings.minOutstanding
    BY DEF TypeOK, Call, Policy
  <2>2. call' = [call EXCEPT ![h] = d]
    BY <1>2 DEF ReadSettings
  <2> QED  BY <2>1, <2>2 DEF CallBecomes
<1> QED  BY <1>1, <1>2

LEMMA ReadArrearsCall ==
  ASSUME TypeOK, NEW h \in Handler, ReadArrears(h)
  PROVE  \E d : CallBecomes(h, d) /\ d.pc = "rows"
                /\ d.owing = {u \in Unit : Owes(u, call[h].min)}
<1>0. PICK owing \in SUBSET Unit : owing = {u \in Unit : Owes(u, call[h].min)}
  OBVIOUS
<1> DEFINE d == [call[h] EXCEPT !.pc = "rows", !.min = 0, !.owing = owing]
<1>1. d \in Call /\ d.pc = "rows" /\ d.owing = owing
  BY DEF TypeOK, Call
<1>2. call' = [call EXCEPT ![h] = d]
  BY <1>0 DEF ReadArrears
<1> QED  BY <1>0, <1>1, <1>2 DEF CallBecomes

LEMMA ReadRowsCall ==
  ASSUME TypeOK, NEW h \in Handler, ReadRows(h)
  PROVE  \E d : CallBecomes(h, d) /\ d.pc = "writing" /\ d.left = Unit /\ d.read = row
                /\ d.owing = call[h].owing
<1> DEFINE d == [call[h] EXCEPT !.pc = "writing", !.read = row, !.left = Unit]
<1>1. d \in Call /\ d.pc = "writing" /\ d.left = Unit /\ d.read = row /\ d.owing = call[h].owing
  BY DEF TypeOK, Call
<1>2. call' = [call EXCEPT ![h] = d]
  BY DEF ReadRows
<1> QED  BY <1>1, <1>2 DEF CallBecomes

LEMMA WriteRowCall ==
  ASSUME TypeOK, NEW h \in Handler, NEW u \in Unit, WriteRow(h, u)
  PROVE  \E d : /\ CallBecomes(h, d)
                /\ d.left = call[h].left \ {u}
                /\ d.left # {} => /\ d.pc \in {"writing", "notifying"}
                                  /\ d.owing = call[h].owing /\ d.read = call[h].read
                /\ Notifies(h, u) => /\ d.pc = "notifying" /\ d.unit = u
                                     /\ d.restricted = Written(h, u).active
                /\ ~Notifies(h, u) => d.pc # "notifying"
<1> DEFINE rest == call[h].left \ {u}
<1>1. call[h] \in Call /\ rest \in SUBSET Unit /\ call[h].pc = "writing"
  BY DEF TypeOK, Call, WriteRow
<1>2. Written(h, u).active \in BOOLEAN
  BY WrittenIsARow DEF Restriction
<1>3. CASE Notifies(h, u)
  <2> DEFINE d == Sending(call[h], rest, u, Written(h, u).active)
  <2>1. call' = [call EXCEPT ![h] = d]
    BY <1>3 DEF WriteRow, Sending
  <2>2. /\ d \in Call /\ d.pc = "notifying" /\ d.left = rest /\ d.unit = u
        /\ d.restricted = Written(h, u).active
        /\ d.owing = call[h].owing /\ d.read = call[h].read
    BY <1>1, <1>2, SendingIsACall
  <2> QED  BY <1>3, <2>1, <2>2 DEF CallBecomes
<1>4. CASE ~Notifies(h, u) /\ rest = {}
  <2>1. call' = [call EXCEPT ![h] = Idle]
    BY <1>4 DEF WriteRow
  <2> QED  BY <1>4, <2>1, IdleIsACall DEF CallBecomes
<1>5. CASE ~Notifies(h, u) /\ rest # {}
  <2> DEFINE d == [call[h] EXCEPT !.left = rest]
  <2>1. call' = [call EXCEPT ![h] = d]
    BY <1>5 DEF WriteRow
  <2>2. /\ d \in Call /\ d.pc = "writing" /\ d.left = rest
        /\ d.owing = call[h].owing /\ d.read = call[h].read
    BY <1>1 DEF Call
  <2> QED  BY <1>5, <2>1, <2>2 DEF CallBecomes
<1> QED  BY <1>3, <1>4, <1>5

LEMMA ForceCall ==
  ASSUME TypeOK, NEW h \in Handler, NEW u \in Unit, NEW r \in Restriction, Upsert(h, u, r)
  PROVE  \E d : /\ CallBecomes(h, d) /\ call[h] = Idle
                /\ d.left = {} /\ d.pc = "notifying" /\ d.unit = u /\ d.restricted = r.active
<1> DEFINE d == Sending(Idle, Idle.left, u, r.active)
<1>1. call[h] = Idle /\ r.active \in BOOLEAN
  BY DEF Upsert, Restriction
<1>2. call' = [call EXCEPT ![h] = [@ EXCEPT !.pc = "notifying", !.unit = u, !.restricted = r.active]]
  BY <1>1 DEF Upsert, TypeOK
<1>3. ASSUME NEW c \in Call, NEW b
      PROVE  [c EXCEPT !.pc = "notifying", !.unit = u, !.restricted = b] = Sending(c, c.left, u, b)
  BY DEF Sending, Call
<1>4. d \in Call /\ d.left = {} /\ d.pc = "notifying" /\ d.unit = u /\ d.restricted = r.active
  BY <1>1, IdleIsACall, SendingIsACall
<1>5. [call[h] EXCEPT !.pc = "notifying", !.unit = u, !.restricted = r.active] = d
  BY <1>1, <1>3, IdleIsACall
<1>6. call' = [call EXCEPT ![h] = d]
  BY <1>2, <1>5
<1> QED  BY <1>1, <1>4, <1>6 DEF CallBecomes

LEMMA AfterNoticeCall ==
  ASSUME TypeOK, NEW h \in Handler, AfterNotice(h)
  PROVE  \E d : /\ CallBecomes(h, d) /\ d.pc \in {"idle", "writing"}
                /\ d.left = call[h].left
                /\ d.left # {} => /\ d.pc = "writing"
                                  /\ d.owing = call[h].owing /\ d.read = call[h].read
<1>1. call[h] \in Call
  BY DEF TypeOK
<1>2. CASE call[h].left = {}
  <2>1. call' = [call EXCEPT ![h] = Idle]
    BY <1>2 DEF AfterNotice
  <2> QED  BY <1>2, <2>1, IdleIsACall DEF CallBecomes
<1>3. CASE call[h].left # {}
  <2>1. call' = [call EXCEPT ![h] = Going(call[h])]
    BY <1>3 DEF AfterNotice, Going
  <2> QED  BY <1>1, <2>1, GoingIsACall DEF CallBecomes
<1> QED  BY <1>2, <1>3

-----------------------------------------------------------------------------
(* The steps of billing and of policies, which reach no row; the steps     *)
(* that write a row; and the end of a webhook.                             *)
BillingStep ==
  \/ \E u \in Unit : Incur(u) \/ \E a \in 1 .. MaxOwed : Pay(u, a) \/ Drop(u, a)
  \/ LoseEvent

ReadingStep(h) ==
  \/ RecomputeForUser(h) \/ OnInvoicePaid(h) \/ \E s \in Policy : UpdateSettings(h, s)
  \/ ReadSettings(h) \/ ReadArrears(h) \/ ReadRows(h)

LEMMA NextCases ==
  ASSUME [Next]_vars
  PROVE  \/ BillingStep \/ UNCHANGED vars
         \/ \E h \in Handler :
              \/ ReadingStep(h)
              \/ \E u \in Unit : WriteRow(h, u) \/ ForceRestrict(h, u) \/ ForceClear(h, u)
              \/ Deliver(h) \/ WebhookFails(h) \/ Die(h)
  BY DEF Next, BillingStep, ReadingStep

LEMMA BillingTypes ==
  ASSUME TypeOK, BillingStep
  PROVE  TypeOK' /\ UNCHANGED <<settings, row, call, barrier, stale, astray>>
<1>1. MaxOwed \in Nat /\ MaxDue \in Nat
  BY RestrictionAssumption
<1>2. ASSUME NEW u \in Unit, Incur(u)
      PROVE  TypeOK' /\ UNCHANGED <<settings, row, call, barrier, stale, astray>>
  BY <1>1, <1>2 DEF Incur, TypeOK, history
<1>3. ASSUME NEW u \in Unit, NEW a \in 1 .. MaxOwed, Pay(u, a)
      PROVE  TypeOK' /\ UNCHANGED <<settings, row, call, barrier, stale, astray>>
  BY <1>1, <1>3 DEF Pay, TypeOK, history
<1>4. ASSUME NEW u \in Unit, NEW a \in 1 .. MaxOwed, Drop(u, a)
      PROVE  TypeOK' /\ UNCHANGED <<settings, row, call, barrier, stale, astray>>
  BY <1>1, <1>4 DEF Drop, TypeOK
<1>5. CASE LoseEvent
  BY <1>1, <1>5 DEF LoseEvent, TypeOK
<1> QED  BY <1>2, <1>3, <1>4, <1>5 DEF BillingStep

LEMMA ReadingTypes ==
  ASSUME TypeOK, NEW h \in Handler, ReadingStep(h)
  PROVE  /\ TypeOK'
         /\ UNCHANGED <<owed, row, barrier, stale, astray>>
         /\ \A u \in Unit : Notifying(u)' = Notifying(u)
<1>1. MaxDue \in Nat
  BY RestrictionAssumption
<1>2. ASSUME NEW d, CallBecomes(h, d), d.pc # "notifying", call[h].pc # "notifying"
      PROVE  /\ call' \in [Handler -> Call]
             /\ \A u \in Unit : Notifying(u)' = Notifying(u)
  BY <1>2 DEF CallBecomes, TypeOK, Notifying
<1>3. Idle.pc = "idle"
  BY IdleIsACall
<1>4. CASE Begin(h) /\ UNCHANGED <<owed, row, barrier, history>> /\ settings' \in Policy
             /\ due' \in 0 .. MaxDue
  BY <1>2, <1>3, <1>4, BeginCall DEF TypeOK, history
<1>5. CASE RecomputeForUser(h)
  BY <1>4, <1>5 DEF RecomputeForUser, TypeOK
<1>6. CASE OnInvoicePaid(h)
  <2>1. due' \in 0 .. MaxDue
    BY <1>1, <1>6 DEF OnInvoicePaid, TypeOK
  <2> QED  BY <2>1, <1>4, <1>6 DEF OnInvoicePaid, TypeOK
<1>7. ASSUME NEW s \in Policy, UpdateSettings(h, s)
      PROVE  /\ TypeOK'
             /\ UNCHANGED <<owed, row, barrier, stale, astray>>
             /\ \A u \in Unit : Notifying(u)' = Notifying(u)
  <2>1. CASE s.enabled
    BY <2>1, <1>4, <1>7 DEF UpdateSettings, TypeOK
  <2>2. CASE ~s.enabled
    BY <2>2, <1>7 DEF UpdateSettings, TypeOK, history, Notifying
  <2> QED  BY <2>1, <2>2
<1>8. CASE ReadSettings(h)
  BY <1>2, <1>8, ReadSettingsCall DEF ReadSettings, TypeOK, history
<1>9. CASE ReadArrears(h)
  BY <1>2, <1>9, ReadArrearsCall DEF ReadArrears, TypeOK
<1>10. CASE ReadRows(h)
  BY <1>2, <1>10, ReadRowsCall DEF ReadRows, TypeOK, history
<1> QED  BY <1>5, <1>6, <1>7, <1>8, <1>9, <1>10 DEF ReadingStep

(* What writing the row of a unit does: to that row alone, and a webhook   *)
(* about that unit at most.                                                *)
RowStep(h, u, r, notify) ==
  /\ row' = [row EXCEPT ![u] = r] /\ r \in Restriction
  /\ UNCHANGED <<owed, settings, due, barrier, quiet>>
  /\ call[h].pc # "notifying"
  /\ \E d : /\ CallBecomes(h, d)
            /\ notify => d.pc = "notifying" /\ d.unit = u /\ d.restricted = r.active
            /\ ~notify => d.pc # "notifying"

LEMMA WriteRowStep ==
  ASSUME TypeOK, NEW h \in Handler, NEW u \in Unit, WriteRow(h, u)
  PROVE  RowStep(h, u, Written(h, u), Notifies(h, u))
  BY WriteRowCall, WrittenIsARow DEF WriteRow, RowStep

LEMMA UpsertStep ==
  ASSUME TypeOK, NEW h \in Handler, NEW u \in Unit, NEW r \in Restriction, Upsert(h, u, r)
  PROVE  RowStep(h, u, r, TRUE)
<1>1. row' = [row EXCEPT ![u] = r] /\ UNCHANGED <<owed, settings, due, barrier, quiet>>
  BY DEF Upsert
<1> QED  BY <1>1, ForceCall, IdleIsACall DEF RowStep

LEMMA RowStepTypes ==
  ASSUME TypeOK, NEW h \in Handler, NEW u \in Unit, NEW r, NEW notify \in BOOLEAN,
         RowStep(h, u, r, notify), stale' \subseteq Unit, astray' \subseteq Unit
  PROVE  TypeOK'
  BY DEF RowStep, TypeOK, CallBecomes

-----------------------------------------------------------------------------
(* A row is written with its webhook when nothing else is under way about  *)
(* the unit, or stays as restricted as it was, or the unit has gone astray. *)
LEMMA RowStepNotices ==
  ASSUME TypeOK, NoticesAreTrue, NEW h \in Handler, NEW u \in Unit, NEW r, NEW notify \in BOOLEAN,
         RowStep(h, u, r, notify), astray \subseteq astray',
         u \notin astray' => IF notify THEN Notifying(u) = {} ELSE r.active = row[u].active
  PROVE  NoticesAreTrue'
<1>1. PICK d : /\ CallBecomes(h, d)
               /\ notify => d.pc = "notifying" /\ d.unit = u /\ d.restricted = r.active
               /\ ~notify => d.pc # "notifying"
  BY DEF RowStep
<1>2. \A g \in Handler : call'[g] = IF g = h THEN d ELSE call[g]
  BY <1>1 DEF CallBecomes, TypeOK
<1>3. /\ call[h].pc # "notifying" /\ barrier' = barrier
      /\ \A w \in Unit : row'[w] = IF w = u THEN r ELSE row[w]
  BY DEF RowStep, TypeOK
<1>4. ASSUME NEW w \in Unit \ astray'  PROVE NoticeIsTrue(w)'
  <2>1. NoticeIsTrue(w)
    BY <1>4 DEF NoticesAreTrue
  <2>2. CASE w = u /\ notify
    <3>1. Notifying(w)' = {h}
      BY <1>1, <1>2, <1>4, <2>2 DEF Notifying
    <3> QED  BY <3>1, <2>2, <1>1, <1>2, <1>3 DEF NoticeIsTrue
  <2>3. CASE w # u \/ ~notify
    <3>1. Notifying(w)' = Notifying(w)
      BY <1>1, <1>2, <1>3, <2>3 DEF Notifying
    <3>2. row'[w].active = row[w].active
      BY <1>3, <1>4, <2>3
    <3>3. \A g \in Notifying(w) : call'[g] = call[g]
      BY <1>2, <1>3 DEF Notifying
    <3> QED  BY <3>1, <3>2, <3>3, <2>1, <1>3 DEF NoticeIsTrue
  <2> QED  BY <2>2, <2>3
<1> QED  BY <1>4 DEF NoticesAreTrue

LEMMA WriteRowNotices ==
  ASSUME TypeOK, NoticesAreTrue, NEW h \in Handler, NEW u \in Unit, WriteRow(h, u)
  PROVE  /\ NoticesAreTrue'
         /\ stale' \subseteq Unit /\ astray' \subseteq Unit
<1>1. astray \subseteq astray' /\ astray' \subseteq Unit /\ stale' \subseteq Unit
  BY DEF WriteRow, Crosses, TypeOK
<1>2. ASSUME u \notin astray', Notifies(h, u)  PROVE Notifying(u) = {}
  BY <1>2 DEF WriteRow, Crosses
<1>3. ASSUME u \notin astray', ~Notifies(h, u)  PROVE Written(h, u).active = row[u].active
  <2>1. Written(h, u).active = row[u].active \/ ~Outdated(h, u)
    BY <1>3 DEF WriteRow
  <2>2. ASSUME ~Outdated(h, u)  PROVE Written(h, u).active = row[u].active
    <3>1. call[h].read[u] = row[u] /\ row[u] \in Restriction
      BY <2>2 DEF Outdated, TypeOK
    <3> QED  BY <3>1, <1>3 DEF Written, Notifies, ClearsActive, Restriction
  <2> QED  BY <2>1, <2>2
<1> QED
  BY <1>1, <1>2, <1>3, WriteRowStep, RowStepNotices DEF Notifies

LEMMA UpsertNotices ==
  ASSUME TypeOK, NoticesAreTrue, NEW h \in Handler, NEW u \in Unit, NEW r \in Restriction,
         Upsert(h, u, r)
  PROVE  /\ NoticesAreTrue'
         /\ stale' \subseteq Unit /\ astray' \subseteq Unit
<1>1. astray \subseteq astray' /\ astray' \subseteq Unit /\ stale' \subseteq Unit
  BY DEF Upsert, Crosses, TypeOK
<1>2. u \notin astray' => Notifying(u) = {}
  BY DEF Upsert, Crosses
<1> QED  BY <1>1, <1>2, UpsertStep, RowStepNotices

LEMMA EndNotices ==
  ASSUME TypeOK, NoticesAreTrue, NEW h \in Handler, Deliver(h) \/ WebhookFails(h) \/ Die(h)
  PROVE  TypeOK' /\ NoticesAreTrue'
<1>0. PICK u : u = call[h].unit
  OBVIOUS
<1>1. u \in Unit /\ call[h].restricted \in BOOLEAN
  BY <1>0 DEF TypeOK, Call
<1>2. PICK d : CallBecomes(h, d) /\ d.pc # "notifying"
  BY AfterNoticeCall, IdleIsACall DEF Deliver, WebhookFails, Die, CallBecomes
<1>3. TypeOK'
  <2>1. call' \in [Handler -> Call]
    BY <1>2 DEF CallBecomes, TypeOK
  <2> QED  BY <2>1, <1>0, <1>1 DEF Deliver, WebhookFails, Die, TypeOK, history
<1>4. \A g \in Handler : call'[g] = IF g = h THEN d ELSE call[g]
  BY <1>2 DEF CallBecomes, TypeOK
<1>5. /\ row' = row /\ astray \subseteq astray'
      /\ \A w \in Unit : barrier'[w] # barrier[w] => Deliver(h) /\ w = u
      /\ Deliver(h) => barrier'[u] = call[h].restricted
      /\ call[h].pc = "notifying" => Deliver(h) \/ u \in astray'
  BY <1>0, <1>1 DEF Deliver, WebhookFails, Die, TypeOK, history
<1>6. ASSUME NEW w \in Unit \ astray'  PROVE NoticeIsTrue(w)'
  <2>1. NoticeIsTrue(w)
    BY <1>5, <1>6 DEF NoticesAreTrue
  <2>2. CASE h \in Notifying(w)
    <3>1. w = u /\ Deliver(h)
      BY <1>0, <1>5, <1>6, <2>2 DEF Notifying
    <3>2. Notifying(w)' = {}
      BY <2>1, <2>2, <1>2, <1>4 DEF NoticeIsTrue, Notifying
    <3> QED  BY <3>1, <3>2, <2>1, <2>2, <1>5 DEF NoticeIsTrue
  <2>3. CASE h \notin Notifying(w)
    <3>1. Notifying(w)' = Notifying(w) /\ \A g \in Notifying(w) : call'[g] = call[g]
      BY <2>3, <1>2, <1>4 DEF Notifying
    <3>2. barrier'[w] = barrier[w]
      BY <1>0, <1>5, <2>3 DEF Deliver, Notifying
    <3> QED  BY <3>1, <3>2, <2>1, <1>5 DEF NoticeIsTrue
  <2> QED  BY <2>2, <2>3
<1> QED  BY <1>3, <1>6 DEF NoticesAreTrue

LEMMA RestNotices ==
  ASSUME NoticesAreTrue, UNCHANGED <<row, barrier, astray>>,
         \A u \in Unit : Notifying(u)' = Notifying(u),
         \A u \in Unit : \A h \in Notifying(u) : call'[h] = call[h]
  PROVE  NoticesAreTrue'
  BY DEF NoticesAreTrue, NoticeIsTrue

LEMMA TypesAndNotices ==
  ASSUME TypeOK, NoticesAreTrue, [Next]_vars
  PROVE  TypeOK' /\ NoticesAreTrue'
<1>1. CASE BillingStep
  BY <1>1, BillingTypes, RestNotices DEF Notifying
<1>2. ASSUME NEW h \in Handler, ReadingStep(h)  PROVE TypeOK' /\ NoticesAreTrue'
  <2>1. \A u \in Unit : Notifying(u)' = Notifying(u)
    BY <1>2, ReadingTypes
  <2>2. \A g \in Handler : call[g].pc = "notifying" => call'[g] = call[g]
    <3>1. call[h].pc # "notifying"
      BY <1>2, IdleIsACall DEF ReadingStep, RecomputeForUser, OnInvoicePaid, UpdateSettings, Begin,
         ReadSettings, ReadArrears, ReadRows
    <3>2. \A g \in Handler : g # h => call'[g] = call[g]
      BY <1>2 DEF ReadingStep, RecomputeForUser, OnInvoicePaid, UpdateSettings, Begin,
         ReadSettings, ReadArrears, ReadRows, TypeOK
    <3> QED  BY <3>1, <3>2
  <2> QED  BY <2>1, <2>2, <1>2, ReadingTypes, RestNotices DEF Notifying
<1>3. ASSUME NEW h \in Handler, NEW u \in Unit, WriteRow(h, u)  PROVE TypeOK' /\ NoticesAreTrue'
  BY <1>3, WriteRowNotices, WriteRowStep, RowStepTypes DEF Notifies
<1>4. ASSUME NEW h \in Handler, NEW u \in Unit, NEW r \in Restriction, Upsert(h, u, r)
      PROVE  TypeOK' /\ NoticesAreTrue'
  BY <1>4, UpsertNotices, UpsertStep, RowStepTypes
<1>5. ASSUME NEW h \in Handler, NEW u \in Unit, ForceRestrict(h, u) \/ ForceClear(h, u)
      PROVE  \E r \in Restriction : Upsert(h, u, r)
  BY <1>5 DEF ForceRestrict, ForceClear, Restriction
<1>6. CASE UNCHANGED vars
  BY <1>6, RestNotices DEF vars, TypeOK, history, Notifying
<1> QED
  BY <1>1, <1>2, <1>3, <1>4, <1>5, <1>6, EndNotices, NextCases

-----------------------------------------------------------------------------
(* A unit that is restricted though it has paid, and a call that is to     *)
(* clear it.                                                               *)
Locked(u) == Blocked(u) /\ row[u].source = "AUTO" /\ ~Qualifies(u)

Clearing(c, u) ==
  \/ c.pc = "begun"
  \/ c.pc = "arrears" /\ c.min = settings.minOutstanding
  \/ c.pc = "rows" /\ u \notin c.owing
  \/ /\ c.pc \in {"writing", "notifying"}
     /\ u \in c.left /\ u \notin c.owing /\ c.read[u].active

LEMMA WillClearIs ==
  ASSUME NEW u \in Unit
  PROVE  WillClear(u) <=> due > 0 \/ \E h \in Handler : Clearing(call[h], u)
  BY DEF WillClear, Clearing

LEMMA UnlockedIs ==
  PaidIsUnlocked <=> \A u \in Unit \ (stale \cup quiet) : Locked(u) => WillClear(u)
  BY DEF PaidIsUnlocked, Locked

(* One call changes: whom it was to clear it is still to clear.            *)
LEMMA StillClearing ==
  ASSUME TypeOK, NEW h \in Handler, NEW d, CallBecomes(h, d), due' \in Nat, due' >= due,
         settings' = settings, NEW u \in Unit, WillClear(u), Clearing(call[h], u) => Clearing(d, u)
  PROVE  WillClear(u)'
<1>1. \A g \in Handler : call'[g] = IF g = h THEN d ELSE call[g]
  BY DEF CallBecomes, TypeOK
<1>2. due \in Nat
  BY RestrictionAssumption DEF TypeOK
<1>3. CASE due > 0
  <2>1. due' > 0
    BY <1>2, <1>3
  <2> QED  BY <2>1, WillClearIs DEF WillClear
<1>4. ASSUME NEW g \in Handler, Clearing(call[g], u)  PROVE WillClear(u)'
  <2>1. Clearing(call'[g], u)
    BY <1>1, <1>4
  <2> QED  BY <2>1 DEF WillClear, Clearing
<1> QED  BY <1>3, <1>4, WillClearIs

LEMMA BillingUnlocks ==
  ASSUME TypeOK, PaidIsUnlocked, BillingStep
  PROVE  PaidIsUnlocked'
<1>1. \A u \in Unit : settings.minOutstanding \in Nat /\ owed[u] \in Nat /\ due \in Nat
  <2>1. \A u \in Unit : owed[u] \in Nat
    BY RestrictionAssumption DEF TypeOK
  <2>2. settings.minOutstanding \in Minimum
    BY DEF TypeOK, Policy
  <2>3. due \in Nat
    BY RestrictionAssumption DEF TypeOK
  <2> QED  BY <2>1, <2>2, <2>3, RestrictionAssumption
<1>2. UNCHANGED <<settings, row, call, stale>>
  BY BillingTypes
<1>3. ASSUME NEW v \in Unit, Incur(v)  PROVE PaidIsUnlocked'
  <2>1. UNCHANGED <<due, quiet>> /\ \A u \in Unit : Qualifies(u) => Qualifies(u)'
    BY <1>1, <1>2, <1>3 DEF Incur, TypeOK, Qualifies, Owes, history
  <2> QED  BY <1>2, <2>1 DEF PaidIsUnlocked, Blocked, WillClear
<1>4. ASSUME NEW v \in Unit, NEW a \in 1 .. MaxOwed, Pay(v, a)  PROVE PaidIsUnlocked'
  <2>1. due' > 0
    BY <1>1, <1>4 DEF Pay
  <2> QED  BY <2>1 DEF PaidIsUnlocked, WillClear
<1>5. ASSUME NEW v \in Unit, NEW a \in 1 .. MaxOwed, Drop(v, a)  PROVE PaidIsUnlocked'
  <2>1. due' = due /\ quiet' = quiet \cup {v} /\ \A u \in Unit \ {v} : owed'[u] = owed[u]
    BY <1>5 DEF Drop, TypeOK
  <2> QED  BY <1>2, <2>1 DEF PaidIsUnlocked, Blocked, WillClear, Qualifies, Owes
<1>6. CASE LoseEvent
  BY <1>6 DEF LoseEvent, PaidIsUnlocked
<1> QED  BY <1>3, <1>4, <1>5, <1>6 DEF BillingStep

LEMMA ReadingUnlocks ==
  ASSUME TypeOK, PaidIsUnlocked, NEW h \in Handler, ReadingStep(h)
  PROVE  PaidIsUnlocked'
<1>1. ASSUME Begin(h)  PROVE PaidIsUnlocked'
  <2>1. PICK d : CallBecomes(h, d) /\ d.pc = "begun"
    BY <1>1, BeginCall
  <2>2. call'[h].pc = "begun"
    BY <2>1 DEF CallBecomes, TypeOK
  <2> QED  BY <2>2 DEF PaidIsUnlocked, WillClear
<1>2. CASE RecomputeForUser(h) \/ OnInvoicePaid(h)
  BY <1>1, <1>2 DEF RecomputeForUser, OnInvoicePaid
<1>3. ASSUME NEW s \in Policy, UpdateSettings(h, s)  PROVE PaidIsUnlocked'
  <2>1. CASE ~s.enabled
    BY <1>3, <2>1 DEF UpdateSettings, PaidIsUnlocked, Blocked
  <2> QED  BY <1>1, <1>3, <2>1 DEF UpdateSettings
<1>4. CASE ReadSettings(h)
  <2>1. UNCHANGED <<owed, settings, row, due, stale, quiet>>
    BY <1>4 DEF ReadSettings, history
  <2>2. CASE ~settings.enabled
    BY <2>1, <2>2 DEF PaidIsUnlocked, Blocked
  <2>3. CASE settings.enabled
    <3>1. PICK d : CallBecomes(h, d) /\ d.pc = "arrears" /\ d.min = settings.minOutstanding
      BY <1>4, <2>3, ReadSettingsCall
    <3>2. call'[h] = d
      BY <3>1 DEF CallBecomes, TypeOK
    <3> QED  BY <2>1, <3>1, <3>2 DEF PaidIsUnlocked, WillClear
  <2> QED  BY <2>2, <2>3
<1>5. CASE ReadArrears(h)
  <2>1. UNCHANGED <<owed, settings, row, due, stale>> /\ call[h].pc = "arrears"
    BY <1>5 DEF ReadArrears
  <2>2. PICK d : /\ CallBecomes(h, d) /\ d.pc = "rows"
                 /\ d.owing = {u \in Unit : Owes(u, call[h].min)}
    BY <1>5, ReadArrearsCall
  <2>3. CASE call[h].min = settings.minOutstanding
    <3>1. call'[h] = d
      BY <2>2 DEF CallBecomes, TypeOK
    <3>2. ASSUME NEW u \in Unit, Locked(u)'  PROVE WillClear(u)'
      <4>1. ~Owes(u, call[h].min)
        BY <2>1, <2>3, <3>2 DEF Locked, Qualifies, Owes
      <4> QED  BY <4>1, <2>2, <3>1 DEF WillClear
    <3> QED  BY <3>2 DEF PaidIsUnlocked, Locked
  <2>4. CASE call[h].min # settings.minOutstanding
    <3>1. quiet' = quiet
      BY <2>4, <1>5 DEF ReadArrears
    <3>2. ASSUME NEW u \in Unit \ (stale' \cup quiet'), Locked(u)'  PROVE WillClear(u)'
      <4>1. Locked(u) /\ WillClear(u)
        BY <2>1, <3>1, <3>2 DEF Locked, PaidIsUnlocked, Blocked, Qualifies, Owes
      <4>2. ~Clearing(call[h], u)
        BY <2>1, <2>4 DEF Clearing
      <4>3. due' \in Nat /\ due' >= due
        BY <2>1, RestrictionAssumption DEF TypeOK
      <4> QED  BY <2>1, <2>2, <4>1, <4>2, <4>3, StillClearing
    <3> QED  BY <3>2 DEF PaidIsUnlocked, Locked
  <2> QED  BY <2>3, <2>4
<1>6. CASE ReadRows(h)
  <2>1. UNCHANGED <<owed, settings, row, due, stale, quiet>>
    BY <1>6 DEF ReadRows, history
  <2>2. PICK d : /\ CallBecomes(h, d) /\ d.pc = "writing"
                 /\ d.left = Unit /\ d.read = row /\ d.owing = call[h].owing
    BY <1>6, ReadRowsCall
  <2>3. ASSUME NEW u \in Unit \ (stale' \cup quiet'), Locked(u)'  PROVE WillClear(u)'
    <3>1. Locked(u) /\ WillClear(u) /\ row[u].active
      BY <2>1, <2>3 DEF Locked, PaidIsUnlocked, Blocked, Qualifies, Owes
    <3>2. Clearing(call[h], u) => Clearing(d, u)
      BY <2>2, <3>1, <1>6 DEF Clearing, ReadRows
    <3>3. due' \in Nat /\ due' >= due
      BY <2>1, RestrictionAssumption DEF TypeOK
    <3> QED  BY <2>1, <2>2, <3>1, <3>2, <3>3, StillClearing
  <2> QED  BY <2>3 DEF PaidIsUnlocked, Locked
<1> QED  BY <1>2, <1>3, <1>4, <1>5, <1>6 DEF ReadingStep

LEMMA WrittenClears ==
  ASSUME TypeOK, NEW h \in Handler, NEW u \in Unit, u \notin call[h].owing,
         Written(h, u).active
  PROVE  ~call[h].read[u].active /\ Written(h, u) = row[u]
<1>1. row[u] \in Restriction
  BY DEF TypeOK
<1>2. ~[row[u] EXCEPT !.active = FALSE, !.manualExempt = FALSE].active
  BY <1>1 DEF Restriction
<1>3. ~ClearsActive(call[h].read[u])
  BY <1>2 DEF Written
<1> QED  BY <1>3 DEF Written, ClearsActive

(* A write that follows from what is still so restricts only who is in     *)
(* arrears, and a write from an old reading marks its unit stale.          *)
LEMMA WriteRowUnlocks ==
  ASSUME TypeOK, PaidIsUnlocked, NEW h \in Handler, NEW v \in Unit, WriteRow(h, v)
  PROVE  PaidIsUnlocked'
<1>1. /\ UNCHANGED <<owed, settings, due, quiet>>
      /\ \A u \in Unit : row'[u] = IF u = v THEN Written(h, v) ELSE row[u]
      /\ \A u \in Unit : u # v => (u \in stale' <=> u \in stale)
      /\ due' \in Nat /\ due' >= due
  BY RestrictionAssumption DEF WriteRow, TypeOK
<1>2. PICK d : /\ CallBecomes(h, d)
               /\ d.left = call[h].left \ {v}
               /\ d.left # {} => /\ d.pc \in {"writing", "notifying"}
                                 /\ d.owing = call[h].owing /\ d.read = call[h].read
  BY WriteRowCall
<1>3. call[h].pc = "writing"
  BY DEF WriteRow
<1>4. ASSUME NEW u \in Unit \ (stale' \cup quiet'), Locked(u)'  PROVE WillClear(u)'
  <2>1. ~Qualifies(u)
    BY <1>1, <1>4 DEF Locked, Qualifies, Owes
  <2>2. CASE u # v
    <3>1. Locked(u) /\ WillClear(u)
      BY <1>1, <1>4, <2>1, <2>2 DEF Locked, Blocked, PaidIsUnlocked
    <3>2. Clearing(call[h], u) => Clearing(d, u)
      BY <1>2, <1>3, <2>2 DEF Clearing
    <3> QED  BY <1>1, <1>2, <3>1, <3>2, StillClearing
  <2>3. CASE u = v
    <3>1. Written(h, v).active
      BY <1>1, <1>4, <2>3 DEF Locked, Blocked
    <3>2. CASE Written(h, v) = row[v]
      <4>1. stale' = stale
        BY <3>2 DEF WriteRow
      <4>2. Locked(u) /\ WillClear(u)
        BY <1>1, <1>4, <2>1, <2>3, <3>2, <4>1 DEF Locked, Blocked, PaidIsUnlocked
      <4>3. ~Clearing(call[h], u)
        BY <1>3, <2>3, <3>1, WrittenClears DEF Clearing
      <4> QED  BY <1>1, <1>2, <4>2, <4>3, StillClearing
    <3>3. CASE Written(h, v) # row[v]
      <4>1. ~Outdated(h, v)
        BY <1>4, <2>3, <3>3 DEF WriteRow
      <4>2. v \notin call[h].owing /\ call[h].read[v] = row[v]
        BY <2>1, <2>3, <4>1 DEF Outdated
      <4> QED  BY <3>1, <3>3, <4>2, WrittenClears
    <3> QED  BY <3>2, <3>3
  <2> QED  BY <2>2, <2>3
<1> QED  BY <1>4 DEF PaidIsUnlocked, Locked

LEMMA UpsertUnlocks ==
  ASSUME TypeOK, PaidIsUnlocked, NEW h \in Handler, NEW v \in Unit, NEW r \in Restriction,
         Upsert(h, v, r), r.source = "MANUAL"
  PROVE  PaidIsUnlocked'
<1>1. /\ UNCHANGED <<owed, settings, due, quiet>> /\ stale' = stale \ {v}
      /\ \A u \in Unit : row'[u] = IF u = v THEN r ELSE row[u]
      /\ due' \in Nat /\ due' >= due
  BY RestrictionAssumption DEF Upsert, TypeOK
<1>2. PICK d : CallBecomes(h, d) /\ call[h] = Idle
  BY ForceCall
<1>3. ASSUME NEW u \in Unit \ (stale' \cup quiet'), Locked(u)'  PROVE WillClear(u)'
  <2>1. u # v
    BY <1>1, <1>3 DEF Locked
  <2>2. Locked(u) /\ WillClear(u)
    BY <1>1, <1>3, <2>1 DEF Locked, Blocked, PaidIsUnlocked, Qualifies, Owes
  <2>3. ~Clearing(call[h], u)
    BY <1>2, IdleIsACall DEF Clearing
  <2> QED  BY <1>1, <1>2, <2>2, <2>3, StillClearing
<1> QED  BY <1>3 DEF PaidIsUnlocked, Locked

LEMMA EndUnlocks ==
  ASSUME TypeOK, PaidIsUnlocked, NEW h \in Handler, Deliver(h) \/ WebhookFails(h) \/ Die(h)
  PROVE  PaidIsUnlocked'
<1>1. CASE Die(h)
  BY <1>1 DEF Die, PaidIsUnlocked
<1>2. CASE Deliver(h) \/ WebhookFails(h)
  <2>1. /\ UNCHANGED <<owed, settings, row, due, stale, quiet>> /\ call[h].pc = "notifying"
        /\ due' \in Nat /\ due' >= due
    BY <1>2, RestrictionAssumption DEF Deliver, WebhookFails, history, TypeOK
  <2>2. PICK d : /\ CallBecomes(h, d) /\ d.left = call[h].left
                 /\ d.left # {} => /\ d.pc = "writing"
                                   /\ d.owing = call[h].owing /\ d.read = call[h].read
    BY <1>2, AfterNoticeCall DEF Deliver, WebhookFails
  <2>3. ASSUME NEW u \in Unit \ (stale' \cup quiet'), Locked(u)'  PROVE WillClear(u)'
    <3>1. Locked(u) /\ WillClear(u)
      BY <2>1, <2>3 DEF Locked, Blocked, PaidIsUnlocked, Qualifies, Owes
    <3>2. Clearing(call[h], u) => Clearing(d, u)
      BY <2>1, <2>2 DEF Clearing
    <3> QED  BY <2>1, <2>2, <3>1, <3>2, StillClearing
  <2> QED  BY <2>3 DEF PaidIsUnlocked, Locked
<1> QED  BY <1>1, <1>2

-----------------------------------------------------------------------------
LEMMA NextKeeps == IInv /\ [Next]_vars => IInv'
<1> SUFFICES ASSUME IInv, [Next]_vars  PROVE PaidIsUnlocked'
  BY TypesAndNotices DEF IInv
<1> USE DEF IInv
<1>1. ASSUME NEW h \in Handler, NEW u \in Unit, ForceRestrict(h, u) \/ ForceClear(h, u)
      PROVE  \E r \in Restriction : Upsert(h, u, r) /\ r.source = "MANUAL"
  <2> DEFINE restrict == [active |-> TRUE, source |-> "MANUAL", manualExempt |-> FALSE]
  <2> DEFINE exempt == [active |-> FALSE, source |-> "MANUAL", manualExempt |-> TRUE]
  <2>1. /\ restrict \in Restriction /\ restrict.source = "MANUAL"
        /\ exempt \in Restriction /\ exempt.source = "MANUAL"
    BY DEF Restriction
  <2>2. Upsert(h, u, restrict) \/ Upsert(h, u, exempt)
    BY <1>1 DEF ForceRestrict, ForceClear
  <2> HIDE DEF restrict, exempt
  <2> QED  BY <2>1, <2>2
<1>2. CASE UNCHANGED vars
  BY <1>2 DEF vars, history, PaidIsUnlocked, Blocked, Qualifies, Owes, WillClear
<1> QED
  BY <1>1, <1>2, NextCases, BillingUnlocks, ReadingUnlocks, WriteRowUnlocks, UpsertUnlocks, EndUnlocks

LEMMA InitHolds == Init => IInv
<1> SUFFICES ASSUME Init  PROVE IInv
  OBVIOUS
<1>1. TypeOK
  BY IdleIsACall, RestrictionAssumption DEF Init, TypeOK, Cleared, Clear, Restriction
<1>2. NoticesAreTrue
  BY IdleIsACall DEF Init, NoticesAreTrue, NoticeIsTrue, Notifying, Cleared, Clear
<1>3. PaidIsUnlocked
  BY DEF Init, PaidIsUnlocked, Blocked
<1> QED  BY <1>1, <1>2, <1>3 DEF IInv

(* The inductive invariant holds of every behaviour.                       *)
THEOREM RestrictionInvariance == Spec => []IInv
<1> QED  BY InitHolds, NextKeeps, PTL DEF Spec

(* Arrears, rows, requests and the barrier keep their types.               *)
THEOREM RestrictionTypeCorrect == Spec => []TypeOK
<1>1. IInv => TypeOK
  BY DEF IInv
<1> QED  BY <1>1, RestrictionInvariance, PTL

(* A unit that paid is unlocked by a recompute that is due or at work,     *)
(* unless a stale write restricted it or its arrears fell without an event. *)
THEOREM PaidAlwaysUnlocked == Spec => []PaidIsUnlocked
<1>1. IInv => PaidIsUnlocked
  BY DEF IInv
<1> QED  BY <1>1, RestrictionInvariance, PTL

(* The barrier follows the row, webhooks that crossed or failed apart.     *)
THEOREM BarrierAlwaysFollows == Spec => []BarrierFollows
<1>1. IInv => BarrierFollows
  BY DEF IInv, NoticesAreTrue, NoticeIsTrue, BarrierFollows
<1> QED  BY <1>1, RestrictionInvariance, PTL
=============================================================================
