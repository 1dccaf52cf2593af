------------------------- MODULE AccessRestriction -------------------------
(***************************************************************************)
(* Access restrictions of units in arrears                                 *)
(* (apps/api/src/access-restriction/access-restriction.service.ts) in one  *)
(* condominium: the rows, the requests that restrict, clear and recompute, *)
(* and the integrator's barrier that the webhooks steer.                   *)
(*                                                                         *)
(* A recompute reads the settings, then the arrears, then the rows, and    *)
(* then writes unit by unit what follows from those readings, each write   *)
(* before a webhook that may take seconds.  What a unit owes is an amount  *)
(* past its days of grace.                                                 *)
(***************************************************************************)
EXTENDS Integers

CONSTANTS
  Unit,      \* units of the condominium
  Handler,   \* requests and event handlers that run at once
  MaxOwed,   \* bound: what a unit owes
  Minimum,   \* the minOutstanding management can set
  MaxDue     \* bound: invoice.paid events under way

ASSUME RestrictionAssumption ==
  /\ Unit # {}
  /\ MaxOwed \in Nat
  /\ MaxDue \in Nat
  /\ Minimum \subseteq Nat \ {0}

VARIABLES
  owed,      \* arrears of each unit, from its open invoices
  settings,  \* the policy of the condominium
  row,       \* unit_access_restrictions (no row reads as a cleared one)
  call,      \* the requests being served
  due,       \* invoice.paid events emitted and not yet handled
  barrier,   \* the integrator's side: is the unit barred
  stale,     \* history: units last written from an outdated reading
  quiet,     \* history: units whose arrears fell and no event is to tell
  astray     \* history: units whose webhooks crossed, got lost or were not sent

history == <<stale, quiet, astray>>
vars == <<owed, settings, row, call, due, barrier, history>>

Policy == [enabled : BOOLEAN, minOutstanding : Minimum]
Restriction == [active : BOOLEAN, source : {"AUTO", "MANUAL"}, manualExempt : BOOLEAN]
Clear == [active |-> FALSE, source |-> "AUTO", manualExempt |-> FALSE]

(* A call's locals: the minimum it read (0 once used), the units that has  *)
(* in arrears, the rows it read, the units it has still to write, and the  *)
(* webhook it is sending.                                                  *)
Cleared == [u \in Unit |-> Clear]
Call == [pc : {"idle", "begun", "arrears", "rows", "writing", "notifying"},
         min : Minimum \cup {0}, owing : SUBSET Unit,
         read : [Unit -> Restriction], left : SUBSET Unit,
         unit : Unit, restricted : BOOLEAN]
Idle == [pc |-> "idle", min |-> 0, owing |-> {}, read |-> Cleared, left |-> {},
         unit |-> CHOOSE u \in Unit : TRUE, restricted |-> FALSE]

Owes(u, min) == owed[u] >= min
Qualifies(u) == Owes(u, settings.minOutstanding)

(* assertUnitNotAccessRestricted refuses the residents of the unit.        *)
Blocked(u) == settings.enabled /\ row[u].active

Notifying(u) == {h \in Handler : call[h].pc = "notifying" /\ call[h].unit = u}

-----------------------------------------------------------------------------
(* Billing, seen from here: debts come, go with an event, or go without    *)
(* one (a partial payment, a voided invoice).                              *)
Incur(u) ==
  /\ owed[u] < MaxOwed
  /\ owed' = [owed EXCEPT ![u] = @ + 1]
  /\ UNCHANGED <<settings, row, call, due, barrier, history>>

Pay(u, amount) ==
  /\ amount <= owed[u]
  /\ due < MaxDue
  /\ owed' = [owed EXCEPT ![u] = @ - amount]
  /\ due' = due + 1
  /\ UNCHANGED <<settings, row, call, barrier, history>>

Drop(u, amount) ==
  /\ amount <= owed[u]
  /\ owed' = [owed EXCEPT ![u] = @ - amount]
  /\ quiet' = quiet \cup {u}
  /\ UNCHANGED <<settings, row, call, due, barrier, stale, astray>>

-----------------------------------------------------------------------------
(* What starts a recompute: the management's button, a change of settings, *)
(* and an invoice that got paid.                                           *)
Begin(h) ==
  /\ call[h] = Idle
  /\ call' = [call EXCEPT ![h].pc = "begun"]

RecomputeForUser(h) ==
  /\ Begin(h)
  /\ UNCHANGED <<owed, settings, row, due, barrier, history>>

OnInvoicePaid(h) ==
  /\ due > 0
  /\ due' = due - 1
  /\ Begin(h)
  /\ UNCHANGED <<owed, settings, row, barrier, history>>

UpdateSettings(h, s) ==
  /\ settings' = s
  /\ IF s.enabled THEN Begin(h) ELSE call[h] = Idle /\ UNCHANGED call
  /\ UNCHANGED <<owed, row, due, barrier, history>>

(* recomputeCondo: the settings ...                                        *)
ReadSettings(h) ==
  /\ call[h].pc = "begun"
  /\ call' = [call EXCEPT ![h] = IF settings.enabled
                                 THEN [@ EXCEPT !.pc = "arrears", !.min = settings.minOutstanding]
                                 ELSE Idle]
  /\ UNCHANGED <<owed, settings, row, due, barrier, history>>

(* ... the arrears, which tell of every debt that went before ...          *)
ReadArrears(h) ==
  /\ call[h].pc = "arrears"
  /\ call' = [call EXCEPT ![h].pc = "rows", ![h].min = 0,
                          ![h].owing = {u \in Unit : Owes(u, call[h].min)}]
  /\ quiet' = IF call[h].min = settings.minOutstanding THEN {} ELSE quiet
  /\ UNCHANGED <<owed, settings, row, due, barrier, stale, astray>>

(* ... the rows ...                                                        *)
ReadRows(h) ==
  /\ call[h].pc = "rows"
  /\ call' = [call EXCEPT ![h].pc = "writing", ![h].read = row, ![h].left = Unit]
  /\ UNCHANGED <<owed, settings, row, due, barrier, history>>

(* ... and unit by unit the row the readings ask for, with its webhook.    *)
Restricts(read) == ~read.active /\ ~read.manualExempt

ClearsNone(read) == FALSE                          \* mutated: never cleared
ClearsActive(read) == read.active \/ read.manualExempt

Written(h, u) ==
  LET read == call[h].read[u]
  IN CASE u \notin call[h].owing /\ ClearsActive(read) ->
            [row[u] EXCEPT !.active = FALSE, !.manualExempt = FALSE]
       [] u \in call[h].owing /\ Restricts(read) ->
            [active |-> TRUE, source |-> "AUTO", manualExempt |-> FALSE]
       [] OTHER -> row[u]

NotifiesNew(h, u) == u \in call[h].owing /\ Restricts(call[h].read[u]) \* mutated: no unit.cleared
Notifies(h, u) ==
  \/ u \in call[h].owing /\ Restricts(call[h].read[u])
  \/ u \notin call[h].owing /\ call[h].read[u].active

Outdated(h, u) == (u \in call[h].owing) # Qualifies(u) \/ call[h].read[u] # row[u]

(* The webhook leaves while another about the unit is under way.           *)
Crosses(u) == IF Notifying(u) = {} THEN {} ELSE {u}

WriteRow(h, u) ==
  LET new == Written(h, u)
      rest == call[h].left \ {u}
  IN /\ call[h].pc = "writing"
     /\ u \in call[h].left
     /\ row' = [row EXCEPT ![u] = new]
     /\ call' = [call EXCEPT ![h] =
                   IF Notifies(h, u)
                   THEN [@ EXCEPT !.pc = "notifying", !.left = rest, !.unit = u,
                                  !.restricted = new.active]
                   ELSE IF rest = {} THEN Idle ELSE [@ EXCEPT !.left = rest]]
     /\ stale' = CASE new = row[u] -> stale
                   [] new # row[u] /\ Outdated(h, u) -> stale \cup {u}
                   [] OTHER -> stale \ {u}
     /\ astray' = IF Notifies(h, u) THEN astray \cup Crosses(u)
                  ELSE IF new.active # row[u].active /\ Outdated(h, u)
                       THEN astray \cup {u} ELSE astray
     /\ UNCHANGED <<owed, settings, due, barrier, quiet>>

-----------------------------------------------------------------------------
(* forceRestrict and forceClear: an upsert, then its webhook.              *)
Upsert(h, u, new) ==
  /\ call[h] = Idle
  /\ row' = [row EXCEPT ![u] = new]
  /\ call' = [call EXCEPT ![h].pc = "notifying", ![h].unit = u,
                          ![h].restricted = new.active]
  /\ stale' = stale \ {u}
  /\ astray' = astray \cup Crosses(u)
  /\ UNCHANGED <<owed, settings, due, barrier, quiet>>

ForceRestrict(h, u) ==
  Upsert(h, u, [active |-> TRUE, source |-> "MANUAL", manualExempt |-> FALSE])

ForceClear(h, u) ==
  Upsert(h, u, [active |-> FALSE, source |-> "MANUAL", manualExempt |-> TRUE])

-----------------------------------------------------------------------------
(* dispatchWebhook: the integrator takes it, or it fails and is not sent   *)
(* again.                                                                  *)
AfterNotice(h) == call' = [call EXCEPT ![h] = IF @.left = {} THEN Idle
                                              ELSE [@ EXCEPT !.pc = "writing", !.unit = Idle.unit,
                                                             !.restricted = FALSE]]

Deliver(h) ==
  /\ call[h].pc = "notifying"
  /\ barrier' = [barrier EXCEPT ![call[h].unit] = call[h].restricted]
  /\ AfterNotice(h)
  /\ UNCHANGED <<owed, settings, row, due, history>>

WebhookFails(h) ==
  /\ call[h].pc = "notifying"
  /\ astray' = astray \cup {call[h].unit}
  /\ AfterNotice(h)
  /\ UNCHANGED <<owed, settings, row, due, barrier, stale, quiet>>

(* A request dies, by an error or with its process; an event is lost when  *)
(* the process stops between a payment's commit and its emission.          *)
Die(h) ==
  /\ call[h] # Idle
  /\ call' = [call EXCEPT ![h] = Idle]
  /\ quiet' = Unit
  /\ astray' = IF call[h].pc = "notifying" THEN astray \cup {call[h].unit} ELSE astray
  /\ UNCHANGED <<owed, settings, row, due, barrier, stale>>

LoseEvent ==
  /\ due > 0
  /\ due' = due - 1
  /\ quiet' = Unit
  /\ UNCHANGED <<owed, settings, row, call, barrier, stale, astray>>

-----------------------------------------------------------------------------
Init ==
  /\ owed = [u \in Unit |-> 0]
  /\ settings \in Policy
  /\ ~settings.enabled
  /\ row = Cleared
  /\ call = [h \in Handler |-> Idle]
  /\ due = 0
  /\ barrier = [u \in Unit |-> FALSE]
  /\ stale = {}
  /\ quiet = {}
  /\ astray = {}

Next ==
  \/ \E u \in Unit : Incur(u) \/ \E a \in 1 .. MaxOwed : Pay(u, a) \/ Drop(u, a)
  \/ \E h \in Handler :
       \/ RecomputeForUser(h) \/ OnInvoicePaid(h) \/ \E s \in Policy : UpdateSettings(h, s)
       \/ ReadSettings(h) \/ ReadArrears(h) \/ ReadRows(h)
       \/ \E u \in Unit : WriteRow(h, u) \/ ForceRestrict(h, u) \/ ForceClear(h, u)
       \/ Deliver(h) \/ WebhookFails(h) \/ Die(h)
  \/ LoseEvent

Spec == Init /\ [][Next]_vars

-----------------------------------------------------------------------------
TypeOK ==
  /\ owed \in [Unit -> 0 .. MaxOwed]
  /\ settings \in Policy
  /\ row \in [Unit -> Restriction]
  /\ call \in [Handler -> Call]
  /\ due \in 0 .. MaxDue
  /\ barrier \in [Unit -> BOOLEAN]
  /\ stale \subseteq Unit
  /\ quiet \subseteq Unit
  /\ astray \subseteq Unit

(* A recompute is due or at work that will find the unit out of arrears    *)
(* and its restriction in place.                                           *)
WillClear(u) ==
  \/ due > 0
  \/ \E h \in Handler :
       \/ call[h].pc = "begun"
       \/ call[h].pc = "arrears" /\ call[h].min = settings.minOutstanding
       \/ call[h].pc = "rows" /\ u \notin call[h].owing
       \/ /\ call[h].pc \in {"writing", "notifying"}
          /\ u \in call[h].left /\ u \notin call[h].owing /\ call[h].read[u].active

(* "pay to unlock": a unit the engine restricted and that is no longer in  *)
(* arrears is about to be cleared; what leaves it blocked is a write from  *)
(* an outdated reading, or arrears that fell without an event.             *)
PaidIsUnlocked ==
  \A u \in Unit \ (stale \cup quiet) :
    Blocked(u) /\ row[u].source = "AUTO" /\ ~Qualifies(u) => WillClear(u)

(* The barrier does what the row says once no webhook about the unit is    *)
(* under way, unless one crossed another, failed or was never sent.        *)
BarrierFollows ==
  \A u \in Unit \ astray :
    Notifying(u) = {} => barrier[u] = row[u].active
=============================================================================
