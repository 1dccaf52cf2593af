--------------------------- MODULE DepositProofs ---------------------------
(***************************************************************************)
(* Theorems about Deposit.                                                 *)
(*                                                                         *)
(* Four invariants, each inductive with those before it.  Base holds in    *)
(* every interleaving: a request keeps reading the deposit it read, whose  *)
(* amount never changes.  RacesOK says what overlaps the history has seen, *)
(* and that a request nothing has overlapped still has the row it read.    *)
(* RowsOK needs no release to have overlapped: the row a request has read  *)
(* was right when it read it, and a refund writes a right row from a right *)
(* row.  InStep needs nothing to have overlapped: every key booked so far  *)
(* is below the next one, so every payout is booked exactly once.  Falls   *)
(* and Drained are what a booking needs to know of its deposit.            *)
(***************************************************************************)
EXTENDS Deposit, TLAPS

Base ==
  /\ DepositTypeOK
  /\ \A d \in Deposit : ~Exists(d) => deposit[d] = NoRow /\ books[d] = NoBooks
  /\ \A h \in Handler :
       req[h].pc # "idle" =>
         /\ req[h].dep \in Deposit
         /\ Exists(req[h].dep)
         /\ req[h].row.amount = deposit[req[h].dep].amount

(* Two requests at work on a deposit have been seen to overlap.            *)
Overlaps ==
  \A h, g \in Handler :
    h # g /\ req[h].pc # "idle" /\ req[h].dep = req[g].dep =>
      /\ raced[req[h].dep] # "no"
      /\ req[h].pc = "release" => raced[req[h].dep] = "release"

(* A request that nothing overlapped has read what is still in the table.  *)
Alone(h) ==
  \/ raced[req[h].dep] = "no"
  \/ req[h].pc = "release" /\ raced[req[h].dep] # "release"
Fresh ==
  \A h \in Handler : req[h].pc # "idle" /\ Alone(h) => req[h].row = deposit[req[h].dep]

RacesOK == Overlaps /\ Fresh

(* A request that will write has read a right row and asks for no more     *)
(* than it holds.                                                          *)
ReadsOK ==
  \A h \in Handler :
    /\ req[h].pc = "refund" => req[h].amount > 0
    /\ req[h].pc = "refund" /\ raced[req[h].dep] # "release" =>
         RowOK(req[h].row) /\ Refundable(req[h].row, req[h].amount)
    /\ req[h].pc = "release" => Held(req[h].row) > 0

RowsOK == RowWithinAmount /\ ReadsOK

(* What the ledger and the receipts say is what the row says, and the      *)
(* cumulative amounts that make the next keys have not been reached.       *)
InStep ==
  /\ FundIsHeld
  /\ \A d \in Deposit :
       raced[d] = "no" =>
         \A k \in books[d].keys :
           IF k[1] THEN k[2] <= deposit[d].forfeited ELSE k[2] <= deposit[d].refunded

-----------------------------------------------------------------------------
(* Booking a payout keeps a deposit's books of their kind, whether or not  *)
(* the ledger's upsert finds the key.                                      *)
LEMMA BookType ==
  ASSUME NEW b \in Books, NEW f \in BOOLEAN, NEW at \in Nat, NEW a \in Nat
  PROVE  Receipt(Book(b, f, at, a), f, a) \in Books
<1>1. Book(b, f, at, a) \in Books
  <2>1. CASE <<f, at>> \in b.keys
    BY <2>1 DEF Book, Books
  <2>2. CASE <<f, at>> \notin b.keys
    <3>1. b.keys \cup {<<f, at>>} \in SUBSET (BOOLEAN \X Nat)
      BY DEF Books
    <3>2. b.income + (IF f THEN a ELSE 0) \in Nat /\ b.fund - a \in Int
      BY DEF Books
    <3> QED BY <2>2, <3>1, <3>2 DEF Book, Books
  <2> QED BY <2>1, <2>2
<1>2. ASSUME NEW c \in Books
      PROVE  Receipt(c, f, a) \in Books
  <2>1. c.paidOut + (IF f THEN 0 ELSE a) \in Nat
    BY DEF Books
  <2> QED BY <2>1 DEF Receipt, Books
<1> QED BY <1>1, <1>2

(* The row a refund computes has the amount of the row it read.            *)
LEMMA RefundedType ==
  ASSUME NEW row \in Row, NEW a \in Nat, NEW f \in BOOLEAN
  PROVE  LET new == Refunded(row, a, f)
         IN /\ [new EXCEPT !.status = StatusFor(new)] \in Row
            /\ new.amount = row.amount
            /\ new.refunded = IF f THEN row.refunded ELSE row.refunded + a
            /\ new.forfeited = IF f THEN row.forfeited + a ELSE row.forfeited
<1>1. Refunded(row, a, f) \in Row
  BY DEF Refunded, Row
<1>2. ASSUME NEW new \in Row
      PROVE  [new EXCEPT !.status = StatusFor(new)] \in Row
  BY DEF StatusFor, Row, DepositStatus
<1> QED BY <1>1, <1>2 DEF Refunded, Row

(* refundHeldInTx adds to a row what the read row held.                    *)
LEMMA HeldType ==
  ASSUME NEW row \in Row
  PROVE  Held(row) \in Nat /\ Left(row) \in Int
BY DEF Held, Left, Row

(* What the start of request r by h leaves behind.                         *)
Seen(h, r) ==
  /\ req' = [req EXCEPT ![h] = r]
  /\ UNCHANGED <<deposit, books>>
  /\ raced' \in [Deposit -> Races]
  /\ \A e \in Deposit : /\ raced[e] # "no" => raced'[e] # "no"
                        /\ raced[e] = "release" => raced'[e] = "release"
  /\ \A g \in Handler :
       req[g].dep = r.dep =>
         /\ raced'[r.dep] # "no"
         /\ r.pc = "release" \/ req[g].pc = "release" => raced'[r.dep] = "release"

(* A request that begins is seen to overlap those at work on its deposit,  *)
(* and what was seen before stays.                                         *)
LEMMA Begun ==
  ASSUME Base, NEW h \in Handler, NEW r, r.dep \in Deposit, Begin(h, r)
  PROVE  Seen(h, r)
<1> USE DEF Base, DepositTypeOK, Races
<1>1. raced' = [raced EXCEPT ![r.dep] = Met(r.dep, r.pc)]
  BY DEF Begin
<1>2. Met(r.dep, r.pc) \in Races
  BY DEF Met
<1>3. /\ raced[r.dep] # "no" => Met(r.dep, r.pc) # "no"
      /\ raced[r.dep] = "release" => Met(r.dep, r.pc) = "release"
  BY DEF Met
<1>4. \A g \in Handler :
        req[g].dep = r.dep =>
          /\ Met(r.dep, r.pc) # "no"
          /\ r.pc = "release" \/ req[g].pc = "release" => Met(r.dep, r.pc) = "release"
  BY DEF Met, AtWork
<1>5. raced'[r.dep] = Met(r.dep, r.pc)
  BY <1>1
<1> QED BY <1>1, <1>2, <1>3, <1>4, <1>5 DEF Begin, Seen

-----------------------------------------------------------------------------
(* Recording, refunding and releasing keep Base: only Record sets an       *)
(* amount, on a row no request has read.                                   *)
LEMMA BaseStep ==
  ASSUME Base, [NextDeposit]_depositVars
  PROVE  Base'
<1> USE DepositAssumption DEF Base, DepositTypeOK
<1>1. ASSUME NEW h \in Handler, NEW d \in Deposit, NEW a \in Amount, Record(h, d, a)
      PROVE  Base'
  <2>1. [NoRow EXCEPT !.status = "HELD", !.amount = a] \in Row
    BY DEF NoRow, Row, DepositStatus
  <2>2. [books[d] EXCEPT !.fund = a] \in Books
    <3>1. ASSUME NEW b \in Books PROVE [b EXCEPT !.fund = a] \in Books
      BY DEF Books
    <3> QED BY <3>1
  <2>3. deposit' = [deposit EXCEPT ![d] = [NoRow EXCEPT !.status = "HELD", !.amount = a]]
    BY <1>1 DEF Record, Hold
  <2>4. books' = [books EXCEPT ![d] = [books[d] EXCEPT !.fund = a]] /\ req' = req /\ raced' = raced
       /\ ~Exists(d)
    BY <1>1 DEF Record, Hold
  <2>5. DepositTypeOK'
    BY <2>1, <2>2, <2>3, <2>4
  <2>6. \A e \in Deposit : e # d => deposit'[e] = deposit[e] /\ books'[e] = books[e]
    BY <2>3, <2>4
  <2>7. deposit'[d].status = "HELD"
    BY <2>3 DEF NoRow
  <2> QED BY <2>4, <2>5, <2>6, <2>7 DEF Exists
<1>2. ASSUME NEW h \in Handler, NEW d \in Deposit, NEW a \in Nat, NEW f \in BOOLEAN,
             RefundRead(h, d, a, f)
      PROVE  Base'
  <2> DEFINE r == [pc |-> "refund", dep |-> d, row |-> deposit[d], amount |-> a, forfeit |-> f]
  <2>1. r \in Request /\ r.dep = d /\ r.row = deposit[d]
    BY DEF Request
  <2>2. Begin(h, r) /\ Exists(d)
    BY <1>2 DEF RefundRead
  <2> HIDE DEF r
  <2>3. req' = [req EXCEPT ![h] = r] /\ UNCHANGED <<deposit, books>>
        /\ raced' \in [Deposit -> Races]
    BY <2>1, <2>2, Begun DEF Seen
  <2> QED BY <2>1, <2>2, <2>3 DEF Exists
<1>3. ASSUME NEW h \in Handler, RefundWrite(h)
      PROVE  Base'
  <2> DEFINE r == req[h]
             d == r.dep
             new == Refunded(r.row, r.amount, r.forfeit)
             at == IF r.forfeit THEN new.forfeited ELSE new.refunded
             nrow == [new EXCEPT !.status = StatusFor(new)]
             nbooks == Receipt(Book(books[d], r.forfeit, at, r.amount), r.forfeit, r.amount)
  <2>1. r \in Request /\ r.pc = "refund" /\ d \in Deposit /\ r.row \in Row /\ r.amount \in Nat
        /\ r.forfeit \in BOOLEAN /\ Exists(d) /\ r.row.amount = deposit[d].amount
    BY <1>3 DEF RefundWrite, Request
  <2>2. nrow \in Row /\ new.amount = deposit[d].amount /\ at \in Nat
    BY <2>1, RefundedType DEF Row
  <2>3. nrow.amount = deposit[d].amount /\ nrow.status # "none"
    <3>1. new \in Row
      BY <2>1 DEF Refunded, Row
    <3> QED BY <2>2, <3>1 DEF Row, StatusFor
  <2>4. nbooks \in Books
    BY <2>1, <2>2, BookType
  <2>5. /\ deposit' = [deposit EXCEPT ![d] = nrow]
        /\ books' = [books EXCEPT ![d] = nbooks]
        /\ req' = [req EXCEPT ![h] = Idle]
        /\ raced' = raced
    BY <1>3 DEF RefundWrite
  <2>6. Idle \in Request /\ Idle.pc = "idle"
    BY DEF Idle, Request, NoRow, Row, DepositStatus
  <2> HIDE DEF r, d, new, at, nrow, nbooks
  <2>7. DepositTypeOK'
    BY <2>1, <2>2, <2>4, <2>5, <2>6
  <2>8. \A e \in Deposit : Exists(e)' <=> Exists(e)
    BY <2>1, <2>3, <2>5 DEF Exists
  <2>9. \A e \in Deposit : deposit'[e].amount = deposit[e].amount
    BY <2>1, <2>3, <2>5
  <2>10. \A e \in Deposit : ~Exists(e) => deposit'[e] = deposit[e] /\ books'[e] = books[e]
    BY <2>1, <2>5
  <2> QED BY <2>5, <2>6, <2>7, <2>8, <2>9, <2>10
<1>4. ASSUME NEW h \in Handler, NEW d \in Deposit, ReleaseRead(h, d)
      PROVE  Base'
  <2> DEFINE r == [Idle EXCEPT !.pc = "release", !.dep = d, !.row = deposit[d]]
  <2>1. r \in Request /\ r.dep = d /\ r.row = deposit[d]
    BY DEF Request, Idle
  <2>2. Begin(h, r) /\ Exists(d)
    BY <1>4 DEF ReleaseRead
  <2> HIDE DEF r
  <2>3. req' = [req EXCEPT ![h] = r] /\ UNCHANGED <<deposit, books>>
        /\ raced' \in [Deposit -> Races]
    BY <2>1, <2>2, Begun DEF Seen
  <2> QED BY <2>1, <2>2, <2>3 DEF Exists
<1>5. ASSUME NEW h \in Handler, ReleaseWrite(h)
      PROVE  Base'
  <2> DEFINE d == req[h].dep
             row == req[h].row
             nrow == ReleasedRow(d, row)
             nbooks == ReleasedBooks(d, row)
  <2>1. req[h] \in Request /\ req[h].pc = "release" /\ d \in Deposit /\ row \in Row /\ Exists(d)
    BY <1>5 DEF ReleaseWrite, Request
  <2>2. Held(row) \in Nat /\ row.refunded + Held(row) \in Nat
    BY <2>1, HeldType DEF Row
  <2>3. nrow \in Row /\ nrow.status = "REFUNDED" /\ nrow.amount = deposit[d].amount
    <3>1. ASSUME NEW q \in Row, NEW n \in Nat
          PROVE  LET p == [q EXCEPT !.refunded = n, !.status = "REFUNDED"]
                 IN p \in Row /\ p.status = "REFUNDED" /\ p.amount = q.amount
      BY DEF Row, DepositStatus
    <3> QED BY <2>1, <2>2, <3>1 DEF ReleasedRow
  <2>4. nbooks \in Books
    BY <2>1, <2>2, BookType DEF ReleasedBooks
  <2>5. /\ deposit' = [deposit EXCEPT ![d] = nrow]
        /\ books' = [books EXCEPT ![d] = nbooks]
        /\ req' = [req EXCEPT ![h] = Idle]
        /\ raced' = raced
    BY <1>5 DEF ReleaseWrite
  <2>6. Idle \in Request /\ Idle.pc = "idle"
    BY DEF Idle, Request, NoRow, Row, DepositStatus
  <2> HIDE DEF d, row, nrow, nbooks
  <2>7. DepositTypeOK'
    BY <2>1, <2>3, <2>4, <2>5, <2>6
  <2>8. \A e \in Deposit : (Exists(e)' <=> Exists(e)) /\ deposit'[e].amount = deposit[e].amount
    BY <2>1, <2>3, <2>5 DEF Exists
  <2>9. \A e \in Deposit : ~Exists(e) => deposit'[e] = deposit[e] /\ books'[e] = books[e]
    BY <2>1, <2>5
  <2> QED BY <2>5, <2>6, <2>7, <2>8, <2>9
<1>6. ASSUME NEW h \in Handler, Abandon(h)
      PROVE  Base'
  <2>1. Idle \in Request /\ Idle.pc = "idle"
    BY DEF Idle, Request, NoRow, Row, DepositStatus
  <2> QED BY <1>6, <2>1 DEF Abandon, Exists
<1>7. CASE UNCHANGED depositVars
  BY <1>7 DEF depositVars, Exists
<1>8. \A d \in Deposit : 1 .. deposit[d].amount \subseteq Nat
  BY DEF Row
<1> QED
  BY <1>1, <1>2, <1>3, <1>4, <1>5, <1>6, <1>7, <1>8 DEF NextDeposit, Endpoints, Refunds

-----------------------------------------------------------------------------
(* What a payout leaves in a deposit's books: the fund falls by no more    *)
(* than income and receipts rise; and by exactly the amount when the key   *)
(* of its ledger entry is new.                                             *)
LEMMA BookValues ==
  ASSUME NEW b \in Books, NEW f \in BOOLEAN, NEW at \in Nat, NEW a \in Nat
  PROVE  LET c == Receipt(Book(b, f, at, a), f, a)
         IN /\ b.fund - c.fund <= (c.income - b.income) + (c.paidOut - b.paidOut)
            /\ <<f, at>> \notin b.keys =>
                 /\ c.fund = b.fund - a
                 /\ c.income = b.income + (IF f THEN a ELSE 0)
                 /\ c.paidOut = b.paidOut + (IF f THEN 0 ELSE a)
                 /\ c.keys = b.keys \cup {<<f, at>>}
<1> DEFINE k == Book(b, f, at, a)
           c == Receipt(k, f, a)
<1>1. CASE <<f, at>> \in b.keys
  <2>1. k = b
    BY <1>1 DEF Book
  <2>2. c.fund = b.fund /\ c.income = b.income /\ c.paidOut = b.paidOut + (IF f THEN 0 ELSE a)
    BY <2>1 DEF Receipt, Books
  <2> QED BY <1>1, <2>2 DEF Books
<1>2. CASE <<f, at>> \notin b.keys
  <2>1. k = [b EXCEPT !.keys = @ \cup {<<f, at>>}, !.fund = @ - a,
                      !.income = @ + (IF f THEN a ELSE 0)]
    BY <1>2 DEF Book
  <2>2. /\ c.fund = b.fund - a
        /\ c.income = b.income + (IF f THEN a ELSE 0)
        /\ c.paidOut = b.paidOut + (IF f THEN 0 ELSE a)
        /\ c.keys = b.keys \cup {<<f, at>>}
    BY <2>1 DEF Receipt, Books
  <2> QED BY <2>2 DEF Books
<1> QED BY <1>1, <1>2

(* The same for a refund, which has no income entry.                       *)
LEMMA RefundValues ==
  ASSUME NEW b \in Books, NEW at \in Nat, NEW a \in Nat, <<FALSE, at>> \notin b.keys
  PROVE  LET c == Receipt(Book(b, FALSE, at, a), FALSE, a)
         IN /\ c.fund = b.fund - a
            /\ c.income = b.income
            /\ c.paidOut = b.paidOut + a
            /\ c.keys = b.keys \cup {<<FALSE, at>>}
<1>1. ASSUME NEW f \in BOOLEAN, f = FALSE
      PROVE  LET c == Receipt(Book(b, f, at, a), f, a)
             IN /\ c.fund = b.fund - a
                /\ c.income = b.income
                /\ c.paidOut = b.paidOut + a
                /\ c.keys = b.keys \cup {<<f, at>>}
  <2> DEFINE c == Receipt(Book(b, f, at, a), f, a)
  <2>1. <<f, at>> \notin b.keys
    BY <1>1
  <2>2. /\ c.fund = b.fund - a
        /\ c.income = b.income + (IF f THEN a ELSE 0)
        /\ c.paidOut = b.paidOut + (IF f THEN 0 ELSE a)
        /\ c.keys = b.keys \cup {<<f, at>>}
    BY <1>1, <2>1, BookValues
  <2>3. b.income \in Nat /\ b.paidOut \in Nat
    BY DEF Books
  <2> HIDE DEF c
  <2>4. c.income = b.income /\ c.paidOut = b.paidOut + a
    BY <1>1, <2>2, <2>3
  <2>5. c.fund = b.fund - a /\ c.keys = b.keys \cup {<<f, at>>}
    BY <2>2
  <2> QED BY <2>4, <2>5 DEF c
<1> QED BY <1>1, Zenon

(* A refund and a release, as the change each makes to one deposit.        *)
LEMMA RefundChange ==
  ASSUME Base, NEW h \in Handler, RefundWrite(h)
  PROVE  LET r == req[h]
             new == Refunded(r.row, r.amount, r.forfeit)
             at == IF r.forfeit THEN new.forfeited ELSE new.refunded
         IN /\ r \in Request /\ r.pc = "refund" /\ r.dep \in Deposit
            /\ Exists(r.dep) /\ r.row.amount = deposit[r.dep].amount
            /\ at \in Nat /\ new \in Row /\ new.amount = r.row.amount
            /\ deposit' = [deposit EXCEPT ![r.dep] = [new EXCEPT !.status = StatusFor(new)]]
            /\ books' = [books EXCEPT ![r.dep] =
                 Receipt(Book(books[r.dep], r.forfeit, at, r.amount), r.forfeit, r.amount)]
            /\ req' = [req EXCEPT ![h] = Idle] /\ raced' = raced
<1>1. req[h] \in Request /\ req[h].pc = "refund"
  BY DEF Base, DepositTypeOK, RefundWrite
<1>2. req[h].row \in Row /\ req[h].amount \in Nat /\ req[h].forfeit \in BOOLEAN
  BY <1>1 DEF Request
<1>3. Refunded(req[h].row, req[h].amount, req[h].forfeit) \in Row
  BY <1>2 DEF Refunded, Row
<1>4. Refunded(req[h].row, req[h].amount, req[h].forfeit).amount = req[h].row.amount
  BY <1>2, RefundedType
<1> QED BY <1>1, <1>3, <1>4 DEF RefundWrite, Base, Row

(* See RefundChange.                                                       *)
LEMMA ReleaseChange ==
  ASSUME Base, NEW h \in Handler, ReleaseWrite(h)
  PROVE  LET d == req[h].dep
             row == req[h].row
         IN /\ req[h] \in Request /\ req[h].pc = "release" /\ d \in Deposit
            /\ row \in Row /\ Exists(d) /\ row.amount = deposit[d].amount
            /\ Held(row) \in Nat /\ row.refunded + Held(row) \in Nat
            /\ deposit' = [deposit EXCEPT ![d] =
                 [deposit[d] EXCEPT !.refunded = row.refunded + Held(row), !.status = "REFUNDED"]]
            /\ books' = [books EXCEPT ![d] =
                 Receipt(Book(books[d], FALSE, row.refunded + Held(row), Held(row)),
                         FALSE, Held(row))]
            /\ req' = [req EXCEPT ![h] = Idle] /\ raced' = raced
<1>1. req[h] \in Request /\ req[h].pc = "release"
  BY DEF Base, DepositTypeOK, ReleaseWrite
<1>2. req[h].row \in Row
  BY <1>1 DEF Request
<1>3. Held(req[h].row) \in Nat /\ req[h].row.refunded + Held(req[h].row) \in Nat
  BY <1>2, HeldType DEF Row
<1> QED BY <1>1, <1>2, <1>3 DEF ReleaseWrite, ReleasedRow, ReleasedBooks, Base

(* The fund of a deposit falls only in a payout, by no more than the       *)
(* payout books as income or receipts.                                     *)
LEMMA ExplainedStep ==
  ASSUME Base, LiabilityExplained, [NextDeposit]_depositVars
  PROVE  LiabilityExplained'
<1> USE DEF LiabilityExplained
<1>0. /\ \A d \in Deposit : deposit[d] \in Row /\ books[d] \in Books
      /\ DOMAIN deposit = Deposit /\ DOMAIN books = Deposit
  BY DEF Base, DepositTypeOK
<1>1. ASSUME NEW h \in Handler, NEW d \in Deposit, NEW a \in Amount, Record(h, d, a)
      PROVE  LiabilityExplained'
  <2>1. books[d] = NoBooks
    BY <1>1 DEF Record, Hold, Base
  <2>2. /\ deposit' = [deposit EXCEPT ![d] = [NoRow EXCEPT !.status = "HELD", !.amount = a]]
        /\ books' = [books EXCEPT ![d] = [NoBooks EXCEPT !.fund = a]]
    BY <1>1, <2>1 DEF Record, Hold
  <2>3. /\ deposit'[d].amount = a /\ books'[d].fund = a
        /\ books'[d].income = 0 /\ books'[d].paidOut = 0
    BY <1>0, <2>2 DEF NoRow, NoBooks
  <2>4. \A e \in Deposit : e # d => deposit'[e] = deposit[e] /\ books'[e] = books[e]
    BY <1>0, <2>2
  <2> QED BY <2>3, <2>4, DepositAssumption
<1>2. ASSUME NEW h \in Handler, RefundWrite(h)
      PROVE  LiabilityExplained'
  <2> DEFINE r == req[h]
             new == Refunded(r.row, r.amount, r.forfeit)
             at == IF r.forfeit THEN new.forfeited ELSE new.refunded
             c == Receipt(Book(books[r.dep], r.forfeit, at, r.amount), r.forfeit, r.amount)
  <2>1. /\ r.dep \in Deposit /\ r.forfeit \in BOOLEAN /\ r.amount \in Nat /\ at \in Nat
        /\ new \in Row /\ new.amount = deposit[r.dep].amount
        /\ deposit' = [deposit EXCEPT ![r.dep] = [new EXCEPT !.status = StatusFor(new)]]
        /\ books' = [books EXCEPT ![r.dep] = c]
    BY <1>2, RefundChange DEF Request
  <2>2. /\ books[r.dep].fund - c.fund
             <= (c.income - books[r.dep].income) + (c.paidOut - books[r.dep].paidOut)
        /\ c \in Books
    BY <1>0, <2>1, BookValues, BookType
  <2>3. deposit'[r.dep].amount = deposit[r.dep].amount /\ books'[r.dep] = c
    BY <1>0, <2>1 DEF Row
  <2>4. \A e \in Deposit : e # r.dep => deposit'[e] = deposit[e] /\ books'[e] = books[e]
    BY <1>0, <2>1
  <2> HIDE DEF r, new, at, c
  <2>5. deposit[r.dep] \in Row /\ books[r.dep] \in Books
    BY <1>0, <2>1
  <2>6. deposit[r.dep].amount - c.fund <= c.income + c.paidOut
    BY <2>1, <2>2, <2>5 DEF Row, Books
  <2> QED BY <2>1, <2>3, <2>4, <2>6
<1>3. ASSUME NEW h \in Handler, ReleaseWrite(h)
      PROVE  LiabilityExplained'
  <2> DEFINE d == req[h].dep
             row == req[h].row
             c == Receipt(Book(books[d], FALSE, row.refunded + Held(row), Held(row)),
                          FALSE, Held(row))
  <2>1. /\ d \in Deposit /\ row.refunded + Held(row) \in Nat /\ Held(row) \in Nat
        /\ deposit' = [deposit EXCEPT ![d] =
             [deposit[d] EXCEPT !.refunded = row.refunded + Held(row), !.status = "REFUNDED"]]
        /\ books' = [books EXCEPT ![d] = c]
    BY <1>3, ReleaseChange
  <2>2. books[d].fund - c.fund <= (c.income - books[d].income) + (c.paidOut - books[d].paidOut)
        /\ c \in Books
    BY <1>0, <2>1, BookValues, BookType
  <2>3. deposit'[d].amount = deposit[d].amount /\ books'[d] = c
    BY <1>0, <2>1 DEF Row
  <2>4. \A e \in Deposit : e # d => deposit'[e] = deposit[e] /\ books'[e] = books[e]
    BY <1>0, <2>1
  <2> HIDE DEF d, row, c
  <2>5. deposit[d] \in Row /\ books[d] \in Books
    BY <1>0, <2>1
  <2>6. deposit[d].amount - c.fund <= c.income + c.paidOut
    BY <2>1, <2>2, <2>5 DEF Row, Books
  <2> QED BY <2>1, <2>3, <2>4, <2>6
<1>4. ASSUME UNCHANGED <<deposit, books>>
      PROVE  LiabilityExplained'
  BY <1>4
<1> QED
  BY <1>1, <1>2, <1>3, <1>4
  DEF NextDeposit, Endpoints, Refunds, depositVars, RefundRead, ReleaseRead, Begin, Abandon

-----------------------------------------------------------------------------
(* A refund of what a right row holds gives a right row, whatever the row  *)
(* in the table is by then.                                                *)
LEMMA RefundedOK ==
  ASSUME NEW row \in Row, RowOK(row), NEW a \in Nat, Refundable(row, a), NEW f \in BOOLEAN
  PROVE  LET new == Refunded(row, a, f) IN RowOK([new EXCEPT !.status = StatusFor(new)])
<1> DEFINE new == Refunded(row, a, f)
           out == [new EXCEPT !.status = StatusFor(new)]
<1>1. /\ new \in Row /\ out \in Row /\ new.amount = row.amount
      /\ new.refunded = IF f THEN row.refunded ELSE row.refunded + a
      /\ new.forfeited = IF f THEN row.forfeited + a ELSE row.forfeited
  BY RefundedType DEF Refunded, Row
<1>2. /\ out.refunded = new.refunded /\ out.forfeited = new.forfeited
      /\ out.amount = new.amount /\ out.status = StatusFor(new)
  BY <1>1 DEF Row
<1>3. /\ row.amount \in Nat /\ row.refunded \in Nat /\ row.forfeited \in Nat
      /\ a > 0 /\ a <= row.amount - row.refunded - row.forfeited
  BY DEF Refundable, Held, Left, Row
<1>4. Left(new) = row.amount - row.refunded - row.forfeited - a /\ Left(out) = Left(new)
  BY <1>1, <1>2, <1>3 DEF Left
<1>5. out.refunded + out.forfeited <= out.amount
  BY <1>1, <1>2, <1>3
<1>6. Left(out) = 0 <=> out.status \in {"REFUNDED", "FORFEITED"}
  BY <1>2, <1>3, <1>4 DEF StatusFor
<1>7. out.status = "FORFEITED" => out.refunded = 0
  BY <1>2 DEF StatusFor
<1>8. out.status # "HELD"
  BY <1>2 DEF StatusFor
<1> HIDE DEF new, out
<1>9. RowOK(out)
  BY <1>5, <1>6, <1>7, <1>8 DEF RowOK
<1> QED BY <1>9 DEF new, out

(* A request that begins sees the others on its deposit; one that writes   *)
(* changes the row under no request that nothing overlapped.               *)
LEMMA RacesStep ==
  ASSUME Base, RacesOK, [NextDeposit]_depositVars
  PROVE  RacesOK'
<1> USE DEF RacesOK, Overlaps, Fresh, Alone
<1>0. /\ \A h \in Handler : req[h] \in Request
      /\ DOMAIN deposit = Deposit /\ DOMAIN req = Handler /\ DOMAIN raced = Deposit
      /\ Idle.pc = "idle" /\ Idle.dep = NoDeposit
  BY DEF Base, DepositTypeOK, Idle
<1>1. ASSUME NEW h \in Handler, NEW r, r.dep \in Deposit, r.row = deposit[r.dep],
             req[h] = Idle, Begin(h, r)
      PROVE  RacesOK'
  <2>1. /\ req' = [req EXCEPT ![h] = r]
        /\ UNCHANGED <<deposit, books>>
        /\ \A e \in Deposit : /\ raced[e] # "no" => raced'[e] # "no"
                              /\ raced[e] = "release" => raced'[e] = "release"
        /\ \A g \in Handler :
             req[g].dep = r.dep =>
               /\ raced'[r.dep] # "no"
               /\ r.pc = "release" \/ req[g].pc = "release" => raced'[r.dep] = "release"
    BY <1>1, Begun DEF Seen
  <2>2. req'[h] = r /\ \A g \in Handler : g # h => req'[g] = req[g]
    BY <1>0, <2>1
  <2>3. \A g \in Handler : req[g].pc # "idle" => req[g].dep \in Deposit
    BY DEF Base
  <2>4. ASSUME NEW g \in Handler, NEW k \in Handler, g # k, req'[g].pc # "idle",
               req'[g].dep = req'[k].dep
        PROVE  /\ raced'[req'[g].dep] # "no"
               /\ req'[g].pc = "release" => raced'[req'[g].dep] = "release"
    <3>1. CASE g = h
      BY <2>1, <2>2, <2>4, <3>1
    <3>2. CASE k = h
      BY <2>1, <2>2, <2>4, <3>2
    <3>3. CASE g # h /\ k # h
      BY <2>1, <2>2, <2>3, <2>4, <3>3
    <3> QED BY <3>1, <3>2, <3>3
  <2>5. ASSUME NEW g \in Handler, req'[g].pc # "idle",
               \/ raced'[req'[g].dep] = "no"
               \/ req'[g].pc = "release" /\ raced'[req'[g].dep] # "release"
        PROVE  req'[g].row = deposit'[req'[g].dep]
    <3>1. CASE g = h
      BY <1>1, <2>1, <2>2, <3>1
    <3>2. CASE g # h
      BY <2>1, <2>2, <2>3, <2>5, <3>2
    <3> QED BY <3>1, <3>2
  <2> QED BY <2>4, <2>5
<1>2. ASSUME NEW h \in Handler, NEW d \in Deposit, NEW a \in Nat, NEW f \in BOOLEAN,
             RefundRead(h, d, a, f)
      PROVE  RacesOK'
  <2> DEFINE r == [pc |-> "refund", dep |-> d, row |-> deposit[d], amount |-> a, forfeit |-> f]
  <2>1. r.dep = d /\ r.row = deposit[d]
    OBVIOUS
  <2>2. Begin(h, r) /\ req[h] = Idle
    BY <1>2 DEF RefundRead
  <2> HIDE DEF r
  <2> QED BY <1>1, <2>1, <2>2
<1>3. ASSUME NEW h \in Handler, NEW d \in Deposit, ReleaseRead(h, d)
      PROVE  RacesOK'
  <2> DEFINE r == [Idle EXCEPT !.pc = "release", !.dep = d, !.row = deposit[d]]
  <2>1. r.dep = d /\ r.row = deposit[d]
    BY DEF Idle
  <2>2. Begin(h, r) /\ req[h] = Idle
    BY <1>3 DEF ReleaseRead
  <2> HIDE DEF r
  <2> QED BY <1>1, <2>1, <2>2
<1>4. ASSUME NEW h \in Handler, NEW d \in Deposit, NEW a \in Amount, Record(h, d, a)
      PROVE  RacesOK'
  <2>1. req' = req /\ raced' = raced /\ ~Exists(d)
        /\ \A e \in Deposit : e # d => deposit'[e] = deposit[e]
    BY <1>0, <1>4 DEF Record, Hold
  <2>2. \A g \in Handler : req[g].pc # "idle" => req[g].dep \in Deposit /\ req[g].dep # d
    BY <2>1 DEF Base
  <2> QED BY <2>1, <2>2
<1>5. ASSUME NEW h \in Handler, RefundWrite(h) \/ ReleaseWrite(h)
      PROVE  RacesOK'
  <2>1. /\ req[h].pc # "idle" /\ req[h].dep \in Deposit
        /\ req' = [req EXCEPT ![h] = Idle] /\ raced' = raced
        /\ \A e \in Deposit : e # req[h].dep => deposit'[e] = deposit[e]
    BY <1>0, <1>5 DEF RefundWrite, ReleaseWrite, Base
  <2>2. req'[h].pc = "idle" /\ req'[h].dep = NoDeposit
        /\ \A g \in Handler : g # h => req'[g] = req[g]
    BY <1>0, <2>1
  <2>3. \A g \in Handler : req[g].pc # "idle" => req[g].dep \in Deposit
    BY DEF Base
  <2>4. Overlaps'
    BY <2>1, <2>2, <2>3, DepositAssumption
  <2>5. ASSUME NEW g \in Handler, req'[g].pc # "idle", Alone(g)'
        PROVE  req'[g].row = deposit'[req'[g].dep]
    BY <2>1, <2>2, <2>3, <2>5
  <2> QED BY <2>4, <2>5
<1>6. ASSUME NEW h \in Handler, Abandon(h)
      PROVE  RacesOK'
  <2>1. req' = [req EXCEPT ![h] = Idle] /\ raced' = raced /\ deposit' = deposit
    BY <1>6 DEF Abandon
  <2>2. req'[h].pc = "idle" /\ req'[h].dep = NoDeposit
        /\ \A g \in Handler : g # h => req'[g] = req[g]
    BY <1>0, <2>1
  <2>3. \A g \in Handler : req[g].pc # "idle" => req[g].dep \in Deposit
    BY DEF Base
  <2> QED BY <2>1, <2>2, <2>3, DepositAssumption
<1>7. CASE UNCHANGED depositVars
  BY <1>7 DEF depositVars
<1>8. \A d \in Deposit : 1 .. deposit[d].amount \subseteq Nat
  BY DEF Base, DepositTypeOK, Row
<1> QED
  BY <1>2, <1>3, <1>4, <1>5, <1>6, <1>7, <1>8 DEF NextDeposit, Endpoints, Refunds

(* Rows stay right: a refund writes what it computed from a right row; a   *)
(* release, which writes one of the two totals, needs the row it read to   *)
(* be the row.                                                             *)
LEMMA RowsStep ==
  ASSUME Base, RacesOK, RowsOK, [NextDeposit]_depositVars
  PROVE  RowsOK'
<1> USE DEF RowsOK, RowWithinAmount, ReadsOK
<1>0. /\ \A d \in Deposit : deposit[d] \in Row
      /\ \A h \in Handler : req[h] \in Request
      /\ DOMAIN deposit = Deposit /\ DOMAIN req = Handler
      /\ \A h \in Handler : req[h].pc # "idle" => req[h].dep \in Deposit /\ Exists(req[h].dep)
      /\ Idle.pc = "idle"
  BY DEF Base, DepositTypeOK, Idle
<1>1. ASSUME NEW h \in Handler, NEW d \in Deposit, NEW a \in Amount, Record(h, d, a)
      PROVE  RowsOK'
  <2>1. /\ deposit' = [deposit EXCEPT ![d] = [NoRow EXCEPT !.status = "HELD", !.amount = a]]
        /\ req' = req /\ raced' = raced
    BY <1>1 DEF Record, Hold
  <2>2. RowOK(deposit'[d])
    BY <1>0, <2>1, DepositAssumption DEF NoRow, RowOK, Left
  <2>3. \A e \in Deposit : e # d => deposit'[e] = deposit[e]
    BY <1>0, <2>1
  <2> QED BY <2>1, <2>2, <2>3 DEF Exists
<1>2. ASSUME NEW h \in Handler, NEW d \in Deposit, NEW a \in Nat, NEW f \in BOOLEAN,
             RefundRead(h, d, a, f)
      PROVE  RowsOK'
  <2> DEFINE r == [pc |-> "refund", dep |-> d, row |-> deposit[d], amount |-> a, forfeit |-> f]
  <2>1. r.pc = "refund" /\ r.dep = d /\ r.row = deposit[d] /\ r.amount = a
    OBVIOUS
  <2>2. Begin(h, r) /\ Exists(d) /\ Refundable(deposit[d], a)
    BY <1>2 DEF RefundRead
  <2> HIDE DEF r
  <2>3. req' = [req EXCEPT ![h] = r] /\ UNCHANGED deposit
        /\ \A e \in Deposit : raced[e] = "release" => raced'[e] = "release"
    BY <2>1, <2>2, Begun DEF Seen
  <2>4. a > 0
    BY <2>2 DEF Refundable
  <2>5. RowWithinAmount'
    BY <2>3 DEF Exists
  <2>6. req'[h] = r /\ \A g \in Handler : g # h => req'[g] = req[g]
    BY <1>0, <2>3
  <2>7. raced'[d] # "release" => RowOK(deposit[d])
    BY <2>2, <2>3
  <2> QED BY <1>0, <2>1, <2>2, <2>3, <2>4, <2>5, <2>6, <2>7
<1>3. ASSUME NEW h \in Handler, RefundWrite(h)
      PROVE  RowsOK'
  <2> DEFINE r == req[h]
             new == Refunded(r.row, r.amount, r.forfeit)
             nrow == [new EXCEPT !.status = StatusFor(new)]
  <2>1. /\ r \in Request /\ r.dep \in Deposit /\ r.pc = "refund"
        /\ deposit' = [deposit EXCEPT ![r.dep] = nrow]
        /\ req' = [req EXCEPT ![h] = Idle] /\ raced' = raced
    BY <1>3, RefundChange
  <2>2. raced[r.dep] # "release" => RowOK(nrow)
    BY <2>1, RefundedOK DEF Request
  <2>3. deposit'[r.dep] = nrow /\ \A e \in Deposit : e # r.dep => deposit'[e] = deposit[e]
    BY <1>0, <2>1
  <2> HIDE DEF r, nrow
  <2>4. RowWithinAmount'
    BY <2>1, <2>2, <2>3 DEF Exists
  <2>5. req'[h].pc = "idle" /\ \A g \in Handler : g # h => req'[g] = req[g]
    BY <1>0, <2>1
  <2> QED BY <2>1, <2>4, <2>5
<1>4. ASSUME NEW h \in Handler, NEW d \in Deposit, ReleaseRead(h, d)
      PROVE  RowsOK'
  <2> DEFINE r == [Idle EXCEPT !.pc = "release", !.dep = d, !.row = deposit[d]]
  <2>1. r.pc = "release" /\ r.dep = d /\ r.row = deposit[d]
    BY DEF Idle
  <2>2. Begin(h, r) /\ Held(deposit[d]) > 0
    BY <1>4 DEF ReleaseRead
  <2> HIDE DEF r
  <2>3. req' = [req EXCEPT ![h] = r] /\ UNCHANGED deposit
        /\ \A e \in Deposit : raced[e] = "release" => raced'[e] = "release"
    BY <2>1, <2>2, Begun DEF Seen
  <2>4. RowWithinAmount'
    BY <2>3 DEF Exists
  <2>5. req'[h] = r /\ \A g \in Handler : g # h => req'[g] = req[g]
    BY <1>0, <2>3
  <2> QED BY <1>0, <2>1, <2>2, <2>3, <2>4, <2>5
<1>5. ASSUME NEW h \in Handler, ReleaseWrite(h)
      PROVE  RowsOK'
  <2> DEFINE d == req[h].dep
             row == req[h].row
             nrow == [deposit[d] EXCEPT !.refunded = row.refunded + Held(row), !.status = "REFUNDED"]
  <2>1. /\ d \in Deposit /\ row \in Row /\ req[h].pc = "release" /\ Exists(d)
        /\ deposit' = [deposit EXCEPT ![d] = nrow]
        /\ req' = [req EXCEPT ![h] = Idle] /\ raced' = raced
    BY <1>5, ReleaseChange
  <2>2. Held(row) > 0 /\ (raced[d] # "release" => row = deposit[d])
    BY <2>1 DEF RacesOK, Fresh, Alone
  <2>3. raced[d] # "release" => RowOK(nrow)
    <3> HAVE raced[d] # "release"
    <3>1. nrow.refunded = row.amount - row.forfeited
      BY <2>1, <2>2 DEF Held, Left, Row
    <3>2. nrow.amount = row.amount /\ nrow.forfeited = row.forfeited /\ nrow.status = "REFUNDED"
      BY <2>1, <2>2 DEF Row
    <3>3. row.amount \in Nat /\ row.forfeited \in Nat
      BY <2>1 DEF Row
    <3> QED BY <3>1, <3>2, <3>3 DEF RowOK, Left
  <2>4. deposit'[d] = nrow /\ \A e \in Deposit : e # d => deposit'[e] = deposit[e]
    BY <1>0, <2>1
  <2> HIDE DEF d, row, nrow
  <2>5. RowWithinAmount'
    BY <2>1, <2>3, <2>4 DEF Exists
  <2>6. req'[h].pc = "idle" /\ \A g \in Handler : g # h => req'[g] = req[g]
    BY <1>0, <2>1
  <2> QED BY <2>1, <2>5, <2>6
<1>6. ASSUME NEW h \in Handler, Abandon(h)
      PROVE  RowsOK'
  <2>1. req' = [req EXCEPT ![h] = Idle] /\ raced' = raced /\ deposit' = deposit
    BY <1>6 DEF Abandon
  <2>2. req'[h].pc = "idle" /\ \A g \in Handler : g # h => req'[g] = req[g]
    BY <1>0, <2>1
  <2> QED BY <2>1, <2>2 DEF Exists
<1>7. CASE UNCHANGED depositVars
  BY <1>7 DEF depositVars, Exists
<1>8. \A d \in Deposit : 1 .. deposit[d].amount \subseteq Nat
  BY <1>0 DEF Row
<1> QED
  BY <1>1, <1>2, <1>3, <1>4, <1>5, <1>6, <1>7, <1>8 DEF NextDeposit, Endpoints, Refunds

(* Nothing overlapped: a payout raises one cumulative amount above all     *)
(* the keys booked with it, so its ledger entry is written, and the books  *)
(* move with the row.                                                      *)
LEMMA InStepStep ==
  ASSUME Base, RacesOK, RowsOK, InStep, [NextDeposit]_depositVars
  PROVE  InStep'
<1> USE DEF InStep, FundIsHeld
<1>0. /\ \A d \in Deposit : deposit[d] \in Row /\ books[d] \in Books
      /\ \A h \in Handler : req[h] \in Request
      /\ DOMAIN deposit = Deposit /\ DOMAIN books = Deposit /\ DOMAIN req = Handler
  BY DEF Base, DepositTypeOK
<1>1. ASSUME NEW h \in Handler, NEW d \in Deposit, NEW a \in Amount, Record(h, d, a)
      PROVE  InStep'
  <2>1. books[d] = NoBooks
    BY <1>1 DEF Record, Hold, Base
  <2>2. /\ deposit' = [deposit EXCEPT ![d] = [NoRow EXCEPT !.status = "HELD", !.amount = a]]
        /\ books' = [books EXCEPT ![d] = [NoBooks EXCEPT !.fund = a]]
        /\ raced' = raced
    BY <1>1, <2>1 DEF Record, Hold
  <2>3. /\ Left(deposit'[d]) = a /\ deposit'[d].refunded = 0 /\ deposit'[d].forfeited = 0
        /\ books'[d].fund = a /\ books'[d].keys = {}
        /\ books'[d].income = 0 /\ books'[d].paidOut = 0
    BY <1>0, <2>2, DepositAssumption DEF NoRow, NoBooks, Left
  <2>4. \A e \in Deposit : e # d => deposit'[e] = deposit[e] /\ books'[e] = books[e]
    BY <1>0, <2>2
  <2> QED BY <2>2, <2>3, <2>4
<1>2. ASSUME NEW h \in Handler, NEW d \in Deposit, NEW a \in Nat, NEW f \in BOOLEAN,
             RefundRead(h, d, a, f)
      PROVE  InStep'
  <2> DEFINE r == [pc |-> "refund", dep |-> d, row |-> deposit[d], amount |-> a, forfeit |-> f]
  <2>1. Begin(h, r) /\ r.dep = d
    BY <1>2 DEF RefundRead
  <2> HIDE DEF r
  <2>2. UNCHANGED <<deposit, books>>
        /\ \A e \in Deposit : raced[e] # "no" => raced'[e] # "no"
    BY <2>1, Begun DEF Seen
  <2> QED BY <2>2
<1>3. ASSUME NEW h \in Handler, RefundWrite(h)
      PROVE  InStep'
  <2> DEFINE r == req[h]
             d == r.dep
             row == r.row
             new == Refunded(row, r.amount, r.forfeit)
             at == IF r.forfeit THEN new.forfeited ELSE new.refunded
             nrow == [new EXCEPT !.status = StatusFor(new)]
             c == Receipt(Book(books[d], r.forfeit, at, r.amount), r.forfeit, r.amount)
  <2>1. /\ r \in Request /\ r.pc = "refund" /\ d \in Deposit /\ at \in Nat /\ new \in Row
        /\ deposit' = [deposit EXCEPT ![d] = nrow]
        /\ books' = [books EXCEPT ![d] = c]
        /\ raced' = raced
    BY <1>3, RefundChange
  <2>9. /\ deposit'[d] = nrow /\ books'[d] = c
        /\ \A e \in Deposit : e # d => deposit'[e] = deposit[e] /\ books'[e] = books[e]
    BY <1>0, <2>1
  <2>14. raced[d] # "no" => InStep'
    <3> HIDE DEF r, d, row, new, at, nrow, c
    <3> QED BY <2>1, <2>9
  <2> SUFFICES ASSUME raced[d] = "no" PROVE InStep'
    BY <2>14
  <2>2. row = deposit[d] /\ row \in Row /\ r.amount \in Nat /\ r.forfeit \in BOOLEAN
    BY <1>0, <2>1 DEF Request, RacesOK, Fresh, Alone
  <2>3. r.amount > 0
    BY <2>1 DEF RowsOK, ReadsOK
  <2>4. /\ new.amount = row.amount
        /\ new.refunded = IF r.forfeit THEN row.refunded ELSE row.refunded + r.amount
        /\ new.forfeited = IF r.forfeit THEN row.forfeited + r.amount ELSE row.forfeited
    BY <2>2, RefundedType
  <2>5. <<r.forfeit, at>> \notin books[d].keys
    <3>1. at > (IF r.forfeit THEN row.forfeited ELSE row.refunded)
      BY <2>2, <2>3, <2>4 DEF Row
    <3>2. row.forfeited \in Nat /\ row.refunded \in Nat
      BY <2>2 DEF Row
    <3> HIDE DEF at
    <3>3. ASSUME <<r.forfeit, at>> \in books[d].keys PROVE FALSE
      <4>1. IF r.forfeit THEN at <= deposit[d].forfeited ELSE at <= deposit[d].refunded
        BY <2>1, <3>3
      <4> QED BY <2>1, <2>2, <3>1, <3>2, <4>1
    <3> QED BY <3>3
  <2>6. /\ c.fund = books[d].fund - r.amount
        /\ c.income = books[d].income + (IF r.forfeit THEN r.amount ELSE 0)
        /\ c.paidOut = books[d].paidOut + (IF r.forfeit THEN 0 ELSE r.amount)
        /\ c.keys = books[d].keys \cup {<<r.forfeit, at>>}
    BY <1>0, <2>1, <2>2, <2>5, BookValues
  <2>7. /\ nrow.amount = new.amount /\ nrow.refunded = new.refunded
        /\ nrow.forfeited = new.forfeited
    BY <2>1 DEF Row
  <2>8. /\ books[d].fund = Left(row) /\ books[d].paidOut = row.refunded
        /\ books[d].income = row.forfeited
    BY <2>1, <2>2
  <2>10. /\ row.amount \in Nat /\ row.refunded \in Nat /\ row.forfeited \in Nat
         /\ \A k \in books[d].keys : k[1] \in BOOLEAN /\ k[2] \in Nat
    BY <1>0, <2>1, <2>2 DEF Row, Books
  <2>11. \A k \in books[d].keys :
            IF k[1] THEN k[2] <= row.forfeited ELSE k[2] <= row.refunded
    BY <2>1, <2>2
  <2>12. \A k \in c.keys : IF k[1] THEN k[2] <= new.forfeited ELSE k[2] <= new.refunded
    <3> SUFFICES ASSUME NEW k \in c.keys
                 PROVE  IF k[1] THEN k[2] <= new.forfeited ELSE k[2] <= new.refunded
      OBVIOUS
    <3>1. CASE k \in books[d].keys
      BY <2>2, <2>4, <2>10, <2>11, <3>1
    <3>2. CASE k = <<r.forfeit, at>>
      BY <2>1, <2>2, <2>4, <2>10, <3>2
    <3> QED BY <2>6, <3>1, <3>2
  <2>13. c.fund = Left(nrow) /\ c.paidOut = nrow.refunded /\ c.income = nrow.forfeited
    <3> HIDE DEF r, row, new, nrow, c
    <3>1. Left(nrow) = Left(row) - r.amount
      BY <2>2, <2>4, <2>7, <2>10 DEF Left
    <3> QED BY <2>2, <2>4, <2>6, <2>7, <2>8, <2>10, <3>1
  <2> HIDE DEF r, d, row, new, at, nrow, c
  <2> QED BY <2>1, <2>7, <2>9, <2>12, <2>13
<1>4. ASSUME NEW h \in Handler, NEW d \in Deposit, ReleaseRead(h, d)
      PROVE  InStep'
  <2> DEFINE r == [Idle EXCEPT !.pc = "release", !.dep = d, !.row = deposit[d]]
  <2>1. Begin(h, r) /\ r.dep = d
    BY <1>4 DEF ReleaseRead, Idle
  <2> HIDE DEF r
  <2>2. UNCHANGED <<deposit, books>>
        /\ \A e \in Deposit : raced[e] # "no" => raced'[e] # "no"
    BY <2>1, Begun DEF Seen
  <2> QED BY <2>2
<1>5. ASSUME NEW h \in Handler, ReleaseWrite(h)
      PROVE  InStep'
  <2> DEFINE d == req[h].dep
             row == req[h].row
             at == row.refunded + Held(row)
             nrow == [deposit[d] EXCEPT !.refunded = at, !.status = "REFUNDED"]
             c == Receipt(Book(books[d], FALSE, at, Held(row)), FALSE, Held(row))
  <2>1. /\ d \in Deposit /\ row \in Row /\ req[h].pc = "release"
        /\ Held(row) \in Nat /\ at \in Nat
        /\ deposit' = [deposit EXCEPT ![d] = nrow]
        /\ books' = [books EXCEPT ![d] = c]
        /\ raced' = raced
    BY <1>5, ReleaseChange
  <2>8. /\ deposit'[d] = nrow /\ books'[d] = c
        /\ \A e \in Deposit : e # d => deposit'[e] = deposit[e] /\ books'[e] = books[e]
    BY <1>0, <2>1
  <2>13. raced[d] # "no" => InStep'
    <3> HIDE DEF d, row, at, nrow, c
    <3> QED BY <2>1, <2>8
  <2> SUFFICES ASSUME raced[d] = "no" PROVE InStep'
    BY <2>13
  <2>2. row = deposit[d] /\ Held(row) > 0 /\ Held(row) = Left(row)
    BY <2>1 DEF RacesOK, Fresh, Alone, RowsOK, ReadsOK, Held
  <2>3. row.amount \in Nat /\ row.refunded \in Nat /\ row.forfeited \in Nat
    BY <2>1 DEF Row
  <2>4. <<FALSE, at>> \notin books[d].keys
    <3>1. at > row.refunded
      BY <2>1, <2>2, <2>3
    <3> HIDE DEF at
    <3>2. ASSUME <<FALSE, at>> \in books[d].keys PROVE FALSE
      <4>1. at <= deposit[d].refunded
        BY <2>1, <3>2
      <4> QED BY <2>1, <2>2, <2>3, <3>1, <4>1
    <3> QED BY <3>2
  <2>5. /\ c.fund = books[d].fund - Held(row) /\ c.income = books[d].income
        /\ c.paidOut = books[d].paidOut + Held(row)
        /\ c.keys = books[d].keys \cup {<<FALSE, at>>}
    <3> DEFINE v == Held(row)
               b == books[d]
    <3>1. b \in Books /\ v \in Nat /\ at \in Nat /\ <<FALSE, at>> \notin b.keys
      BY <1>0, <2>1, <2>4
    <3>2. c = Receipt(Book(b, FALSE, at, v), FALSE, v)
      OBVIOUS
    <3> HIDE DEF v, b, at, c
    <3>3. /\ c.fund = b.fund - v /\ c.income = b.income
          /\ c.paidOut = b.paidOut + v /\ c.keys = b.keys \cup {<<FALSE, at>>}
      BY <3>1, <3>2, RefundValues
    <3> QED BY <3>3 DEF v, b
  <2>6. /\ nrow.amount = row.amount /\ nrow.refunded = at /\ nrow.forfeited = row.forfeited
    BY <2>1, <2>2 DEF Row
  <2>7. /\ books[d].fund = Left(row) /\ books[d].paidOut = row.refunded
        /\ books[d].income = row.forfeited
    BY <2>1, <2>2
  <2>9. \A k \in books[d].keys :
           /\ k[1] \in BOOLEAN /\ k[2] \in Nat
           /\ IF k[1] THEN k[2] <= row.forfeited ELSE k[2] <= row.refunded
    BY <1>0, <2>1, <2>2 DEF Books
  <2>10. at >= row.refunded
    BY <2>1, <2>3
  <2>11. c.fund = Left(nrow) /\ c.paidOut = nrow.refunded /\ c.income = nrow.forfeited
    <3>1. at = row.amount - row.forfeited
      BY <2>2, <2>3 DEF Left
    <3>2. Left(nrow) = 0
      BY <2>3, <2>6, <3>1 DEF Left
    <3>3. c.fund = 0 /\ c.paidOut = at /\ c.income = row.forfeited
      <4> HIDE DEF c, nrow
      <4> QED BY <2>2, <2>3, <2>5, <2>7 DEF Left
    <3> HIDE DEF nrow, at, c
    <3> QED BY <2>6, <3>2, <3>3
  <2> HIDE DEF at
  <2>12. \A k \in c.keys : IF k[1] THEN k[2] <= row.forfeited ELSE k[2] <= at
    <3> SUFFICES ASSUME NEW k \in c.keys
                 PROVE  IF k[1] THEN k[2] <= row.forfeited ELSE k[2] <= at
      OBVIOUS
    <3>1. CASE k \in books[d].keys
      BY <2>1, <2>3, <2>9, <2>10, <3>1
    <3>2. CASE k = <<FALSE, at>>
      BY <2>1, <3>2
    <3> QED BY <2>5, <3>1, <3>2
  <2> HIDE DEF d, row, nrow, c
  <2> QED BY <2>1, <2>6, <2>8, <2>11, <2>12
<1>6. ASSUME NEW h \in Handler, Abandon(h)
      PROVE  InStep'
  BY <1>6 DEF Abandon
<1>7. CASE UNCHANGED depositVars
  BY <1>7 DEF depositVars
<1>8. \A d \in Deposit : 1 .. deposit[d].amount \subseteq Nat
  BY <1>0 DEF Row
<1> QED
  BY <1>1, <1>2, <1>3, <1>4, <1>5, <1>6, <1>7, <1>8 DEF NextDeposit, Endpoints, Refunds

-----------------------------------------------------------------------------
(* A request of a handler on a deposit that exists.                        *)
Paying(h) == Refunds(h) \/ (\E d \in Deposit : ReleaseRead(h, d)) \/ ReleaseWrite(h)

(* What requests hold of a deposit only falls, as long as none overlap:    *)
(* the row that is written is the row that was read.                       *)
Falls ==
  \A d \in Deposit :
    /\ Exists(d)' <=> Exists(d)
    /\ raced'[d] = "no" /\ Held(deposit'[d]) > 0 => raced[d] = "no" /\ Held(deposit[d]) > 0

(* A release that nothing overlapped leaves nothing held.                  *)
LEMMA Drained ==
  ASSUME Base, RacesOK, NEW h \in Handler, ReleaseWrite(h), raced[req[h].dep] = "no"
  PROVE  Held(deposit'[req[h].dep]) = 0
<1> DEFINE d == req[h].dep
           row == req[h].row
           nrow == [deposit[d] EXCEPT !.refunded = row.refunded + Held(row), !.status = "REFUNDED"]
<1>1. /\ d \in Deposit /\ row \in Row /\ req[h].pc = "release"
      /\ deposit' = [deposit EXCEPT ![d] = nrow]
  BY ReleaseChange
<1>2. row = deposit[d]
  BY <1>1 DEF RacesOK, Fresh, Alone
<1>3. /\ nrow.refunded = row.refunded + Held(row)
      /\ nrow.amount = row.amount /\ nrow.forfeited = row.forfeited
  BY <1>1, <1>2 DEF Row
<1>4. row.amount \in Nat /\ row.refunded \in Nat /\ row.forfeited \in Nat
  BY <1>1 DEF Row
<1>5. Held(nrow) = 0
  BY <1>3, <1>4 DEF Held, Left
<1>6. deposit'[d] = nrow
  BY <1>1 DEF Base, DepositTypeOK
<1> HIDE DEF nrow
<1> QED BY <1>5, <1>6

(* A refund that nothing overlapped is of something held.                  *)
LEMMA RefundFalls ==
  ASSUME Base, RacesOK, RowsOK, NEW h \in Handler, RefundWrite(h), raced[req[h].dep] = "no"
  PROVE  Held(deposit[req[h].dep]) > 0
<1>1. req[h].pc = "refund" /\ req[h].dep \in Deposit
  BY RefundChange
<1>2. req[h].row = deposit[req[h].dep]
  BY <1>1 DEF RacesOK, Fresh, Alone
<1>3. req[h].amount > 0 /\ req[h].amount <= Held(req[h].row)
  BY <1>1 DEF RowsOK, ReadsOK, Refundable
<1>4. deposit[req[h].dep] \in Row /\ req[h].amount \in Nat
  BY <1>1 DEF Base, DepositTypeOK, Request
<1>5. Held(deposit[req[h].dep]) \in Nat
  BY <1>4, HeldType
<1> QED BY <1>2, <1>3, <1>4, <1>5

(* Beginning a request changes no row; RefundFalls and Drained say what a  *)
(* write does to what is held.                                             *)
LEMMA HeldFalls ==
  ASSUME Base, RacesOK, RowsOK, NEW h \in Handler, Paying(h) \/ UNCHANGED <<deposit, raced>>
  PROVE  Falls
<1>0. /\ DOMAIN deposit = Deposit
      /\ \A d \in Deposit : 1 .. deposit[d].amount \subseteq Nat
  BY DEF Base, DepositTypeOK, Row
<1>1. ASSUME NEW r, r.dep \in Deposit, Begin(h, r)
      PROVE  Falls
  <2>1. deposit' = deposit /\ \A d \in Deposit : raced[d] # "no" => raced'[d] # "no"
    BY <1>1, Begun DEF Seen
  <2> QED BY <2>1 DEF Falls, Exists
<1>2. ASSUME NEW d \in Deposit, NEW a \in Nat, NEW f \in BOOLEAN, RefundRead(h, d, a, f)
      PROVE  Falls
  <2> DEFINE r == [pc |-> "refund", dep |-> d, row |-> deposit[d], amount |-> a, forfeit |-> f]
  <2>1. r.dep = d /\ Begin(h, r)
    BY <1>2 DEF RefundRead
  <2> HIDE DEF r
  <2> QED BY <1>1, <2>1
<1>3. ASSUME NEW d \in Deposit, ReleaseRead(h, d)
      PROVE  Falls
  <2> DEFINE r == [Idle EXCEPT !.pc = "release", !.dep = d, !.row = deposit[d]]
  <2>1. r.dep = d /\ Begin(h, r)
    BY <1>3 DEF ReleaseRead, Idle
  <2> HIDE DEF r
  <2> QED BY <1>1, <2>1
<1>4. CASE RefundWrite(h)
  <2> DEFINE r == req[h]
             new == Refunded(r.row, r.amount, r.forfeit)
             nrow == [new EXCEPT !.status = StatusFor(new)]
  <2>1. /\ r.dep \in Deposit /\ Exists(r.dep) /\ new \in Row
        /\ deposit' = [deposit EXCEPT ![r.dep] = nrow] /\ raced' = raced
    BY <1>4, RefundChange
  <2>2. nrow.status # "none"
    BY <2>1 DEF StatusFor, Row
  <2> HIDE DEF nrow
  <2>3. deposit'[r.dep] = nrow /\ \A e \in Deposit : e # r.dep => deposit'[e] = deposit[e]
    BY <1>0, <2>1
  <2>4. raced[r.dep] = "no" => Held(deposit[r.dep]) > 0
    BY <1>4, RefundFalls
  <2> HIDE DEF r
  <2> QED BY <2>1, <2>2, <2>3, <2>4 DEF Falls, Exists
<1>5. CASE ReleaseWrite(h)
  <2> DEFINE d == req[h].dep
             row == req[h].row
             nrow == [deposit[d] EXCEPT !.refunded = row.refunded + Held(row), !.status = "REFUNDED"]
  <2>1. /\ d \in Deposit /\ Exists(d)
        /\ deposit' = [deposit EXCEPT ![d] = nrow] /\ raced' = raced
    BY <1>5, ReleaseChange
  <2>2. nrow.status # "none"
    BY <2>1 DEF Base, DepositTypeOK, Row
  <2> HIDE DEF nrow
  <2>3. deposit'[d] = nrow /\ \A e \in Deposit : e # d => deposit'[e] = deposit[e]
    BY <1>0, <2>1
  <2>4. raced[d] = "no" => Held(deposit'[d]) = 0
    BY <1>5, Drained
  <2> HIDE DEF d
  <2> QED BY <2>1, <2>2, <2>3, <2>4 DEF Falls, Exists
<1>6. CASE UNCHANGED <<deposit, raced>>
  BY <1>6 DEF Falls, Exists
<1>7. CASE Abandon(h)
  BY <1>6, <1>7 DEF Abandon
<1> QED BY <1>0, <1>2, <1>3, <1>4, <1>5, <1>6, <1>7 DEF Paying, Refunds

-----------------------------------------------------------------------------
(* Before the first deposit there are no rows, entries or requests.        *)
LEMMA InitHolds == InitDeposit => Base /\ LiabilityExplained /\ RacesOK /\ RowsOK /\ InStep
<1> SUFFICES ASSUME InitDeposit
             PROVE  Base /\ LiabilityExplained /\ RacesOK /\ RowsOK /\ InStep
  OBVIOUS
<1>1. NoRow \in Row /\ NoBooks \in Books /\ Idle \in Request /\ Idle.pc = "idle"
  BY DEF NoRow, Row, DepositStatus, NoBooks, Books, Idle, Request
<1>2. NoRow.status = "none" /\ NoRow.amount = 0 /\ NoRow.refunded = 0 /\ NoRow.forfeited = 0
  BY DEF NoRow
<1>3. NoBooks.keys = {} /\ NoBooks.fund = 0 /\ NoBooks.income = 0 /\ NoBooks.paidOut = 0
  BY DEF NoBooks
<1>4. Base
  BY <1>1 DEF InitDeposit, Base, DepositTypeOK, Races
<1>5. LiabilityExplained
  <2>1. \A d \in Deposit : deposit[d] = NoRow /\ books[d] = NoBooks
    BY DEF InitDeposit
  <2>2. \A d \in Deposit : /\ deposit[d].amount = 0 /\ books[d].fund = 0
                            /\ books[d].income = 0 /\ books[d].paidOut = 0
    BY <1>2, <1>3, <2>1
  <2>3. 0 - 0 <= 0 + 0
    OBVIOUS
  <2> QED BY <2>2, <2>3, Zenon DEF LiabilityExplained
<1>8. RacesOK
  BY <1>1 DEF InitDeposit, RacesOK, Overlaps, Fresh
<1>6. RowsOK
  BY <1>1, <1>2 DEF InitDeposit, RowsOK, RowWithinAmount, ReadsOK, Exists
<1>7. InStep
  BY <1>1, <1>2, <1>3 DEF InitDeposit, InStep, FundIsHeld, Left
<1> QED BY <1>4, <1>5, <1>6, <1>7, <1>8

-----------------------------------------------------------------------------
(* Deposits, their books and the requests on them stay of their kinds, in  *)
(* every interleaving.                                                     *)
THEOREM DepositTypeCorrect == SpecDeposit => []DepositTypeOK
<1>1. InitDeposit => Base
  BY InitHolds
<1>2. Base /\ [NextDeposit]_depositVars => Base'
  BY BaseStep
<1>3. Base => DepositTypeOK
  BY DEF Base
<1> QED BY <1>1, <1>2, <1>3, PTL DEF SpecDeposit

(* The DEPOSIT liability never falls by more than what was receipted as a  *)
(* refund or booked as income, in every interleaving of refunds, forfeits  *)
(* and releases.                                                           *)
THEOREM LiabilityAccounted == SpecDeposit => []LiabilityExplained
<1>1. InitDeposit => Base /\ LiabilityExplained
  BY InitHolds
<1>2. Base /\ LiabilityExplained /\ [NextDeposit]_depositVars => (Base /\ LiabilityExplained)'
  BY BaseStep, ExplainedStep
<1> QED BY <1>1, <1>2, PTL DEF SpecDeposit

(* Refunds and forfeits that race each other never make a row pay out more *)
(* than was deposited or misstate what is left, and neither does a release *)
(* that overlaps none of them.                                             *)
THEOREM RefundsKeepRows == SpecDeposit => []RowWithinAmount
<1>1. InitDeposit => Base /\ RacesOK /\ RowsOK
  BY InitHolds
<1>2. Base /\ RacesOK /\ RowsOK /\ [NextDeposit]_depositVars => (Base /\ RacesOK /\ RowsOK)'
  BY BaseStep, RacesStep, RowsStep
<1>3. RowsOK => RowWithinAmount
  BY DEF RowsOK
<1> QED BY <1>1, <1>2, <1>3, PTL DEF SpecDeposit

(* Of a deposit on which no requests have overlapped, the DEPOSIT fund,    *)
(* the income and the refund receipts say what its row says.               *)
THEOREM BooksFollowRows == SpecDeposit => []FundIsHeld
<1> DEFINE DInv == Base /\ RacesOK /\ RowsOK /\ InStep
<1>1. InitDeposit => DInv
  BY InitHolds
<1>2. DInv /\ [NextDeposit]_depositVars => DInv'
  BY BaseStep, RacesStep, RowsStep, InStepStep
<1>3. DInv => FundIsHeld
  BY DEF InStep
<1> QED BY <1>1, <1>2, <1>3, PTL DEF SpecDeposit
=============================================================================
