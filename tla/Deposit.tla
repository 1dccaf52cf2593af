------------------------------ MODULE Deposit ------------------------------
(***************************************************************************)
(* Security deposits held for a unit (billing/deposit.service.ts): their   *)
(* rows, the entries of the DEPOSIT fund and the refund receipts.          *)
(*                                                                         *)
(* refund reads the deposit before its transaction and writes absolute     *)
(* amounts computed from that read; refundHeldInTx reads inside the        *)
(* transaction of its caller, which at READ COMMITTED locks nothing.  The  *)
(* update locks the row, so what follows it is one step.  Amounts are      *)
(* cents.                                                                  *)
(***************************************************************************)
EXTENDS Integers

CONSTANTS
  Deposit,      \* rows of the deposits table
  NoDeposit,    \* no row
  Handler,      \* requests the server runs at once
  Amount        \* the amounts a deposit can have

ASSUME DepositAssumption ==
  /\ NoDeposit \notin Deposit
  /\ Amount \subseteq Nat \ {0}

VARIABLES
  deposit,   \* the rows
  books,     \* per deposit: ledger keys, fund and income totals, refund receipts
  req,       \* the requests being served
  raced      \* history: whether requests on a deposit have overlapped

depositVars == <<deposit, books, req, raced>>

DepositStatus == {"none", "HELD", "PARTIALLY_REFUNDED", "REFUNDED", "FORFEITED"}
Row == [status : DepositStatus, amount : Nat, refunded : Nat, forfeited : Nat]
NoRow == [status |-> "none", amount |-> 0, refunded |-> 0, forfeited |-> 0]

(* keys are the idempotency keys of the entries that pay a deposit out:    *)
(* forfeit or refund, and the cumulative amount the key is made of.        *)
Books == [keys : SUBSET (BOOLEAN \X Nat), fund : Int, income : Nat, paidOut : Nat]
NoBooks == [keys |-> {}, fund |-> 0, income |-> 0, paidOut |-> 0]

Request == [pc : {"idle", "refund", "release"}, dep : Deposit \cup {NoDeposit},
            row : Row, amount : Nat, forfeit : BOOLEAN]
Idle == [pc |-> "idle", dep |-> NoDeposit, row |-> NoRow, amount |-> 0, forfeit |-> FALSE]

(* What has overlapped on a deposit: nothing, refunds and forfeits only, or *)
(* requests of which one was a release.                                    *)
Races == {"no", "refunds", "release"}

Exists(d) == deposit[d].status # "none"
Left(row) == row.amount - row.refunded - row.forfeited
Held(row) == IF Left(row) > 0 THEN Left(row) ELSE 0

-----------------------------------------------------------------------------
(* record and recordInTx: the row, its receipt and the DEPOSIT entry.      *)
Hold(d, a) ==
  /\ ~Exists(d)
  /\ deposit' = [deposit EXCEPT ![d] = [NoRow EXCEPT !.status = "HELD", !.amount = a]]
  /\ books' = [books EXCEPT ![d].fund = a]

Record(h, d, a) ==
  /\ req[h] = Idle
  /\ Hold(d, a)
  /\ UNCHANGED <<req, raced>>

(* The ledger's upsert by idempotencyKey: an entry whose key exists is not *)
(* written again.  A forfeit moves the amount to income in the same way.   *)
BookOneSided(b, forfeit, at, a) ==                 \* mutated: no income entry
  IF <<forfeit, at>> \in b.keys THEN b
  ELSE [b EXCEPT !.keys = @ \cup {<<forfeit, at>>}, !.fund = @ - a]
Book(b, forfeit, at, a) ==
  IF <<forfeit, at>> \in b.keys THEN b
  ELSE [b EXCEPT !.keys = @ \cup {<<forfeit, at>>},
                 !.fund = @ - a,
                 !.income = @ + (IF forfeit THEN a ELSE 0)]

(* A refund has a receipt, without a key: every transaction issues one.    *)
Receipt(b, forfeit, a) == [b EXCEPT !.paidOut = @ + (IF forfeit THEN 0 ELSE a)]

StatusByForfeit(row) ==                            \* mutated: refunds ignored
  IF Left(row) > 0 THEN "PARTIALLY_REFUNDED"
  ELSE IF row.forfeited > 0 THEN "FORFEITED" ELSE "REFUNDED"
StatusFor(row) ==
  IF Left(row) > 0 THEN "PARTIALLY_REFUNDED"
  ELSE IF row.forfeited > 0 /\ row.refunded = 0 THEN "FORFEITED" ELSE "REFUNDED"

-----------------------------------------------------------------------------
(* A request reads the row of a deposit and goes on with what it read.     *)
AtWork(d) == {g \in Handler : req[g].dep = d}
Met(d, pc) ==
  IF AtWork(d) = {} \/ raced[d] = "release" THEN raced[d]
  ELSE IF pc = "release" \/ \E g \in AtWork(d) : req[g].pc = "release" THEN "release"
  ELSE "refunds"

Begin(h, r) ==
  /\ req' = [req EXCEPT ![h] = r]
  /\ raced' = [raced EXCEPT ![r.dep] = Met(r.dep, r.pc)]
  /\ UNCHANGED <<deposit, books>>

(* refund: the checks against the row as read outside the transaction.     *)
Refundable(row, a) == a > 0 /\ a <= Held(row)

RefundRead(h, d, a, forfeit) ==
  /\ req[h] = Idle
  /\ Exists(d)
  /\ Refundable(deposit[d], a)
  /\ Begin(h, [pc |-> "refund", dep |-> d, row |-> deposit[d],
               amount |-> a, forfeit |-> forfeit])

(* What the transaction writes: both totals as computed from the read row. *)
Refunded(row, a, forfeit) ==
  IF forfeit THEN [row EXCEPT !.forfeited = @ + a] ELSE [row EXCEPT !.refunded = @ + a]

RefundWrite(h) ==
  LET r == req[h]
      new == Refunded(r.row, r.amount, r.forfeit)
      at == IF r.forfeit THEN new.forfeited ELSE new.refunded
  IN /\ r.pc = "refund"
     /\ deposit' = [deposit EXCEPT ![r.dep] = [new EXCEPT !.status = StatusFor(new)]]
     /\ books' = [books EXCEPT ![r.dep] =
                    Receipt(Book(@, r.forfeit, at, r.amount), r.forfeit, r.amount)]
     /\ req' = [req EXCEPT ![h] = Idle]
     /\ UNCHANGED raced

(* refundHeldInTx: nothing to do when nothing is held; the update writes   *)
(* refundedAmount and status only.                                         *)
ReleasedRow(d, row) ==
  [deposit[d] EXCEPT !.refunded = row.refunded + Held(row), !.status = "REFUNDED"]
ReleasedUnreceipted(d, row) ==                     \* mutated: receipt forgotten
  Book(books[d], FALSE, row.refunded + Held(row), Held(row))
ReleasedBooks(d, row) ==
  Receipt(Book(books[d], FALSE, row.refunded + Held(row), Held(row)), FALSE, Held(row))

ReleaseRead(h, d) ==
  /\ req[h] = Idle
  /\ Exists(d)
  /\ Held(deposit[d]) > 0
  /\ Begin(h, [Idle EXCEPT !.pc = "release", !.dep = d, !.row = deposit[d]])

ReleaseWrite(h) ==
  LET r == req[h]
  IN /\ r.pc = "release"
     /\ deposit' = [deposit EXCEPT ![r.dep] = ReleasedRow(r.dep, r.row)]
     /\ books' = [books EXCEPT ![r.dep] = ReleasedBooks(r.dep, r.row)]
     /\ req' = [req EXCEPT ![h] = Idle]
     /\ UNCHANGED raced

(* A request fails or its process dies before it commits.                  *)
Abandon(h) ==
  /\ req[h] # Idle
  /\ req' = [req EXCEPT ![h] = Idle]
  /\ UNCHANGED <<deposit, books, raced>>

-----------------------------------------------------------------------------
InitDeposit ==
  /\ deposit = [d \in Deposit |-> NoRow]
  /\ books = [d \in Deposit |-> NoBooks]
  /\ req = [h \in Handler |-> Idle]
  /\ raced = [d \in Deposit |-> "no"]

(* The endpoints of the deposit controller.                                *)
Refunds(h) ==
  \/ \E d \in Deposit, f \in BOOLEAN : \E a \in 1 .. deposit[d].amount : RefundRead(h, d, a, f)
  \/ RefundWrite(h)
  \/ Abandon(h)
Endpoints(h) == (\E d \in Deposit, a \in Amount : Record(h, d, a)) \/ Refunds(h)

NextDeposit ==
  \E h \in Handler :
    Endpoints(h) \/ (\E d \in Deposit : ReleaseRead(h, d)) \/ ReleaseWrite(h)

SpecDeposit == InitDeposit /\ [][NextDeposit]_depositVars

-----------------------------------------------------------------------------
DepositTypeOK ==
  /\ deposit \in [Deposit -> Row]
  /\ books \in [Deposit -> Books]
  /\ req \in [Handler -> Request]
  /\ raced \in [Deposit -> Races]

(* What a row says of itself: no more paid out than deposited, and a       *)
(* status that tells what is left.                                         *)
RowOK(row) ==
  /\ row.refunded + row.forfeited <= row.amount
  /\ Left(row) = 0 <=> row.status \in {"REFUNDED", "FORFEITED"}
  /\ row.status = "FORFEITED" => row.refunded = 0
  /\ row.status = "HELD" => Left(row) = row.amount

(* However refunds and forfeits of a deposit race, refund's last write     *)
(* leaves a row that is right in itself (newRefunded, newForfeited and     *)
(* status come from one read).  Only a booking's release that overlaps     *)
(* another request can leave a wrong one.                                  *)
RowWithinAmount ==
  \A d \in Deposit : Exists(d) /\ raced[d] # "release" => RowOK(deposit[d])

(* The liability of the DEPOSIT fund falls only by what went to income or  *)
(* was receipted as a refund, in every interleaving.                       *)
LiabilityExplained ==
  \A d \in Deposit :
    deposit[d].amount - books[d].fund <= books[d].income + books[d].paidOut

(* A deposit on which no two requests have overlapped is right to the     *)
(* cent: the fund holds what the row says is held, and receipts and income *)
(* add up to what it says was paid out, over any sequence of refunds,      *)
(* forfeits and releases and whatever fails in between.                    *)
FundIsHeld ==
  \A d \in Deposit :
    raced[d] = "no" =>
      /\ books[d].fund = Left(deposit[d])
      /\ books[d].paidOut = deposit[d].refunded
      /\ books[d].income = deposit[d].forfeited
=============================================================================
