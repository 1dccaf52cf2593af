----------------------------- MODULE InvoiceRun -----------------------------
(***************************************************************************)
(* The monthly run of one condominium for one period: generateRecurring of *)
(* apps/api/src/billing/billing.service.ts, started by the hourly sweep of *)
(* billing-automation.service.ts or by management, beside invoices issued  *)
(* one by one and voided.                                                  *)
(*                                                                         *)
(* A chunk is one transaction.  Its first act that writes is to increment  *)
(* the number sequence of the condominium, whose row it then holds until   *)
(* it ends, so chunks run one after the other from there; the highest      *)
(* number in use was read before.                                          *)
(***************************************************************************)
EXTENDS Integers, FiniteSets

CONSTANTS
  NumUnits,    \* units of the condominium, in the order findMany lists them
  Base,        \* units whose type has a fee rate (computeLinesForUnit)
  Extra,       \* units with an extra line this period (computeExtraLinesForUnit)
  ChunkSize,   \* CHUNK_SIZE
  Handler,     \* requests the server runs at once
  Sweeper,     \* the one of them the hourly timer runs
  MaxNumber,   \* bound: numbers of the year
  MaxTrouble   \* bound: requests of management, voids, failures and crashes

Unit == 1 .. NumUnits
Number == 1 .. MaxNumber

ASSUME InvoiceRunAssumption ==
  /\ NumUnits \in Nat
  /\ Base \subseteq Unit
  /\ Extra \subseteq Unit
  /\ ChunkSize \in Nat \ {0}
  /\ Sweeper \in Handler
  /\ MaxNumber \in Nat
  /\ MaxTrouble \in Nat

VARIABLES
  invoice,   \* unit (0: for another period) and status of every number
  last,      \* billing_number_sequences.lastNumber; 0 when there is no row
  job,       \* the requests being served
  announced, \* numbers whose invoice.issued was emitted
  lost,      \* history: numbers created by a request that failed or died
  trouble    \* how many disturbances there have been

vars == <<invoice, last, job, announced, lost, trouble>>

InvoiceRow == [unit : 0 .. NumUnits, status : {"none", "ISSUED", "VOID"}]
NoInvoice == [unit |-> 0, status |-> "none"]

Job == [pc : {"idle", "previewed", "working", "numbered", "crediting"}, todo : SUBSET Unit,
        billable : SUBSET Unit, existing : SUBSET Unit, pending : SUBSET Unit,
        highest : 0 .. MaxNumber, created : SUBSET Number]
Idle == [pc |-> "idle", todo |-> {}, billable |-> {}, existing |-> {}, pending |-> {},
         highest |-> 0, created |-> {}]

Used == {n \in Number : invoice[n].status # "none"}
Billed == {u \in Unit : \E n \in Number : invoice[n] = [unit |-> u, status |-> "ISSUED"]}
Ever == {u \in Unit : \E n \in Number : invoice[n].unit = u}

Disturb == trouble < MaxTrouble /\ trouble' = trouble + 1

-----------------------------------------------------------------------------
(* runCondo goes on only if a unit with a fee rate has no invoice yet.     *)
AlreadyBilledEver == Base \cap Ever                 \* mutated: voided invoices too
AlreadyBilled == Base \cap Billed

WouldCreate == Cardinality(Base) > Cardinality(AlreadyBilled)

RunCondo(h) ==
  /\ job[h] = Idle
  /\ WouldCreate
  /\ job' = [job EXCEPT ![h].pc = "previewed"]
  /\ UNCHANGED <<invoice, last, announced, lost>>

Sweep == RunCondo(Sweeper) /\ UNCHANGED trouble

RunNow(h) == h # Sweeper /\ RunCondo(h) /\ Disturb

(* generateRecurring begins with the units and who is billed already.      *)
Working(units, billable, existing) ==
  [pc |-> "working", todo |-> units, billable |-> billable, existing |-> existing,
   pending |-> {}, highest |-> 0, created |-> {}]

ReadExisting(h) ==
  /\ job[h].pc = "previewed"
  /\ job' = [job EXCEPT ![h] = Working(Unit, Base \cup Extra, Billed)]
  /\ UNCHANGED <<invoice, last, announced, lost, trouble>>

(* Management names the units, and may name the lines.                     *)
GenerateRecurring(h, units, explicit) ==
  /\ h # Sweeper
  /\ job[h] = Idle
  /\ Disturb
  /\ job' = [job EXCEPT ![h] = Working(units, IF explicit THEN Unit ELSE Base \cup Extra, Billed)]
  /\ UNCHANGED <<invoice, last, announced, lost>>

(* create: one invoice for the unit, without a look at the others.         *)
Create(h, u) ==
  /\ h # Sweeper
  /\ job[h] = Idle
  /\ Disturb
  /\ job' = [job EXCEPT ![h] = Working({u}, Unit, {})]
  /\ UNCHANGED <<invoice, last, announced, lost>>

-----------------------------------------------------------------------------
Rank(u, units) == Cardinality({w \in units : w <= u})
Chunk(units) == {u \in units : Rank(u, units) <= ChunkSize}

(* maxExistingNumberSuffix                                                 *)
Highest(n) == IF Used = {} THEN n = 0 ELSE n \in Used /\ \A k \in Used : k <= n

(* The next chunk, and the first read of its transaction; a chunk with     *)
(* nothing to bill is passed over.                                         *)
BeginChunk(h, highest) ==
  LET chunk == Chunk(job[h].todo)
      pending == (chunk \cap job[h].billable) \ job[h].existing
  IN /\ job[h].pc = "working"
     /\ job[h].todo # {}
     /\ Highest(highest)
     /\ job' = [job EXCEPT ![h].todo = @ \ chunk, ![h].pending = pending,
                           ![h].highest = IF pending = {} THEN 0 ELSE highest,
                           ![h].pc = IF pending = {} THEN "working" ELSE "numbered"]
     /\ UNCHANGED <<invoice, last, announced, lost, trouble>>

(* nextInvoiceNumber: one more than the last, or, if that is behind the    *)
(* numbers in use, one more than the highest.                              *)
FirstNumberPlain(highest) == last + 1               \* mutated: not repaired
FirstNumber(highest) == IF last + 1 <= highest THEN highest + 1 ELSE last + 1

NumberOf(u, pending, highest) == FirstNumber(highest) + Rank(u, pending) - 1

(* The unique index on the unit and the period of invoices not void.       *)
Collides(h) == job[h].pending \cap Billed # {}

CommitChunk(h) ==
  LET pending == job[h].pending
      number == [u \in pending |-> NumberOf(u, pending, job[h].highest)]
      new == {number[u] : u \in pending}
      top == FirstNumber(job[h].highest) + Cardinality(pending) - 1
  IN /\ job[h].pc = "numbered"
     /\ ~Collides(h)
     /\ top <= MaxNumber
     /\ invoice' = [n \in Number |->
          IF n \in new THEN [unit |-> CHOOSE u \in pending : number[u] = n, status |-> "ISSUED"]
          ELSE invoice[n]]
     /\ last' = top
     /\ job' = [job EXCEPT ![h].pc = "crediting", ![h].pending = {}, ![h].highest = 0,
                           ![h].created = @ \cup new]
     /\ UNCHANGED <<announced, lost, trouble>>

(* isActivePeriodDuplicate: the chunk is rolled back and passed over.      *)
SkipChunk(h) ==
  /\ job[h].pc = "numbered"
  /\ Collides(h)
  /\ job' = [job EXCEPT ![h].pc = "working", ![h].pending = {}, ![h].highest = 0]
  /\ UNCHANGED <<invoice, last, announced, lost, trouble>>

(* applyCreditToInvoice of the invoices of the chunk (module Billing).     *)
ApplyCredit(h) ==
  /\ job[h].pc = "crediting"
  /\ job' = [job EXCEPT ![h].pc = "working"]
  /\ UNCHANGED <<invoice, last, announced, lost, trouble>>

AnnouncesLast(h) == job[h].created \cap {n \in Number : n = last}  \* mutated: the last one
Announces(h) == job[h].created

Finish(h) ==
  /\ job[h].pc = "working"
  /\ job[h].todo = {}
  /\ announced' = announced \cup Announces(h)
  /\ job' = [job EXCEPT ![h] = Idle]
  /\ UNCHANGED <<invoice, last, lost, trouble>>

(* An error that is rethrown (applyCreditToInvoice, a lost connection), or *)
(* the end of the process.                                                 *)
Fail(h) ==
  /\ job[h] # Idle
  /\ Disturb
  /\ lost' = lost \cup job[h].created
  /\ job' = [job EXCEPT ![h] = Idle]
  /\ UNCHANGED <<invoice, last, announced>>

VoidInvoice(n) ==
  /\ invoice[n].status = "ISSUED"
  /\ Disturb
  /\ invoice' = [invoice EXCEPT ![n].status = "VOID"]
  /\ UNCHANGED <<last, job, announced, lost>>

-----------------------------------------------------------------------------
(* Numbers of the year may be in use that the sequence does not know of:   *)
(* it is younger than the invoices, or they were imported.                 *)
Init ==
  /\ invoice \in [Number -> {NoInvoice, [unit |-> 0, status |-> "ISSUED"]}]
  /\ last \in 0 .. MaxNumber
  /\ \A n \in Number : n + NumUnits + MaxTrouble > MaxNumber => invoice[n] = NoInvoice /\ last < n
  /\ job = [h \in Handler |-> Idle]
  /\ announced = {}
  /\ lost = {}
  /\ trouble = 0

Step(h) ==
  \/ ReadExisting(h) \/ CommitChunk(h) \/ SkipChunk(h) \/ ApplyCredit(h) \/ Finish(h)
  \/ \E highest \in 0 .. MaxNumber : BeginChunk(h, highest)

Next ==
  \/ Sweep
  \/ \E h \in Handler :
       \/ RunNow(h) \/ Step(h) \/ Fail(h)
       \/ \E u \in Unit : Create(h, u)
       \/ \E units \in SUBSET Unit, explicit \in BOOLEAN : GenerateRecurring(h, units, explicit)
  \/ \E n \in Number : VoidInvoice(n)

Spec == Init /\ [][Next]_vars

(* The timer fires every hour and a request, once begun, goes on.          *)
FairSpec == Spec /\ WF_vars(Sweep) /\ \A h \in Handler : WF_vars(Step(h))

-----------------------------------------------------------------------------
TypeOK ==
  /\ invoice \in [Number -> InvoiceRow]
  /\ last \in 0 .. MaxNumber
  /\ job \in [Handler -> Job]
  /\ announced \subseteq Number
  /\ lost \subseteq Number
  /\ trouble \in 0 .. MaxTrouble

(* No chunk is about to use a number that is in use, whatever was issued   *)
(* since it read the highest: nextInvoiceNumber needs no retry.            *)
NumbersAreFree ==
  \A h \in Handler : job[h].pc = "numbered" =>
    \A u \in job[h].pending : NumberOf(u, job[h].pending, job[h].highest) \notin Used

(* Residents and MyInvois hear of every invoice, unless its request failed *)
(* after it was committed (a later run takes it for done).                 *)
IssuedIsAnnounced ==
  \A n \in Number :
    invoice[n].unit # 0 => n \in announced \cup lost \cup UNION {job[h].created : h \in Handler}

(* Every unit with a fee rate has its invoice in the end, although whole   *)
(* chunks are skipped over one collision, invoices are voided and runs     *)
(* fail or die half way.                                                   *)
EveryUnitIsBilled == <>[](Base \subseteq Billed)
=============================================================================
