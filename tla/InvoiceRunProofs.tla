-------------------------- MODULE InvoiceRunProofs --------------------------
(***************************************************************************)
(* Proofs about InvoiceRun for any number of units, requests and chunks:   *)
(* its types, that no two invoices get one number, and that every invoice  *)
(* issued is announced unless its request failed.                          *)
(*                                                                         *)
(* The sequence may be behind the numbers in use only by numbers that were *)
(* there from the start, and these every chunk has seen when it takes its  *)
(* first number.  What a chunk has not seen was issued since, and is not   *)
(* above the sequence any more.                                            *)
(***************************************************************************)
EXTENDS InvoiceRun, FiniteSetTheorems, TLAPS

(* Numbers in use above the sequence are known to every chunk that is      *)
(* about to take one.                                                      *)
AheadIsSeen ==
  \A h \in Handler, n \in Number :
    job[h].pc = "numbered" /\ n \in Used => n <= last \/ n <= job[h].highest

(* A run that has not begun to bill has created nothing.                   *)
PreviewedIsNew == \A h \in Handler : job[h].pc = "previewed" => job[h].created = {}

IInv == TypeOK /\ AheadIsSeen /\ PreviewedIsNew /\ IssuedIsAnnounced

-----------------------------------------------------------------------------
LEMMA UnitsAreFinite ==
  ASSUME NEW units \in SUBSET Unit
  PROVE  IsFiniteSet(units) /\ Cardinality(units) \in Nat
<1>1. IsFiniteSet(Unit)
  BY FS_Interval, InvoiceRunAssumption DEF Unit
<1> QED
  BY <1>1, FS_Subset, FS_CardinalityType

(* The first of a set of units has rank 1, and none a rank above its size. *)
LEMMA RankIsAPlace ==
  ASSUME NEW units \in SUBSET Unit, NEW u \in units
  PROVE  /\ Rank(u, units) \in 1 .. Cardinality(units)
         /\ Cardinality(units) \in Nat
<1> DEFINE below == {w \in units : w <= u}
<1>2. IsFiniteSet(units) /\ Cardinality(units) \in Nat
  BY UnitsAreFinite
<1>3. IsFiniteSet(below) /\ Cardinality(below) <= Cardinality(units)
  BY <1>2, FS_Subset
<1>4. u \in below
  BY DEF Unit
<1>5. Cardinality(below) \in Nat /\ Cardinality(below) # 0
  BY <1>3, <1>4, FS_CardinalityType, FS_EmptySet
<1> QED
  BY <1>2, <1>3, <1>5 DEF Rank

(* A number nextInvoiceNumber gives is above the sequence and above the    *)
(* highest number its transaction saw.                                     *)
LEMMA NumberIsNew ==
  ASSUME TypeOK, NEW highest \in 0 .. MaxNumber, NEW pending \in SUBSET Unit, NEW u \in pending
  PROVE  LET n == NumberOf(u, pending, highest)
         IN  /\ n \in Nat
             /\ n > last
             /\ n > highest
             /\ n <= FirstNumber(highest) + Cardinality(pending) - 1
<1>1. Rank(u, pending) \in 1 .. Cardinality(pending) /\ Cardinality(pending) \in Nat
  BY RankIsAPlace
<1>2. last \in Nat /\ highest \in Nat
  BY InvoiceRunAssumption DEF TypeOK
<1>3. /\ FirstNumber(highest) \in Nat
      /\ FirstNumber(highest) > last
      /\ FirstNumber(highest) > highest
  BY <1>2 DEF FirstNumber
<1> QED
  BY <1>1, <1>2, <1>3 DEF NumberOf

(* A chunk that commits leaves the sequence at the last number it used.    *)
LEMMA CommitNumbers ==
  ASSUME TypeOK, NEW h \in Handler, CommitChunk(h)
  PROVE  /\ last' \in 0 .. MaxNumber
         /\ last' >= last
         /\ \A u \in job[h].pending :
              /\ NumberOf(u, job[h].pending, job[h].highest) \in Number
              /\ NumberOf(u, job[h].pending, job[h].highest) <= last'
<1> DEFINE pending == job[h].pending
<1> DEFINE highest == job[h].highest
<1>1. pending \in SUBSET Unit /\ highest \in 0 .. MaxNumber
  BY DEF TypeOK, Job
<1>2. Cardinality(pending) \in Nat
  BY <1>1, UnitsAreFinite
<1>3. last \in Nat /\ highest \in Nat /\ MaxNumber \in Nat
  BY <1>1, InvoiceRunAssumption DEF TypeOK
<1>4. FirstNumber(highest) \in Nat /\ FirstNumber(highest) > last
  BY <1>3 DEF FirstNumber
<1>5. last' = FirstNumber(highest) + Cardinality(pending) - 1 /\ last' <= MaxNumber
  BY DEF CommitChunk
<1>6. ASSUME NEW u \in pending
      PROVE  /\ NumberOf(u, pending, highest) \in Number
             /\ NumberOf(u, pending, highest) <= last'
  <2>1. /\ NumberOf(u, pending, highest) \in Nat
        /\ NumberOf(u, pending, highest) > last
        /\ NumberOf(u, pending, highest) <= FirstNumber(highest) + Cardinality(pending) - 1
    BY <1>1, NumberIsNew
  <2> HIDE DEF pending, highest
  <2> QED
    BY <2>1, <1>3, <1>5 DEF Number
<1> QED
  <2>1. \A u \in pending : NumberOf(u, pending, highest) \in Number /\ NumberOf(u, pending, highest) <= last'
    BY <1>6
  <2>2. last' \in 0 .. MaxNumber /\ last' >= last
    <3> HIDE DEF pending, highest
    <3> QED  BY <1>2, <1>3, <1>4, <1>5
  <2> QED  BY <2>1, <2>2

(* Which rows a commit writes.                                             *)
LEMMA CommitRows ==
  ASSUME TypeOK, NEW h \in Handler, CommitChunk(h), NEW n \in Number, invoice'[n] # invoice[n]
  PROVE  /\ invoice'[n] \in InvoiceRow
         /\ n <= last'
         /\ n \in job'[h].created
<1> DEFINE pending == job[h].pending
<1> DEFINE number == [u \in pending |-> NumberOf(u, pending, job[h].highest)]
<1> DEFINE new == {number[u] : u \in pending}
<1>1. n \in new
  BY DEF CommitChunk, TypeOK
<1>2. PICK u \in pending : number[u] = n
  BY <1>1
<1>3. n <= last'
  BY <1>2, CommitNumbers
<1>4. job'[h].created = job[h].created \cup new
  BY DEF CommitChunk, TypeOK, Job
<1>5. invoice'[n] = [unit |-> CHOOSE v \in pending : number[v] = n, status |-> "ISSUED"]
  BY <1>1 DEF CommitChunk
<1>6. (CHOOSE v \in pending : number[v] = n) \in Unit
  BY <1>2 DEF TypeOK, Job
<1>7. invoice'[n] \in InvoiceRow
  <2> DEFINE c == CHOOSE v \in pending : number[v] = n
  <2>1. c \in 0 .. NumUnits
    BY <1>6, InvoiceRunAssumption DEF Unit
  <2> HIDE DEF c
  <2> QED  BY <1>5, <2>1 DEF InvoiceRow, c
<1> QED
  BY <1>1, <1>3, <1>4, <1>7

-----------------------------------------------------------------------------
LEMMA IdleIsAJob == Idle \in Job
BY InvoiceRunAssumption DEF Idle, Job

LEMMA WorkingIsAJob ==
  ASSUME NEW units \in SUBSET Unit, NEW billable \in SUBSET Unit, NEW existing \in SUBSET Unit
  PROVE  /\ Working(units, billable, existing) \in Job
         /\ Working(units, billable, existing).pc = "working"
BY InvoiceRunAssumption DEF Working, Job

(* A request that goes on keeps its type and what it created.              *)
OnChunk(r, todo, pending, highest, pc) ==
  [r EXCEPT !.todo = todo, !.pending = pending, !.highest = highest, !.pc = pc]
Past(r, pc, pending, highest) ==
  [r EXCEPT !.pc = pc, !.pending = pending, !.highest = highest]
Created(r, created) == [r EXCEPT !.created = created]

Pc == {"previewed", "working", "numbered", "crediting"}

LEMMA PastIsAJob ==
  ASSUME NEW r \in Job, NEW pc \in Pc, NEW pending \in SUBSET Unit, NEW highest \in 0 .. MaxNumber
  PROVE  /\ Past(r, pc, pending, highest) \in Job
         /\ Past(r, pc, pending, highest).pc = pc
         /\ Past(r, pc, pending, highest).created = r.created
<1>1. Past(r, pc, pending, highest) \in Job
  BY DEF Job, Past, Pc
<1>2. Past(r, pc, pending, highest).pc = pc /\ Past(r, pc, pending, highest).created = r.created
  BY DEF Job, Past
<1> QED  BY <1>1, <1>2

LEMMA CreatedIsAJob ==
  ASSUME NEW r \in Job, NEW created \in SUBSET Number
  PROVE  /\ Created(r, created) \in Job
         /\ Created(r, created).pc = r.pc
         /\ Created(r, created).created = created
BY DEF Job, Created

LEMMA OnChunkIsAJob ==
  ASSUME NEW r \in Job, NEW pc \in Pc, NEW todo \in SUBSET Unit,
         NEW pending \in SUBSET Unit, NEW highest \in 0 .. MaxNumber
  PROVE  LET j == OnChunk(r, todo, pending, highest, pc)
         IN  j \in Job /\ j.pc = pc /\ j.highest = highest /\ j.created = r.created
<1> DEFINE q == [r EXCEPT !.todo = todo, !.pending = pending, !.highest = highest]
<1>1. q \in Job /\ q.created = r.created /\ q.highest = highest
  BY DEF Job
<1> HIDE DEF q
<1>2. [q EXCEPT !.pc = pc] \in Job /\ [q EXCEPT !.pc = pc].pc = pc
      /\ [q EXCEPT !.pc = pc].highest = q.highest /\ [q EXCEPT !.pc = pc].created = q.created
  BY <1>1 DEF Job, Pc
<1> QED
  BY <1>1, <1>2 DEF q, OnChunk

LEMMA VoidedRow ==
  ASSUME NEW r \in InvoiceRow
  PROVE  [r EXCEPT !.status = "VOID"] = [unit |-> r.unit, status |-> "VOID"]
BY DEF InvoiceRow

LEMMA BillableAreUnits == Base \cup Extra \in SUBSET Unit
BY InvoiceRunAssumption

(* What a step does to the requests, as far as the invariant is concerned: *)
(* one of them changes, keeps its type, and does not lose a number it      *)
(* created unless that is announced or lost.                               *)
JobStep(h) ==
  /\ \E j \in Job : job' = [job EXCEPT ![h] = j]
  /\ job[h].created \subseteq job'[h].created \cup announced' \cup lost'
  /\ job'[h].pc = "previewed" => job'[h].created = {}

LEMMA QuietStep ==
  ASSUME IInv, NEW h \in Handler, JobStep(h), invoice' = invoice, last' = last,
         announced \subseteq announced', announced' \subseteq Number,
         lost \subseteq lost', lost' \subseteq Number, trouble' \in 0 .. MaxTrouble,
         job'[h].pc = "numbered" => \A n \in Used : n <= job'[h].highest
  PROVE  IInv'
<1>1. PICK j \in Job : job' = [job EXCEPT ![h] = j]
  BY DEF JobStep
<1>2. TypeOK'
  BY <1>1 DEF IInv, TypeOK
<1>3. job'[h] = j /\ \A g \in Handler \ {h} : job'[g] = job[g]
  BY <1>1 DEF IInv, TypeOK
<1>4. Used' = Used
  BY DEF Used
<1>5. AheadIsSeen'
  BY <1>3, <1>4 DEF IInv, AheadIsSeen
<1>6. PreviewedIsNew'
  BY <1>3 DEF IInv, PreviewedIsNew, JobStep
<1>7. IssuedIsAnnounced'
  <2> SUFFICES ASSUME NEW n \in Number, invoice'[n].unit # 0,
                      n \notin announced', n \notin lost'
               PROVE  \E g \in Handler : n \in job'[g].created
    BY DEF IssuedIsAnnounced
  <2>1. PICK g \in Handler : n \in job[g].created
    BY DEF IInv, IssuedIsAnnounced
  <2>2. n \in job'[g].created
    BY <2>1, <1>3 DEF JobStep
  <2> QED  BY <2>2
<1> QED
  BY <1>2, <1>5, <1>6, <1>7 DEF IInv

LEMMA CommitStep ==
  ASSUME IInv, NEW h \in Handler, CommitChunk(h)
  PROVE  IInv'
<1> USE DEF IInv
<1> DEFINE new == {[w \in job[h].pending |-> NumberOf(w, job[h].pending, job[h].highest)][u] :
                     u \in job[h].pending}
<1> DEFINE j == [job[h] EXCEPT !.pc = "crediting", !.pending = {}, !.highest = 0,
                               !.created = job[h].created \cup new]
<1>a. new \subseteq Number
  BY CommitNumbers
<1>b. job' = [job EXCEPT ![h] = j]
  BY DEF CommitChunk
<1>c. j \in Job /\ j.pc = "crediting" /\ j.created = job[h].created \cup new
  <2>1. job[h] \in Job /\ job[h].created \cup new \in SUBSET Number
    BY <1>a DEF TypeOK, Job
  <2>2. "crediting" \in Pc /\ {} \in SUBSET Unit /\ 0 \in 0 .. MaxNumber
    BY InvoiceRunAssumption DEF Pc
  <2> DEFINE q == Past(job[h], "crediting", {}, 0)
  <2>3. q \in Job /\ q.pc = "crediting"
    BY <2>1, <2>2, PastIsAJob
  <2>4. j = Created(q, job[h].created \cup new)
    BY DEF Past, Created
  <2> HIDE DEF j, q, new
  <2> QED  BY <2>1, <2>3, <2>4, CreatedIsAJob
<1> HIDE DEF j, new
<1>2. job[h].created \subseteq job'[h].created
  BY <1>b, <1>c DEF TypeOK
<1>3. \A g \in Handler \ {h} : job'[g] = job[g]
  BY <1>b DEF TypeOK
<1>4. job'[h].pc = "crediting"
  BY <1>b, <1>c DEF TypeOK
<1>5. TypeOK'
  <2>1. job' \in [Handler -> Job]
    BY <1>b, <1>c DEF TypeOK
  <2>2. invoice' \in [Number -> InvoiceRow]
    <3>1. invoice' = [n \in Number |-> invoice'[n]]
      BY DEF CommitChunk
    <3>2. \A n \in Number : invoice'[n] \in InvoiceRow
      BY CommitRows DEF TypeOK
    <3> QED  BY <3>1, <3>2
  <2>3. last' \in 0 .. MaxNumber
    BY CommitNumbers
  <2> QED  BY <2>1, <2>2, <2>3 DEF TypeOK, CommitChunk
<1>6. AheadIsSeen'
  <2> SUFFICES ASSUME NEW g \in Handler, NEW n \in Number, job'[g].pc = "numbered", n \in Used'
               PROVE  n <= last' \/ n <= job'[g].highest
    BY DEF AheadIsSeen
  <2>1. g # h /\ job'[g] = job[g]
    BY <1>3, <1>4
  <2>2. CASE invoice'[n] # invoice[n]
    BY <2>2, CommitRows
  <2>3. CASE invoice'[n] = invoice[n]
    <3>1. n <= last \/ n <= job[g].highest
      BY <2>1, <2>3 DEF AheadIsSeen, Used
    <3>2. last' >= last /\ last' \in 0 .. MaxNumber
      BY CommitNumbers
    <3>3. n \in Nat /\ last \in Nat /\ last' \in Nat
      BY <3>2, InvoiceRunAssumption DEF TypeOK, Number
    <3> QED  BY <2>1, <3>1, <3>2, <3>3
  <2> QED  BY <2>2, <2>3
<1>7. PreviewedIsNew'
  BY <1>3, <1>4 DEF PreviewedIsNew
<1>8. IssuedIsAnnounced'
  <2> SUFFICES ASSUME NEW n \in Number, invoice'[n].unit # 0,
                      n \notin announced', n \notin lost'
               PROVE  \E g \in Handler : n \in job'[g].created
    BY DEF IssuedIsAnnounced
  <2>1. CASE invoice'[n] # invoice[n]
    BY <2>1, CommitRows
  <2>2. CASE invoice'[n] = invoice[n]
    <3>1. PICK g \in Handler : n \in job[g].created
      BY <2>2 DEF IssuedIsAnnounced, CommitChunk
    <3>2. n \in job'[g].created
      BY <3>1, <1>2, <1>3
    <3> QED  BY <3>2
  <2> QED  BY <2>1, <2>2
<1> QED
  BY <1>5, <1>6, <1>7, <1>8

(* An invoice that is voided keeps its number and its unit.                *)
LEMMA VoidStep ==
  ASSUME IInv, NEW n \in Number, VoidInvoice(n)
  PROVE  IInv'
<1> USE DEF IInv
<1>1. invoice' = [invoice EXCEPT ![n] = [unit |-> invoice[n].unit, status |-> "VOID"]]
  <2>1. invoice[n] \in InvoiceRow
    BY DEF TypeOK
  <2> QED  BY <2>1, VoidedRow DEF VoidInvoice
<1>2. TypeOK'
  BY <1>1, InvoiceRunAssumption DEF TypeOK, VoidInvoice, Disturb, InvoiceRow
<1>3. \A k \in Number : invoice'[k].unit = invoice[k].unit
  BY <1>1 DEF TypeOK
<1>4. Used' \subseteq Used
  BY <1>1 DEF Used, VoidInvoice, TypeOK
<1>5. AheadIsSeen'
  BY <1>4 DEF AheadIsSeen, VoidInvoice
<1>6. PreviewedIsNew'
  BY DEF PreviewedIsNew, VoidInvoice
<1>7. IssuedIsAnnounced'
  BY <1>3 DEF IssuedIsAnnounced, VoidInvoice
<1> QED
  BY <1>2, <1>5, <1>6, <1>7

-----------------------------------------------------------------------------
LEMMA InitIInv == Init => IInv
<1> SUFFICES ASSUME Init PROVE IInv
  OBVIOUS
<1>1. TypeOK
  BY IdleIsAJob, InvoiceRunAssumption DEF Init, TypeOK, InvoiceRow, NoInvoice
<1>2. \A h \in Handler : job[h].pc = "idle"
  BY DEF Init, Idle
<1>3. \A n \in Number : invoice[n].unit = 0
  BY DEF Init, NoInvoice
<1> QED
  BY <1>1, <1>2, <1>3 DEF IInv, AheadIsSeen, PreviewedIsNew, IssuedIsAnnounced

LEMMA RunCondoStep ==
  ASSUME IInv, NEW h \in Handler, RunCondo(h), trouble' \in 0 .. MaxTrouble
  PROVE  IInv'
<1>1. [Idle EXCEPT !.pc = "previewed"] \in Job /\ [Idle EXCEPT !.pc = "previewed"].created = {}
      /\ [Idle EXCEPT !.pc = "previewed"].pc = "previewed"
  BY InvoiceRunAssumption DEF Idle, Job
<1>2. job' = [job EXCEPT ![h] = [Idle EXCEPT !.pc = "previewed"]] /\ job[h].created = {}
  BY DEF RunCondo, Idle
<1>3. job'[h] = [Idle EXCEPT !.pc = "previewed"]
  BY <1>2 DEF IInv, TypeOK
<1>4. JobStep(h)
  BY <1>1, <1>2, <1>3 DEF JobStep
<1> QED
  BY <1>1, <1>3, <1>4, QuietStep DEF RunCondo, IInv, TypeOK

(* A request of management, or a run, begins to bill.                      *)
LEMMA StartStep ==
  ASSUME IInv, NEW h \in Handler, job[h] = Idle \/ job[h].pc = "previewed",
         NEW units \in SUBSET Unit, NEW billable \in SUBSET Unit, NEW existing \in SUBSET Unit,
         job' = [job EXCEPT ![h] = Working(units, billable, existing)],
         UNCHANGED <<invoice, last, announced, lost>>, trouble' \in 0 .. MaxTrouble
  PROVE  IInv'
<1>1. Working(units, billable, existing) \in Job /\ Working(units, billable, existing).pc = "working"
  BY WorkingIsAJob
<1>2. job'[h] = Working(units, billable, existing)
  BY DEF IInv, TypeOK
<1>3. job[h].created = {}
  BY DEF IInv, PreviewedIsNew, Idle
<1>4. JobStep(h)
  BY <1>1, <1>2, <1>3 DEF JobStep
<1> QED
  BY <1>1, <1>2, <1>4, QuietStep DEF IInv, TypeOK

LEMMA BeginChunkStep ==
  ASSUME IInv, NEW h \in Handler, NEW highest \in 0 .. MaxNumber, BeginChunk(h, highest)
  PROVE  IInv'
<1> DEFINE chunk == Chunk(job[h].todo)
<1> DEFINE pending == (chunk \cap job[h].billable) \ job[h].existing
<1> DEFINE pc == IF pending = {} THEN "working" ELSE "numbered"
<1> DEFINE top == IF pending = {} THEN 0 ELSE highest
<1> DEFINE j == [job[h] EXCEPT !.todo = job[h].todo \ chunk, !.pending = pending,
                               !.highest = top, !.pc = pc]
<1>1. job[h] \in Job
  BY DEF IInv, TypeOK
<1>2. job[h].todo \ chunk \in SUBSET Unit /\ pending \in SUBSET Unit
  BY <1>1 DEF Job
<1>3. top \in 0 .. MaxNumber /\ pc \in {"previewed", "working", "numbered", "crediting"}
  BY InvoiceRunAssumption
<1>4. j \in Job /\ j.pc = pc /\ j.highest = top /\ j.created = job[h].created
  <2>1. j = OnChunk(job[h], job[h].todo \ chunk, pending, top, pc)
    BY DEF OnChunk
  <2> HIDE DEF chunk, pending, pc, top, j
  <2> QED  BY <1>1, <1>2, <1>3, <2>1, OnChunkIsAJob DEF Pc
<1>5. job' = [job EXCEPT ![h] = j]
  BY DEF BeginChunk
<1>6. pc # "previewed" /\ (pc = "numbered" => \A n \in Used : n <= top)
  BY DEF BeginChunk, Highest
<1> HIDE DEF j, pc, top, pending, chunk
<1>7. job'[h] = j
  BY <1>5 DEF IInv, TypeOK
<1>8. JobStep(h)
  BY <1>4, <1>5, <1>6, <1>7 DEF JobStep
<1> QED
  BY <1>4, <1>6, <1>7, <1>8, QuietStep DEF BeginChunk, IInv, TypeOK

LEMMA SkipChunkStep ==
  ASSUME IInv, NEW h \in Handler, SkipChunk(h)
  PROVE  IInv'
<1> DEFINE j == [job[h] EXCEPT !.pc = "working", !.pending = {}, !.highest = 0]
<1>1. j \in Job /\ j.pc = "working" /\ j.created = job[h].created
  <2>1. "working" \in Pc /\ {} \in SUBSET Unit /\ 0 \in 0 .. MaxNumber /\ job[h] \in Job
    BY InvoiceRunAssumption DEF Pc, IInv, TypeOK
  <2>2. j = Past(job[h], "working", {}, 0)
    BY DEF Past
  <2> HIDE DEF j
  <2> QED  BY <2>1, <2>2, PastIsAJob
<1>2. job' = [job EXCEPT ![h] = j]
  BY DEF SkipChunk
<1> HIDE DEF j
<1>3. job'[h] = j
  BY <1>2 DEF IInv, TypeOK
<1>4. JobStep(h)
  BY <1>1, <1>2, <1>3 DEF JobStep
<1> QED
  BY <1>1, <1>3, <1>4, QuietStep DEF SkipChunk, IInv, TypeOK

LEMMA ApplyCreditStep ==
  ASSUME IInv, NEW h \in Handler, ApplyCredit(h)
  PROVE  IInv'
<1> DEFINE j == [job[h] EXCEPT !.pc = "working"]
<1>1. j \in Job /\ j.pc = "working" /\ j.created = job[h].created
  <2>1. ASSUME NEW r \in Job
        PROVE  LET k == [r EXCEPT !.pc = "working"]
               IN  k \in Job /\ k.pc = "working" /\ k.created = r.created
    BY DEF Job
  <2> QED  BY <2>1 DEF IInv, TypeOK
<1>2. job' = [job EXCEPT ![h] = j]
  BY DEF ApplyCredit
<1> HIDE DEF j
<1>3. job'[h] = j
  BY <1>2 DEF IInv, TypeOK
<1>4. JobStep(h)
  BY <1>1, <1>2, <1>3 DEF JobStep
<1> QED
  BY <1>1, <1>3, <1>4, QuietStep DEF ApplyCredit, IInv, TypeOK

(* A request ends: what it created is announced, or counted as lost.       *)
LEMMA EndStep ==
  ASSUME IInv, NEW h \in Handler, job' = [job EXCEPT ![h] = Idle],
         UNCHANGED <<invoice, last>>, trouble' \in 0 .. MaxTrouble,
         \/ announced' = announced \cup job[h].created /\ lost' = lost
         \/ lost' = lost \cup job[h].created /\ announced' = announced
  PROVE  IInv'
<1>1. job[h].created \in SUBSET Number
  BY DEF IInv, TypeOK, Job
<1>2. job'[h] = Idle /\ Idle.pc = "idle"
  BY DEF IInv, TypeOK, Idle
<1>3. JobStep(h)
  BY <1>2, IdleIsAJob DEF JobStep
<1>4. announced' \subseteq Number /\ lost' \subseteq Number
  BY <1>1 DEF IInv, TypeOK
<1> QED
  BY <1>2, <1>3, <1>4, QuietStep

LEMMA NextIInv == IInv /\ [Next]_vars => IInv'
<1> SUFFICES ASSUME IInv, [Next]_vars PROVE IInv'
  OBVIOUS
<1>1. trouble \in 0 .. MaxTrouble /\ (Disturb => trouble' \in 0 .. MaxTrouble)
  BY InvoiceRunAssumption DEF IInv, TypeOK, Disturb
<1>2. Billed \in SUBSET Unit /\ Unit \in SUBSET Unit /\ {} \in SUBSET Unit
  BY DEF Billed
<1>3. CASE Sweep
  BY <1>1, <1>3, RunCondoStep, InvoiceRunAssumption DEF Sweep
<1>4. CASE \E h \in Handler : RunNow(h)
  BY <1>1, <1>4, RunCondoStep DEF RunNow
<1>5. CASE \E h \in Handler : ReadExisting(h)
  <2>1. PICK h \in Handler : ReadExisting(h)
    BY <1>5
  <2> QED  BY <1>1, <1>2, <2>1, StartStep, BillableAreUnits DEF ReadExisting
<1>6. CASE \E h \in Handler, u \in Unit : Create(h, u)
  <2>1. PICK h \in Handler, u \in Unit : Create(h, u)
    BY <1>6
  <2>2. {u} \in SUBSET Unit
    OBVIOUS
  <2> QED  BY <1>1, <1>2, <2>1, <2>2, StartStep DEF Create
<1>7. CASE \E h \in Handler, units \in SUBSET Unit, explicit \in BOOLEAN :
             GenerateRecurring(h, units, explicit)
  <2>1. PICK h \in Handler, units \in SUBSET Unit, explicit \in BOOLEAN :
          GenerateRecurring(h, units, explicit)
    BY <1>7
  <2>2. (IF explicit THEN Unit ELSE Base \cup Extra) \in SUBSET Unit
    BY <1>2, BillableAreUnits
  <2> QED  BY <1>1, <1>2, <2>1, <2>2, StartStep DEF GenerateRecurring
<1>8. CASE \E h \in Handler, highest \in 0 .. MaxNumber : BeginChunk(h, highest)
  BY <1>8, BeginChunkStep
<1>9. CASE \E h \in Handler : CommitChunk(h)
  BY <1>9, CommitStep
<1>10. CASE \E h \in Handler : SkipChunk(h)
  BY <1>10, SkipChunkStep
<1>11. CASE \E h \in Handler : ApplyCredit(h)
  BY <1>11, ApplyCreditStep
<1>12. CASE \E h \in Handler : Finish(h)
  BY <1>1, <1>12, EndStep DEF Finish, Announces
<1>13. CASE \E h \in Handler : Fail(h)
  BY <1>1, <1>13, EndStep DEF Fail
<1>14. CASE \E n \in Number : VoidInvoice(n)
  BY <1>14, VoidStep
<1>15. CASE UNCHANGED vars
  BY <1>15 DEF vars, IInv, TypeOK, AheadIsSeen, PreviewedIsNew, IssuedIsAnnounced, Used
<1> QED
  BY <1>3, <1>4, <1>5, <1>6, <1>7, <1>8, <1>9, <1>10, <1>11, <1>12, <1>13, <1>14, <1>15
  DEF Next, Step

(* The inductive invariant holds of every behaviour.                       *)
THEOREM RunsInvariance == Spec => []IInv
<1>1. IInv /\ [Next]_vars => IInv'
  BY NextIInv
<1> QED
  BY <1>1, InitIInv, PTL DEF Spec

(* Invoices, the sequence and the requests keep their types.               *)
THEOREM RunsTypeCorrect == Spec => []TypeOK
<1>1. IInv => TypeOK
  BY DEF IInv
<1> QED
  BY <1>1, RunsInvariance, PTL

LEMMA SeenIsFree == IInv => NumbersAreFree
<1> SUFFICES ASSUME IInv, NEW h \in Handler, job[h].pc = "numbered", NEW u \in job[h].pending,
                    NumberOf(u, job[h].pending, job[h].highest) \in Used
             PROVE  FALSE
  BY DEF NumbersAreFree
<1> DEFINE n == NumberOf(u, job[h].pending, job[h].highest)
<1>1. job[h].pending \in SUBSET Unit /\ job[h].highest \in 0 .. MaxNumber
  BY DEF IInv, TypeOK, Job
<1>2. n \in Nat /\ n > last /\ n > job[h].highest
  BY <1>1, NumberIsNew DEF IInv
<1>3. n <= last \/ n <= job[h].highest
  BY DEF IInv, AheadIsSeen, Used
<1>4. last \in Nat /\ job[h].highest \in Nat
  BY <1>1, InvoiceRunAssumption DEF IInv, TypeOK
<1> HIDE DEF n
<1> QED
  BY <1>2, <1>3, <1>4

(* nextInvoiceNumber never gives a number in use, however many runs and    *)
(* single invoices read the highest one before they wait for the sequence. *)
THEOREM NumbersNeverCollide == Spec => []NumbersAreFree
BY SeenIsFree, RunsInvariance, PTL

(* The event of an issued invoice is lost only with its request.           *)
THEOREM EveryIssueAnnounced == Spec => []IssuedIsAnnounced
<1>1. IInv => IssuedIsAnnounced
  BY DEF IInv
<1> QED
  BY <1>1, RunsInvariance, PTL
=============================================================================
