# SmartResidence in TLA+

SmartResidence is a condominium management system: a NestJS API over one
PostgreSQL database (Prisma), web and mobile clients, a Redis queue for
notifications and scheduled jobs. All of its state that matters is in the
database; every HTTP request, gateway callback and scheduled job is a short
program of reads and writes against it. What is hard about it is therefore
always the same thing: several such programs run at once, each one checks
something and acts on it later, and any of them can die in between.

This directory models those programs, checks them with TLC on small instances,
and proves the money-critical results with TLAPS for every instance.

## Inventory

| component (apps/api/src) | state | operations | hard behaviour | what makes it correct |
|---|---|---|---|---|
| billing: invoices, payments, credit | invoices, payments, advance payments, unit account, ledger entries, receipts | issue, pay through a gateway, callback, poll, review, dismiss, manual payment, prepayment, credit loop, void, due sweep | settlement races, callbacks late or twice, check-then-act outside the transaction, crash between commit and credit | ledger append-only and idempotent, credit conserved, what an invoice shows is booked, void is final |
| billing: monthly run | invoice numbers, invoices of a period, automation runs | generateRecurring in chunks, automation run | two runs at once, a chunk that rolls back, a sequence behind the numbers in use | one invoice per unit and period, numbers never collide, every unit is billed in the end |
| billing: deposits | deposits, DEPOSIT fund entries, receipts | record, refund, forfeit, release on cancellation | two refunds at once | a deposit pays out at most what it holds |
| facility: bookings | bookings, their fee invoice and deposit | create, approve, reject, cancel | approve against cancel, two creates of one slot | slots not overbooked, money follows the booking |
| visitor | passes, access codes, overnight quota, walk-ins | register, approve, check in and out, extend | quota under Serializable with retries, decisions against expiry and cancellation, check-out in two writes | quota, open check-in rows agree with the status, a dead pass stays dead |
| access-restriction | one row per unit, the barrier's state at the integrator | recompute, restrict and clear by hand, webhooks | a recompute acts on old readings, webhooks cross or fail, events get lost | pay to unlock, the barrier follows the row |
| governance, polls | meetings, resolutions, polls, ballots, proxies | open, cast, edit, close, count, sweep | vote and edit against close, two openings, ballots deleted by cascade | one ballot per unit and resolution, results are final, a proxy binds |
| threads, faq, sla | threads, SLA clocks | reply, resolve, reopen, escalate | reply against auto-close | breach flagged once, status machine |
| forms, defect, parcel, lost-found | applications, defects, parcels, claims | submit, review, collect, claim | two reviewers, two claims | one final decision |
| safety | SOS alerts, patrol rounds | raise, acknowledge, resolve, checkpoint | two guards acknowledge | acknowledged once |
| procurement, accounting | vendor bills, journal entries, periods | approve, pay, post, reconcile | double posting | entries balance, posted once |
| einvoice | submissions | submit, poll, cancel | retry after a timeout | submitted once |
| announcement, notification | announcements, notification rows, queue | publish, schedule, deliver | publish twice, retry | each recipient once |
| auth, users, documents, storage | sessions, attachments | refresh, revoke, commit, sweep | refresh against revoke | a revoked session stays revoked |
| tenant, owner, handover, setup, platform, audit, cob, common, config, health, cache, queue, redis, realtime, prisma, integrations | configuration, wrappers | single-step updates | none of their own | - |
| web, mobile, docs applications, packages | view state | - | - | not modelled |

Components interact through the database (a booking creates an invoice and a
deposit in its own transaction and voids and releases them on cancellation;
access restriction reads overdue invoices; a resolution is voted on in a poll
that the polls' own endpoints reach too) and through in-process events
(`invoice.issued`, `invoice.paid`, `deposit.refunded`), whose handlers notify.

## Modules

| module | what it is |
|---|---|
| `Billing` | the money of one unit: `billing.service.ts`, `ledger.service.ts`, `receipt.service.ts` |
| `BillingProperties` | its type invariant, safety, action and liveness properties, and the refinement mapping |
| `MoneyBook` | the abstract specification: an append-only ledger |
| `BillingProofs` | TLAPS proofs about `Billing` |
| `Deposit` | security deposits: `deposit.service.ts` and what it writes to ledger and receipts |
| `DepositProofs` | proofs about `Deposit` |
| `Booking` | bookings of a facility: `booking.service.ts`; extends `Deposit`, whose actions it takes part in |
| `BookingProofs` | proofs about `Booking`, on top of `DepositProofs` |
| `DistributedLock` | `withLock`, the Redis lock the scheduled sweeps run under (the due sweep, which management starts, is not one of them) |
| `DistributedLockProofs` | proofs about `DistributedLock` |
| `Polls` | owner polls: `polls.service.ts`, rows, ballots, requests and the sweep |
| `Governance` | a meeting, its resolutions and proxies: `governance.service.ts`; extends `Polls` and composes with all its actions |
| `GovernanceProofs` | proofs about `Governance` and `Polls` together |
| `AccessRestriction` | restrictions of units in arrears, the events that trigger them and the barrier |
| `AccessRestrictionProofs` | proofs about `AccessRestriction` |
| `VisitorPass` | visitors, check-in rows and overnight slots: `visitor.service.ts` |
| `VisitorPassProofs` | proofs about `VisitorPass` |
| `InvoiceRun` | the monthly run: `generateRecurring` and the automation sweep, with the number sequence |
| `InvoiceRunProofs` | proofs about `InvoiceRun` |
| `MCBilling`, `MCDeposit`, `MCBooking`, `MCDistributedLock`, `MCGovernance`, `MCAccessRestriction`, `MCVisitorPass`, `MCInvoiceRun` | values and symmetry for TLC |

### Billing

A request is a *handler* `h`. `req[h]` is its local state: a program counter
(`idle` when the handler is free), the invoice and payment it works on, the
amount it read, the loop it is in (`todo`). The steps of a request are separated exactly
where another request can run:

* between a check made outside a transaction and the transaction (`ManualRead` /
  `ManualSettle`, `VoidRead` / `VoidWrite`, `DismissRead` / `DismissWrite`,
  `PayRead` / `PayCancel` / `PayInsert`, `SweepRead` / `SweepWrite` / `Remind`);
* inside `settleInvoice`, between the aggregate over the SUCCEEDED payments
  (`BeginSettle`) and the commit (`CommitSettle`). PostgreSQL runs the
  transactions at READ COMMITTED, Prisma's default here, so the aggregate sees
  what other transactions have committed and its own row, nothing else;
* between two iterations of the credit loop.

Rows that an open transaction has updated are locked: `LockedPayments`. A
conditional update that meets a lock waits and then re-evaluates its condition,
which is what a disabled action does.

`succeeded[i]` is what `payment.aggregate` would return for committed rows;
`AmountPaidExact` compares the invoice with the rows themselves. `ledger`
keeps what the properties need of `ledger_entries`: the keys written
(`booked`, `reversed`) and the totals by kind. `gateway[p]` is the provider's
side of a payment (external): `open` since its intent, then `full` or `short` for
money received as asked or less. It may report an attempt as failed at any time,
also before the payer succeeds with another attempt on the same intent, and
twice. The provider is never told that a row was cancelled, so it may answer for
a cancelled one.

`Verified` is what the code asks before it settles a row on the provider's word,
and it differs by path. A callback (`ByCallback`) is compared with the amount of
the row, and a short one goes to review. The inquiry of DuitNow QR
(`ByInquiry`, `pollDuitNowQrStatus`) carries no amount and settles on the status
alone, whatever was paid. `provider` of a row tells these apart; `Enabled` are
the gateways the condominium has switched on.

`FlagForReview` and `ApproveReviewed` are one step each although the code reads
the row and then updates it by id: what they write is metadata that is acted on
only while the row is PENDING, and a late write changes no status.
`DRAFT` invoices and `REFUNDED` payments exist in the schema only; no statement
of the code writes them.

Amounts are cents and totals 2 of them, so that an invoice can be unpaid, half
paid, paid and overpaid. The tolerances 0.005 and 0.01 of the code distinguish
nothing between whole cents, with one exception, left out: a gateway amount
one cent off is accepted by the code. A row whose `createIntent` fails stays
PENDING without a provider reference: in the model, one whose provider never
answers.

### Deposit

`deposit[d]` is the row. `books[d]` sums what the rest of the database says of
it: the keys of its ledger entries, the balance of the DEPOSIT fund, the income
it became, the receipts of refunds. `refund` reads the row before its
transaction (`RefundRead` keeps it in `req[h].row`) and writes absolute totals
computed from that read (`RefundWrite`); `refundHeldInTx` reads inside its
caller's transaction, which at READ COMMITTED locks nothing (`ReleaseRead`,
`ReleaseWrite`), and its update leaves `forfeitedAmount` alone. The ledger
writes an entry once per key (`Book`); receipts have no key (`Receipt`): with
two refunds of the same amount from one read these differ. Amounts are whole
cents, so the tolerance 0.005 is 0.

`raced[d]` is a history variable without a counterpart in the code: whether two
requests on the deposit have overlapped so far, and whether one of them was a
release. What the code promises only as long as requests come one by one is
stated of the deposits where they have (`FundIsHeld`), while the instance runs
every interleaving; `RowWithinAmount` holds until a release overlaps.

### Booking

`create` and `approve` do everything in a Serializable transaction, so `Create`
and `ApproveWrite` are one step each; a transaction that would not have been
serializable aborts, which is `AbandonTask` (or, for a create, nothing).
`approve`, `reject` and `cancel` check the status before their transaction:
`Review` and `CancelRead` are steps of their own and `task[h]` keeps what they
read. `reject` and `cancel` run at READ COMMITTED; `cancel` holds the row lock
of its booking from `CancelUpdate`, where it also reads the deposit, to
`CancelCommit`. What it voids and releases is what the links of the *read*
booking name. COMPLETED, which no code sets, is left out; so is the check of
opening hours, and the limit of the facility is a constant.

What a booking does with its deposit are actions of `Deposit`: `settleMoney`
records one (`Hold`), and a cancellation that finds something held goes through
`ReleaseRead` and `ReleaseWrite` in the same transaction as its own update,
next to the refunds and forfeits of the deposit endpoints. `Spec` therefore
implements `SpecDeposit` without a mapping.

`contended` is the history variable of bookings: those on which two requests
have overlapped. `MoneyFollowsBooking`, `CancelledReleasesMoney`, `OneFee` and
`OnlyPendingApproved` are promises of a booking that is not contended;
`NoOverbooking` holds of all.

### DistributedLock

`withLock` sets a key with an expiry and a random token, runs the sweep, and
deletes the key by a script if the token is still its own. The call (`Fire`),
Redis applying the SET (`Set`), the reply, the sweep and the release are
separate steps, as Redis and the network are external: a command can be
rejected, its reply lost and the command sent again by the client, the key can
expire or be evicted, and the instance can die anywhere. `TTL` is in ticks;
`MaxHold` is how long a sweep takes at most.

### Polls and Governance

`poll[p]` is a row of `polls`, whose `of` says for which resolution it was
opened; `ballots` is `poll_votes`. `req[h]` is what a request has read: a vote
(with the option it names, which a PATCH can delete meanwhile), an automatic
close, a PATCH, the opening or the closing of a resolution. A request begins by
reading and checking (`ReadForVote`, `ReadForPatch`, `LookAtExpired`,
`ReadForOpening`, `Tally`) and later writes by id (`RecordVote`, `WritePatch`,
`MaybeAutoClose`, `OpenResolutionVoting`, `CloseResolutionVoting`). Closing takes
three steps, as the code does: the tally, the quorum from a second read
(`CountQuorum`), and the transaction that closes the poll and writes the
snapshot. `CloseExpiredPolls` is one conditional update and so one step.
`Inserts` is the unique index on poll and unit; `OptionsDeleted` is the cascade
from an option to its ballots.

`Next` of `Governance` has every action of `Polls` beside its own: nothing in
the polls' endpoints tells a resolution's poll from another, and that is what
the module is about. `raced` are the polls on which a request overlapped a
closing, `doubled` the resolutions which two requests opened at once; the
promises are stated of the others, while every interleaving is explored.

### AccessRestriction

`row[u]` is the unit's row; one that does not exist reads as a cleared one.
`recomputeCondo` reads the settings (`ReadSettings`), the arrears
(`ReadArrears`), the rows (`ReadRows`) and then writes unit by unit (`WriteRow`), each write before a
webhook it awaits (`Deliver`, `WebhookFails`): another request can run between
any two of these. `due` counts `invoice.paid` events on their way to
`OnInvoicePaid`; `Pay` emits one, `Drop` (a partial payment, a voided invoice)
does not, as in the code. `Upsert` is what `forceRestrict` and `forceClear`
have in common. `barrier` is the integrator's side (external).

The history variables say where the code makes no promise: `stale` (the last
write to a unit came from an outdated reading), `quiet` (arrears fell and no
event is to tell), `astray` (webhooks crossed, failed, or were not sent because
the row read was not the row written).

### VisitorPass

`visitor[v]` is kind and status, `inside[v]` the check-in rows without a
`checkOutAt`. Registration of a holiday's overnight visitor counts the slots and
inserts in one Serializable transaction, so it is one step (`CreateOvernight`);
other nights' registrations wait for management and are not counted
(`unchecked`). A decision reads, checks and later writes the status by id
(`Decide`), some after `expireStale` has run in the same request
(`BeginFresh`), some without (`BeginAsIs`); where a deadline comes in between,
`approve` and `checkIn` themselves are to write EXPIRED (`BeginLate`). A check-out closes the latest open
row and checks the visitor out in two writes with nothing around them
(`CloseRow`, `WriteCheckedOut`), and `Die` may come between. `lapsed` and
`overdue` are the deadlines that have come. `torn` are the visitors written from
an outdated reading or left between the two writes.

### InvoiceRun

`invoice[n]` is the invoice with number `n` of the year (unit 0: of another
period), `last` the row of `billing_number_sequences`. `generateRecurring` reads
who is billed (`ReadExisting`), then works chunk by chunk: `BeginChunk` reads
the highest number in use, and `CommitChunk` is the rest of the chunk's
transaction, one step because its first write locks the sequence until it
commits; the unique index on unit and period makes it `SkipChunk` instead. Credit is applied
after each chunk, and `invoice.issued` is emitted for all of them at the end
(`Finish`). `Fail` is an error that is rethrown or the end of the process at
any of these points. Management may run it for some units with explicit lines,
issue single invoices and void any. Initially numbers may be in use that the
sequence does not know, as when it is younger than the invoices.

## Runs

| run | shows |
|---|---|
| `race` | two requests of seven kinds against one booking invoice and three payment rows of a gateway with callbacks, with crashes (723 thousand states): the ledger implements `MoneyBook`; what an invoice shows is booked; credit is conserved; charges are reversed once; what settled was paid, or approved by management; nothing revives a dead attempt |
| `serial` | one request at a time of eight kinds, both gateways, the clock and crashes beside it (1.7 million states): the promises that the code keeps when requests do not overlap, and that only the inquiry settles what was paid short |
| `live` | one request at a time under fairness, prepayments and advance payments up to 3 cents over two invoices: credit is applied, oldest invoice first |
| `deposit_requests` | refunds, forfeits and releases of one deposit by two requests: the liability falls only by what became income or was receipted; refunds leave the row right in itself; fund, receipts, income and row agree until requests overlap |
| `booking_slots` | three bookings over four instants, a limit of two: never overbooked |
| `booking_money` | two requests on two bookings that contend for one place, with fees and deposits, and refunds of those deposits: fee and deposit follow the booking, one fee |
| `lock_shared` | two timers with crashes, rejected and resent commands and eviction: a sweep within its TTL runs alone and has its key with the time it set, and the key is freed |
| `resolutions` | two requests over one resolution and two polls: voting, editing, looking and sweeping race the opening and the closing; one ballot per unit, results are final |
| `proxy_bypass` | the owner who gave a proxy votes through the poll's own endpoint (violation) |
| `restriction` | three requests about a unit whose arrears come and go: recomputes, force-restrict and force-clear, webhooks that cross or fail, lost events (1.1 million states); pay to unlock, the barrier follows |
| `visits` | two requests on two visitors with one slot: registration, decisions, arrival, check-out, sweeps and crashes (1.3 million states); slots hold, rows and status agree, dead passes stay dead |
| `invoice_run` | the hourly sweep and management's requests over three units in chunks of two, with single invoices, voids and failures: numbers never collide, every invoice is announced, every unit with a fee is billed in the end |

Bounds. Two handlers: every race of the code is between two requests, since a
check and its act belong to one request and one other request suffices to
invalidate it (the proofs cover any number). Three payment rows: one attempt, one that
supersedes it, one manual or credit payment. `MaxPrepaid` bounds the
prepayments, `MaxNow` the clock (long enough for an invoice to pass through due
soon and overdue). `Endpoint` selects the kinds of request of an instance, and
`Enabled` its gateways: `race` has the one whose callbacks are checked, as the
inquiry adds no interleaving and two gateways would double every row; `serial`
and `live` have both.
Payments, handlers and advances are symmetric. Deadlock is not checked: when
payment rows and bounds are used up the system rests, as the real one does
without requests.

A deposit of 4 cents can be partly refunded, partly forfeited and refunded
again, in equal and unequal parts, before two requests meet on what is left; one
of 1 cent cannot be split. Three bookings and a limit of 2 are the least with
which a slot can be overbooked by one that two others did not see; four instants
give intervals that nest, overlap, touch and are disjoint. That run has no
money; `booking_money` has one interval and a limit of 1, so that its two
bookings exclude each other, and as many invoices and deposits as they can take.
Three tokens let the release of one call of the lock meet another's key while a
third call is made, by either of the two instances; with a TTL of 2 ticks and
sweeps of up to 3, a sweep ends before, at and after the end of its key.
`OneAtATime` excuses no instance as such: of two sweeps that overlap, one has
outlived its TTL or lost its key to eviction.

`resolutions` has one unit, one resolution and two polls: an orphan and a
successor are the least with which a unit votes twice on a resolution, and one
unit is enough to vote twice. `MaxEdits` = 2 lets a PATCH put a poll back to
draft and another edit its options; the meeting's PATCHes draw on it too. `Moves` is
empty: a PATCH of `closesAt` only makes a poll expire earlier or later, and
with `MaxNow` = 1 and `Ends` = {1} each poll already is seen before and after
its end. `restriction` has one unit, as units meet only by delaying each
other's writes, which interleaving does anyway; `MaxOwed` = 2 and minima 1 and
2 separate owing from qualifying, three requests are needed to cross two webhooks
while a third reads; `MaxDue` = 1 event is under way at a time. `visits`: two visitors for one
slot exceed it, and a second check-in row per visitor (`MaxVisits`) is where the latest open row
and the open rows differ. `invoice_run`: units 1 and 3 pay a fee and 2 has only an
extra line, so that the first chunk of two bills both kinds and the second is a
chunk of one; `MaxTrouble` = 3 requests of management, voids or failures, and `MaxNumber` = 7
numbers, as many as these need after one that was there before.

Fairness. `FairSpec` of `Billing` assumes weak fairness of `Continue(h)`: a request that has
started runs on, because the code awaits nothing but the database. No fairness
is assumed of starting requests, of the payment provider or of the clock.
`FairSpec` of `DistributedLock` assumes that time passes, that the interval
timers keep firing, and that a command Redis can receive, and the sweep itself,
come to an end; not that an instance survives, that a command succeeds or that
Redis is ever reachable. `FairSpec` of `Governance` assumes only that the sweep's
interval timer keeps firing, and `FairSpec` of `InvoiceRun` that the hourly timer
does and that a request, once begun, goes on; a failure is an action without
fairness, and failures, voids and requests of management are finitely many
(`MaxTrouble`), without which nothing could be reached in the end. The fairness
of `Governance` does not help its one temporal run, `ProxyHonoured`, which is a
step property: it makes the counterexample one of a system that keeps running.

## Proofs

`BillingProofs` proves, from `BillingAssumption` only, for any number of
invoices, payment rows and concurrent requests: `TypeOK`, `CreditConserved`,
`PaidIsBooked`, `PaidIsCovered`, `ReversedOnce`, `SettledWasPaid`,
`SettledIsReceipted`, `DeadAttemptsStayDead`, and that `Billing` implements
`MoneyBook` (`LedgerAppendOnly`). These hold in every interleaving; what it
proves under conditions follows below.

None of these is inductive. `IInv` adds

* `RequestsNameRows`: a request at work names rows that exist;
* `LocksHold`: the rows of an open settlement are unsettled, and two open
  settlements share none. This is what makes booking a payment happen once;
* `SumsBooked`: the sum a settlement read is at most what is booked plus what
  it will book. This survives the lost update that breaks `AmountPaidExact`:
  the sum may be too small, never too large;
* `SettlingIsCleared`: a payment being settled is one that `Verified` let through:
  paid in full, approved by management, or reported by an inquiry that knows no
  amounts (`SettledWasPaid` names that exception, so it says nothing of short
  payments over DuitNow QR);
* `BooksMatchRows`: booked entries belong to rows that settled.

The step lemma splits on who writes rows: charging, withdrawing payments
(cancel, dismiss, void), inserting one, beginning and committing a settlement,
and the steps that only move a request (`RequestsRest`). The refinement proof
adds that the amount of a booked row never changes.

The promises of the runs `serial` and `live` are broken by requests that race, so
their theorems carry a condition, weaker than the runs' single handler where the
code allows it:

* `Apart` (no two requests are at work on one invoice) gives `SerialInv`
  (`ApartIsSerial`): the sum a settlement has aggregated, the balance a manual
  payment has checked, the emptiness a void has seen and the rows a sweep has
  listed are still so when they write, whatever requests on other invoices,
  callbacks, time and crashes do in between. From it `PaidNotOverdue`,
  `VoidHasNoPayments`, `VoidIsFinal` (of invoices that are no booking's) and
  `ManualWithinBalance`;
* `AggregateIsSum`, that `payment.aggregate` returns the sum of the `SUCCEEDED`
  rows, needs no condition: every step that settles or dismisses a row moves
  the sum with it (`AggregateAlwaysSum`). With `SerialInv` it is
  `AmountPaidExact`. That a sum over a finite set changes by what one row
  changes is itself proved, without induction theorems: the recursive function
  under `MapThenSumSet` is pinned down by a counterexample of least
  cardinality (`FoldExists`, `FoldsAgree`, `AmountsAdd`, `AmountsEqual`);
* `RemindedOncePerSweep` needs no condition but finitely many requests: an invoice
  is reminded at most as often as sweeps can overlap, since a sweep that starts
  after the mark was written does not list it. That each invoice is reminded
  *once* is true only of sweeps that do not overlap, and nothing prevents them
  from overlapping: `runDueSweep` is started by management over HTTP
  (`billing.controller.ts:132-140`) and takes no lock;
* a single request at a time, no crash and no booking invoices, as in `live`,
  give `CreditOldestFirst`: `CreditInv` says that between requests no credit
  lies beside a debt, and that the list the loop has left holds every debt. A
  crash between an invoice and its credit, or a booking's invoice, which is
  issued without any, breaks that.

`OneRequestIsApart` states that one request at a time meets `Apart`. All of this was checked with TLC before: `SerialInv` and
`AggregateIsSum` on two handlers and every endpoint, with `Apart` as the
constraint.

`DepositProofs` proves for any deposits, amounts and requests that
`DepositTypeOK` and `LiabilityExplained` hold in every interleaving,
`RowWithinAmount` and `FundIsHeld` likewise, each with the condition it states
on `raced`. `Base` is the common invariant: a row that does not exist has empty
books, and a request at work names a row that exists and has its amount, which
no step changes. `RowWithinAmount` needs that the row a request has read is
right in itself, and that a release that no request overlaps writes over the
row it read. `FundIsHeld` needs `InStep`: the only request on a deposit not
raced has read the row as it still is, and the cumulative amounts that will make
the next idempotency keys have not been used, so every payout books.

`BookingProofs` proves `TypeOK`, `NoOverbooking`, `SpecDeposit` and with it
`FundIsHeld`, `OneFee` and `OnlyPendingApproved` for any number of bookings,
instants, requests and places. Only create and approve make a booking active,
and whoever is present at a time the new booking covers overlaps it, so those
present are among the fewer than `MaxConcurrent` counted and the new one
(`RoomTaken`); every other step only removes bookings (`StillRoom`). The
refinement needs `Tasks`: a handler at work on a booking has no request of its
own on a deposit until cancel begins its release. `OneFee` and
`OnlyPendingApproved` need `Steady`, that the check of an approval still holds
when it writes unless the booking is contended, which in turn needs `Meet`, that
whoever decides the booking in between makes it contended.

`MoneyFollowsBooking` and `CancelledReleasesMoney` need three more facts (in `MInv`):
what a booking is linked to exists, a cancellation nothing contends with still
has the links of its booking (`LinksRead`), and between its update and its commit
it is releasing the deposit or nothing was held (`Releasing`). The step lemma
splits on whether a step writes to a booking (`MoneyMoves`) or not (`MoneyStays`);
of deposits it needs only that what is held falls and never rises while nothing
overlaps (`HeldFalls`) and that a release leaves nothing (`Drained`), both proved
in `DepositProofs`.

`DistributedLockProofs` proves `TypeOK`, `OneAtATime` and `KeyIsKept` for any
number of instances and any `TTL`. `KeyIsKept` is what makes the exclusion work: a
sweep that has neither outlived its TTL nor lost its key to Redis still has the
key, under its own token and with exactly the time left that it has not used, so
no resent SET, late release or other instance has touched it. Tokens of calls
under way are distinct, which the proof needs for the releases.

`InvoiceRunProofs` proves `TypeOK`, `NumbersAreFree` and `IssuedIsAnnounced` for
any number of units, chunk size and requests. `nextInvoiceNumber` takes the
highest number in use from a read that may be old when it increments the
sequence. `AheadIsSeen` says why that is enough: numbers above the sequence are
only ever those that were there from the start, and every chunk has seen these;
what it has not seen was issued since, through the sequence.

`VisitorPassProofs` proves `TypeOK`, `VisitsAddUp`, `DeadPassesStayDead` and
`SlotsKept` for any visitors, requests and number of slots. `RowsAddUp` adds to
`VisitsAddUp` what a check-out half done looks like and that whoever is about to
close a row knows the only one; `CallsKnow` that a decision was taken on an
upcoming visit, so that a write on a fresh reading never leaves a final status;
`TableKnows` that only walk-ins wait for an owner, and these take no slot.

`AccessRestrictionProofs` proves `TypeOK`, `PaidIsUnlocked` and `BarrierFollows` for
any units, requests, amounts and settings. `PaidIsUnlocked` is inductive once
`WillClear` speaks of every stage of a recompute; one that has read settings
which are no longer in force counts for nothing until it has read the arrears;
`BarrierFollows` needs `NoticesAreTrue`, that the one webhook under way about a
unit says what its row says.

`GovernanceProofs` proves `TypeOK`, `OneBallotPerUnit` and `ResultsAreFinal` for any
polls, units, resolutions, requests and instants. `Linked` says that without a
second opening a resolution's poll is the only one that names it, which needs
`OpenedOnce` of the requests still to open one. `ClosingsAlone` says that a
closing no request has met is alone on its poll and has counted what there is,
so its snapshot is right when written; afterwards (`ResultsStand`) only PATCHes
that leave the poll closed and its options alone can still be at work on it.
`WorkKeeps` is the step lemma for all the polls' own writes: each either leaves a
poll's ballots and closure alone or is by a request that no closing and no result
has to fear.

Every safety invariant and every action property that the passing runs check is
stated by a theorem. Model-checked only: the liveness properties (`CreditIsApplied`,
`LockIsFreed`, `EveryUnitIsBilled`), since liveness under fairness and ENABLED are
out of the prover's reach, and the violation `proxy_bypass`, which is a
counterexample.

## Findings

One run shows the code disagreeing with what its own messages and documents
say; PROJECT.json quotes them. `proxy_bypass`: a resolution is voted on in a poll
like any other, whose endpoint `castVote` looks at who owns the unit and never at
the meeting's proxies. The owner who gave a proxy votes there, and the holder,
who "only" may vote, is then refused.

## Observations

What else was met while modelling. These are the conditions that the properties
carry (`raced`, `contended`, `doubled`, `stale`, `quiet`, `astray`, `torn`,
`unchecked`, the single handler of `serial`), and the reason they do. Most have
one cause: a status or a balance is read before the transaction, or inside one
at READ COMMITTED, and the update that follows is by id alone.

A property with such a condition says that the race it excuses is the only way to
break the promise; it does not say that the race cannot happen, and would not
notice it getting worse. The notes on the hazards in PROJECT.json say which.

Billing, deposits, bookings, lock
* Two settlements that overlap store an `amountPaid` without one of the payments
  (`billing.service.ts:1291`); a payment settles on an invoice voided meanwhile
  or a void on one settled meanwhile; two manual payments pass the check against
  one balance, and a sweep marks overdue what was paid meanwhile
  (`AmountPaidExact`, `VoidHasNoPayments`, `VoidIsFinal`, `ManualWithinBalance`,
  `PaidNotOverdue` are proved of requests that do not overlap on an invoice).
* `pollDuitNowQrStatus` settles on the status of the inquiry alone
  (`billing.service.ts:633-634`; advances likewise), so an amount paid short settles
  without review, where the comment at 560-563 says "only settle when it matches"
  (of callbacks) and the features page (`apps/web/src/app/features/page.tsx:441`)
  "mismatched amounts are held for review instead of auto-approved".
* `runDueSweep` is to remind "at most once per invoice" (its comment,
  `billing.service.ts:1041-1042`). Two sweeps that overlap both list an invoice that
  has no mark yet and both remind; no lock keeps them apart
  (`RemindedOncePerSweep` is what holds).
* The void of a booking's invoice leaves its pending payments
  (`voidUnpaidInvoiceInTx`), so a callback that comes later settles one and takes
  the invoice out of `VOID`: `VoidIsFinal` is about the others.
* Two refunds on one reading of a deposit are both paid out
  (`deposit.service.ts:261`); a cancellation's release writes over a forfeit.
* Two approvals charge a booking twice, an approval can confirm a cancelled
  booking, and a cancellation that read the booking before its approval leaves
  the deposit held and the fee due (`booking.service.ts:280`).
* The comment at `distributed-lock.service.ts:7-9` has the lock fail open; while
  Redis is unreachable no sweep runs.
* The fee invoice of a booking is issued without applying the unit's credit.

Monthly run
* `already_generated` looks at units with a fee rate only (`automation.md:75`), so once
  these are billed, units with only an extra line are passed over until
  management runs it by hand.
* One collision rolls a whole chunk back and counts it as skipped; a later run
  bills its other units (`EveryUnitIsBilled`).
* An error in a late chunk, or in a credit, loses the `invoice.issued` events of all the
  chunks before it (`lost`), and no later run makes up for them.
* `recordRun` writes the condominium's settings from its early read, which undoes a
  change made while it ran.

Access restriction
* Partial payments and voids trigger no recompute, and a recompute
  that read before a payment can write after the one the payment triggered: the
  unit stays blocked until the next.
* An exemption ends as soon as arrears fall below the minimum, or the minimum rises
  above them (`access-restriction.service.ts:300-306`), where the comment at
  `schema.prisma:336` has the engine skip the unit "until arrears hit zero or
  force-restrict"; a recompute that read the row before management exempted the
  unit restricts it nevertheless. No property states the comment; a manual restriction of a unit without arrears is
  cleared by the next recompute.

Governance
* Two requests that open one resolution leave an orphan poll with ballots.
* A poll closed by `closesAt` gets no results snapshot unless management closes
  the resolution before anyone looks.
* A resolution's poll can be set back to draft, and an edit of its options then
  deletes the ballots by cascade.
* A ballot read before the closing is inserted after its tally.
* Minutes can be published, and a further resolution opened for voting after.

Visitors
* A process that stops between the two writes of a check-out leaves a visitor
  CHECKED_IN without an open row, and the sweep, which needs one, never ends the visit.
* Decisions on outdated readings revive passes that expired or were cancelled meanwhile.

Where the code uses a conditional update instead (the settlement of a gateway
payment, `consumeCredit`, `closeExpiredPolls`), a Serializable transaction
(`assertNoConflict`, the overnight slots), a unique index (ballots, invoices of a
period) or a row lock taken first (the number sequence), the corresponding property
holds in every interleaving and is proved.

## Plan

Done: billing with the monthly run, deposits, bookings, the lock of the sweeps, polls and
general meetings, access restriction, visitors.

Next, in this order:

1. `FundAllocation`: the split of a payment over funds in `ledger.service.ts`,
   an algorithm checked against a reference definition.
2. `Threads` with `Sla` (status machine, reopening, breach flagged once), `Forms`
   (one final decision, deposits through `Deposit`).
3. `Procurement` with the postings of `accounting`; `einvoice` with retries; the
   notification queue.
4. An abstract slot-booking specification that `Booking` and the overnight slots
   both implement; the composition of `Billing`'s settlement with the events
   `AccessRestriction` consumes, and of `DistributedLock` with `InvoiceRun`'s sweep.

## Not modelled

* Subsystems of the plan above: threads and faq, sla, forms, defects, parcels,
  lost-found, safety, procurement, accounting, e-invoices, announcements and
  notifications, sessions, attachments. Most are one-row status machines whose
  one hazard is the read-check-write by id studied here in billing,
  deposits, governance and visitors.
* Code without state of its own: the web, mobile and documentation applications,
  the generated API client and shared types, PDF and CSV rendering, serializers,
  guards, configuration, seeds. They are most of the repository's lines.
* External systems beyond what their answers can be: payment providers, Redis,
  the barrier's integrator, MyInvois.
* Within modelled components: see the notes of PROJECT.json's components.
