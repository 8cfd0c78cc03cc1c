# DalaDrop API: TLA+ models, checks and proofs

This directory models the DalaDrop API (`src/src`): the money path (payments, the
journals of accounting, wallets, escrow holds, settlement batches), what customers buy
with it (rides, orders, event bookings, prices, menus, proofs of delivery), and the
services the rest leans on (sessions, idempotency keys, scheduled tasks, the queue,
message brokers, notifications, support tickets, the search index). Modules are TLA+,
model checked with TLC; theorems are proved with TLAPS. `PROJECT.json` lists the
components, runs, mutants, hazards and theorems, and maps every definition to the lines
it stands for.

## The system

A NestJS API over PostgreSQL (Prisma). A request runs in a Node process and gives way at
every `await`; several processes may serve one database. Isolation is READ COMMITTED.
Domain events travel inside the process (`EventEmitter2`): emit starts every listener,
and a listener that throws is logged and not retried.

| Component | State | Operations | What is hard |
|---|---|---|---|
| payments | `payments`, `payment_provider_transactions`, `refunds`, `inbound_webhook_events`, `outbox_events` | create, query, retry, cancel, reverse, manual approve, refund, webhook | every request reads, awaits a gateway, and writes the whole row without a version; lost replies; duplicate callbacks; save and publish are two calls |
| accounting | journals, lines, balances, periods | post a capture, a refund, a release, a payout; drafts, reversal, period close | balances are read and written back; entry numbers are a count; idempotency lookups outside the transaction |
| wallets: wallet | `wallets`, `wallet_transactions` | credit, debit, hold, release, unhold, adjust, transfer, getOrCreate | row locks against version checks, idempotency keys looked up outside the transaction, opposite transfers |
| wallets: escrow | `escrow_holds` and one wallet | hold, release, forfeit, refund, unwind a refund | the hold is read before the wallet is locked; the release journal is posted after the commit |
| wallets: settlement | `settlement_batches`, items, `settlements` | create, approve, process, cancel | a long loop with no lock over it; failures midway; a snapshot of balances |
| wallets: mirroring | marks on journals and refunds | journal posted: hold, top up, unwind | depends on the order and the survival of in-process events |
| orders | `orders`, status history, reviews, quotes | checkout, pay, payment events, status updates of customer, merchant and admin, review | three services and a listener write one row by id, each by its own table of transitions |
| transport | `rides`, `riders` | create, pay, dispatch, assign, move on, reject, cancel, payment events | a ride and its rider's availability are two rows; dispatch races dispatch, admins and payments |
| events | events, ticket types, bookings, tickets | buy, pay, payment events, admin changes | capacity is summed, then written; nothing locks |
| logistics | pricing rules, quotes, proofs, the rider's review count | quote, price, consume, submit a proof, rate | roundings made twice; single-use quotes; a proof, its copies and an announcement in three writes; reviews are counted, then the count is written |
| catalog, merchants, compliance | merchants, papers, stores, menus, proofs of age | admin changes, review, checkout's reads | a checkout reads table after table while all of it changes; reviews decide on what they read |
| discovery | a search index per process, in memory | index, remove and reindex jobs, search | jobs are deduplicated by id, run in one process, load and then put |
| identity | account, sessions, login challenges, signup codes, reset tokens | login, MFA, refresh, logout, suspension, deletion, password change and reset | whoever issues a session read the account before; refresh rotation |
| operations: support | tickets, audit trail, announcements | reply, assign, escalate, merge, close, reopen | load, decide, write by id, audit, announce: five awaits |
| notifications | preferences, notices, devices | the listeners of domain events | all listeners of one event run at once and share rows |
| platform | idempotency records, locks and timers, the in-memory queue | reserve, run, complete; run a task under a lock; add, process, pause, evict | expiring locks, eviction at a limit, timeouts that leave work running |
| infrastructure: brokers | streams, queues and subjects of Redis, RabbitMQ, NATS | poll, handle, ack, nack, retry, dead-letter, reconnect | settling before republishing; what a broker remembers; loops after reconnection |
| core, shared, common, other adapters | base classes, money, drivers | I/O and helpers | what PostgreSQL guarantees, which the services count on |

How they interact. A checkout reads the menus, prices its order by a quote and asks
payments for an initiation; a ride and a booking do the same with fares and tickets. A
capture appends `PaymentCompleted`: the order, ride and booking listeners move their rows
on, and accounting posts its journal and emits `JournalPosted`; mirroring holds the money
on the beneficiary's wallet; an admin closes the hold, a release posts another journal
and makes the money available; a settlement batch debits the wallet and posts the payout.
Every status change is also an event for the notification listeners, and every change of
the catalogue one for the search listener, which asks the queue for a job.

## Modules

| Module | Stands for | Correspondence |
|---|---|---|
| `PaymentDomain` | `payment.ts`, `lifecycle.mapper.ts`, provider answers | the transition table, the events, and the two conversions of a save and a restore, which lose information (thirteen lifecycle states, fewer columns), as operators |
| `PaymentLifecycle` | what a reader of `payments` may rely on | the abstract specification: appears once, moves along the table, at most two transitions per save |
| `Payments` | `payments.service.ts`, the Prisma repository, the three adapters, the outbox | one payment; a worker is a request with its program counter and the aggregate in its memory; one action per awaited call; tables are variables; the gateway (`gateway`, `payout`) is external |
| `WalletOps` | `wallet-ops.ts`, `wallet-balance.ts` | the arithmetic of each operation and the ledger row it writes |
| `Wallet` | `wallet.service.ts` | a locked operation is one step from `FOR UPDATE` to commit; a transfer's two reads and two writes are separate steps; row locks, the version column, the unique reference and PostgreSQL's deadlock detection |
| `Escrow` | `escrow.service.ts`, `postEscrowRelease` | one beneficiary wallet; each operation is: read outside, re-read inside, then lock and commit; the release journal follows |
| `Settlement` | `settlement.service.ts`, `postSettlementPayout` | batches and payouts; the processing loop, statement by statement |
| `Journal` | `journal.service.ts`, `posting-engine.service.ts` (captures and refunds), `accounting-periods.service.ts`, `journal-persistence.util.ts` | the journals, periods and balances of one month; a posting is a transaction of several awaited reads and writes, whose writes stay in its request until the commit |
| `Mirroring` | `wallet-mirroring.service.ts`, the accounting and wallet listeners | one captured payment and its refunds: event, journal, `JournalPosted`, hold or credit, unwinding; a journal is a mark and the wallet a balance here |
| `Orders` | `multi-checkout`, `module-orders`, `merchant-orders`, `admin-orders`, `order-reviews`, `order-payment.listener.ts` | read, decide and write are separate steps; the three transition tables are kept apart |
| `Rides` | `rides.service.ts`, `ride-dispatch.service.ts`, `ride-payment.listener.ts` | only the automatic claim is a conditional update; the rest writes by id |
| `Bookings` | `event-booking.service.ts`, `admin-events.service.ts`, the booking payment listener | one event, one ticket type; a transaction's writes appear at its commit |
| `Pricing` | `quote-engine`, `delivery-quote`, the totals of checkout and rides | the formulas with their roundings in whole shillings; rules, the hour and quotes change between quoting and ordering |
| `Storefront` | `catalog`, `merchants`, `compliance`, the reads of `multi-checkout` | one merchant, one restaurant, its items and options; four queries of a checkout are four steps |
| `Delivery` | `proof-of-delivery.service.ts`, the completions that call it, and `rate` of orders and rides | an order and a ride of one rider; status, proof, copied columns and announcement are separate writes, and so are a review, the count and its storing |
| `Idempotency` | `idempotency.service.ts` and its in-memory and Prisma stores | reserve, run, complete or release; waiting and replay; expiry, eviction; a record's number, given when it is created, is also its place in the Map's order, since no record is set under a key that has one |
| `Scheduler` | `scheduler.service.ts`, the in-memory lock | one task, several schedulers; timers that are tracked and timers whose handle was lost |
| `Queue` | `in-memory-queue.adapter.ts` | a worker runs from one await to the next in a step; jobs are numbered in order of creation |
| `Identity` | `auth`, `profile`, `admin-users` services and the identity repository | one account; passwords and refresh tokens are numbers; codes are right or wrong |
| `Support` | `support-tickets.service.ts`, `support-ticket-lifecycle.ts` | load, write, audit and announce are separate steps |
| `Notifier` | the notification listeners, the workflow orchestrators, preferences, push | a task is one listener walking its recipients |
| `Broker` | `base-broker.adapter.ts` over the Redis Streams, RabbitMQ and NATS drivers | one topic and one subscription; what the broker keeps of an unsettled message is external and differs per driver |
| `SearchIndex` | the search listener, indexer, processor and in-memory engine | several processes, one index each; load and put are separate steps |
| `..._proofs` | | theorems about the module, or, for `Escrow`, `Settlement`, `Journal`, `MCCommerce` and `MCPlatform`, about its MC module, whose history variables the properties need |
| `Sums` | | lemmas about sums over finite sets, which those proofs share |
| `MC...` of one module | | start states, values of constants, and the history variables and properties that need them |
| `MCCommerce` | rides, orders, bookings, pricing, mirroring, storefront, delivery | one run for seven models that share no state but the payment service's; `part` says which a behaviour is of, and the others' variables stand still |
| `MCPlatform` | idempotency, scheduler, queue, identity, support, notifier, broker, search index | the same for eight |

In every module `left` bounds the requests and `faults` the failures. A request that
throws before it has written anything is not a step: it changes nothing anybody can see.
Names follow the code (`KeyFree` is the unique index on `idempotency_key`, `Undebited`
the one on `(wallet_id, reference)`, and so on). An operator with the comment *Mutation*
is a plausible mistake in the operator below it. No specification uses it; it is there
to show that some property depends on the correct one.

### History variables

Much of this code reads a row, decides, and writes it by id in a later statement, so some
guarantee is given up whenever two requests overlap on one row. The properties named
`...Unless...` say what it does promise, and history variables, which the modelled code
never reads, record the overlaps that are excused. Each is as narrow as the code allows:
it names the row (or the ride, ticket, message, key) that was disturbed, and all the
others still have to satisfy the property, whatever interleaves.

| Module | Variables | Record |
|---|---|---|
| `MCEscrow`, `MCSettlement` | `mixed` | two different requests on one hold or batch (duplicates of one request are not excused) |
| `MCJournal` | `mixed`, `raced` | two requests on one journal or refund; a period closed under a posting that had found it OPEN |
| `MCRides` | `mixed`, `odd`, `forced` | two requests that write one ride's status; riders assigned while busy, or dropped by a rejection or the customer; rides an admin sent searching unpaid |
| `MCOrders` | `mixed`, `handled`, `shared` | two requests on one order; orders an admin moved; a quote looked up again before its first use was written |
| `Bookings` | `raced` | purchases that overlapped one another, or a lowered capacity |
| `Mirroring` | `disturbed` | a handler died, a refund overtook the collection, two refund events at once, or the money was used |
| `MCStorefront` | `offers`, `unfair`, `judged`, `checked`, `revived`, `mixed` | what was on offer while a checkout ran, what reviewers saw, overlaps per kind of request |
| `Delivery` | `last`, `broken`, `mixed`, `crossed` | the proof handed in last; jobs a request of which ended in an error; overlaps; two counts of reviews at once |
| `MCIdempotency` | `forgotten` | keys whose record expired, was evicted, died, was released after its effect, or was taken over |
| `Scheduler` | `late`, `disturbed` | runs that outlived their lock; schedulers restarted during a run or whose acquisition failed |
| `Queue` | `stranded` | jobs an undisturbed pass left waiting (must stay empty) |
| `MCIdentity` | `basis`, `overtaken`, `raced` | the password and challenge a session was issued on; sessions issued on an account that changed meanwhile; overlapping refreshes |
| `Support` | `mixed`, `broken` | overlapping requests on a ticket; requests that died |
| `MCNotifier` | `asked`, `shaken`, `collided` | preferences at the emission; failures and changes of mind; the race to create a preferences row |
| `MCBroker` | `tries`, `cut`, `again` | failed handlers per message; messages a fault may have taken; messages that may be handled again |
| `MCSearchIndex` | `behind`, `crossed` | documents known to be out of date; runs another run or change got into |

## Runs

All runs but `wallet_transfers` check safety and need no fairness. Deadlock checking is
off everywhere: a run ends when its bounded requests are used up.

| Run | Bounds | Properties and what they show |
|---|---|---|
| `payments_concurrent` | any provider, 2 workers, 4 requests, 2 initiations, 2 refunds of 1 or 2 out of 2, one fault (failed call, lost reply or crash) | `OneInitiationPerKey`; `RefundsWithinCapture`; `MoneyBacked`: completions and refunds are backed by money, and payouts stay within the capture when undisturbed; `CaptureIsAnnounced`; `ProcessedIsFinal`: a processed callback stays so |
| `payments_sequential` | one worker, 6 requests, one fault | `LifecycleFollowed`: the stored payment implements `PaymentLifecycle` when requests do not overlap |
| `payments_claim` | KopoKopo, 2 workers, 3 requests | violation of `ClaimIsExclusive`: two deliveries of one callback both apply it |
| `wallet_operations` | 2 wallets, all operations and transfers, amount 1, one shared key, 4 requests | `LedgerSound`: balances are not negative, no update is lost, a key is applied once; `LedgerExplainsTotal` |
| `wallet_transfers` | 2 wallets, transfers and top-ups of 1 or 2, 4 requests | `TransfersBalance`; `EveryRequestEnds`, although opposite transfers lock in opposite orders |
| `wallet_rawrows` | one wallet, rows as `$queryRaw` returns them | violation of `CreditIsApplied`: a credit changes nothing |
| `escrow_concurrent` | 2 payments (2 and 1), 2 refunds of 1, all closes, 6 requests, one fault | `HoldsSound`: one hold per payment, no negative balance; `HeldUnlessMixed`: held balance, holds and release journals agree; `FinalUnlessMixed` |
| `settlement_concurrent` | 2 wallets (1 and 2), 2 batches, approval, one key, 6 requests or movements, one fault | `MoneyAccounted`: nothing is debited twice or overdrawn, COMPLETED means paid; `PaidAsApproved`; `PayoutsUnlessMixed`: journals and cancellations agree with payouts |
| `settlement_retry` | one wallet, one worker, one fault | violation of `DebitedCanFinish`: a debited payout of a FAILED batch can never be finished |
| `journal_concurrent` | 2 payments on two days, the refund of the first, 2 workers, 4 requests, 2 reversal keys, one fault; the month starts without a period or with an OPEN one | `EntriesSound`: numbers of a day have no gaps, a payment is journaled once; `BooksUnlessMixed`; `FixedUnlessMixed`: posted journals and closed periods stay |
| `commerce_concurrent` | see below | `RidersAccounted`, `RideStepsUnlessMixed` (rides); `PaidBeforeService` (rides and orders); `OrderStepsUnlessMixed` (orders); `QuotesHonoured` (orders and pricing); `TicketsWithinCapacity`; `SoldAsOffered` (storefront); `ProofsUnlessBroken` (delivery); `MoneyFollowsPayment` (mirroring) |
| `platform_concurrent` | see below | `IdempotentUnlessForgotten`; `OneRunUnlessDisturbed` (scheduler); `JobsKeptInOrder` (queue); `SessionsUnlessOvertaken`; `TrailUnlessMixed` (support); `AsAskedUnlessShaken` (notifications); `DeliveredUnlessCut` (brokers); `IndexFollowsUnlessBehind` (search) |

Bounds of `commerce_concurrent`, each part by itself: two workers throughout. Rides: 2
rides, 2 riders, 3 requests or events, one fault, starting with no ride or with one as
sequential requests leave it. Orders: 2 orders (one may exist in any of five states), 3
requests or events, one fault; of the statuses five targets, which touch every rule of
the three tables. Bookings: 2 bookings of 1 or 2 tickets, capacity 2 or 3, 4 requests.
Pricing: hours 8, 10, 12 and 18 (inside and outside the peaks), distances 2 and 3 around
the longest 2, subtotals 0, 30 and 31, charges whose surge and peak round both ways,
credits that exceed the total. Storefront: 2 items, 2 prices, 2 option prices, 3
requests. Delivery: an order and a ride, both under way or both completed, 2 photos, 3
requests, one fault. Mirroring: a capture of 3, 2 refunds of 1 to 3, each event published twice, one fault.

Bounds of `platform_concurrent`: idempotency with 2 keys, 2 prints, a store of capacity
1, 4 requests; the scheduler with 2 instances, 3 runs at once, 6 starts, stops and
timers; the queue with 2 workers, 2 priorities, 3 places to wait, 4 records, 7 calls;
identity with 2 sessions, one challenge of 2 attempts, 5 requests; support with 2
tickets, 4 requests and one that dies; notifications with 2 events of 11 kinds (a ride
moved by its rider, whose many listeners make the largest instance, is left to the
definition), 2 listeners at work at a time, 2 emissions or changes; brokers with 3 loops,
2 messages, 1 retry, batches of 2, 2 faults; search with 2 processes, a store and a
product, one text, 2 runs at once, 3 requests, 2 attempts per job (5 in the code); one
failed call each.

Why the bounds are enough: nearly every race in this code is between two requests over
one row, and two workers have all of them; where a third matters (a run that takes the
lock of a late one, a loop that a recovery leaves behind) there are three. The request
budget lets a payment be created, captured, refunded and hit by a callback, one batch be
created, approved, processed by two requests and joined by a movement, and a ride be
dispatched, rejected and dispatched again around a payment event. Two refunds, two holds,
two wallets and two batches are the least that can share a sum or a lock; a capture of 2
has a partial refund, an exact one and an excessive one. Two value dates are the least on
which postings do not collide on their numbers, and four requests let a journal be
drafted, posted and reversed around another posting. Limits (queue, store, capacity,
attempts, retries) are small enough to be hit and exceeded.

Symmetry is declared over workers, refunds, and the sets of platform identifiers that
play the same role; no run with a liveness property uses it.

Fairness: only `Wallet!FairSpec`, weak fairness of each worker's own steps. The event
loop runs every continuation that is ready, PostgreSQL grants a free row lock to a
waiter, and `DeadlockDetected` is what its deadlock detector does for a circle of
waiters. Requests arrive without fairness. Elsewhere the code promises no progress:
in-process events and requests may die, and nothing repeats them.

## What is proved

TLAPS proves, for any sets of workers and rows, any amounts and any number of requests
and faults, every property of the runs of payments, wallets, escrow, settlement, journals
and commerce but the three that are violated and one liveness property, and of the run of
the platform all but the queue's:

| Module | Theorems and the properties they state |
|---|---|
| `Payments_proofs` | `TypeCorrect`; `InitiatedOncePerKey` (`OneInitiationPerKey`); `ProcessedStaysProcessed` (`ProcessedIsFinal`); `RefundsOwned`; `RefundsStayWithinCapture` (`RefundsWithinCapture`); `MoneyIsBacked` (`MoneyBacked`); `CapturesAreAnnounced` (`CaptureIsAnnounced`); `LifecycleIsFollowed` (`LifecycleFollowed`, the refinement of `PaymentLifecycle`, when there is one worker) |
| `Wallet_proofs` | `TypeCorrect`; `LedgerIsSound` (`LedgerSound`), that is, `NeverNegative`, `LedgerIsAChain` (no update is lost) and `AppliedOnce` (a key is applied once per wallet); `MovementsExplainTotal` (`LedgerExplainsTotal`); `TransfersCancelOut` (`TransfersBalance`) |
| `Escrow_proofs` | `TypeCorrect`; `HoldsAreSound` (`HoldsSound`); `HoldsAddUp` (`HeldUnlessMixed`); `ClosedIsFinal` (`FinalUnlessMixed`) |
| `Settlement_proofs` | `BatchesAreKept`; `PaymentFollowsApproval` (`PaidAsApproved`); `MoneyIsAccounted` (`MoneyAccounted`); `PayoutsAreSingle` (`PayoutsUnlessMixed`) |
| `Journal_proofs` | `TypeCorrect`; `EntriesAreSound` (`EntriesSound`); `BooksAddUp` (`BooksUnlessMixed`); `PostedIsFixed` (`FixedUnlessMixed`) |
| `Commerce_proofs` | `CommerceIsTyped`; `RidersAreAccounted` (`RidersAccounted`); `RidesFollowTheTable` (`RideStepsUnlessMixed`); `ServiceIsPaid` (`PaidBeforeService`); `OrdersGoForward` (`OrderStepsUnlessMixed`); `QuotesAreHonoured` (`QuotesHonoured`); `TicketsAreCovered` (`TicketsWithinCapacity`); `SalesAreAsOffered` (`SoldAsOffered`); `ProofsAreKept` (`ProofsUnlessBroken`); `MoneyIsFollowed` (`MoneyFollowsPayment`) |
| `Platform_proofs` | `PlatformIsTyped` (`TypeOK`, but for the queue); `KeysAreIdempotent` (`IdempotentUnlessForgotten`); `TasksRunAlone` (`OneRunUnlessDisturbed`); `SessionsAreEnded` (`SessionsUnlessOvertaken`); `TicketsLeaveATrail` (`TrailUnlessMixed`); `NoticesAreAsAsked` (`AsAskedUnlessShaken`); `MessagesAreDelivered` (`DeliveredUnlessCut`); `SearchFollows` (`IndexFollowsUnlessBehind`) |
| `Sums` | lemmas only: what a sum over a finite set becomes when a summand is added, dropped or changed |

Assumptions are the named ones of the modules (`PaymentConstants`, `WalletConstants`,
`FiniteWallets`, `EscrowConstants`, `SettlementConstants`, `JournalConstants`, in
`MCCommerce` one for each model but mirroring's, which is called `MoneyConstants`, and
`PlatformConstants`). They say that amounts are natural numbers, positive where the code refuses zero, that sets
which are summed or counted over are finite, and that markers for "none" are not members
of the sets they are added to; `PlatformConstants` adds that a subscription has finitely
many loops, at least one, that the kinds of events are those with listeners, and that a
store has room for a record and a batch for a message. Both values of `RawRowsMapped` are covered. `Offers`, the
contents an admin may give a pricing rule, is a parameter: the code bounds its amounts
below by zero and no more, and so does the assumption; that a charge covers what its rule
promises is a premise of `SplitCovered`.

### The arguments

Few of the properties are inductive. What makes them so is mostly a statement about
requests under way: what a request has read and not yet used is still true, or is caught
when it is used.

`Payments`. One request at most is between its insert and the initiation, because the
unique index lets one insert through (`InitiatedOnce`). A refund row in PROCESSING has
one owner, since reserving it is a conditional update under the row lock, and what the
provider was told to pay is on an open row (`Owned`, `Told`); the reserved sum then stays
within the capture. Money that shows, in the row or in a request's memory, was paid or
approved (`Backed`), and while nothing failed its completion is in the outbox or about to
be (`Announced`). The refinement goes step by step: with one worker the copy in memory is
the stored one or at most two transitions ahead of it (`Follows`), and a save writes
those. With two workers the upsert of a stale copy breaks it, hence the hypothesis.

`Wallet`. A transfer writes from rows it read without a lock. The invariant
(`Consistent`) adds that a worker about to write holds the locks its program counter
says, that a version never decreases, and that a row whose version equals the one read is
the row that was read. The sums follow from how a step writes: one operation on one
wallet, or the two legs of a transfer on two, whose nets cancel (`SumsAgree`).

`Escrow`. One hold per payment rests on the unique reference every hold leaves
(`HoldsIndexed`). While requests do not overlap on a hold, what one has read of it is
still so unless its reference has been used (`Fresh`), and a release is journaled by the
request that made it (`Booked`); held and available balance are then the sums of the
holds (`Balanced`).

`Settlement`. Everything before the current item of a loop is paid, and the current one as
far as its request has come (`Progress`); debits are claimed by a unique reference, so the
balances change by what is newly debited (`Solvent`); a request alone on its batch knows
its status (`Single`).

`Journal`. The number a request carries is at most one more than the entries its day has
now (`Numbered`), since that count only grows; the day's numbers being 1..n, the unique
index accepts it only if it is n + 1. The books rest on the same index: a request whose
number is still free has seen every posting of its day, so the balances it has read are
still the committed ones.

`MCCommerce`. The seven models share no state, so the invariant is one of theirs for each
value of `part` (`CommerceInv`), and a step of one part is followed through that part
alone. `RideInv`: whoever is about to move a ride on holds a completed payment or an
admin's order to search; alone, it has read the status that is still there, and a rider is
unavailable with one ride under way. `OrderInv`: the same for orders, one owner of a
quote, one review per request that found none. `BookingInv`: unpaid tickets as a sum, and
a purchase that nothing overlaps still sees what is left. `PricingInv`: the parts of a
quote against its total, by the arithmetic of the roundings. `MoneyInv`: at most one
refund is pending; a published refund is in a handler's hands until it is unwound; the
wallet is the capture less what was unwound. `ShopInv`: for everything a checkout has
found there is a moment since it began at which it was on offer; requests of one kind that
are under way together are marked. `ProofInv`: a completed job is announced, or the
request that completed it is on its way to.

`MCPlatform`. Eight models that share no state, so again one invariant for each value of
`part` (`PlatformInv`); of the queue it says nothing.

- `KeyInv` (idempotency keys). As long as a key is not forgotten (`KeyKept`), it has no
  effect without a record; its record is live, was answered for its own request, and says
  how often the operation took effect, which before completion depends on how far the
  owner has come; whoever holds the key is the record's owner, and completes or deletes
  the very row it read.
- `TaskInv` (scheduled tasks). A run that is not late holds the live lock under its own
  token (`HasLock`); an undisturbed scheduler that is due has one timer or one run, never
  both (`Chained`). Timers and runs were each paid for by a call (`Paid`), so they can be
  counted.
- `SessionInv` (sessions). What a request carries refers to rows that exist (`Grounded`).
  A consumed challenge lets one request in or has yielded one session (`OneUse`);
  rotations were each asked for (`Rotations`), and with one refresh at a time the current
  token is the last one made (`InTurn`). That no session outlives what should have ended
  it is kept by every step itself, given these.
- `TicketInv` (support). Two requests under way on one ticket mark it `mixed`; on any
  other the row, the trail and the announcements agree, but for the steps its one request
  has yet to take (`Halfway`), which follow from what it read (`Meant`).
- `NoticeInv` (notifications). What a recipient has got, plus what the listeners still
  walking owe, is what the event calls for (`Answered`); the walks of an event are at
  most four and differ in their number, so the debts are added up as four terms.
- `BrokerInv` (brokers). A published message that was not cut off is found in one of the
  places a message can be (the topic, a batch, a hand, the pending list), or was handled
  or dead-lettered; in two places only if it was taken back; and wherever it is, it was
  tried as often as its attempt number says (`SpotsInv`). What a loop and the connection
  can be doing depends on the driver (`LoopsInv`, `CutsInv`).
- `SearchInv` (search). In a process that has not fallen behind on an entity, the document
  is that of the row, or a job or a reindex that will load the row, or has loaded it as it
  is, is on its way (`Followed`); a job is active while exactly one run works on it
  (`Worked`); a reindex that nothing got into has collected just what it went through
  (`Uncrossed`).

Sums. The induction theorems of the library take the statement as an operator, which no
prover here can instantiate. `Sums` takes their well-founded form instead, in which the
statement is a set: the subsets for which it fails, if any, have a minimal one
(`LeastFailure`), which turns out not to fail.

### What stays with TLC

- The queue: `JobsKeptInOrder`, and of `MCPlatform!TypeOK` what is about the queue. Its
  list of waiting jobs is sorted anew at every addition and filtered at every removal and
  eviction, and what sorting and filtering do to a list of any length is an induction over
  data. `PlatformIsTyped` leaves that part out and says so.
- Liveness (`EveryRequestEnds`) and whatever needs ENABLED: out of the provers' reach.
- The three violations: they are existence claims, which a run shows.

## Where the code and its comments disagree

Three runs show a violation, each of something the repository says (see `findings`): a
callback is reclaimed while it is being applied; rows locked through `$queryRaw` do not
have the fields the code reads; a FAILED batch cannot be retried.

`wallet_rawrows` means that locked operations fail at this commit. All other runs of
`Wallet`, and `Escrow` and `Settlement`, take the rows as the code intends them
(`RawRowsMapped = TRUE`), since otherwise nothing there would move.

Met while modelling, and stated as the conditions of the passing properties.

Money:

- a lost refund reply marks the refund FAILED, so its amount can be refunded again
  (`payments.service.ts:241`; `MoneyBacked` bounds payouts only when undisturbed);
- a crash between `save` and `publish` loses the event (`:302`, `:324`), although
  `payment-outbox.port.ts:13` says "Events are never discarded";
- with two requests at once the stored lifecycle does not follow its table, since `save`
  has no version check (`LifecycleFollowed` is checked, and proved, for one worker);
- a refund and a close of one hold that overlap part the hold from the wallet, decisions
  being taken before the lock (compare `wallet.service.ts:495`); forfeits and escrow
  refunds post no journal (`escrow.service.ts:600`);
- a payout can be journaled twice by two processors, and a batch being cancelled can be
  paid (`PayoutsUnlessMixed`);
- postings of two value dates that overlap, or a draft posted meanwhile, lose balance
  increments (`journal-persistence.util.ts:87`); a draft posted twice at once is applied
  twice, and a second post can turn a VOIDED journal POSTED again, although
  `schema.prisma:2034` says "Immutable once POSTED"; a close can overtake a posting, and a
  posting after a close opens a second period for the month, which no index forbids;
- a collection posted after a refund began is rejected, so the money is never mirrored;
  two refund events handled at once unwind twice (`MoneyFollowsPayment`);
- the commission contained in a delivery charge is also deducted from the merchant, a
  surge is in nobody's earnings, the platform's commission differs between a quoted and a
  fresh order, a ride without a quote pays no peak fee, and wallet credit lowers a total
  although no wallet is debited (`Pricing`).

Orders, rides, bookings, deliveries, the storefront:

- a rejection and a customer's cancellation leave the rider unavailable; a status written
  by id can bring a cancelled ride back; an admin can make a ride ASSIGNED without a rider;
- the PROCESSING of an initiation overwrites a completion handled meanwhile, for rides
  and orders; an accepted order can go back to PAID, against the comment at
  `order-payment.listener.ts:40-42`;
- two checkouts that start together use one single-use quote;
- overlapping purchases oversell, although `event-booking.service.ts:57-59` reserves "to
  prevent overselling";
- checkout sells what the browse pages hide (a suspended merchant's store, items of an
  inactive menu category), enforces no minimum or maximum of options, and reads item
  prices and option prices by separate queries; an item can be created in a category that
  is being deleted;
- a KYC approval writes by merchant id: papers handed in meanwhile are approved unseen
  and a suspended merchant may become ACTIVE; an age review accepts a row of any status;
  find-then-create can make two proofs of age;
- a delivered order is announced only after its proof was written: if that collides with
  a proof handed in meanwhile, or fails, the order stays DELIVERED and unannounced, and
  the retry is refused; a later proof without a photo erases the earlier photo; `issueOtp`
  (called by nothing) does so first of all, through `submit`;
- two ratings of a rider that overlap leave its review count and average stale until the
  next one (`module-orders.service.ts:249`), and find-then-create lets a customer who rates
  twice at once review one job twice.

Platform and the rest:

- a database takeover of an idempotency key is possible between two reads, although
  `idempotency-store.interface.ts:10` calls the reservation atomic; an expired record can
  be completed by its former owner;
- `stop()` and `start()` during a run leave two chains of timers;
- a pending login challenge survives a password reset;
- a merged ticket can be reopened and stays marked merged, two tickets can be merged into
  each other, a resolved ticket that is worked on again keeps its closing time, and the
  status changes that come with replies are not announced;
- a rider's step is emitted under two names (`ride-dispatch.service.ts:298-299`) and the
  ride workflow pushes what `createInApp` pushes already (compare the "do not
  double-send" of `order-workflow.orchestrator.ts`), so one step makes four notices and
  six pushes; `orders.cancelled` has no listener; the race for a preferences row loses a
  notice;
- a broker's `nack` settles a message before its next attempt is published; a failed ack
  leaves an entry pending that nobody claims; each recovery registers one more disconnect
  callback; RabbitMQ and NATS do not consume again after a reconnection; one dead-letter
  topic given to both the driver and the adapter receives every retry (which
  `redis-streams.adapter.ts:34-38` warns of);
- a second change of an entity within the hour in which its job is remembered is not
  indexed; a job warms a cold process with one document; a job updates one process's index
  only; a partial reindex of an in-memory index wipes the other kinds.

## Not modelled

- Reads: lists, views, dashboards, browse pages and the financial reports (these restate
  `BooksAgree` as totals), with their filters, pages and exports; controllers, DTOs and
  validation. They are most of the code this directory does not map, and have no state.
- Single-row CRUD without a second writer to meet: profiles, addresses, categories,
  banners, chart of accounts, feature flags, settings.
- Library code no module is wired to: the cache, quotas, the circuit breaker (whose
  straggling calls clear the trial flag of the half-open state), graceful shutdown,
  webhooks, imports, tenancy, realtime, documents, media. `FoundationModule` is not
  imported by `AppModule`.
- The Kafka driver: its client library does the retrying.
- Observability, configuration, health, logging, test and build tooling, generated code.
- In what is modelled: currencies, the safe-integer limit of `Money`, CHECK constraints of
  the database, audit records other than support's, signatures and HTTP details of the
  gateways, geometry, texts. In `Journal`: allocations over more than two accounts,
  amounts other than one unit, fiscal years. `Escrow` takes the other movements of its
  wallet to be none; `Settlement` has them (`Move`); admin holds and releases on a wallet
  with escrow are in `Wallet`.

`PROJECT.json` gives each component its status and reason.

## Plan

What comes next, most important first:

1. the queue: its list as a function from places to jobs, so that an insertion and a
   removal are shifts of places that need no induction, then `JobsKeptInOrder`;
2. several ticket types in one event, and stock reservations of order lines;
3. the refinement of `PaymentLifecycle` with several workers, for payments no two requests
   save at once.
