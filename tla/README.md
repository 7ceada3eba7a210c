# TLA+ verification of the G2G marketplace

This directory is the formal model of the marketplace API in `src/apps/api` (NestJS,
Postgres through Prisma, BullMQ on Redis, the Efi Pix provider): TLA+ modules, the TLC runs
that check them on small instances, and the theorems TLAPS proves for every instance.

## 1. The system

Digital goods are sold with escrow. A buyer creates an order, pays it with a Pix charge or
from the wallet, receives the goods (automatically from an inventory, or by hand from the
seller), confirms or lets 72 hours pass, and the seller gets the money. Disputes and refunds
undo that.

Two processes run the same NestJS modules: the API (`main.ts`) and the worker (`worker.ts`).
`docker-compose.prod.yml:56-79` starts both, and the BullMQ processors start in both, so a
job runs at the same time as HTTP handlers and as other jobs. All share one Postgres
database. Every `$transaction` runs at READ COMMITTED and locks nothing explicitly except
inventory rows (`FOR UPDATE SKIP LOCKED`, `inventory.service.ts:166`). Jobs have fixed ids
(`expire-<order>`, `auto-complete-<order>`, `release-<order>`, `efi:<event>`), one attempt
(the e-mail queue alone has five) and `removeOnFail: false`, so a failed job stays in Redis
and silently absorbs every later add of the same id.

### Components, their state, their operations, what makes them correct

| component | state | operations | hard part | correctness |
|---|---|---|---|---|
| orders | `orders.status`, expire and auto-complete jobs | create, cancel, expire, deliver, confirm receipt, auto-complete, dispute | status is read, checked, then written by id alone | nothing unpaid is delivered; unpaid orders expire; delivered orders settle |
| payments | `payments.status`, txid (unique) | create or reuse a charge, refund, cash-out | the bank keeps a charge payable whatever the database says | credited once; confirmed for good |
| webhooks | `webhook_events` (unique eventId, processedAt), efi jobs | intake, processing, side effects | repeated, varied and concurrent notifications; crash between insert and enqueue; side effects after the commit | one credit per payment; no received event is lost |
| settlement | ledger entries (HELD, AVAILABLE, REVERSED), commission events, release jobs | release, refund, partial refund, manual chargeback | provider call between two transactions, two operations at once | escrow leaves HELD once, in one direction |
| wallet | AVAILABLE balance (a sum over the ledger), payout drafts | pay an order, top up, user payout, platform payout | sum-then-insert without a lock | a draft pays once; an overdraft needs a race |
| disputes, tickets | dispute and ticket status | open, resolve (partial, release, refund) | four commits in a row | the outcome of a dispute matches the ledger |
| inventory | items AVAILABLE, RESERVED, DELIVERED, DISABLED | add, edit, remove, reserve | concurrent reservations | an item serves one order |
| coupons, attribution, partners | usage count, commission events, payouts | validate and consume, split of the fee, request a payout | usage limit under concurrent checkouts, rounding, balance race | limits kept, split inside the fee |
| auth | sessions, refresh tokens (unique hash), reset tokens, MFA codes | login, refresh with rotation, logout, reset, revoke | refresh races logout and refresh | a token is used once; a new password ends every open session |
| users | block flag, verification fee order and date, RG document | block, start the fee, webhook branch, submit and review | a block overlaps refreshes and logins; the webhook branch clears the link that routes it | a block ends the open sessions; a fee is a fee once |
| listings | listing status and price | create, edit, submit, approve, reject, suspend, archive, delete | concurrent moderation, orders created meanwhile | what was bought is kept |
| email | outbox rows, retried jobs | enqueue, send | crash between send and update | at least once, SENT only if sent |
| chat and support limiters | counters in memory or Redis | hit | window boundary | rate bound |
| notifications, direct chat, community, questions, catalog, reports, settings, audit, health, logger, web application | rows or pages | CRUD | none | none beyond single statements |

Components interact by direct calls inside one process (webhooks call orders and
settlement, disputes call settlement), by jobs (orders schedules release in settlement,
everybody schedules e-mail), and through shared rows (order status, ledger, user flags).


## 2. Modules

| module | what it is | lines it models |
|---|---|---|
| `OrderPayments` | orders, payments, webhook intake and jobs, wallet payments, order jobs | `orders.service.ts`, `orders.queue.service.ts`, `payments.service.ts`, `webhooks.service.ts`, `webhooks.processor.ts`, `wallet.service.ts`, `createHeldEntry` of `settlement.service.ts` |
| `Payment` | abstract: what a payment promises | |
| `Escrow` | abstract: what the settlement of an order promises | |
| `Settlement` | release, refund, partial refund, manual chargeback, resolution of a dispute | `settlement.service.ts`, `settlement.processor.ts`, `disputes.service.ts`, `payments.service.ts` (cash-out, refund), `admin-orders.controller.ts` |
| `Sale` | abstract: what selling items one by one promises | |
| `Inventory` | inventory rows and their reservation | `inventory.service.ts` |
| `Attribution` | the split of a price, as operators | `order-attribution.helpers.ts` |
| `Storefront` | extends the two: listings and moderation, coupons, partners, `createOrder` | `listings.service.ts`, `coupons.service.ts`, `partners.service.ts`, `settings.service.ts`, `createOrder` of `orders.service.ts` |
| `AuthSessions` | sessions, refresh tokens, reset tokens, codes | `auth.service.ts`, `blockUser` of `users.service.ts` |
| `SessionChain` | abstract: what the sessions of an account promise | |
| `Payouts` | payouts of users and of the platform | `wallet.service.ts`, `security.service.ts` |
| `Withdrawal` | abstract: what a payout promises | |
| `MC...` | small instances of each for TLC | |
| `...Proofs` | theorems about each; among them the refinements of the five abstract modules | |

`OrderPayments` ends where an order is delivered, completed or disputed; `Settlement` starts
with a delivered order and its HELD entry. They meet at three points: a CONFIRMED payment
has exactly one ledger credit (`CreditedOnce`, which is the `Init` of `Settlement`), and the
handlers that complete or dispute a delivered order appear in both: the first has the races
between their reads and their writes, the second starts at their commit and has the queue call
that follows it, which may be lost.
`Storefront` lies before it: what `OrderPayments.CreateOrder` does in one step is there the
transaction with all it reads, and `stock`, a number in `OrderPayments`, is there a set of rows
with owners and locks. `Payouts` lies behind `Settlement`: its `AdjustBalance` stands for the
entries the other modules write into the same ledger. `AuthSessions` shares no row with them.

### How a handler becomes actions

A *worker* or *handler* of the modules is one handler in flight: an HTTP request or a BullMQ job, in
either process. `pc` is its next statement and the local variables are what it has read.

- Every `$transaction` is READ COMMITTED, so a read sees the last commit and an update
  waits for the row lock and then writes what the handler decided earlier. A read that a
  later decision uses is a step; the commit, which makes the writes visible, is a step; an
  update whose lock is held over a later read is a step and sets `lock`
  (`applyPaymentConfirmation`, `createHeldEntry`, the `updateMany` of
  `payOrderWithBalance`; `rowLock` and `couponLock` of `Storefront`; every row of
  `AuthSessions`).
- Every call outside the database (cash-out, Pix refund, `queue.add`) is a step.
- Reads that follow each other with nothing between them are one step: the order and the
  balance in `payOrderWithBalance`; order, payment and release in `refundOrder`; the reads
  of the first transaction of `releaseOrder` with the settings and the payout block.
- A step that throws rolls its transaction back; `Throw` and `JobEnd` keep the job as
  failed, because the queues have one attempt and `removeOnFail: false`.
- A job is `"none"`, `"waiting"`, `"failed"` or the worker that runs it. `queue.add` with
  the id of a job that exists does nothing, and `queue.remove` cannot remove a running one.
- The delays of jobs (expiry, the 72 hours of auto-completion and of the release) are not
  modelled: a waiting job may run at any time, which includes the time the delay means.

### OrderPayments

| state | code |
|---|---|
| `status`, `disputes`, `payOrder`, `payStatus`, `events` | columns of `orders`, `disputes`, `payments`, `webhook_events` |
| `credits`, `balance` | the HELD or top-up credit entries of a payment; the sum `payOrderWithBalance` computes |
| `listed`, `stock`, `reserved` | whether the listing exists, its AVAILABLE items, the orders with an item of their own |
| `linked` | whether the order items a handler has read with its order still name their listing |
| `paid`, `acked` | what happened at the provider |
| `jobs` | the queues `orders`, `webhooks`, `settlement` (release) in Redis |
| `lock` | row locks held across statements |
| `cut` | history: orders whose expire job was never added, or whose delivery ended half-way |

`CreateOrder`, `ScheduleOrderExpiration`, `FindPendingCharge` and `InsertPixCharge` are the
checkout. `RegisterEfiWebhook` and `EnqueueProcessing` are the intake;
`StartWebhook`, `ApplyReadOrder`, `ApplyUpdateOrder`, `UpdatePayment`, `FindEntry` and
`WebhookCommit` are the processing transaction; `ReserveInventoryForOrder`,
`AutoDeliveryRead`, `AutoDeliveryWrite` and `ScheduleAutoComplete` are the side effects that
run after its commit. `PayOrderWithBalance`, `ExpirePendingPayments` and `WalletCommit` are
the wallet payment, which shares `Apply...` with the webhook job. `...Read` and `...Write`
pairs are cancellation, expiry, delivery, receipt, auto-completion and disputes: all of them
check a status and then update by id alone. `RemoveInventoryItem`, `AddInventoryItem` and
`DeleteListing` are what becomes of the listing meanwhile: its items come and go, and its deletion
takes the rows (`ON DELETE CASCADE`) and the `listingId` of the order items (`ON DELETE SET NULL`)
with it. A reservation asks for nothing for an item without `listingId` (`orders.service.ts:985`),
and `linked` is what `applyPaymentConfirmation` has read of it. `Crash`, `StatementFails`, `StallJob` and
`DeadlockVictim` are what goes wrong.

### Settlement

| state | code |
|---|---|
| `ledger`, `released` | net amounts of an order's ledger entries by state and source; number of AVAILABLE ORDER_PAYMENT credits |
| `status`, `dispute`, `tickets`, `provider`, `refunded`, `commission`, `blocked` | columns of `orders`, `disputes`, `tickets`, `payments`, `partner_commission_events`, `users` |
| `kept` | what a full refund keeps: `REFUND_FEE_CENTS`, or nothing from the threshold on |
| `auto`, `calls` | auto-complete jobs that wait; handlers that have committed and not yet called the queue |
| `lost` | history: orders whose last call to schedule the release was lost |
| `sent`, `returned` | what the provider did under the idempotency keys `cashout-<order>` and `refund-<payment>` |
| `kind`, `on`, `amount`, `cashout`, `absent` | a handler's caller, order, and what it has read |
| `contested` | history: orders that two handlers have worked on at once |

`ReleaseRead`, `CashOut`, `ReleaseCheck`, `ReleaseFind` and `ReleaseCommit` are
`releaseOrder`. `PartialRead`, `RefundRead`, `RefundPix`, `RefundFind` and `RefundCommit`
are the two refunds, `FindTicket` and `ChargebackCommit` the manual chargeback that a refund
after a release becomes. `ResolveDispute`, `CompleteDisputed` and `FinalizeDispute` surround
them in a resolution: they are separate commits, and `Return` and `Throw` say what follows
when the call in the middle ends either way. `ConfirmReceipt`, `AutoComplete` and `OpenDispute` are
commits that leave an entry in `calls`; `ScheduleRelease` and `CancelRelease` are the queue calls
they owe, and `LoseCall` is the crash before the call or the error that
`scheduleSettlementRelease` swallows (`orders.service.ts:1155-1163`). `StartReleaseJob`, `AdminRelease` and
`AdminRefund` are the other callers. The provider accepts a repeated `PUT` of a refund id or
refuses it; both are modelled.

`Escrow` is the promise: an order's money is held, may go back in part, and leaves escrow
once, to the seller or to the buyer. It is stated of the orders that no two handlers have
worked on at once (`contested`), because nothing in the code serializes a release and a
refund of one order: each looks for the other's entries before either writes, and both may
commit. The promise does not claim more than the code does in two places: a full refund
after a partial one reverses the whole price, so `HELD` goes below zero
(`settlement.service.ts:525`), and a manual chargeback may be repeated
(`settlement.service.ts:457` comes before the `already_refunded` check), which takes from
the seller and leaves escrow alone.

### Storefront, Inventory, Attribution

| state | code |
|---|---|
| `listing`, `price`, `fee`, `partner`, `coupon`, `uses` | columns of `listings`, `platform_settings`, `partners`, `coupons` |
| `itemOf`, `itemStatus`, `holder`, `rowLock` | columns of `inventory_items`, and the lock of `FOR UPDATE` |
| `order` | `orders` with its item snapshot and `order_attributions` |
| `seen`, `draft`, `picked` | what a handler of a listing, of `createOrder`, of a reservation has read |
| `limitsHad` | history: the limits a coupon has had |

`ReadListing`, `CountItems`, `ReadCoupon`, `ConsumeCoupon`, `ReadLink` and `InsertOrder` are the
statements of `createOrder` in their order; `AbortOrder` rolls any of them back.
`ReserveFind`, `ReservePick` and `ReserveWrite` are `reserveInventoryItem`. The handlers of a
listing read its row, check its status and write by id (`UpdateListing` and `UpdateWrite`,
`SubmitListing` or `ModerateListing` and `StatusWrite`); `DeleteListing` does what the
foreign keys of the migrations do. An order has one item. `Sale` is the promise about rows:
one owner at a time, none while on sale, and only the seller takes a row back.

### AuthSessions

| state | code |
|---|---|
| `opened`, `sessionOf`, `ended` | rows of `sessions` and `refresh_tokens`; `revokedAt` or `usedAt` is set |
| `sent`, `attempts` | rows of `password_reset_tokens` and `mfa_challenges` |
| `lock`, `plan`, `todo` | row locks of a transaction, its statements not yet begun, the rows its current statement has still to update |
| `parent`, `guesses`, `uses`, `late` | history: what a token was exchanged for, wrong answers, uses, tokens inserted into a session that had ended |

A request reads and checks (`Refresh`, `Logout`, `ResetPassword`, ...), then runs its
transaction. `BeginStatement` fixes the rows an `UPDATE` matches, `UpdateRow` takes them one by
one in any order, waits for a row that is locked and skips it if it no longer matches, and
`UpdateOne` is an `updateMany` by id whose count the code compares with 1: zero aborts. The
`Commit...` actions make the writes visible. Deadlocks can happen, as a refresh locks a token
and then its session and a revocation the other way round; `Abort` is Postgres choosing a
victim, or any failed statement. Expiry and the block flag refuse a request where it reads, as
if it had not been sent, and are left out.

### Payouts

| state | code |
|---|---|
| `draft`, `overdue` | `payout_drafts` and whether `expiresAt` has passed |
| `payout`, `debited`, `balance`, `fees`, `platformPaid` | `payouts`, its debits, and the three sums the checks compute |
| `sent`, `origin` | what the provider paid, and for which draft |
| `interrupted` | history: payouts that a fault cut off between the provider and the record |

`RequestPayoutVerification`, `ReadSummary`, `InsertDraft`, `SendCodes` and `ExpireDraft` make a
draft; `ConfirmPayoutVerification`, `CheckCodes` and `Claim` turn it into a payout, which
`ReadUser`, `ReadSummary`, `CashOutPix` and `RecordPayout` (or `RecordFailure`) carry out.
`CreatePlatformPayout` and `ReadPlatformPaid` are the administrator's.

## 3. Runs

| run | question | instance | distinct states |
|---|---|---|---|
| `payments_safety` | the promise of `Payment`, nothing without its item delivered while its listing exists, no order that waits for its payment or its delivery left alone unless a fault or a throw cut what served it | AUTO order, 2 Pix rows, 1 wallet row, a listing with at most 1 item, 2 handlers, 1 fault | 1,434,754 |
| `payments_mixed` | the same for the branches of MANUAL orders, top-ups and notices; no answered webhook lost, the overdraft bounded | MANUAL order and top-up, 1 Pix and 2 wallet rows, no balance, 2 bodies per charge, 2 handlers, 1 fault | 3,196,340 |
| `payments_liveness` | what must eventually happen | AUTO order, 1 Pix and 1 wallet row, 2 handlers, 1 fault, a wallet payment or a deleted listing | 52,781 |
| `settlement` | the promise of `Escrow`, the outcomes backed by money, releases happen | 1 order with a partner, 2 handlers, 2 requests, 1 fault or lost queue call | 887,389 |
| `storefront` | the promise of `Sale`, the coupon's limit and count, the split of the price | 1 AUTO listing with 1 item, 2 orders, 1 coupon, 1 partner, 2 handlers | 1,020,992 |
| `sessions` | the promise of `SessionChain`, what is for one use is used once, a new password ends every open session, guesses stay bounded, requests end | 1 session, 3 refresh tokens, 1 reset token or code, 2 requests | 338,414 |
| `payouts` | the promise of `Withdrawal`, the record agrees with the provider, overdrafts need a race | 2 drafts, 2 payouts, 2 requests, 1 fault | 1,343,808 |
| `payments_doc_transitions` | violated: a stale handler takes an undocumented edge | 2 handlers, no fault | |
| `payments_doc_balance` | violated: two payments out of one balance | 2 orders, 2 wallet rows | |
| `settlement_doc_commission` | violated: a refund after the release leaves the commission | 2 handlers, no fault | |
| `settlement_doc_dispute` | violated: a release in flight ignores a new dispute | 2 handlers, no fault | |
| `storefront_doc_delete` | violated: a listing with orders is deleted | as `storefront` | |

**Why these bounds.** Every race of this code is between two handlers on one row or one order,
so two workers and one order show it; a third worker repeats what one of the two does. A second
order shares only the wallet balance and the inventory with the first; the balance race has a
run of its own, and the orders outside the instance are, for the inventory, `RemoveInventoryItem`.
`MaxStock = 1` lets the listing run out, be restocked and run out again. Two Pix rows and one wallet row are the smallest set in which an expired charge, its
successor and a wallet payment meet. `MaxFaults = 1` puts one crash, failed statement or stalled
job at every point; after it the model runs on without faults, which is when recovery must work.
Two requests reach a resolution beside an administrator's refund, or a refund and its repetition. `PixRoom`
and `WalletRoom` stop a handler from starting without a spare row identifier, so the bound never
blocks a handler half-way. `Price = 3`, `Fee = 1` and one partial refund of 1 make the amounts
of a release, a partial and a full refund distinct; `RefundFee = 4` is more than the price, so a full
refund keeps either nothing or all (`kept`), and a wallet buyer may be credited 0. `InBounds` of
`MCSettlement` lets a queue call be outstanding beside at most one settlement handler, and puts
faults in the behaviours whose refund keeps nothing; the theorems have neither restriction. The theorems of section 5 need
none of these bounds. In `storefront` two orders compete for one item and for a coupon with one
use while every other table has one row that may change under them; the price of 333, the fee of
15%, the commission of 65% and the discount of 60 make each rounding inexact and the fee of 50
the cap of the discount. Three refresh tokens are the fewest in which one token could be
exchanged twice, or a token inserted after its session had ended be exchanged in its turn; a
request that finds no row left to insert counts as a failed statement. In `payouts` the balance
of 4 covers one payout of 2 with or without its fee of 1, or two without, so both answers of
every check occur, and one adjustment of -1 falls between a check and its record. The liveness
run has a wallet row, because the locks of a wallet payment (payments, then the order) and of a
webhook job (the order, then the payment) form the wait cycle that `DeadlockVictim` breaks;
`OneDisturbance` of `MCOrderPayments` gives a behaviour a fault, a wallet payment or a deleted
listing, not two of them. Both bounds stop only requests and faults, which no fairness condition
asks for, or make a queue call wait for a handler that is about to end, so no behaviour is
excluded by being cut off half-way.

Deadlock is not checked: the instances are finite and the system may be at rest.

**Fairness.** `WF` or `SF` of a handler's next statement: Postgres queues lock waiters and
resolves wait cycles, and node runs every pending callback. The steps are strong where a lock
may be free again and again. The queue hands out waiting jobs and the provider repeats an
unanswered notification; both are strong because a worker of the model may be busy with other
requests over and over, where the real process just takes one more. In `sessions` a request's
next step is strongly fair, as Postgres grants a lock in the order it was asked for, and the
victim of a deadlock is aborted. No fairness is assumed of buyers, sellers, administrators or
faults. In `settlement` the queue calls after a commit and the auto-complete job are weakly fair, and
losing such a call is a fault. The liveness properties exempt what is destroyed for good, and say so
in their statement: a job kept as failed (one attempt), an order in `cut` (its expire job never
added, its delivery ended by a fault or for want of an item), an order in `lost`. These exemptions
name the order and the statement, not the whole behaviour; only `DeliveredSettles` exempts every
behaviour with a fault.

## 4. Where code and documents part

The five violation runs are genuine disagreements; PROJECT.json quotes both sides.

1. `DocumentedTransitions`: `ARCHITECTURE.md:51` lists the edges of the order state machine.
   Handlers check a status and then update by id alone, so a cancellation that started
   before a payment overwrites `IN_DELIVERY`.
2. `NeverOverdrawn`: the balance is summed and then debited without a lock.
3. `CommissionReversed`: `ARCHITECTURE.md:84` says that a refund reverses the commission. It
   is earned by the release, after which every refund takes the chargeback path, and that
   writes no reversal.
4. `DisputeHoldsEscrow`: a release that has read its order pays the seller although a
   dispute has been opened since; `releaseOrder` means to refuse a disputed order.
5. `BoughtItemsKept`: `deleteListing` waits for a foreign key violation to answer "Cannot
   delete listing with associated orders" (`listings.service.ts:724`), but the key of the order
   items is `ON DELETE SET NULL` and that of the inventory rows `ON DELETE CASCADE`
   (`20260105123000_marketplace_core/migration.sql:411` and `:406`): the delete succeeds.

What the models show besides, where no document says otherwise:

- A wallet payment expires the pending charge of its order in the database only. The charge
  stays payable at the bank, and its webhook confirms it.
- An edit that read a listing as PENDING leaves its status alone and may write after the
  approval: content nobody reviewed is PUBLISHED. An approval that read PENDING writes over a
  suspension (`listings.service.ts:526`).
- A delivery is attempted once. If the reservation throws, because the listing has run out when
  its turn comes, or the process dies after the commit of the payment, the repeated webhook finds
  its event processed and the order stays IN_DELIVERY, also when the listing is restocked later
  (`PaidIsServed` and `AutoIsDelivered` exempt exactly these orders).
- An order paid after its listing was deleted asks for no item (`orders.service.ts:985`) and is
  nevertheless DELIVERED (`:998`): `DeliveredHasItem` is stated of listings that exist.
- The add of a release job may fail silently after the order is COMPLETED
  (`orders.service.ts:1155-1163`). The auto-complete job adds it again if it is still to come; else
  the order waits for an administrator (`CompletedIsReleased` exempts exactly these orders).
- A refund credits `Math.max(amountCents - REFUND_FEE_CENTS, 0)` (`settlement.service.ts:443`), and a
  listing may cost from one cent on: a payment may become REFUNDED and nothing come back.
  `RefundIsReal` asks for what the fee leaves, at every price.
- A cancelled or expired order does not give back the use of its coupon. An order of quantity
  `q` reserves one row.
- `platformFeeBps` of a listing has no upper bound (`create-listing.dto.ts:66`): `OrdersAddUp` is
  stated of rates up to 100%.
- A login that has read the account before a block or a password reset opens its session after
  it, and the session survives: `ChangeEndsSessions` speaks of the sessions that were open.
  `SecurityService.blockUser` (`security.service.ts:127`) sets the same flag as the one of
  `UsersService` and ends no session.
- A refresh may insert its token after a reset has revoked the session; in `SessionChain` that
  token is late, and nothing is ever exchanged for it.
- A payout whose transaction fails after the cash-out leaves a FAILED row although the money
  has left; a late failure of a message writes EXPIRED over CONFIRMED; the fee debits of
  INSTANT payouts are AVAILABLE entries of source FEE, so they raise what the platform may pay out.
- `updateInventoryItem` puts a `disconnect` into an `updateMany`, which Prisma may refuse; the
  model lets it succeed, which is the harder case, and `Sale` says that a seller may take a row
  back. In `OrderPayments`, where it would leave a delivered order without its row, it is refused;
  the seller's other edits of a row (`DISABLED`, a new code) leave it with its order.

Read, not modelled: the **verification fee** (`users.service.ts:606-747`,
`webhooks.processor.ts:121-183`). The link `verificationFeeOrderId` routes the webhook branch and
the branch clears it, so a second body of the same charge finds no user and credits the fee to
the wallet as a top-up; a status poll that reads the CONFIRMED payment before a mismatch is
committed marks the fee as paid; and the refund after a mismatch swallows its error.

## 5. Proofs

TLAPS proves the following for all values of the constants, from the `ConstantsAssumption` of
each module (disjoint name spaces, natural numbers, finitely many handlers in `OrderPayments`,
a price above zero, parts of a refund below the price, rates of at most 100%) and, in the modules
that need it, the `AbsentAssumption` that `None` is not one of the records it is the absence of. Nothing else is assumed.

**`OrderPaymentsProofs`.** `CreditedOnce` is not inductive: a webhook job looks for a ledger
entry and inserts one later. `IInv` adds what a job in flight knows: which statements belong
to which handlers (`HandlersOK`), that the rows it works on exist (`OrdersOK`), that it
works on the payment its event names and that a payment it read as CONFIRMED still is
(`WebhooksOK`), that the update of the payment, which comes before the look for the entry,
holds the row lock until the commit (`EntriesOK`), and where locks are held (`LocksOK`).
That is why no unique index is needed, and it shows that the order of the two statements
matters. From it follow `TypeCorrect`, `CreditedExactlyOnce`, `ProcessedIsConfirmed` and the
action property `ConfirmedForGood`. A second tier, `PaidOK`, says that a handler on its way
beyond payment serves a paid order; with `ConfirmedForGood` it gives `DeliveredIsPaid`. A third,
`LinkedOK` and `ItemsOK`, says that while the listing exists a handler that has read the order in its
transaction has read that it names the listing, and that a handler on its way from the reservation
to the delivery of an AUTO order has an item for it; with `ReservedStays` (a reserved item stays
reserved, whatever is added or removed) it gives `DeliveredOrdersHaveItems`.

**`OrderProgressProofs`** is about what must not be forgotten: the safety cores of the liveness
properties, which themselves need fairness. `Flow` sums up what a step does to the handlers (one
moves, the others keep `pc` and `ctx`, and where it may go next), so that each invariant below
looks at the few statements that matter to it.
`AnsweredStaysQueued` holds through every fault: `JobsOK` says that the job of an event is run
only by a handler that either is confirming that event or is past the commit that processed it,
so neither a crash, nor a stalled job, nor the second run of a job removes the last job of an
event that is not processed. `UnpaidStaysWatched` and `PaidStaysServed` hold through every fault, throw, restock and deletion
as well. `ExpireJobsOK` says that an expire job is waiting, failed or run by the handler that took
it, and that a handler about to cancel an order that may still be paid finds its job in the queue
even if a stall has handed it out again. A step that ends a handler short of its order's expire job
or delivery writes exactly that order to `cut` (`FaultCuts`), and nothing else does; so the two
invariants are what `UnpaidExpires` and `AutoIsDelivered` need before fairness enters. `DeliveredSettles` has no such core: the second confirmation of
an order whose auto-complete job has run already ends without one.
`OverdraftsStayBounded` counts the handlers that have passed the check of the balance and not
debited it yet (`Spending`): either the balance covers them all, or even after their debits the
debt stays below the number of handlers. A payment that starts finds a positive balance, which
keeps this true; that is why payments one after the other never add to a debt.

**`PaymentLifeProofs`** shows that `OrderPayments` implements `Payment` (`PaymentKept`). The
abstract module knows no handler, lock or event: a charge is made, its money arrives, it is
confirmed and booked in one step, or lapses when a payment out of the balance takes its place.
`InsertPixCharge` is `Charge`, `PayPix` is `Arrive`, `WalletCommit` is `Transfer` with the charges
it has locked as the lapsing ones; `WebhookCommit` is `Confirm` for the first job of a payment that
commits and a stutter for every other, which is where `IInv` is needed; all other steps stutter.
`ArrivalsOK` adds that a job confirms only what has arrived and that the locks of a wallet payment
are on charges of its own order (`LockTaken`: three statements take a row lock).

**`SettlementProofs`.** `IInv` adds four parts to the properties. `ControlOK`: which handlers
are at which statements and how much they move. `KnowsOK`: what a handler may rely on from its
earlier statements whatever overlaps, because it only ever grows (a release, a reversal, a
cash-out made). `AloneOK`: what it may rely on while it is alone on its order (the balance it
read, no release, no refund); a second handler makes the order contested, which is exactly where
the promise stops. `RefundsOK`: what the entries of a refunded order look like. `RefundsAreReal` needs no relation
between the price and the fee: what comes back is `FullRefund`, which is 0 when the fee takes all. A step of one
handler is shown to leave the facts of the others alone once, in `FrameInductive`, and the handlers outside the settlement are treated as one kind of step
that moves no money (`OutsideOrderInductive`); each action
then has to establish its own handler's facts. `Inductive` gives `TypeCorrect`,
`DisputesAreBacked`, `PayoutsAreSent`, `RefundsAreReal` and `CommissionsAreBacked`.
`LedgerIsConserved` and the refinement `EscrowKept` (`Spec => Promise!Spec`) follow from
`NextStill`: only three commits move money, and each is an action of `Escrow`.

`PayoutsAgreeToTheCent` needs a tier of its own, `AgreeOK`: what a release has computed for
its cash-out is what its commit will write, unless a fault or a second handler came between.

**`StorefrontProofs`.** `SInv` adds to the properties: a row without a listing is nobody's and
DISABLED (`StockOK`); a row is locked only by the reservation that picked it, and is still free
when it writes (`RowHeld`, `Picks`); a checkout that has counted a coupon's use holds the coupon's
lock and has seen it below a limit it has had (`Checkout`, `CouponHeld`, `LimitKnown`); no two
checkouts create one order (`OwnOrder`). `SaleIsKept` maps every step to a step of `Sale` or a
stutter: `ReserveWrite` is `Sell`, the seller's edits and `DeleteListing` are `Manage`.
`TotalsAddUp` is about arithmetic alone: the split adds up for every price, rate and discount.

**`AuthSessionsProofs`.** `AInv` adds where a request is in its plan (`PlanOK`) and which rows it
serves (`RowOK`); that a request which must be alone holds its row's lock from the counted update
on (`ClaimOK`), and that a locked row is not ended (`LockedLive`): together they make the counted
update the point at which one of several requests wins. `KnownOK` follows the sessions a
password change knew until each is ended, locked or still on its list. `GuessOK` counts the wrong
answers in flight beside those counted, which gives the bound on guesses. `ChainIsKept` maps the
rows to the chains of `SessionChain`: `IssueTokens` is `Open`; `CommitRefresh` is `Exchange`, whose
guard (the token has not ended and is not late) is not what the refresh read but what `ClaimOK`
and `RowOK` still know at its commit; the commits of a reset and of a login code are `Use`, the
other commits `Ends`; reads, statements, aborts and waits are stutters.

**`PayoutsProofs`.** `PInv` adds what a request has done with its draft and its payout
(`JobShape`, `JobMoney`), that ids are not shared (`OwnRows`), and that a claimed draft has one
claimant and is never PENDING again (`ClaimExclusive`, `PaidClaimed`), which is why writing
EXPIRED over CONFIRMED does no harm. `WithdrawalIsKept` maps a draft to its terms, whatever its
status, and a payout to an entry of the books once it is SENT: `InsertDraft` is `Ask`, the
provider's payment in `CashOutPix` is `PayUser` or `PayPlatform` even if its answer is lost,
`RecordPayout` is `Book`, a FAILED row and every status are stutters. `AgreedOK` adds that a
request carries the terms of its draft to the end and that the money left for that draft.

**Only model-checked:** the liveness properties (`HandlersFinish`, `ReceivedIsHandled`,
`UnpaidExpires`, `AutoIsDelivered`, `DeliveredSettles`, `CompletedIsReleased`, `RequestsEnd`),
since fairness and `ENABLED` are out of the prover's reach. Every other property of a passing
run is a theorem.

## 6. Not modelled

`PROJECT.json` gives the reason for each component. In short:

- The web application, 42,600 of the repository's 61,400 implementation lines, is presentation
  and fetches of this API: there is no state of its own to check, and a model of a page
  would be its layout.
- Queries, profiles, media, notifications, chat, community, questions, catalog, reports, audit
  and logging are statements on single rows that no modelled guard reads.
- Payout requests of partners only insert PENDING rows; no code pays or debits them. The RG
  verification is one status field. The e-mail outbox repeats a message after a crash between
  the send and the update, and the recipient sees it twice. The chat limiters are counters.
- External services are what they answer: the Pix provider, Twilio, Redis, Postgres. Expiry of
  access tokens, reset tokens and codes, and the delays of jobs, are nondeterminism or left out
  as said above. Without its credentials the cash-out of the provider is a mock that sends
  nothing; the models have the real one.

The verification fee of section 4 is the part that would be modelled next: it needs the
webhook job of `OrderPayments`, the refund of `Settlement`, and the user's row.
