--------------------------- MODULE OrderPayments ---------------------------
(***************************************************************************)
(* Orders, their payments and the jobs that move them: from the checkout    *)
(* request to DELIVERED, COMPLETED, CANCELLED or DISPUTED.                   *)
(*                                                                          *)
(* HTTP handlers and BullMQ jobs run concurrently in the API and in the     *)
(* worker container, against one Postgres database.  A worker below is one  *)
(* handler in flight.  Every $transaction runs at READ COMMITTED: a read    *)
(* sees the last commit, an UPDATE waits for the row lock and then writes   *)
(* whatever the handler decided from its earlier reads.  A transaction is   *)
(* therefore a sequence of steps: each read a later decision depends on is  *)
(* a step, a row lock held across a later read is a step, and the commit    *)
(* is a step.  Writes become visible at the commit.                         *)
(*                                                                          *)
(* Amounts: every order costs one unit, so a balance counts orders.         *)
(* Escrow release, refunds and dispute resolution are in module Settlement. *)
(***************************************************************************)
EXTENDS Integers, FiniteSets

CONSTANTS
    Orders,          \* orders that may be created
    ManualOrders,    \* those whose item has deliveryType MANUAL
    TopupOrders,     \* wallet top-ups: no seller and no items
    Pix,             \* Payment rows with provider EFI
    WalletPayments,  \* Payment rows with provider WALLET
    Copies,          \* distinct webhook bodies the provider may send per txid
    Notices,         \* the copies that do not report a payment
    Workers,         \* handlers that can be in flight at once (bound)
    Stock,           \* inventory items AVAILABLE at the start
    MaxStock,        \* inventory items AVAILABLE at once (bound)
    InitialBalance,  \* AVAILABLE balance of the buyer at the start
    MaxFaults,       \* crashes, failed statements and stalled jobs (bound)
    None

Payments == Pix \cup WalletPayments
Rows == Orders \cup Payments

ASSUME ConstantsAssumption ==
    /\ ManualOrders \subseteq Orders
    /\ TopupOrders \subseteq Orders \ ManualOrders
    /\ Pix \cap WalletPayments = {}
    /\ Orders \cap Payments = {}
    /\ Notices \subseteq Copies
    /\ None \notin Rows \cup Workers
    /\ Workers \cap {"none", "waiting", "failed"} = {}
    /\ Stock \in Nat /\ MaxStock \in Nat /\ InitialBalance \in Nat /\ MaxFaults \in Nat
    /\ IsFiniteSet(Workers)

IsAuto(o) == o \notin ManualOrders
HasItems(o) == o \notin TopupOrders

OrderStatus == {"NONE", "CREATED", "AWAITING_PAYMENT", "IN_DELIVERY", "DELIVERED",
                "COMPLETED", "DISPUTED", "CANCELLED"}
PaymentStatus == {"NONE", "PENDING", "CONFIRMED", "EXPIRED"}

\* isPaymentAllowed / isAllowedStatus(order.status, [CREATED, AWAITING_PAYMENT])
Payable == {"CREATED", "AWAITING_PAYMENT"}

\* A webhook event is one body (eventId = baseId:hash) about one txid.
Events == Pix \X Copies
JobIds == ({"expire", "autoComplete", "release"} \X Orders) \cup ({"efi"} \X Events)

ASSUME AbsentAssumption == None \notin Events \cup JobIds

VARIABLES
    status,     \* Order.status
    disputes,   \* orders with a Dispute row
    listed,     \* whether the listing of the AUTO orders still exists
    stock,      \* its inventory items that are AVAILABLE
    reserved,   \* AUTO orders whose item has an inventory item
    payOrder,   \* Payment.orderId
    payStatus,  \* Payment.status
    paid,       \* Pix charges the buyer has paid at the provider
    events,     \* WebhookEvent rows: "absent", "received", "processed" (processedAt)
    acked,      \* events the provider got an answer for
    credits,    \* per payment: its HELD ORDER_PAYMENT or WALLET_TOPUP credit entries
    balance,    \* AVAILABLE balance of the buyer, from the ledger
    jobs,       \* BullMQ jobs: "none", "waiting", "failed", or the worker running it
    pc,         \* next statement of each handler in flight
    ctx,        \* what each handler in flight serves
    orderRead,  \* the order status applyPaymentConfirmation has read
    linked,     \* whether the order items it has read with it name their listing
    found,      \* whether the handler has found a ledger entry of its payment
    lock,       \* row locks held across statements
    faults,
    cut         \* history: what a throw or a crash kept from following its commit

stockVars == <<listed, stock, reserved>>
dbVars == <<status, disputes, stockVars, payOrder, payStatus, events, credits, balance>>
envVars == <<paid, acked, faults, cut>>
handlerVars == <<pc, ctx, orderRead, linked, found>>
vars == <<dbVars, envVars, handlerVars, jobs, lock>>

Pcs == {"idle", "scheduleExpire", "findPending", "insertPix", "enqueue",
        "applyRead", "applyUpdate", "updatePayment", "findEntry", "webhookCommit",
        "expirePending", "walletCommit", "reserve", "autoDeliverRead", "autoDeliverWrite",
        "scheduleAutoComplete", "cancelWrite", "expireWrite", "receiptWrite",
        "autoCompleteWrite", "scheduleRelease", "disputeWrite", "cancelRelease",
        "deliveredWrite"}

\* What a handler still owes its order after a commit: the expire job, the delivery.
Owed == {"expiry", "delivery"}

\* What a handler serves: an order, a payment and the status it was read with, an
\* event, and the job it reports to.
Serving(kind, o, p, payRead, e, j) ==
    [kind |-> kind, order |-> o, pay |-> p, payRead |-> payRead, event |-> e, job |-> j]

Ctx == [kind : {"request", "webhook", "wallet"}, order : Orders \cup {None},
        pay : Payments \cup {None}, payRead : PaymentStatus,
        event : Events \cup {None}, job : JobIds \cup {None}]

NoCtx == Serving("request", None, None, "NONE", None, None)
ForOrder(o) == Serving("request", o, None, "NONE", None, None)
ForJob(o, j) == Serving("request", o, None, "NONE", None, j)

TypeOK ==
    /\ status \in [Orders -> OrderStatus]
    /\ disputes \subseteq Orders
    /\ listed \in BOOLEAN
    /\ stock \in Nat
    /\ reserved \subseteq Orders
    /\ payOrder \in [Payments -> Orders \cup {None}]
    /\ payStatus \in [Payments -> PaymentStatus]
    /\ paid \subseteq Pix
    /\ events \in [Events -> {"absent", "received", "processed"}]
    /\ acked \subseteq Events
    /\ credits \in [Payments -> Nat]
    /\ balance \in Int
    /\ jobs \in [JobIds -> {"none", "waiting", "failed"} \cup Workers]
    /\ pc \in [Workers -> Pcs]
    /\ ctx \in [Workers -> Ctx]
    /\ orderRead \in [Workers -> OrderStatus]
    /\ linked \in [Workers -> BOOLEAN]
    /\ found \in [Workers -> BOOLEAN]
    /\ lock \in [Rows -> Workers \cup {None}]
    /\ faults \in Nat
    /\ cut \subseteq Owed \X Orders

Init ==
    /\ status = [o \in Orders |-> "NONE"]
    /\ disputes = {}
    /\ listed = (\E o \in Orders : IsAuto(o) /\ HasItems(o))
    /\ stock = Stock
    /\ reserved = {}
    /\ payOrder = [p \in Payments |-> None]
    /\ payStatus = [p \in Payments |-> "NONE"]
    /\ paid = {}
    /\ events = [e \in Events |-> "absent"]
    /\ acked = {}
    /\ credits = [p \in Payments |-> 0]
    /\ balance = InitialBalance
    /\ jobs = [j \in JobIds |-> "none"]
    /\ pc = [w \in Workers |-> "idle"]
    /\ ctx = [w \in Workers |-> NoCtx]
    /\ orderRead = [w \in Workers |-> "NONE"]
    /\ linked = [w \in Workers |-> FALSE]
    /\ found = [w \in Workers |-> FALSE]
    /\ lock = [r \in Rows |-> None]
    /\ faults = 0
    /\ cut = {}

-----------------------------------------------------------------------------
(* Statements and transactions *)

\* Seeded fault: the updateMany that expires charges has lost its status filter.
PendingOf_AnyStatus(o) == {p \in Payments : payOrder[p] = o}
PendingOf(o) == {p \in Payments : payOrder[p] = o /\ payStatus[p] = "PENDING"}
Fresh(S) == {p \in S : payStatus[p] = "NONE"}

\* A handler starts with context c, goes on to its next statement, ends.
Begin(w, c, label) ==
    /\ pc' = [pc EXCEPT ![w] = label]
    /\ ctx' = [ctx EXCEPT ![w] = c]
    /\ UNCHANGED <<orderRead, linked, found>>

Goto(w, label) ==
    /\ pc' = [pc EXCEPT ![w] = label]
    /\ UNCHANGED <<ctx, orderRead, linked, found>>

Leave(w) ==
    /\ pc' = [pc EXCEPT ![w] = "idle"]
    /\ ctx' = [ctx EXCEPT ![w] = NoCtx]
    /\ orderRead' = [orderRead EXCEPT ![w] = "NONE"]
    /\ linked' = [linked EXCEPT ![w] = FALSE]
    /\ found' = [found EXCEPT ![w] = FALSE]

\* queue.add with a fixed jobId: a job already in Redis, failed ones included, wins.
WithJob(j) == IF jobs[j] = "none" THEN [jobs EXCEPT ![j] = "waiting"] ELSE jobs

\* The worker reports the end of its job; a worker whose job stalled away has lost it.
JobEnd(w, outcome) ==
    IF ctx[w].job # None /\ jobs[ctx[w].job] = w
    THEN [jobs EXCEPT ![ctx[w].job] = outcome]
    ELSE jobs

Finish(w) == Leave(w) /\ jobs' = JobEnd(w, "none")     \* removeOnComplete

\* Seeded fault: a transaction that ends keeps its row locks.
LocksWithout_Kept(w) == lock
LocksWithout(w) == [r \in Rows |-> IF lock[r] = w THEN None ELSE lock[r]]

\* Adds job j and ends the handler's own job.
FinishAdding(w, j) ==
    /\ Leave(w)
    /\ jobs' = [JobEnd(w, "none") EXCEPT ![j] = IF @ = "none" THEN "waiting" ELSE @]

\* A throw: the transaction rolls back, its row locks go, the job is kept as failed
\* (attempts is 1 and removeOnFail is false).
Throw(w) ==
    /\ Leave(w)
    /\ jobs' = JobEnd(w, "failed")
    /\ lock' = LocksWithout(w)
    /\ UNCHANGED dbVars

\* What the handler owes its order beside the statement it is at: a throw or a crash
\* cuts it, and nothing does it later.
Owes(w) ==
    CASE pc[w] = "scheduleExpire" -> {"expiry"}
      [] pc[w] \in {"reserve", "autoDeliverRead", "autoDeliverWrite"} /\ IsAuto(ctx[w].order)
           -> {"delivery"}
      [] OTHER -> {}

CutShort(w) == cut' = cut \cup (Owes(w) \X {ctx[w].order})

\* A row this worker may write now.
Free(w, r) == lock[r] \in {None, w}

\* tx.order.update({ where: { id }, data: { status } }) as the last write of a
\* transaction: unconditional, it waits for the row and overwrites it.
WriteStatus(w, new) ==
    /\ Free(w, ctx[w].order)
    /\ status' = [status EXCEPT ![ctx[w].order] = new]

\* Removes a job and hands it to w.
TakeJob(w, j) ==
    /\ pc[w] = "idle"
    /\ jobs[j] = "waiting"
    /\ jobs' = [jobs EXCEPT ![j] = w]

\* A job whose first read ends it: it never leaves the queue half-way.
DropJob(w, j) ==
    /\ pc[w] = "idle"
    /\ jobs[j] = "waiting"
    /\ jobs' = [jobs EXCEPT ![j] = "none"]
    /\ UNCHANGED handlerVars

-----------------------------------------------------------------------------
(* Checkout *)

\* Bound: every handler on its way to a new Pix row finds an unused identifier.
PixRoom ==
    Cardinality(Fresh(Pix)) >
    Cardinality({v \in Workers : \/ pc[v] \in {"findPending", "insertPix"}
                                 \/ pc[v] = "scheduleExpire" /\ ~HasItems(ctx[v].order)})

\* createOrder commits CREATED -> AWAITING_PAYMENT after counting (not reserving)
\* the inventory; createTopupPix inserts a CREATED order without seller or items.
CreateOrder(w, o) ==
    /\ pc[w] = "idle"
    /\ HasItems(o) \/ PixRoom
    /\ status[o] = "NONE"
    /\ IsAuto(o) /\ HasItems(o) => listed /\ stock >= 1
    /\ status' = [status EXCEPT ![o] = IF HasItems(o) THEN "AWAITING_PAYMENT" ELSE "CREATED"]
    /\ Begin(w, ForOrder(o), "scheduleExpire")
    /\ UNCHANGED <<disputes, stockVars, payOrder, payStatus, events, credits, balance,
                   envVars, jobs, lock>>

\* POST /orders ends here; POST /checkout and a top-up go on to createPixCharge.
ScheduleOrderExpiration(w) ==
    /\ pc[w] = "scheduleExpire"
    /\ jobs' = WithJob(<<"expire", ctx[w].order>>)
    /\ \/ HasItems(ctx[w].order) /\ Leave(w)
       \/ /\ HasItems(ctx[w].order) => PixRoom
          /\ Goto(w, "findPending")
    /\ UNCHANGED <<dbVars, envVars, lock>>

CreatePixChargeForOrder(w, o) ==
    /\ pc[w] = "idle"
    /\ PixRoom
    /\ status[o] \in Payable
    /\ Begin(w, ForOrder(o), "findPending")
    /\ UNCHANGED <<dbVars, envVars, jobs, lock>>

\* createPixCharge returns a PENDING payment of the order if it finds one.
FindPendingCharge(w) ==
    /\ pc[w] = "findPending"
    /\ IF PendingOf(ctx[w].order) # {}
       THEN Leave(w)
       ELSE Goto(w, "insertPix")
    /\ UNCHANGED <<dbVars, envVars, jobs, lock>>

InsertPixCharge(w, p) ==
    /\ pc[w] = "insertPix"
    /\ p \in Fresh(Pix)
    /\ payOrder' = [payOrder EXCEPT ![p] = ctx[w].order]
    /\ payStatus' = [payStatus EXCEPT ![p] = "PENDING"]
    /\ Leave(w)
    /\ UNCHANGED <<status, disputes, stockVars, events, credits, balance,
                   envVars, jobs, lock>>

\* The listing loses an AVAILABLE item: its seller removes it, or an order outside the
\* instance reserves it.
RemoveInventoryItem ==
    /\ stock > 0
    /\ stock' = stock - 1
    /\ UNCHANGED <<status, disputes, listed, reserved, payOrder, payStatus, events, credits,
                   balance, envVars, handlerVars, jobs, lock>>

\* ... or gains one: its seller adds codes or makes a removed row AVAILABLE again.
AddInventoryItem ==
    /\ listed /\ stock < MaxStock
    /\ stock' = stock + 1
    /\ UNCHANGED <<status, disputes, listed, reserved, payOrder, payStatus, events, credits,
                   balance, envVars, handlerVars, jobs, lock>>

\* deleteListing: its inventory rows go with it (ON DELETE CASCADE), the reserved ones
\* included, and the items of its orders keep no listingId (ON DELETE SET NULL).
DeleteListing ==
    /\ listed
    /\ listed' = FALSE /\ stock' = 0 /\ reserved' = {}
    /\ UNCHANGED <<status, disputes, payOrder, payStatus, events, credits, balance,
                   envVars, handlerVars, jobs, lock>>

\* The seller, or an admin, changes the listing of the AUTO orders.
EditListing == RemoveInventoryItem \/ AddInventoryItem \/ DeleteListing

-----------------------------------------------------------------------------
(* The Pix provider and the webhook intake *)

\* The buyer pays a charge at the bank: the charge stays payable there whatever
\* the order's state is here.
PayPix(p) ==
    /\ payStatus[p] # "NONE"
    /\ p \notin paid
    /\ paid' = paid \cup {p}
    /\ UNCHANGED <<dbVars, acked, faults, cut, handlerVars, jobs, lock>>

\* Seeded fault: any row found by the insert is taken for a duplicate.
RegisterEfiWebhook_DropsUnprocessed(w, e) ==
    /\ pc[w] = "idle"
    /\ IF e[2] \in Notices THEN payStatus[e[1]] # "NONE" ELSE e[1] \in paid
    /\ IF events[e] # "absent"
       THEN /\ acked' = acked \cup {e}
            /\ UNCHANGED <<events, handlerVars>>
       ELSE /\ events' = [events EXCEPT ![e] = "received"]
            /\ Begin(w, Serving("request", None, None, "NONE", e, None), "enqueue")
            /\ UNCHANGED acked
    /\ UNCHANGED <<status, disputes, stockVars, payOrder, payStatus, credits, balance,
                   paid, faults, cut, jobs, lock>>

\* Seeded fault: the provider gets its answer before the job is added.
RegisterEfiWebhook_AnswersFirst(w, e) ==
    /\ pc[w] = "idle"
    /\ IF e[2] \in Notices THEN payStatus[e[1]] # "NONE" ELSE e[1] \in paid
    /\ acked' = acked \cup {e}
    /\ IF events[e] = "processed"
       THEN UNCHANGED <<events, handlerVars>>
       ELSE /\ events' = [events EXCEPT ![e] = "received"]
            /\ Begin(w, Serving("request", None, None, "NONE", e, None), "enqueue")
    /\ UNCHANGED <<status, disputes, stockVars, payOrder, payStatus, credits, balance,
                   paid, faults, cut, jobs, lock>>

\* registerEfiWebhook: the unique eventId makes the insert the dedupe.  A body seen
\* before is enqueued again unless its row already has processedAt.
RegisterEfiWebhook(w, e) ==
    /\ pc[w] = "idle"
    /\ IF e[2] \in Notices THEN payStatus[e[1]] # "NONE" ELSE e[1] \in paid
    /\ IF events[e] = "processed"
       THEN /\ acked' = acked \cup {e}
            /\ UNCHANGED <<events, handlerVars>>
       ELSE /\ events' = [events EXCEPT ![e] = "received"]
            /\ Begin(w, Serving("request", None, None, "NONE", e, None), "enqueue")
            /\ UNCHANGED acked
    /\ UNCHANGED <<status, disputes, stockVars, payOrder, payStatus, credits, balance,
                   paid, faults, cut, jobs, lock>>

EnqueueProcessing(w) ==
    /\ pc[w] = "enqueue"
    /\ jobs' = WithJob(<<"efi", ctx[w].event>>)
    /\ acked' = acked \cup {ctx[w].event}
    /\ Leave(w)
    /\ UNCHANGED <<dbVars, paid, faults, cut, lock>>

-----------------------------------------------------------------------------
(* applyPaymentConfirmation, called inside the transaction of a webhook job or of
   payOrderWithBalance.  PAID and IN_DELIVERY are written by the same transaction, so
   PAID is never visible outside it. *)

AfterApply(w) == IF ctx[w].kind = "webhook" THEN "updatePayment" ELSE "walletCommit"

Applied(w) == orderRead[w] \in Payable

ApplyReadOrder(w) ==
    /\ pc[w] = "applyRead"
    /\ LET o == ctx[w].order IN
       IF status[o] \in Payable \cup {"IN_DELIVERY"}
       THEN /\ pc' = [pc EXCEPT ![w] = IF status[o] \in Payable THEN "applyUpdate"
                                                             ELSE AfterApply(w)]
            /\ orderRead' = [orderRead EXCEPT ![w] = status[o]]
            /\ linked' = [linked EXCEPT ![w] = listed]
            /\ UNCHANGED <<dbVars, ctx, found, jobs, lock>>
       ELSE Throw(w)
    /\ UNCHANGED envVars

\* UPDATE of the order row: its lock is held until the commit.
ApplyUpdateOrder(w) ==
    /\ pc[w] = "applyUpdate"
    /\ Free(w, ctx[w].order)
    /\ lock' = [lock EXCEPT ![ctx[w].order] = w]
    /\ Goto(w, AfterApply(w))
    /\ UNCHANGED <<dbVars, envVars, jobs>>

-----------------------------------------------------------------------------
(* WebhooksProcessor.handleProcess *)

\* The first reads: the event row and the payment with its txid.  A processed event
\* is a duplicate, a notice is only marked as processed.
StartWebhook(w, e) ==
    /\ IF events[e] = "processed" \/ e[2] \in Notices
       THEN /\ DropJob(w, <<"efi", e>>)
            /\ events' = [events EXCEPT ![e] = "processed"]
       ELSE /\ TakeJob(w, <<"efi", e>>)
            /\ Begin(w, Serving("webhook", payOrder[e[1]], e[1], payStatus[e[1]], e,
                                <<"efi", e>>), "applyRead")
            /\ UNCHANGED events
    /\ UNCHANGED <<status, disputes, stockVars, payOrder, payStatus, credits, balance,
                   envVars, lock>>

\* Seeded fault: only a PENDING payment is confirmed, not one that was expired meanwhile.
NeedsUpdate_OnlyPending(w) == ctx[w].payRead = "PENDING"
NeedsUpdate(w) == ctx[w].payRead # "CONFIRMED"

\* Seeded fault: the payment is written at the end, so its lock is not held during the find.
UpdatePayment_Late(w) ==
    /\ pc[w] = "updatePayment"
    /\ Goto(w, "findEntry")
    /\ UNCHANGED <<dbVars, envVars, jobs, lock>>

\* tx.payment.update, only if the payment was not CONFIRMED when it was read.
UpdatePayment(w) ==
    /\ pc[w] = "updatePayment"
    /\ IF NeedsUpdate(w)
       THEN /\ Free(w, ctx[w].pay)
            /\ lock' = [lock EXCEPT ![ctx[w].pay] = w]
       ELSE UNCHANGED lock
    /\ Goto(w, "findEntry")
    /\ UNCHANGED <<dbVars, envVars, jobs>>

\* createHeldEntry (an order with a seller) and the WALLET_TOPUP branch look for an
\* entry of this payment first.
FindEntry(w) ==
    /\ pc[w] = "findEntry"
    /\ pc' = [pc EXCEPT ![w] = "webhookCommit"]
    /\ found' = [found EXCEPT ![w] = credits[ctx[w].pay] > 0]
    /\ UNCHANGED <<dbVars, envVars, ctx, orderRead, linked, jobs, lock>>

\* A top-up credited for the first time is completed at once, whatever its order was.
CreditsTopup(w) == ~HasItems(ctx[w].order) /\ ~found[w]

\* The commit; only a confirmation that moved the order goes on to the side effects.
WebhookCommit(w) ==
    /\ pc[w] = "webhookCommit"
    /\ LET p == ctx[w].pay IN
       /\ IF Applied(w) \/ CreditsTopup(w)
          THEN WriteStatus(w, IF CreditsTopup(w) THEN "COMPLETED" ELSE "IN_DELIVERY")
          ELSE UNCHANGED status
       /\ payStatus' = IF NeedsUpdate(w) THEN [payStatus EXCEPT ![p] = "CONFIRMED"] ELSE payStatus
       /\ credits' = IF found[w] THEN credits ELSE [credits EXCEPT ![p] = @ + 1]
       /\ balance' = IF CreditsTopup(w) THEN balance + 1 ELSE balance
       /\ events' = [events EXCEPT ![ctx[w].event] = "processed"]
    /\ lock' = LocksWithout(w)
    /\ IF Applied(w) THEN Goto(w, "reserve") /\ UNCHANGED jobs ELSE Finish(w)
    /\ UNCHANGED <<disputes, stockVars, payOrder, envVars>>

-----------------------------------------------------------------------------
(* WalletService.payOrderWithBalance *)

\* Bound: a handler on its way to a WALLET row finds an unused identifier.
WalletRoom == Cardinality(Fresh(WalletPayments)) >
              Cardinality({v \in Workers : ctx[v].kind = "wallet"})

\* Seeded fault: the balance is not looked at.
PayOrderWithBalance_Unchecked(w, o) ==
    /\ pc[w] = "idle"
    /\ WalletRoom
    /\ status[o] \in Payable /\ HasItems(o)
    /\ Begin(w, Serving("wallet", o, None, "NONE", None, None), "expirePending")
    /\ UNCHANGED <<dbVars, envVars, jobs, lock>>

PayOrderWithBalance(w, o) ==
    /\ pc[w] = "idle"
    /\ WalletRoom
    /\ status[o] \in Payable /\ HasItems(o)
    /\ balance >= 1
    /\ Begin(w, Serving("wallet", o, None, "NONE", None, None), "expirePending")
    /\ UNCHANGED <<dbVars, envVars, jobs, lock>>

\* tx.payment.updateMany(PENDING -> EXPIRED): the matching rows stay locked.
ExpirePendingPayments(w) ==
    /\ pc[w] = "expirePending"
    /\ \A p \in PendingOf(ctx[w].order) : Free(w, p)
    /\ lock' = [r \in Rows |-> IF r \in PendingOf(ctx[w].order) THEN w ELSE lock[r]]
    /\ Goto(w, "applyRead")
    /\ UNCHANGED <<dbVars, envVars, jobs>>

\* The commit: the locked payments EXPIRED, a CONFIRMED wallet payment p with its
\* debit and its HELD entry, even when the order had been confirmed meanwhile.
WalletCommit(w, p) ==
    /\ pc[w] = "walletCommit"
    /\ p \in Fresh(WalletPayments)
    /\ status' = IF Applied(w) THEN [status EXCEPT ![ctx[w].order] = "IN_DELIVERY"] ELSE status
    /\ payOrder' = [payOrder EXCEPT ![p] = ctx[w].order]
    /\ payStatus' = [q \in Payments |-> IF q = p THEN "CONFIRMED"
                                        ELSE IF lock[q] = w THEN "EXPIRED" ELSE payStatus[q]]
    /\ credits' = [credits EXCEPT ![p] = 1]
    /\ balance' = balance - 1
    /\ lock' = LocksWithout(w)
    /\ IF Applied(w) THEN Goto(w, "reserve") /\ UNCHANGED jobs ELSE Finish(w)
    /\ UNCHANGED <<disputes, stockVars, events, envVars>>

-----------------------------------------------------------------------------
(* handlePaymentSideEffects, after the commit *)

\* items.filter(AUTO and listingId), of the items read inside the confirming transaction:
\* an order whose listing had been deleted by then asks for nothing.
AsksForItem(w) == LET o == ctx[w].order IN IsAuto(o) /\ HasItems(o) /\ linked[w]

\* Seeded fault: an exhausted inventory is not noticed.
ReserveInventoryForOrder_Unchecked(w) ==
    /\ pc[w] = "reserve"
    /\ LET o == ctx[w].order
           needed == AsksForItem(w) /\ o \notin reserved
       IN
       /\ stock' = IF needed THEN stock - 1 ELSE stock
       /\ reserved' = IF needed THEN reserved \cup {o} ELSE reserved
    /\ IF IsAuto(ctx[w].order) THEN Goto(w, "autoDeliverRead") /\ UNCHANGED jobs ELSE Finish(w)
    /\ UNCHANGED <<status, disputes, listed, payOrder, payStatus, events, credits, balance,
                   lock, envVars>>

\* Seeded fault: an order without stock is delivered nevertheless.
ReserveInventoryForOrder_SkipsMissing(w) ==
    /\ pc[w] = "reserve"
    /\ LET o == ctx[w].order
           take == AsksForItem(w) /\ o \notin reserved /\ stock > 0
       IN
       /\ stock' = IF take THEN stock - 1 ELSE stock
       /\ reserved' = IF take THEN reserved \cup {o} ELSE reserved
    /\ IF IsAuto(ctx[w].order) THEN Goto(w, "autoDeliverRead") /\ UNCHANGED jobs ELSE Finish(w)
    /\ UNCHANGED <<status, disputes, listed, payOrder, payStatus, events, credits, balance,
                   lock, envVars>>

\* reserveInventoryForOrder: one item for an AUTO order that names its listing; NotFound
\* if the listing is gone, a Conflict if no item is left.  The row-level races of the
\* reservation are in module Inventory.
ReserveInventoryForOrder(w) ==
    /\ pc[w] = "reserve"
    /\ LET o == ctx[w].order
           needed == AsksForItem(w) /\ o \notin reserved
       IN
       IF AsksForItem(w) /\ (~listed \/ (needed /\ stock = 0))
       THEN Throw(w) /\ CutShort(w)
       ELSE /\ stock' = IF needed THEN stock - 1 ELSE stock
            /\ reserved' = IF needed THEN reserved \cup {o} ELSE reserved
            /\ IF IsAuto(o) THEN Goto(w, "autoDeliverRead") /\ UNCHANGED jobs
                            ELSE Finish(w)
            /\ UNCHANGED <<status, disputes, listed, payOrder, payStatus, events, credits,
                           balance, lock, cut>>
    /\ UNCHANGED <<paid, acked, faults>>

\* Seeded fault: the delivery expects the order as it was before the payment.
AutoDeliveryRead_BeforePayment(w) ==
    /\ pc[w] = "autoDeliverRead"
    /\ Goto(w, IF status[ctx[w].order] \in Payable THEN "autoDeliverWrite"
                                                   ELSE "scheduleAutoComplete")
    /\ UNCHANGED <<dbVars, envVars, jobs, lock>>

\* handleAutoDelivery; items.every(AUTO) also holds of a top-up, which has none.
AutoDeliveryRead(w) ==
    /\ pc[w] = "autoDeliverRead"
    /\ Goto(w, IF status[ctx[w].order] = "IN_DELIVERY" THEN "autoDeliverWrite"
                                                      ELSE "scheduleAutoComplete")
    /\ UNCHANGED <<dbVars, envVars, jobs, lock>>

\* Seeded fault: the delivery forgets to schedule the auto-complete job.
AutoDeliveryWrite_Unscheduled(w) ==
    /\ pc[w] = "autoDeliverWrite"
    /\ WriteStatus(w, "DELIVERED")
    /\ Finish(w)
    /\ UNCHANGED <<disputes, stockVars, payOrder, payStatus, events, credits, balance,
                   envVars, lock>>

AutoDeliveryWrite(w) ==
    /\ pc[w] = "autoDeliverWrite"
    /\ WriteStatus(w, "DELIVERED")
    /\ Goto(w, "scheduleAutoComplete")
    /\ UNCHANGED <<disputes, stockVars, payOrder, payStatus, events, credits, balance,
                   envVars, jobs, lock>>

ScheduleAutoComplete(w) ==
    /\ pc[w] = "scheduleAutoComplete"
    /\ FinishAdding(w, <<"autoComplete", ctx[w].order>>)
    /\ UNCHANGED <<dbVars, envVars, lock>>

-----------------------------------------------------------------------------
(* Handlers that move an order by one status: read, then an unconditional write *)

\* The read of handler h of order o passed its guard; the write is next.
BeginWrite(w, o, label) ==
    /\ Begin(w, ForOrder(o), label)
    /\ UNCHANGED <<dbVars, envVars, lock>>

\* The last transaction of a handler: writes the status and goes on to label.
CommitStatus(w, new, label) ==
    /\ WriteStatus(w, new)
    /\ IF label = "idle" THEN Finish(w) ELSE Goto(w, label) /\ UNCHANGED jobs
    /\ UNCHANGED <<stockVars, payOrder, payStatus, events, credits, balance, envVars, lock>>

CancelOrderRead(w, o) ==
    /\ pc[w] = "idle" /\ status[o] \in Payable
    /\ BeginWrite(w, o, "cancelWrite") /\ UNCHANGED jobs

CancelOrderWrite(w) ==
    /\ pc[w] = "cancelWrite"
    /\ CommitStatus(w, "CANCELLED", "idle") /\ UNCHANGED disputes

\* Seeded fault: an order with a pending charge is not expired.
ExpirationRead_SparesPending(w, o) ==
    LET j == <<"expire", o>> IN
    IF status[o] \in Payable /\ PendingOf(o) = {}
    THEN /\ TakeJob(w, j)
         /\ Begin(w, ForJob(o, j), "expireWrite")
         /\ UNCHANGED <<dbVars, envVars, lock>>
    ELSE DropJob(w, j) /\ UNCHANGED <<dbVars, envVars, lock>>

\* handleOrderExpiration.  The job is delayed until expiresAt, so it is due when it runs.
ExpirationRead(w, o) ==
    LET j == <<"expire", o>> IN
    IF status[o] \in Payable
    THEN /\ TakeJob(w, j)
         /\ Begin(w, ForJob(o, j), "expireWrite")
         /\ UNCHANGED <<dbVars, envVars, lock>>
    ELSE DropJob(w, j) /\ UNCHANGED <<dbVars, envVars, lock>>

ExpirationWrite(w) ==
    /\ pc[w] = "expireWrite"
    /\ CommitStatus(w, "CANCELLED", "idle") /\ UNCHANGED disputes

\* Seeded fault: the seller may deliver an order that is not paid yet.
MarkDeliveredRead_Unpaid(w, o) ==
    /\ pc[w] = "idle" /\ status[o] \in Payable \cup {"IN_DELIVERY"} /\ ~IsAuto(o)
    /\ BeginWrite(w, o, "deliveredWrite") /\ UNCHANGED jobs

MarkDeliveredRead(w, o) ==
    /\ pc[w] = "idle" /\ status[o] = "IN_DELIVERY" /\ ~IsAuto(o)
    /\ BeginWrite(w, o, "deliveredWrite") /\ UNCHANGED jobs

MarkDeliveredWrite(w) ==
    /\ pc[w] = "deliveredWrite"
    /\ CommitStatus(w, "DELIVERED", "scheduleAutoComplete") /\ UNCHANGED disputes

ConfirmReceiptRead(w, o) ==
    /\ pc[w] = "idle" /\ status[o] = "DELIVERED"
    /\ BeginWrite(w, o, "receiptWrite") /\ UNCHANGED jobs

ConfirmReceiptWrite(w) ==
    /\ pc[w] = "receiptWrite"
    /\ CommitStatus(w, "COMPLETED", "scheduleRelease") /\ UNCHANGED disputes

\* handleAutoComplete; an order it finds COMPLETED already is scheduled for release too.
AutoCompleteRead(w, o) ==
    LET j == <<"autoComplete", o>>
        due == status[o] = "DELIVERED" /\ o \notin disputes
    IN
    IF due \/ status[o] = "COMPLETED"
    THEN /\ TakeJob(w, j)
         /\ Begin(w, ForJob(o, j),
                  IF due THEN "autoCompleteWrite" ELSE "scheduleRelease")
         /\ UNCHANGED <<dbVars, envVars, lock>>
    ELSE DropJob(w, j) /\ UNCHANGED <<dbVars, envVars, lock>>

AutoCompleteWrite(w) ==
    /\ pc[w] = "autoCompleteWrite"
    /\ CommitStatus(w, "COMPLETED", "scheduleRelease") /\ UNCHANGED disputes

ScheduleSettlementRelease(w) ==
    /\ pc[w] = "scheduleRelease"
    /\ FinishAdding(w, <<"release", ctx[w].order>>)
    /\ UNCHANGED <<dbVars, envVars, lock>>

OpenDisputeRead(w, o) ==
    /\ pc[w] = "idle" /\ status[o] \in {"DELIVERED", "COMPLETED"} /\ o \notin disputes
    /\ BeginWrite(w, o, "disputeWrite") /\ UNCHANGED jobs

\* Dispute.orderId is unique: the second of two concurrent inserts throws.
OpenDisputeWrite(w) ==
    /\ pc[w] = "disputeWrite"
    /\ IF ctx[w].order \in disputes
       THEN Throw(w) /\ UNCHANGED envVars
       ELSE /\ disputes' = disputes \cup {ctx[w].order}
            /\ CommitStatus(w, "DISPUTED", "cancelRelease")

\* queue.remove takes out a waiting or failed job, never one that is running.
CancelRelease(w) ==
    /\ pc[w] = "cancelRelease"
    /\ LET j == <<"release", ctx[w].order>> IN
       jobs' = IF jobs[j] \in {"waiting", "failed"} THEN [jobs EXCEPT ![j] = "none"] ELSE jobs
    /\ Leave(w)
    /\ UNCHANGED <<dbVars, envVars, lock>>

-----------------------------------------------------------------------------
(* Faults *)

\* The process hosting w dies: the transaction rolls back and BullMQ's stalled check
\* re-queues the job, or fails it the second time.
Crash(w) ==
    /\ pc[w] # "idle" /\ faults < MaxFaults
    /\ faults' = faults + 1
    /\ Leave(w)
    /\ \E outcome \in {"waiting", "failed"} : jobs' = JobEnd(w, outcome)
    /\ lock' = LocksWithout(w)
    /\ CutShort(w)
    /\ UNCHANGED <<dbVars, paid, acked>>

\* The next statement of w throws (lost connection, 5 s transaction timeout, Redis
\* down).  scheduleSettlementRelease is the one place that swallows it.
StatementFails(w) ==
    /\ pc[w] # "idle" /\ faults < MaxFaults
    /\ faults' = faults + 1
    /\ IF pc[w] = "scheduleRelease"
       THEN Finish(w) /\ UNCHANGED <<dbVars, lock>>
       ELSE Throw(w)
    /\ CutShort(w)
    /\ UNCHANGED <<paid, acked>>

\* A worker that blocks its event loop loses the job while it goes on running it.
StallJob(j) ==
    /\ jobs[j] \in Workers /\ faults < MaxFaults
    /\ faults' = faults + 1
    /\ jobs' = [jobs EXCEPT ![j] = "waiting"]
    /\ UNCHANGED <<dbVars, paid, acked, cut, handlerVars, lock>>

\* The rows the next statement of w updates.
Wanted(w) ==
    CASE pc[w] = "applyUpdate" -> {ctx[w].order}
      [] pc[w] = "updatePayment" /\ NeedsUpdate(w) -> {ctx[w].pay}
      [] pc[w] = "webhookCommit" /\ CreditsTopup(w) -> {ctx[w].order}
      [] pc[w] = "expirePending" -> PendingOf(ctx[w].order)
      [] OTHER -> {}

WaitsFor(w) == {lock[r] : r \in Wanted(w)} \ {None, w}

\* Postgres aborts one transaction of a wait cycle.
DeadlockVictim(w) ==
    /\ \E cycle \in SUBSET Workers : w \in cycle /\ \A v \in cycle : WaitsFor(v) \cap cycle # {}
    /\ Throw(w)
    /\ UNCHANGED envVars

-----------------------------------------------------------------------------
(* The specification *)

\* The next statement of a handler in flight.
Step(w) ==
    \/ ScheduleOrderExpiration(w) \/ FindPendingCharge(w)
    \/ \E p \in Pix : InsertPixCharge(w, p)
    \/ EnqueueProcessing(w)
    \/ ApplyReadOrder(w) \/ ApplyUpdateOrder(w)
    \/ UpdatePayment(w) \/ FindEntry(w) \/ WebhookCommit(w)
    \/ ExpirePendingPayments(w) \/ \E p \in WalletPayments : WalletCommit(w, p)
    \/ ReserveInventoryForOrder(w)
    \/ AutoDeliveryRead(w) \/ AutoDeliveryWrite(w) \/ ScheduleAutoComplete(w)
    \/ CancelOrderWrite(w) \/ ExpirationWrite(w) \/ MarkDeliveredWrite(w)
    \/ ConfirmReceiptWrite(w) \/ AutoCompleteWrite(w) \/ ScheduleSettlementRelease(w)
    \/ OpenDisputeWrite(w) \/ CancelRelease(w)

\* A request of the buyer or of the seller arrives.
Request(w) ==
    \E o \in Orders :
        \/ CreateOrder(w, o) \/ CreatePixChargeForOrder(w, o) \/ PayOrderWithBalance(w, o)
        \/ CancelOrderRead(w, o) \/ MarkDeliveredRead(w, o) \/ ConfirmReceiptRead(w, o)
        \/ OpenDisputeRead(w, o)

\* A queue hands a job to a worker.
JobOfOrder(w, o) == ExpirationRead(w, o) \/ AutoCompleteRead(w, o)

Fault(w) == Crash(w) \/ StatementFails(w) \/ DeadlockVictim(w)

Next ==
    \/ \E w \in Workers :
        \/ Step(w) \/ Request(w) \/ Fault(w)
        \/ \E o \in Orders : JobOfOrder(w, o)
        \/ \E e \in Events : RegisterEfiWebhook(w, e) \/ StartWebhook(w, e)
    \/ \E p \in Pix : PayPix(p)
    \/ EditListing
    \/ \E j \in JobIds : StallJob(j)

Spec == Init /\ [][Next]_vars

\* Fairness.  A handler in flight goes on: Postgres queues lock waiters and resolves
\* wait cycles.  A queue hands out its waiting jobs and the provider repeats a
\* notification until it is answered; both are strong because a worker of the model
\* may be busy again and again, where the real process just takes one more request.
\* Nothing obliges the buyer or the seller to act.
Fairness ==
    /\ \A w \in Workers : SF_vars(Step(w)) /\ WF_vars(DeadlockVictim(w))
    /\ \A o \in Orders : /\ SF_vars(\E w \in Workers : ExpirationRead(w, o))
                         /\ SF_vars(\E w \in Workers : AutoCompleteRead(w, o))
    /\ \A e \in Events : /\ SF_vars(\E w \in Workers : StartWebhook(w, e))
                         /\ SF_vars(e \notin acked /\ \E w \in Workers : RegisterEfiWebhook(w, e))

-----------------------------------------------------------------------------
(* What holds of the handlers in flight: the strengthening that makes CreditedOnce
   and ProcessedMeansConfirmed inductive (module OrderPaymentsProofs). *)

Crediting == {"updatePayment", "findEntry", "webhookCommit"}
Confirming == {"applyRead", "applyUpdate"} \cup Crediting

\* Each statement is reached only by the handlers whose code has it.
HandlersOK ==
    \A w \in Workers :
        /\ pc[w] \in Crediting => ctx[w].kind = "webhook"
        /\ pc[w] \in {"expirePending", "walletCommit"} => ctx[w].kind = "wallet"
        /\ pc[w] \in Confirming => ctx[w].kind \in {"webhook", "wallet"}

\* What a webhook job is about exists: its event, the payment, the payment's order.
OrdersOK ==
    /\ \A p \in Payments : payStatus[p] # "NONE" => payOrder[p] \in Orders
    /\ \A p \in paid : payStatus[p] # "NONE"
    /\ \A e \in Events : /\ events[e] # "absent" => payStatus[e[1]] # "NONE"
                         /\ jobs[<<"efi", e>>] # "none" => events[e] # "absent"
    /\ \A w \in Workers :
        /\ pc[w] = "enqueue" => ctx[w].event \in Events /\ events[ctx[w].event] # "absent"
        /\ pc[w] \notin {"idle", "enqueue"} => ctx[w].order \in Orders

\* A webhook job works on the payment its event names, and a payment it has read as
\* CONFIRMED still is.
WebhooksOK ==
    \A w \in Workers : pc[w] \in Confirming /\ ctx[w].kind = "webhook" =>
        /\ ctx[w].pay \in Pix /\ payStatus[ctx[w].pay] # "NONE"
        /\ ctx[w].event \in Events /\ ctx[w].event[1] = ctx[w].pay
        /\ ctx[w].payRead = "CONFIRMED" => payStatus[ctx[w].pay] = "CONFIRMED"

\* The find of createHeldEntry comes after the UPDATE that took the row lock of the
\* payment, so what it found is still so at the commit.
EntriesOK ==
    \A w \in Workers :
        /\ pc[w] \in {"findEntry", "webhookCommit"} /\ NeedsUpdate(w) => lock[ctx[w].pay] = w
        /\ pc[w] = "webhookCommit" => (found[w] <=> credits[ctx[w].pay] > 0)

\* Row locks are held inside the confirming transactions only, and the payments that
\* payOrderWithBalance locked are still PENDING when it expires them.
LocksOK ==
    \A w \in Workers :
        /\ \A r \in Rows : lock[r] = w => pc[w] \in Confirming \cup {"walletCommit"}
        /\ \A p \in Payments : lock[p] = w /\ ctx[w].kind = "wallet" => payStatus[p] = "PENDING"

\* Where the handler of a job is: a webhook job confirms the payment of its event, and
\* what follows the commit of a webhook job finds the event processed; an expire job is
\* about to cancel its order.
SideEffects == {"reserve", "autoDeliverRead", "autoDeliverWrite", "scheduleAutoComplete"}

JobsOK ==
    /\ \A e \in acked : events[e] # "absent"
    /\ \A w \in Workers :
        /\ \A e \in Events : ctx[w].job = <<"efi", e>> =>
            /\ ctx[w].kind = "webhook"
            /\ \/ pc[w] \in Confirming /\ ctx[w].event = e
               \/ pc[w] \in SideEffects /\ events[e] = "processed"
        /\ \A o \in Orders : ctx[w].job = <<"expire", o>> => pc[w] = "expireWrite" /\ ctx[w].order = o

\* The expire job of an order is in the queue, or is run by the handler that took it.  A
\* handler about to cancel an order that may still be paid may have lost the job by a stall,
\* but no other run of the job has ended it.
ExpireJobsOK ==
    /\ \A o \in Orders :
        LET j == <<"expire", o>> IN
        \/ jobs[j] \in {"none", "waiting", "failed"}
        \/ \E w \in Workers : jobs[j] = w /\ ctx[w].job = j
    /\ \A w \in Workers : pc[w] = "expireWrite" =>
        /\ status[ctx[w].order] # "NONE"
        /\ status[ctx[w].order] \in Payable => jobs[<<"expire", ctx[w].order>>] # "none"

\* What the life of a payment rests on (PaymentKept): a webhook job confirms a payment
\* whose money has arrived, and payOrderWithBalance has locked charges of its order only.
ArrivalsOK ==
    /\ \A q \in WalletPayments : payStatus[q] \in {"NONE", "CONFIRMED"}
    /\ \A e \in Events : events[e] # "absent" /\ e[2] \notin Notices => e[1] \in paid
    /\ \A w \in Workers :
        /\ pc[w] \in Confirming /\ ctx[w].kind = "webhook" => ctx[w].pay \in paid
        /\ \A q \in Payments : lock[q] = w /\ ctx[w].kind = "wallet" => payOrder[q] = ctx[w].order

-----------------------------------------------------------------------------
(* Properties *)

\* A payment has credited the ledger once if it is CONFIRMED and never otherwise,
\* however many webhook jobs for its txid run at once and wherever one of them dies:
\* createHeldEntry looks before it inserts and no unique index backs it up.
CreditedOnce ==
    \A p \in Payments : credits[p] = IF payStatus[p] = "CONFIRMED" THEN 1 ELSE 0

\* processedAt is a promise: a paid event that carries it has confirmed its payment
\* (and, by CreditedOnce, credited the ledger), so dropping its duplicates is safe.
ProcessedMeansConfirmed ==
    \A e \in Events : events[e] = "processed" /\ e[2] \notin Notices
                      => payStatus[e[1]] = "CONFIRMED"

\* The inductive invariant behind the two properties above: what a handler in flight
\* knows about its payment is still true when it commits.
IInv ==
    /\ TypeOK /\ CreditedOnce /\ ProcessedMeansConfirmed
    /\ HandlersOK /\ OrdersOK /\ WebhooksOK /\ EntriesOK /\ LocksOK

Paid(o) == \E p \in Payments : payOrder[p] = o /\ payStatus[p] = "CONFIRMED"

\* A handler that is about to move an order beyond payment serves one that is paid, and
\* a webhook job serves the order of its payment.
PaidOK ==
    \A w \in Workers :
        /\ pc[w] \in {"reserve", "autoDeliverRead", "autoDeliverWrite", "deliveredWrite",
                      "receiptWrite", "autoCompleteWrite", "disputeWrite"} => Paid(ctx[w].order)
        /\ pc[w] \in Confirming /\ ctx[w].kind = "webhook"
           => payOrder[ctx[w].pay] = ctx[w].order

\* No order is handed over, completed or disputed that no confirmed payment paid for,
\* whatever stale statuses its handlers write over each other.
NeverDeliveredUnpaid ==
    \A o \in Orders :
        status[o] \in {"IN_DELIVERY", "DELIVERED", "COMPLETED", "DISPUTED"}
        => Paid(o)

\* An order of an AUTO listing is shown as delivered only with an inventory item of its
\* own, although its delivery runs after the commit that paid it and items come and go
\* meanwhile.  Only the deletion of the listing takes the items away, before the delivery
\* or after it: the one edit of a row that would, updateInventoryItem's disconnect, is
\* not one that updateMany accepts.
DeliveredHasItem ==
    listed => \A o \in Orders : /\ IsAuto(o) /\ HasItems(o)
                                /\ status[o] \in {"DELIVERED", "COMPLETED", "DISPUTED"}
                                => o \in reserved

\* A notification the provider got its answer for, and will not repeat, is processed or
\* has its job: waiting, running or kept as failed.  The answer is sent after the
\* enqueue, and no crash, stalled job or second run of a job takes the job away before
\* the commit that writes processedAt.
AnsweredIsQueued ==
    \A e \in Events : e \in acked /\ events[e] = "received" => jobs[<<"efi", e>>] # "none"

\* What may still be paid is watched, through crashes, stalls and second runs: the job that
\* expires the order waits, is about to be added by createOrder or to cancel the order, or
\* has failed for good.  Only a fault between the commit of the order and the add leaves it
\* without a job.
UnpaidIsWatched ==
    \A o \in Orders : status[o] \in Payable =>
        \/ jobs[<<"expire", o>>] \in {"waiting", "failed"}
        \/ \E w \in Workers : pc[w] \in {"scheduleExpire", "expireWrite"} /\ ctx[w].order = o
        \/ <<"expiry", o>> \in cut

\* A paid order of an AUTO listing has a handler on its way to deliver it, whatever other
\* confirmations of the order did, or the delivery that followed its payment was cut: by a
\* fault, or because no item was left when its turn came.  Then nothing serves the order
\* any more, restocked or not.
PaidIsServed ==
    \A o \in Orders : status[o] = "IN_DELIVERY" /\ IsAuto(o) =>
        \/ \E w \in Workers : "delivery" \in Owes(w) /\ ctx[w].order = o
        \/ <<"delivery", o>> \in cut

\* The balance is checked when payOrderWithBalance starts and debited when it commits, so
\* concurrent payments can overdraw it, but only by what the other handlers in flight had
\* checked by then: sequential payments never add to the debt.
OverdraftBounded == balance < 0 => -balance < Cardinality(Workers)

\* A confirmed payment is never expired again: payOrderWithBalance expires the
\* pending charges of an order while their webhooks are being processed.
ConfirmedIsFinal ==
    [][\A p \in Payments : payStatus[p] = "CONFIRMED" => payStatus'[p] = "CONFIRMED"]_vars

PaymentLife == INSTANCE Payment WITH
    Charges <- Pix, Transfers <- WalletPayments, Nobody <- None,
    phase <- payStatus, order <- payOrder, arrived <- paid, booked <- credits

\* Webhook jobs, wallet payments and repeated notices together keep the promise of module
\* Payment: the row and the ledger entries of a payment change in one step, once, after
\* its money has arrived, and only a payment of the same order lets a charge lapse.
PaymentKept == PaymentLife!PaymentSpec

\* Every handler that starts ends: no throw leaves a row locked, no wait cycle stays.
HandlersFinish == \A w \in Workers : pc[w] # "idle" ~> pc[w] = "idle"

\* A webhook body that reached the database is processed or its job ends up failed,
\* even if the API dies between the insert and the enqueue: the repeated notification
\* finds the row without processedAt and enqueues it again.
ReceivedIsHandled ==
    \A e \in Events : events[e] = "received"
                      ~> (events[e] = "processed" \/ jobs[<<"efi", e>>] = "failed")

\* expire-order cancels what nobody pays, unless the job has failed or was never added.
UnpaidExpires ==
    \A o \in Orders : status[o] \in Payable
        ~> \/ status[o] \notin Payable
           \/ jobs[<<"expire", o>>] = "failed" \/ <<"expiry", o>> \in cut

\* An order of an AUTO listing that is paid gets delivered, unless the delivery that
\* followed its payment was cut.
AutoIsDelivered ==
    \A o \in Orders : (status[o] = "IN_DELIVERY" /\ IsAuto(o))
                      ~> (status[o] # "IN_DELIVERY" \/ <<"delivery", o>> \in cut)

\* A delivered order does not wait for ever: its buyer or the auto-complete job moves
\* it, unless a second payment ran its side effects again after that job, or a fault
\* stopped them.
DeliveredSettles ==
    \A o \in Orders : status[o] = "DELIVERED"
        ~> \/ status[o] # "DELIVERED" \/ faults > 0
           \/ \E p, q \in Payments : p # q /\ payStatus[p] = "CONFIRMED" /\ payStatus[q] = "CONFIRMED"

\* The edges of the documented order state machine that this module can take; a
\* transaction that writes PAID and IN_DELIVERY takes two of them.
OrderEdges ==
    ({"NONE"} \X Payable)
    \cup (Payable \X {"IN_DELIVERY", "CANCELLED"})
    \cup {<<"CREATED", "COMPLETED">>, <<"IN_DELIVERY", "DELIVERED">>,
          <<"DELIVERED", "COMPLETED">>, <<"DELIVERED", "DISPUTED">>, <<"COMPLETED", "DISPUTED">>}

\* A step moves an order only along an edge of the documented state machine.
DocumentedTransitions ==
    [][\A o \in Orders : status'[o] # status[o] => <<status[o], status'[o]>> \in OrderEdges]_vars

\* An order is paid from the wallet only out of a sufficient balance.
NeverOverdrawn == balance >= 0
=============================================================================
