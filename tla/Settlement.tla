----------------------------- MODULE Settlement -----------------------------
(***************************************************************************)
(* Settlement of a paid order: release of the escrow to the seller, refund,  *)
(* partial refund, manual chargeback, and the resolution of a dispute, which *)
(* is a sequence of these.                                                   *)
(*                                                                          *)
(* A worker is one handler in flight: the release-order job, an              *)
(* administrator's request, or resolveDispute.  Each handler reads in one    *)
(* transaction, calls the Pix provider outside any transaction, and writes   *)
(* in another one; a transaction whose reads decide its writes is split into  *)
(* its reads and its commit.  Consecutive reads with nothing in between are   *)
(* one step.                                                                 *)
(*                                                                          *)
(* Every order has one CONFIRMED payment with its HELD entry; how it gets    *)
(* there is module OrderPayments, whose orders in delivery or delivered are  *)
(* all DELIVERED here.                                                       *)
(***************************************************************************)
EXTENDS Integers

CONSTANTS
    Orders,        \* paid orders
    Attributed,    \* those with a partner and a commission
    Workers,       \* handlers that can be in flight at once (bound)
    Price,         \* payment.amountCents
    Fee,           \* platform fee of an order
    RefundFee,     \* REFUND_FEE_CENTS, kept of a refund below the threshold
    Parts,         \* amounts of partial refunds
    MaxRequests,   \* requests of administrators (bound)
    MaxFaults,     \* crashes, failed statements and stalled jobs (bound)
    None

\* An order costs something: payOrderWithBalance refuses one that does not, and a Pix charge
\* of nothing is never paid.
ASSUME ConstantsAssumption ==
    /\ Attributed \subseteq Orders
    /\ None \notin Orders
    /\ Workers \cap {"none", "waiting", "failed"} = {}
    /\ Price \in Nat \ {0} /\ Fee \in Nat /\ RefundFee \in Nat
    /\ Parts \subseteq 1..(Price - 1)
    /\ MaxRequests \in Nat /\ MaxFaults \in Nat

\* Ledger entries by state and source, as net amounts per order.  AVAILABLE is the
\* seller's balance, BUYER the credit of a refunded wallet payment.
Accounts == {"HELD", "AVAILABLE", "FEE", "PAYOUT", "REVERSED", "BUYER"}

VARIABLES
    status,      \* Order.status
    provider,    \* Payment.provider
    kept,        \* what a full refund keeps: RefundFee, or nothing from the threshold on
    refunded,    \* orders whose payment is REFUNDED
    dispute,     \* Dispute.status
    tickets,     \* orders with a ticket
    ledger,      \* net amount of each account, per order
    released,    \* number of AVAILABLE ORDER_PAYMENT credits
    commission,  \* PartnerCommissionEvent types, per order
    blocked,     \* payoutBlockedAt of the seller
    sent,        \* cash-out the provider made for the order, 0 if none
    returned,    \* refund the provider made of the payment, 0 if none
    jobs,        \* release-order jobs: "none", "waiting", "failed", or a worker
    auto,        \* orders whose auto-complete job waits
    calls,       \* handlers of the order that have committed, before their queue call
    lost,        \* history: orders whose release nothing schedules any more
    pc,          \* next statement of each handler in flight
    kind,        \* what each handler is
    on,          \* its order
    amount,      \* the balance it has read, or the amount it refunds
    cashout,     \* whether it has read the cashout settlement mode
    absent,      \* whether the row it will insert, or the status it sets, was absent
    requests,
    faults,
    contested    \* history: orders that two handlers have worked on at once

paymentVars == <<provider, kept>>
dbVars == <<status, paymentVars, refunded, dispute, tickets, ledger, released, commission, blocked>>
efiVars == <<sent, returned>>
callVars == <<auto, calls, lost>>
boundVars == <<requests, faults>>
localVars == <<kind, on, amount, cashout, absent>>
vars == <<dbVars, efiVars, callVars, boundVars, localVars, jobs, pc, contested>>

Kinds == {"none", "job", "release", "refund",
          "disputePartial", "disputeRelease", "disputeRefund"}
Pcs == {"idle", "completeDisputed", "partialRead", "releaseRead", "cashOut", "releaseCheck",
        "releaseFind", "releaseCommit", "refundRead", "refundPix", "refundFind",
        "refundCommit", "findTicket", "chargebackCommit", "finalize"}

\* Handlers of an order that call the queue after their commit.
Callers == {"receipt", "autoComplete", "dispute"}

TypeOK ==
    /\ status \in [Orders -> {"DELIVERED", "COMPLETED", "DISPUTED", "REFUNDED"}]
    /\ provider \in [Orders -> {"EFI", "WALLET"}]
    /\ kept \in [Orders -> Nat]
    /\ refunded \subseteq Orders
    /\ dispute \in [Orders -> {"none", "OPEN", "RESOLVED", "REJECTED"}]
    /\ tickets \subseteq Orders
    /\ ledger \in [Orders -> [Accounts -> Int]]
    /\ released \in [Orders -> Nat]
    /\ commission \in [Orders -> SUBSET {"EARNED", "REVERSED"}]
    /\ blocked \in BOOLEAN
    /\ sent \in [Orders -> Nat] /\ returned \in [Orders -> Nat]
    /\ jobs \in [Orders -> {"none", "waiting", "failed"} \cup Workers]
    /\ auto \subseteq Orders
    /\ calls \subseteq Callers \X Orders
    /\ lost \subseteq Orders
    /\ \A o \in Orders : jobs[o] \in Workers => kind[jobs[o]] = "job" /\ on[jobs[o]] = o
    /\ pc \in [Workers -> Pcs]
    /\ kind \in [Workers -> Kinds]
    /\ on \in [Workers -> Orders \cup {None}]
    /\ \A w \in Workers : IF pc[w] = "idle" THEN kind[w] = "none"
                                          ELSE on[w] \in Orders /\ kind[w] # "none"
    /\ amount \in [Workers -> Int]
    /\ cashout \in [Workers -> BOOLEAN]
    /\ absent \in [Workers -> BOOLEAN]
    /\ requests \in Nat /\ faults \in Nat
    /\ contested \subseteq Orders

Init ==
    /\ status = [o \in Orders |-> "DELIVERED"]
    /\ provider \in [Orders -> {"EFI", "WALLET"}]
    /\ kept \in [Orders -> {0, RefundFee}]
    /\ refunded = {}
    /\ dispute = [o \in Orders |-> "none"]
    /\ tickets = {}
    /\ ledger = [o \in Orders |-> [a \in Accounts |-> IF a = "HELD" THEN Price ELSE 0]]
    /\ released = [o \in Orders |-> 0]
    /\ commission = [o \in Orders |-> {}]
    /\ blocked = FALSE
    /\ sent = [o \in Orders |-> 0]
    /\ returned = [o \in Orders |-> 0]
    /\ jobs = [o \in Orders |-> "none"]
    /\ auto \in SUBSET Orders
    /\ calls = {}
    /\ lost = {}
    /\ pc = [w \in Workers |-> "idle"]
    /\ kind = [w \in Workers |-> "none"]
    /\ on = [w \in Workers |-> None]
    /\ amount = [w \in Workers |-> 0]
    /\ cashout = [w \in Workers |-> FALSE]
    /\ absent = [w \in Workers |-> FALSE]
    /\ requests = 0
    /\ faults = 0
    /\ contested = {}

-----------------------------------------------------------------------------
(* Handlers *)

\* A handler of kind k starts on order o with an amount and what it has read.
Start(w, k, o, a, missing, label) ==
    /\ pc[w] = "idle"
    /\ pc' = [pc EXCEPT ![w] = label]
    /\ kind' = [kind EXCEPT ![w] = k]
    /\ on' = [on EXCEPT ![w] = o]
    /\ amount' = [amount EXCEPT ![w] = a]
    /\ absent' = [absent EXCEPT ![w] = missing]
    /\ contested' = IF \E v \in Workers : on[v] = o THEN contested \cup {o} ELSE contested
    /\ UNCHANGED cashout

Goto(w, label) == pc' = [pc EXCEPT ![w] = label] /\ UNCHANGED <<localVars, contested>>

Leave(w) ==
    /\ pc' = [pc EXCEPT ![w] = "idle"]
    /\ kind' = [kind EXCEPT ![w] = "none"]
    /\ on' = [on EXCEPT ![w] = None]
    /\ amount' = [amount EXCEPT ![w] = 0]
    /\ cashout' = [cashout EXCEPT ![w] = FALSE]
    /\ absent' = [absent EXCEPT ![w] = FALSE]
    /\ UNCHANGED contested

\* The job a worker ends, unless it has stalled away from it.
JobEnd(w, outcome) ==
    IF kind[w] = "job" /\ jobs[on[w]] = w THEN [jobs EXCEPT ![on[w]] = outcome] ELSE jobs

\* Seeded fault: resolveDispute swallows what settlement throws and goes on.
Throw_Swallowed(w) ==
    /\ IF kind[w] \in {"disputePartial", "disputeRelease", "disputeRefund"}
       THEN Goto(w, "finalize") /\ UNCHANGED jobs
       ELSE Leave(w) /\ jobs' = JobEnd(w, "failed")
    /\ UNCHANGED dbVars

\* A throw: nothing is written, the job is kept as failed.
Throw(w) ==
    /\ Leave(w)
    /\ jobs' = JobEnd(w, "failed")
    /\ UNCHANGED dbVars

OfDispute(w) == kind[w] \in {"disputePartial", "disputeRelease", "disputeRefund"}

\* Seeded fault: a handler that has returned leaves its job active.
Return_KeepsJob(w) ==
    IF OfDispute(w)
    THEN Goto(w, "finalize") /\ UNCHANGED jobs
    ELSE Leave(w) /\ UNCHANGED jobs

\* releaseOrder or refundOrder has returned.
Return(w) ==
    IF OfDispute(w)
    THEN Goto(w, "finalize") /\ UNCHANGED jobs
    ELSE Leave(w) /\ jobs' = JobEnd(w, "none")

-----------------------------------------------------------------------------
(* The order before and around its settlement: the races inside these handlers are
   in module OrderPayments *)

\* The order becomes new, and its handler goes on to a queue call.
Commit(o, new, caller) ==
    /\ status' = [status EXCEPT ![o] = new]
    /\ calls' = calls \cup {<<caller, o>>}
    /\ UNCHANGED <<paymentVars, refunded, ledger, released, commission, blocked,
                   efiVars, lost, boundVars, localVars, jobs, pc, contested>>

ConfirmReceipt(o) ==
    /\ status[o] = "DELIVERED"
    /\ Commit(o, "COMPLETED", "receipt")
    /\ UNCHANGED <<dispute, tickets, auto>>

\* Seeded fault: the job leaves an order alone that its buyer has completed.
AutoComplete_OnlyDelivered(o) ==
    /\ o \in auto
    /\ auto' = auto \ {o}
    /\ IF status[o] = "DELIVERED" /\ dispute[o] = "none"
       THEN Commit(o, "COMPLETED", "autoComplete") /\ UNCHANGED <<dispute, tickets>>
       ELSE UNCHANGED <<dbVars, efiVars, calls, lost, boundVars, localVars, jobs, pc, contested>>

\* handleAutoComplete: an order found COMPLETED is scheduled for release too.
AutoComplete(o) ==
    /\ o \in auto
    /\ auto' = auto \ {o}
    /\ IF status[o] = "COMPLETED" \/ (status[o] = "DELIVERED" /\ dispute[o] = "none")
       THEN Commit(o, "COMPLETED", "autoComplete") /\ UNCHANGED <<dispute, tickets>>
       ELSE UNCHANGED <<dbVars, efiVars, calls, lost, boundVars, localVars, jobs, pc, contested>>

\* The commit of openDispute; cancelRelease follows.
OpenDispute(o) ==
    /\ status[o] \in {"DELIVERED", "COMPLETED"} /\ dispute[o] = "none"
    /\ dispute' = [dispute EXCEPT ![o] = "OPEN"]
    /\ tickets' = tickets \cup {o}
    /\ Commit(o, "DISPUTED", "dispute")
    /\ UNCHANGED auto

\* The handler that c names makes its queue call.
Called(c, o) ==
    /\ <<c, o>> \in calls
    /\ calls' = calls \ {<<c, o>>}
    /\ UNCHANGED <<dbVars, efiVars, auto, lost, boundVars, localVars, pc, contested>>

Schedulers == {"receipt", "autoComplete"}

\* scheduleRelease, with a fixed jobId: a job already in the queue wins.
ScheduleRelease(c, o) ==
    /\ c \in Schedulers
    /\ Called(c, o)
    /\ jobs' = [jobs EXCEPT ![o] = IF @ = "none" THEN "waiting" ELSE @]

\* cancelRelease: a running job is not removed.
CancelRelease(o) ==
    /\ Called("dispute", o)
    /\ jobs' = [jobs EXCEPT ![o] = IF @ \in Workers THEN @ ELSE "none"]

\* An administrator blocks or unblocks the seller's payouts.
SetPayoutBlock(b) ==
    /\ blocked # b /\ requests < MaxRequests
    /\ requests' = requests + 1
    /\ blocked' = b
    /\ UNCHANGED <<status, paymentVars, refunded, dispute, tickets, ledger, released, commission,
                   efiVars, callVars, faults, localVars, jobs, pc, contested>>

-----------------------------------------------------------------------------
(* How a settlement operation starts *)

StartReleaseJob(w, o) ==
    /\ jobs[o] = "waiting"
    /\ jobs' = [jobs EXCEPT ![o] = w]
    /\ Start(w, "job", o, 0, FALSE, "releaseRead")
    /\ UNCHANGED <<dbVars, efiVars, callVars, boundVars>>

\* A request of an administrator.
StartRequest(w, k, o, a, missing, label) ==
    /\ requests < MaxRequests
    /\ requests' = requests + 1
    /\ Start(w, k, o, a, missing, label)
    /\ UNCHANGED <<dbVars, efiVars, callVars, faults, jobs>>

AdminRelease(w, o) == StartRequest(w, "release", o, 0, FALSE, "releaseRead")
AdminRefund(w, o) == StartRequest(w, "refund", o, 0, FALSE, "refundRead")

\* resolveDispute: the dispute and its order are read first; the later steps use what
\* was read here.
ResolveDispute(w, o) ==
    /\ dispute[o] = "OPEN" /\ status[o] # "REFUNDED"
    /\ \/ \E part \in Parts :
            StartRequest(w, "disputePartial", o, part, status[o] # "COMPLETED", "completeDisputed")
       \/ StartRequest(w, "disputeRelease", o, 0, status[o] # "COMPLETED", "completeDisputed")
       \/ StartRequest(w, "disputeRefund", o, 0, FALSE, "refundRead")

\* The first commit of a partial or a release resolution.
CompleteDisputed(w) ==
    /\ pc[w] = "completeDisputed"
    /\ status' = IF absent[w] THEN [status EXCEPT ![on[w]] = "COMPLETED"] ELSE status
    /\ Goto(w, IF kind[w] = "disputePartial" THEN "partialRead" ELSE "releaseRead")
    /\ UNCHANGED <<paymentVars, refunded, dispute, tickets, ledger, released, commission, blocked,
                   efiVars, callVars, boundVars, jobs>>

\* finalizeDispute writes the outcome over whatever the dispute is by now.
FinalizeDispute(w) ==
    /\ pc[w] = "finalize"
    /\ dispute' = [dispute EXCEPT ![on[w]] =
                    IF kind[w] = "disputeRelease" THEN "REJECTED" ELSE "RESOLVED"]
    /\ Leave(w)
    /\ UNCHANGED <<status, paymentVars, refunded, tickets, ledger, released, commission, blocked,
                   efiVars, callVars, boundVars, jobs>>

-----------------------------------------------------------------------------
(* The ledger *)

Post(o, entries) ==
    ledger' = [ledger EXCEPT ![o] = [a \in Accounts |-> ledger[o][a] + entries[a]]]

\* The entries of a release of a held balance h: fee to the platform, the rest to the
\* seller, and on to the seller's bank in cashout mode.
FeeOf(h) == IF Fee > h THEN h ELSE Fee

ReleaseEntries(h, withPayout) ==
    [a \in Accounts |->
        CASE a = "HELD" -> -h
          [] a = "FEE" -> FeeOf(h)
          [] a = "PAYOUT" -> IF withPayout THEN h - FeeOf(h) ELSE 0
          [] a = "AVAILABLE" -> IF withPayout THEN 0 ELSE h - FeeOf(h)
          [] OTHER -> 0]

\* Seeded fault: what the platform keeps of a refund is not posted.
RefundEntries_Short(from, x, toBuyer) ==
    [a \in Accounts |-> CASE a = from -> -x
                          [] a = "REVERSED" -> x - RefundFee
                          [] a = "BUYER" -> toBuyer
                          [] OTHER -> 0]

\* A refund of amount x out of account a; a refunded wallet payment credits the buyer.
RefundEntries(from, x, toBuyer) ==
    [a \in Accounts |-> CASE a = from -> -x
                          [] a = "REVERSED" -> x
                          [] a = "BUYER" -> toBuyer
                          [] OTHER -> 0]

-----------------------------------------------------------------------------
(* releaseOrder *)

\* The order is COMPLETED and has no open dispute, unless a resolution asks.
ReleaseAllowed(w) ==
    /\ status[on[w]] = "COMPLETED"
    /\ OfDispute(w) \/ dispute[on[w]] # "OPEN"

\* The first transaction, then the settings, the seller's Pix key and payout block.
ReleaseRead(w) ==
    /\ pc[w] = "releaseRead"
    /\ LET held == ledger[on[w]]["HELD"] IN
       IF ~ReleaseAllowed(w) \/ (released[on[w]] = 0 /\ held <= 0)
       THEN Throw(w)
       ELSE IF released[on[w]] > 0
       THEN Return(w) /\ UNCHANGED dbVars
       ELSE \E byPix, hasPixKey \in BOOLEAN :
            IF byPix /\ (~hasPixKey \/ blocked)
            THEN Throw(w)
            ELSE /\ amount' = [amount EXCEPT ![w] = held]
                 /\ cashout' = [cashout EXCEPT ![w] = byPix]
                 /\ pc' = [pc EXCEPT ![w] = IF byPix /\ held > FeeOf(held)
                                            THEN "cashOut" ELSE "releaseCheck"]
                 /\ UNCHANGED <<dbVars, kind, on, absent, contested, jobs>>
    /\ UNCHANGED <<efiVars, callVars, boundVars>>

\* Seeded fault: the seller is sent the held balance, fee included.
CashOut_Gross(w) ==
    /\ pc[w] = "cashOut"
    /\ sent' = [sent EXCEPT ![on[w]] = IF @ = 0 THEN amount[w] ELSE @]
    /\ Goto(w, "releaseCheck")
    /\ UNCHANGED <<dbVars, returned, callVars, boundVars, jobs>>

\* cashOutPix: the provider pays once per idempotency key, cashout-<order>.
CashOut(w) ==
    /\ pc[w] = "cashOut"
    /\ sent' = [sent EXCEPT ![on[w]] = IF @ = 0 THEN amount[w] - FeeOf(amount[w]) ELSE @]
    /\ Goto(w, "releaseCheck")
    /\ UNCHANGED <<dbVars, returned, callVars, boundVars, jobs>>

\* The second transaction looks for a release again ...
ReleaseCheck(w) ==
    /\ pc[w] = "releaseCheck"
    /\ IF released[on[w]] > 0
       THEN Return(w)
       ELSE /\ Goto(w, IF on[w] \in Attributed THEN "releaseFind" ELSE "releaseCommit")
            /\ UNCHANGED jobs
    /\ UNCHANGED <<dbVars, efiVars, callVars, boundVars>>

\* ... and, for a partner's order, for the commission event.
ReleaseFind(w) ==
    /\ pc[w] = "releaseFind"
    /\ absent' = [absent EXCEPT ![w] = "EARNED" \notin commission[on[w]]]
    /\ pc' = [pc EXCEPT ![w] = "releaseCommit"]
    /\ UNCHANGED <<dbVars, efiVars, callVars, boundVars, kind, on, amount, cashout, jobs, contested>>

\* Inserts a commission event if it was absent; the unique index on (partner, order,
\* type) makes a second insert throw.
Insertable(w, type) == on[w] \in Attributed /\ absent[w] => type \notin commission[on[w]]

WithEvent(w, type) ==
    IF on[w] \in Attributed /\ absent[w]
    THEN [commission EXCEPT ![on[w]] = @ \cup {type}]
    ELSE commission

\* Seeded fault: the settings are read again at the commit.
ReleaseCommit_RereadsMode(w) ==
    /\ pc[w] = "releaseCommit"
    /\ IF Insertable(w, "EARNED")
       THEN /\ \E byPix \in BOOLEAN : Post(on[w], ReleaseEntries(amount[w], byPix))
            /\ released' = [released EXCEPT ![on[w]] = @ + 1]
            /\ commission' = WithEvent(w, "EARNED")
            /\ Return(w)
            /\ UNCHANGED <<status, paymentVars, refunded, dispute, tickets, blocked>>
       ELSE Throw(w)
    /\ UNCHANGED <<efiVars, callVars, boundVars>>

ReleaseCommit(w) ==
    /\ pc[w] = "releaseCommit"
    /\ IF Insertable(w, "EARNED")
       THEN /\ Post(on[w], ReleaseEntries(amount[w], cashout[w]))
            /\ released' = [released EXCEPT ![on[w]] = @ + 1]
            /\ commission' = WithEvent(w, "EARNED")
            /\ Return(w)
            /\ UNCHANGED <<status, paymentVars, refunded, dispute, tickets, blocked>>
       ELSE Throw(w)
    /\ UNCHANGED <<efiVars, callVars, boundVars>>

-----------------------------------------------------------------------------
(* refundOrderPartial and refundOrder *)

IsPartial(w) == kind[w] = "disputePartial"

\* refundAmountCents: never below zero, however cheap the order was.
FullRefund(o) == IF kept[o] < Price THEN Price - kept[o] ELSE 0

PartialRead(w) ==
    /\ pc[w] = "partialRead"
    /\ IF released[on[w]] > 0 \/ amount[w] > ledger[on[w]]["HELD"]
       THEN Throw(w)
       ELSE Goto(w, "refundPix") /\ UNCHANGED <<dbVars, jobs>>
    /\ UNCHANGED <<efiVars, callVars, boundVars>>

\* Seeded fault: a payment that is REFUNDED already is refunded again.
RefundRead_Again(w) ==
    /\ pc[w] = "refundRead"
    /\ IF released[on[w]] > 0
       THEN Goto(w, "findTicket") /\ UNCHANGED jobs
       ELSE /\ amount' = [amount EXCEPT ![w] = Price]
            /\ pc' = [pc EXCEPT ![w] = IF provider[on[w]] = "EFI" THEN "refundPix"
                                                                  ELSE "refundFind"]
            /\ UNCHANGED <<kind, on, cashout, absent, contested, jobs>>
    /\ UNCHANGED <<dbVars, efiVars, callVars, boundVars>>

\* Seeded fault: no payment is refunded by Pix.
RefundRead_NeverPix(w) ==
    /\ pc[w] = "refundRead"
    /\ IF released[on[w]] > 0
       THEN Goto(w, "findTicket") /\ UNCHANGED jobs
       ELSE IF on[w] \in refunded
       THEN Return(w)
       ELSE /\ amount' = [amount EXCEPT ![w] = Price]
            /\ pc' = [pc EXCEPT ![w] = "refundFind"]
            /\ UNCHANGED <<kind, on, cashout, absent, contested, jobs>>
    /\ UNCHANGED <<dbVars, efiVars, callVars, boundVars>>

\* The order, its payment and a release are read outside any transaction.
RefundRead(w) ==
    /\ pc[w] = "refundRead"
    /\ IF released[on[w]] > 0
       THEN Goto(w, "findTicket") /\ UNCHANGED jobs
       ELSE IF on[w] \in refunded
       THEN Return(w)
       ELSE /\ amount' = [amount EXCEPT ![w] = Price]
            /\ pc' = [pc EXCEPT ![w] = IF provider[on[w]] = "EFI" THEN "refundPix"
                                                                  ELSE "refundFind"]
            /\ UNCHANGED <<kind, on, cashout, absent, contested, jobs>>
    /\ UNCHANGED <<dbVars, efiVars, callVars, boundVars>>

\* refundPix: PUT with the id refund-<payment>, the same for a partial and a full
\* refund; the provider returns money once per id and may refuse a repeated one, or one
\* of nothing.  A wallet payment has no Pix to return (Missing endToEndId).
RefundPix(w) ==
    /\ pc[w] = "refundPix"
    /\ \/ /\ provider[on[w]] = "EFI"
          /\ returned' = [returned EXCEPT ![on[w]] =
                IF @ # 0 THEN @ ELSE IF IsPartial(w) THEN amount[w] ELSE FullRefund(on[w])]
          /\ Goto(w, "refundFind")
          /\ UNCHANGED <<dbVars, jobs>>
       \/ /\ \/ provider[on[w]] = "WALLET" \/ returned[on[w]] # 0
             \/ ~IsPartial(w) /\ FullRefund(on[w]) = 0
          /\ Throw(w)
          /\ UNCHANGED returned
    /\ UNCHANGED <<sent, callVars, boundVars>>

\* Seeded fault: the reversal does not look for the commission it reverses.
RefundFind_Blind(w) ==
    /\ pc[w] = "refundFind"
    /\ absent' = [absent EXCEPT ![w] = "REVERSED" \notin commission[on[w]]]
    /\ pc' = [pc EXCEPT ![w] = "refundCommit"]
    /\ UNCHANGED <<dbVars, efiVars, callVars, boundVars, kind, on, amount, cashout, jobs, contested>>

\* The transaction looks for the commission to reverse.
RefundFind(w) ==
    /\ pc[w] = "refundFind"
    /\ absent' = [absent EXCEPT ![w] = /\ "EARNED" \in commission[on[w]]
                                       /\ "REVERSED" \notin commission[on[w]]]
    /\ pc' = [pc EXCEPT ![w] = "refundCommit"]
    /\ UNCHANGED <<dbVars, efiVars, callVars, boundVars, kind, on, amount, cashout, jobs, contested>>

RefundCommit(w) ==
    /\ pc[w] = "refundCommit"
    /\ LET o == on[w]
           toBuyer == IF provider[o] = "WALLET" /\ ~IsPartial(w) THEN FullRefund(o) ELSE 0
       IN
       IF Insertable(w, "REVERSED")
       THEN /\ Post(o, RefundEntries("HELD", amount[w], toBuyer))
            /\ commission' = WithEvent(w, "REVERSED")
            /\ IF IsPartial(w)
               THEN /\ Goto(w, "releaseRead")
                    /\ UNCHANGED <<status, refunded, jobs>>
               ELSE /\ status' = [status EXCEPT ![o] = "REFUNDED"]
                    /\ refunded' = refunded \cup {o}
                    /\ Return(w)
            /\ UNCHANGED <<paymentVars, dispute, tickets, released, blocked>>
       ELSE Throw(w)
    /\ UNCHANGED <<efiVars, callVars, boundVars>>

-----------------------------------------------------------------------------
(* handleChargebackManual: the refund of an order that was released *)

FindTicket(w) ==
    /\ pc[w] = "findTicket"
    /\ absent' = [absent EXCEPT ![w] = on[w] \notin tickets]
    /\ pc' = [pc EXCEPT ![w] = "chargebackCommit"]
    /\ UNCHANGED <<dbVars, efiVars, callVars, boundVars, kind, on, amount, cashout, jobs, contested>>

\* Ticket.orderId is unique.
ChargebackCommit(w) ==
    /\ pc[w] = "chargebackCommit"
    /\ LET o == on[w] IN
       IF absent[w] /\ o \in tickets
       THEN Throw(w)
       ELSE /\ tickets' = tickets \cup {o}
            /\ blocked' = TRUE
            /\ Post(o, RefundEntries("AVAILABLE", Price, 0))
            /\ refunded' = refunded \cup {o}
            /\ status' = [status EXCEPT ![o] = "REFUNDED"]
            /\ Return(w)
            /\ UNCHANGED <<paymentVars, dispute, released, commission>>
    /\ UNCHANGED <<efiVars, callVars, boundVars>>

-----------------------------------------------------------------------------
(* Faults *)

\* The process dies or the next statement or provider call of w throws.  A dead
\* worker's job is handed out again, or failed the second time.
Fail(w) ==
    /\ pc[w] # "idle" /\ faults < MaxFaults
    /\ faults' = faults + 1
    /\ Leave(w)
    /\ \E outcome \in {"waiting", "failed"} : jobs' = JobEnd(w, outcome)
    /\ UNCHANGED <<dbVars, efiVars, callVars, requests>>

\* The queue call of a handler fails, which scheduleSettlementRelease and cancelRelease
\* swallow, or its process dies before it.  The auto-complete job of a dead process is
\* handed out again, or failed the second time.
LoseCall(c, o) ==
    /\ <<c, o>> \in calls /\ faults < MaxFaults
    /\ faults' = faults + 1
    /\ calls' = calls \ {<<c, o>>}
    /\ auto' = auto \/ (c = "autoComplete" /\ auto' = auto \cup {o})
    /\ lost' = IF /\ c \in Schedulers /\ o \notin auto'
                  /\ \A s \in Schedulers : <<s, o>> \notin calls'
               THEN lost \cup {o} ELSE lost
    /\ UNCHANGED <<dbVars, efiVars, requests, localVars, jobs, pc, contested>>

\* A worker that blocks its event loop loses the job while it goes on running it.
StallJob(o) ==
    /\ jobs[o] \in Workers /\ faults < MaxFaults
    /\ faults' = faults + 1
    /\ jobs' = [jobs EXCEPT ![o] = "waiting"]
    /\ UNCHANGED <<dbVars, efiVars, callVars, requests, localVars, pc, contested>>

-----------------------------------------------------------------------------
(* The specification *)

\* The next statement of a handler in flight.
Step(w) ==
    \/ CompleteDisputed(w) \/ FinalizeDispute(w)
    \/ ReleaseRead(w) \/ CashOut(w) \/ ReleaseCheck(w) \/ ReleaseFind(w) \/ ReleaseCommit(w)
    \/ PartialRead(w) \/ RefundRead(w) \/ RefundPix(w) \/ RefundFind(w) \/ RefundCommit(w)
    \/ FindTicket(w) \/ ChargebackCommit(w)

Operation(w, o) == StartReleaseJob(w, o) \/ AdminRelease(w, o) \/ AdminRefund(w, o)
                   \/ ResolveDispute(w, o)

Next ==
    \/ \E w \in Workers : Step(w) \/ Fail(w) \/ \E o \in Orders : Operation(w, o)
    \/ \E o \in Orders :
        \/ ConfirmReceipt(o) \/ AutoComplete(o) \/ OpenDispute(o)
        \/ CancelRelease(o) \/ StallJob(o)
        \/ \E c \in Callers : ScheduleRelease(c, o) \/ LoseCall(c, o)
    \/ \E b \in BOOLEAN : SetPayoutBlock(b)

Spec == Init /\ [][Next]_vars

\* A handler in flight goes on, and the queues hand out its waiting jobs; the second is
\* strong because a worker of the model may be busy with requests again and again.
Fairness ==
    /\ \A w \in Workers : WF_vars(Step(w))
    /\ \A o \in Orders :
        /\ SF_vars(\E w \in Workers : StartReleaseJob(w, o))
        /\ WF_vars(AutoComplete(o)) /\ WF_vars(CancelRelease(o))
        /\ \A c \in Callers : WF_vars(ScheduleRelease(c, o))

-----------------------------------------------------------------------------
(* Properties *)

PhaseOf(o) ==
    IF o \in refunded
    THEN IF released[o] > 0 THEN "chargedBack" ELSE "refunded"
    ELSE IF released[o] > 0 THEN "released" ELSE "held"

Promise == INSTANCE Escrow WITH
    phase <- [o \in Orders |-> PhaseOf(o)],
    escrow <- [o \in Orders |-> ledger[o]["HELD"]]

\* The settlement of an order that no two operations work on at once keeps the promise
\* of module Escrow: through crashes, throws, repeated requests and half-done
\* resolutions its escrow is released or refunded, never both, and never twice.  What a
\* manual chargeback takes from the seller afterwards is not in escrow: it may repeat.
EscrowPromise == Promise!Spec

\* The outcome of a dispute is in the ledger: a REJECTED one has released the escrow, a
\* RESOLVED one has reversed money, whichever commit of resolveDispute failed before and
\* whoever else settled the order meanwhile.
DisputeBacked ==
    \A o \in Orders : /\ dispute[o] = "REJECTED" => released[o] > 0
                      /\ dispute[o] = "RESOLVED" => ledger[o]["REVERSED"] > 0

\* The ledger shows a payout to the seller's bank only if the provider made one, although
\* the settings that choose the mode are read in between.
PayoutIsSent == \A o \in Orders : ledger[o]["PAYOUT"] > 0 => sent[o] > 0

\* Outside faults and overlaps the two agree to the cent, partial refunds included.
PayoutsAgree ==
    \A o \in Orders \ contested :
        faults = 0 /\ (\A w \in Workers : on[w] # o) => sent[o] = ledger[o]["PAYOUT"]

\* A payment is marked REFUNDED before any release only when its buyer has got back what
\* the refund does not keep: all of it in the wallet, or by the provider, which may have
\* returned the amount of a partial refund instead.  Of an order that costs no more than the
\* fee nothing comes back.
RefundIsReal ==
    \A o \in refunded : released[o] = 0 =>
        IF provider[o] = "WALLET" THEN ledger[o]["BUYER"] >= FullRefund(o)
                                  ELSE FullRefund(o) > 0 => returned[o] > 0

\* A partner earns only on a release, and loses only what was earned to a reversal.
CommissionBacked ==
    \A o \in Orders : /\ "EARNED" \in commission[o] => released[o] > 0
                      /\ "REVERSED" \in commission[o]
                         => "EARNED" \in commission[o] /\ ledger[o]["REVERSED"] > 0

\* Whatever overlaps, the entries of an order add up to what was paid: every transaction
\* moves money between accounts and none creates any.  The BUYER credit is paid out of
\* REVERSED.
Conserved ==
    \A o \in Orders : LET l == ledger[o] IN
        l["HELD"] + l["AVAILABLE"] + l["FEE"] + l["PAYOUT"] + l["REVERSED"] = Price

\* A completed order is released, or disputed, refunded, or its job is kept as failed for
\* an administrator.  If the handler that completed it fails to schedule the release, its
\* auto-complete job does: only an order whose last such call was lost waits for ever.
CompletedIsReleased ==
    \A o \in Orders : (status[o] = "COMPLETED" /\ dispute[o] = "none")
        ~> \/ released[o] > 0 \/ dispute[o] # "none" \/ o \in refunded
           \/ jobs[o] = "failed" \/ o \in lost

-----------------------------------------------------------------------------
(* The inductive invariant *)

InRelease(w) == pc[w] \in {"cashOut", "releaseCheck", "releaseFind", "releaseCommit"}
InRefund(w) == pc[w] \in {"refundPix", "refundFind", "refundCommit"}
InChargeback(w) == pc[w] \in {"findTicket", "chargebackCommit"}

\* Which handlers are at which statements, and how much money they move.
ControlOK(w) ==
    /\ pc[w] = "completeDisputed" => kind[w] \in {"disputePartial", "disputeRelease"}
    /\ pc[w] = "finalize" => OfDispute(w)
    /\ pc[w] = "partialRead" => IsPartial(w)
    /\ pc[w] = "releaseRead" \/ InRelease(w) => kind[w] \notin {"refund", "disputeRefund"}
    /\ pc[w] = "refundRead" \/ InChargeback(w) => kind[w] \in {"refund", "disputeRefund"}
    /\ InRefund(w) => kind[w] \in {"refund", "disputeRefund", "disputePartial"}
    /\ InRelease(w) \/ InRefund(w) => amount[w] > 0
    /\ InRefund(w) /\ ~IsPartial(w) => amount[w] = Price
    /\ IsPartial(w) /\ pc[w] \in {"completeDisputed", "partialRead"} => amount[w] > 0

\* What a handler relies on from its earlier statements: whatever overlaps, it stays true.
KnowsOK(w) ==
    LET o == on[w] IN
    /\ InChargeback(w) => released[o] > 0
    /\ IsPartial(w) /\ (InRelease(w) \/ pc[w] \in {"releaseRead", "finalize"})
         => ledger[o]["REVERSED"] > 0
    /\ pc[w] = "finalize" => IF kind[w] = "disputeRelease" THEN released[o] > 0
                                                           ELSE ledger[o]["REVERSED"] > 0
    /\ InRelease(w) /\ pc[w] # "cashOut" /\ cashout[w] /\ amount[w] > FeeOf(amount[w])
         => sent[o] > 0
    /\ pc[w] \in {"refundFind", "refundCommit"} /\ ~IsPartial(w) /\ provider[o] = "EFI"
         => (FullRefund(o) > 0 => returned[o] > 0)
    /\ pc[w] = "refundCommit" /\ absent[w] => "EARNED" \in commission[o]

\* What a handler may also rely on while no other one works on its order.
AloneOK(w) ==
    LET o == on[w] IN
    /\ \A v \in Workers \ {w} : on[w] # None /\ on[v] = o => o \in contested
    /\ pc[w] # "idle" /\ o \notin contested =>
        /\ InRelease(w) => amount[w] = ledger[o]["HELD"]
        /\ InRefund(w) /\ IsPartial(w) => amount[w] <= ledger[o]["HELD"]
        /\ InRelease(w) \/ InRefund(w) => released[o] = 0 /\ o \notin refunded
        /\ pc[w] \in {"completeDisputed", "partialRead"} => o \notin refunded

\* The entries of an order fit its refund.
RefundsOK ==
    /\ \A o \in Orders : ledger[o]["REVERSED"] >= 0 /\ ledger[o]["BUYER"] >= 0
    /\ \A o \in refunded : ledger[o]["REVERSED"] > 0
    /\ \A o \in refunded \ contested : status[o] = "REFUNDED"

\* What every step preserves, whatever overlaps and whatever fails: the properties above
\* need what the handlers in flight know from their earlier statements.
IInv ==
    /\ TypeOK
    /\ \A w \in Workers : ControlOK(w) /\ KnowsOK(w) /\ AloneOK(w)
    /\ RefundsOK
    /\ DisputeBacked
    /\ PayoutIsSent
    /\ RefundIsReal
    /\ CommissionBacked

-----------------------------------------------------------------------------
(* What documents and code promise and the code does not keep *)

\* ARCHITECTURE.md:84, "Comissao e registrada no release (PartnerCommissionEvent EARNED) e
\* revertida em refund (REVERSED)": a refunded order leaves no commission standing.
CommissionReversed ==
    \A o \in refunded : "EARNED" \in commission[o] => "REVERSED" \in commission[o]

\* An order's escrow is not released while its dispute is open, unless the resolution of
\* the dispute releases it.
DisputeHoldsEscrow ==
    [][\A o \in Orders : released'[o] > released[o] /\ dispute[o] = "OPEN"
                         => \E w \in Workers : on[w] = o /\ OfDispute(w)]_vars
=============================================================================
