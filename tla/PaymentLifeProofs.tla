------------------------- MODULE PaymentLifeProofs -------------------------
(* What TLAPS proves about the life of a payment: OrderPayments implements the abstract
   module Payment, step by step. *)
EXTENDS OrderProgressProofs

USE DEF Payments, Rows, Events, JobIds, stockVars

-----------------------------------------------------------------------------
(* Which steps touch payments, arrivals and locks *)

\* Among the statements of handlers, three write a payment or book it.
LEMMA StepPayments ==
    ASSUME NEW w \in Workers, Step(w)
    PROVE  /\ UNCHANGED paid
           /\ \/ UNCHANGED <<payStatus, payOrder, credits>>
              \/ \E p \in Pix : InsertPixCharge(w, p)
              \/ WebhookCommit(w)
              \/ \E p \in WalletPayments : WalletCommit(w, p)
<1>1. CASE \/ ScheduleOrderExpiration(w) \/ FindPendingCharge(w) \/ EnqueueProcessing(w)
           \/ \E p \in Pix : InsertPixCharge(w, p)
  BY <1>1 DEF ScheduleOrderExpiration, FindPendingCharge, EnqueueProcessing, InsertPixCharge,
      dbVars, envVars
<1>2. CASE ApplyReadOrder(w) \/ ApplyUpdateOrder(w) \/ UpdatePayment(w) \/ FindEntry(w)
           \/ ExpirePendingPayments(w)
  BY <1>2 DEF ApplyReadOrder, ApplyUpdateOrder, UpdatePayment, FindEntry, ExpirePendingPayments,
      Throw, dbVars, envVars
<1>3. CASE WebhookCommit(w) \/ \E p \in WalletPayments : WalletCommit(w, p)
  BY <1>3 DEF WebhookCommit, WalletCommit, envVars
<1>4. CASE ReserveInventoryForOrder(w) \/ AutoDeliveryRead(w) \/ AutoDeliveryWrite(w)
           \/ ScheduleAutoComplete(w) \/ ScheduleSettlementRelease(w) \/ CancelRelease(w)
  BY <1>4 DEF ReserveInventoryForOrder, AutoDeliveryRead, AutoDeliveryWrite, ScheduleAutoComplete,
      ScheduleSettlementRelease, CancelRelease, Throw, dbVars, envVars
<1>5. CASE CancelOrderWrite(w) \/ ExpirationWrite(w) \/ MarkDeliveredWrite(w)
           \/ ConfirmReceiptWrite(w) \/ AutoCompleteWrite(w) \/ OpenDisputeWrite(w)
  BY <1>5 DEF CancelOrderWrite, ExpirationWrite, MarkDeliveredWrite, ConfirmReceiptWrite,
      AutoCompleteWrite, OpenDisputeWrite, CommitStatus, Throw, dbVars, envVars
<1>6. QED
  BY <1>1, <1>2, <1>3, <1>4, <1>5 DEF Step

\* What has arrived stays, and only the buyer makes money arrive.
LEMMA OnlyPayPix ==
    ASSUME [Next]_vars
    PROVE  UNCHANGED paid \/ \E p \in Pix : PayPix(p)
<1>1. ASSUME NEW w \in Workers, Request(w) PROVE UNCHANGED paid
  BY <1>1 DEF Request, CreateOrder, CreatePixChargeForOrder, PayOrderWithBalance, CancelOrderRead,
      MarkDeliveredRead, ConfirmReceiptRead, OpenDisputeRead, BeginWrite, envVars
<1>2. ASSUME NEW w \in Workers, Fault(w) PROVE UNCHANGED paid
  BY <1>2 DEF Fault, Crash, StatementFails, DeadlockVictim, envVars
<1>3. ASSUME NEW w \in Workers, NEW o \in Orders, JobOfOrder(w, o) PROVE UNCHANGED paid
  BY <1>3 DEF JobOfOrder, ExpirationRead, AutoCompleteRead, envVars
<1>4. ASSUME NEW w \in Workers, NEW e \in Events, RegisterEfiWebhook(w, e) \/ StartWebhook(w, e)
      PROVE UNCHANGED paid
  BY <1>4 DEF RegisterEfiWebhook, StartWebhook, envVars
<1>5. CASE EditListing \/ UNCHANGED vars \/ \E j \in JobIds : StallJob(j)
  BY <1>5
     DEF EditListing, RemoveInventoryItem, AddInventoryItem, DeleteListing, StallJob, vars,
         envVars
<1>6. QED
  BY <1>1, <1>2, <1>3, <1>4, <1>5, StepPayments DEF Next

\* Three statements take a row lock.
Takes(w, r) ==
    \/ ApplyUpdateOrder(w) /\ r = ctx[w].order
    \/ UpdatePayment(w) /\ r = ctx[w].pay
    \/ ExpirePendingPayments(w) /\ r \in PendingOf(ctx[w].order)

LEMMA StepLocks ==
    ASSUME TypeOK, NEW v \in Workers, Step(v), NEW w \in Workers, NEW r \in Rows,
           lock'[r] = w, lock[r] # w
    PROVE  v = w /\ Takes(w, r)
<1>0. w # None
  BY ConstantsAssumption
<1>1. CASE UNCHANGED lock \/ lock' = LocksWithout(v)
  BY <1>0, <1>1 DEF LocksWithout
<1>2. CASE ApplyUpdateOrder(v) \/ UpdatePayment(v)
  BY <1>2 DEF ApplyUpdateOrder, UpdatePayment, Takes, TypeOK
<1>3. CASE ExpirePendingPayments(v)
  BY <1>3 DEF ExpirePendingPayments, Takes
<1>4. CASE \/ ScheduleOrderExpiration(v) \/ FindPendingCharge(v) \/ EnqueueProcessing(v)
           \/ \E p \in Pix : InsertPixCharge(v, p)
  BY <1>1, <1>4 DEF ScheduleOrderExpiration, FindPendingCharge, EnqueueProcessing, InsertPixCharge
<1>5. CASE ApplyReadOrder(v) \/ FindEntry(v)
  BY <1>1, <1>5 DEF ApplyReadOrder, FindEntry, Throw
<1>6. CASE WebhookCommit(v) \/ \E p \in WalletPayments : WalletCommit(v, p)
  BY <1>1, <1>6 DEF WebhookCommit, WalletCommit
<1>7. CASE ReserveInventoryForOrder(v) \/ AutoDeliveryRead(v) \/ AutoDeliveryWrite(v)
           \/ ScheduleAutoComplete(v) \/ ScheduleSettlementRelease(v) \/ CancelRelease(v)
  BY <1>1, <1>7 DEF ReserveInventoryForOrder, AutoDeliveryRead, AutoDeliveryWrite,
      ScheduleAutoComplete, ScheduleSettlementRelease, CancelRelease, Throw
<1>8. CASE CancelOrderWrite(v) \/ ExpirationWrite(v) \/ MarkDeliveredWrite(v)
           \/ ConfirmReceiptWrite(v) \/ AutoCompleteWrite(v) \/ OpenDisputeWrite(v)
  BY <1>1, <1>8 DEF CancelOrderWrite, ExpirationWrite, MarkDeliveredWrite, ConfirmReceiptWrite,
      AutoCompleteWrite, OpenDisputeWrite, CommitStatus, Throw
<1>9. QED
  BY <1>2, <1>3, <1>4, <1>5, <1>6, <1>7, <1>8 DEF Step

LEMMA LockTaken ==
    ASSUME TypeOK, [Next]_vars, NEW w \in Workers, NEW r \in Rows, lock'[r] = w, lock[r] # w
    PROVE  Step(w) /\ Takes(w, r)
<1>0. w # None
  BY ConstantsAssumption
<1>1. ASSUME NEW v \in Workers, UNCHANGED lock \/ lock' = LocksWithout(v) PROVE FALSE
  BY <1>0, <1>1 DEF LocksWithout
<1>2. ASSUME NEW v \in Workers, Request(v) PROVE UNCHANGED lock
  BY <1>2 DEF Request, CreateOrder, CreatePixChargeForOrder, PayOrderWithBalance, CancelOrderRead,
      MarkDeliveredRead, ConfirmReceiptRead, OpenDisputeRead, BeginWrite
<1>3. ASSUME NEW v \in Workers, Fault(v) PROVE UNCHANGED lock \/ lock' = LocksWithout(v)
  BY <1>3 DEF Fault, Crash, StatementFails, DeadlockVictim, Throw
<1>4. ASSUME NEW v \in Workers, NEW o \in Orders, JobOfOrder(v, o) PROVE UNCHANGED lock
  BY <1>4 DEF JobOfOrder, ExpirationRead, AutoCompleteRead
<1>5. ASSUME NEW v \in Workers, NEW e \in Events, RegisterEfiWebhook(v, e) \/ StartWebhook(v, e)
      PROVE UNCHANGED lock
  BY <1>5 DEF RegisterEfiWebhook, StartWebhook
<1>6. CASE \/ EditListing \/ UNCHANGED vars
           \/ \E j \in JobIds : StallJob(j)
           \/ \E p \in Pix : PayPix(p)
  <2>1. UNCHANGED lock
    BY <1>6
       DEF EditListing, RemoveInventoryItem, AddInventoryItem, DeleteListing, StallJob, PayPix,
           vars
  <2>2. QED
    BY <2>1
<1>7. QED
  BY <1>1, <1>2, <1>3, <1>4, <1>5, <1>6, StepLocks DEF Next

-----------------------------------------------------------------------------
(* What webhook jobs and wallet payments rely on *)

\* An event row that reports a payment is inserted after the payment.
LEMMA ReportsArrive ==
    ASSUME TypeOK, Known, ArrivalsOK, [Next]_vars,
           NEW e \in Events, events'[e] # "absent", e[2] \notin Notices
    PROVE  e[1] \in paid
<1> USE DEF Known, ArrivalsOK
<1>1. CASE events[e] # "absent"
  BY <1>1
<1>2. CASE \E w \in Workers : WebhookCommit(w)
  <2>1. PICK w \in Workers : WebhookCommit(w)
    BY <1>2
  <2>2. /\ pc[w] = "webhookCommit"
        /\ events' = [events EXCEPT ![ctx[w].event] = "processed"]
    BY <2>1 DEF WebhookCommit
  <2>3. /\ ctx[w].pay \in paid /\ ctx[w].event[1] = ctx[w].pay
    BY <2>2 DEF HandlersOK, WebhooksOK, Confirming, Crediting
  <2>4. QED
    BY <1>1, <2>2, <2>3 DEF TypeOK
<1>3. CASE \E w \in Workers, i \in Events : RegisterEfiWebhook(w, i)
  <2>1. PICK w \in Workers, i \in Events : RegisterEfiWebhook(w, i)
    BY <1>3
  <2>2. CASE i = e
    BY <2>1, <2>2 DEF RegisterEfiWebhook
  <2>3. CASE i # e
    <3>1. UNCHANGED events \/ events' = [events EXCEPT ![i] = "received"]
      BY <2>1 DEF RegisterEfiWebhook
    <3>2. QED
      BY <1>1, <2>3, <3>1 DEF TypeOK
  <2>4. QED
    BY <2>2, <2>3
<1>4. CASE \E w \in Workers, i \in Events : StartWebhook(w, i)
  <2>1. PICK w \in Workers, i \in Events : StartWebhook(w, i)
    BY <1>4
  <2>2. CASE i = e
    <3>1. jobs[<<"efi", e>>] = "waiting"
      BY <2>1, <2>2 DEF StartWebhook, TakeJob, DropJob
    <3>2. QED
      BY <1>1, <3>1 DEF OrdersOK
  <2>3. CASE i # e
    <3>1. UNCHANGED events \/ events' = [events EXCEPT ![i] = "processed"]
      BY <2>1 DEF StartWebhook
    <3>2. QED
      BY <1>1, <2>3, <3>1 DEF TypeOK
  <2>4. QED
    BY <2>2, <2>3
<1>5. CASE UNCHANGED events
  BY <1>1, <1>5
<1>6. CASE \E w \in Workers : Fault(w)
  BY <1>5, <1>6 DEF Fault, Crash, StatementFails, DeadlockVictim, Throw, Finish, dbVars
<1>7. CASE \E w \in Workers : Request(w)
  BY <1>5, <1>7
     DEF Request, CreateOrder, CreatePixChargeForOrder, PayOrderWithBalance, CancelOrderRead,
         MarkDeliveredRead, ConfirmReceiptRead, OpenDisputeRead, BeginWrite, dbVars
<1>8. CASE \E w \in Workers, o \in Orders : JobOfOrder(w, o)
  BY <1>5, <1>8 DEF JobOfOrder, ExpirationRead, AutoCompleteRead, dbVars
<1>9. CASE \/ UNCHANGED vars \/ EditListing
           \/ \E j \in JobIds : StallJob(j)
           \/ \E p \in Pix : PayPix(p)
  BY <1>5, <1>9
     DEF PayPix, EditListing, RemoveInventoryItem, AddInventoryItem, DeleteListing, StallJob,
         vars, dbVars
<1>10. QED
  BY <1>2, <1>3, <1>4, <1>5, <1>6, <1>7, <1>8, <1>9, StepEvents DEF Next

\* A payment out of the balance is CONFIRMED from the start.
LEMMA WalletPaymentsKnown ==
    ASSUME TypeOK, Known, ArrivalsOK, [Next]_vars, NEW q \in WalletPayments
    PROVE  payStatus'[q] \in {"NONE", "CONFIRMED"}
<1> USE DEF Known, ArrivalsOK
<1>1. CASE UNCHANGED payStatus
  BY <1>1
<1>2. ASSUME NEW w \in Workers, NEW p \in Pix, InsertPixCharge(w, p)
      PROVE  payStatus'[q] \in {"NONE", "CONFIRMED"}
  BY <1>2, ConstantsAssumption DEF InsertPixCharge, TypeOK
<1>3. ASSUME NEW w \in Workers, WebhookCommit(w)
      PROVE  payStatus'[q] \in {"NONE", "CONFIRMED"}
  BY <1>3 DEF WebhookCommit, TypeOK
<1>4. ASSUME NEW w \in Workers, NEW p \in WalletPayments, WalletCommit(w, p)
      PROVE  payStatus'[q] \in {"NONE", "CONFIRMED"}
  <2>1. lock[q] # w
    BY <1>4 DEF WalletCommit, HandlersOK, LocksOK
  <2>2. QED
    BY <1>4, <2>1 DEF WalletCommit, TypeOK
<1>5. CASE \A w \in Workers : ~Step(w)
  BY <1>1, <1>5, OutsideKeeps
<1>6. QED
  BY <1>1, <1>2, <1>3, <1>4, <1>5, StepPayments

\* A webhook job confirms a payment whose money has arrived.
LEMMA ConfirmingArrived ==
    ASSUME TypeOK, Known, ArrivalsOK, [Next]_vars, paid \subseteq paid',
           NEW w \in Workers, pc'[w] \in Confirming, ctx'[w].kind = "webhook"
    PROVE  ctx'[w].pay \in paid'
<1> USE DEF Known, ArrivalsOK
<1>1. CASE pc'[w] = pc[w] /\ ctx'[w] = ctx[w]
  BY <1>1
<1>2. CASE Step(w) /\ Moves(w)
  <2>1. ctx'[w] = ctx[w] /\ Flow(w, pc'[w])
    BY <1>2 DEF Moves, Confirming, Crediting
  <2>2. pc[w] \in Confirming
    BY <2>1 DEF Flow, Confirming, Crediting, AfterApply, HandlersOK
  <2>3. QED
    BY <2>1, <2>2
<1>3. CASE Fault(w) /\ pc'[w] = "idle"
  BY <1>3 DEF Confirming, Crediting
<1>4. CASE Starts(w)
  <2>1. \/ pc'[w] = "idle" \/ ctx'[w].kind # "webhook"
        \/ \E e \in Events : /\ StartWebhook(w, e) /\ pc'[w] = "applyRead"
                             /\ ctx'[w].pay = e[1]
    <3>1. \A o \in Orders : /\ ForOrder(o).kind # "webhook"
                            /\ \A j : ForJob(o, j).kind # "webhook"
                            /\ Serving("wallet", o, None, "NONE", None, None).kind # "webhook"
      BY DEF ForOrder, ForJob, Serving
    <3>2. \A e : Serving("request", None, None, "NONE", e, None).kind # "webhook"
      BY DEF Serving
    <3>3. \A e \in Events :
            Serving("webhook", payOrder[e[1]], e[1], payStatus[e[1]], e, <<"efi", e>>).pay = e[1]
      BY DEF Serving
    <3>4. QED
      BY ONLY <1>4, <3>1, <3>2, <3>3 DEF Starts
  <2>2. CASE pc'[w] = "idle" \/ ctx'[w].kind # "webhook"
    BY <2>2 DEF Confirming, Crediting
  <2>3. CASE \E e \in Events : /\ StartWebhook(w, e) /\ pc'[w] = "applyRead"
                               /\ ctx'[w].pay = e[1]
    <3>1. PICK e \in Events : StartWebhook(w, e) /\ pc'[w] = "applyRead" /\ ctx'[w].pay = e[1]
      BY <2>3
    <3>2. e[2] \notin Notices /\ jobs[<<"efi", e>>] = "waiting"
      BY <3>1, <1>4 DEF StartWebhook, DropJob, TakeJob, handlerVars, Starts
    <3>3. e[1] \in paid
      BY <3>2 DEF OrdersOK
    <3>4. QED
      BY <3>1, <3>3
  <2>4. QED
    BY ONLY <2>1, <2>2, <2>3
<1>5. CASE UNCHANGED <<pc, ctx>>
  BY <1>1, <1>5
<1>6. CASE \E v \in Workers : v # w /\ OthersRest(v)
  BY <1>1, <1>6 DEF OthersRest
<1>7. QED
  BY ONLY TypeOK, [Next]_vars, w \in Workers, <1>2, <1>3, <1>4, <1>5, <1>6, OneMoves DEF Moves, Starts

\* payOrderWithBalance holds locks on payments of its order only.
LEMMA LockedKnown ==
    ASSUME TypeOK, Known, ArrivalsOK, [Next]_vars, NEW w \in Workers, NEW q \in Payments,
           lock'[q] = w, ctx'[w].kind = "wallet"
    PROVE  payOrder'[q] = ctx'[w].order
<1> USE DEF Known, ArrivalsOK
<1>1. CASE lock[q] = w
  <2>1. pc[w] \in Confirming \cup {"walletCommit"}
    BY <1>1 DEF LocksOK
  <2>2. ctx'[w] = ctx[w]
    <3>1. NoCtx.kind # "wallet"
      BY DEF NoCtx, Serving
    <3>2. pc[w] # "idle"
      BY <2>1 DEF Confirming, Crediting
    <3>3. QED
      BY <3>1, <3>2, OneMoves DEF OthersRest, Moves, Starts
  <2>3. payStatus[q] = "PENDING" /\ payOrder[q] = ctx[w].order
    BY <1>1, <2>2 DEF LocksOK
  <2>4. QED
    BY <2>2, <2>3, PaymentsStay
<1>2. CASE lock[q] # w
  <2>1. Step(w) /\ Takes(w, q)
    BY <1>2, LockTaken
  <2>2. ctx' = ctx /\ pc[w] \in {"applyUpdate", "updatePayment", "expirePending"}
    BY <2>1 DEF Takes, ApplyUpdateOrder, UpdatePayment, ExpirePendingPayments, Goto
  <2>3. CASE ApplyUpdateOrder(w) /\ q = ctx[w].order
    BY <2>3, ConstantsAssumption DEF ApplyUpdateOrder, OrdersOK
  <2>4. CASE UpdatePayment(w)
    BY <2>2, <2>4 DEF UpdatePayment, HandlersOK, Crediting
  <2>5. CASE q \in PendingOf(ctx[w].order)
    BY <2>2, <2>5, PaymentsStay DEF PendingOf
  <2>6. QED
    BY <2>1, <2>3, <2>4, <2>5 DEF Takes
<1>3. QED
  BY <1>1, <1>2

LEMMA ArrivalsKnown ==
    ASSUME TypeOK, Known, ArrivalsOK, [Next]_vars
    PROVE  ArrivalsOK'
<1>1. paid \subseteq paid'
  BY OnlyPayPix DEF PayPix
<1>2. QED
  BY <1>1, WalletPaymentsKnown, ReportsArrive, ConfirmingArrived, LockedKnown DEF ArrivalsOK

-----------------------------------------------------------------------------
(* Each step is a step of Payment, or leaves the payments alone *)

PaymentsRest == UNCHANGED <<payStatus, payOrder, paid, credits>>

LEMMA InsertCharges ==
    ASSUME TypeOK, Known, NEW w \in Workers, NEW p \in Pix, InsertPixCharge(w, p)
    PROVE  PaymentLife!PaymentNext
<1>1. ctx[w].order \in Orders
  BY DEF InsertPixCharge, Known, OrdersOK
<1>2. PaymentLife!Charge(p, ctx[w].order)
  BY DEF InsertPixCharge, Fresh, PaymentLife!Charge, envVars
<1>3. QED
  BY <1>1, <1>2 DEF PaymentLife!PaymentNext

LEMMA PayingArrives ==
    ASSUME NEW p \in Pix, PayPix(p)
    PROVE  PaymentLife!PaymentNext
<1>1. PaymentLife!Arrive(p)
  BY DEF PayPix, PaymentLife!Arrive, dbVars
<1>2. QED
  BY <1>1 DEF PaymentLife!PaymentNext

\* The first webhook job to commit confirms; another one of the same payment changes nothing.
LEMMA CommitConfirms ==
    ASSUME TypeOK, Known, ArrivalsOK, NEW w \in Workers, WebhookCommit(w)
    PROVE  PaymentsRest \/ PaymentLife!PaymentNext
<1> DEFINE p == ctx[w].pay
<1>1. /\ p \in Pix /\ p \in paid /\ payStatus[p] # "NONE"
      /\ ctx[w].payRead = "CONFIRMED" => payStatus[p] = "CONFIRMED"
      /\ found[w] <=> credits[p] > 0
      /\ credits[p] = IF payStatus[p] = "CONFIRMED" THEN 1 ELSE 0
  BY DEF WebhookCommit, Known, HandlersOK, WebhooksOK, EntriesOK, CreditedOnce, ArrivalsOK,
      Confirming, Crediting
<1>2. /\ payStatus' = IF NeedsUpdate(w) THEN [payStatus EXCEPT ![p] = "CONFIRMED"] ELSE payStatus
      /\ credits' = IF found[w] THEN credits ELSE [credits EXCEPT ![p] = @ + 1]
      /\ UNCHANGED <<payOrder, paid>>
  BY DEF WebhookCommit, envVars
<1>3. CASE payStatus[p] = "CONFIRMED"
  BY <1>1, <1>2, <1>3 DEF PaymentsRest, TypeOK
<1>4. CASE payStatus[p] # "CONFIRMED"
  <2>1. ~found[w] /\ NeedsUpdate(w) /\ payStatus[p] \in {"PENDING", "EXPIRED"}
    BY <1>1, <1>4 DEF NeedsUpdate, TypeOK, PaymentStatus
  <2>2. PaymentLife!Confirm(p)
    BY <1>1, <1>2, <2>1 DEF PaymentLife!Confirm
  <2>3. QED
    BY <1>1, <2>2 DEF PaymentLife!PaymentNext
<1>5. QED
  BY <1>3, <1>4

\* The charges a wallet payment expires are those it has locked: pending ones of its order.
LEMMA CommitTransfers ==
    ASSUME TypeOK, Known, ArrivalsOK, NEW w \in Workers, NEW p \in WalletPayments,
           WalletCommit(w, p)
    PROVE  PaymentLife!PaymentNext
<1> DEFINE o == ctx[w].order
           lapsing == {q \in Pix : lock[q] = w}
<1>1. /\ o \in Orders /\ ctx[w].kind = "wallet" /\ payStatus[p] = "NONE" /\ credits[p] = 0
  BY DEF WalletCommit, Fresh, Known, HandlersOK, OrdersOK, CreditedOnce
<1>2. \A q \in Payments : lock[q] = w => payStatus[q] = "PENDING" /\ payOrder[q] = o
  BY <1>1 DEF Known, LocksOK, ArrivalsOK
<1>3. \A q \in Payments : lock[q] = w <=> q \in lapsing
  BY <1>2 DEF ArrivalsOK
<1>4. /\ payStatus' = [q \in Payments |-> IF q = p THEN "CONFIRMED"
                                          ELSE IF lock[q] = w THEN "EXPIRED" ELSE payStatus[q]]
      /\ payOrder' = [payOrder EXCEPT ![p] = o]
      /\ credits' = [credits EXCEPT ![p] = 1]
      /\ UNCHANGED paid
  BY DEF WalletCommit, envVars
<1>5. payStatus' = [q \in DOMAIN payStatus |->
                       IF q = p THEN "CONFIRMED"
                       ELSE IF q \in lapsing THEN "EXPIRED" ELSE payStatus[q]]
  BY <1>3, <1>4 DEF TypeOK
<1>6. credits' = [credits EXCEPT ![p] = @ + 1]
  BY <1>1, <1>4 DEF TypeOK
<1>7. PaymentLife!Transfer(p, o, lapsing)
  BY <1>1, <1>2, <1>4, <1>5, <1>6 DEF PaymentLife!Transfer
<1>8. QED
  BY <1>1, <1>7 DEF PaymentLife!PaymentNext

LEMMA PaymentSteps ==
    ASSUME TypeOK, Known, ArrivalsOK, [Next]_vars
    PROVE  PaymentsRest \/ PaymentLife!PaymentNext
<1>1. ASSUME NEW w \in Workers, Step(w) PROVE PaymentsRest \/ PaymentLife!PaymentNext
  BY <1>1, StepPayments, InsertCharges, CommitConfirms, CommitTransfers DEF PaymentsRest
<1>2. CASE \A w \in Workers : ~Step(w)
  <2>1. UNCHANGED <<payStatus, payOrder, credits>>
    BY <1>2, OutsideKeeps
  <2>2. QED
    BY <2>1, OnlyPayPix, PayingArrives DEF PaymentsRest
<1>3. QED
  BY <1>1, <1>2

\* Whatever webhook jobs, wallet payments and repeated notices do to each other, a payment is
\* confirmed and booked in one step, once, after its money has arrived, and a charge lapses
\* only because another payment of its order takes its place.
THEOREM PaymentIsKept == Spec => PaymentKept
<1>1. Init => ArrivalsOK
  BY ConstantsAssumption DEF Init, ArrivalsOK, Confirming, Crediting
<1>2. IInv /\ ArrivalsOK /\ [Next]_vars => ArrivalsOK'
  BY ArrivalsKnown DEF IInv, Known
<1>3. Init => PaymentLife!PaymentInit
  BY DEF Init, PaymentLife!PaymentInit
<1>4. IInv /\ ArrivalsOK /\ [Next]_vars => [PaymentLife!PaymentNext]_(PaymentLife!paymentVars)
  BY PaymentSteps DEF IInv, Known, PaymentsRest, PaymentLife!paymentVars
<1>5. QED
  BY <1>1, <1>2, <1>3, <1>4, Inductive, PTL DEF Spec, PaymentKept, PaymentLife!PaymentSpec

=============================================================================
