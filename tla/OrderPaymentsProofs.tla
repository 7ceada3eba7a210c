------------------------ MODULE OrderPaymentsProofs ------------------------
(* What TLAPS proves about OrderPayments, for every set of orders, payments,
   webhook bodies and handlers, and any number of faults. *)
EXTENDS OrderPayments, TLAPS

USE DEF Payments, Rows, Events, JobIds, stockVars

-----------------------------------------------------------------------------
(* Types *)

LEMMA CtxType ==
    ASSUME NEW o \in Orders
    PROVE  /\ NoCtx \in Ctx /\ ForOrder(o) \in Ctx
           /\ \A j \in JobIds : ForJob(o, j) \in Ctx
           /\ Serving("wallet", o, None, "NONE", None, None) \in Ctx
BY DEF NoCtx, ForOrder, ForJob, Serving, Ctx, PaymentStatus

LEMMA NoCtxType == NoCtx \in Ctx
BY DEF NoCtx, Serving, Ctx, PaymentStatus

LEMMA JobEndType ==
    ASSUME TypeOK, NEW w \in Workers, NEW outcome \in {"none", "waiting", "failed"}
    PROVE  JobEnd(w, outcome) \in [JobIds -> {"none", "waiting", "failed"} \cup Workers]
BY DEF TypeOK, JobEnd

LEMMA LeaveType ==
    ASSUME TypeOK, NEW w \in Workers, Leave(w)
    PROVE  /\ pc' \in [Workers -> Pcs] /\ ctx' \in [Workers -> Ctx]
           /\ orderRead' \in [Workers -> OrderStatus]
           /\ linked' \in [Workers -> BOOLEAN] /\ found' \in [Workers -> BOOLEAN]
BY NoCtxType DEF TypeOK, Leave, Pcs, OrderStatus

LEMMA BeginType ==
    ASSUME TypeOK, NEW w \in Workers, NEW c \in Ctx, NEW label \in Pcs, Begin(w, c, label)
    PROVE  /\ pc' \in [Workers -> Pcs] /\ ctx' \in [Workers -> Ctx]
           /\ orderRead' \in [Workers -> OrderStatus]
           /\ linked' \in [Workers -> BOOLEAN] /\ found' \in [Workers -> BOOLEAN]
BY DEF TypeOK, Begin

LEMMA GotoType ==
    ASSUME TypeOK, NEW w \in Workers, NEW label \in Pcs, Goto(w, label)
    PROVE  /\ pc' \in [Workers -> Pcs] /\ ctx' \in [Workers -> Ctx]
           /\ orderRead' \in [Workers -> OrderStatus]
           /\ linked' \in [Workers -> BOOLEAN] /\ found' \in [Workers -> BOOLEAN]
BY DEF TypeOK, Goto

LEMMA FinishType ==
    ASSUME TypeOK, NEW w \in Workers, Finish(w)
    PROVE  /\ pc' \in [Workers -> Pcs] /\ ctx' \in [Workers -> Ctx]
           /\ orderRead' \in [Workers -> OrderStatus]
           /\ linked' \in [Workers -> BOOLEAN] /\ found' \in [Workers -> BOOLEAN]
           /\ jobs' \in [JobIds -> {"none", "waiting", "failed"} \cup Workers]
BY LeaveType, JobEndType DEF Finish

LEMMA FinishAddingType ==
    ASSUME TypeOK, NEW w \in Workers, NEW j, FinishAdding(w, j)
    PROVE  /\ pc' \in [Workers -> Pcs] /\ ctx' \in [Workers -> Ctx]
           /\ orderRead' \in [Workers -> OrderStatus]
           /\ linked' \in [Workers -> BOOLEAN] /\ found' \in [Workers -> BOOLEAN]
           /\ jobs' \in [JobIds -> {"none", "waiting", "failed"} \cup Workers]
<1> DEFINE ended == JobEnd(w, "none")
<1>1. ended \in [JobIds -> {"none", "waiting", "failed"} \cup Workers]
  BY JobEndType
<1>2. jobs' = [ended EXCEPT ![j] = IF ended[j] = "none" THEN "waiting" ELSE ended[j]]
  BY DEF FinishAdding
<1> HIDE DEF ended
<1>3. jobs' \in [JobIds -> {"none", "waiting", "failed"} \cup Workers]
  <2>1. CASE ended[j] = "none"
    <3>1. jobs' = [ended EXCEPT ![j] = "waiting"]
      BY <1>2, <2>1
    <3>2. QED
      BY <1>1, <3>1
  <2>2. CASE ended[j] # "none"
    <3>1. jobs' = [ended EXCEPT ![j] = ended[j]]
      BY <1>2, <2>2
    <3>2. QED
      BY <1>1, <3>1
  <2>3. QED
    BY <2>1, <2>2
<1>4. Leave(w)
  BY DEF FinishAdding
<1>5. QED
  BY <1>3, <1>4, LeaveType

\* A step that leaves the database and the outside world alone.
LEMMA QuietType ==
    ASSUME TypeOK, UNCHANGED <<dbVars, envVars>>,
           pc' \in [Workers -> Pcs], ctx' \in [Workers -> Ctx],
           orderRead' \in [Workers -> OrderStatus], linked' \in [Workers -> BOOLEAN],
           found' \in [Workers -> BOOLEAN],
           jobs' \in [JobIds -> {"none", "waiting", "failed"} \cup Workers],
           lock' \in [Rows -> Workers \cup {None}]
    PROVE  TypeOK'
BY DEF TypeOK, dbVars, envVars

LEMMA LocksWithoutType ==
    ASSUME TypeOK, NEW w \in Workers
    PROVE  LocksWithout(w) \in [Rows -> Workers \cup {None}]
BY DEF TypeOK, LocksWithout

LEMMA ThrowType ==
    ASSUME TypeOK, NEW w \in Workers, Throw(w), paid' \subseteq Pix, acked' \subseteq Events,
           faults' \in Nat, cut' \subseteq Owed \X Orders
    PROVE  TypeOK'
BY LeaveType, JobEndType, LocksWithoutType DEF Throw, TypeOK, dbVars

LEMMA CutType ==
    ASSUME TypeOK, OrdersOK, NEW w \in Workers, CutShort(w)
    PROVE  cut' \subseteq Owed \X Orders
<1>1. Owes(w) # {} => ctx[w].order \in Orders
  BY DEF Owes, OrdersOK
<1>2. Owes(w) \subseteq Owed
  BY DEF Owes, Owed
<1>3. QED
  BY <1>1, <1>2 DEF CutShort, TypeOK

\* A status write that goes on to another statement or ends its handler.
LEMMA CommitStatusType ==
    ASSUME TypeOK, NEW w \in Workers, NEW new \in OrderStatus, NEW label \in Pcs,
           CommitStatus(w, new, label), disputes' \subseteq Orders
    PROVE  TypeOK'
<1>1. status' \in [Orders -> OrderStatus]
  BY DEF CommitStatus, WriteStatus, TypeOK
<1>2. /\ pc' \in [Workers -> Pcs] /\ ctx' \in [Workers -> Ctx]
      /\ orderRead' \in [Workers -> OrderStatus]
      /\ linked' \in [Workers -> BOOLEAN] /\ found' \in [Workers -> BOOLEAN]
      /\ jobs' \in [JobIds -> {"none", "waiting", "failed"} \cup Workers]
  BY FinishType, GotoType DEF CommitStatus, TypeOK
<1>3. QED
  BY <1>1, <1>2 DEF CommitStatus, TypeOK, envVars

LEMMA MoveType ==
    ASSUME TypeOK, NEW w \in Workers, NEW new \in OrderStatus, NEW label \in Pcs,
           CommitStatus(w, new, label), UNCHANGED disputes
    PROVE  TypeOK'
<1>1. disputes' \subseteq Orders
  BY DEF TypeOK
<1>2. QED
  BY <1>1, CommitStatusType

\* A request whose guard read holds goes on to its write.
LEMMA BeginWriteType ==
    ASSUME TypeOK, NEW w \in Workers, NEW o \in Orders, NEW label \in Pcs,
           BeginWrite(w, o, label), UNCHANGED jobs
    PROVE  TypeOK'
<1>1. /\ pc' \in [Workers -> Pcs] /\ ctx' \in [Workers -> Ctx]
      /\ orderRead' \in [Workers -> OrderStatus]
      /\ linked' \in [Workers -> BOOLEAN] /\ found' \in [Workers -> BOOLEAN]
  BY BeginType, CtxType DEF BeginWrite
<1>2. QED
  BY <1>1, QuietType DEF BeginWrite, TypeOK

\* A worker takes a job of an order to go on with it, or ends it at its first read.
LEMMA TakeOrDropType ==
    ASSUME TypeOK, NEW w \in Workers, NEW o \in Orders, NEW j \in JobIds, NEW label \in Pcs,
           (TakeJob(w, j) /\ Begin(w, ForJob(o, j), label)) \/ DropJob(w, j),
           UNCHANGED <<dbVars, envVars, lock>>
    PROVE  TypeOK'
<1>1. jobs' \in [JobIds -> {"none", "waiting", "failed"} \cup Workers]
  BY DEF TakeJob, DropJob, TypeOK
<1>2. /\ pc' \in [Workers -> Pcs] /\ ctx' \in [Workers -> Ctx]
      /\ orderRead' \in [Workers -> OrderStatus]
      /\ linked' \in [Workers -> BOOLEAN] /\ found' \in [Workers -> BOOLEAN]
  <2>1. CASE Begin(w, ForJob(o, j), label)
    BY <2>1, BeginType, CtxType
  <2>2. CASE UNCHANGED handlerVars
    BY <2>2 DEF TypeOK, handlerVars
  <2>3. QED
    BY <2>1, <2>2 DEF DropJob
<1>3. lock' \in [Rows -> Workers \cup {None}]
  BY DEF TypeOK
<1>4. QED
  BY <1>1, <1>2, <1>3, QuietType

LEMMA StepType ==
    ASSUME TypeOK, HandlersOK, OrdersOK, WebhooksOK, NEW w \in Workers, Step(w)
    PROVE  TypeOK'
<1> USE DEF Pcs
<1>1. CASE ScheduleOrderExpiration(w)
  BY <1>1, LeaveType, GotoType DEF ScheduleOrderExpiration, TypeOK, WithJob, dbVars, envVars
<1>2. CASE FindPendingCharge(w)
  BY <1>2, LeaveType, GotoType DEF FindPendingCharge, TypeOK, dbVars, envVars
<1>3. CASE \E p \in Pix : InsertPixCharge(w, p)
  BY <1>3, LeaveType DEF InsertPixCharge, TypeOK, PaymentStatus, Ctx, envVars
<1>4. CASE EnqueueProcessing(w)
  BY <1>4, LeaveType DEF EnqueueProcessing, TypeOK, WithJob, dbVars, OrdersOK
<1>5. CASE ApplyReadOrder(w)
  <2>1. CASE Throw(w)
    BY <1>5, <2>1, ThrowType DEF ApplyReadOrder, envVars, TypeOK
  <2>2. CASE ~Throw(w)
    <3>2. status[ctx[w].order] \in OrderStatus
      BY <1>5, <2>2 DEF ApplyReadOrder, Payable, OrderStatus
    <3>3. QED
      BY <1>5, <2>2, <3>2 DEF ApplyReadOrder, AfterApply, TypeOK, dbVars, envVars
  <2>3. QED
    BY <2>1, <2>2
<1>6. CASE ApplyUpdateOrder(w)
  <2>1. lock' \in [Rows -> Workers \cup {None}]
    BY <1>6 DEF ApplyUpdateOrder, TypeOK
  <2>2. QED
    BY <1>6, <2>1, GotoType, QuietType DEF ApplyUpdateOrder, TypeOK, AfterApply
<1>7. CASE UpdatePayment(w)
  <2>1. lock' \in [Rows -> Workers \cup {None}]
    BY <1>7 DEF UpdatePayment, TypeOK
  <2>2. QED
    BY <1>7, <2>1, GotoType, QuietType DEF UpdatePayment, TypeOK
<1>8. CASE FindEntry(w)
  <2>1. pc' \in [Workers -> Pcs] /\ found' \in [Workers -> BOOLEAN]
    BY <1>8 DEF FindEntry, TypeOK
  <2>2. QED
    BY <1>8, <2>1, QuietType DEF FindEntry, TypeOK
<1>9. CASE WebhookCommit(w)
  <2>1. status' \in [Orders -> OrderStatus] /\ payStatus' \in [Payments -> PaymentStatus]
    <3>1. status' \in [Orders -> OrderStatus]
      BY <1>9 DEF WebhookCommit, WriteStatus, TypeOK, OrderStatus
    <3>2. payStatus' \in [Payments -> PaymentStatus]
      BY <1>9 DEF WebhookCommit, TypeOK, PaymentStatus
    <3>3. QED
      BY <3>1, <3>2
  <2>2. balance' \in Int
    BY <1>9 DEF WebhookCommit, TypeOK
  <2>6. credits' \in [Payments -> Nat]
    <3>1. credits' = IF found[w] THEN credits
                     ELSE [credits EXCEPT ![ctx[w].pay] = credits[ctx[w].pay] + 1]
      BY <1>9 DEF WebhookCommit
    <3>2. ctx[w].pay \in Payments
      BY <1>9 DEF WebhookCommit, WebhooksOK, HandlersOK, Confirming, Crediting
    <3>3. QED
      BY <3>1, <3>2 DEF TypeOK
  <2>3. events' \in [Events -> {"absent", "received", "processed"}]
    BY <1>9 DEF WebhookCommit, TypeOK
  <2>4. /\ pc' \in [Workers -> Pcs] /\ ctx' \in [Workers -> Ctx]
        /\ orderRead' \in [Workers -> OrderStatus]
        /\ linked' \in [Workers -> BOOLEAN] /\ found' \in [Workers -> BOOLEAN]
        /\ jobs' \in [JobIds -> {"none", "waiting", "failed"} \cup Workers]
    BY <1>9, FinishType, GotoType DEF WebhookCommit, TypeOK
  <2>5. UNCHANGED <<disputes, stockVars, payOrder, paid, acked, faults, cut>>
        /\ lock' \in [Rows -> Workers \cup {None}]
    BY <1>9, LocksWithoutType DEF WebhookCommit, envVars
  <2>7. QED
    BY <2>1, <2>2, <2>3, <2>4, <2>5, <2>6 DEF TypeOK
<1>10. CASE ExpirePendingPayments(w)
  BY <1>10, GotoType DEF ExpirePendingPayments, TypeOK, dbVars, envVars
<1>11. CASE \E p \in WalletPayments : WalletCommit(w, p)
  <2> PICK p \in WalletPayments : WalletCommit(w, p)
    BY <1>11
  <2>1. status' \in [Orders -> OrderStatus] /\ payStatus' \in [Payments -> PaymentStatus]
    BY DEF WalletCommit, TypeOK, OrderStatus, PaymentStatus
  <2>2. /\ credits' \in [Payments -> Nat] /\ balance' \in Int
        /\ payOrder' \in [Payments -> Orders \cup {None}]
    BY DEF WalletCommit, TypeOK, Ctx
  <2>3. /\ pc' \in [Workers -> Pcs] /\ ctx' \in [Workers -> Ctx]
        /\ orderRead' \in [Workers -> OrderStatus]
        /\ linked' \in [Workers -> BOOLEAN] /\ found' \in [Workers -> BOOLEAN]
        /\ jobs' \in [JobIds -> {"none", "waiting", "failed"} \cup Workers]
    BY FinishType, GotoType DEF WalletCommit, TypeOK
  <2>4. QED
    BY <2>1, <2>2, <2>3, LocksWithoutType DEF WalletCommit, TypeOK, envVars
<1>12. CASE ReserveInventoryForOrder(w)
  <2>1. CASE Throw(w)
    <3>1. cut' \subseteq Owed \X Orders
      BY <1>12, CutType DEF ReserveInventoryForOrder, TypeOK
    <3>2. QED
      BY <1>12, <2>1, <3>1, ThrowType DEF ReserveInventoryForOrder, TypeOK
  <2>2. CASE ~Throw(w)
    <3>1. stock' \in Nat
      BY <1>12, <2>2 DEF ReserveInventoryForOrder, TypeOK
    <3>2. ctx[w].order \in Orders
      BY <1>12 DEF ReserveInventoryForOrder, OrdersOK
    <3>3. reserved' \subseteq Orders
      BY <1>12, <2>2, <3>2 DEF ReserveInventoryForOrder, TypeOK
    <3>4. QED
      BY <1>12, <2>2, <3>1, <3>3, FinishType, GotoType
         DEF ReserveInventoryForOrder, TypeOK
  <2>3. QED
    BY <2>1, <2>2
<1>13. CASE AutoDeliveryRead(w)
  BY <1>13, GotoType DEF AutoDeliveryRead, TypeOK, dbVars, envVars
<1>14. CASE AutoDeliveryWrite(w)
  BY <1>14, GotoType DEF AutoDeliveryWrite, WriteStatus, TypeOK, OrderStatus, envVars
<1>15. CASE ScheduleAutoComplete(w)
  BY <1>15, FinishAddingType DEF ScheduleAutoComplete, TypeOK, dbVars, envVars
<1>16. CASE CancelOrderWrite(w)
  BY <1>16, MoveType DEF CancelOrderWrite, OrderStatus
<1>17. CASE ExpirationWrite(w)
  BY <1>17, MoveType DEF ExpirationWrite, OrderStatus
<1>18. CASE MarkDeliveredWrite(w)
  BY <1>18, MoveType DEF MarkDeliveredWrite, OrderStatus
<1>19. CASE ConfirmReceiptWrite(w)
  BY <1>19, MoveType DEF ConfirmReceiptWrite, OrderStatus
<1>20. CASE AutoCompleteWrite(w)
  BY <1>20, MoveType DEF AutoCompleteWrite, OrderStatus
<1>21. CASE ScheduleSettlementRelease(w)
  BY <1>21, FinishAddingType DEF ScheduleSettlementRelease, TypeOK, dbVars, envVars
<1>22. CASE OpenDisputeWrite(w)
  <2>1. CASE ctx[w].order \in disputes
    BY <1>22, <2>1, ThrowType DEF OpenDisputeWrite, TypeOK, envVars
  <2>2. CASE ctx[w].order \notin disputes
    <3>1. ctx[w].order \in Orders
      BY <1>22 DEF OpenDisputeWrite, OrdersOK
    <3>2. CommitStatus(w, "DISPUTED", "cancelRelease") /\ disputes' \subseteq Orders
      BY <1>22, <2>2, <3>1 DEF OpenDisputeWrite, TypeOK
    <3>3. QED
      BY <3>2, CommitStatusType DEF OrderStatus
  <2>3. QED
    BY <2>1, <2>2
<1>23. CASE CancelRelease(w)
  BY <1>23, LeaveType DEF CancelRelease, TypeOK, dbVars, envVars
<1>24. QED
  BY <1>1, <1>2, <1>3, <1>4, <1>5, <1>6, <1>7, <1>8, <1>9, <1>10, <1>11, <1>12, <1>13, <1>14,
     <1>15, <1>16, <1>17, <1>18, <1>19, <1>20, <1>21, <1>22, <1>23 DEF Step

\* Everything that is not the next statement of a handler in flight.
LEMMA OtherType ==
    ASSUME TypeOK, OrdersOK, [Next]_vars, \A w \in Workers : ~Step(w)
    PROVE  TypeOK'
<1> USE DEF Pcs
<1>1. ASSUME NEW w \in Workers, Request(w) PROVE TypeOK'
  <2> PICK o \in Orders :
        \/ CreateOrder(w, o) \/ CreatePixChargeForOrder(w, o) \/ PayOrderWithBalance(w, o)
        \/ CancelOrderRead(w, o) \/ MarkDeliveredRead(w, o) \/ ConfirmReceiptRead(w, o)
        \/ OpenDisputeRead(w, o)
    BY <1>1 DEF Request
  <2>1. CASE CreateOrder(w, o)
    BY <2>1, BeginType, CtxType DEF CreateOrder, TypeOK, OrderStatus, envVars
  <2>2. CASE CreatePixChargeForOrder(w, o)
    BY <2>2, BeginType, CtxType DEF CreatePixChargeForOrder, TypeOK, dbVars, envVars
  <2>3. CASE PayOrderWithBalance(w, o)
    BY <2>3, BeginType, CtxType DEF PayOrderWithBalance, TypeOK, dbVars, envVars
  <2>4. CASE \/ CancelOrderRead(w, o) \/ MarkDeliveredRead(w, o) \/ ConfirmReceiptRead(w, o)
             \/ OpenDisputeRead(w, o)
    BY <2>4, BeginWriteType
       DEF CancelOrderRead, MarkDeliveredRead, ConfirmReceiptRead, OpenDisputeRead
  <2>5. QED
    BY <2>1, <2>2, <2>3, <2>4
<1>2. ASSUME NEW w \in Workers, Fault(w) PROVE TypeOK'
  <2>1. CASE Crash(w)
    <3>1. jobs' \in [JobIds -> {"none", "waiting", "failed"} \cup Workers]
      <4>1. PICK outcome \in {"waiting", "failed"} : jobs' = JobEnd(w, outcome)
        BY <2>1 DEF Crash
      <4>2. JobEnd(w, outcome) \in [JobIds -> {"none", "waiting", "failed"} \cup Workers]
        BY JobEndType
      <4>3. QED
        BY <4>1, <4>2
    <3>2. /\ pc' \in [Workers -> Pcs] /\ ctx' \in [Workers -> Ctx]
          /\ orderRead' \in [Workers -> OrderStatus]
          /\ linked' \in [Workers -> BOOLEAN] /\ found' \in [Workers -> BOOLEAN]
          /\ lock' \in [Rows -> Workers \cup {None}]
      <4>1. Leave(w) /\ lock' = LocksWithout(w)
        BY <2>1 DEF Crash
      <4>2. QED
        BY <4>1, LeaveType, LocksWithoutType
    <3>3. /\ faults' \in Nat /\ UNCHANGED <<dbVars, paid, acked>>
          /\ cut' \subseteq Owed \X Orders
      BY <2>1, CutType DEF Crash, TypeOK
    <3>4. QED
      BY <3>1, <3>2, <3>3 DEF TypeOK, dbVars
  <2>2. CASE StatementFails(w)
    <3>1. /\ paid' \subseteq Pix /\ acked' \subseteq Events /\ faults' \in Nat
          /\ cut' \subseteq Owed \X Orders
      BY <2>2, CutType DEF StatementFails, TypeOK
    <3>2. CASE Throw(w)
      BY <3>1, <3>2, ThrowType
    <3>3. CASE ~Throw(w)
      BY <2>2, <3>1, <3>3, FinishType DEF StatementFails, TypeOK, dbVars
    <3>4. QED
      BY <3>2, <3>3
  <2>3. CASE DeadlockVictim(w)
    BY <2>3, ThrowType DEF DeadlockVictim, TypeOK, envVars
  <2>4. QED
    BY <1>2, <2>1, <2>2, <2>3 DEF Fault
<1>3. ASSUME NEW w \in Workers, NEW o \in Orders, JobOfOrder(w, o) PROVE TypeOK'
  <2>1. <<"expire", o>> \in JobIds /\ <<"autoComplete", o>> \in JobIds
    OBVIOUS
  <2>2. CASE ExpirationRead(w, o)
    <3>1. \/ /\ TakeJob(w, <<"expire", o>>)
             /\ Begin(w, ForJob(o, <<"expire", o>>), "expireWrite")
          \/ DropJob(w, <<"expire", o>>)
      BY <2>2 DEF ExpirationRead
    <3>2. UNCHANGED <<dbVars, envVars, lock>>
      BY <2>2 DEF ExpirationRead
    <3>3. QED
      BY <2>1, <3>1, <3>2, TakeOrDropType
  <2>3. CASE AutoCompleteRead(w, o)
    <3>1. \/ \E label \in {"autoCompleteWrite", "scheduleRelease"} :
                /\ TakeJob(w, <<"autoComplete", o>>)
                /\ Begin(w, ForJob(o, <<"autoComplete", o>>), label)
          \/ DropJob(w, <<"autoComplete", o>>)
      BY <2>3 DEF AutoCompleteRead
    <3>2. UNCHANGED <<dbVars, envVars, lock>>
      BY <2>3 DEF AutoCompleteRead
    <3>3. QED
      BY <2>1, <3>1, <3>2, TakeOrDropType
  <2>4. QED
    BY <1>3, <2>2, <2>3 DEF JobOfOrder
<1>4. ASSUME NEW w \in Workers, NEW e \in Events, RegisterEfiWebhook(w, e) PROVE TypeOK'
  <2>1. Serving("request", None, None, "NONE", e, None) \in Ctx
    BY DEF Serving, Ctx, PaymentStatus
  <2>2. CASE events[e] = "processed"
    BY <1>4, <2>2 DEF RegisterEfiWebhook, TypeOK, handlerVars
  <2>3. CASE events[e] # "processed"
    <3>1. Begin(w, Serving("request", None, None, "NONE", e, None), "enqueue")
      BY <1>4, <2>3 DEF RegisterEfiWebhook
    <3>2. /\ pc' \in [Workers -> Pcs] /\ ctx' \in [Workers -> Ctx]
          /\ orderRead' \in [Workers -> OrderStatus]
          /\ linked' \in [Workers -> BOOLEAN] /\ found' \in [Workers -> BOOLEAN]
      BY <2>1, <3>1, BeginType
    <3>3. QED
      BY <1>4, <2>3, <3>2 DEF RegisterEfiWebhook, TypeOK
  <2>4. QED
    BY <2>2, <2>3
<1>5. ASSUME NEW w \in Workers, NEW e \in Events, StartWebhook(w, e) PROVE TypeOK'
  <2>1. Serving("webhook", payOrder[e[1]], e[1], payStatus[e[1]], e, <<"efi", e>>) \in Ctx
    BY DEF Serving, Ctx, TypeOK
  <2>2. events' \in [Events -> {"absent", "received", "processed"}]
    BY <1>5 DEF StartWebhook, TypeOK
  <2>3. jobs' \in [JobIds -> {"none", "waiting", "failed"} \cup Workers]
    <3>1. TakeJob(w, <<"efi", e>>) \/ DropJob(w, <<"efi", e>>)
      BY <1>5 DEF StartWebhook
    <3>2. QED
      BY <3>1 DEF TakeJob, DropJob, TypeOK
  <2>4. /\ pc' \in [Workers -> Pcs] /\ ctx' \in [Workers -> Ctx]
        /\ orderRead' \in [Workers -> OrderStatus]
        /\ linked' \in [Workers -> BOOLEAN] /\ found' \in [Workers -> BOOLEAN]
    <3>1. CASE UNCHANGED handlerVars
      BY <3>1 DEF TypeOK, handlerVars
    <3>2. CASE ~UNCHANGED handlerVars
      BY <1>5, <2>1, <3>2, BeginType DEF StartWebhook, DropJob
    <3>3. QED
      BY <3>1, <3>2
  <2>5. UNCHANGED <<status, disputes, stockVars, payOrder, payStatus, credits, balance,
                    paid, acked, faults, cut, lock>>
    BY <1>5 DEF StartWebhook, envVars
  <2>6. QED
    BY <2>2, <2>3, <2>4, <2>5 DEF TypeOK
<1>6. ASSUME NEW p \in Pix, PayPix(p) PROVE TypeOK'
  BY <1>6 DEF PayPix, TypeOK, dbVars, handlerVars
<1>7. ASSUME NEW j \in JobIds, StallJob(j) PROVE TypeOK'
  BY <1>7 DEF StallJob, TypeOK, dbVars, handlerVars
<1>8. CASE EditListing
  <2>1. listed' \in BOOLEAN /\ stock' \in Nat /\ reserved' \subseteq Orders
    <3>1. CASE RemoveInventoryItem
      BY <3>1 DEF RemoveInventoryItem, TypeOK
    <3>2. CASE AddInventoryItem
      BY <3>2 DEF AddInventoryItem, TypeOK
    <3>3. CASE DeleteListing
      BY <3>3 DEF DeleteListing
    <3>4. QED
      BY <1>8, <3>1, <3>2, <3>3 DEF EditListing
  <2>2. UNCHANGED <<status, disputes, payOrder, payStatus, events, credits, balance, envVars,
                    handlerVars, jobs, lock>>
    BY <1>8 DEF EditListing, RemoveInventoryItem, AddInventoryItem, DeleteListing
  <2>3. QED
    BY <2>1, <2>2 DEF TypeOK, envVars, handlerVars
<1>9. CASE UNCHANGED vars
  BY <1>9 DEF TypeOK, vars, dbVars, envVars, handlerVars
<1>10. QED
  BY <1>1, <1>2, <1>3, <1>4, <1>5, <1>6, <1>7, <1>8, <1>9 DEF Next

-----------------------------------------------------------------------------
(* The inductive invariant *)

\* IInv without its type part, which StepType and OtherType take care of.
Known ==
    /\ CreditedOnce /\ ProcessedMeansConfirmed
    /\ HandlersOK /\ OrdersOK /\ WebhooksOK /\ EntriesOK /\ LocksOK

\* No step but the enqueue of a webhook job creates one.
NoNewWebhookJob ==
    \A e \in Events : jobs'[<<"efi", e>>] # "none" => jobs[<<"efi", e>>] # "none"

LEMMA JobEndAddsNone ==
    ASSUME TypeOK, NEW w \in Workers, NEW outcome, jobs' = JobEnd(w, outcome)
    PROVE  NoNewWebhookJob
BY ConstantsAssumption DEF JobEnd, NoNewWebhookJob, TypeOK

LEMMA FinishAddingAddsNone ==
    ASSUME TypeOK, NEW w \in Workers, NEW kind \in {"autoComplete", "release"},
           NEW o, FinishAdding(w, <<kind, o>>)
    PROVE  NoNewWebhookJob
<1> DEFINE ended == JobEnd(w, "none")
<1>1. \A e \in Events : ended[<<"efi", e>>] # "none" => jobs[<<"efi", e>>] # "none"
  BY ConstantsAssumption DEF JobEnd, TypeOK
<1>2. \A e \in Events : jobs'[<<"efi", e>>] = ended[<<"efi", e>>]
  BY JobEndType DEF FinishAdding
<1>3. QED
  BY <1>1, <1>2 DEF NoNewWebhookJob

\* A step of a handler outside the confirming transactions that touches no payment.
LEMMA Quiet ==
    ASSUME TypeOK, TypeOK', Known, NEW w \in Workers,
           UNCHANGED <<payStatus, payOrder, credits, events, paid, lock>>,
           NoNewWebhookJob,
           \A v \in Workers \ {w} : pc'[v] = pc[v] /\ ctx'[v] = ctx[v] /\ found'[v] = found[v],
           pc[w] \notin Confirming \cup {"walletCommit"},
           pc'[w] \notin Confirming \cup {"enqueue", "walletCommit"},
           pc'[w] # "idle" => ctx'[w].order \in Orders,
           pc'[w] = "expirePending" => ctx'[w].kind = "wallet"
    PROVE  Known'
<1> USE DEF Known
<1>1. CreditedOnce' /\ ProcessedMeansConfirmed'
  BY DEF CreditedOnce, ProcessedMeansConfirmed
<1>2. HandlersOK'
  BY DEF HandlersOK, Confirming, Crediting
<1>3. OrdersOK'
  BY DEF OrdersOK, NoNewWebhookJob
<1>4. WebhooksOK'
  BY DEF WebhooksOK
<1>5. EntriesOK'
  BY DEF EntriesOK, NeedsUpdate, Confirming, Crediting
<1>6. LocksOK'
  BY DEF LocksOK
<1>7. QED
  BY <1>1, <1>2, <1>3, <1>4, <1>5, <1>6

\* A handler that ends, its transaction rolled back or read-only.
LEMMA Ended ==
    ASSUME TypeOK, TypeOK', Known, NEW w \in Workers, Leave(w), lock' = LocksWithout(w),
           UNCHANGED <<payStatus, payOrder, credits, events, paid>>, NoNewWebhookJob
    PROVE  Known'
<1> USE DEF Known, TypeOK
<1>1. /\ pc'[w] = "idle"
      /\ \A v \in Workers \ {w} : pc'[v] = pc[v] /\ ctx'[v] = ctx[v] /\ found'[v] = found[v]
  BY DEF Leave
<1>2. \A r \in Rows, v \in Workers : lock'[r] = v <=> lock[r] = v /\ v # w
  BY ConstantsAssumption DEF LocksWithout
<1>3. CreditedOnce' /\ ProcessedMeansConfirmed'
  BY DEF CreditedOnce, ProcessedMeansConfirmed
<1>4. HandlersOK'
  BY <1>1 DEF HandlersOK, Confirming, Crediting
<1>5. OrdersOK'
  BY <1>1 DEF OrdersOK, NoNewWebhookJob
<1>6. WebhooksOK'
  BY <1>1 DEF WebhooksOK, Confirming, Crediting
<1>7. EntriesOK'
  <2>1. SUFFICES ASSUME NEW v \in Workers, v # w,
                        pc[v] \in {"findEntry", "webhookCommit"}
                 PROVE  /\ NeedsUpdate(v) => lock'[ctx[v].pay] = v
                        /\ pc[v] = "webhookCommit" => (found[v] <=> credits[ctx[v].pay] > 0)
    BY <1>1 DEF EntriesOK, NeedsUpdate
  <2>2. ctx[v].pay \in Rows
    BY <2>1 DEF WebhooksOK, HandlersOK, Confirming, Crediting
  <2>3. QED
    BY <1>2, <2>1, <2>2 DEF EntriesOK
<1>8. LocksOK'
  BY <1>1, <1>2 DEF LocksOK
<1>9. QED
  BY <1>3, <1>4, <1>5, <1>6, <1>7, <1>8

LEMMA RegisterKnown ==
    ASSUME TypeOK, TypeOK', Known, NEW w \in Workers, NEW e \in Events, RegisterEfiWebhook(w, e)
    PROVE  Known'
<1> USE DEF Known
<1>1. CASE events[e] = "processed"
  BY <1>1 DEF RegisterEfiWebhook, handlerVars, CreditedOnce, ProcessedMeansConfirmed, HandlersOK,
              OrdersOK, WebhooksOK, EntriesOK, NeedsUpdate, LocksOK
<1>2. CASE events[e] # "processed"
  <2>1. /\ events' = [events EXCEPT ![e] = "received"] /\ pc[w] = "idle"
        /\ UNCHANGED <<payStatus, payOrder, credits, paid, jobs, lock, found>>
    BY <1>2 DEF RegisterEfiWebhook, Begin
  <2>7. payStatus[e[1]] # "NONE"
    BY DEF RegisterEfiWebhook, OrdersOK
  <2>2. /\ pc'[w] = "enqueue" /\ ctx'[w].event = e
        /\ \A v \in Workers \ {w} : pc'[v] = pc[v] /\ ctx'[v] = ctx[v]
    BY <1>2 DEF RegisterEfiWebhook, Begin, TypeOK, Serving
  <2>3. CreditedOnce' /\ ProcessedMeansConfirmed'
    BY <2>1 DEF CreditedOnce, ProcessedMeansConfirmed, TypeOK
  <2>4. HandlersOK' /\ OrdersOK'
    BY <2>1, <2>2, <2>7 DEF HandlersOK, OrdersOK, Confirming, Crediting, TypeOK
  <2>5. WebhooksOK' /\ EntriesOK' /\ LocksOK'
    BY <2>1, <2>2 DEF WebhooksOK, EntriesOK, LocksOK, NeedsUpdate, Confirming, Crediting
  <2>6. QED
    BY <2>3, <2>4, <2>5
<1>3. QED
  BY <1>1, <1>2

LEMMA StartKnown ==
    ASSUME TypeOK, TypeOK', Known, NEW w \in Workers, NEW e \in Events, StartWebhook(w, e)
    PROVE  Known'
<1> USE DEF Known
<1>1. /\ pc[w] = "idle" /\ jobs[<<"efi", e>>] = "waiting" /\ <<"efi", e>> \in JobIds
      /\ UNCHANGED <<payStatus, payOrder, credits, paid, lock>>
  BY DEF StartWebhook, DropJob, TakeJob, envVars
<1>2. events[e] # "absent" /\ payStatus[e[1]] # "NONE" /\ payOrder[e[1]] \in Orders
  BY <1>1 DEF OrdersOK
<1>3. CASE events[e] = "processed" \/ e[2] \in Notices
  <2>1. /\ events' = [events EXCEPT ![e] = "processed"]
        /\ jobs' = [jobs EXCEPT ![<<"efi", e>>] = "none"] /\ UNCHANGED handlerVars
    BY <1>3 DEF StartWebhook, DropJob
  <2>2. ProcessedMeansConfirmed' /\ CreditedOnce'
    BY <1>1, <1>3, <2>1 DEF ProcessedMeansConfirmed, CreditedOnce, TypeOK
  <2>3. OrdersOK'
    BY <1>1, <2>1 DEF OrdersOK, TypeOK, handlerVars
  <2>4. HandlersOK' /\ WebhooksOK' /\ EntriesOK' /\ LocksOK'
    BY <1>1, <2>1 DEF HandlersOK, WebhooksOK, EntriesOK, LocksOK, NeedsUpdate, handlerVars
  <2>5. QED
    BY <2>2, <2>3, <2>4
<1>4. CASE ~(events[e] = "processed" \/ e[2] \in Notices)
  <2>1. /\ UNCHANGED <<events, found>> /\ jobs' = [jobs EXCEPT ![<<"efi", e>>] = w]
        /\ pc' = [pc EXCEPT ![w] = "applyRead"]
        /\ ctx' = [ctx EXCEPT ![w] = Serving("webhook", payOrder[e[1]], e[1], payStatus[e[1]],
                                            e, <<"efi", e>>)]
    BY <1>4 DEF StartWebhook, TakeJob, Begin
  <2>2. /\ pc'[w] = "applyRead" /\ ctx'[w].kind = "webhook" /\ ctx'[w].order = payOrder[e[1]]
        /\ ctx'[w].pay = e[1] /\ ctx'[w].event = e /\ ctx'[w].payRead = payStatus[e[1]]
        /\ \A v \in Workers \ {w} : pc'[v] = pc[v] /\ ctx'[v] = ctx[v]
    BY <2>1 DEF Serving, TypeOK
  <2>3. CreditedOnce' /\ ProcessedMeansConfirmed'
    BY <1>1, <2>1 DEF CreditedOnce, ProcessedMeansConfirmed
  <2>4. OrdersOK'
    BY <1>1, <1>2, <2>1, <2>2 DEF OrdersOK, TypeOK
  <2>5. HandlersOK' /\ WebhooksOK'
    <3>1. HandlersOK'
      BY <2>1, <2>2 DEF HandlersOK, Confirming, Crediting
    <3>2. e[1] \in Pix /\ e \in Events
      OBVIOUS
    <3>3. WebhooksOK'
      BY <1>1, <1>2, <2>2, <3>2 DEF WebhooksOK
    <3>4. QED
      BY <3>1, <3>3
  <2>6. EntriesOK' /\ LocksOK'
    BY <1>1, <2>1, <2>2 DEF EntriesOK, LocksOK, NeedsUpdate, Confirming, Crediting
  <2>7. QED
    BY <2>3, <2>4, <2>5, <2>6
<1>5. QED
  BY <1>3, <1>4

\* A confirming transaction goes on to its next statement without a write or a lock.
LEMMA ApplyReadKnown ==
    ASSUME TypeOK, TypeOK', Known, NEW w \in Workers, ApplyReadOrder(w), ~Throw(w)
    PROVE  Known'
<1> USE DEF Known
<1>1. /\ pc[w] = "applyRead"
      /\ pc'[w] \in {"applyUpdate", AfterApply(w)}
      /\ \A v \in Workers \ {w} : pc'[v] = pc[v]
      /\ UNCHANGED <<payStatus, payOrder, credits, events, paid, jobs, lock, ctx, found>>
  BY DEF ApplyReadOrder, dbVars, envVars, TypeOK
<1>2. CreditedOnce' /\ ProcessedMeansConfirmed'
  BY <1>1 DEF CreditedOnce, ProcessedMeansConfirmed
<1>3. HandlersOK' /\ OrdersOK'
  BY <1>1 DEF HandlersOK, OrdersOK, AfterApply, Confirming, Crediting
<1>4. WebhooksOK'
  BY <1>1 DEF WebhooksOK, HandlersOK, AfterApply, Confirming, Crediting
<1>5. EntriesOK' /\ LocksOK'
  BY <1>1 DEF EntriesOK, LocksOK, NeedsUpdate, AfterApply, Confirming, Crediting
<1>6. QED
  BY <1>2, <1>3, <1>4, <1>5

LEMMA ApplyUpdateKnown ==
    ASSUME TypeOK, TypeOK', Known, NEW w \in Workers, ApplyUpdateOrder(w)
    PROVE  Known'
<1> USE DEF Known
<1>1. /\ pc[w] = "applyUpdate" /\ pc'[w] = AfterApply(w) /\ ctx[w].order \in Orders
      /\ \A v \in Workers \ {w} : pc'[v] = pc[v]
      /\ \A p \in Payments : lock'[p] = lock[p]
      /\ \A r \in Rows, v \in Workers \ {w} : lock'[r] = v => lock[r] = v
      /\ UNCHANGED <<payStatus, payOrder, credits, events, paid, jobs, ctx, found>>
  BY ConstantsAssumption DEF ApplyUpdateOrder, Goto, OrdersOK, dbVars, envVars, TypeOK
<1>2. CreditedOnce' /\ ProcessedMeansConfirmed'
  BY <1>1 DEF CreditedOnce, ProcessedMeansConfirmed
<1>3. HandlersOK' /\ OrdersOK' /\ WebhooksOK'
  BY <1>1 DEF HandlersOK, OrdersOK, WebhooksOK, AfterApply, Confirming, Crediting
<1>4. EntriesOK'
  BY <1>1 DEF EntriesOK, WebhooksOK, HandlersOK, NeedsUpdate, AfterApply, Confirming, Crediting
<1>5. LocksOK'
  BY <1>1 DEF LocksOK, AfterApply, Confirming, Crediting
<1>6. QED
  BY <1>2, <1>3, <1>4, <1>5

LEMMA UpdatePaymentKnown ==
    ASSUME TypeOK, TypeOK', Known, NEW w \in Workers, UpdatePayment(w)
    PROVE  Known'
<1> USE DEF Known
<1>1. /\ pc[w] = "updatePayment" /\ pc'[w] = "findEntry"
      /\ \A v \in Workers \ {w} : pc'[v] = pc[v]
      /\ UNCHANGED <<payStatus, payOrder, credits, events, paid, jobs, ctx, found>>
  BY DEF UpdatePayment, Goto, dbVars, envVars, TypeOK
<1>2. ctx[w].kind = "webhook" /\ ctx[w].pay \in Pix
  BY <1>1 DEF HandlersOK, WebhooksOK, Confirming, Crediting
<1>3. /\ NeedsUpdate(w) => lock'[ctx[w].pay] = w
      /\ \A r \in Rows, v \in Workers \ {w} : lock'[r] = v <=> lock[r] = v
  <2>1. CASE NeedsUpdate(w)
    BY <1>2, <2>1, ConstantsAssumption DEF UpdatePayment, Free, TypeOK
  <2>2. CASE ~NeedsUpdate(w)
    BY <2>2 DEF UpdatePayment
  <2>3. QED
    BY <2>1, <2>2
<1>4. CreditedOnce' /\ ProcessedMeansConfirmed'
  BY <1>1 DEF CreditedOnce, ProcessedMeansConfirmed
<1>5. HandlersOK' /\ OrdersOK' /\ WebhooksOK'
  BY <1>1, <1>2 DEF HandlersOK, OrdersOK, WebhooksOK, Confirming, Crediting
<1>6. EntriesOK'
  BY <1>1, <1>3 DEF EntriesOK, WebhooksOK, HandlersOK, NeedsUpdate, Confirming, Crediting
<1>7. LocksOK'
  BY <1>1, <1>2, <1>3 DEF LocksOK, Confirming, Crediting
<1>8. QED
  BY <1>4, <1>5, <1>6, <1>7

LEMMA FindEntryKnown ==
    ASSUME TypeOK, TypeOK', Known, NEW w \in Workers, FindEntry(w)
    PROVE  Known'
<1> USE DEF Known
<1>1. /\ pc[w] = "findEntry" /\ pc'[w] = "webhookCommit"
      /\ found'[w] = (credits[ctx[w].pay] > 0)
      /\ \A v \in Workers \ {w} : pc'[v] = pc[v] /\ found'[v] = found[v]
      /\ UNCHANGED <<payStatus, payOrder, credits, events, paid, jobs, ctx, lock>>
  BY DEF FindEntry, dbVars, envVars, TypeOK
<1>2. CreditedOnce' /\ ProcessedMeansConfirmed'
  BY <1>1 DEF CreditedOnce, ProcessedMeansConfirmed
<1>3. HandlersOK' /\ OrdersOK' /\ WebhooksOK'
  BY <1>1 DEF HandlersOK, OrdersOK, WebhooksOK, Confirming, Crediting
<1>4. EntriesOK'
  BY <1>1 DEF EntriesOK, NeedsUpdate
<1>5. LocksOK'
  BY <1>1 DEF LocksOK, Confirming, Crediting
<1>6. QED
  BY <1>2, <1>3, <1>4, <1>5

\* The end of a confirming transaction: its handler goes on without locks to the side
\* effects of the payment, or ends.
Committed(w) ==
    /\ pc'[w] \in {"idle", "reserve"}
    /\ pc'[w] = "reserve" => ctx'[w] = ctx[w]
    /\ \A v \in Workers \ {w} : pc'[v] = pc[v] /\ ctx'[v] = ctx[v] /\ found'[v] = found[v]
    /\ \A r \in Rows, v \in Workers : lock'[r] = v <=> lock[r] = v /\ v # w
    /\ NoNewWebhookJob

LEMMA CommittedFacts ==
    ASSUME TypeOK, NEW w \in Workers, lock' = LocksWithout(w),
           IF Applied(w) THEN Goto(w, "reserve") /\ UNCHANGED jobs ELSE Finish(w)
    PROVE  Committed(w)
<1>1. \A r \in Rows, v \in Workers : lock'[r] = v <=> lock[r] = v /\ v # w
  BY ConstantsAssumption DEF LocksWithout, TypeOK
<1>2. NoNewWebhookJob
  BY JobEndAddsNone DEF Finish, NoNewWebhookJob
<1>3. QED
  BY <1>1, <1>2 DEF Committed, Goto, Finish, Leave, TypeOK

LEMMA WebhookCommitKnown ==
    ASSUME TypeOK, TypeOK', Known, NEW w \in Workers, WebhookCommit(w)
    PROVE  Known'
<1> USE DEF Known
<1> DEFINE p == ctx[w].pay
           e == ctx[w].event
<1>1. Committed(w)
  BY CommittedFacts DEF WebhookCommit
<1>2. /\ pc[w] = "webhookCommit" /\ ctx[w].kind = "webhook" /\ ctx[w].order \in Orders
      /\ p \in Pix /\ e \in Events /\ e[1] = p
  BY DEF WebhookCommit, HandlersOK, OrdersOK, WebhooksOK, Confirming, Crediting
<1>3. /\ payStatus' = IF NeedsUpdate(w) THEN [payStatus EXCEPT ![p] = "CONFIRMED"] ELSE payStatus
      /\ credits' = IF found[w] THEN credits ELSE [credits EXCEPT ![p] = credits[p] + 1]
      /\ events' = [events EXCEPT ![e] = "processed"]
      /\ UNCHANGED <<payOrder, paid>>
  BY DEF WebhookCommit, envVars
<1>4. /\ NeedsUpdate(w) => lock[p] = w
      /\ ~NeedsUpdate(w) => payStatus[p] = "CONFIRMED"
      /\ found[w] <=> credits[p] > 0
  BY <1>2 DEF EntriesOK, WebhooksOK, NeedsUpdate, Confirming, Crediting
<1>5. /\ payStatus'[p] = "CONFIRMED" /\ credits'[p] = 1
      /\ \A q \in Payments \ {p} : payStatus'[q] = payStatus[q] /\ credits'[q] = credits[q]
  BY <1>2, <1>3, <1>4 DEF CreditedOnce, TypeOK
<1>6. /\ events'[e] = "processed"
      /\ \A f \in Events \ {e} : events'[f] = events[f]
  BY <1>2, <1>3 DEF TypeOK
<1> HIDE DEF p, e
<1>7. CreditedOnce' /\ ProcessedMeansConfirmed'
  BY <1>2, <1>5, <1>6 DEF CreditedOnce, ProcessedMeansConfirmed
<1>8. HandlersOK'
  BY <1>1 DEF Committed, HandlersOK, Confirming, Crediting
<1>9. OrdersOK'
  <2>1. /\ \A q \in Payments : payStatus'[q] # "NONE" => payOrder'[q] \in Orders
        /\ \A q \in paid' : payStatus'[q] # "NONE"
    <3>1. payStatus[p] # "NONE"
      BY <1>2 DEF WebhooksOK, Confirming, Crediting, p
    <3>2. QED
      BY <1>2, <1>3, <1>5, <3>1 DEF OrdersOK, TypeOK
  <2>2. \A f \in Events :
          /\ events[f] # "absent" => events'[f] # "absent"
          /\ events'[f] # "absent" => payStatus'[f[1]] # "NONE"
    <3>1. ASSUME NEW f \in Events, events[f] # "absent"
          PROVE  events'[f] # "absent" /\ payStatus'[f[1]] # "NONE"
      <4>1. payStatus[f[1]] # "NONE" /\ f[1] \in Payments
        BY <3>1 DEF OrdersOK
      <4>2. QED
        BY <1>5, <1>6, <3>1, <4>1
    <3>2. ASSUME NEW f \in Events, f # e, events'[f] # "absent" PROVE payStatus'[f[1]] # "NONE"
      BY <1>6, <3>1, <3>2
    <3>3. payStatus'[e[1]] # "NONE"
      BY <1>2, <1>5
    <3>4. QED
      BY <3>1, <3>2, <3>3
  <2>3. QED
    BY <1>1, <1>2, <2>1, <2>2 DEF OrdersOK, Committed, NoNewWebhookJob
<1>10. WebhooksOK'
  BY <1>1, <1>5 DEF Committed, WebhooksOK, HandlersOK, Confirming, Crediting
<1>11. EntriesOK'
  <2> SUFFICES ASSUME NEW v \in Workers, v # w, pc[v] \in {"findEntry", "webhookCommit"}
               PROVE  /\ NeedsUpdate(v) => lock'[ctx[v].pay] = v
                      /\ pc[v] = "webhookCommit" => (found[v] <=> credits'[ctx[v].pay] > 0)
    BY <1>1 DEF EntriesOK, NeedsUpdate, Committed
  <2>1. ctx[v].pay \in Pix
    BY DEF WebhooksOK, HandlersOK, Confirming, Crediting
  <2>2. NeedsUpdate(v) => lock'[ctx[v].pay] = v
    BY <1>1, <2>1 DEF EntriesOK, Committed
  <2>3. CASE ctx[v].pay # p
    BY <1>5, <2>1, <2>2, <2>3 DEF EntriesOK
  <2>4. CASE ctx[v].pay = p
    <3>1. credits[p] = credits'[p]
      <4>1. CASE NeedsUpdate(v)
        BY <1>1, <1>2, <1>4, <1>5, <2>1, <2>4, <4>1
           DEF EntriesOK, WebhooksOK, CreditedOnce, NeedsUpdate, Confirming, Crediting, HandlersOK, p
      <4>2. CASE ~NeedsUpdate(v)
        BY <1>2, <1>5, <2>1, <2>4, <4>2
           DEF WebhooksOK, CreditedOnce, NeedsUpdate, Confirming, Crediting, HandlersOK, p
      <4>3. QED
        BY <4>1, <4>2
    <3>2. QED
      BY <2>2, <2>4, <3>1 DEF EntriesOK
  <2>5. QED
    BY <2>3, <2>4
<1>12. LocksOK'
  <2> SUFFICES ASSUME NEW v \in Workers, v # w
               PROVE  /\ \A r \in Rows : lock[r] = v
                                          => pc[v] \in Confirming \cup {"walletCommit"}
                      /\ \A q \in Payments : lock[q] = v /\ ctx[v].kind = "wallet"
                                              => payStatus'[q] = "PENDING"
    BY <1>1 DEF LocksOK, Committed
  <2>1. \A q \in Payments : lock[q] = v /\ ctx[v].kind = "wallet" => q # p
    BY <1>2, <1>4 DEF LocksOK, p
  <2>2. QED
    BY <1>5, <2>1 DEF LocksOK
<1>13. QED
  BY <1>7, <1>8, <1>9, <1>10, <1>11, <1>12

LEMMA ExpirePendingKnown ==
    ASSUME TypeOK, TypeOK', Known, NEW w \in Workers, ExpirePendingPayments(w)
    PROVE  Known'
<1> USE DEF Known
<1>1. /\ pc[w] = "expirePending" /\ pc'[w] = "applyRead" /\ ctx[w].kind = "wallet"
      /\ \A v \in Workers \ {w} : pc'[v] = pc[v]
      /\ UNCHANGED <<payStatus, payOrder, credits, events, paid, jobs, ctx, found>>
  BY DEF ExpirePendingPayments, Goto, HandlersOK, dbVars, envVars, TypeOK
<1>2. /\ \A r \in Rows, v \in Workers \ {w} : lock'[r] = v <=> lock[r] = v
      /\ \A r \in Rows : lock'[r] = w => r \in PendingOf(ctx[w].order)
  <2>1. \A r \in Rows : lock'[r] = IF r \in PendingOf(ctx[w].order) THEN w ELSE lock[r]
    BY DEF ExpirePendingPayments
  <2>2. \A r \in Rows : lock[r] # w
    BY <1>1 DEF LocksOK, Confirming, Crediting
  <2>3. \A p \in PendingOf(ctx[w].order) : lock[p] \in {None, w}
    BY DEF ExpirePendingPayments, Free
  <2>4. QED
    BY <2>1, <2>2, <2>3, ConstantsAssumption
<1>3. CreditedOnce' /\ ProcessedMeansConfirmed'
  BY <1>1 DEF CreditedOnce, ProcessedMeansConfirmed
<1>4. HandlersOK' /\ OrdersOK' /\ WebhooksOK'
  BY <1>1 DEF HandlersOK, OrdersOK, WebhooksOK, Confirming, Crediting
<1>5. EntriesOK'
  BY <1>1, <1>2 DEF EntriesOK, WebhooksOK, HandlersOK, NeedsUpdate, Confirming, Crediting
<1>6. LocksOK'
  BY <1>1, <1>2 DEF LocksOK, PendingOf, Confirming, Crediting
<1>7. QED
  BY <1>3, <1>4, <1>5, <1>6

LEMMA WalletCommitKnown ==
    ASSUME TypeOK, TypeOK', Known, NEW w \in Workers, NEW p \in WalletPayments,
           WalletCommit(w, p)
    PROVE  Known'
<1> USE DEF Known
<1>1. Committed(w)
  BY CommittedFacts DEF WalletCommit
<1>2. /\ pc[w] = "walletCommit" /\ ctx[w].kind = "wallet" /\ ctx[w].order \in Orders
      /\ payStatus[p] = "NONE" /\ p \notin Pix
      /\ \A q \in Payments : lock[q] = w => payStatus[q] = "PENDING"
  BY ConstantsAssumption DEF WalletCommit, Fresh, HandlersOK, OrdersOK, LocksOK
<1>3. /\ payStatus'[p] = "CONFIRMED" /\ credits'[p] = 1 /\ payOrder'[p] \in Orders
      /\ \A q \in Payments \ {p} :
           /\ payStatus'[q] = IF lock[q] = w THEN "EXPIRED" ELSE payStatus[q]
           /\ credits'[q] = credits[q] /\ payOrder'[q] = payOrder[q]
      /\ UNCHANGED <<events, paid>>
  BY <1>2 DEF WalletCommit, envVars, TypeOK
<1>4. \A q \in Payments : /\ payStatus'[q] = "NONE" => payStatus[q] = "NONE"
                          /\ payStatus[q] = "CONFIRMED" => payStatus'[q] = "CONFIRMED"
  BY <1>2, <1>3
<1>5. CreditedOnce'
  BY <1>2, <1>3 DEF CreditedOnce
<1>6. ProcessedMeansConfirmed'
  BY <1>3, <1>4 DEF ProcessedMeansConfirmed
<1>7. HandlersOK'
  BY <1>1 DEF Committed, HandlersOK, Confirming, Crediting
<1>8. OrdersOK'
  <2>1. \A q \in Payments : payStatus'[q] # "NONE" => payOrder'[q] \in Orders
    BY <1>2, <1>3 DEF OrdersOK
  <2>2. \A e \in Events : payStatus[e[1]] # "NONE" => payStatus'[e[1]] # "NONE"
    BY <1>4
  <2>3. \A q \in paid' : payStatus'[q] # "NONE"
    BY <1>3, <1>4 DEF OrdersOK, TypeOK
  <2>4. \A e \in Events : /\ events'[e] # "absent" => payStatus'[e[1]] # "NONE"
                          /\ jobs'[<<"efi", e>>] # "none" => events'[e] # "absent"
    BY <1>1, <1>3, <2>2 DEF OrdersOK, Committed, NoNewWebhookJob
  <2>5. \A v \in Workers :
          /\ pc'[v] = "enqueue" => ctx'[v].event \in Events /\ events'[ctx'[v].event] # "absent"
          /\ pc'[v] \notin {"idle", "enqueue"} => ctx'[v].order \in Orders
    BY <1>1, <1>2, <1>3 DEF OrdersOK, Committed
  <2>6. QED
    BY <2>1, <2>3, <2>4, <2>5 DEF OrdersOK
<1>9. WebhooksOK'
  BY <1>1, <1>4 DEF Committed, WebhooksOK, HandlersOK, Confirming, Crediting
<1>10. EntriesOK'
  <2> SUFFICES ASSUME NEW v \in Workers, v # w, pc[v] \in {"findEntry", "webhookCommit"}
               PROVE  /\ NeedsUpdate(v) => lock'[ctx[v].pay] = v
                      /\ pc[v] = "webhookCommit" => (found[v] <=> credits'[ctx[v].pay] > 0)
    BY <1>1 DEF EntriesOK, NeedsUpdate, Committed
  <2>1. ctx[v].pay \in Pix
    BY DEF WebhooksOK, HandlersOK, Confirming, Crediting
  <2>2. QED
    BY <1>1, <1>2, <1>3, <2>1 DEF EntriesOK, Committed
<1>11. LocksOK'
  BY <1>1, <1>2, <1>3 DEF LocksOK, Committed, Confirming, Crediting
<1>12. QED
  BY <1>5, <1>6, <1>7, <1>8, <1>9, <1>10, <1>11

LEMMA InsertPixKnown ==
    ASSUME TypeOK, TypeOK', Known, NEW w \in Workers, NEW p \in Pix, InsertPixCharge(w, p)
    PROVE  Known'
<1> USE DEF Known
<1>1. /\ pc[w] = "insertPix" /\ ctx[w].order \in Orders /\ payStatus[p] = "NONE"
      /\ pc'[w] = "idle" /\ payStatus'[p] = "PENDING" /\ payOrder'[p] = ctx[w].order
      /\ \A q \in Payments \ {p} : payStatus'[q] = payStatus[q] /\ payOrder'[q] = payOrder[q]
      /\ \A v \in Workers \ {w} : pc'[v] = pc[v] /\ ctx'[v] = ctx[v] /\ found'[v] = found[v]
      /\ UNCHANGED <<credits, events, paid, jobs, lock>>
  BY DEF InsertPixCharge, Fresh, Leave, OrdersOK, envVars, TypeOK
<1>2. CreditedOnce' /\ ProcessedMeansConfirmed'
  BY <1>1 DEF CreditedOnce, ProcessedMeansConfirmed
<1>3. HandlersOK' /\ OrdersOK'
  <2>1. HandlersOK'
    BY <1>1 DEF HandlersOK, Confirming, Crediting
  <2>2. \A q \in Payments : /\ payStatus'[q] # "NONE" => payOrder'[q] \in Orders
                            /\ payStatus[q] # "NONE" => payStatus'[q] # "NONE"
    BY <1>1 DEF OrdersOK
  <2>3. QED
    BY <1>1, <2>1, <2>2 DEF OrdersOK, TypeOK
<1>4. WebhooksOK'
  BY <1>1 DEF WebhooksOK, Confirming, Crediting
<1>5. EntriesOK'
  BY <1>1 DEF EntriesOK, NeedsUpdate
<1>6. LocksOK'
  BY <1>1 DEF LocksOK, Confirming, Crediting
<1>7. QED
  BY <1>2, <1>3, <1>4, <1>5, <1>6

LEMMA ThrowKnown ==
    ASSUME TypeOK, TypeOK', Known, NEW w \in Workers, Throw(w), UNCHANGED paid
    PROVE  Known'
BY Ended, JobEndAddsNone DEF Throw, dbVars

LEMMA EnqueueKnown ==
    ASSUME TypeOK, TypeOK', Known, NEW w \in Workers, EnqueueProcessing(w)
    PROVE  Known'
<1> USE DEF Known
<1>1. /\ pc[w] = "enqueue" /\ ctx[w].event \in Events /\ events[ctx[w].event] # "absent"
      /\ pc'[w] = "idle" /\ jobs' = WithJob(<<"efi", ctx[w].event>>)
      /\ \A v \in Workers \ {w} : pc'[v] = pc[v] /\ ctx'[v] = ctx[v] /\ found'[v] = found[v]
      /\ UNCHANGED <<payStatus, payOrder, credits, events, paid, lock>>
  BY DEF EnqueueProcessing, Leave, OrdersOK, dbVars, TypeOK
<1>2. CreditedOnce' /\ ProcessedMeansConfirmed' /\ HandlersOK'
  BY <1>1 DEF CreditedOnce, ProcessedMeansConfirmed, HandlersOK, Confirming, Crediting
<1>3. OrdersOK'
  <2>1. \A e \in Events : jobs'[<<"efi", e>>] # "none" => events[e] # "absent"
    BY <1>1 DEF WithJob, OrdersOK, TypeOK
  <2>2. QED
    BY <1>1, <2>1 DEF OrdersOK
<1>4. WebhooksOK' /\ EntriesOK' /\ LocksOK'
  BY <1>1 DEF WebhooksOK, EntriesOK, LocksOK, NeedsUpdate, Confirming, Crediting
<1>5. QED
  BY <1>2, <1>3, <1>4

\* The statements outside the confirming transactions, each a case of Quiet.
LEMMA CommitStatusKnown ==
    ASSUME TypeOK, TypeOK', Known, NEW w \in Workers, NEW new,
           NEW label \in {"idle", "scheduleRelease", "scheduleAutoComplete", "cancelRelease"},
           CommitStatus(w, new, label),
           pc[w] \notin Confirming \cup {"idle", "enqueue", "walletCommit"}
    PROVE  Known'
<1>1. NoNewWebhookJob
  BY JobEndAddsNone DEF CommitStatus, Finish, NoNewWebhookJob
<1>2. /\ UNCHANGED <<payStatus, payOrder, credits, events, paid, lock>>
      /\ \A v \in Workers \ {w} : pc'[v] = pc[v] /\ ctx'[v] = ctx[v] /\ found'[v] = found[v]
      /\ pc'[w] \in {"idle", label}
      /\ pc'[w] # "idle" => ctx'[w].order \in Orders
  BY DEF CommitStatus, Finish, Leave, Goto, envVars, TypeOK, Known, OrdersOK
<1>3. QED
  BY <1>1, <1>2, Quiet DEF Confirming, Crediting

LEMMA StepKnown ==
    ASSUME TypeOK, TypeOK', Known, NEW w \in Workers, Step(w)
    PROVE  Known'
<1> USE DEF Confirming, Crediting
<1>a. pc[w] \notin {"idle", "enqueue"} => ctx[w].order \in Orders
  BY DEF Known, OrdersOK
<1>b. ASSUME NEW label \in {"findPending", "insertPix", "autoDeliverRead", "autoDeliverWrite",
                           "scheduleAutoComplete"},
             Goto(w, label) \/ Leave(w), NoNewWebhookJob,
             UNCHANGED <<payStatus, payOrder, credits, events, paid, lock>>,
             pc[w] \notin Confirming \cup {"idle", "enqueue", "walletCommit"}
      PROVE  Known'
  <2>1. /\ \A v \in Workers \ {w} : pc'[v] = pc[v] /\ ctx'[v] = ctx[v] /\ found'[v] = found[v]
        /\ pc'[w] \in {"idle", label}
        /\ pc'[w] # "idle" => ctx'[w].order \in Orders
    BY <1>a, <1>b DEF Goto, Leave, TypeOK
  <2>2. QED
    BY <1>b, <2>1, Quiet
<1>1. CASE ScheduleOrderExpiration(w)
  <2>1. NoNewWebhookJob
    BY <1>1 DEF ScheduleOrderExpiration, WithJob, NoNewWebhookJob, TypeOK
  <2>2. QED
    BY <1>1, <1>b, <2>1 DEF ScheduleOrderExpiration, dbVars, envVars
<1>2. CASE FindPendingCharge(w)
  BY <1>2, <1>b DEF FindPendingCharge, NoNewWebhookJob, dbVars, envVars
<1>3. CASE \E p \in Pix : InsertPixCharge(w, p)
  BY <1>3, InsertPixKnown
<1>4. CASE EnqueueProcessing(w)
  BY <1>4, EnqueueKnown
<1>5. CASE ApplyReadOrder(w)
  BY <1>5, ApplyReadKnown, ThrowKnown DEF ApplyReadOrder, envVars
<1>6. CASE ApplyUpdateOrder(w)
  BY <1>6, ApplyUpdateKnown
<1>7. CASE UpdatePayment(w)
  BY <1>7, UpdatePaymentKnown
<1>8. CASE FindEntry(w)
  BY <1>8, FindEntryKnown
<1>9. CASE WebhookCommit(w)
  BY <1>9, WebhookCommitKnown
<1>10. CASE ExpirePendingPayments(w)
  BY <1>10, ExpirePendingKnown
<1>11. CASE \E p \in WalletPayments : WalletCommit(w, p)
  BY <1>11, WalletCommitKnown
<1>12. CASE ReserveInventoryForOrder(w)
  <2>1. CASE Throw(w)
    BY <1>12, <2>1, ThrowKnown DEF ReserveInventoryForOrder, envVars
  <2>2. CASE ~Throw(w)
    <3>1. NoNewWebhookJob
      BY <1>12, <2>2, JobEndAddsNone DEF ReserveInventoryForOrder, Finish, NoNewWebhookJob
    <3>2. QED
      BY <1>12, <2>2, <3>1, <1>b DEF ReserveInventoryForOrder, Finish, envVars
  <2>3. QED
    BY <2>1, <2>2
<1>13. CASE AutoDeliveryRead(w)
  BY <1>13, <1>b DEF AutoDeliveryRead, NoNewWebhookJob, dbVars, envVars
<1>14. CASE AutoDeliveryWrite(w)
  BY <1>14, <1>b DEF AutoDeliveryWrite, NoNewWebhookJob, envVars
<1>15. CASE ScheduleAutoComplete(w)
  BY <1>15, <1>b, FinishAddingAddsNone DEF ScheduleAutoComplete, FinishAdding, dbVars, envVars
<1>16. CASE \/ CancelOrderWrite(w) \/ ExpirationWrite(w) \/ MarkDeliveredWrite(w)
            \/ ConfirmReceiptWrite(w) \/ AutoCompleteWrite(w)
  BY <1>16, CommitStatusKnown
     DEF CancelOrderWrite, ExpirationWrite, MarkDeliveredWrite, ConfirmReceiptWrite,
         AutoCompleteWrite
<1>17. CASE ScheduleSettlementRelease(w)
  BY <1>17, <1>b, FinishAddingAddsNone DEF ScheduleSettlementRelease, FinishAdding, dbVars, envVars
<1>18. CASE OpenDisputeWrite(w)
  <2>1. CASE ctx[w].order \in disputes
    BY <1>18, <2>1, ThrowKnown DEF OpenDisputeWrite, envVars
  <2>2. CASE ctx[w].order \notin disputes
    BY <1>18, <2>2, CommitStatusKnown DEF OpenDisputeWrite
  <2>3. QED
    BY <2>1, <2>2
<1>19. CASE CancelRelease(w)
  <2>1. NoNewWebhookJob
    BY <1>19 DEF CancelRelease, NoNewWebhookJob, TypeOK
  <2>2. QED
    BY <1>19, <1>b, <2>1 DEF CancelRelease, dbVars, envVars
<1>20. QED
  BY <1>1, <1>2, <1>3, <1>4, <1>5, <1>6, <1>7, <1>8, <1>9, <1>10, <1>11, <1>12, <1>13, <1>14,
     <1>15, <1>16, <1>17, <1>18, <1>19 DEF Step

LEMMA OtherKnown ==
    ASSUME TypeOK, TypeOK', Known, [Next]_vars, \A w \in Workers : ~Step(w)
    PROVE  Known'
<1> USE DEF Confirming, Crediting
<1>b. ASSUME NEW w \in Workers, NEW c \in Ctx,
             NEW label \in {"scheduleExpire", "findPending", "expirePending", "cancelWrite",
                           "expireWrite", "deliveredWrite", "receiptWrite", "autoCompleteWrite",
                           "scheduleRelease", "disputeWrite"},
             Begin(w, c, label), pc[w] = "idle", c.order \in Orders, NoNewWebhookJob,
             label = "expirePending" => c.kind = "wallet",
             UNCHANGED <<payStatus, payOrder, credits, events, paid, lock>>
      PROVE  Known'
  <2>1. /\ \A v \in Workers \ {w} : pc'[v] = pc[v] /\ ctx'[v] = ctx[v] /\ found'[v] = found[v]
        /\ pc'[w] = label /\ ctx'[w] = c
    BY <1>b DEF Begin, TypeOK
  <2>2. QED
    BY <1>b, <2>1, Quiet
<1>c. ASSUME NoNewWebhookJob,
             UNCHANGED <<payStatus, payOrder, credits, events, lock, pc, ctx, found>>,
             \A p \in paid' : payStatus[p] # "NONE"
      PROVE  Known'
  BY <1>c DEF Known, NoNewWebhookJob, CreditedOnce, ProcessedMeansConfirmed, HandlersOK, OrdersOK,
              WebhooksOK, EntriesOK, NeedsUpdate, LocksOK
<1>d. \A p \in paid : payStatus[p] # "NONE"
  BY DEF Known, OrdersOK
<1>e. ASSUME NEW o \in Orders
      PROVE  /\ ForOrder(o) \in Ctx /\ ForOrder(o).order = o
             /\ \A j \in JobIds : ForJob(o, j) \in Ctx /\ ForJob(o, j).order = o
  BY CtxType DEF ForOrder, ForJob, Serving
<1>1. ASSUME NEW w \in Workers, Request(w) PROVE Known'
  <2> PICK o \in Orders :
        \/ CreateOrder(w, o) \/ CreatePixChargeForOrder(w, o) \/ PayOrderWithBalance(w, o)
        \/ CancelOrderRead(w, o) \/ MarkDeliveredRead(w, o) \/ ConfirmReceiptRead(w, o)
        \/ OpenDisputeRead(w, o)
    BY <1>1 DEF Request
  <2>1. CASE CreateOrder(w, o)
    BY <2>1, <1>b, <1>e DEF CreateOrder, NoNewWebhookJob, envVars
  <2>2. CASE CreatePixChargeForOrder(w, o)
    BY <2>2, <1>b, <1>e DEF CreatePixChargeForOrder, NoNewWebhookJob, dbVars, envVars
  <2>3. CASE PayOrderWithBalance(w, o)
    <3>1. /\ Serving("wallet", o, None, "NONE", None, None).order = o
          /\ Serving("wallet", o, None, "NONE", None, None).kind = "wallet"
      BY DEF Serving
    <3>2. QED
      BY <2>3, <3>1, <1>b, CtxType DEF PayOrderWithBalance, NoNewWebhookJob, dbVars, envVars
  <2>4. CASE \/ CancelOrderRead(w, o) \/ MarkDeliveredRead(w, o) \/ ConfirmReceiptRead(w, o)
             \/ OpenDisputeRead(w, o)
    BY <2>4, <1>b, <1>e
       DEF CancelOrderRead, MarkDeliveredRead, ConfirmReceiptRead, OpenDisputeRead, BeginWrite,
           NoNewWebhookJob, dbVars, envVars
  <2>5. QED
    BY <2>1, <2>2, <2>3, <2>4
<1>2. ASSUME NEW w \in Workers, Fault(w) PROVE Known'
  <2>1. CASE Crash(w)
    <3>1. NoNewWebhookJob
      BY <2>1, JobEndAddsNone DEF Crash
    <3>2. QED
      BY <2>1, <3>1, Ended DEF Crash, dbVars
  <2>2. CASE StatementFails(w)
    <3>1. CASE Throw(w)
      BY <2>2, <3>1, ThrowKnown DEF StatementFails
    <3>2. CASE ~Throw(w)
      <4>1. /\ pc[w] = "scheduleRelease" /\ Leave(w) /\ jobs' = JobEnd(w, "none")
            /\ UNCHANGED <<payStatus, payOrder, credits, events, paid, lock>>
        BY <2>2, <3>2 DEF StatementFails, Finish, dbVars
      <4>2. NoNewWebhookJob
        BY <4>1, JobEndAddsNone
      <4>3. /\ \A v \in Workers \ {w} : pc'[v] = pc[v] /\ ctx'[v] = ctx[v] /\ found'[v] = found[v]
            /\ pc'[w] = "idle"
        BY <4>1 DEF Leave, TypeOK
      <4>4. QED
        BY <4>1, <4>2, <4>3, Quiet
    <3>3. QED
      BY <3>1, <3>2
  <2>3. CASE DeadlockVictim(w)
    BY <2>3, ThrowKnown DEF DeadlockVictim, envVars
  <2>4. QED
    BY <1>2, <2>1, <2>2, <2>3 DEF Fault
<1>3. ASSUME NEW w \in Workers, NEW o \in Orders, JobOfOrder(w, o) PROVE Known'
  <2>1. <<"expire", o>> \in JobIds /\ <<"autoComplete", o>> \in JobIds
    OBVIOUS
  <2>2. CASE ExpirationRead(w, o)
    <3>1. NoNewWebhookJob
      BY <2>2 DEF ExpirationRead, TakeJob, DropJob, NoNewWebhookJob, TypeOK
    <3>2. QED
      BY <2>1, <2>2, <3>1, <1>b, <1>c, <1>d, <1>e
         DEF ExpirationRead, TakeJob, DropJob, dbVars, envVars, handlerVars
  <2>3. CASE AutoCompleteRead(w, o)
    <3>1. NoNewWebhookJob
      BY <2>3 DEF AutoCompleteRead, TakeJob, DropJob, NoNewWebhookJob, TypeOK
    <3>2. QED
      BY <2>1, <2>3, <3>1, <1>b, <1>c, <1>d, <1>e
         DEF AutoCompleteRead, TakeJob, DropJob, dbVars, envVars, handlerVars
  <2>4. QED
    BY <1>3, <2>2, <2>3 DEF JobOfOrder
<1>4. ASSUME NEW w \in Workers, NEW e \in Events, RegisterEfiWebhook(w, e) PROVE Known'
  BY <1>4, RegisterKnown
<1>5. ASSUME NEW w \in Workers, NEW e \in Events, StartWebhook(w, e) PROVE Known'
  BY <1>5, StartKnown
<1>6. ASSUME NEW p \in Pix, PayPix(p) PROVE Known'
  BY <1>6, <1>c, <1>d DEF PayPix, NoNewWebhookJob, dbVars, handlerVars
<1>7. ASSUME NEW j \in JobIds, StallJob(j) PROVE Known'
  <2>1. NoNewWebhookJob
    BY <1>7, ConstantsAssumption DEF StallJob, NoNewWebhookJob, TypeOK
  <2>2. QED
    BY <1>7, <2>1, <1>c, <1>d DEF StallJob, dbVars, handlerVars
<1>8. CASE EditListing
  BY <1>8, <1>c, <1>d
     DEF EditListing, RemoveInventoryItem, AddInventoryItem, DeleteListing, NoNewWebhookJob,
         envVars, handlerVars
<1>9. CASE UNCHANGED vars
  BY <1>9, <1>c, <1>d DEF NoNewWebhookJob, vars, dbVars, envVars, handlerVars
<1>10. QED
  BY <1>1, <1>2, <1>3, <1>4, <1>5, <1>6, <1>7, <1>8, <1>9 DEF Next

LEMMA InitIInv == Init => IInv
<1> SUFFICES ASSUME Init PROVE IInv
  OBVIOUS
<1>1. TypeOK
  BY ConstantsAssumption, NoCtxType
     DEF Init, TypeOK, OrderStatus, PaymentStatus, Pcs
<1>2. CreditedOnce /\ ProcessedMeansConfirmed /\ HandlersOK /\ OrdersOK
  BY DEF Init, CreditedOnce, ProcessedMeansConfirmed, HandlersOK, OrdersOK, Confirming, Crediting
<1>3. WebhooksOK /\ EntriesOK /\ LocksOK
  BY ConstantsAssumption DEF Init, WebhooksOK, EntriesOK, LocksOK, Confirming, Crediting
<1>4. QED
  BY <1>1, <1>2, <1>3 DEF IInv

LEMMA NextIInv == IInv /\ [Next]_vars => IInv'
<1> SUFFICES ASSUME TypeOK, Known, [Next]_vars PROVE TypeOK' /\ Known'
  BY DEF IInv, Known
<1>1. ASSUME NEW w \in Workers, Step(w) PROVE TypeOK' /\ Known'
  BY <1>1, StepType, StepKnown DEF Known
<1>2. ASSUME \A w \in Workers : ~Step(w) PROVE TypeOK' /\ Known'
  BY <1>2, OtherType, OtherKnown DEF Known
<1>3. QED
  BY <1>1, <1>2

\* IInv is an invariant, and with it each of its parts.
THEOREM Inductive == Spec => []IInv
BY InitIInv, NextIInv, PTL DEF Spec

\* The variables keep their types.
THEOREM TypeCorrect == Spec => []TypeOK
<1>1. IInv => TypeOK
  BY DEF IInv
<1>2. QED
  BY <1>1, Inductive, PTL

\* Webhook jobs for one charge, however many run at once and wherever they die, and
\* wallet payments credit the ledger exactly once per CONFIRMED payment.
THEOREM CreditedExactlyOnce == Spec => []CreditedOnce
<1>1. IInv => CreditedOnce
  BY DEF IInv
<1>2. QED
  BY <1>1, Inductive, PTL

\* A paid event marked as processed has confirmed its payment: registerEfiWebhook may
\* drop its duplicates.
THEOREM ProcessedIsConfirmed == Spec => []ProcessedMeansConfirmed
<1>1. IInv => ProcessedMeansConfirmed
  BY DEF IInv
<1>2. QED
  BY <1>1, Inductive, PTL

-----------------------------------------------------------------------------
(* Confirmed payments stay confirmed, and an order moves on only when it is paid *)

\* Only the next statement of a handler in flight touches payments, the ledger or the
\* disputes: requests, jobs handed out, webhooks and faults do not, nor do they touch a
\* reservation of a listing that is not deleted.
LEMMA OutsideKeeps ==
    ASSUME [Next]_vars, \A w \in Workers : ~Step(w)
    PROVE  /\ UNCHANGED <<disputes, payOrder, payStatus, credits, balance>>
           /\ listed' => listed /\ UNCHANGED reserved
<1> DEFINE Kept == /\ UNCHANGED <<disputes, payOrder, payStatus, credits, balance>>
                   /\ listed' => listed /\ UNCHANGED reserved
<1>0. UNCHANGED dbVars => Kept
  BY DEF dbVars
<1>1. ASSUME NEW w \in Workers, Request(w) PROVE Kept
  <2>1. PICK o \in Orders :
          \/ CreateOrder(w, o) \/ CreatePixChargeForOrder(w, o) \/ PayOrderWithBalance(w, o)
          \/ CancelOrderRead(w, o) \/ MarkDeliveredRead(w, o) \/ ConfirmReceiptRead(w, o)
          \/ OpenDisputeRead(w, o)
    BY <1>1 DEF Request
  <2>2. CASE CreateOrder(w, o)
    BY <2>2 DEF CreateOrder
  <2>3. CASE CreatePixChargeForOrder(w, o)
    BY <1>0, <2>3 DEF CreatePixChargeForOrder
  <2>4. CASE PayOrderWithBalance(w, o)
    BY <1>0, <2>4 DEF PayOrderWithBalance
  <2>5. CASE \/ CancelOrderRead(w, o) \/ MarkDeliveredRead(w, o) \/ ConfirmReceiptRead(w, o)
             \/ OpenDisputeRead(w, o)
    BY <1>0, <2>5 DEF CancelOrderRead, MarkDeliveredRead, ConfirmReceiptRead, OpenDisputeRead,
        BeginWrite
  <2>6. QED
    BY <2>1, <2>2, <2>3, <2>4, <2>5
<1>2. ASSUME NEW w \in Workers, Fault(w) PROVE Kept
  BY <1>0, <1>2 DEF Fault, Crash, StatementFails, DeadlockVictim, Throw
<1>3. ASSUME NEW w \in Workers, NEW o \in Orders, JobOfOrder(w, o) PROVE Kept
  BY <1>0, <1>3 DEF JobOfOrder, ExpirationRead, AutoCompleteRead
<1>4. ASSUME NEW w \in Workers, NEW e \in Events, RegisterEfiWebhook(w, e) PROVE Kept
  BY <1>4 DEF RegisterEfiWebhook
<1>5. ASSUME NEW w \in Workers, NEW e \in Events, StartWebhook(w, e) PROVE Kept
  BY <1>5 DEF StartWebhook
<1>6. ASSUME NEW p \in Pix, PayPix(p) PROVE Kept
  BY <1>0, <1>6 DEF PayPix
<1>7. CASE EditListing
  BY <1>7 DEF EditListing, RemoveInventoryItem, AddInventoryItem, DeleteListing
<1>8. ASSUME NEW j \in JobIds, StallJob(j) PROVE Kept
  BY <1>0, <1>8 DEF StallJob
<1>9. CASE UNCHANGED vars
  BY <1>0, <1>9 DEF vars
<1>10. QED
  BY <1>1, <1>2, <1>3, <1>4, <1>5, <1>6, <1>7, <1>8, <1>9 DEF Next

\* A payment row keeps its order, and the CONFIRMED status once it has it.
LEMMA PaymentsStay ==
    ASSUME TypeOK, Known, [Next]_vars, NEW p \in Payments
    PROVE  /\ payStatus[p] = "CONFIRMED" => payStatus'[p] = "CONFIRMED"
           /\ payStatus[p] # "NONE" => payOrder'[p] = payOrder[p]
<1>1. CASE UNCHANGED <<payStatus, payOrder>>
  BY <1>1
<1>2. ASSUME NEW w \in Workers, NEW q \in Pix, InsertPixCharge(w, q)
      PROVE  /\ payStatus[p] = "CONFIRMED" => payStatus'[p] = "CONFIRMED"
             /\ payStatus[p] # "NONE" => payOrder'[p] = payOrder[p]
  BY <1>2 DEF InsertPixCharge, Fresh, TypeOK
<1>3. ASSUME NEW w \in Workers, WebhookCommit(w)
      PROVE  /\ payStatus[p] = "CONFIRMED" => payStatus'[p] = "CONFIRMED"
             /\ payStatus[p] # "NONE" => payOrder'[p] = payOrder[p]
  BY <1>3 DEF WebhookCommit, TypeOK
<1>4. ASSUME NEW w \in Workers, NEW q \in WalletPayments, WalletCommit(w, q)
      PROVE  /\ payStatus[p] = "CONFIRMED" => payStatus'[p] = "CONFIRMED"
             /\ payStatus[p] # "NONE" => payOrder'[p] = payOrder[p]
  <2>1. lock[p] = w => payStatus[p] = "PENDING"
    BY <1>4 DEF WalletCommit, Known, HandlersOK, LocksOK
  <2>2. QED
    BY <1>4, <2>1 DEF WalletCommit, Fresh, TypeOK
<1>5. ASSUME NEW w \in Workers, Step(w)
      PROVE  \/ UNCHANGED <<payStatus, payOrder>> \/ WebhookCommit(w)
             \/ \E q \in Pix : InsertPixCharge(w, q)
             \/ \E q \in WalletPayments : WalletCommit(w, q)
  BY <1>5 DEF Step, ScheduleOrderExpiration, FindPendingCharge, EnqueueProcessing,
      ApplyReadOrder, ApplyUpdateOrder, UpdatePayment, FindEntry, ExpirePendingPayments,
      ReserveInventoryForOrder, AutoDeliveryRead, AutoDeliveryWrite, ScheduleAutoComplete,
      CancelOrderWrite, ExpirationWrite, MarkDeliveredWrite, ConfirmReceiptWrite,
      AutoCompleteWrite, ScheduleSettlementRelease, OpenDisputeWrite, CancelRelease,
      CommitStatus, Throw, dbVars
<1>6. CASE (\A w \in Workers : ~Step(w)) /\ ~UNCHANGED vars
  <2>1. UNCHANGED <<payStatus, payOrder>>
    BY <1>6, OutsideKeeps
  <2>2. QED
    BY <2>1
<1>7. QED
  BY <1>1, <1>2, <1>3, <1>4, <1>5, <1>6 DEF vars, dbVars

\* payOrderWithBalance never expires a charge whose webhook has confirmed it, although
\* both work on the row at the same time.
THEOREM ConfirmedForGood == Spec => ConfirmedIsFinal
<1>1. IInv /\ [Next]_vars
      => [\A p \in Payments : payStatus[p] = "CONFIRMED" => payStatus'[p] = "CONFIRMED"]_vars
  BY PaymentsStay DEF IInv, Known
<1>2. QED
  BY <1>1, Inductive, PTL DEF Spec, ConfirmedIsFinal

PaidPcs == {"reserve", "autoDeliverRead", "autoDeliverWrite", "deliveredWrite", "receiptWrite",
            "autoCompleteWrite", "disputeWrite"}
BeyondPayment == {"IN_DELIVERY", "DELIVERED", "COMPLETED", "DISPUTED"}

\* Paid, in the state after the step.
PaidNext(o) == \E p \in Payments : payOrder'[p] = o /\ payStatus'[p] = "CONFIRMED"

LEMMA PaidStays ==
    ASSUME TypeOK, Known, [Next]_vars, NEW o, Paid(o)
    PROVE  PaidNext(o)
<1>1. PICK p \in Payments : payOrder[p] = o /\ payStatus[p] = "CONFIRMED"
  BY DEF Paid
<1>2. QED
  BY <1>1, PaymentsStay DEF PaidNext

\* A step of one handler keeps the invariant if it goes on only to what is paid.
LEMMA PaidFrame ==
    ASSUME TypeOK, Known, [Next]_vars, PaidOK, NeverDeliveredUnpaid, NEW w \in Workers,
           \A v \in Workers \ {w} : pc'[v] = pc[v] /\ ctx'[v] = ctx[v],
           pc'[w] \in PaidPcs => PaidNext(ctx'[w].order),
           pc'[w] \in Confirming /\ ctx'[w].kind = "webhook"
             => payOrder'[ctx'[w].pay] = ctx'[w].order,
           \A o \in Orders : status'[o] \in BeyondPayment /\ status'[o] # status[o] => PaidNext(o)
    PROVE  PaidOK' /\ NeverDeliveredUnpaid'
<1>1. NeverDeliveredUnpaid'
  BY PaidStays DEF NeverDeliveredUnpaid, BeyondPayment, Paid, PaidNext
<1>2. ASSUME NEW v \in Workers \ {w}
      PROVE  /\ pc'[v] \in PaidPcs => PaidNext(ctx'[v].order)
             /\ pc'[v] \in Confirming /\ ctx'[v].kind = "webhook"
                => payOrder'[ctx'[v].pay] = ctx'[v].order
  <2>1. pc[v] \in PaidPcs => Paid(ctx[v].order)
    BY DEF PaidOK, PaidPcs
  <2>2. pc[v] \in Confirming /\ ctx[v].kind = "webhook"
        => /\ payOrder[ctx[v].pay] = ctx[v].order
           /\ ctx[v].pay \in Payments /\ payStatus[ctx[v].pay] # "NONE"
    BY DEF PaidOK, Known, WebhooksOK
  <2>3. QED
    BY <2>1, <2>2, PaidStays, PaymentsStay
<1>3. PaidOK'
  <2>1. ASSUME NEW v \in Workers
        PROVE  /\ pc'[v] \in PaidPcs => PaidNext(ctx'[v].order)
               /\ pc'[v] \in Confirming /\ ctx'[v].kind = "webhook"
                  => payOrder'[ctx'[v].pay] = ctx'[v].order
    BY <1>2
  <2>2. QED
    BY <2>1 DEF PaidOK, PaidPcs, Paid, PaidNext
<1>4. QED
  BY <1>1, <1>3

LEMMA StepPaid ==
    ASSUME TypeOK, Known, [Next]_vars, PaidOK, NeverDeliveredUnpaid, NEW w \in Workers, Step(w)
    PROVE  PaidOK' /\ NeverDeliveredUnpaid'
<1> USE DEF Confirming, Crediting, PaidPcs, BeyondPayment
<1>a. /\ pc[w] \in PaidPcs => Paid(ctx[w].order)
      /\ pc[w] \in Confirming /\ ctx[w].kind = "webhook"
         => payOrder[ctx[w].pay] = ctx[w].order
  BY DEF PaidOK
<1>b. ASSUME Leave(w), UNCHANGED status
      PROVE  PaidOK' /\ NeverDeliveredUnpaid'
  <2>1. pc'[w] = "idle" /\ \A v \in Workers \ {w} : pc'[v] = pc[v] /\ ctx'[v] = ctx[v]
    BY <1>b DEF Leave, TypeOK
  <2>2. QED
    BY <1>b, <2>1, PaidFrame
<1>c. ASSUME NEW label \in Pcs, Goto(w, label), UNCHANGED status,
             label \in PaidPcs => pc[w] \in PaidPcs,
             label \in Confirming /\ ctx[w].kind = "webhook" => pc[w] \in Confirming
      PROVE  PaidOK' /\ NeverDeliveredUnpaid'
  <2>1. /\ pc'[w] = label /\ ctx' = ctx
        /\ \A v \in Workers \ {w} : pc'[v] = pc[v] /\ ctx'[v] = ctx[v]
    BY <1>c DEF Goto, TypeOK
  <2>2. pc[w] \in PaidPcs => PaidNext(ctx[w].order)
    BY <1>a, PaidStays
  <2>3. label \in Confirming /\ ctx[w].kind = "webhook"
        => payOrder'[ctx[w].pay] = ctx[w].order
    BY <1>a, <1>c, PaymentsStay DEF Known, WebhooksOK
  <2>4. QED
    BY <1>c, <2>1, <2>2, <2>3, PaidFrame
<1>d. ASSUME NEW new, NEW label \in {"idle", "scheduleRelease", "scheduleAutoComplete",
                                    "cancelRelease"},
             CommitStatus(w, new, label), new = "CANCELLED" \/ pc[w] \in PaidPcs
      PROVE  PaidOK' /\ NeverDeliveredUnpaid'
  <2>1. /\ \A v \in Workers \ {w} : pc'[v] = pc[v] /\ ctx'[v] = ctx[v]
        /\ pc'[w] \in {"idle", label}
    BY <1>d DEF CommitStatus, Finish, Leave, Goto, TypeOK
  <2>2. \A o \in Orders : status'[o] # status[o] => o = ctx[w].order /\ status'[o] = new
    BY <1>d DEF CommitStatus, WriteStatus, TypeOK
  <2>3. pc[w] \in PaidPcs => PaidNext(ctx[w].order)
    BY <1>a, PaidStays
  <2>4. QED
    BY <1>d, <2>1, <2>2, <2>3, PaidFrame
<1>e. ASSUME Committed(w), PaidNext(ctx[w].order),
             \A o \in Orders : status'[o] # status[o] => o = ctx[w].order
      PROVE  PaidOK' /\ NeverDeliveredUnpaid'
  <2>1. pc'[w] \in PaidPcs => PaidNext(ctx'[w].order)
    BY <1>e DEF Committed
  <2>2. pc'[w] \notin Confirming /\ \A v \in Workers \ {w} : pc'[v] = pc[v] /\ ctx'[v] = ctx[v]
    BY <1>e DEF Committed
  <2>3. QED
    BY <1>e, <2>1, <2>2, PaidFrame
<1>1. CASE \/ ScheduleOrderExpiration(w) \/ FindPendingCharge(w) \/ EnqueueProcessing(w)
           \/ ScheduleAutoComplete(w) \/ ScheduleSettlementRelease(w) \/ CancelRelease(w)
           \/ \E p \in Pix : InsertPixCharge(w, p)
  BY <1>1, <1>b, <1>c
     DEF ScheduleOrderExpiration, FindPendingCharge, EnqueueProcessing, ScheduleAutoComplete,
         ScheduleSettlementRelease, CancelRelease, InsertPixCharge, FinishAdding, Pcs, dbVars
<1>2. CASE ApplyReadOrder(w)
  <2>1. CASE Throw(w)
    BY <2>1, <1>b DEF Throw, dbVars
  <2>2. CASE ~Throw(w)
    <3>1. /\ pc[w] = "applyRead" /\ pc'[w] \in {"applyUpdate", AfterApply(w)}
          /\ \A v \in Workers \ {w} : pc'[v] = pc[v] /\ ctx'[v] = ctx[v]
          /\ UNCHANGED <<status, payOrder, ctx>>
      BY <1>2, <2>2 DEF ApplyReadOrder, dbVars, TypeOK
    <3>2. QED
      BY <1>a, <3>1, PaidFrame DEF AfterApply
  <2>3. QED
    BY <2>1, <2>2
<1>3. CASE ApplyUpdateOrder(w)
  BY <1>3, <1>c DEF ApplyUpdateOrder, AfterApply, Pcs, dbVars
<1>4. CASE UpdatePayment(w)
  BY <1>4, <1>c DEF UpdatePayment, Pcs, dbVars
<1>5. CASE FindEntry(w)
  <2>1. /\ pc[w] = "findEntry" /\ pc'[w] = "webhookCommit"
        /\ \A v \in Workers \ {w} : pc'[v] = pc[v] /\ ctx'[v] = ctx[v]
        /\ UNCHANGED <<status, payOrder, ctx>>
    BY <1>5 DEF FindEntry, dbVars, TypeOK
  <2>2. QED
    BY <1>a, <2>1, PaidFrame
<1>6. CASE WebhookCommit(w)
  <2>1. /\ Committed(w) /\ pc[w] = "webhookCommit"
        /\ \A o \in Orders : status'[o] # status[o] => o = ctx[w].order
    BY <1>6, CommittedFacts DEF WebhookCommit, WriteStatus, TypeOK
  <2>2. ctx[w].pay \in Payments /\ payOrder[ctx[w].pay] = ctx[w].order
    BY <1>a, <2>1 DEF Known, HandlersOK, WebhooksOK
  <2>3. payStatus'[ctx[w].pay] = "CONFIRMED" /\ payOrder' = payOrder
    BY <1>6, <2>1, <2>2 DEF WebhookCommit, NeedsUpdate, Known, HandlersOK, WebhooksOK, TypeOK
  <2>4. QED
    BY <1>e, <2>1, <2>2, <2>3 DEF PaidNext
<1>7. CASE ExpirePendingPayments(w)
  <2>1. pc[w] = "expirePending" /\ ctx[w].kind = "wallet"
    BY <1>7 DEF ExpirePendingPayments, Known, HandlersOK
  <2>2. QED
    BY <1>7, <1>c, <2>1 DEF ExpirePendingPayments, Pcs, dbVars
<1>8. ASSUME NEW p \in WalletPayments, WalletCommit(w, p)
      PROVE  PaidOK' /\ NeverDeliveredUnpaid'
  <2>1. /\ Committed(w)
        /\ \A o \in Orders : status'[o] # status[o] => o = ctx[w].order
    BY <1>8, CommittedFacts DEF WalletCommit, TypeOK
  <2>2. payOrder'[p] = ctx[w].order /\ payStatus'[p] = "CONFIRMED"
    BY <1>8 DEF WalletCommit, TypeOK
  <2>3. QED
    BY <1>e, <2>1, <2>2 DEF PaidNext
<1>9. CASE ReserveInventoryForOrder(w)
  <2>1. pc[w] = "reserve" /\ UNCHANGED status /\ (Leave(w) \/ Goto(w, "autoDeliverRead"))
    BY <1>9 DEF ReserveInventoryForOrder, Throw, Finish, dbVars
  <2>2. QED
    BY <1>b, <1>c, <2>1 DEF Pcs
<1>10. CASE AutoDeliveryRead(w)
  BY <1>10, <1>c DEF AutoDeliveryRead, Pcs, dbVars
<1>11. CASE AutoDeliveryWrite(w)
  <2>1. /\ pc[w] = "autoDeliverWrite" /\ pc'[w] = "scheduleAutoComplete"
        /\ \A v \in Workers \ {w} : pc'[v] = pc[v] /\ ctx'[v] = ctx[v]
        /\ \A o \in Orders : status'[o] # status[o] => o = ctx[w].order
    BY <1>11 DEF AutoDeliveryWrite, Goto, WriteStatus, TypeOK
  <2>2. PaidNext(ctx[w].order)
    BY <1>a, <2>1, PaidStays
  <2>3. QED
    BY <2>1, <2>2, PaidFrame
<1>12. CASE \/ CancelOrderWrite(w) \/ ExpirationWrite(w) \/ MarkDeliveredWrite(w)
            \/ ConfirmReceiptWrite(w) \/ AutoCompleteWrite(w)
  BY <1>12, <1>d
     DEF CancelOrderWrite, ExpirationWrite, MarkDeliveredWrite, ConfirmReceiptWrite,
         AutoCompleteWrite
<1>13. CASE OpenDisputeWrite(w)
  <2>1. CASE Throw(w)
    BY <2>1, <1>b DEF Throw, dbVars
  <2>2. CASE CommitStatus(w, "DISPUTED", "cancelRelease")
    BY <1>13, <2>2, <1>d DEF OpenDisputeWrite
  <2>3. QED
    BY <1>13, <2>1, <2>2 DEF OpenDisputeWrite
<1>14. QED
  BY <1>1, <1>2, <1>3, <1>4, <1>5, <1>6, <1>7, <1>8, <1>9, <1>10, <1>11, <1>12, <1>13 DEF Step

LEMMA OtherPaid ==
    ASSUME TypeOK, Known, [Next]_vars, PaidOK, NeverDeliveredUnpaid,
           \A w \in Workers : ~Step(w)
    PROVE  PaidOK' /\ NeverDeliveredUnpaid'
<1> USE DEF Confirming, Crediting, PaidPcs, BeyondPayment
<1>b. ASSUME NEW w \in Workers, Leave(w), UNCHANGED status
      PROVE  PaidOK' /\ NeverDeliveredUnpaid'
  <2>1. pc'[w] = "idle" /\ \A v \in Workers \ {w} : pc'[v] = pc[v] /\ ctx'[v] = ctx[v]
    BY <1>b DEF Leave, TypeOK
  <2>2. QED
    BY <1>b, <2>1, PaidFrame
<1>c. ASSUME UNCHANGED <<pc, ctx, status, payOrder, payStatus>>
      PROVE  PaidOK' /\ NeverDeliveredUnpaid'
  BY <1>c DEF PaidOK, NeverDeliveredUnpaid, Paid
<1>d. ASSUME NEW w \in Workers, NEW c \in Ctx, NEW label, Begin(w, c, label),
             label \notin Confirming,
             label \in PaidPcs => c.order \in Orders /\ status[c.order] \in BeyondPayment,
             \A o \in Orders : status'[o] \in BeyondPayment => status'[o] = status[o]
      PROVE  PaidOK' /\ NeverDeliveredUnpaid'
  <2>1. /\ pc'[w] = label /\ ctx'[w] = c
        /\ \A v \in Workers \ {w} : pc'[v] = pc[v] /\ ctx'[v] = ctx[v]
    BY <1>d DEF Begin, TypeOK
  <2>2. label \in PaidPcs => PaidNext(c.order)
    BY <1>d, PaidStays DEF NeverDeliveredUnpaid
  <2>3. QED
    BY <1>d, <2>1, <2>2, PaidFrame
<1>e. ASSUME NEW o \in Orders
      PROVE  /\ ForOrder(o) \in Ctx /\ ForOrder(o).order = o
             /\ \A j \in JobIds : ForJob(o, j) \in Ctx /\ ForJob(o, j).order = o
  BY CtxType DEF ForOrder, ForJob, Serving
<1>1. ASSUME NEW w \in Workers, Request(w) PROVE PaidOK' /\ NeverDeliveredUnpaid'
  <2> PICK o \in Orders :
        \/ CreateOrder(w, o) \/ CreatePixChargeForOrder(w, o) \/ PayOrderWithBalance(w, o)
        \/ CancelOrderRead(w, o) \/ MarkDeliveredRead(w, o) \/ ConfirmReceiptRead(w, o)
        \/ OpenDisputeRead(w, o)
    BY <1>1 DEF Request
  <2>1. CASE CreateOrder(w, o)
    BY <2>1, <1>d, <1>e DEF CreateOrder, TypeOK
  <2>2. CASE CreatePixChargeForOrder(w, o)
    BY <2>2, <1>d, <1>e DEF CreatePixChargeForOrder, dbVars
  <2>3. CASE PayOrderWithBalance(w, o)
    BY <2>3, <1>d, CtxType DEF PayOrderWithBalance, dbVars
  <2>4. CASE \/ CancelOrderRead(w, o) \/ MarkDeliveredRead(w, o) \/ ConfirmReceiptRead(w, o)
             \/ OpenDisputeRead(w, o)
    BY <2>4, <1>d, <1>e
       DEF CancelOrderRead, MarkDeliveredRead, ConfirmReceiptRead, OpenDisputeRead, BeginWrite,
           dbVars
  <2>5. QED
    BY <2>1, <2>2, <2>3, <2>4
<1>2. ASSUME NEW w \in Workers, Fault(w) PROVE PaidOK' /\ NeverDeliveredUnpaid'
  BY <1>2, <1>b DEF Fault, Crash, StatementFails, DeadlockVictim, Throw, Finish, dbVars
<1>3. ASSUME NEW w \in Workers, NEW o \in Orders, JobOfOrder(w, o)
      PROVE  PaidOK' /\ NeverDeliveredUnpaid'
  <2>1. <<"expire", o>> \in JobIds /\ <<"autoComplete", o>> \in JobIds
    OBVIOUS
  <2>2. CASE ExpirationRead(w, o)
    BY <2>1, <2>2, <1>c, <1>d, <1>e
       DEF ExpirationRead, TakeJob, DropJob, dbVars, handlerVars
  <2>3. CASE AutoCompleteRead(w, o)
    BY <2>1, <2>3, <1>c, <1>d, <1>e
       DEF AutoCompleteRead, TakeJob, DropJob, dbVars, handlerVars
  <2>4. QED
    BY <1>3, <2>2, <2>3 DEF JobOfOrder
<1>4. ASSUME NEW w \in Workers, NEW e \in Events, RegisterEfiWebhook(w, e)
      PROVE  PaidOK' /\ NeverDeliveredUnpaid'
  <2>1. Serving("request", None, None, "NONE", e, None) \in Ctx
    BY DEF Serving, Ctx, PaymentStatus
  <2>2. CASE events[e] = "processed"
    BY <1>4, <2>2, <1>c DEF RegisterEfiWebhook, handlerVars
  <2>3. CASE events[e] # "processed"
    BY <1>4, <2>1, <2>3, <1>d DEF RegisterEfiWebhook
  <2>4. QED
    BY <2>2, <2>3
<1>5. ASSUME NEW w \in Workers, NEW e \in Events, StartWebhook(w, e)
      PROVE  PaidOK' /\ NeverDeliveredUnpaid'
  <2> DEFINE c == Serving("webhook", payOrder[e[1]], e[1], payStatus[e[1]], e, <<"efi", e>>)
  <2>1. CASE events[e] = "processed" \/ e[2] \in Notices
    BY <1>5, <2>1, <1>c DEF StartWebhook, DropJob, handlerVars
  <2>2. CASE ~(events[e] = "processed" \/ e[2] \in Notices)
    <3>1. Begin(w, c, "applyRead") /\ UNCHANGED <<status, payOrder>>
      BY <1>5, <2>2 DEF StartWebhook
    <3>2. /\ pc'[w] = "applyRead" /\ ctx'[w] = c
          /\ \A v \in Workers \ {w} : pc'[v] = pc[v] /\ ctx'[v] = ctx[v]
      BY <3>1 DEF Begin, TypeOK
    <3>3. c.pay = e[1] /\ c.order = payOrder[e[1]]
      BY DEF Serving
    <3>4. QED
      BY <3>1, <3>2, <3>3, PaidFrame
  <2>3. QED
    BY <2>1, <2>2
<1>6. ASSUME NEW p \in Pix, PayPix(p) PROVE PaidOK' /\ NeverDeliveredUnpaid'
  BY <1>6, <1>c DEF PayPix, dbVars, handlerVars
<1>7. ASSUME NEW j \in JobIds, StallJob(j) PROVE PaidOK' /\ NeverDeliveredUnpaid'
  BY <1>7, <1>c DEF StallJob, dbVars, handlerVars
<1>8. CASE EditListing
  BY <1>8, <1>c DEF EditListing, RemoveInventoryItem, AddInventoryItem, DeleteListing, handlerVars
<1>9. CASE UNCHANGED vars
  BY <1>9, <1>c DEF vars, dbVars, handlerVars
<1>10. QED
  BY <1>1, <1>2, <1>3, <1>4, <1>5, <1>6, <1>7, <1>8, <1>9 DEF Next

\* No order goes into delivery, is delivered, completed or disputed without a confirmed
\* payment of its own, whatever stale reads its handlers act on.
THEOREM DeliveredIsPaid == Spec => []NeverDeliveredUnpaid
<1>1. Init => PaidOK /\ NeverDeliveredUnpaid
  BY DEF Init, PaidOK, NeverDeliveredUnpaid, Confirming, Crediting
<1>2. IInv /\ PaidOK /\ NeverDeliveredUnpaid /\ [Next]_vars
      => PaidOK' /\ NeverDeliveredUnpaid'
  <2> SUFFICES ASSUME IInv, PaidOK, NeverDeliveredUnpaid, [Next]_vars
               PROVE  PaidOK' /\ NeverDeliveredUnpaid'
    OBVIOUS
  <2>1. TypeOK /\ Known
    BY DEF IInv, Known
  <2>2. QED
    BY <2>1, StepPaid, OtherPaid
<1>3. QED
  BY <1>1, <1>2, Inductive, PTL DEF Spec

-----------------------------------------------------------------------------
(* What is delivered has its item *)

ItemPcs == {"autoDeliverRead", "autoDeliverWrite", "deliveredWrite", "receiptWrite",
            "autoCompleteWrite", "disputeWrite"}
HandedOver == {"DELIVERED", "COMPLETED", "DISPUTED"}

\* As long as the listing exists an order that needs an item has it.
NeedsItem(o) == IsAuto(o) /\ HasItems(o)
HasItem(o) == NeedsItem(o) /\ listed => o \in reserved
HasItemNext(o) == NeedsItem(o) /\ listed' => o \in reserved'

\* A handler beyond the reservation serves an order that has its item.
ItemsOK == \A w \in Workers : pc[w] \in ItemPcs => HasItem(ctx[w].order)

\* The items that a confirming handler has read name their listing, as long as it exists.
OrderReadPcs == {"applyUpdate", "updatePayment", "findEntry", "webhookCommit",
                 "walletCommit", "reserve"}
LinkedOK == listed => \A w \in Workers : pc[w] \in OrderReadPcs => linked[w]

\* A deleted listing is not created again, and takes what was reserved along.
LEMMA ReservedStays ==
    ASSUME [Next]_vars
    PROVE  listed' => listed /\ reserved \subseteq reserved'
<1>1. CASE UNCHANGED <<listed, reserved>>
  BY <1>1
<1>2. ASSUME NEW w \in Workers, Step(w)
      PROVE  UNCHANGED <<listed, reserved>> \/ ReserveInventoryForOrder(w)
  BY <1>2 DEF Step, ScheduleOrderExpiration, FindPendingCharge, EnqueueProcessing,
      ApplyReadOrder, ApplyUpdateOrder, UpdatePayment, FindEntry, ExpirePendingPayments,
      AutoDeliveryRead, AutoDeliveryWrite, ScheduleAutoComplete, InsertPixCharge,
      WebhookCommit, WalletCommit,
      CancelOrderWrite, ExpirationWrite, MarkDeliveredWrite, ConfirmReceiptWrite,
      AutoCompleteWrite, ScheduleSettlementRelease, OpenDisputeWrite, CancelRelease,
      CommitStatus, Throw, dbVars
<1>3. ASSUME NEW w \in Workers, ReserveInventoryForOrder(w)
      PROVE  UNCHANGED listed /\ reserved \subseteq reserved'
  BY <1>3 DEF ReserveInventoryForOrder, Throw, dbVars
<1>4. CASE (\A w \in Workers : ~Step(w)) /\ ~UNCHANGED vars
  BY <1>4, OutsideKeeps
<1>5. QED
  BY <1>1, <1>2, <1>3, <1>4 DEF vars, dbVars

\* The listing is read with the order, and only its deletion makes what was read stale.
LEMMA StepLinked ==
    ASSUME TypeOK, HandlersOK, LinkedOK, [Next]_vars, NEW w \in Workers, Step(w)
    PROVE  LinkedOK'
<1> USE DEF OrderReadPcs
<1>0. listed' => listed
  BY ReservedStays
<1>a. ASSUME \A v \in Workers \ {w} : pc'[v] = pc[v] /\ linked'[v] = linked[v],
             listed' /\ pc'[w] \in OrderReadPcs => linked'[w]
      PROVE  LinkedOK'
  BY <1>0, <1>a DEF LinkedOK
<1>b. ASSUME Leave(w) PROVE LinkedOK'
  BY <1>a, <1>b DEF Leave, TypeOK
<1>c. ASSUME NEW label, Goto(w, label), label \in OrderReadPcs => pc[w] \in OrderReadPcs
      PROVE  LinkedOK'
  BY <1>0, <1>a, <1>c DEF Goto, LinkedOK, TypeOK
<1>1. CASE \/ ScheduleOrderExpiration(w) \/ FindPendingCharge(w) \/ EnqueueProcessing(w)
           \/ ScheduleAutoComplete(w) \/ ScheduleSettlementRelease(w) \/ CancelRelease(w)
           \/ \E p \in Pix : InsertPixCharge(w, p)
  BY <1>1, <1>b, <1>c
     DEF ScheduleOrderExpiration, FindPendingCharge, EnqueueProcessing, ScheduleAutoComplete,
         ScheduleSettlementRelease, CancelRelease, InsertPixCharge, FinishAdding
<1>2. CASE ApplyReadOrder(w)
  <2>1. CASE Throw(w)
    BY <2>1, <1>b DEF Throw
  <2>2. CASE ~Throw(w)
    <3>1. /\ \A v \in Workers \ {w} : pc'[v] = pc[v] /\ linked'[v] = linked[v]
          /\ linked'[w] = listed
      BY <1>2, <2>2 DEF ApplyReadOrder, TypeOK
    <3>2. QED
      BY <1>0, <1>a, <3>1
  <2>3. QED
    BY <2>1, <2>2
<1>3. CASE ApplyUpdateOrder(w) \/ UpdatePayment(w) \/ ExpirePendingPayments(w)
  BY <1>3, <1>c DEF ApplyUpdateOrder, UpdatePayment, ExpirePendingPayments
<1>4. CASE FindEntry(w)
  <2>1. /\ pc[w] = "findEntry" /\ UNCHANGED linked
        /\ \A v \in Workers \ {w} : pc'[v] = pc[v]
    BY <1>4 DEF FindEntry, TypeOK
  <2>2. QED
    BY <1>0, <1>a, <2>1 DEF LinkedOK
<1>5. CASE WebhookCommit(w) \/ \E p \in WalletPayments : WalletCommit(w, p)
  BY <1>5, <1>b, <1>c DEF WebhookCommit, WalletCommit, Finish
<1>6. CASE ReserveInventoryForOrder(w)
  BY <1>6, <1>b, <1>c DEF ReserveInventoryForOrder, Throw, Finish
<1>7. CASE AutoDeliveryRead(w) \/ AutoDeliveryWrite(w)
  BY <1>7, <1>c DEF AutoDeliveryRead, AutoDeliveryWrite
<1>8. ASSUME NEW new, NEW label \in {"idle", "scheduleRelease", "scheduleAutoComplete",
                                    "cancelRelease"},
             CommitStatus(w, new, label)
      PROVE  LinkedOK'
  BY <1>8, <1>b, <1>c DEF CommitStatus, Finish
<1>9. CASE \/ CancelOrderWrite(w) \/ ExpirationWrite(w) \/ MarkDeliveredWrite(w)
           \/ ConfirmReceiptWrite(w) \/ AutoCompleteWrite(w) \/ OpenDisputeWrite(w)
  BY <1>9, <1>8, <1>b
     DEF CancelOrderWrite, ExpirationWrite, MarkDeliveredWrite, ConfirmReceiptWrite,
         AutoCompleteWrite, OpenDisputeWrite, Throw
<1>10. QED
  BY <1>1, <1>2, <1>3, <1>4, <1>5, <1>6, <1>7, <1>9 DEF Step

LEMMA OtherLinked ==
    ASSUME TypeOK, LinkedOK, [Next]_vars, \A w \in Workers : ~Step(w)
    PROVE  LinkedOK'
<1> USE DEF OrderReadPcs
<1>0. listed' => listed
  BY ReservedStays
<1>b. ASSUME NEW w \in Workers, Leave(w) PROVE LinkedOK'
  BY <1>0, <1>b DEF Leave, LinkedOK, TypeOK
<1>c. ASSUME UNCHANGED <<pc, linked>> PROVE LinkedOK'
  BY <1>0, <1>c DEF LinkedOK
<1>d. ASSUME NEW w \in Workers, NEW c, NEW label, Begin(w, c, label), label \notin OrderReadPcs
      PROVE  LinkedOK'
  BY <1>0, <1>d DEF Begin, LinkedOK, TypeOK
<1>1. ASSUME NEW w \in Workers, Request(w) PROVE LinkedOK'
  BY <1>1, <1>d
     DEF Request, CreateOrder, CreatePixChargeForOrder, PayOrderWithBalance, CancelOrderRead,
         MarkDeliveredRead, ConfirmReceiptRead, OpenDisputeRead, BeginWrite
<1>2. ASSUME NEW w \in Workers, Fault(w) PROVE LinkedOK'
  BY <1>2, <1>b DEF Fault, Crash, StatementFails, DeadlockVictim, Throw, Finish
<1>3. ASSUME NEW w \in Workers, NEW o \in Orders, JobOfOrder(w, o) PROVE LinkedOK'
  BY <1>3, <1>c, <1>d DEF JobOfOrder, ExpirationRead, AutoCompleteRead, DropJob, handlerVars
<1>4. ASSUME NEW w \in Workers, NEW e \in Events,
             RegisterEfiWebhook(w, e) \/ StartWebhook(w, e)
      PROVE  LinkedOK'
  BY <1>4, <1>c, <1>d DEF RegisterEfiWebhook, StartWebhook, DropJob, handlerVars
<1>5. CASE \/ \E p \in Pix : PayPix(p)
           \/ \E j \in JobIds : StallJob(j)
           \/ EditListing \/ UNCHANGED vars
  BY <1>5, <1>c
     DEF PayPix, StallJob, EditListing, RemoveInventoryItem, AddInventoryItem, DeleteListing,
         vars, handlerVars
<1>6. QED
  BY <1>1, <1>2, <1>3, <1>4, <1>5 DEF Next

\* A step of one handler keeps the invariant if it goes on only to what has its item.
LEMMA ItemFrame ==
    ASSUME TypeOK, [Next]_vars, ItemsOK, DeliveredHasItem, NEW w \in Workers,
           \A v \in Workers \ {w} : pc'[v] = pc[v] /\ ctx'[v] = ctx[v],
           pc'[w] \in ItemPcs => HasItemNext(ctx'[w].order),
           \A o \in Orders : status'[o] \in HandedOver /\ status'[o] # status[o] => HasItemNext(o)
    PROVE  ItemsOK' /\ DeliveredHasItem'
<1>1. listed' => listed /\ reserved \subseteq reserved'
  BY ReservedStays
<1>2. DeliveredHasItem'
  <2>1. ASSUME listed', NEW o \in Orders, NeedsItem(o), status'[o] \in HandedOver
        PROVE  o \in reserved'
    <3>1. CASE status'[o] = status[o]
      BY <1>1, <2>1, <3>1 DEF DeliveredHasItem, HandedOver, NeedsItem
    <3>2. CASE status'[o] # status[o]
      BY <2>1, <3>2 DEF HasItemNext
    <3>3. QED
      BY <3>1, <3>2
  <2>2. QED
    BY <2>1 DEF DeliveredHasItem, HandedOver, NeedsItem, IsAuto, HasItems
<1>3. ASSUME NEW v \in Workers, pc'[v] \in ItemPcs
      PROVE  HasItemNext(ctx'[v].order)
  <2>1. CASE v = w
    BY <1>3, <2>1
  <2>2. CASE v # w
    BY <1>1, <1>3, <2>2 DEF ItemsOK, HasItem, HasItemNext
  <2>3. QED
    BY <2>1, <2>2
<1>4. ItemsOK'
  BY <1>3 DEF ItemsOK, HasItem, HasItemNext, NeedsItem, IsAuto, HasItems
<1>5. QED
  BY <1>2, <1>4

LEMMA StepItem ==
    ASSUME TypeOK, Known, [Next]_vars, LinkedOK, ItemsOK, DeliveredHasItem,
           NEW w \in Workers, Step(w)
    PROVE  ItemsOK' /\ DeliveredHasItem'
<1> USE DEF ItemPcs, HandedOver
<1>a. pc[w] \in ItemPcs => HasItemNext(ctx[w].order)
  BY ReservedStays DEF ItemsOK, HasItem, HasItemNext
<1>b. ASSUME Leave(w), UNCHANGED status
      PROVE  ItemsOK' /\ DeliveredHasItem'
  <2>1. pc'[w] = "idle" /\ \A v \in Workers \ {w} : pc'[v] = pc[v] /\ ctx'[v] = ctx[v]
    BY <1>b DEF Leave, TypeOK
  <2>2. QED
    BY <1>b, <2>1, ItemFrame
<1>c. ASSUME NEW label, Goto(w, label), UNCHANGED status,
             label \in ItemPcs => pc[w] \in ItemPcs
      PROVE  ItemsOK' /\ DeliveredHasItem'
  <2>1. /\ pc'[w] = label /\ ctx' = ctx
        /\ \A v \in Workers \ {w} : pc'[v] = pc[v] /\ ctx'[v] = ctx[v]
    BY <1>c DEF Goto, TypeOK
  <2>2. QED
    BY <1>a, <1>c, <2>1, ItemFrame
<1>d. ASSUME NEW new, NEW label \in {"idle", "scheduleRelease", "scheduleAutoComplete",
                                    "cancelRelease"},
             CommitStatus(w, new, label), new = "CANCELLED" \/ pc[w] \in ItemPcs
      PROVE  ItemsOK' /\ DeliveredHasItem'
  <2>1. /\ \A v \in Workers \ {w} : pc'[v] = pc[v] /\ ctx'[v] = ctx[v]
        /\ pc'[w] \in {"idle", label}
    BY <1>d DEF CommitStatus, Finish, Leave, Goto, TypeOK
  <2>2. \A o \in Orders : status'[o] # status[o] => o = ctx[w].order /\ status'[o] = new
    BY <1>d DEF CommitStatus, WriteStatus, TypeOK
  <2>3. QED
    BY <1>a, <1>d, <2>1, <2>2, ItemFrame
<1>e. ASSUME Committed(w),
             \A o \in Orders : status'[o] # status[o]
                 => status'[o] = "IN_DELIVERY" \/ HasItemNext(o)
      PROVE  ItemsOK' /\ DeliveredHasItem'
  <2>1. pc'[w] \notin ItemPcs /\ \A v \in Workers \ {w} : pc'[v] = pc[v] /\ ctx'[v] = ctx[v]
    BY <1>e DEF Committed
  <2>2. QED
    BY <1>e, <2>1, ItemFrame
<1>1. CASE \/ ScheduleOrderExpiration(w) \/ FindPendingCharge(w) \/ EnqueueProcessing(w)
           \/ ScheduleAutoComplete(w) \/ ScheduleSettlementRelease(w) \/ CancelRelease(w)
           \/ \E p \in Pix : InsertPixCharge(w, p)
  BY <1>1, <1>b, <1>c
     DEF ScheduleOrderExpiration, FindPendingCharge, EnqueueProcessing, ScheduleAutoComplete,
         ScheduleSettlementRelease, CancelRelease, InsertPixCharge, FinishAdding, dbVars
<1>2. CASE ApplyReadOrder(w)
  <2>1. CASE Throw(w)
    BY <2>1, <1>b DEF Throw, dbVars
  <2>2. CASE ~Throw(w)
    <3>1. /\ pc'[w] \in {"applyUpdate", AfterApply(w)}
          /\ \A v \in Workers \ {w} : pc'[v] = pc[v] /\ ctx'[v] = ctx[v]
          /\ UNCHANGED status
      BY <1>2, <2>2 DEF ApplyReadOrder, dbVars, TypeOK
    <3>2. QED
      BY <3>1, ItemFrame DEF AfterApply
  <2>3. QED
    BY <2>1, <2>2
<1>3. CASE ApplyUpdateOrder(w) \/ UpdatePayment(w) \/ ExpirePendingPayments(w)
  BY <1>3, <1>c DEF ApplyUpdateOrder, UpdatePayment, ExpirePendingPayments, AfterApply, dbVars
<1>4. CASE FindEntry(w)
  <2>1. /\ pc'[w] = "webhookCommit" /\ UNCHANGED status
        /\ \A v \in Workers \ {w} : pc'[v] = pc[v] /\ ctx'[v] = ctx[v]
    BY <1>4 DEF FindEntry, dbVars, TypeOK
  <2>2. QED
    BY <2>1, ItemFrame
<1>5. CASE WebhookCommit(w)
  <2>1. Committed(w)
    BY <1>5, CommittedFacts DEF WebhookCommit
  <2>2. ASSUME NEW o \in Orders, status'[o] # status[o]
        PROVE  status'[o] = "IN_DELIVERY" \/ ~HasItems(o)
    BY <1>5, <2>2 DEF WebhookCommit, WriteStatus, CreditsTopup, TypeOK
  <2>3. QED
    BY <1>e, <2>1, <2>2 DEF HasItemNext, NeedsItem
<1>6. ASSUME NEW p \in WalletPayments, WalletCommit(w, p)
      PROVE  ItemsOK' /\ DeliveredHasItem'
  BY <1>6, <1>e, CommittedFacts DEF WalletCommit, TypeOK
<1>7. CASE ReserveInventoryForOrder(w)
  <2>1. CASE Throw(w) \/ Finish(w)
    BY <1>7, <2>1, <1>b DEF ReserveInventoryForOrder, Throw, Finish, dbVars
  <2>2. CASE ~(Throw(w) \/ Finish(w))
    <3>1. Goto(w, "autoDeliverRead") /\ HasItemNext(ctx[w].order) /\ UNCHANGED status
      <4>1. listed' => linked[w]
        BY <1>7, ReservedStays DEF ReserveInventoryForOrder, LinkedOK, OrderReadPcs
      <4>2. QED
        BY <1>7, <2>2, <4>1
           DEF ReserveInventoryForOrder, AsksForItem, HasItemNext, NeedsItem
    <3>2. /\ pc'[w] = "autoDeliverRead" /\ ctx' = ctx
          /\ \A v \in Workers \ {w} : pc'[v] = pc[v] /\ ctx'[v] = ctx[v]
      BY <3>1 DEF Goto, TypeOK
    <3>3. QED
      BY <3>1, <3>2, ItemFrame
  <2>3. QED
    BY <2>1, <2>2
<1>8. CASE AutoDeliveryRead(w)
  BY <1>8, <1>c DEF AutoDeliveryRead, dbVars
<1>9. CASE AutoDeliveryWrite(w)
  <2>1. /\ pc[w] = "autoDeliverWrite" /\ pc'[w] = "scheduleAutoComplete"
        /\ \A v \in Workers \ {w} : pc'[v] = pc[v] /\ ctx'[v] = ctx[v]
        /\ \A o \in Orders : status'[o] # status[o] => o = ctx[w].order
    BY <1>9 DEF AutoDeliveryWrite, Goto, WriteStatus, TypeOK
  <2>2. QED
    BY <1>a, <2>1, ItemFrame
<1>10. CASE \/ CancelOrderWrite(w) \/ ExpirationWrite(w) \/ MarkDeliveredWrite(w)
            \/ ConfirmReceiptWrite(w) \/ AutoCompleteWrite(w)
  BY <1>10, <1>d
     DEF CancelOrderWrite, ExpirationWrite, MarkDeliveredWrite, ConfirmReceiptWrite,
         AutoCompleteWrite
<1>11. CASE OpenDisputeWrite(w)
  <2>1. CASE Throw(w)
    BY <2>1, <1>b DEF Throw, dbVars
  <2>2. CASE CommitStatus(w, "DISPUTED", "cancelRelease")
    BY <1>11, <2>2, <1>d DEF OpenDisputeWrite
  <2>3. QED
    BY <1>11, <2>1, <2>2 DEF OpenDisputeWrite
<1>12. QED
  BY <1>1, <1>2, <1>3, <1>4, <1>5, <1>6, <1>7, <1>8, <1>9, <1>10, <1>11 DEF Step

LEMMA OtherItem ==
    ASSUME TypeOK, [Next]_vars, ItemsOK, DeliveredHasItem, \A w \in Workers : ~Step(w)
    PROVE  ItemsOK' /\ DeliveredHasItem'
<1> USE DEF ItemPcs, HandedOver
<1>b. ASSUME NEW w \in Workers, Leave(w), UNCHANGED status
      PROVE  ItemsOK' /\ DeliveredHasItem'
  <2>1. pc'[w] = "idle" /\ \A v \in Workers \ {w} : pc'[v] = pc[v] /\ ctx'[v] = ctx[v]
    BY <1>b DEF Leave, TypeOK
  <2>2. QED
    BY <1>b, <2>1, ItemFrame
<1>c. ASSUME UNCHANGED <<pc, ctx, status>>
      PROVE  ItemsOK' /\ DeliveredHasItem'
  BY <1>c, ReservedStays DEF ItemsOK, HasItem, NeedsItem, IsAuto, HasItems, DeliveredHasItem
<1>d. ASSUME NEW w \in Workers, NEW c \in Ctx, NEW label, Begin(w, c, label),
             label \in ItemPcs
               => c.order \in Orders /\ (status[c.order] \in HandedOver \/ ~IsAuto(c.order)),
             \A o \in Orders : status'[o] \in HandedOver => status'[o] = status[o]
      PROVE  ItemsOK' /\ DeliveredHasItem'
  <2>1. /\ pc'[w] = label /\ ctx'[w] = c
        /\ \A v \in Workers \ {w} : pc'[v] = pc[v] /\ ctx'[v] = ctx[v]
    BY <1>d DEF Begin, TypeOK
  <2>2. label \in ItemPcs => HasItemNext(c.order)
    BY <1>d, ReservedStays DEF DeliveredHasItem, HasItemNext, NeedsItem
  <2>3. QED
    BY <1>d, <2>1, <2>2, ItemFrame
<1>e. ASSUME NEW o \in Orders
      PROVE  /\ ForOrder(o) \in Ctx /\ ForOrder(o).order = o
             /\ \A j \in JobIds : ForJob(o, j) \in Ctx /\ ForJob(o, j).order = o
  BY CtxType DEF ForOrder, ForJob, Serving
<1>1. ASSUME NEW w \in Workers, Request(w) PROVE ItemsOK' /\ DeliveredHasItem'
  <2> PICK o \in Orders :
        \/ CreateOrder(w, o) \/ CreatePixChargeForOrder(w, o) \/ PayOrderWithBalance(w, o)
        \/ CancelOrderRead(w, o) \/ MarkDeliveredRead(w, o) \/ ConfirmReceiptRead(w, o)
        \/ OpenDisputeRead(w, o)
    BY <1>1 DEF Request
  <2>1. CASE CreateOrder(w, o)
    BY <2>1, <1>d, <1>e DEF CreateOrder, TypeOK
  <2>2. CASE CreatePixChargeForOrder(w, o)
    BY <2>2, <1>d, <1>e DEF CreatePixChargeForOrder, dbVars
  <2>3. CASE PayOrderWithBalance(w, o)
    BY <2>3, <1>d, CtxType DEF PayOrderWithBalance, dbVars
  <2>4. CASE \/ CancelOrderRead(w, o) \/ MarkDeliveredRead(w, o) \/ ConfirmReceiptRead(w, o)
             \/ OpenDisputeRead(w, o)
    BY <2>4, <1>d, <1>e
       DEF CancelOrderRead, MarkDeliveredRead, ConfirmReceiptRead, OpenDisputeRead, BeginWrite,
           dbVars
  <2>5. QED
    BY <2>1, <2>2, <2>3, <2>4
<1>2. ASSUME NEW w \in Workers, Fault(w) PROVE ItemsOK' /\ DeliveredHasItem'
  BY <1>2, <1>b DEF Fault, Crash, StatementFails, DeadlockVictim, Throw, Finish, dbVars
<1>3. ASSUME NEW w \in Workers, NEW o \in Orders, JobOfOrder(w, o)
      PROVE  ItemsOK' /\ DeliveredHasItem'
  <2>1. <<"expire", o>> \in JobIds /\ <<"autoComplete", o>> \in JobIds
    OBVIOUS
  <2>2. CASE ExpirationRead(w, o)
    BY <2>1, <2>2, <1>c, <1>d, <1>e
       DEF ExpirationRead, TakeJob, DropJob, dbVars, handlerVars
  <2>3. CASE AutoCompleteRead(w, o)
    BY <2>1, <2>3, <1>c, <1>d, <1>e
       DEF AutoCompleteRead, TakeJob, DropJob, dbVars, handlerVars
  <2>4. QED
    BY <1>3, <2>2, <2>3 DEF JobOfOrder
<1>4. ASSUME NEW w \in Workers, NEW e \in Events,
             RegisterEfiWebhook(w, e) \/ StartWebhook(w, e)
      PROVE  ItemsOK' /\ DeliveredHasItem'
  <2>1. CASE UNCHANGED <<pc, ctx>>
    BY <1>4, <2>1, <1>c DEF RegisterEfiWebhook, StartWebhook
  <2>2. CASE ~UNCHANGED <<pc, ctx>>
    <3>1. /\ pc'[w] \in {"enqueue", "applyRead"} /\ UNCHANGED status
          /\ \A v \in Workers \ {w} : pc'[v] = pc[v] /\ ctx'[v] = ctx[v]
      BY <1>4, <2>2 DEF RegisterEfiWebhook, StartWebhook, DropJob, Begin, handlerVars, TypeOK
    <3>2. QED
      BY <3>1, ItemFrame
  <2>3. QED
    BY <2>1, <2>2
<1>5. CASE \/ \E p \in Pix : PayPix(p)
           \/ \E j \in JobIds : StallJob(j)
           \/ EditListing \/ UNCHANGED vars
  BY <1>5, <1>c
     DEF PayPix, StallJob, EditListing, RemoveInventoryItem, AddInventoryItem, DeleteListing,
         vars, dbVars, handlerVars
<1>6. QED
  BY <1>1, <1>2, <1>3, <1>4, <1>5 DEF Next

\* An order of an AUTO listing that is delivered, completed or disputed has its inventory
\* item as long as the listing exists: the reservation comes after the commit that paid the
\* order, but before every write that hands it over, and whoever passed it without a
\* reservation had read that the listing was deleted.
THEOREM DeliveredOrdersHaveItems == Spec => []DeliveredHasItem
<1>1. Init => LinkedOK /\ ItemsOK /\ DeliveredHasItem
  BY DEF Init, LinkedOK, OrderReadPcs, ItemsOK, ItemPcs, DeliveredHasItem
<1>2. IInv /\ LinkedOK /\ ItemsOK /\ DeliveredHasItem /\ [Next]_vars
      => LinkedOK' /\ ItemsOK' /\ DeliveredHasItem'
  <2> SUFFICES ASSUME IInv, LinkedOK, ItemsOK, DeliveredHasItem, [Next]_vars
               PROVE  LinkedOK' /\ ItemsOK' /\ DeliveredHasItem'
    OBVIOUS
  <2>1. TypeOK /\ Known /\ HandlersOK
    BY DEF IInv, Known
  <2>2. LinkedOK'
    BY <2>1, StepLinked, OtherLinked
  <2>3. ItemsOK' /\ DeliveredHasItem'
    BY <2>1, StepItem, OtherItem
  <2>4. QED
    BY <2>2, <2>3
<1>3. QED
  BY <1>1, <1>2, Inductive, PTL DEF Spec
=============================================================================
