------------------------ MODULE OrderProgressProofs ------------------------
(* What TLAPS proves about OrderPayments across its handlers and jobs: what waits for a
   job or a handler is never forgotten, and concurrent wallet payments overdraw a
   balance by no more than the handlers in flight. *)
EXTENDS OrderPaymentsProofs, FiniteSetTheorems

USE DEF Payments, Rows, Events, JobIds, stockVars

-----------------------------------------------------------------------------
(* How a step moves one handler *)

OthersRest(w) == \A v \in Workers \ {w} : pc'[v] = pc[v] /\ ctx'[v] = ctx[v]

\* The statement a handler goes on to.
Flow(w, to) ==
    \/ pc[w] = "scheduleExpire" /\ to = "findPending"
    \/ pc[w] = "findPending" /\ to = "insertPix"
    \/ pc[w] = "applyRead" /\ to \in {"applyUpdate", AfterApply(w)}
    \/ pc[w] = "applyUpdate" /\ to = AfterApply(w)
    \/ pc[w] = "updatePayment" /\ to = "findEntry"
    \/ pc[w] = "findEntry" /\ to = "webhookCommit"
    \/ pc[w] = "expirePending" /\ to = "applyRead"
    \/ pc[w] \in {"webhookCommit", "walletCommit"} /\ to = "reserve"
    \/ pc[w] = "reserve" /\ to = "autoDeliverRead"
    \/ pc[w] = "autoDeliverRead" /\ to \in {"autoDeliverWrite", "scheduleAutoComplete"}
    \/ pc[w] \in {"autoDeliverWrite", "deliveredWrite"} /\ to = "scheduleAutoComplete"
    \/ pc[w] \in {"receiptWrite", "autoCompleteWrite"} /\ to = "scheduleRelease"
    \/ pc[w] = "disputeWrite" /\ to = "cancelRelease"

\* The handler ends or goes on with what it serves.
Moves(w) ==
    /\ OthersRest(w)
    /\ \/ pc'[w] = "idle" /\ ctx'[w] = NoCtx
       \/ ctx'[w] = ctx[w] /\ Flow(w, pc'[w])

LEMMA LeaveMoves ==
    ASSUME TypeOK, NEW w \in Workers, Leave(w)
    PROVE  OthersRest(w) /\ pc'[w] = "idle" /\ ctx'[w] = NoCtx
BY DEF TypeOK, Leave, OthersRest

LEMMA BeginMoves ==
    ASSUME TypeOK, NEW w \in Workers, NEW c, NEW label, Begin(w, c, label)
    PROVE  OthersRest(w) /\ pc'[w] = label /\ ctx'[w] = c
BY DEF TypeOK, Begin, OthersRest

LEMMA GotoMoves ==
    ASSUME TypeOK, NEW w \in Workers, NEW label, Goto(w, label)
    PROVE  OthersRest(w) /\ pc'[w] = label /\ ctx'[w] = ctx[w]
BY DEF TypeOK, Goto, OthersRest

\* A handler that ends moves; so does one that goes on to its next statement.
LEMMA LeaveIsMove ==
    ASSUME TypeOK, NEW w \in Workers, Leave(w)
    PROVE  Moves(w)
BY LeaveMoves DEF Moves

LEMMA GotoIsMove ==
    ASSUME TypeOK, NEW w \in Workers, NEW label, Goto(w, label), Flow(w, label)
    PROVE  Moves(w)
BY GotoMoves DEF Moves

LEMMA StepFlow ==
    ASSUME TypeOK, NEW w \in Workers, Step(w)
    PROVE  Moves(w)
<1>1. CASE \/ ScheduleOrderExpiration(w) \/ FindPendingCharge(w)
           \/ \E p \in Pix : InsertPixCharge(w, p)
           \/ EnqueueProcessing(w)
  BY <1>1, LeaveIsMove, GotoIsMove
     DEF ScheduleOrderExpiration, FindPendingCharge, InsertPixCharge, EnqueueProcessing, Flow
<1>2. CASE ApplyReadOrder(w)
  <2>1. CASE Throw(w)
    BY <2>1, LeaveIsMove DEF Throw
  <2>2. CASE ~Throw(w)
    <3>1. /\ pc[w] = "applyRead" /\ ctx' = ctx
          /\ \E label \in {"applyUpdate", AfterApply(w)} : pc' = [pc EXCEPT ![w] = label]
      BY <1>2, <2>2 DEF ApplyReadOrder
    <3>2. QED
      BY <3>1 DEF Moves, OthersRest, Flow, TypeOK
  <2>3. QED
    BY <2>1, <2>2
<1>3. CASE ApplyUpdateOrder(w)
  BY <1>3, GotoIsMove DEF ApplyUpdateOrder, Flow
<1>4. CASE UpdatePayment(w)
  BY <1>4, GotoIsMove DEF UpdatePayment, Flow
<1>5. CASE FindEntry(w)
  BY <1>5 DEF FindEntry, Moves, OthersRest, Flow, TypeOK
<1>6. CASE WebhookCommit(w)
  BY <1>6, LeaveIsMove, GotoIsMove DEF WebhookCommit, Finish, Flow
<1>7. CASE ExpirePendingPayments(w)
  BY <1>7, GotoIsMove DEF ExpirePendingPayments, Flow
<1>8. CASE \E p \in WalletPayments : WalletCommit(w, p)
  BY <1>8, LeaveIsMove, GotoIsMove DEF WalletCommit, Finish, Flow
<1>9. CASE ReserveInventoryForOrder(w)
  BY <1>9, LeaveIsMove, GotoIsMove DEF ReserveInventoryForOrder, Finish, Throw, Flow
<1>10. CASE AutoDeliveryRead(w)
  BY <1>10, GotoIsMove DEF AutoDeliveryRead, Flow
<1>11. CASE AutoDeliveryWrite(w)
  BY <1>11, GotoIsMove DEF AutoDeliveryWrite, Flow
<1>12. CASE ScheduleAutoComplete(w) \/ ScheduleSettlementRelease(w) \/ CancelRelease(w)
  BY <1>12, LeaveIsMove DEF ScheduleAutoComplete, ScheduleSettlementRelease, CancelRelease, FinishAdding
<1>13. CASE CancelOrderWrite(w) \/ ExpirationWrite(w)
  BY <1>13, LeaveIsMove DEF CancelOrderWrite, ExpirationWrite, CommitStatus, Finish
<1>14. CASE MarkDeliveredWrite(w)
  BY <1>14, GotoIsMove DEF MarkDeliveredWrite, CommitStatus, Flow
<1>15. CASE ConfirmReceiptWrite(w) \/ AutoCompleteWrite(w)
  BY <1>15, GotoIsMove DEF ConfirmReceiptWrite, AutoCompleteWrite, CommitStatus, Flow
<1>16. CASE OpenDisputeWrite(w)
  BY <1>16, LeaveIsMove, GotoIsMove DEF OpenDisputeWrite, CommitStatus, Throw, Flow
<1>17. QED
  BY <1>1, <1>2, <1>3, <1>4, <1>5, <1>6, <1>7, <1>8, <1>9, <1>10, <1>11, <1>12, <1>13, <1>14,
     <1>15, <1>16 DEF Step

\* What a handler does next, by the statement it has come to.
LEMMA StepAt ==
    ASSUME NEW w \in Workers, Step(w)
    PROVE  /\ pc[w] = "scheduleExpire" => ScheduleOrderExpiration(w)
           /\ pc[w] = "expireWrite" => ExpirationWrite(w)
           /\ pc[w] = "webhookCommit" => WebhookCommit(w)
           /\ pc[w] = "reserve" => ReserveInventoryForOrder(w)
           /\ pc[w] = "autoDeliverRead" => AutoDeliveryRead(w)
           /\ pc[w] = "autoDeliverWrite" => AutoDeliveryWrite(w)
BY DEF Step, ScheduleOrderExpiration, FindPendingCharge, InsertPixCharge,
     EnqueueProcessing, ApplyReadOrder, ApplyUpdateOrder, UpdatePayment, FindEntry,
     ExpirePendingPayments, WalletCommit, WebhookCommit, ReserveInventoryForOrder, AutoDeliveryRead,
     AutoDeliveryWrite, ScheduleAutoComplete, CancelOrderWrite, ExpirationWrite,
     MarkDeliveredWrite, ConfirmReceiptWrite, AutoCompleteWrite, ScheduleSettlementRelease,
     OpenDisputeWrite, CancelRelease

\* A fault ends its handler.
LEMMA FaultFlow ==
    ASSUME TypeOK, NEW w \in Workers, Fault(w)
    PROVE  OthersRest(w) /\ pc'[w] = "idle" /\ ctx'[w] = NoCtx
<1>1. Leave(w)
  BY DEF Fault, Crash, StatementFails, DeadlockVictim, Throw, Finish
<1>2. QED
  BY <1>1, LeaveMoves

\* The statements of a wallet payment between the check of the balance and the commit.
Paying == {"expirePending", "applyRead", "applyUpdate", "walletCommit"}

\* A request or a job that starts takes an idle handler.
Starts(w) ==
    /\ pc[w] = "idle" /\ OthersRest(w)
    /\ \/ pc'[w] = "idle" /\ ctx'[w] = ctx[w]
       \/ \E o \in Orders : ctx'[w] = ForOrder(o) /\ pc'[w] \notin {"expireWrite"} \cup Paying \cup Confirming \cup SideEffects
       \/ \E o \in Orders : /\ ExpirationRead(w, o) /\ pc'[w] = "expireWrite"
                            /\ ctx'[w] = ForJob(o, <<"expire", o>>)
       \/ \E o \in Orders : /\ ctx'[w] = ForJob(o, <<"autoComplete", o>>)
                            /\ pc'[w] \in {"autoCompleteWrite", "scheduleRelease"}
       \/ \E e \in Events : ctx'[w] = Serving("request", None, None, "NONE", e, None) /\ pc'[w] = "enqueue"
       \/ \E e \in Events : /\ StartWebhook(w, e) /\ pc'[w] = "applyRead"
                            /\ ctx'[w] = Serving("webhook", payOrder[e[1]], e[1], payStatus[e[1]], e, <<"efi", e>>)
       \/ \E o \in Orders : /\ PayOrderWithBalance(w, o) /\ pc'[w] = "expirePending"
                            /\ ctx'[w] = Serving("wallet", o, None, "NONE", None, None)

LEMMA RequestStarts ==
    ASSUME TypeOK, NEW w \in Workers, Request(w)
    PROVE  Starts(w) /\ UNCHANGED jobs
<1> USE DEF Paying, Confirming, Crediting, SideEffects
<1>1. PICK o \in Orders :
        \/ CreateOrder(w, o) \/ CreatePixChargeForOrder(w, o) \/ PayOrderWithBalance(w, o)
        \/ CancelOrderRead(w, o) \/ MarkDeliveredRead(w, o) \/ ConfirmReceiptRead(w, o)
        \/ OpenDisputeRead(w, o)
  BY DEF Request
<1>2. ASSUME NEW label \in {"scheduleExpire", "findPending", "cancelWrite", "deliveredWrite",
                            "receiptWrite", "disputeWrite"},
             pc[w] = "idle", Begin(w, ForOrder(o), label)
      PROVE  Starts(w)
  BY <1>2, BeginMoves DEF Starts
<1>3. CASE CreateOrder(w, o) \/ CreatePixChargeForOrder(w, o)
  BY <1>2, <1>3 DEF CreateOrder, CreatePixChargeForOrder
<1>4. CASE PayOrderWithBalance(w, o)
  <2>1. /\ pc[w] = "idle" /\ UNCHANGED jobs
        /\ Begin(w, Serving("wallet", o, None, "NONE", None, None), "expirePending")
    BY <1>4 DEF PayOrderWithBalance
  <2>2. QED
    BY <1>4, <2>1, BeginMoves DEF Starts
<1>5. CASE \/ CancelOrderRead(w, o) \/ MarkDeliveredRead(w, o) \/ ConfirmReceiptRead(w, o)
           \/ OpenDisputeRead(w, o)
  BY <1>2, <1>5 DEF CancelOrderRead, MarkDeliveredRead, ConfirmReceiptRead, OpenDisputeRead, BeginWrite
<1>6. QED
  BY <1>1, <1>3, <1>4, <1>5

LEMMA JobStarts ==
    ASSUME TypeOK, NEW w \in Workers, NEW o \in Orders, JobOfOrder(w, o)
    PROVE  Starts(w)
<1>1. CASE UNCHANGED handlerVars
  BY <1>1 DEF JobOfOrder, ExpirationRead, AutoCompleteRead, TakeJob, DropJob, handlerVars, Starts, OthersRest
<1>2. CASE ExpirationRead(w, o) /\ ~UNCHANGED handlerVars
  <2>1. pc[w] = "idle" /\ Begin(w, ForJob(o, <<"expire", o>>), "expireWrite")
    BY <1>2 DEF ExpirationRead, TakeJob, DropJob
  <2>2. OthersRest(w) /\ pc'[w] = "expireWrite" /\ ctx'[w] = ForJob(o, <<"expire", o>>)
    BY ONLY TypeOK, w \in Workers, <2>1, BeginMoves
  <2>3. QED
    BY ONLY <1>2, <2>1, <2>2, o \in Orders DEF Starts
<1>3. CASE AutoCompleteRead(w, o) /\ ~UNCHANGED handlerVars
  <2>1. /\ pc[w] = "idle"
        /\ \E label \in {"autoCompleteWrite", "scheduleRelease"} :
               Begin(w, ForJob(o, <<"autoComplete", o>>), label)
    BY <1>3 DEF AutoCompleteRead, TakeJob, DropJob
  <2>2. QED
    BY <2>1, BeginMoves DEF Starts
<1>4. QED
  BY <1>1, <1>2, <1>3 DEF JobOfOrder

LEMMA WebhookStarts ==
    ASSUME TypeOK, NEW w \in Workers, NEW e \in Events, RegisterEfiWebhook(w, e) \/ StartWebhook(w, e)
    PROVE  Starts(w)
<1>1. CASE UNCHANGED handlerVars
  BY <1>1 DEF RegisterEfiWebhook, StartWebhook, TakeJob, DropJob, handlerVars, Starts, OthersRest
<1>2. CASE RegisterEfiWebhook(w, e) /\ ~UNCHANGED handlerVars
  <2>1. pc[w] = "idle" /\ Begin(w, Serving("request", None, None, "NONE", e, None), "enqueue")
    BY <1>2 DEF RegisterEfiWebhook
  <2>2. QED
    BY <2>1, BeginMoves DEF Starts
<1>3. CASE StartWebhook(w, e) /\ ~UNCHANGED handlerVars
  <2>1. /\ pc[w] = "idle"
        /\ Begin(w, Serving("webhook", payOrder[e[1]], e[1], payStatus[e[1]], e, <<"efi", e>>), "applyRead")
    BY <1>3 DEF StartWebhook, TakeJob, DropJob
  <2>2. /\ OthersRest(w) /\ pc'[w] = "applyRead"
        /\ ctx'[w] = Serving("webhook", payOrder[e[1]], e[1], payStatus[e[1]], e, <<"efi", e>>)
    BY ONLY TypeOK, w \in Workers, <2>1, BeginMoves
  <2>3. StartWebhook(w, e)
    BY <1>3
  <2>4. QED
    BY ONLY <2>1, <2>2, <2>3, e \in Events DEF Starts
<1>4. QED
  BY <1>1, <1>2, <1>3

\* Every step moves one handler: it goes on or ends, is ended by a fault, or starts; or it
\* moves none.
LEMMA OneMoves ==
    ASSUME TypeOK, [Next]_vars
    PROVE  \/ \E w \in Workers : Step(w) /\ Moves(w)
           \/ \E w \in Workers : Fault(w) /\ OthersRest(w) /\ pc'[w] = "idle" /\ ctx'[w] = NoCtx
           \/ \E w \in Workers : Starts(w)
           \/ UNCHANGED <<pc, ctx>>
<1>1. CASE UNCHANGED vars
  BY <1>1 DEF vars, handlerVars
<1>2. ASSUME NEW w \in Workers, NEW o \in Orders, JobOfOrder(w, o) PROVE Starts(w)
  BY <1>2, JobStarts
<1>3. ASSUME NEW w \in Workers, NEW e \in Events, RegisterEfiWebhook(w, e) \/ StartWebhook(w, e) PROVE Starts(w)
  BY <1>3, WebhookStarts
<1>4. CASE \/ \E p \in Pix : PayPix(p)
           \/ EditListing
           \/ \E j \in JobIds : StallJob(j)
  BY <1>4
     DEF PayPix, EditListing, RemoveInventoryItem, AddInventoryItem, DeleteListing, StallJob,
         handlerVars
<1>5. QED
  BY <1>1, <1>2, <1>3, <1>4, StepFlow, FaultFlow, RequestStarts DEF Next

-----------------------------------------------------------------------------
(* The balance *)

\* Wallet payments that have checked the balance and not debited it yet.
Spending == {w \in Workers : ctx[w].kind = "wallet" /\ pc[w] \in Paying}

OverdraftOK ==
    \/ balance >= Cardinality(Spending)
    \/ balance - Cardinality(Spending) >= 1 - Cardinality(Workers)

LEMMA SpendingIsFinite ==
    /\ IsFiniteSet(Spending) /\ Cardinality(Spending) \in Nat
    /\ Cardinality(Workers) \in Nat /\ Cardinality(Spending) <= Cardinality(Workers)
BY ConstantsAssumption, FS_Subset, FS_CardinalityType DEF Spending

\* A step keeps the bound if it neither starts to spend nor lowers the balance.
LEMMA SpendingFrame ==
    ASSUME TypeOK, TypeOK', OverdraftOK, Spending' \subseteq Spending, balance' >= balance
    PROVE  OverdraftOK'
<1>1. IsFiniteSet(Spending) /\ Cardinality(Spending) \in Nat
  BY SpendingIsFinite
<1>2. Cardinality(Spending') \in Nat /\ Cardinality(Spending') <= Cardinality(Spending)
  BY <1>1, FS_Subset, FS_CardinalityType
<1>3. balance \in Int /\ balance' \in Int /\ Cardinality(Workers) \in Nat
  BY SpendingIsFinite DEF TypeOK
<1>4. QED
  BY <1>1, <1>2, <1>3 DEF OverdraftOK

\* Only the two commits that book a payment change the balance.
LEMMA StepKeepsBalance ==
    ASSUME NEW w \in Workers, Step(w), ~WebhookCommit(w), ~\E p \in WalletPayments : WalletCommit(w, p)
    PROVE  UNCHANGED balance
<1>1. CASE \/ ScheduleOrderExpiration(w) \/ FindPendingCharge(w) \/ EnqueueProcessing(w)
           \/ \E p \in Pix : InsertPixCharge(w, p)
  BY <1>1 DEF ScheduleOrderExpiration, FindPendingCharge, EnqueueProcessing, InsertPixCharge, dbVars
<1>2. CASE ApplyReadOrder(w) \/ ApplyUpdateOrder(w) \/ UpdatePayment(w) \/ FindEntry(w)
           \/ ExpirePendingPayments(w)
  BY <1>2 DEF ApplyReadOrder, ApplyUpdateOrder, UpdatePayment, FindEntry, ExpirePendingPayments,
      Throw, dbVars
<1>3. CASE ReserveInventoryForOrder(w) \/ AutoDeliveryRead(w) \/ AutoDeliveryWrite(w)
           \/ ScheduleAutoComplete(w) \/ ScheduleSettlementRelease(w) \/ CancelRelease(w)
  BY <1>3 DEF ReserveInventoryForOrder, AutoDeliveryRead, AutoDeliveryWrite, ScheduleAutoComplete,
      ScheduleSettlementRelease, CancelRelease, Throw, dbVars
<1>4. CASE CancelOrderWrite(w) \/ ExpirationWrite(w) \/ MarkDeliveredWrite(w)
           \/ ConfirmReceiptWrite(w) \/ AutoCompleteWrite(w) \/ OpenDisputeWrite(w)
  BY <1>4 DEF CancelOrderWrite, ExpirationWrite, MarkDeliveredWrite, ConfirmReceiptWrite,
      AutoCompleteWrite, OpenDisputeWrite, CommitStatus, Throw, dbVars
<1>5. QED
  BY <1>1, <1>2, <1>3, <1>4 DEF Step

LEMMA StepSpends ==
    ASSUME TypeOK, TypeOK', HandlersOK, OverdraftOK, NEW w \in Workers, Step(w), Moves(w)
    PROVE  OverdraftOK'
<1>1. Spending' \subseteq Spending
  BY DEF Moves, OthersRest, Spending, Flow, Paying, AfterApply, NoCtx, Serving
<1>2. CASE \E p \in WalletPayments : WalletCommit(w, p)
  <2>1. balance' = balance - 1 /\ pc[w] = "walletCommit"
    BY <1>2 DEF WalletCommit
  <2>2. w \in Spending
    BY <2>1 DEF Spending, Paying, HandlersOK
  <2>3. w \notin Spending'
    BY <2>1 DEF Spending, Moves, Flow, Paying
  <2>4. IsFiniteSet(Spending) /\ Cardinality(Spending) \in Nat
    BY SpendingIsFinite
  <2>5. /\ IsFiniteSet(Spending \ {w}) /\ Cardinality(Spending \ {w}) = Cardinality(Spending) - 1
    BY <2>2, <2>4, FS_RemoveElement
  <2>6. Spending' \subseteq Spending \ {w}
    BY <1>1, <2>3
  <2>7. /\ Cardinality(Spending') \in Nat /\ Cardinality(Spending') <= Cardinality(Spending) - 1
    BY <2>5, <2>6, FS_Subset, FS_CardinalityType
  <2>8. balance \in Int /\ Cardinality(Workers) \in Nat
    BY SpendingIsFinite DEF TypeOK
  <2>9. QED
    BY <2>1, <2>4, <2>7, <2>8 DEF OverdraftOK
<1>3. CASE WebhookCommit(w)
  <2>1. balance' >= balance
    BY <1>3 DEF WebhookCommit, TypeOK
  <2>2. QED
    BY <1>1, <2>1, SpendingFrame
<1>4. CASE ~WebhookCommit(w) /\ ~\E p \in WalletPayments : WalletCommit(w, p)
  <2>1. UNCHANGED balance
    BY <1>4, StepKeepsBalance
  <2>2. QED
    BY <1>1, <2>1, SpendingFrame DEF TypeOK
<1>5. QED
  BY <1>2, <1>3, <1>4

\* A handler comes to spend only by the check of the balance.
LEMMA StartsToSpend ==
    ASSUME NEW w \in Workers, Starts(w), w \in Spending', w \notin Spending
    PROVE  \E o \in Orders : PayOrderWithBalance(w, o)
<1>1. ctx'[w].kind = "wallet" /\ pc'[w] \in Paying /\ pc'[w] # "idle"
  BY DEF Spending, Paying
<1>2. /\ \A o \in Orders : ctx'[w] # ForOrder(o) /\ \A j : ctx'[w] # ForJob(o, j)
      /\ \A e, o, p, q, r, j : /\ ctx'[w] # Serving("request", o, p, q, e, j)
                              /\ ctx'[w] # Serving("webhook", o, p, q, e, j)
  BY <1>1 DEF ForOrder, ForJob, Serving
<1>3. QED
  BY ONLY <1>1, <1>2, Starts(w) DEF Starts

LEMMA NextOverdraft ==
    ASSUME TypeOK, TypeOK', HandlersOK, OverdraftOK, [Next]_vars
    PROVE  OverdraftOK'
<1>1. ASSUME NEW w \in Workers, Step(w), Moves(w) PROVE OverdraftOK'
  BY <1>1, StepSpends
<1>2. CASE \E w \in Workers : Step(w)
  BY <1>1, <1>2, StepFlow
<1>3. CASE \A w \in Workers : ~Step(w)
  <2>1. UNCHANGED balance
    BY <1>3, OutsideKeeps
  <2>2. CASE Spending' \subseteq Spending
    BY <2>1, <2>2, SpendingFrame DEF TypeOK
  <2>3. CASE ~(Spending' \subseteq Spending)
    <3>1. PICK v \in Workers : v \in Spending' /\ v \notin Spending
      BY <2>3 DEF Spending
    <3>2. PICK w \in Workers : Starts(w)
      BY <1>3, <3>1, OneMoves DEF Spending, OthersRest, Paying
    <3>3. v = w
      BY <3>1, <3>2 DEF Starts, OthersRest, Spending
    <3>4. \E o \in Orders : PayOrderWithBalance(w, o)
      BY ONLY <3>1, <3>2, <3>3, StartsToSpend
    <3>5. balance >= 1
      BY <3>4 DEF PayOrderWithBalance
    <3>6. Spending' \subseteq Workers
      BY DEF Spending
    <3>7. /\ Cardinality(Spending') \in Nat /\ Cardinality(Workers) \in Nat
          /\ Cardinality(Spending') <= Cardinality(Workers)
      BY <3>6, ConstantsAssumption, FS_Subset, FS_CardinalityType
    <3>8. QED
      BY <2>1, <3>5, <3>7 DEF OverdraftOK, TypeOK
  <2>4. QED
    BY <2>2, <2>3
<1>4. QED
  BY <1>2, <1>3

\* Concurrent wallet payments overdraw a balance by fewer units than there are handlers.
THEOREM OverdraftsStayBounded == Spec => []OverdraftBounded
<1>1. Init => OverdraftOK
  <2> SUFFICES ASSUME Init PROVE OverdraftOK
    OBVIOUS
  <2>1. Spending = {}
    BY DEF Init, Spending, Paying
  <2>2. balance \in Nat
    BY ConstantsAssumption DEF Init
  <2>3. QED
    BY <2>1, <2>2, FS_EmptySet DEF OverdraftOK
<1>2. IInv /\ IInv' /\ OverdraftOK /\ [Next]_vars => OverdraftOK'
  BY NextOverdraft DEF IInv
<1>3. IInv /\ OverdraftOK => OverdraftBounded
  <2> SUFFICES ASSUME IInv, OverdraftOK PROVE OverdraftBounded
    OBVIOUS
  <2>1. balance \in Int
    BY DEF IInv, TypeOK
  <2>2. QED
    BY <2>1, SpendingIsFinite DEF OverdraftOK, OverdraftBounded
<1>4. QED
  BY <1>1, <1>2, <1>3, Inductive, PTL DEF Spec

-----------------------------------------------------------------------------
(* The jobs *)

\* What a step of handler w does to job j of the webhook or the expiration queue: it adds
\* it, or ends it because w was running it.
JobStep(w, j) ==
    \/ jobs'[j] = jobs[j]
    \/ jobs[j] = "none" /\ jobs'[j] = "waiting"
    \/ /\ jobs[j] = w /\ ctx[w].job = j
       /\ jobs'[j] = "failed" \/ (jobs'[j] = "none" /\ pc[w] \notin Confirming \ {"webhookCommit"})

Watched == ({"expire"} \X Orders) \cup ({"efi"} \X Events)

LEMMA UnchangedJobStep ==
    ASSUME NEW w, NEW j, UNCHANGED jobs
    PROVE  JobStep(w, j)
BY DEF JobStep

LEMMA EndJobStep ==
    ASSUME TypeOK, NEW w \in Workers, NEW j \in JobIds, NEW outcome \in {"none", "failed"},
           jobs' = JobEnd(w, outcome),
           outcome = "none" => pc[w] \notin Confirming \ {"webhookCommit"}
    PROVE  JobStep(w, j)
BY DEF JobStep, JobEnd, TypeOK

LEMMA AddJobStep ==
    ASSUME TypeOK, NEW w \in Workers, NEW j \in JobIds, NEW i \in JobIds, jobs' = WithJob(i)
    PROVE  JobStep(w, j)
BY DEF JobStep, WithJob, TypeOK

LEMMA FinishAddingJobStep ==
    ASSUME TypeOK, NEW w \in Workers, NEW j \in Watched, NEW kind \in {"autoComplete", "release"},
           NEW o, FinishAdding(w, <<kind, o>>), pc[w] \notin Confirming
    PROVE  JobStep(w, j)
<1>1. j \in JobIds /\ j # <<kind, o>>
  BY DEF Watched
<1>2. jobs'[j] = JobEnd(w, "none")[j]
  BY <1>1 DEF FinishAdding, JobEnd, TypeOK
<1>3. QED
  BY <1>1, <1>2 DEF JobStep, JobEnd, TypeOK

LEMMA StepJobs ==
    ASSUME TypeOK, OrdersOK, NEW w \in Workers, Step(w), NEW j \in Watched
    PROVE  JobStep(w, j)
<1> USE DEF Confirming, Crediting
<1>0. j \in JobIds
  BY DEF Watched
<1>1. CASE ScheduleOrderExpiration(w) \/ EnqueueProcessing(w)
  <2>1. PICK i \in JobIds : jobs' = WithJob(i)
    BY <1>1 DEF ScheduleOrderExpiration, EnqueueProcessing, OrdersOK
  <2>2. QED
    BY <1>0, <2>1, AddJobStep
<1>2. CASE \/ FindPendingCharge(w) \/ \E p \in Pix : InsertPixCharge(w, p)
           \/ ApplyUpdateOrder(w) \/ UpdatePayment(w) \/ FindEntry(w) \/ ExpirePendingPayments(w)
           \/ AutoDeliveryRead(w) \/ AutoDeliveryWrite(w)
  BY <1>2, UnchangedJobStep
     DEF FindPendingCharge, InsertPixCharge, ApplyUpdateOrder, UpdatePayment, FindEntry,
         ExpirePendingPayments, AutoDeliveryRead, AutoDeliveryWrite
<1>3. CASE ApplyReadOrder(w)
  BY <1>0, <1>3, UnchangedJobStep, EndJobStep DEF ApplyReadOrder, Throw
<1>4. CASE WebhookCommit(w) \/ \E p \in WalletPayments : WalletCommit(w, p)
  BY <1>0, <1>4, UnchangedJobStep, EndJobStep DEF WebhookCommit, WalletCommit, Finish
<1>5. CASE ReserveInventoryForOrder(w)
  BY <1>0, <1>5, UnchangedJobStep, EndJobStep DEF ReserveInventoryForOrder, Finish, Throw
<1>6. CASE ScheduleAutoComplete(w) \/ ScheduleSettlementRelease(w)
  BY <1>6, FinishAddingJobStep DEF ScheduleAutoComplete, ScheduleSettlementRelease
<1>7. CASE CancelRelease(w)
  BY <1>0, <1>7 DEF CancelRelease, JobStep, TypeOK, Watched
<1>8. CASE \/ CancelOrderWrite(w) \/ ExpirationWrite(w) \/ MarkDeliveredWrite(w)
           \/ ConfirmReceiptWrite(w) \/ AutoCompleteWrite(w)
  BY <1>0, <1>8, UnchangedJobStep, EndJobStep
     DEF CancelOrderWrite, ExpirationWrite, MarkDeliveredWrite, ConfirmReceiptWrite,
         AutoCompleteWrite, CommitStatus, Finish
<1>9. CASE OpenDisputeWrite(w)
  BY <1>0, <1>9, UnchangedJobStep, EndJobStep DEF OpenDisputeWrite, CommitStatus, Finish, Throw
<1>10. QED
  BY <1>1, <1>2, <1>3, <1>4, <1>5, <1>6, <1>7, <1>8, <1>9 DEF Step

\* Only the commit of a webhook writes processedAt among the statements of handlers.
LEMMA StepEvents ==
    ASSUME NEW w \in Workers, Step(w), ~WebhookCommit(w)
    PROVE  UNCHANGED events
<1>1. CASE \/ ScheduleOrderExpiration(w) \/ FindPendingCharge(w) \/ EnqueueProcessing(w)
           \/ \E p \in Pix : InsertPixCharge(w, p)
  BY <1>1 DEF ScheduleOrderExpiration, FindPendingCharge, EnqueueProcessing, InsertPixCharge, dbVars
<1>2. CASE ApplyReadOrder(w) \/ ApplyUpdateOrder(w) \/ UpdatePayment(w) \/ FindEntry(w)
           \/ ExpirePendingPayments(w) \/ \E p \in WalletPayments : WalletCommit(w, p)
  BY <1>2 DEF ApplyReadOrder, ApplyUpdateOrder, UpdatePayment, FindEntry, ExpirePendingPayments,
      WalletCommit, Throw, dbVars
<1>3. CASE ReserveInventoryForOrder(w) \/ AutoDeliveryRead(w) \/ AutoDeliveryWrite(w)
           \/ ScheduleAutoComplete(w) \/ ScheduleSettlementRelease(w) \/ CancelRelease(w)
  BY <1>3 DEF ReserveInventoryForOrder, AutoDeliveryRead, AutoDeliveryWrite, ScheduleAutoComplete,
      ScheduleSettlementRelease, CancelRelease, Throw, dbVars
<1>4. CASE CancelOrderWrite(w) \/ ExpirationWrite(w) \/ MarkDeliveredWrite(w)
           \/ ConfirmReceiptWrite(w) \/ AutoCompleteWrite(w) \/ OpenDisputeWrite(w)
  BY <1>4 DEF CancelOrderWrite, ExpirationWrite, MarkDeliveredWrite, ConfirmReceiptWrite,
      AutoCompleteWrite, OpenDisputeWrite, CommitStatus, Throw, dbVars
<1>5. QED
  BY <1>1, <1>2, <1>3, <1>4 DEF Step

\* An event row stays, and stays processed.
LEMMA EventsStay ==
    ASSUME TypeOK, [Next]_vars, NEW e \in Events
    PROVE  /\ events[e] = "processed" => events'[e] = "processed"
           /\ events[e] # "absent" => events'[e] # "absent"
<1>1. CASE UNCHANGED events
  BY <1>1
<1>2. CASE \E w \in Workers : WebhookCommit(w)
  <2>1. PICK i : events' = [events EXCEPT ![i] = "processed"]
    BY <1>2 DEF WebhookCommit
  <2>2. QED
    BY <2>1 DEF TypeOK
<1>3. CASE \E w \in Workers, i \in Events : RegisterEfiWebhook(w, i)
  <2>1. PICK w \in Workers, i \in Events : RegisterEfiWebhook(w, i)
    BY <1>3
  <2>2. CASE events[i] = "processed"
    BY <1>1, <2>1, <2>2 DEF RegisterEfiWebhook
  <2>3. CASE events[i] # "processed"
    <3>1. events' = [events EXCEPT ![i] = "received"]
      BY <2>1, <2>3 DEF RegisterEfiWebhook
    <3>2. QED
      BY <2>3, <3>1 DEF TypeOK
  <2>4. QED
    BY <2>2, <2>3
<1>4. CASE \E w \in Workers, i \in Events : StartWebhook(w, i)
  <2>1. PICK i \in Events : UNCHANGED events \/ events' = [events EXCEPT ![i] = "processed"]
    BY <1>4 DEF StartWebhook
  <2>2. QED
    BY <2>1 DEF TypeOK
<1>5. CASE \E w \in Workers : Fault(w)
  BY <1>1, <1>5 DEF Fault, Crash, StatementFails, DeadlockVictim, Throw, Finish, dbVars
<1>6. CASE \E w \in Workers : Request(w) \/ \E o \in Orders : JobOfOrder(w, o)
  <2>1. PICK w \in Workers : Request(w) \/ \E o \in Orders : JobOfOrder(w, o)
    BY <1>6
  <2>2. CASE Request(w)
    BY <1>1, <2>2
       DEF Request, CreateOrder, CreatePixChargeForOrder, PayOrderWithBalance, CancelOrderRead,
           MarkDeliveredRead, ConfirmReceiptRead, OpenDisputeRead, BeginWrite, dbVars
  <2>3. CASE \E o \in Orders : JobOfOrder(w, o)
    BY <1>1, <2>3 DEF JobOfOrder, ExpirationRead, AutoCompleteRead, dbVars
  <2>4. QED
    BY <2>1, <2>2, <2>3
<1>7. CASE \/ UNCHANGED vars \/ \E p \in Pix : PayPix(p)
           \/ EditListing \/ \E j \in JobIds : StallJob(j)
  BY <1>1, <1>7
     DEF PayPix, EditListing, RemoveInventoryItem, AddInventoryItem, DeleteListing, StallJob,
         vars, dbVars
<1>8. QED
  BY <1>1, <1>2, <1>3, <1>4, <1>5, <1>6, <1>7, StepEvents DEF Next

\* A webhook job leaves the queue only with its event processed.
LEMMA WebhookJobStays ==
    ASSUME TypeOK, OrdersOK, JobsOK, [Next]_vars, NEW e \in Events,
           jobs[<<"efi", e>>] # "none", jobs'[<<"efi", e>>] = "none"
    PROVE  events'[e] = "processed"
<1> DEFINE j == <<"efi", e>>
<1>0. j \in JobIds /\ j \in Watched
  BY DEF Watched
<1>1. ASSUME NEW w \in Workers, Step(w)
      PROVE  events'[e] = "processed"
  <2>1. /\ ctx[w].job = j
        /\ pc[w] \notin Confirming \ {"webhookCommit"}
    BY <1>0, <1>1, StepJobs DEF JobStep
  <2>2. \/ pc[w] = "webhookCommit" /\ ctx[w].event = e
        \/ events[e] = "processed"
    BY <2>1 DEF JobsOK
  <2>3. CASE WebhookCommit(w)
    <3>1. pc[w] = "webhookCommit" /\ events' = [events EXCEPT ![ctx[w].event] = "processed"]
      BY <2>3 DEF WebhookCommit
    <3>2. QED
      BY <2>1, <2>2, <3>1 DEF TypeOK
  <2>4. CASE ~WebhookCommit(w)
    <3>1. pc[w] # "webhookCommit"
      BY <1>1, <2>4, StepAt
    <3>2. QED
      BY <2>2, <3>1, EventsStay
  <2>5. QED
    BY <2>3, <2>4
<1>2. ASSUME NEW w \in Workers, Fault(w)
      PROVE  events'[e] = "processed"
  <2>1. \/ \E outcome \in {"waiting", "failed"} : jobs' = JobEnd(w, outcome)
        \/ pc[w] = "scheduleRelease" /\ jobs' = JobEnd(w, "none")
    BY <1>2 DEF Fault, Crash, StatementFails, DeadlockVictim, Throw, Finish
  <2>2. ctx[w].job = j /\ pc[w] = "scheduleRelease"
    BY <1>0, <2>1 DEF JobEnd, TypeOK
  <2>3. QED
    BY <2>2 DEF JobsOK, Confirming, Crediting, SideEffects
<1>3. ASSUME NEW w \in Workers, Request(w)
      PROVE  FALSE
  BY <1>3, RequestStarts
<1>4. ASSUME NEW w \in Workers, NEW o \in Orders, JobOfOrder(w, o)
      PROVE  FALSE
  <2>1. \E i \in {<<"expire", o>>, <<"autoComplete", o>>} : \E new : jobs' = [jobs EXCEPT ![i] = new]
    BY <1>4 DEF JobOfOrder, ExpirationRead, AutoCompleteRead, TakeJob, DropJob
  <2>2. QED
    BY <1>0, <2>1 DEF TypeOK
<1>5. ASSUME NEW w \in Workers, NEW i \in Events, RegisterEfiWebhook(w, i) \/ StartWebhook(w, i)
      PROVE  events'[e] = "processed"
  <2>1. StartWebhook(w, i)
    BY <1>5 DEF RegisterEfiWebhook
  <2>2. CASE events[i] = "processed" \/ i[2] \in Notices
    <3>1. /\ jobs' = [jobs EXCEPT ![<<"efi", i>>] = "none"]
          /\ events' = [events EXCEPT ![i] = "processed"]
      BY <2>1, <2>2 DEF StartWebhook, DropJob
    <3>2. i = e
      BY <1>0, <3>1 DEF TypeOK
    <3>3. QED
      BY <3>1, <3>2 DEF TypeOK
  <2>3. CASE ~(events[i] = "processed" \/ i[2] \in Notices)
    <3>1. jobs' = [jobs EXCEPT ![<<"efi", i>>] = w]
      BY <2>1, <2>3 DEF StartWebhook, TakeJob
    <3>2. QED
      BY <1>0, <3>1, ConstantsAssumption DEF TypeOK
  <2>4. QED
    BY <2>2, <2>3
<1>6. CASE \/ UNCHANGED vars \/ EditListing \/ \E p \in Pix : PayPix(p)
  BY <1>6 DEF PayPix, EditListing, RemoveInventoryItem, AddInventoryItem, DeleteListing, vars
<1>7. CASE \E i \in JobIds : StallJob(i)
  BY <1>0, <1>7 DEF StallJob, TypeOK
<1>8. QED
  BY <1>1, <1>2, <1>3, <1>4, <1>5, <1>6, <1>7 DEF Next

\* The provider gets its answer once the job is in the queue, or the event is processed.
LEMMA AnsweredAfter ==
    ASSUME TypeOK, OrdersOK, [Next]_vars, NEW e \in acked' \ acked
    PROVE  /\ e \in Events /\ events'[e] # "absent"
           /\ events'[e] = "processed" \/ jobs'[<<"efi", e>>] # "none"
<1>1. CASE \E w \in Workers : EnqueueProcessing(w)
  <2>1. PICK w \in Workers : EnqueueProcessing(w)
    BY <1>1
  <2>2. e = ctx[w].event /\ e \in Events /\ events[e] # "absent"
    BY <2>1 DEF EnqueueProcessing, OrdersOK
  <2>3. jobs' = WithJob(<<"efi", e>>) /\ events' = events
    BY <2>1, <2>2 DEF EnqueueProcessing, dbVars
  <2>4. QED
    BY <2>2, <2>3 DEF WithJob, TypeOK
<1>2. CASE \E w \in Workers, i \in Events : RegisterEfiWebhook(w, i)
  <2>1. PICK w \in Workers, i \in Events : RegisterEfiWebhook(w, i)
    BY <1>2
  <2>2. events[i] = "processed" /\ events' = events /\ e = i
    BY <2>1 DEF RegisterEfiWebhook
  <2>3. QED
    BY <2>2
<1>3. CASE UNCHANGED acked
  BY <1>3
<1>4. ASSUME NEW w \in Workers, Step(w), ~EnqueueProcessing(w) PROVE UNCHANGED acked
  <2>1. CASE \/ ScheduleOrderExpiration(w) \/ FindPendingCharge(w)
             \/ \E p \in Pix : InsertPixCharge(w, p)
    BY <2>1 DEF ScheduleOrderExpiration, FindPendingCharge, InsertPixCharge, envVars
  <2>2. CASE ApplyReadOrder(w) \/ ApplyUpdateOrder(w) \/ UpdatePayment(w) \/ FindEntry(w)
             \/ WebhookCommit(w) \/ ExpirePendingPayments(w)
             \/ \E p \in WalletPayments : WalletCommit(w, p)
    BY <2>2 DEF ApplyReadOrder, ApplyUpdateOrder, UpdatePayment, FindEntry, WebhookCommit,
        ExpirePendingPayments, WalletCommit, envVars
  <2>3. CASE ReserveInventoryForOrder(w) \/ AutoDeliveryRead(w) \/ AutoDeliveryWrite(w)
             \/ ScheduleAutoComplete(w) \/ ScheduleSettlementRelease(w) \/ CancelRelease(w)
    BY <2>3 DEF ReserveInventoryForOrder, AutoDeliveryRead, AutoDeliveryWrite,
        ScheduleAutoComplete, ScheduleSettlementRelease, CancelRelease, envVars
  <2>4. CASE CancelOrderWrite(w) \/ ExpirationWrite(w) \/ MarkDeliveredWrite(w)
             \/ ConfirmReceiptWrite(w) \/ AutoCompleteWrite(w) \/ OpenDisputeWrite(w)
    BY <2>4 DEF CancelOrderWrite, ExpirationWrite, MarkDeliveredWrite, ConfirmReceiptWrite,
        AutoCompleteWrite, OpenDisputeWrite, CommitStatus, envVars
  <2>5. QED
    BY <1>4, <2>1, <2>2, <2>3, <2>4 DEF Step
<1>5. CASE \E w \in Workers : Fault(w)
  BY <1>3, <1>5 DEF Fault, Crash, StatementFails, DeadlockVictim, envVars
<1>6. CASE \E w \in Workers : Request(w)
  BY <1>3, <1>6
     DEF Request, CreateOrder, CreatePixChargeForOrder, PayOrderWithBalance, CancelOrderRead,
         MarkDeliveredRead, ConfirmReceiptRead, OpenDisputeRead, BeginWrite, envVars
<1>7. CASE \E w \in Workers : \/ \E o \in Orders : JobOfOrder(w, o)
                             \/ \E i \in Events : StartWebhook(w, i)
  BY <1>3, <1>7 DEF JobOfOrder, ExpirationRead, AutoCompleteRead, StartWebhook, envVars
<1>8. CASE \/ UNCHANGED vars \/ \E p \in Pix : PayPix(p)
           \/ EditListing \/ \E j \in JobIds : StallJob(j)
  BY <1>3, <1>8
     DEF PayPix, EditListing, RemoveInventoryItem, AddInventoryItem, DeleteListing, StallJob,
         vars, envVars
<1>9. QED
  BY <1>1, <1>2, <1>3, <1>4, <1>5, <1>6, <1>7, <1>8 DEF Next

\* Where the handler of a job is, in the state after the step.
HandlerOfJob(w) ==
    /\ \A e \in Events : ctx[w].job = <<"efi", e>> =>
        /\ ctx[w].kind = "webhook"
        /\ \/ pc[w] \in Confirming /\ ctx[w].event = e
           \/ pc[w] \in SideEffects /\ events[e] = "processed"
    /\ \A o \in Orders : ctx[w].job = <<"expire", o>> => pc[w] = "expireWrite" /\ ctx[w].order = o

LEMMA NoJobIsFine ==
    ASSUME NEW w, ctx'[w].job = None
    PROVE  HandlerOfJob(w)'
BY AbsentAssumption DEF HandlerOfJob

LEMMA SameHandlerOfJob ==
    ASSUME TypeOK, [Next]_vars, NEW w, HandlerOfJob(w), ctx'[w] = ctx[w], pc'[w] = pc[w]
    PROVE  HandlerOfJob(w)'
BY EventsStay DEF HandlerOfJob

LEMMA MovedHandlerOfJob ==
    ASSUME TypeOK, [Next]_vars, NEW w \in Workers, HandlerOfJob(w), Step(w),
           ctx'[w] = ctx[w], Flow(w, pc'[w])
    PROVE  HandlerOfJob(w)'
<1>1. ASSUME NEW o \in Orders, ctx'[w].job = <<"expire", o>>
      PROVE  FALSE
  BY <1>1 DEF HandlerOfJob, Flow
<1>2. ASSUME NEW e \in Events, ctx'[w].job = <<"efi", e>>
      PROVE  /\ ctx'[w].kind = "webhook"
             /\ \/ pc'[w] \in Confirming /\ ctx'[w].event = e
                \/ pc'[w] \in SideEffects /\ events'[e] = "processed"
  <2>1. ctx[w].kind = "webhook" /\ AfterApply(w) = "updatePayment"
    BY <1>2 DEF HandlerOfJob, AfterApply
  <2>2. CASE pc[w] \in SideEffects /\ events[e] = "processed"
    <3>1. pc'[w] \in SideEffects
      BY <2>2 DEF Flow, SideEffects
    <3>2. QED
      BY <2>1, <2>2, <3>1, EventsStay
  <2>3. CASE pc[w] \in Confirming \ {"webhookCommit"} /\ ctx[w].event = e
    <3>1. pc'[w] \in Confirming
      BY <2>1, <2>3 DEF Flow, Confirming, Crediting
    <3>2. QED
      BY <2>1, <2>3, <3>1
  <2>4. CASE pc[w] = "webhookCommit" /\ ctx[w].event = e
    <3>1. pc'[w] = "reserve"
      BY <2>4 DEF Flow
    <3>2. WebhookCommit(w)
      BY <2>4, StepAt
    <3>3. events'[e] = "processed"
      BY <2>4, <3>2 DEF WebhookCommit, TypeOK
    <3>4. QED
      BY <2>1, <3>1, <3>3 DEF SideEffects
  <2>5. QED
    BY <1>2, <2>2, <2>3, <2>4 DEF HandlerOfJob
<1>3. QED
  BY <1>1, <1>2 DEF HandlerOfJob

LEMMA StartedHandlerOfJob ==
    ASSUME TypeOK, [Next]_vars, NEW w \in Workers, HandlerOfJob(w), Starts(w)
    PROVE  HandlerOfJob(w)'
<1>1. CASE pc'[w] = "idle" /\ ctx'[w] = ctx[w]
  BY <1>1, SameHandlerOfJob DEF Starts
<1>2. CASE ctx'[w].job = None
  BY <1>2, NoJobIsFine
<1>3. CASE \E o \in Orders : ctx'[w] = ForJob(o, <<"expire", o>>) /\ pc'[w] = "expireWrite"
  <2>1. PICK o \in Orders : ctx'[w].job = <<"expire", o>> /\ ctx'[w].order = o /\ pc'[w] = "expireWrite"
    BY <1>3 DEF ForJob, Serving
  <2>2. QED
    BY <2>1 DEF HandlerOfJob
<1>4. CASE \E o \in Orders : ctx'[w] = ForJob(o, <<"autoComplete", o>>)
  <2>1. PICK o \in Orders : ctx'[w].job = <<"autoComplete", o>>
    BY <1>4 DEF ForJob, Serving
  <2>2. QED
    BY <2>1 DEF HandlerOfJob
<1>5. CASE \E e \in Events : /\ ctx'[w] = Serving("webhook", payOrder[e[1]], e[1], payStatus[e[1]], e, <<"efi", e>>)
                            /\ pc'[w] = "applyRead"
  <2>1. PICK e \in Events : /\ ctx'[w].job = <<"efi", e>> /\ ctx'[w].event = e /\ ctx'[w].kind = "webhook"
                           /\ pc'[w] = "applyRead"
    BY <1>5 DEF Serving
  <2>2. QED
    BY <2>1 DEF HandlerOfJob, Confirming
<1>6. CASE \E o \in Orders : ctx'[w] = ForOrder(o) \/ ctx'[w] = Serving("wallet", o, None, "NONE", None, None)
  BY <1>2, <1>6 DEF ForOrder, Serving
<1>7. CASE \E e \in Events : ctx'[w] = Serving("request", None, None, "NONE", e, None)
  BY <1>2, <1>7 DEF Serving
<1>8. QED
  BY ONLY Starts(w), <1>1, <1>3, <1>4, <1>5, <1>6, <1>7 DEF Starts

LEMMA JobsKnown ==
    ASSUME TypeOK, OrdersOK, JobsOK, [Next]_vars
    PROVE  JobsOK'
<1>1. \A w \in Workers : HandlerOfJob(w)
  BY DEF JobsOK, HandlerOfJob
<1>2. ASSUME NEW w \in Workers PROVE HandlerOfJob(w)'
  <2>1. CASE ctx'[w] = ctx[w] /\ pc'[w] = pc[w]
    BY <1>1, <2>1, SameHandlerOfJob
  <2>2. CASE ctx'[w] = NoCtx
    BY <2>2, NoJobIsFine DEF NoCtx, Serving
  <2>3. CASE Step(w) /\ ctx'[w] = ctx[w] /\ Flow(w, pc'[w])
    BY <1>1, <2>3, MovedHandlerOfJob
  <2>4. CASE Starts(w)
    BY <1>1, <2>4, StartedHandlerOfJob
  <2>5. QED
    <3>1. CASE \E v \in Workers : v # w /\ OthersRest(v)
      BY <2>1, <3>1 DEF OthersRest
    <3>2. CASE \A v \in Workers : OthersRest(v) => v = w
      <4>1. (Step(w) /\ Moves(w)) \/ ctx'[w] = NoCtx \/ Starts(w) \/ UNCHANGED <<pc, ctx>>
        BY <3>2, OneMoves DEF Moves, Starts
      <4>2. QED
        BY <2>1, <2>2, <2>3, <2>4, <4>1 DEF Moves
    <3>3. QED
      BY <3>1, <3>2
<1>3. ASSUME NEW e \in acked' PROVE events'[e] # "absent"
  <2>1. CASE e \in acked
    BY <2>1, EventsStay DEF JobsOK, TypeOK
  <2>2. CASE e \notin acked
    BY <2>2, AnsweredAfter
  <2>3. QED
    BY <2>1, <2>2
<1>4. QED
  BY <1>2, <1>3 DEF JobsOK, HandlerOfJob

LEMMA AnsweredKnown ==
    ASSUME TypeOK, OrdersOK, JobsOK, AnsweredIsQueued, [Next]_vars
    PROVE  AnsweredIsQueued'
<1> SUFFICES ASSUME NEW e \in Events, e \in acked', events'[e] = "received"
             PROVE  jobs'[<<"efi", e>>] # "none"
  BY DEF AnsweredIsQueued
<1>1. CASE e \notin acked
  BY <1>1, AnsweredAfter
<1>2. CASE e \in acked
  <2>1. events[e] = "received"
    BY <1>2, EventsStay DEF JobsOK, TypeOK
  <2>2. jobs[<<"efi", e>>] # "none"
    BY <1>2, <2>1 DEF AnsweredIsQueued
  <2>3. QED
    BY <2>2, WebhookJobStays
<1>3. QED
  BY <1>1, <1>2

\* What holds of the handlers of jobs and of the answers to the provider.
JobsInv == IInv /\ JobsOK /\ AnsweredIsQueued

THEOREM JobsInductive == Spec => []JobsInv
<1>1. Init => JobsInv
  <2> SUFFICES ASSUME Init PROVE JobsInv
    OBVIOUS
  <2>1. IInv
    BY InitIInv
  <2>2. \A w \in Workers : ctx[w].job = None
    BY DEF Init, NoCtx, Serving
  <2>3. acked = {}
    BY DEF Init
  <2>4. JobsOK
    BY <2>2, <2>3, AbsentAssumption DEF JobsOK
  <2>5. AnsweredIsQueued
    BY <2>3 DEF AnsweredIsQueued
  <2>6. QED
    BY <2>1, <2>4, <2>5 DEF JobsInv
<1>2. JobsInv /\ [Next]_vars => JobsInv'
  BY NextIInv, JobsKnown, AnsweredKnown DEF JobsInv, IInv
<1>3. QED
  BY <1>1, <1>2, PTL DEF Spec

\* A notification that was answered is processed or has its job, whatever crashes, stalls or
\* runs twice: nothing but the commit that writes processedAt takes the job away.
THEOREM AnsweredStaysQueued == Spec => []AnsweredIsQueued
<1>1. JobsInv => AnsweredIsQueued
  BY DEF JobsInv
<1>2. QED
  BY <1>1, JobsInductive, PTL

-----------------------------------------------------------------------------
(* Faults *)

\* The statements at which a wait cycle can abort a transaction.
Waiting == {"applyUpdate", "updatePayment", "webhookCommit", "expirePending"}

\* The victim of a wait cycle waits for a row.
LEMMA VictimsWait ==
    ASSUME NEW w \in Workers, DeadlockVictim(w)
    PROVE  pc[w] \in Waiting
<1>1. PICK cycle \in SUBSET Workers : w \in cycle /\ \A v \in cycle : WaitsFor(v) \cap cycle # {}
  BY DEF DeadlockVictim
<1>2. WaitsFor(w) # {}
  BY <1>1
<1>3. Wanted(w) # {}
  BY <1>2 DEF WaitsFor
<1>4. QED
  BY <1>3 DEF Wanted, Waiting

\* A fault cuts what its handler still owed.
LEMMA FaultCuts ==
    ASSUME NEW w \in Workers, Fault(w), NEW what \in Owes(w)
    PROVE  <<what, ctx[w].order>> \in cut'
<1>1. pc[w] \notin Waiting
  BY DEF Owes, Waiting
<1>2. CutShort(w)
  BY <1>1, VictimsWait DEF Fault, Crash, StatementFails
<1>3. QED
  BY <1>2 DEF CutShort

\* What a fault does to the job of its handler.
LEMMA FaultJobs ==
    ASSUME TypeOK, NEW w \in Workers, Fault(w), NEW j \in JobIds
    PROVE  \/ jobs'[j] = jobs[j]
           \/ /\ jobs[j] = w /\ ctx[w].job = j
              /\ jobs'[j] \in {"waiting", "failed"} \/ pc[w] = "scheduleRelease"
<1>1. PICK outcome \in {"none", "waiting", "failed"} :
        jobs' = JobEnd(w, outcome) /\ (outcome = "none" => pc[w] = "scheduleRelease")
  BY DEF Fault, Crash, StatementFails, DeadlockVictim, Throw, Finish
<1>2. QED
  BY <1>1 DEF JobEnd, TypeOK

\* The handler of a job, if it is not idle, ends by a fault, takes a step or rests.
LEMMA NextOfHandler ==
    ASSUME TypeOK, [Next]_vars, NEW v \in Workers, pc[v] # "idle"
    PROVE  \/ Step(v)
           \/ Fault(v)
           \/ pc'[v] = pc[v] /\ ctx'[v] = ctx[v]
<1>1. CASE \E w \in Workers : Step(w) /\ Moves(w)
  BY <1>1 DEF Moves, OthersRest
<1>2. CASE \E w \in Workers : Fault(w) /\ OthersRest(w)
  BY <1>2 DEF OthersRest
<1>3. CASE \E w \in Workers : Starts(w)
  BY <1>3 DEF Starts, OthersRest
<1>4. CASE UNCHANGED <<pc, ctx>>
  BY <1>4
<1>5. QED
  BY <1>1, <1>2, <1>3, <1>4, OneMoves

\* What is cut stays cut.
LEMMA CutStays ==
    ASSUME [Next]_vars, NEW x \in cut
    PROVE  x \in cut'
<1>1. CASE UNCHANGED cut
  BY <1>1
<1>2. ASSUME NEW w \in Workers, CutShort(w) PROVE x \in cut'
  BY <1>2 DEF CutShort
<1>3. ASSUME NEW w \in Workers, Step(w) PROVE UNCHANGED cut \/ CutShort(w)
  <2>1. CASE \/ ScheduleOrderExpiration(w) \/ FindPendingCharge(w) \/ EnqueueProcessing(w)
             \/ \E p \in Pix : InsertPixCharge(w, p)
    BY <2>1
       DEF ScheduleOrderExpiration, FindPendingCharge, EnqueueProcessing, InsertPixCharge,
           envVars
  <2>2. CASE ApplyReadOrder(w) \/ ApplyUpdateOrder(w) \/ UpdatePayment(w) \/ FindEntry(w)
             \/ WebhookCommit(w) \/ ExpirePendingPayments(w)
             \/ \E p \in WalletPayments : WalletCommit(w, p)
    BY <2>2
       DEF ApplyReadOrder, ApplyUpdateOrder, UpdatePayment, FindEntry, WebhookCommit,
           ExpirePendingPayments, WalletCommit, envVars
  <2>3. CASE AutoDeliveryRead(w) \/ AutoDeliveryWrite(w) \/ ScheduleAutoComplete(w)
             \/ ScheduleSettlementRelease(w) \/ CancelRelease(w)
    BY <2>3
       DEF AutoDeliveryRead, AutoDeliveryWrite, ScheduleAutoComplete,
           ScheduleSettlementRelease, CancelRelease, envVars
  <2>4. CASE ReserveInventoryForOrder(w)
    BY <2>4 DEF ReserveInventoryForOrder
  <2>5. CASE CancelOrderWrite(w) \/ ExpirationWrite(w) \/ MarkDeliveredWrite(w)
             \/ ConfirmReceiptWrite(w) \/ AutoCompleteWrite(w) \/ OpenDisputeWrite(w)
    BY <2>5
       DEF CancelOrderWrite, ExpirationWrite, MarkDeliveredWrite, ConfirmReceiptWrite,
           AutoCompleteWrite, OpenDisputeWrite, CommitStatus, envVars
  <2>6. QED
    BY <1>3, <2>1, <2>2, <2>3, <2>4, <2>5 DEF Step
<1>4. ASSUME NEW w \in Workers, Fault(w) PROVE UNCHANGED cut \/ CutShort(w)
  BY <1>4 DEF Fault, Crash, StatementFails, DeadlockVictim, envVars
<1>5. CASE \E w \in Workers : Request(w)
  BY <1>1, <1>5
     DEF Request, CreateOrder, CreatePixChargeForOrder, PayOrderWithBalance, CancelOrderRead,
         MarkDeliveredRead, ConfirmReceiptRead, OpenDisputeRead, BeginWrite, envVars
<1>6. CASE \E w \in Workers : \/ \E o \in Orders : JobOfOrder(w, o)
                             \/ \E e \in Events : RegisterEfiWebhook(w, e) \/ StartWebhook(w, e)
  BY <1>1, <1>6
     DEF JobOfOrder, ExpirationRead, AutoCompleteRead, RegisterEfiWebhook, StartWebhook, envVars
<1>7. CASE \/ UNCHANGED vars \/ \E p \in Pix : PayPix(p)
           \/ EditListing \/ \E j \in JobIds : StallJob(j)
  BY <1>1, <1>7
     DEF PayPix, EditListing, RemoveInventoryItem, AddInventoryItem, DeleteListing, StallJob,
         vars, envVars
<1>8. QED
  BY <1>1, <1>2, <1>3, <1>4, <1>5, <1>6, <1>7 DEF Next

\* An order becomes payable by its checkout, and is to be delivered by a commit that goes
\* on to the side effects of the payment.
LEMMA StatusArrives ==
    ASSUME TypeOK, [Next]_vars, NEW o \in Orders, status'[o] # status[o]
    PROVE  /\ status'[o] # "NONE"
           /\ status'[o] \in Payable
              => /\ status[o] = "NONE"
                 /\ \E w \in Workers : pc'[w] = "scheduleExpire" /\ ctx'[w].order = o
           /\ status'[o] = "IN_DELIVERY"
              => \E w \in Workers : pc'[w] = "reserve" /\ ctx'[w].order = o
<1>1. ASSUME NEW w \in Workers, CreateOrder(w, o)
      PROVE  /\ pc'[w] = "scheduleExpire" /\ ctx'[w].order = o
             /\ status[o] = "NONE" /\ status'[o] \notin {"NONE", "IN_DELIVERY"}
  <2>1. /\ Begin(w, ForOrder(o), "scheduleExpire")
        /\ status[o] = "NONE" /\ status'[o] \notin {"NONE", "IN_DELIVERY"}
    BY <1>1 DEF CreateOrder, TypeOK
  <2>2. QED
    BY <2>1, BeginMoves DEF ForOrder, Serving
<1>2. ASSUME NEW w \in Workers, WebhookCommit(w) \/ \E p \in WalletPayments : WalletCommit(w, p)
      PROVE  /\ status'[o] \notin Payable \cup {"NONE"}
             /\ status'[o] = "IN_DELIVERY" => pc'[w] = "reserve" /\ ctx'[w].order = o
  <2>1. \/ status' = status
        \/ status' = [status EXCEPT ![ctx[w].order] = "COMPLETED"]
        \/ status' = [status EXCEPT ![ctx[w].order] = "IN_DELIVERY"] /\ Applied(w)
    BY <1>2 DEF WebhookCommit, WalletCommit, WriteStatus
  <2>2. /\ status'[o] \notin Payable \cup {"NONE"}
        /\ status'[o] = "IN_DELIVERY" => o = ctx[w].order /\ Applied(w)
    BY <2>1 DEF TypeOK, Payable
  <2>3. Applied(w) => Goto(w, "reserve")
    BY <1>2 DEF WebhookCommit, WalletCommit
  <2>4. QED
    BY <2>2, <2>3, GotoMoves
<1>3. ASSUME NEW w \in Workers, NEW new \in {"CANCELLED", "DELIVERED", "COMPLETED", "DISPUTED"}, WriteStatus(w, new)
      PROVE  status'[o] \notin Payable \cup {"IN_DELIVERY", "NONE"}
  BY <1>3 DEF WriteStatus, TypeOK, Payable
<1>4. ASSUME NEW w \in Workers, Step(w), ~WebhookCommit(w), ~\E p \in WalletPayments : WalletCommit(w, p)
      PROVE  \E new \in {"CANCELLED", "DELIVERED", "COMPLETED", "DISPUTED"} : WriteStatus(w, new)
  <2>1. CASE \/ ScheduleOrderExpiration(w) \/ FindPendingCharge(w) \/ EnqueueProcessing(w)
             \/ \E p \in Pix : InsertPixCharge(w, p)
    BY <2>1 DEF ScheduleOrderExpiration, FindPendingCharge, EnqueueProcessing, InsertPixCharge, dbVars
  <2>2. CASE ApplyReadOrder(w) \/ ApplyUpdateOrder(w) \/ UpdatePayment(w) \/ FindEntry(w)
             \/ ExpirePendingPayments(w)
    BY <2>2 DEF ApplyReadOrder, ApplyUpdateOrder, UpdatePayment, FindEntry,
        ExpirePendingPayments, Throw, dbVars
  <2>3. CASE ReserveInventoryForOrder(w) \/ AutoDeliveryRead(w) \/ AutoDeliveryWrite(w)
             \/ ScheduleAutoComplete(w) \/ ScheduleSettlementRelease(w) \/ CancelRelease(w)
    BY <2>3 DEF ReserveInventoryForOrder, AutoDeliveryRead, AutoDeliveryWrite,
        ScheduleAutoComplete, ScheduleSettlementRelease, CancelRelease, Throw, dbVars
  <2>4. CASE CancelOrderWrite(w) \/ ExpirationWrite(w) \/ MarkDeliveredWrite(w)
             \/ ConfirmReceiptWrite(w) \/ AutoCompleteWrite(w) \/ OpenDisputeWrite(w)
    BY <2>4 DEF CancelOrderWrite, ExpirationWrite, MarkDeliveredWrite, ConfirmReceiptWrite,
        AutoCompleteWrite, OpenDisputeWrite, CommitStatus, Throw, dbVars
  <2>5. QED
    BY <1>4, <2>1, <2>2, <2>3, <2>4 DEF Step
<1>5. CASE \E w \in Workers : Step(w)
  BY <1>2, <1>3, <1>4, <1>5
<1>6. CASE UNCHANGED status
  BY <1>6
<1>7. CASE \E w \in Workers : Request(w)
  <2>1. PICK w \in Workers, i \in Orders :
          \/ CreateOrder(w, i) \/ CreatePixChargeForOrder(w, i) \/ PayOrderWithBalance(w, i)
          \/ CancelOrderRead(w, i) \/ MarkDeliveredRead(w, i) \/ ConfirmReceiptRead(w, i)
          \/ OpenDisputeRead(w, i)
    BY <1>7 DEF Request
  <2>2. CASE CreateOrder(w, i)
    <3>1. i = o
      BY <2>2 DEF CreateOrder, TypeOK
    <3>2. QED
      BY <1>1, <2>2, <3>1
  <2>3. CASE ~CreateOrder(w, i)
    BY <1>6, <2>1, <2>3
       DEF CreatePixChargeForOrder, PayOrderWithBalance, CancelOrderRead, MarkDeliveredRead,
           ConfirmReceiptRead, OpenDisputeRead, BeginWrite, dbVars
  <2>4. QED
    BY <2>2, <2>3
<1>8. CASE \E w \in Workers : Fault(w)
  BY <1>6, <1>8 DEF Fault, Crash, StatementFails, DeadlockVictim, Throw, dbVars
<1>9. CASE \E w \in Workers : \/ \E i \in Orders : JobOfOrder(w, i)
                             \/ \E e \in Events : RegisterEfiWebhook(w, e) \/ StartWebhook(w, e)
  BY <1>6, <1>9
     DEF JobOfOrder, ExpirationRead, AutoCompleteRead, RegisterEfiWebhook, StartWebhook, dbVars
<1>10. CASE \/ UNCHANGED vars \/ \E p \in Pix : PayPix(p)
            \/ EditListing \/ \E j \in JobIds : StallJob(j)
  BY <1>6, <1>10
     DEF PayPix, EditListing, RemoveInventoryItem, AddInventoryItem, DeleteListing, StallJob,
         vars, dbVars
<1>11. QED
  BY <1>5, <1>6, <1>7, <1>8, <1>9, <1>10 DEF Next

-----------------------------------------------------------------------------
(* Unpaid orders *)

ExpireJob(o) == <<"expire", o>>

\* The expire job of o is run by handler v, which is about to cancel o.
Expiring(v, o) == jobs[ExpireJob(o)] = v /\ ctx[v].job = ExpireJob(o)

LEMMA ExpiringFacts ==
    ASSUME JobsOK, NEW v \in Workers, NEW o \in Orders, ctx[v].job = ExpireJob(o)
    PROVE  pc[v] = "expireWrite" /\ ctx[v].order = o
BY DEF JobsOK, ExpireJob

LEMMA ExpireJobIs ==
    ASSUME NEW o \in Orders
    PROVE  /\ ExpireJob(o) \in JobIds /\ ExpireJob(o) \in Watched
           /\ \A e \in Events : ExpireJob(o) # <<"efi", e>>
           /\ \A i : ExpireJob(o) # <<"autoComplete", i>>
BY DEF Watched, ExpireJob

\* The handler that runs the expire job of o keeps it, ends it by cancelling the order, or
\* gives it back or fails it.
LEMMA ExpiringMoves ==
    ASSUME TypeOK, OrdersOK, JobsOK, NEW o \in Orders, NEW v \in Workers, Expiring(v, o)
    PROVE  /\ Step(v) => ExpirationWrite(v) /\ jobs'[ExpireJob(o)] = "none"
           /\ Fault(v) => jobs'[ExpireJob(o)] \in {"waiting", "failed"}
<1> DEFINE j == ExpireJob(o)
<1>1. /\ pc[v] = "expireWrite" /\ j \in JobIds /\ jobs[j] = v /\ ctx[v].job = j
      /\ j # None /\ v \notin {"none", "waiting", "failed"}
  BY ExpiringFacts, ExpireJobIs, AbsentAssumption, ConstantsAssumption DEF Expiring
<1>2. ASSUME Step(v) PROVE ExpirationWrite(v) /\ jobs'[j] = "none"
  <2>1. ExpirationWrite(v)
    BY <1>1, <1>2, StepAt
  <2>2. jobs' = JobEnd(v, "none")
    BY <2>1 DEF ExpirationWrite, CommitStatus, Finish
  <2>3. QED
    BY <1>1, <2>1, <2>2 DEF JobEnd, TypeOK
<1>3. ASSUME Fault(v) PROVE jobs'[j] \in {"waiting", "failed"}
  <2>1. PICK outcome \in {"waiting", "failed"} : jobs' = JobEnd(v, outcome)
    BY <1>1, <1>3 DEF Fault, Crash, StatementFails, DeadlockVictim, Throw
  <2>2. QED
    BY <1>1, <2>1 DEF JobEnd, TypeOK
<1>4. QED
  BY <1>2, <1>3

\* What one step does to the expire job of an order.
ExpireJobStep(o) ==
    LET j == ExpireJob(o) IN
    \/ jobs'[j] = jobs[j]
    \/ jobs[j] = "none" /\ jobs'[j] = "waiting"
    \/ jobs[j] = "waiting" /\ \E w \in Workers : ExpirationRead(w, o)
    \/ \E w \in Workers : Expiring(w, o) /\ (Step(w) \/ Fault(w))
    \/ jobs[j] \in Workers /\ jobs'[j] = "waiting"

LEMMA ExpireJobSteps ==
    ASSUME TypeOK, OrdersOK, JobsOK, [Next]_vars, NEW o \in Orders
    PROVE  ExpireJobStep(o)
<1> DEFINE j == ExpireJob(o)
<1>0. /\ j \in JobIds /\ j \in Watched /\ \A e \in Events : j # <<"efi", e>>
      /\ \A i : j # <<"autoComplete", i>>
  BY ExpireJobIs
<1>1. ASSUME NEW w \in Workers, Step(w) PROVE ExpireJobStep(o)
  BY <1>0, <1>1, StepJobs DEF JobStep, ExpireJobStep, Expiring
<1>2. ASSUME NEW w \in Workers, Fault(w) PROVE ExpireJobStep(o)
  BY <1>0, <1>2, FaultJobs DEF ExpireJobStep, Expiring
<1>3. ASSUME NEW w \in Workers, Request(w) PROVE ExpireJobStep(o)
  BY <1>3, RequestStarts DEF ExpireJobStep
<1>4. ASSUME NEW w \in Workers, NEW i \in Orders, JobOfOrder(w, i) PROVE ExpireJobStep(o)
  <2>1. CASE ExpirationRead(w, o)
    BY <2>1 DEF ExpirationRead, TakeJob, DropJob, ExpireJobStep, ExpireJob
  <2>2. CASE ExpirationRead(w, i) /\ i # o
    <3>1. <<"expire", i>> # j
      BY <2>2 DEF ExpireJob
    <3>2. \E new : jobs' = [jobs EXCEPT ![<<"expire", i>>] = new]
      BY <2>2 DEF ExpirationRead, TakeJob, DropJob
    <3>3. QED
      BY <1>0, <3>1, <3>2 DEF TypeOK, ExpireJobStep
  <2>3. CASE AutoCompleteRead(w, i)
    <3>1. \E new : jobs' = [jobs EXCEPT ![<<"autoComplete", i>>] = new]
      BY <2>3 DEF AutoCompleteRead, TakeJob, DropJob
    <3>2. QED
      BY <1>0, <3>1 DEF TypeOK, ExpireJobStep
  <2>4. QED
    BY <1>4, <2>1, <2>2, <2>3 DEF JobOfOrder
<1>5. ASSUME NEW w \in Workers, NEW e \in Events, RegisterEfiWebhook(w, e) \/ StartWebhook(w, e)
      PROVE  ExpireJobStep(o)
  <2>1. UNCHANGED jobs \/ \E new : jobs' = [jobs EXCEPT ![<<"efi", e>>] = new]
    BY <1>5 DEF RegisterEfiWebhook, StartWebhook, TakeJob, DropJob
  <2>2. QED
    BY <1>0, <2>1 DEF TypeOK, ExpireJobStep
<1>6. ASSUME \/ UNCHANGED vars \/ EditListing \/ \E p \in Pix : PayPix(p)
      PROVE  ExpireJobStep(o)
  BY <1>6
     DEF PayPix, EditListing, RemoveInventoryItem, AddInventoryItem, DeleteListing, vars,
         ExpireJobStep
<1>7. ASSUME NEW i \in JobIds, StallJob(i) PROVE ExpireJobStep(o)
  BY <1>0, <1>7 DEF StallJob, TypeOK, ExpireJobStep
<1>8. QED
  BY <1>1, <1>2, <1>3, <1>4, <1>5, <1>6, <1>7 DEF Next

\* A job that is handed out goes to its handler or was of no use any more.
LEMMA ExpirationStarts ==
    ASSUME TypeOK, NEW w \in Workers, NEW o \in Orders, ExpirationRead(w, o)
    PROVE  /\ jobs[ExpireJob(o)] = "waiting" /\ UNCHANGED <<status, cut>>
           /\ status[o] \in Payable => /\ jobs'[ExpireJob(o)] = w /\ ctx'[w].job = ExpireJob(o)
                                       /\ pc'[w] = "expireWrite" /\ ctx'[w].order = o
           /\ status[o] \notin Payable => jobs'[ExpireJob(o)] = "none"
<1>1. ExpireJob(o) \in JobIds
  BY ExpireJobIs
<1>2. CASE status[o] \in Payable
  <2>1. /\ jobs' = [jobs EXCEPT ![ExpireJob(o)] = w]
        /\ Begin(w, ForJob(o, ExpireJob(o)), "expireWrite")
        /\ jobs[ExpireJob(o)] = "waiting" /\ UNCHANGED <<status, cut>>
    BY <1>2 DEF ExpirationRead, TakeJob, ExpireJob, dbVars, envVars
  <2>2. pc'[w] = "expireWrite" /\ ctx'[w].job = ExpireJob(o) /\ ctx'[w].order = o
    BY <2>1, BeginMoves DEF ForJob, Serving
  <2>3. QED
    BY <1>1, <1>2, <2>1, <2>2 DEF TypeOK
<1>3. CASE status[o] \notin Payable
  BY <1>1, <1>3 DEF ExpirationRead, DropJob, ExpireJob, TypeOK, dbVars, envVars
<1>4. QED
  BY <1>2, <1>3

\* The expire job of o is where a job of the queue can be.
Placed(o) ==
    \/ jobs[ExpireJob(o)] \in {"none", "waiting", "failed"}
    \/ \E w \in Workers : Expiring(w, o)

\* A handler about to cancel o knows that it exists and that no other run has ended the job.
Cancels(w, o) ==
    pc[w] = "expireWrite" /\ ctx[w].order = o =>
        /\ status[o] # "NONE"
        /\ status[o] \in Payable => jobs[ExpireJob(o)] # "none"

LEMMA PlacedKnown ==
    ASSUME TypeOK, OrdersOK, JobsOK, [Next]_vars, NEW o \in Orders, Placed(o)
    PROVE  Placed(o)'
<1>1. ExpireJobStep(o)
  BY ExpireJobSteps
<1>2. CASE jobs[ExpireJob(o)] \in {"none", "waiting", "failed"}
  <2>1. CASE \E w \in Workers : ExpirationRead(w, o)
    BY <2>1, ExpirationStarts DEF Placed, Expiring
  <2>2. CASE \A w \in Workers : ~ExpirationRead(w, o)
    <3>1. \A w \in Workers : ~Expiring(w, o)
      BY <1>2, ConstantsAssumption DEF Expiring
    <3>2. QED
      BY <1>1, <1>2, <2>2, <3>1 DEF ExpireJobStep, Placed
  <2>3. QED
    BY <2>1, <2>2
<1>3. ASSUME NEW v \in Workers, Expiring(v, o) PROVE Placed(o)'
  <2>1. pc[v] = "expireWrite" /\ jobs[ExpireJob(o)] = v
    BY <1>3, ExpiringFacts DEF Expiring
  <2>2. CASE Step(v) \/ Fault(v)
    BY <1>3, <2>2, ExpiringMoves DEF Placed
  <2>3. CASE pc'[v] = pc[v] /\ ctx'[v] = ctx[v] /\ ~Step(v) /\ ~Fault(v)
    <3>1. \A w \in Workers : Expiring(w, o) => w = v
      BY <2>1 DEF Expiring
    <3>2. jobs'[ExpireJob(o)] = jobs[ExpireJob(o)] \/ jobs'[ExpireJob(o)] = "waiting"
      BY <1>1, <2>1, <2>3, <3>1, ConstantsAssumption DEF ExpireJobStep
    <3>3. QED
      BY <1>3, <2>3, <3>2 DEF Placed, Expiring
  <2>4. QED
    BY <2>1, <2>2, <2>3, NextOfHandler
<1>4. QED
  BY <1>2, <1>3 DEF Placed

\* The job of an order that may be paid does not end while a handler is about to cancel it.
LEMMA CancelsKnown ==
    ASSUME TypeOK, OrdersOK, JobsOK, [Next]_vars, NEW o \in Orders, NEW w \in Workers, Cancels(w, o)
    PROVE  Cancels(w, o)'
<1> SUFFICES ASSUME pc'[w] = "expireWrite", ctx'[w].order = o
             PROVE  /\ status'[o] # "NONE"
                    /\ status'[o] \in Payable => jobs'[ExpireJob(o)] # "none"
  BY DEF Cancels
<1>1. CASE pc[w] = "expireWrite" /\ ctx[w].order = o
  <2>1. status'[o] # "NONE" /\ (status'[o] \in Payable => status[o] \in Payable)
    BY <1>1, StatusArrives DEF Cancels
  <2>2. ASSUME status'[o] \in Payable, jobs'[ExpireJob(o)] = "none"
        PROVE  FALSE
    <3>1. jobs[ExpireJob(o)] # "none"
      BY <1>1, <2>1, <2>2 DEF Cancels
    <3>2. CASE \E v \in Workers : ExpirationRead(v, o)
      BY <2>1, <2>2, <3>2, ExpirationStarts, ConstantsAssumption
    <3>3. ASSUME NEW v \in Workers, Expiring(v, o), Step(v) \/ Fault(v) PROVE FALSE
      <4>1. ExpirationWrite(v) /\ ctx[v].order = o
        BY <2>2, <3>3, ExpiringMoves, ExpiringFacts DEF Expiring
      <4>2. status' = [status EXCEPT ![o] = "CANCELLED"]
        BY <4>1 DEF ExpirationWrite, CommitStatus, WriteStatus
      <4>3. QED
        BY <2>2, <4>2 DEF TypeOK, Payable
    <3>4. QED
      BY <2>2, <3>1, <3>2, <3>3, ExpireJobSteps DEF ExpireJobStep
  <2>3. QED
    BY <2>1, <2>2
<1>2. CASE ~(pc[w] = "expireWrite" /\ ctx[w].order = o)
  <2>1. Starts(w)
    <3>1. CASE \E v \in Workers : Step(v) /\ Moves(v)
      BY <1>2, <3>1 DEF Moves, OthersRest, Flow, AfterApply
    <3>2. CASE \E v \in Workers : /\ OthersRest(v) /\ pc'[v] = "idle"
      BY <1>2, <3>2 DEF OthersRest
    <3>3. CASE \E v \in Workers : Starts(v)
      BY <1>2, <3>3 DEF Starts, OthersRest
    <3>4. CASE UNCHANGED <<pc, ctx>>
      BY <1>2, <3>4
    <3>5. QED
      BY <3>1, <3>2, <3>3, <3>4, OneMoves
  <2>2. PICK i \in Orders : ExpirationRead(w, i) /\ ctx'[w] = ForJob(i, <<"expire", i>>)
    BY <2>1 DEF Starts
  <2>3. i = o
    BY <2>2 DEF ForJob, Serving
  <2>4. status[o] \in Payable /\ jobs'[ExpireJob(o)] = w /\ UNCHANGED status
    <3>1. status[o] \in Payable
      BY <2>2, <2>3, <1>2 DEF ExpirationRead, DropJob, handlerVars
    <3>2. QED
      BY <2>2, <2>3, <3>1, ExpirationStarts
  <2>5. QED
    BY <2>4, ConstantsAssumption DEF Payable
<1>3. QED
  BY <1>1, <1>2

LEMMA ExpireJobsKnown ==
    ASSUME TypeOK, OrdersOK, OrdersOK', JobsOK, ExpireJobsOK, [Next]_vars
    PROVE  ExpireJobsOK'
<1>1. \A o \in Orders : Placed(o)
  BY DEF ExpireJobsOK, Placed, Expiring, ExpireJob
<1>2. \A w \in Workers, o \in Orders : Cancels(w, o)
  BY DEF ExpireJobsOK, Cancels, ExpireJob
<1>3. \A o \in Orders : Placed(o)'
  BY <1>1, PlacedKnown
<1>4. \A w \in Workers, o \in Orders : Cancels(w, o)'
  BY <1>2, CancelsKnown
<1>5. \A w \in Workers : pc'[w] = "expireWrite" => ctx'[w].order \in Orders
  BY DEF OrdersOK
<1>6. QED
  BY <1>3, <1>4, <1>5 DEF ExpireJobsOK, Placed, Expiring, Cancels, ExpireJob

\* The handler that is to add the expire job of o, or is about to cancel o.
Watches(v, o) == pc[v] \in {"scheduleExpire", "expireWrite"} /\ ctx[v].order = o

\* What may still be paid is watched.
Guarded(o) ==
    \/ jobs[ExpireJob(o)] \in {"waiting", "failed"}
    \/ \E w \in Workers : Watches(w, o)
    \/ <<"expiry", o>> \in cut

\* A job in the queue or with a handler watches its order.
LEMMA PlacedGuards ==
    ASSUME JobsOK', NEW o \in Orders, Placed(o)', jobs'[ExpireJob(o)] # "none"
    PROVE  Guarded(o)'
BY DEF JobsOK, Placed, Guarded, Watches, Expiring, ExpireJob

LEMMA UnpaidKnown ==
    ASSUME TypeOK, OrdersOK, JobsOK, JobsOK', ExpireJobsOK, ExpireJobsOK', UnpaidIsWatched,
           [Next]_vars
    PROVE  UnpaidIsWatched'
<1> SUFFICES ASSUME NEW o \in Orders, status'[o] \in Payable
             PROVE  Guarded(o)'
  BY DEF UnpaidIsWatched, Guarded, Watches, ExpireJob
<1>1. CASE status[o] \notin Payable
  <2>1. PICK w \in Workers : pc'[w] = "scheduleExpire" /\ ctx'[w].order = o
    BY <1>1, StatusArrives
  <2>2. QED
    BY <2>1 DEF Watches, Guarded
<1>2. CASE jobs'[ExpireJob(o)] # "none"
  <2>1. Placed(o)'
    BY DEF ExpireJobsOK, Placed, Expiring, ExpireJob
  <2>2. QED
    BY <1>2, <2>1, PlacedGuards
<1>3. CASE <<"expiry", o>> \in cut
  BY <1>3, CutStays DEF Guarded
<1>4. CASE status[o] \in Payable /\ jobs[ExpireJob(o)] \in {"waiting", "failed"} /\ jobs'[ExpireJob(o)] = "none"
  <2>1. \A w \in Workers : ~Expiring(w, o)
    BY <1>4, ConstantsAssumption DEF Expiring
  <2>2. PICK w \in Workers : ExpirationRead(w, o)
    BY <1>4, <2>1, ExpireJobSteps DEF ExpireJobStep
  <2>3. QED
    BY <1>4, <2>2, ExpirationStarts, ConstantsAssumption
<1>5. ASSUME status[o] \in Payable, NEW v \in Workers, Watches(v, o), jobs'[ExpireJob(o)] = "none"
      PROVE  Guarded(o)'
  <2>1. CASE pc'[v] = pc[v] /\ ctx'[v] = ctx[v]
    BY <1>5, <2>1 DEF Watches, Guarded
  <2>2. CASE Step(v) /\ pc[v] = "expireWrite"
    <3>1. status' = [status EXCEPT ![o] = "CANCELLED"]
      BY <1>5, <2>2, StepAt DEF ExpirationWrite, CommitStatus, WriteStatus, Watches
    <3>2. QED
      BY <3>1 DEF TypeOK, Payable
  <2>3. CASE Step(v) /\ pc[v] = "scheduleExpire"
    <3>1. jobs' = WithJob(ExpireJob(o))
      BY <1>5, <2>3, StepAt DEF ScheduleOrderExpiration, ExpireJob, Watches
    <3>2. jobs'[ExpireJob(o)] # "none"
      BY <3>1, ExpireJobIs DEF WithJob, TypeOK
    <3>3. QED
      BY <1>5, <3>2
  <2>4. CASE Fault(v) /\ pc[v] = "scheduleExpire"
    <3>1. "expiry" \in Owes(v) /\ ctx[v].order = o
      BY <1>5, <2>4 DEF Owes, Watches
    <3>2. QED
      BY <2>4, <3>1, FaultCuts DEF Guarded
  <2>5. CASE Fault(v) /\ pc[v] = "expireWrite"
    <3>1. jobs[ExpireJob(o)] # "none"
      BY <1>5, <2>5 DEF ExpireJobsOK, Watches, ExpireJob
    <3>2. jobs'[ExpireJob(o)] # "none"
      BY <2>5, <3>1, FaultJobs, ExpireJobIs
    <3>3. QED
      BY <1>5, <3>2
  <2>6. QED
    BY <1>5, <2>1, <2>2, <2>3, <2>4, <2>5, NextOfHandler DEF Watches
<1>6. QED
  BY <1>1, <1>2, <1>3, <1>4, <1>5 DEF UnpaidIsWatched, Guarded, Watches, ExpireJob

-----------------------------------------------------------------------------
(* Paid orders *)

\* The handler that is on its way to deliver o.
Serves(v, o) == "delivery" \in Owes(v) /\ ctx[v].order = o

\* The handler that serves a paid order goes on; if it throws or dies, the delivery is cut.
LEMMA ServingGoesOn ==
    ASSUME TypeOK, TypeOK', [Next]_vars, NEW o \in Orders,
           status[o] = "IN_DELIVERY", status'[o] = "IN_DELIVERY",
           NEW v \in Workers, Serves(v, o)
    PROVE  Serves(v, o)' \/ <<"delivery", o>> \in cut'
<1>0. /\ pc[v] \in {"reserve", "autoDeliverRead", "autoDeliverWrite"}
      /\ ctx[v].order = o /\ IsAuto(o)
  BY DEF Serves, Owes
<1>1. CASE pc'[v] = pc[v] /\ ctx'[v] = ctx[v]
  BY <1>1 DEF Serves, Owes, IsAuto
<1>2. CASE Step(v) /\ pc[v] = "reserve"
  <2>1. ReserveInventoryForOrder(v)
    BY <1>2, StepAt
  <2>2. CASE CutShort(v)
    BY <2>2 DEF CutShort, Serves
  <2>3. CASE ~CutShort(v)
    <3>1. Goto(v, "autoDeliverRead")
      BY <1>0, <2>1, <2>3 DEF ReserveInventoryForOrder
    <3>2. QED
      BY <1>0, <3>1, GotoMoves DEF Serves, Owes, IsAuto
  <2>4. QED
    BY <2>2, <2>3
<1>3. CASE Step(v) /\ pc[v] = "autoDeliverRead"
  <2>1. Goto(v, "autoDeliverWrite")
    BY <1>0, <1>3, StepAt DEF AutoDeliveryRead
  <2>2. QED
    BY <1>0, <2>1, GotoMoves DEF Serves, Owes, IsAuto
<1>4. CASE Step(v) /\ pc[v] = "autoDeliverWrite"
  <2>1. status' = [status EXCEPT ![o] = "DELIVERED"]
    BY <1>0, <1>4, StepAt DEF AutoDeliveryWrite, WriteStatus
  <2>2. QED
    BY <2>1 DEF TypeOK
<1>5. CASE Fault(v)
  BY <1>5, FaultCuts DEF Serves
<1>6. QED
  BY <1>0, <1>1, <1>2, <1>3, <1>4, <1>5, NextOfHandler

LEMMA PaidKnown ==
    ASSUME TypeOK, TypeOK', PaidIsServed, [Next]_vars
    PROVE  PaidIsServed'
<1> SUFFICES ASSUME NEW o \in Orders, status'[o] = "IN_DELIVERY", IsAuto(o)
             PROVE  (\E w \in Workers : Serves(w, o)') \/ <<"delivery", o>> \in cut'
  BY DEF PaidIsServed, Serves, IsAuto
<1>1. CASE status[o] # "IN_DELIVERY"
  <2>1. PICK w \in Workers : pc'[w] = "reserve" /\ ctx'[w].order = o
    BY <1>1, StatusArrives
  <2>2. QED
    BY <2>1 DEF Serves, Owes, IsAuto
<1>2. CASE <<"delivery", o>> \in cut
  BY <1>2, CutStays
<1>3. CASE status[o] = "IN_DELIVERY" /\ \E v \in Workers : Serves(v, o)
  BY <1>3, ServingGoesOn
<1>4. QED
  BY <1>1, <1>2, <1>3 DEF PaidIsServed, Serves

\* What waits for a job or a handler is not forgotten, unless a fault or an exhausted
\* inventory has cut what should have followed a commit.
ProgressInv == JobsInv /\ ExpireJobsOK /\ UnpaidIsWatched /\ PaidIsServed

\* The induction behind the two theorems below, through every crash, throw, stall, second run
\* and edit of the listing.
THEOREM ProgressInductive == Spec => []ProgressInv
<1>1. Init => ExpireJobsOK /\ UnpaidIsWatched /\ PaidIsServed
  BY DEF Init, ExpireJobsOK, UnpaidIsWatched, PaidIsServed, Payable
<1>2. JobsInv /\ JobsInv' /\ ExpireJobsOK /\ [Next]_vars => ExpireJobsOK'
  BY ExpireJobsKnown DEF JobsInv, IInv
<1>3. JobsInv /\ JobsInv' /\ ExpireJobsOK /\ ExpireJobsOK' /\ UnpaidIsWatched /\ [Next]_vars
      => UnpaidIsWatched'
  BY UnpaidKnown DEF JobsInv, IInv
<1>4. JobsInv /\ JobsInv' /\ PaidIsServed /\ [Next]_vars => PaidIsServed'
  BY PaidKnown DEF JobsInv, IInv
<1>5. QED
  BY <1>1, <1>2, <1>3, <1>4, JobsInductive, PTL DEF Spec, ProgressInv

\* An order that may still be paid has its expire job, waiting, failed or about to be added,
\* or the handler that cancels it; only a fault between its commit and the add of the job
\* leaves it without.
THEOREM UnpaidStaysWatched == Spec => []UnpaidIsWatched
<1>1. ProgressInv => UnpaidIsWatched
  BY DEF ProgressInv
<1>2. QED
  BY <1>1, ProgressInductive, PTL

\* A paid order of an AUTO listing has a handler on its way to deliver it, unless a fault or
\* an exhausted inventory has cut the delivery; restocking brings no handler back.
THEOREM PaidStaysServed == Spec => []PaidIsServed
<1>1. ProgressInv => PaidIsServed
  BY DEF ProgressInv
<1>2. QED
  BY <1>1, ProgressInductive, PTL

=============================================================================
