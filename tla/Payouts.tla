------------------------------ MODULE Payouts ------------------------------
(***************************************************************************)
(* Money that leaves the platform: a user's payout, which is requested as a  *)
(* draft, confirmed with codes and then made at the Pix provider, and the    *)
(* platform's own payout of the fees it has earned (WalletService).          *)
(*                                                                          *)
(* Handlers run concurrently.  No lock is held between the reads of a        *)
(* request, the call of the provider and the transaction that records it.    *)
(*                                                                          *)
(* One user: a balance is summed per user and nothing else is shared.  The   *)
(* age of the account and its contacts refuse a request where it reads, as   *)
(* if it had not been sent.                                                 *)
(***************************************************************************)
EXTENDS Integers, FiniteSets

CONSTANTS
    Drafts, Payouts,  \* rows that may be created (bounds)
    Handlers,         \* requests in flight at once (bound)
    Amounts,          \* amountCents of a request
    InstantFee,       \* fee of an INSTANT payout
    InitialBalance, InitialFees,
    Adjustments,      \* amounts of the other entries of the user's ledger
    MaxAdjustments,   \* how many of those, and of fees earned (bound)
    MaxFaults,        \* crashes, failed statements, lost answers (bound)
    None

ASSUME PayoutsAssumption ==
    /\ Amounts \subseteq Nat \ {0}
    /\ InstantFee \in Nat /\ InitialBalance \in Nat /\ InitialFees \in Nat
    /\ Adjustments \subseteq Int
    /\ MaxAdjustments \in Nat /\ MaxFaults \in Nat
    /\ IsFiniteSet(Payouts)
    /\ None \notin Drafts \cup Payouts

VARIABLES
    balance,      \* sum of the user's AVAILABLE ledger entries
    fees,         \* sum of the AVAILABLE entries with source FEE
    platformPaid, \* sum of the SENT payouts of the platform
    draft,        \* PayoutDraft: status and payload; None: no such row
    overdue,      \* drafts whose expiresAt has passed
    payout,       \* Payout: status, scope, amountCents; None: no such row
    debited,      \* DEBIT entries written for the payout
    sent,         \* what the provider paid for the payout, 0 if nothing
    origin,       \* the draft it was paid for
    blocked,      \* User.payoutBlockedAt
    pc, job,      \* the requests in flight
    interrupted,  \* payouts whose recording a fault has cut off
    adjustments, faults

moneyVars == <<balance, fees, platformPaid, payout, debited>>
providerVars == <<sent, origin>>
draftVars == <<draft, overdue>>
boundVars == <<interrupted, adjustments, faults>>
vars == <<moneyVars, providerVars, draftVars, blocked, pc, job, boundVars>>

Draft == [status : {"PENDING", "CONFIRMED", "EXPIRED"}, amount : Amounts, fee : {0, InstantFee}]
Payout == [status : {"SENT", "FAILED"}, scope : {"USER", "PLATFORM"}, amount : Amounts, fee : {0, InstantFee}]
Job == [kind : {"request", "confirm", "platform"}, draft : Drafts \cup {None},
        payout : Payouts \cup {None}, amount : Amounts, fee : {0, InstantFee},
        fees : Nat, read : Int]
ASSUME AbsentAssumption ==
    /\ None \notin Draft /\ None \notin Payout /\ None \notin Job
    /\ None \notin [amount : Amounts, fee : {0, InstantFee}]

Pcs == {"idle", "summary", "insertDraft", "sendCodes", "expireDraft", "checkCodes", "claim",
        "context", "platformPaid", "cashOut", "record", "fail"}

PayoutsTypeOK ==
    /\ balance \in Int /\ fees \in Nat /\ platformPaid \in Nat
    /\ draft \in [Drafts -> Draft \cup {None}]
    /\ overdue \subseteq Drafts
    /\ payout \in [Payouts -> Payout \cup {None}]
    /\ debited \in [Payouts -> Nat]
    /\ sent \in [Payouts -> Nat]
    /\ origin \in [Payouts -> Drafts \cup {None}]
    /\ blocked \in BOOLEAN
    /\ pc \in [Handlers -> Pcs]
    /\ job \in [Handlers -> Job \cup {None}]
    /\ \A w \in Handlers : job[w] = None <=> pc[w] = "idle"
    /\ interrupted \subseteq Payouts
    /\ adjustments \in Nat /\ faults \in Nat

Init ==
    /\ balance = InitialBalance /\ fees = InitialFees /\ platformPaid = 0
    /\ draft = [d \in Drafts |-> None] /\ overdue = {}
    /\ payout = [p \in Payouts |-> None]
    /\ debited = [p \in Payouts |-> 0]
    /\ sent = [p \in Payouts |-> 0]
    /\ origin = [p \in Payouts |-> None]
    /\ blocked = FALSE
    /\ pc = [w \in Handlers |-> "idle"] /\ job = [w \in Handlers |-> None]
    /\ interrupted = {} /\ adjustments = 0 /\ faults = 0

Positive(n) == IF n > 0 THEN n ELSE 0

\* randomUUID: an id no row and no other request has.
UnusedDraft(d) == draft[d] = None /\ \A w \in Handlers : job[w] # None => job[w].draft # d
InHand(p) == \E w \in Handlers : job[w] # None /\ job[w].payout = p
UnusedPayout(p) == payout[p] = None /\ sent[p] = 0 /\ ~InHand(p)

Begin(w, label, j) ==
    /\ pc[w] = "idle"
    /\ pc' = [pc EXCEPT ![w] = label]
    /\ job' = [job EXCEPT ![w] = j]
    /\ UNCHANGED <<moneyVars, providerVars, draftVars, blocked, boundVars>>

Goto(w, label) == pc' = [pc EXCEPT ![w] = label] /\ UNCHANGED job

\* Seeded fault: what the request has read outlives it.
Leave_KeepsJob(w) == pc' = [pc EXCEPT ![w] = "idle"] /\ UNCHANGED job

\* The request returns or throws.
Leave(w) == pc' = [pc EXCEPT ![w] = "idle"] /\ job' = [job EXCEPT ![w] = None]

Fault == faults < MaxFaults /\ faults' = faults + 1

(***************************************************************************)
(* The draft.                                                               *)
(***************************************************************************)

\* requestPayoutVerification; getUserPayoutContext reads the user first.
RequestPayoutVerification(w, d, cents, feeCents) ==
    /\ UnusedDraft(d)
    /\ ~blocked
    /\ Begin(w, "summary", [kind |-> "request", draft |-> d, payout |-> None, amount |-> cents,
                            fee |-> feeCents, fees |-> 0, read |-> 0])

Due(w) == job[w].amount + job[w].fee

\* Seeded fault: the fee of an INSTANT payout is not asked of the balance.
Covered_WithoutFee(w) == job[w].amount <= balance

Covered(w) == Due(w) <= balance

\* getUserPayoutContext: getSummary and the check of the balance.
ReadSummary(w) ==
    /\ pc[w] = "summary"
    /\ IF Covered(w)
       THEN /\ pc' = [pc EXCEPT ![w] = IF job[w].kind = "request" THEN "insertDraft" ELSE "cashOut"]
            /\ job' = [job EXCEPT ![w].read = balance]
       ELSE Leave(w)
    /\ UNCHANGED <<moneyVars, providerVars, draftVars, blocked, boundVars>>

InsertDraft(w) ==
    /\ pc[w] = "insertDraft"
    /\ draft' = [draft EXCEPT ![job[w].draft] =
                    [status |-> "PENDING", amount |-> job[w].amount, fee |-> job[w].fee]]
    /\ Goto(w, "sendCodes")
    /\ UNCHANGED <<moneyVars, providerVars, overdue, blocked, boundVars>>

\* Either message may fail; the draft may have been confirmed by the codes of another one.
SendCodes(w) ==
    /\ pc[w] = "sendCodes"
    /\ Leave(w) \/ Goto(w, "expireDraft")
    /\ UNCHANGED <<moneyVars, providerVars, draftVars, blocked, boundVars>>

\* An update by id, whatever the status has become.
ExpireDraft(w) ==
    /\ pc[w] = "expireDraft"
    /\ draft' = [draft EXCEPT ![job[w].draft].status = "EXPIRED"]
    /\ Leave(w)
    /\ UNCHANGED <<moneyVars, providerVars, overdue, blocked, boundVars>>

\* Ten minutes have passed.
DraftRunsOut(d) ==
    /\ draft[d] # None
    /\ overdue' = overdue \cup {d}
    /\ UNCHANGED <<moneyVars, providerVars, draft, blocked, pc, job, boundVars>>

\* confirmPayoutVerification
ConfirmPayoutVerification(w, d, p) ==
    /\ draft[d] # None /\ draft[d].status = "PENDING"
    /\ UnusedPayout(p)
    /\ Begin(w, IF d \in overdue THEN "expireDraft" ELSE "checkCodes",
             [kind |-> "confirm", draft |-> d, payout |-> p, amount |-> draft[d].amount,
              fee |-> draft[d].fee, fees |-> 0, read |-> 0])

CheckCodes(w) ==
    /\ pc[w] = "checkCodes"
    /\ Leave(w) \/ Goto(w, "claim")
    /\ UNCHANGED <<moneyVars, providerVars, draftVars, blocked, boundVars>>

\* Seeded fault: the draft is updated by id.
Claim_ById(w) ==
    /\ pc[w] = "claim"
    /\ draft' = [draft EXCEPT ![job[w].draft].status = "CONFIRMED"]
    /\ Goto(w, "context")
    /\ UNCHANGED <<moneyVars, providerVars, overdue, blocked, boundVars>>

\* The updateMany from PENDING to CONFIRMED: only one confirmation finds the row.
Claim(w) ==
    /\ pc[w] = "claim"
    /\ IF draft[job[w].draft].status = "PENDING"
       THEN /\ draft' = [draft EXCEPT ![job[w].draft].status = "CONFIRMED"]
            /\ Goto(w, "context")
       ELSE Leave(w) /\ UNCHANGED draft
    /\ UNCHANGED <<moneyVars, providerVars, overdue, blocked, boundVars>>

(***************************************************************************)
(* The cash-out and its record.                                             *)
(***************************************************************************)

\* createUserPayout: getUserPayoutContext again, the user first.
ReadUser(w) ==
    /\ pc[w] = "context"
    /\ IF blocked THEN Leave(w) ELSE Goto(w, "summary")
    /\ UNCHANGED <<moneyVars, providerVars, draftVars, blocked, boundVars>>

\* createPlatformPayout: the sum of the fees is read, and then what was paid of it.
CreatePlatformPayout(w, p, cents) ==
    /\ UnusedPayout(p)
    /\ Begin(w, "platformPaid", [kind |-> "platform", draft |-> None, payout |-> p,
                                 amount |-> cents, fee |-> 0, fees |-> fees, read |-> 0])

ReadPlatformPaid(w) ==
    /\ pc[w] = "platformPaid"
    /\ IF job[w].amount <= Positive(job[w].fees - platformPaid)
       THEN /\ pc' = [pc EXCEPT ![w] = "cashOut"]
            /\ job' = [job EXCEPT ![w].read = platformPaid]
       ELSE Leave(w)
    /\ UNCHANGED <<moneyVars, providerVars, draftVars, blocked, boundVars>>

Pay(w) ==
    /\ sent' = [sent EXCEPT ![job[w].payout] = job[w].amount]
    /\ origin' = [origin EXCEPT ![job[w].payout] = job[w].draft]

\* Seeded fault: a refusal is not told from an acceptance.
CashOutPix_IgnoresRefusal(w) ==
    /\ pc[w] = "cashOut"
    /\ Goto(w, "record")
    /\ Pay(w) \/ UNCHANGED providerVars
    /\ UNCHANGED <<moneyVars, draftVars, blocked, boundVars>>

\* The provider pays, refuses, or pays although its answer is lost.
CashOutPix(w) ==
    /\ pc[w] = "cashOut"
    /\ \/ Pay(w) /\ Goto(w, "record") /\ UNCHANGED boundVars
       \/ Goto(w, "fail") /\ UNCHANGED <<providerVars, boundVars>>
       \/ /\ Pay(w) /\ Goto(w, "fail") /\ Fault
          /\ interrupted' = interrupted \cup {job[w].payout}
          /\ UNCHANGED adjustments
    /\ UNCHANGED <<moneyVars, draftVars, blocked>>

InsertPayout(w, status) ==
    payout' = [payout EXCEPT ![job[w].payout] =
                  [status |-> status, scope |-> IF job[w].kind = "platform" THEN "PLATFORM" ELSE "USER",
                   amount |-> job[w].amount, fee |-> job[w].fee]]

\* The transaction of a user's payout: the row, its debit and the debit of its fee, which
\* counts among the platform's fees; a platform payout is the row alone.
RecordPayout(w) ==
    /\ pc[w] = "record"
    /\ InsertPayout(w, "SENT")
    /\ IF job[w].kind = "platform"
       THEN /\ platformPaid' = platformPaid + job[w].amount
            /\ UNCHANGED <<balance, fees, debited>>
       ELSE /\ balance' = balance - Due(w)
            /\ fees' = fees + job[w].fee
            /\ debited' = [debited EXCEPT ![job[w].payout] = Due(w)]
            /\ UNCHANGED platformPaid
    /\ Leave(w)
    /\ UNCHANGED <<providerVars, draftVars, blocked, boundVars>>

\* The transaction fails although the money has left: the catch block takes over.
RecordFails(w) ==
    /\ pc[w] = "record"
    /\ Fault
    /\ interrupted' = interrupted \cup {job[w].payout}
    /\ Goto(w, "fail")
    /\ UNCHANGED <<moneyVars, providerVars, draftVars, blocked, adjustments>>

\* The catch block: a FAILED row, and the error is thrown on.
RecordFailure(w) ==
    /\ pc[w] = "fail"
    /\ InsertPayout(w, "FAILED")
    /\ Leave(w)
    /\ UNCHANGED <<balance, fees, platformPaid, debited, providerVars, draftVars, blocked, boundVars>>

\* The process dies, or a statement outside the try block fails.
Crash(w) ==
    /\ pc[w] # "idle"
    /\ Fault
    /\ interrupted' = interrupted \cup ({job[w].payout} \ {None})
    /\ Leave(w)
    /\ UNCHANGED <<moneyVars, providerVars, draftVars, blocked, adjustments>>

(***************************************************************************)
(* The rest of the wallet.                                                  *)
(***************************************************************************)

\* blockPayouts, unblockPayouts
SetBlock(b) ==
    /\ blocked' = b
    /\ UNCHANGED <<moneyVars, providerVars, draftVars, pc, job, boundVars>>

\* adjustBalance, and the entries of sales, top-ups and payments with balance.
AdjustBalance(n) ==
    /\ adjustments < MaxAdjustments
    /\ adjustments' = adjustments + 1
    /\ balance' = balance + n
    /\ UNCHANGED <<fees, platformPaid, payout, debited, providerVars, draftVars, blocked, pc, job,
                   interrupted, faults>>

\* A release writes the FEE entry of its order.
EarnFee ==
    /\ adjustments < MaxAdjustments
    /\ adjustments' = adjustments + 1
    /\ fees' = fees + 1
    /\ UNCHANGED <<balance, platformPaid, payout, debited, providerVars, draftVars, blocked, pc, job,
                   interrupted, faults>>

Request(w) ==
    \/ \E d \in Drafts, cents \in Amounts, feeCents \in {0, InstantFee} :
          RequestPayoutVerification(w, d, cents, feeCents)
    \/ \E d \in Drafts, p \in Payouts : ConfirmPayoutVerification(w, d, p)
    \/ \E p \in Payouts, cents \in Amounts : CreatePlatformPayout(w, p, cents)

Proceed(w) ==
    \/ ReadSummary(w) \/ InsertDraft(w) \/ SendCodes(w) \/ ExpireDraft(w)
    \/ CheckCodes(w) \/ Claim(w) \/ ReadUser(w) \/ ReadPlatformPaid(w)
    \/ CashOutPix(w) \/ RecordPayout(w) \/ RecordFailure(w)

Next ==
    \/ \E w \in Handlers : Request(w) \/ Proceed(w) \/ RecordFails(w) \/ Crash(w)
    \/ \E d \in Drafts : DraftRunsOut(d)
    \/ \E b \in BOOLEAN : SetBlock(b)
    \/ \E n \in Adjustments : AdjustBalance(n)
    \/ EarnFee

Spec == Init /\ [][Next]_vars

(***************************************************************************)
(* Properties.                                                              *)
(***************************************************************************)

\* However confirmations of one draft overlap, and although late failures of the messages
\* write EXPIRED over its status, money leaves at most once for it.
DraftPaidOnce ==
    \A p, q \in Payouts : sent[p] > 0 /\ sent[q] > 0 /\ origin[p] = origin[q] /\ p # q => origin[p] = None

\* The rows as module Withdrawal sees them: a draft is its terms, whatever its status, and a
\* payout is in the books once it is SENT.
Terms(d) == IF draft[d] = None THEN None ELSE [amount |-> draft[d].amount, fee |-> draft[d].fee]
Booked(p) == payout[p] # None /\ payout[p].status = "SENT"

Promise == INSTANCE Withdrawal WITH
    Fees <- {0, InstantFee}, Nothing <- None,
    terms <- [d \in Drafts |-> Terms(d)], left <- sent, source <- origin,
    booked <- [p \in Payouts |-> Booked(p)], cost <- debited

\* Overlapping confirmations, late failures of the messages, lost answers of the provider and
\* crashes together keep the promise of module Withdrawal: money leaves once for a draft, in
\* the amount its user confirmed, and is debited after that, once, with the fee agreed on.
WithdrawalKept == Promise!WithdrawalSpec

\* Once its request has ended, a payout is recorded as SENT exactly if the provider paid
\* it, with that amount, and the user's ledger carries it and its fee; only a fault between
\* the provider and the record breaks this, and even then nothing is debited that is not SENT.
MoneyOutRecorded ==
    \A p \in Payouts :
        LET row == payout[p]
            isSent == row # None /\ row.status = "SENT" IN
        /\ isSent => /\ row.amount = sent[p]
                     /\ debited[p] = IF row.scope = "USER" THEN row.amount + row.fee ELSE 0
        /\ ~isSent => debited[p] = 0
        /\ ~InHand(p) /\ p \notin interrupted => (isSent <=> sent[p] > 0)

\* A payout overdraws the user's balance, or the fees the platform has earned, only if the
\* sum it was checked against has moved between the check and the record: the check itself
\* covers all that is recorded.
OverdrawNeedsRace ==
    [][\A w \in Handlers :
         pc[w] = "record" /\ pc'[w] = "idle" =>
            /\ balance' < 0 /\ balance' < balance => balance < job[w].read
            /\ platformPaid' > fees' /\ platformPaid' > platformPaid => platformPaid > job[w].read]_vars
=============================================================================
