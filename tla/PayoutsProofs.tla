--------------------------- MODULE PayoutsProofs ---------------------------
(* What TLAPS proves about Payouts, for every set of drafts, payouts and
   requests in flight, every amount and any number of faults. *)
EXTENDS Payouts, TLAPS

Working == {"context", "summary", "cashOut", "record", "fail"}
Unpaid == {"expireDraft", "checkCodes", "claim", "context", "summary", "platformPaid", "cashOut"}

\* What a request has to do with its kind and its rows.
JobShape(w) ==
    LET j == job[w] IN
    job[w] # None =>
        /\ j.kind = "request" =>
              /\ j.payout = None /\ j.draft \in Drafts
              /\ pc[w] \in {"summary", "insertDraft", "sendCodes", "expireDraft"}
              /\ pc[w] \in {"sendCodes", "expireDraft"} => draft[j.draft] # None
              /\ pc[w] \in {"summary", "insertDraft"} => draft[j.draft] = None
        /\ j.kind = "confirm" =>
              /\ j.payout \in Payouts /\ j.draft \in Drafts
              /\ pc[w] \in {"expireDraft", "checkCodes", "claim"} \cup Working
              /\ draft[j.draft] # None
        /\ j.kind = "platform" =>
              /\ j.payout \in Payouts /\ j.draft = None /\ j.fee = 0
              /\ pc[w] \in {"platformPaid", "cashOut", "record", "fail"}
              /\ j.fees <= fees

\* Ids are random: no two requests work on one payout or insert one draft.
OwnRows(w, v) ==
    job[w] # None /\ job[v] # None /\ w # v =>
        /\ job[w].payout # None => job[v].payout # job[w].payout
        /\ job[w].kind = "request" /\ pc[w] \in {"summary", "insertDraft"} => job[v].draft # job[w].draft

\* The money of the request, as far as it has come.
JobMoney(w) ==
    LET j == job[w]  p == job[w].payout IN
    job[w] # None /\ j.payout # None =>
        /\ payout[p] = None /\ debited[p] = 0
        /\ pc[w] \in Unpaid => sent[p] = 0
        /\ pc[w] = "record" => sent[p] = j.amount
        /\ pc[w] = "fail" /\ sent[p] > 0 => p \in interrupted
        /\ pc[w] \in {"cashOut", "record"} =>
              IF j.kind = "platform" THEN j.amount <= Positive(j.fees - j.read)
                                     ELSE Due(w) <= j.read

Claimed(w) == job[w] # None /\ job[w].kind = "confirm" /\ pc[w] \in Working

\* A confirmation that has claimed its draft is the only one, and nothing else was paid for it.
ClaimExclusive(w) ==
    Claimed(w) =>
        /\ draft[job[w].draft].status # "PENDING"
        /\ \A v \in Handlers : Claimed(v) /\ job[v].draft = job[w].draft => v = w
        /\ \A q \in Payouts : sent[q] > 0 /\ origin[q] = job[w].draft => q = job[w].payout

PaidClaimed ==
    \A q \in Payouts : sent[q] > 0 /\ origin[q] # None =>
        draft[origin[q]] # None /\ draft[origin[q]].status # "PENDING"

PInv ==
    /\ PayoutsTypeOK
    /\ \A w \in Handlers : JobShape(w) /\ JobMoney(w) /\ ClaimExclusive(w)
    /\ \A w, v \in Handlers : OwnRows(w, v)
    /\ PaidClaimed
    /\ DraftPaidOnce
    /\ MoneyOutRecorded

-----------------------------------------------------------------------------
(* Steps that write no row *)

LEMMA NoneIsNoId == None \notin Drafts /\ None \notin Payouts
BY PayoutsAssumption

LEMMA AJobIsNotNone ==
    ASSUME PInv, NEW w \in Handlers, pc[w] # "idle"
    PROVE  job[w] # None /\ job[w] \in Job
BY DEF PInv, PayoutsTypeOK

\* What a request carries is a job of numbers.
LEMMA JobNumbers ==
    ASSUME NEW j \in Job
    PROVE  /\ j.amount \in Amounts /\ j.amount \in Nat /\ j.amount > 0
           /\ j.fee \in {0, InstantFee} /\ j.fee \in Nat
           /\ j.fees \in Nat /\ j.read \in Int
           /\ j.draft \in Drafts \cup {None} /\ j.payout \in Payouts \cup {None}
<1>1. /\ j.amount \in Amounts /\ j.fee \in {0, InstantFee} /\ j.fees \in Nat /\ j.read \in Int
      /\ j.draft \in Drafts \cup {None} /\ j.payout \in Payouts \cup {None}
  BY DEF Job
<1>2. \A n \in Amounts : n \in Nat /\ n > 0
  BY PayoutsAssumption
<1>3. j.fee \in Nat
  BY <1>1, PayoutsAssumption
<1>4. QED
  BY <1>1, <1>2, <1>3

\* The request w goes from its job to another state of the same job, or ends.
LEMMA MoveInductive ==
    ASSUME PInv, NEW w \in Handlers, NEW label \in Pcs, NEW j \in Job \cup {None},
           j = None <=> label = "idle",
           pc' = [pc EXCEPT ![w] = label], job' = [job EXCEPT ![w] = j],
           UNCHANGED <<moneyVars, providerVars, draftVars, blocked>>,
           interrupted \subseteq interrupted', interrupted' \subseteq Payouts,
           adjustments' \in Nat, faults' \in Nat,
           job[w] # None,
           j # None => j.kind = job[w].kind /\ j.draft = job[w].draft /\ j.payout = job[w].payout,
           JobShape(w)', JobMoney(w)',
           Claimed(w)' => Claimed(w),
           label = "insertDraft" => pc[w] = "summary",
           label = "summary" => job[w].kind # "request",
           j = None /\ job[w].payout # None =>
               sent[job[w].payout] = 0 \/ job[w].payout \in interrupted'
    PROVE  PInv'
<1> USE DEF moneyVars, providerVars, draftVars
<1>a. /\ pc \in [Handlers -> Pcs] /\ job \in [Handlers -> Job \cup {None}]
      /\ pc'[w] = label /\ job'[w] = j
      /\ \A v \in Handlers : v # w => pc'[v] = pc[v] /\ job'[v] = job[v]
  BY DEF PInv, PayoutsTypeOK
<1>1. PayoutsTypeOK'
  BY <1>a DEF PInv, PayoutsTypeOK
<1>2. \A v \in Handlers : JobShape(v)' /\ JobMoney(v)'
  BY <1>a DEF PInv, JobShape, JobMoney, Due
<1>3. \A v \in Handlers : Claimed(v)' => Claimed(v) /\ job'[v].draft = job[v].draft
                                                    /\ job'[v].payout = job[v].payout
  BY <1>a DEF Claimed
<1>4. \A v \in Handlers : ClaimExclusive(v)'
  BY <1>3 DEF PInv, ClaimExclusive
<1>5. \A u, v \in Handlers : OwnRows(u, v)'
  BY <1>a DEF PInv, OwnRows
<1>6. PaidClaimed' /\ DraftPaidOnce'
  BY DEF PInv, PaidClaimed, DraftPaidOnce
<1>7. MoneyOutRecorded'
  <2>1. ASSUME NEW p \in Payouts, InHand(p), ~InHand(p)', p \notin interrupted'
        PROVE  payout[p] = None /\ sent[p] = 0
    BY <1>a, <2>1, NoneIsNoId DEF PInv, JobMoney, InHand
  <2>2. QED
    BY <2>1 DEF PInv, MoneyOutRecorded
<1>8. QED
  BY <1>1, <1>2, <1>4, <1>5, <1>6, <1>7 DEF PInv

LEMMA LeaveInductive ==
    ASSUME PInv, NEW w \in Handlers, pc[w] # "idle", Leave(w),
           UNCHANGED <<moneyVars, providerVars, draftVars, blocked, adjustments>>,
           interrupted \subseteq interrupted', interrupted' \subseteq Payouts, faults' \in Nat,
           job[w].payout # None => sent[job[w].payout] = 0 \/ job[w].payout \in interrupted'
    PROVE  PInv'
<1>1. JobShape(w)' /\ JobMoney(w)' /\ ~Claimed(w)' /\ job[w] # None
  BY AJobIsNotNone DEF Leave, PInv, PayoutsTypeOK, JobShape, JobMoney, Claimed
<1>2. adjustments' \in Nat /\ "idle" \in Pcs
  BY DEF PInv, PayoutsTypeOK, Pcs
<1>3. QED
  BY <1>1, <1>2, MoveInductive DEF Leave

LEMMA GotoInductive ==
    ASSUME PInv, NEW w \in Handlers, pc[w] # "idle", NEW label \in Pcs \ {"idle"}, Goto(w, label),
           UNCHANGED <<moneyVars, providerVars, draftVars, blocked, adjustments>>,
           interrupted \subseteq interrupted', interrupted' \subseteq Payouts, faults' \in Nat,
           JobShape(w)', JobMoney(w)',
           Claimed(w)' => Claimed(w),
           label = "insertDraft" => pc[w] = "summary",
           label = "summary" => job[w].kind # "request"
    PROVE  PInv'
<1>1. job[w] # None /\ job[w] \in Job
  BY AJobIsNotNone
<1>2. job' = [job EXCEPT ![w] = job[w]]
  BY DEF Goto, PInv, PayoutsTypeOK
<1>3. adjustments' \in Nat
  BY DEF PInv, PayoutsTypeOK
<1>4. QED
  BY <1>1, <1>2, <1>3, MoveInductive DEF Goto

\* A new request.
LEMMA BeginInductive ==
    ASSUME PInv, NEW w \in Handlers, NEW label \in Pcs \ {"idle"}, NEW j \in Job, Begin(w, label, j),
           JobShape(w)', JobMoney(w)', ~Claimed(w)',
           \A v \in Handlers : job[v] # None /\ j.payout # None => job[v].payout # j.payout,
           \A v \in Handlers : job[v] # None /\ j.kind = "request" => job[v].draft # j.draft,
           \A v \in Handlers : job[v] # None /\ pc[v] \in {"summary", "insertDraft"}
                                 /\ job[v].kind = "request" => job[v].draft # j.draft
    PROVE  PInv'
<1> USE DEF moneyVars, providerVars, draftVars, boundVars
<1>a. /\ pc \in [Handlers -> Pcs] /\ job \in [Handlers -> Job \cup {None}]
      /\ pc'[w] = label /\ job'[w] = j /\ j # None /\ job[w] = None
      /\ \A v \in Handlers : v # w => pc'[v] = pc[v] /\ job'[v] = job[v]
  <2>1. j # None
    BY AbsentAssumption
  <2>2. QED
    BY <2>1 DEF PInv, PayoutsTypeOK, Begin
<1>1. PayoutsTypeOK'
  BY <1>a DEF PInv, PayoutsTypeOK, Begin
<1>2. \A v \in Handlers : JobShape(v)' /\ JobMoney(v)'
  BY <1>a DEF PInv, JobShape, JobMoney, Due, Begin
<1>3. \A v \in Handlers : Claimed(v)' => Claimed(v) /\ job'[v].draft = job[v].draft
                                                    /\ job'[v].payout = job[v].payout
  BY <1>a DEF Claimed
<1>4. \A v \in Handlers : ClaimExclusive(v)'
  BY <1>3 DEF PInv, ClaimExclusive, Begin
<1>5. \A u, v \in Handlers : OwnRows(u, v)'
  BY <1>a DEF PInv, OwnRows
<1>6. PaidClaimed' /\ DraftPaidOnce'
  BY DEF PInv, PaidClaimed, DraftPaidOnce, Begin
<1>7. MoneyOutRecorded'
  BY <1>a DEF PInv, MoneyOutRecorded, InHand, Begin
<1>8. QED
  BY <1>1, <1>2, <1>4, <1>5, <1>6, <1>7 DEF PInv

LEMMA RequestInductive ==
    ASSUME PInv, NEW w \in Handlers, NEW d \in Drafts, NEW cents \in Amounts,
           NEW f \in {0, InstantFee}, RequestPayoutVerification(w, d, cents, f)
    PROVE  PInv'
<1> DEFINE j == [kind |-> "request", draft |-> d, payout |-> None, amount |-> cents,
                 fee |-> f, fees |-> 0, read |-> 0]
<1>1. j \in Job /\ "summary" \in Pcs \ {"idle"}
  BY DEF Job, Pcs
<1>2. pc'[w] = "summary" /\ job'[w] = j /\ draft' = draft
  BY DEF RequestPayoutVerification, Begin, PInv, PayoutsTypeOK, draftVars
<1>3. JobShape(w)' /\ JobMoney(w)' /\ ~Claimed(w)'
  BY <1>2 DEF JobShape, JobMoney, Claimed, RequestPayoutVerification, UnusedDraft
<1>4. Begin(w, "summary", j)
  BY DEF RequestPayoutVerification
<1>5. \A v \in Handlers : job[v] # None => job[v].draft # d
  BY DEF RequestPayoutVerification, UnusedDraft
<1>6. j.payout = None /\ j.draft = d
  OBVIOUS
<1> HIDE DEF j
<1>7. QED
  BY <1>1, <1>3, <1>4, <1>5, <1>6, BeginInductive

LEMMA ConfirmInductive ==
    ASSUME PInv, NEW w \in Handlers, NEW d \in Drafts, NEW p \in Payouts,
           ConfirmPayoutVerification(w, d, p)
    PROVE  PInv'
<1> DEFINE j == [kind |-> "confirm", draft |-> d, payout |-> p, amount |-> draft[d].amount,
                 fee |-> draft[d].fee, fees |-> 0, read |-> 0]
           label == IF d \in overdue THEN "expireDraft" ELSE "checkCodes"
<1>1. j \in Job /\ label \in Pcs \ {"idle"} /\ label \in {"expireDraft", "checkCodes"}
  <2>1. draft[d] \in Draft
    BY DEF ConfirmPayoutVerification, PInv, PayoutsTypeOK
  <2>2. draft[d].amount \in Amounts /\ draft[d].fee \in {0, InstantFee}
    BY <2>1 DEF Draft
  <2>3. QED
    BY <2>2 DEF Job, Pcs
<1>2. Begin(w, label, j)
  BY DEF ConfirmPayoutVerification
<1>6. j.payout = p /\ j.draft = d /\ j.kind = "confirm"
  OBVIOUS
<1> HIDE DEF j, label
<1>3. pc'[w] = label /\ job'[w] = j /\ draft' = draft /\ payout' = payout /\ sent' = sent /\ debited' = debited
  BY <1>2 DEF Begin, PInv, PayoutsTypeOK, draftVars, moneyVars, providerVars
<1>4. debited[p] = 0 /\ payout[p] = None /\ sent[p] = 0 /\ draft[d] # None /\ draft[d].status = "PENDING"
  BY DEF ConfirmPayoutVerification, UnusedPayout, PInv, MoneyOutRecorded
<1>5. JobShape(w)' /\ JobMoney(w)' /\ ~Claimed(w)'
  BY <1>1, <1>3, <1>4, <1>6 DEF JobShape, JobMoney, Claimed, Working, Unpaid
<1>7. \A v \in Handlers : job[v] # None => job[v].payout # p
  BY DEF ConfirmPayoutVerification, UnusedPayout, InHand
<1>8. \A v \in Handlers : job[v] # None /\ pc[v] \in {"summary", "insertDraft"}
                             /\ job[v].kind = "request" => job[v].draft # d
  BY <1>4 DEF PInv, JobShape
<1>9. QED
  BY <1>1, <1>2, <1>5, <1>6, <1>7, <1>8, BeginInductive

LEMMA CreatePlatformInductive ==
    ASSUME PInv, NEW w \in Handlers, NEW p \in Payouts, NEW cents \in Amounts,
           CreatePlatformPayout(w, p, cents)
    PROVE  PInv'
<1> DEFINE j == [kind |-> "platform", draft |-> None, payout |-> p,
                 amount |-> cents, fee |-> 0, fees |-> fees, read |-> 0]
<1>1. j \in Job /\ "platformPaid" \in Pcs \ {"idle"}
  BY DEF Job, Pcs, PInv, PayoutsTypeOK
<1>2. Begin(w, "platformPaid", j)
  BY DEF CreatePlatformPayout
<1>6. j.payout = p /\ j.draft = None /\ j.kind = "platform" /\ j.fee = 0 /\ j.fees = fees
  OBVIOUS
<1> HIDE DEF j
<1>3. /\ pc'[w] = "platformPaid" /\ job'[w] = j
      /\ payout' = payout /\ sent' = sent /\ debited' = debited /\ fees' = fees
  BY <1>2 DEF Begin, PInv, PayoutsTypeOK, draftVars, moneyVars, providerVars
<1>4. debited[p] = 0 /\ payout[p] = None /\ sent[p] = 0
  BY DEF CreatePlatformPayout, UnusedPayout, PInv, MoneyOutRecorded
<1>5. JobShape(w)' /\ JobMoney(w)' /\ ~Claimed(w)'
  <2>1. fees \in Nat
    BY DEF PInv, PayoutsTypeOK
  <2>2. QED
    BY <2>1, <1>3, <1>4, <1>6 DEF JobShape, JobMoney, Claimed, Unpaid
<1>7. \A v \in Handlers : job[v] # None => job[v].payout # p
  BY DEF CreatePlatformPayout, UnusedPayout, InHand
<1>8. \A v \in Handlers : job[v] # None /\ pc[v] \in {"summary", "insertDraft"}
                             /\ job[v].kind = "request" => job[v].draft # None
  BY NoneIsNoId DEF PInv, JobShape
<1>9. QED
  BY <1>1, <1>2, <1>5, <1>6, <1>7, <1>8, BeginInductive

LEMMA ReadSummaryInductive ==
    ASSUME PInv, NEW w \in Handlers, ReadSummary(w)
    PROVE  PInv'
<1>1. pc[w] # "idle" /\ job[w] # None /\ job[w] \in Job /\ pc[w] = "summary"
  BY AJobIsNotNone DEF ReadSummary
<1>2. CASE ~Covered(w)
  <2>1. job[w].payout # None => sent[job[w].payout] = 0
    BY <1>1 DEF PInv, JobMoney, Unpaid
  <2>2. interrupted' = interrupted /\ interrupted \subseteq Payouts /\ faults' = faults /\ faults \in Nat
    BY DEF ReadSummary, boundVars, PInv, PayoutsTypeOK
  <2>3. QED
    BY <1>1, <1>2, <2>1, <2>2, LeaveInductive DEF ReadSummary, boundVars
<1>3. CASE Covered(w)
  <2> DEFINE j == [job[w] EXCEPT !.read = balance]
             label == IF job[w].kind = "request" THEN "insertDraft" ELSE "cashOut"
  <2>1. balance \in Int /\ interrupted \subseteq Payouts /\ faults \in Nat /\ adjustments \in Nat
    BY DEF PInv, PayoutsTypeOK
  <2>2. /\ j \in Job /\ j.kind = job[w].kind /\ j.draft = job[w].draft /\ j.payout = job[w].payout
        /\ j.amount = job[w].amount /\ j.fee = job[w].fee /\ j.fees = job[w].fees /\ j.read = balance
    BY <1>1, <2>1 DEF Job
  <2>3. label \in Pcs \ {"idle"} /\ label \in {"insertDraft", "cashOut"}
    BY DEF Pcs
  <2>4. pc' = [pc EXCEPT ![w] = label] /\ job' = [job EXCEPT ![w] = j]
    BY <1>3 DEF ReadSummary
  <2>5. label = "cashOut" <=> job[w].kind # "request"
    OBVIOUS
  <2> HIDE DEF j, label
  <2>6. pc'[w] = label /\ job'[w] = j
    BY <2>4 DEF PInv, PayoutsTypeOK
  <2>7. UNCHANGED <<moneyVars, providerVars, draftVars, blocked, boundVars>>
    BY DEF ReadSummary
  <2>8. job[w].kind \in {"request", "confirm"}
    BY <1>1 DEF PInv, JobShape, Job
  <2>9. JobShape(w)'
    BY <1>1, <2>2, <2>3, <2>5, <2>6, <2>7, <2>8
    DEF PInv, JobShape, Working, draftVars, moneyVars
  <2>10. JobMoney(w)'
    BY <1>1, <1>3, <2>2, <2>3, <2>5, <2>6, <2>7, <2>8
    DEF PInv, JobMoney, Due, Covered, Unpaid, moneyVars, providerVars
  <2>11. Claimed(w)' => Claimed(w)
    BY <1>1, <2>2, <2>6, <2>5 DEF Claimed, Working
  <2>12. j # None
    BY <2>2, AbsentAssumption
  <2>13. QED
    BY <1>1, <2>1, <2>2, <2>3, <2>4, <2>5, <2>7, <2>9, <2>10, <2>11, <2>12, MoveInductive DEF boundVars
<1>4. QED
  BY <1>2, <1>3

LEMMA ReadPlatformPaidInductive ==
    ASSUME PInv, NEW w \in Handlers, ReadPlatformPaid(w)
    PROVE  PInv'
<1>1. pc[w] # "idle" /\ job[w] # None /\ job[w] \in Job /\ pc[w] = "platformPaid"
  BY AJobIsNotNone DEF ReadPlatformPaid
<1>2. CASE ~(job[w].amount <= Positive(job[w].fees - platformPaid))
  <2>1. job[w].payout # None => sent[job[w].payout] = 0
    BY <1>1 DEF PInv, JobMoney, Unpaid
  <2>2. interrupted' = interrupted /\ interrupted \subseteq Payouts /\ faults' = faults /\ faults \in Nat
    BY DEF ReadPlatformPaid, boundVars, PInv, PayoutsTypeOK
  <2>3. QED
    BY <1>1, <1>2, <2>1, <2>2, LeaveInductive DEF ReadPlatformPaid, boundVars
<1>3. CASE job[w].amount <= Positive(job[w].fees - platformPaid)
  <2> DEFINE j == [job[w] EXCEPT !.read = platformPaid]
  <2>1. platformPaid \in Int /\ interrupted \subseteq Payouts /\ faults \in Nat /\ adjustments \in Nat
    BY DEF PInv, PayoutsTypeOK
  <2>2. /\ j \in Job /\ j.kind = job[w].kind /\ j.draft = job[w].draft /\ j.payout = job[w].payout
        /\ j.amount = job[w].amount /\ j.fee = job[w].fee /\ j.fees = job[w].fees /\ j.read = platformPaid
    BY <1>1, <2>1 DEF Job
  <2>3. "cashOut" \in Pcs
    BY DEF Pcs
  <2>4. pc' = [pc EXCEPT ![w] = "cashOut"] /\ job' = [job EXCEPT ![w] = j]
    BY <1>3 DEF ReadPlatformPaid
  <2> HIDE DEF j
  <2>6. pc'[w] = "cashOut" /\ job'[w] = j
    BY <2>4 DEF PInv, PayoutsTypeOK
  <2>7. UNCHANGED <<moneyVars, providerVars, draftVars, blocked, boundVars>>
    BY DEF ReadPlatformPaid
  <2>8. job[w].kind = "platform"
    BY <1>1 DEF PInv, JobShape, Job, Working
  <2>9. JobShape(w)'
    BY <1>1, <2>2, <2>6, <2>7, <2>8 DEF PInv, JobShape, draftVars, moneyVars
  <2>10. JobMoney(w)'
    BY <1>1, <1>3, <2>2, <2>6, <2>7, <2>8 DEF PInv, JobMoney, Unpaid, moneyVars, providerVars
  <2>11. ~Claimed(w)'
    BY <2>2, <2>6, <2>8 DEF Claimed
  <2>12. j # None
    BY <2>2, AbsentAssumption
  <2>13. QED
    BY <1>1, <2>1, <2>2, <2>3, <2>4, <2>7, <2>9, <2>10, <2>11, <2>12, MoveInductive DEF boundVars
<1>4. QED
  BY <1>2, <1>3

\* The steps that only go on or end.
LEMMA PlainInductive ==
    ASSUME PInv, NEW w \in Handlers, SendCodes(w) \/ CheckCodes(w) \/ ReadUser(w)
    PROVE  PInv'
<1> USE DEF moneyVars, providerVars, draftVars, boundVars
<1>1. pc[w] # "idle" /\ job[w] # None /\ job[w] \in Job
  BY AJobIsNotNone DEF SendCodes, CheckCodes, ReadUser
<1>2. UNCHANGED <<moneyVars, providerVars, draftVars, blocked, boundVars>>
  BY DEF SendCodes, CheckCodes, ReadUser
<1>3. interrupted \subseteq Payouts /\ faults \in Nat
  BY DEF PInv, PayoutsTypeOK
<1>4. job[w].payout # None => sent[job[w].payout] = 0
  BY <1>1 DEF PInv, JobShape, JobMoney, Unpaid, Working, SendCodes, CheckCodes, ReadUser, Job
<1>5. CASE Leave(w)
  BY <1>1, <1>2, <1>3, <1>4, <1>5, LeaveInductive
<1>6. CASE SendCodes(w) /\ ~Leave(w)
  <2>1. Goto(w, "expireDraft") /\ "expireDraft" \in Pcs \ {"idle"}
    BY <1>6 DEF SendCodes, Pcs
  <2>2. pc'[w] = "expireDraft" /\ job'[w] = job[w] /\ pc[w] = "sendCodes"
    BY <1>6, <2>1 DEF Goto, PInv, PayoutsTypeOK, SendCodes
  <2>3. JobShape(w)' /\ JobMoney(w)' /\ ~Claimed(w)'
    BY <1>1, <1>2, <2>2 DEF PInv, JobShape, JobMoney, Claimed, Working, Job
  <2>4. QED
    BY <1>1, <1>2, <1>3, <2>1, <2>3, GotoInductive
<1>7. CASE CheckCodes(w) /\ ~Leave(w)
  <2>1. Goto(w, "claim") /\ "claim" \in Pcs \ {"idle"}
    BY <1>7 DEF CheckCodes, Pcs
  <2>2. pc'[w] = "claim" /\ job'[w] = job[w] /\ pc[w] = "checkCodes"
    BY <1>7, <2>1 DEF Goto, PInv, PayoutsTypeOK, CheckCodes
  <2>3. JobShape(w)' /\ JobMoney(w)' /\ ~Claimed(w)'
    BY <1>1, <1>2, <2>2 DEF PInv, JobShape, JobMoney, Claimed, Working, Unpaid, Job
  <2>4. QED
    BY <1>1, <1>2, <1>3, <2>1, <2>3, GotoInductive
<1>8. CASE ReadUser(w) /\ ~Leave(w)
  <2>1. Goto(w, "summary") /\ "summary" \in Pcs \ {"idle"}
    BY <1>8 DEF ReadUser, Pcs
  <2>2. pc'[w] = "summary" /\ job'[w] = job[w] /\ pc[w] = "context"
    BY <1>8, <2>1 DEF Goto, PInv, PayoutsTypeOK, ReadUser
  <2>3. JobShape(w)' /\ JobMoney(w)' /\ (Claimed(w)' => Claimed(w)) /\ job[w].kind # "request"
    BY <1>1, <1>2, <2>2 DEF PInv, JobShape, JobMoney, Claimed, Working, Unpaid, Job
  <2>4. QED
    BY <1>1, <1>2, <1>3, <2>1, <2>3, GotoInductive
<1>9. QED
  BY <1>5, <1>6, <1>7, <1>8

LEMMA FaultInductive ==
    ASSUME PInv, NEW w \in Handlers, RecordFails(w) \/ Crash(w)
    PROVE  PInv'
<1> USE DEF moneyVars, providerVars, draftVars, boundVars
<1>1. pc[w] # "idle" /\ job[w] # None /\ job[w] \in Job
  BY AJobIsNotNone DEF RecordFails, Crash
<1>2. /\ interrupted \subseteq Payouts /\ faults' \in Nat
      /\ UNCHANGED <<moneyVars, providerVars, draftVars, blocked, adjustments>>
  BY DEF PInv, PayoutsTypeOK, RecordFails, Crash, Fault
<1>3. CASE RecordFails(w)
  <2>1. Goto(w, "fail") /\ "fail" \in Pcs \ {"idle"} /\ pc[w] = "record"
    BY <1>3 DEF RecordFails, Pcs
  <2>2. pc'[w] = "fail" /\ job'[w] = job[w] /\ interrupted' = interrupted \cup {job[w].payout}
    BY <1>3, <2>1 DEF Goto, PInv, PayoutsTypeOK, RecordFails
  <2>3. JobShape(w)' /\ JobMoney(w)' /\ (Claimed(w)' => Claimed(w)) /\ job[w].payout \in Payouts
    BY <1>1, <1>2, <2>1, <2>2 DEF PInv, JobShape, JobMoney, Claimed, Working, Unpaid, Job
  <2>4. QED
    BY <1>1, <1>2, <2>1, <2>2, <2>3, GotoInductive
<1>4. CASE Crash(w)
  <2>1. Leave(w) /\ interrupted' = interrupted \cup ({job[w].payout} \ {None})
    BY <1>4 DEF Crash
  <2>2. job[w].payout \in Payouts \cup {None}
    BY <1>1 DEF Job
  <2>3. QED
    BY <1>1, <1>2, <2>1, <2>2, LeaveInductive
<1>5. QED
  BY <1>3, <1>4

-----------------------------------------------------------------------------
(* Steps that write rows *)

LEMMA InsertDraftInductive ==
    ASSUME PInv, NEW w \in Handlers, InsertDraft(w)
    PROVE  PInv'
<1> USE DEF moneyVars, providerVars, draftVars, boundVars
<1> DEFINE d == job[w].draft
<1>1. /\ job[w] # None /\ job[w] \in Job /\ pc[w] = "insertDraft"
      /\ job[w].kind = "request" /\ d \in Drafts /\ draft[d] = None /\ job[w].payout = None
  BY AJobIsNotNone DEF InsertDraft, PInv, JobShape, Working, Job
<1>2. /\ draft'[d] = [status |-> "PENDING", amount |-> job[w].amount, fee |-> job[w].fee]
      /\ draft'[d] \in Draft /\ draft'[d] # None
      /\ \A e \in Drafts : e # d => draft'[e] = draft[e]
      /\ draft' \in [Drafts -> Draft \cup {None}]
  BY <1>1, AbsentAssumption DEF InsertDraft, PInv, PayoutsTypeOK, Draft, Job
<1>3. /\ job' = job /\ pc'[w] = "sendCodes" /\ pc' \in [Handlers -> Pcs]
      /\ \A v \in Handlers : v # w => pc'[v] = pc[v]
  BY DEF InsertDraft, Goto, PInv, PayoutsTypeOK, Pcs
<1>4. \A v \in Handlers : v # w /\ job[v] # None => job[v].draft # d
  BY <1>1 DEF PInv, OwnRows
<1>5. PayoutsTypeOK'
  BY <1>1, <1>2, <1>3 DEF InsertDraft, PInv, PayoutsTypeOK
<1> HIDE DEF d
<1>6. \A v \in Handlers : JobShape(v)'
  <2>1. JobShape(w)'
    BY <1>1, <1>2, <1>3 DEF d, JobShape
  <2>2. ASSUME NEW v \in Handlers, v # w PROVE JobShape(v)'
    <3>1. pc'[v] = pc[v] /\ job'[v] = job[v] /\ fees' = fees
      BY <1>3, <2>2 DEF InsertDraft
    <3>2. job[v] # None /\ job[v].draft \in Drafts => draft'[job[v].draft] = draft[job[v].draft]
      BY <1>2, <1>4, <2>2
    <3>3. QED
      BY <3>1, <3>2 DEF PInv, JobShape
  <2>3. QED
    BY <2>1, <2>2
<1>7. \A v \in Handlers : JobMoney(v)'
  BY <1>1, <1>3 DEF InsertDraft, PInv, JobMoney, Due
<1>8. \A v \in Handlers : Claimed(v)' => Claimed(v) /\ draft'[job[v].draft] = draft[job[v].draft]
  BY <1>1, <1>2, <1>3, <1>4 DEF Claimed, PInv, JobShape
<1>9. \A v \in Handlers : ClaimExclusive(v)'
  BY <1>3, <1>8 DEF InsertDraft, PInv, ClaimExclusive
<1>10. \A u, v \in Handlers : OwnRows(u, v)'
  BY <1>3 DEF PInv, OwnRows
<1>11. PaidClaimed'
  BY <1>1, <1>2 DEF InsertDraft, PInv, PaidClaimed, PayoutsTypeOK
<1>12. DraftPaidOnce' /\ MoneyOutRecorded'
  BY <1>3 DEF InsertDraft, PInv, DraftPaidOnce, MoneyOutRecorded, InHand
<1>13. QED
  BY <1>5, <1>6, <1>7, <1>9, <1>10, <1>11, <1>12 DEF PInv

\* The status of a row that exists changes, not back to PENDING.
LEMMA DraftWrite ==
    ASSUME PInv, NEW d \in Drafts, draft[d] # None, NEW status \in {"CONFIRMED", "EXPIRED"},
           draft' = [draft EXCEPT ![d].status = status]
    PROVE  /\ draft' \in [Drafts -> Draft \cup {None}]
           /\ draft'[d] # None /\ draft'[d].status = status
           /\ \A e \in Drafts : e # d => draft'[e] = draft[e]
<1>1. draft[d] \in Draft
  BY DEF PInv, PayoutsTypeOK
<1>2. [draft[d] EXCEPT !.status = status] \in Draft /\ [draft[d] EXCEPT !.status = status].status = status
  BY <1>1 DEF Draft
<1>3. QED
  BY <1>2, AbsentAssumption DEF PInv, PayoutsTypeOK

LEMMA ExpireDraftInductive ==
    ASSUME PInv, NEW w \in Handlers, ExpireDraft(w)
    PROVE  PInv'
<1> USE DEF moneyVars, providerVars, draftVars, boundVars
<1> DEFINE d == job[w].draft
<1>1. /\ job[w] # None /\ job[w] \in Job /\ pc[w] = "expireDraft"
      /\ d \in Drafts /\ draft[d] # None /\ (job[w].payout # None => sent[job[w].payout] = 0)
  BY AJobIsNotNone DEF ExpireDraft, PInv, JobShape, JobMoney, Job, Unpaid
<1>2. /\ draft' \in [Drafts -> Draft \cup {None}]
      /\ draft'[d] # None /\ draft'[d].status = "EXPIRED"
      /\ \A e \in Drafts : e # d => draft'[e] = draft[e]
  BY <1>1, DraftWrite DEF ExpireDraft
<1>3. /\ job'[w] = None /\ pc'[w] = "idle" /\ pc' \in [Handlers -> Pcs] /\ job' \in [Handlers -> Job \cup {None}]
      /\ \A v \in Handlers : v # w => pc'[v] = pc[v] /\ job'[v] = job[v]
  BY DEF ExpireDraft, Leave, PInv, PayoutsTypeOK, Pcs
<1> HIDE DEF d
<1>4. PayoutsTypeOK'
  BY <1>2, <1>3 DEF ExpireDraft, PInv, PayoutsTypeOK
<1>5. \A e \in Drafts : /\ draft'[e] = None <=> draft[e] = None
                        /\ draft[e] # None /\ draft'[e].status = "PENDING" => draft[e].status = "PENDING"
  BY <1>1, <1>2
<1>6. \A v \in Handlers : JobShape(v)'
  <2>1. JobShape(w)'
    BY <1>3 DEF JobShape
  <2>2. ASSUME NEW v \in Handlers, v # w PROVE JobShape(v)'
    <3>1. pc'[v] = pc[v] /\ job'[v] = job[v] /\ fees' = fees
      BY <1>3, <2>2 DEF ExpireDraft
    <3>2. QED
      BY <3>1, <1>5 DEF PInv, JobShape
  <2>3. QED
    BY <2>1, <2>2
<1>7. \A v \in Handlers : JobMoney(v)'
  BY <1>1, <1>3 DEF ExpireDraft, PInv, JobMoney, Due
<1>8. \A v \in Handlers : Claimed(v)' => v # w /\ Claimed(v) /\ job[v].draft \in Drafts /\ draft[job[v].draft] # None
  BY <1>3 DEF Claimed, PInv, JobShape
<1>9. \A v \in Handlers : ClaimExclusive(v)'
  BY <1>3, <1>5, <1>8 DEF ExpireDraft, PInv, ClaimExclusive
<1>10. \A u, v \in Handlers : OwnRows(u, v)'
  BY <1>3 DEF PInv, OwnRows
<1>11. PaidClaimed'
  BY <1>5 DEF ExpireDraft, PInv, PaidClaimed, PayoutsTypeOK
<1>12. DraftPaidOnce'
  BY DEF ExpireDraft, PInv, DraftPaidOnce
<1>13. MoneyOutRecorded'
  <2>1. ASSUME NEW p \in Payouts, InHand(p), ~InHand(p)' PROVE payout[p] = None /\ sent[p] = 0
    BY <1>1, <1>3, <2>1, NoneIsNoId DEF InHand, PInv, JobMoney
  <2>2. QED
    BY <2>1 DEF ExpireDraft, PInv, MoneyOutRecorded
<1>14. QED
  BY <1>4, <1>6, <1>7, <1>9, <1>10, <1>11, <1>12, <1>13 DEF PInv

LEMMA ClaimInductive ==
    ASSUME PInv, NEW w \in Handlers, Claim(w)
    PROVE  PInv'
<1> USE DEF moneyVars, providerVars, draftVars, boundVars
<1> DEFINE d == job[w].draft
<1>1. /\ job[w] # None /\ job[w] \in Job /\ pc[w] = "claim" /\ job[w].kind = "confirm"
      /\ d \in Drafts /\ draft[d] # None /\ job[w].payout \in Payouts /\ sent[job[w].payout] = 0
  BY NoneIsNoId, AJobIsNotNone DEF Claim, PInv, JobShape, JobMoney, Job, Unpaid
<1>a. interrupted \subseteq Payouts /\ faults \in Nat
  BY DEF PInv, PayoutsTypeOK
<1>b. CASE draft[d].status # "PENDING"
  BY <1>1, <1>a, <1>b, LeaveInductive DEF Claim
<1>c. CASE draft[d].status = "PENDING"
  <2>2. /\ draft' \in [Drafts -> Draft \cup {None}]
        /\ draft'[d] # None /\ draft'[d].status = "CONFIRMED"
        /\ \A e \in Drafts : e # d => draft'[e] = draft[e]
    BY <1>1, <1>c, DraftWrite DEF Claim
  <2>3. /\ job' = job /\ pc'[w] = "context" /\ pc' \in [Handlers -> Pcs]
        /\ \A v \in Handlers : v # w => pc'[v] = pc[v]
    BY <1>c DEF Claim, Goto, PInv, PayoutsTypeOK, Pcs
  <2>4. PayoutsTypeOK'
    BY <1>1, <2>2, <2>3 DEF Claim, PInv, PayoutsTypeOK
  <2> HIDE DEF d
  <2>5. \A e \in Drafts : /\ draft'[e] = None <=> draft[e] = None
                          /\ draft[e] # None /\ draft'[e].status = "PENDING" => draft[e].status = "PENDING"
    BY <1>1, <2>2
  <2>6. \A v \in Handlers : JobShape(v)'
    <3>1. JobShape(w)'
      BY <1>1, <2>2, <2>3 DEF d, JobShape, Working
    <3>2. ASSUME NEW v \in Handlers, v # w PROVE JobShape(v)'
      <4>1. pc'[v] = pc[v] /\ job'[v] = job[v] /\ fees' = fees
        BY <2>3, <3>2 DEF Claim
      <4>2. QED
        BY <4>1, <2>5 DEF PInv, JobShape
    <3>3. QED
      BY <3>1, <3>2
  <2>7. \A v \in Handlers : JobMoney(v)'
    BY <1>1, <2>3 DEF Claim, PInv, JobMoney, Due, Unpaid
  <2>8. \A v \in Handlers : v # w /\ Claimed(v)' => /\ Claimed(v) /\ job[v].draft \in Drafts
                                                    /\ draft[job[v].draft] # None
    BY <2>3 DEF Claimed, PInv, JobShape
  \* Nothing was paid for the draft, and no other confirmation has it: it was PENDING.
  <2>9. \A v \in Handlers : Claimed(v) => job[v].draft # d
    BY <1>c DEF d, PInv, ClaimExclusive
  <2>10. \A q \in Payouts : sent[q] > 0 => origin[q] # d
    BY <1>c, <1>1, NoneIsNoId DEF d, PInv, PaidClaimed
  <2>11. \A v \in Handlers : ClaimExclusive(v)'
    <3>1. ClaimExclusive(w)'
      BY <2>2, <2>3, <2>8, <2>9, <2>10 DEF d, ClaimExclusive, Claim
    <3>2. ASSUME NEW v \in Handlers, v # w PROVE ClaimExclusive(v)'
      BY <2>3, <2>5, <2>8, <2>9, <3>2 DEF d, ClaimExclusive, PInv, Claim
    <3>3. QED
      BY <3>1, <3>2
  <2>12. \A u, v \in Handlers : OwnRows(u, v)'
    BY <1>1, <2>3 DEF PInv, OwnRows
  <2>13. PaidClaimed'
    BY <2>5 DEF Claim, PInv, PaidClaimed, PayoutsTypeOK
  <2>14. DraftPaidOnce' /\ MoneyOutRecorded'
    BY <2>3 DEF Claim, PInv, DraftPaidOnce, MoneyOutRecorded, InHand
  <2>15. QED
    BY <2>4, <2>6, <2>7, <2>11, <2>12, <2>13, <2>14 DEF PInv
<1>2. QED
  BY <1>b, <1>c

LEMMA CashOutInductive ==
    ASSUME PInv, NEW w \in Handlers, CashOutPix(w)
    PROVE  PInv'
<1> USE DEF moneyVars, providerVars, draftVars, boundVars
<1> DEFINE p == job[w].payout
<1>1. /\ job[w] # None /\ job[w] \in Job /\ pc[w] = "cashOut" /\ p \in Payouts
      /\ payout[p] = None /\ sent[p] = 0 /\ debited[p] = 0
      /\ job[w].kind \in {"confirm", "platform"}
      /\ job[w].kind = "confirm" => job[w].draft \in Drafts /\ draft[job[w].draft] # None /\ Claimed(w)
      /\ job[w].kind = "platform" => job[w].draft = None
  BY NoneIsNoId, AJobIsNotNone DEF CashOutPix, PInv, JobShape, JobMoney, Job, Unpaid, Working, Claimed
<1>a. interrupted \subseteq Payouts /\ faults \in Nat /\ adjustments \in Nat
      /\ "fail" \in Pcs /\ "record" \in Pcs
  BY DEF PInv, PayoutsTypeOK, Pcs
<1>2. CASE UNCHANGED <<providerVars, boundVars>> /\ Goto(w, "fail")
  <2>1. pc'[w] = "fail" /\ job'[w] = job[w]
    BY <1>2 DEF Goto, PInv, PayoutsTypeOK
  <2>2. JobShape(w)' /\ JobMoney(w)' /\ (Claimed(w)' => Claimed(w))
    BY <1>1, <1>2, <2>1 DEF CashOutPix, PInv, JobShape, JobMoney, Claimed, Working, Unpaid, Job
  <2>3. QED
    BY <1>1, <1>2, <1>a, <2>2, GotoInductive DEF CashOutPix
<1>3. CASE Pay(w)
  <2> DEFINE label == IF Goto(w, "record") THEN "record" ELSE "fail"
  <2>1. /\ label \in {"record", "fail"} /\ Goto(w, label)
        /\ faults' \in Nat /\ adjustments' = adjustments
        /\ interrupted \subseteq interrupted' /\ interrupted' \subseteq Payouts
        /\ label = "fail" => p \in interrupted'
        /\ UNCHANGED <<moneyVars, draftVars, blocked>>
    <3>1. CASE Pay(w) /\ Goto(w, "record") /\ UNCHANGED boundVars
      BY <3>1, <1>a DEF CashOutPix
    <3>2. CASE /\ Pay(w) /\ Goto(w, "fail") /\ Fault
               /\ interrupted' = interrupted \cup {job[w].payout}
               /\ UNCHANGED adjustments
      BY <3>2, <1>1, <1>a DEF CashOutPix, Fault
    <3>3. CASE Goto(w, "fail") /\ UNCHANGED <<providerVars, boundVars>>
      <4>1. sent'[p] = job[w].amount /\ sent'[p] = 0
        BY <1>1, <1>3, <3>3 DEF Pay, PInv, PayoutsTypeOK
      <4>2. job[w].amount # 0
        BY <1>1, PayoutsAssumption DEF Job
      <4>3. QED
        BY <4>1, <4>2
    <3>4. QED
      BY <3>1, <3>2, <3>3 DEF CashOutPix
  <2> HIDE DEF label
  <2>2. /\ job' = job /\ pc'[w] = label /\ pc' \in [Handlers -> Pcs]
        /\ \A v \in Handlers : v # w => pc'[v] = pc[v]
    BY <1>a, <2>1 DEF Goto, PInv, PayoutsTypeOK
  <2>3. job[w].amount \in Nat /\ job[w].amount > 0 /\ job[w].draft \in Drafts \cup {None}
    BY <1>1, JobNumbers
  <2>4. /\ sent' \in [Payouts -> Nat] /\ origin' \in [Payouts -> Drafts \cup {None}]
        /\ sent'[p] = job[w].amount /\ origin'[p] = job[w].draft
        /\ \A q \in Payouts : q # p => sent'[q] = sent[q] /\ origin'[q] = origin[q]
    BY <1>1, <1>3, <2>3 DEF Pay, PInv, PayoutsTypeOK
  <2>5. PayoutsTypeOK'
    <3>1. \A v \in Handlers : job'[v] = None <=> pc'[v] = "idle"
      BY <1>1, <2>1, <2>2 DEF PInv, PayoutsTypeOK
    <3>2. adjustments' \in Nat /\ faults' \in Nat /\ interrupted' \subseteq Payouts
      BY <1>a, <2>1
    <3>3. QED
      BY <2>1, <2>2, <2>4, <3>1, <3>2 DEF PInv, PayoutsTypeOK
  <2>6. \A v \in Handlers : JobShape(v)'
    BY <1>1, <2>1, <2>2 DEF PInv, JobShape, Working
  <2> HIDE DEF p
  <2>7. \A v \in Handlers : v # w /\ job[v] # None => job[v].payout # p
    BY <1>1, NoneIsNoId DEF p, PInv, OwnRows
  <2>8. \A v \in Handlers : JobMoney(v)'
    <3>1. JobMoney(w)'
      BY <1>1, <2>1, <2>2, <2>4 DEF p, PInv, JobMoney, Due, Unpaid
    <3>2. ASSUME NEW v \in Handlers, v # w PROVE JobMoney(v)'
      <4>1. job[v] # None /\ job[v].payout # None => job[v].payout \in Payouts
        BY DEF PInv, PayoutsTypeOK, Job
      <4>2. QED
        BY <2>1, <2>2, <2>4, <2>7, <3>2, <4>1 DEF PInv, JobMoney, Due
    <3>3. QED
      BY <3>1, <3>2
  <2>9. \A v \in Handlers : Claimed(v)' => Claimed(v)
    BY <1>1, <2>2 DEF Claimed, Working
  <2>10. \A v \in Handlers : ClaimExclusive(v)'
    <3>1. \A v \in Handlers : Claimed(v) /\ v # w => job[v].draft # job[w].draft
      BY <1>1, NoneIsNoId DEF PInv, ClaimExclusive, Claimed, JobShape
    <3>2. QED
      BY <2>1, <2>2, <2>4, <2>9, <3>1 DEF p, PInv, ClaimExclusive
  <2>11. \A u, v \in Handlers : OwnRows(u, v)'
    BY <1>1, <2>2 DEF PInv, OwnRows
  <2>12. PaidClaimed'
    <3>1. job[w].draft # None => draft[job[w].draft] # None /\ draft[job[w].draft].status # "PENDING"
      BY <1>1 DEF PInv, ClaimExclusive
    <3>2. QED
      BY <1>1, <2>1, <2>4, <3>1 DEF PInv, PaidClaimed
  <2>13. DraftPaidOnce'
    <3>1. \A q \in Payouts : q # p /\ sent[q] > 0 /\ origin[q] = job[w].draft => job[w].draft = None
      BY <1>1 DEF p, PInv, ClaimExclusive
    <3>2. ASSUME NEW q \in Payouts, NEW r \in Payouts, sent'[q] > 0, sent'[r] > 0,
                 origin'[q] = origin'[r], q # r
          PROVE  origin'[q] = None
      BY <2>4, <3>1, <3>2 DEF PInv, DraftPaidOnce
    <3>3. QED
      BY <3>2 DEF DraftPaidOnce
  <2>14. MoneyOutRecorded'
    <3>1. \A q \in Payouts : InHand(q)' <=> InHand(q)
      BY <2>2 DEF InHand
    <3>2. InHand(p)
      BY <1>1 DEF p, InHand
    <3>3. QED
      BY <1>1, <2>1, <2>4, <3>1, <3>2 DEF PInv, MoneyOutRecorded
  <2>15. QED
    BY <2>5, <2>6, <2>8, <2>10, <2>11, <2>12, <2>13, <2>14 DEF PInv
<1>4. QED
  BY <1>2, <1>3 DEF CashOutPix

\* The row of a payout is written and its request ends.
LEMMA RowInductive ==
    ASSUME PInv, NEW w \in Handlers, NEW status \in {"SENT", "FAILED"},
           pc[w] = IF status = "SENT" THEN "record" ELSE "fail",
           InsertPayout(w, status), Leave(w), UNCHANGED <<providerVars, draftVars, blocked, boundVars>>,
           balance' \in Int, fees' \in Nat, fees <= fees', platformPaid' \in Nat,
           debited' \in [Payouts -> Nat],
           \A q \in Payouts : q # job[w].payout => debited'[q] = debited[q],
           debited'[job[w].payout] = IF status = "SENT" /\ job[w].kind = "confirm" THEN Due(w) ELSE 0
    PROVE  PInv'
<1> USE DEF providerVars, draftVars, boundVars
<1> DEFINE p == job[w].payout
           row == [status |-> status, scope |-> IF job[w].kind = "platform" THEN "PLATFORM" ELSE "USER",
                   amount |-> job[w].amount, fee |-> job[w].fee]
<1>1. /\ job[w] # None /\ job[w] \in Job /\ p \in Payouts /\ job[w].kind \in {"confirm", "platform"}
      /\ payout[p] = None /\ debited[p] = 0
      /\ status = "SENT" => sent[p] = job[w].amount
      /\ status = "FAILED" /\ sent[p] > 0 => p \in interrupted
      /\ job[w].kind = "platform" => job[w].fee = 0
  BY NoneIsNoId, AJobIsNotNone DEF PInv, JobShape, JobMoney, Job, Working
<1>2. row \in Payout /\ row # None
  BY <1>1, AbsentAssumption DEF Payout, Job
<1>3. payout' \in [Payouts -> Payout \cup {None}] /\ payout'[p] = row
      /\ \A q \in Payouts : q # p => payout'[q] = payout[q]
  BY <1>1, <1>2 DEF InsertPayout, PInv, PayoutsTypeOK
<1>4. /\ row.status = status /\ row.amount = job[w].amount /\ row.fee = job[w].fee
      /\ row.scope = IF job[w].kind = "platform" THEN "PLATFORM" ELSE "USER"
  OBVIOUS
<1> HIDE DEF row, p
<1>5. /\ job'[w] = None /\ pc'[w] = "idle" /\ pc' \in [Handlers -> Pcs] /\ job' \in [Handlers -> Job \cup {None}]
      /\ \A v \in Handlers : v # w => pc'[v] = pc[v] /\ job'[v] = job[v]
  BY DEF Leave, PInv, PayoutsTypeOK, Pcs
<1>6. PayoutsTypeOK'
  BY <1>3, <1>5 DEF PInv, PayoutsTypeOK
<1>7. \A v \in Handlers : JobShape(v)'
  <2>1. JobShape(w)'
    BY <1>5 DEF JobShape
  <2>2. ASSUME NEW v \in Handlers, v # w PROVE JobShape(v)'
    <3>1. job[v] # None => job[v].fees \in Nat
      BY DEF PInv, PayoutsTypeOK, Job
    <3>2. fees \in Nat
      BY DEF PInv, PayoutsTypeOK
    <3>3. pc'[v] = pc[v] /\ job'[v] = job[v]
      BY <1>5, <2>2
    <3>4. QED
      BY <3>1, <3>2, <3>3 DEF PInv, JobShape
  <2>3. QED
    BY <2>1, <2>2
<1>8. \A v \in Handlers : v # w /\ job[v] # None => job[v].payout # p
  BY <1>1, NoneIsNoId DEF p, PInv, OwnRows
<1>9. \A v \in Handlers : JobMoney(v)'
  <2>1. ASSUME NEW v \in Handlers, v # w PROVE JobMoney(v)'
    <3>1. job[v] # None /\ job[v].payout # None => job[v].payout \in Payouts
      BY DEF PInv, PayoutsTypeOK, Job
    <3>2. pc'[v] = pc[v] /\ job'[v] = job[v]
      BY <1>5, <2>1
    <3>3. job[v] # None /\ job[v].payout # None =>
             payout'[job[v].payout] = payout[job[v].payout] /\ debited'[job[v].payout] = debited[job[v].payout]
      BY <1>3, <1>8, <2>1, <3>1 DEF p
    <3>4. QED
      BY <3>2, <3>3 DEF PInv, JobMoney, Due
  <2>2. JobMoney(w)'
    BY <1>5 DEF JobMoney
  <2>3. QED
    BY <2>1, <2>2
<1>10. \A v \in Handlers : Claimed(v)' => v # w /\ Claimed(v)
  BY <1>5 DEF Claimed
<1>11. \A v \in Handlers : ClaimExclusive(v)'
  BY <1>5, <1>10 DEF PInv, ClaimExclusive
<1>12. \A u, v \in Handlers : OwnRows(u, v)'
  BY <1>5 DEF PInv, OwnRows
<1>13. PaidClaimed' /\ DraftPaidOnce'
  BY DEF PInv, PaidClaimed, DraftPaidOnce
<1>14. MoneyOutRecorded'
  <2>1. ASSUME NEW q \in Payouts, q # p
        PROVE  payout'[q] = payout[q] /\ debited'[q] = debited[q] /\ (InHand(q)' <=> InHand(q))
    BY <1>3, <1>5, <2>1 DEF InHand, p
  <2>2. /\ row.status = "SENT" => /\ row.amount = sent[p] /\ row.amount > 0
                                  /\ debited'[p] = IF row.scope = "USER" THEN row.amount + row.fee ELSE 0
        /\ row.status # "SENT" => debited'[p] = 0 /\ (p \in interrupted \/ sent[p] = 0)
    <3>1. sent[p] \in Nat /\ job[w].amount \in Nat \ {0}
      BY <1>1, PayoutsAssumption DEF PInv, PayoutsTypeOK, Job
    <3>2. QED
      BY <1>1, <1>4, <3>1 DEF p, Due
  <2>3. QED
    BY <1>2, <1>3, <2>1, <2>2 DEF PInv, MoneyOutRecorded
<1>15. QED
  BY <1>6, <1>7, <1>9, <1>11, <1>12, <1>13, <1>14 DEF PInv

LEMMA RecordInductive ==
    ASSUME PInv, NEW w \in Handlers, RecordPayout(w) \/ RecordFailure(w)
    PROVE  PInv'
<1>1. job[w] # None /\ job[w] \in Job
  BY AJobIsNotNone DEF RecordPayout, RecordFailure
<1>2. job[w].payout \in Payouts /\ debited[job[w].payout] = 0 /\ job[w].kind \in {"confirm", "platform"}
  BY <1>1, NoneIsNoId DEF PInv, JobShape, JobMoney, Job, RecordPayout, RecordFailure
<1>3. /\ balance \in Int /\ fees \in Nat /\ platformPaid \in Nat /\ debited \in [Payouts -> Nat]
      /\ job[w].amount \in Nat /\ job[w].fee \in Nat /\ Due(w) \in Nat
  <2>1. job[w].amount \in Nat /\ job[w].fee \in Nat
    BY <1>1, JobNumbers
  <2>2. Due(w) \in Nat
    BY <2>1 DEF Due
  <2>3. QED
    BY <2>1, <2>2 DEF PInv, PayoutsTypeOK
<1>4. CASE RecordFailure(w)
  BY <1>2, <1>3, <1>4, RowInductive DEF RecordFailure
<1>5. CASE RecordPayout(w) /\ job[w].kind = "platform"
  BY <1>2, <1>3, <1>5, RowInductive DEF RecordPayout
<1>6. CASE RecordPayout(w) /\ job[w].kind = "confirm"
  <2>1. /\ balance' = balance - Due(w) /\ fees' = fees + job[w].fee
        /\ debited' = [debited EXCEPT ![job[w].payout] = Due(w)] /\ platformPaid' = platformPaid
    BY <1>6 DEF RecordPayout
  <2>2. QED
    BY <1>2, <1>3, <1>6, <2>1, RowInductive DEF RecordPayout
<1>7. QED
  BY <1>2, <1>4, <1>5, <1>6

\* The rest of the wallet, time and the administrator.
LEMMA OutsideInductive ==
    ASSUME PInv,
           \/ \E d \in Drafts : DraftRunsOut(d)
           \/ \E b \in BOOLEAN : SetBlock(b)
           \/ \E n \in Adjustments : AdjustBalance(n)
           \/ EarnFee
           \/ UNCHANGED vars
    PROVE  PInv'
<1> USE DEF moneyVars, providerVars, draftVars, boundVars
<1>1. /\ UNCHANGED <<platformPaid, payout, debited, providerVars, draft, pc, job, interrupted, faults>>
      /\ fees' \in Nat /\ fees <= fees' /\ fees \in Nat
      /\ balance' \in Int /\ overdue' \subseteq Drafts /\ blocked' \in BOOLEAN /\ adjustments' \in Nat
  BY PayoutsAssumption DEF PInv, PayoutsTypeOK, DraftRunsOut, SetBlock, AdjustBalance, EarnFee, vars
<1>2. PayoutsTypeOK'
  BY <1>1 DEF PInv, PayoutsTypeOK
<1>3. \A v \in Handlers : JobShape(v)'
  <2>1. \A v \in Handlers : job[v] # None => job[v].fees \in Nat
    BY DEF PInv, PayoutsTypeOK, Job
  <2>2. QED
    BY <1>1, <2>1 DEF PInv, JobShape
<1>4. \A v \in Handlers : JobMoney(v)' /\ ClaimExclusive(v)'
  BY <1>1 DEF PInv, JobMoney, Due, ClaimExclusive, Claimed
<1>5. \A u, v \in Handlers : OwnRows(u, v)'
  BY <1>1 DEF PInv, OwnRows
<1>6. PaidClaimed' /\ DraftPaidOnce' /\ MoneyOutRecorded'
  BY <1>1 DEF PInv, PaidClaimed, DraftPaidOnce, MoneyOutRecorded, InHand
<1>7. QED
  BY <1>2, <1>3, <1>4, <1>5, <1>6 DEF PInv

-----------------------------------------------------------------------------
(* Theorems *)

LEMMA InitInductive == Init => PInv
<1> SUFFICES ASSUME Init PROVE PInv
  OBVIOUS
<1>1. PayoutsTypeOK
  <2>1. balance \in Int /\ fees \in Nat /\ platformPaid \in Nat /\ adjustments \in Nat /\ faults \in Nat
    BY PayoutsAssumption DEF Init
  <2>2. /\ draft \in [Drafts -> Draft \cup {None}] /\ overdue \subseteq Drafts
        /\ payout \in [Payouts -> Payout \cup {None}] /\ interrupted \subseteq Payouts
        /\ blocked \in BOOLEAN
    BY DEF Init
  <2>3. debited \in [Payouts -> Nat] /\ sent \in [Payouts -> Nat] /\ origin \in [Payouts -> Drafts \cup {None}]
    BY DEF Init
  <2>4. pc \in [Handlers -> Pcs] /\ job \in [Handlers -> Job \cup {None}]
    BY DEF Init, Pcs
  <2>5. \A v \in Handlers : job[v] = None <=> pc[v] = "idle"
    BY DEF Init
  <2>6. QED
    BY <2>1, <2>2, <2>3, <2>4, <2>5 DEF PayoutsTypeOK
<1>2. \A v \in Handlers : job[v] = None
  BY DEF Init
<1>3. \A p \in Payouts : sent[p] = 0 /\ payout[p] = None /\ debited[p] = 0 /\ ~(sent[p] > 0)
  BY DEF Init
<1>4. \A v \in Handlers : JobShape(v) /\ JobMoney(v) /\ ClaimExclusive(v)
  BY <1>2 DEF JobShape, JobMoney, ClaimExclusive, Claimed
<1>5. \A u, v \in Handlers : OwnRows(u, v)
  BY <1>2 DEF OwnRows
<1>6. PaidClaimed /\ DraftPaidOnce /\ MoneyOutRecorded
  BY <1>3 DEF PaidClaimed, DraftPaidOnce, MoneyOutRecorded
<1>7. QED
  BY <1>1, <1>4, <1>5, <1>6 DEF PInv

LEMMA NextInductive == PInv /\ [Next]_vars => PInv'
<1> SUFFICES ASSUME PInv, [Next]_vars PROVE PInv'
  OBVIOUS
<1>1. ASSUME NEW w \in Handlers, Request(w) PROVE PInv'
  BY <1>1, RequestInductive, ConfirmInductive, CreatePlatformInductive DEF Request
<1>2. ASSUME NEW w \in Handlers, Proceed(w) PROVE PInv'
  BY <1>2, ReadSummaryInductive, InsertDraftInductive, PlainInductive, ExpireDraftInductive,
     ClaimInductive, ReadPlatformPaidInductive, CashOutInductive, RecordInductive DEF Proceed
<1>3. ASSUME NEW w \in Handlers, RecordFails(w) \/ Crash(w) PROVE PInv'
  BY <1>3, FaultInductive
<1>4. QED
  BY <1>1, <1>2, <1>3, OutsideInductive DEF Next

\* The invariant that carries the others.
THEOREM PayoutsInvariant == Spec => []PInv
<1>1. QED
  BY InitInductive, NextInductive, PTL DEF Spec

\* Every variable keeps its type, for any number of requests, drafts and payouts.
THEOREM PayoutsTypeCorrect == Spec => []PayoutsTypeOK
<1>1. PInv => PayoutsTypeOK
  BY DEF PInv
<1>2. QED
  BY <1>1, PayoutsInvariant, PTL

\* Money leaves at most once for one draft, however its confirmations overlap.
THEOREM DraftsArePaidOnce == Spec => []DraftPaidOnce
<1>1. PInv => DraftPaidOnce
  BY DEF PInv
<1>2. QED
  BY <1>1, PayoutsInvariant, PTL

\* What the provider paid is what the rows and the ledger say, but for recorded faults.
THEOREM MoneyOutIsRecorded == Spec => []MoneyOutRecorded
<1>1. PInv => MoneyOutRecorded
  BY DEF PInv
<1>2. QED
  BY <1>1, PayoutsInvariant, PTL

\* A payout overdraws a balance only when another entry came between its check and its record.
LEMMA NextOverdraws ==
    ASSUME PInv, [Next]_vars, NEW w \in Handlers, pc[w] = "record", pc'[w] = "idle"
    PROVE  /\ balance' < 0 /\ balance' < balance => balance < job[w].read
           /\ platformPaid' > fees' /\ platformPaid' > platformPaid => platformPaid > job[w].read
<1>1. /\ job[w] # None /\ job[w] \in Job /\ job[w].payout # None /\ job[w].kind \in {"confirm", "platform"}
      /\ job[w].kind = "platform" => job[w].fees <= fees
  BY AJobIsNotNone, NoneIsNoId DEF PInv, JobShape, Job
<1>2. /\ balance \in Int /\ fees \in Nat /\ platformPaid \in Nat
      /\ job[w].amount \in Nat /\ job[w].amount > 0
      /\ job[w].fee \in Nat /\ job[w].fees \in Nat /\ job[w].read \in Int
  BY <1>1, JobNumbers DEF PInv, PayoutsTypeOK
<1>3. IF job[w].kind = "platform" THEN job[w].amount <= Positive(job[w].fees - job[w].read)
                                  ELSE Due(w) <= job[w].read
  BY <1>1 DEF PInv, JobMoney
<1>4. CASE RecordPayout(w)
  BY <1>1, <1>2, <1>3, <1>4 DEF RecordPayout, Due, Positive
<1>5. CASE ~RecordPayout(w)
  <2>1. balance' = balance /\ platformPaid' = platformPaid
    <3>1. ASSUME NEW v \in Handlers, v # w PROVE ~(Request(v) \/ Proceed(v) \/ RecordFails(v) \/ Crash(v))
      <4>1. ASSUME Request(v) \/ Proceed(v) \/ RecordFails(v) \/ Crash(v) PROVE pc'[w] = pc[w]
        BY <3>1, <4>1 DEF Request, Proceed, RecordFails, Crash, Begin, Goto, Leave,
           RequestPayoutVerification, ConfirmPayoutVerification, CreatePlatformPayout,
           ReadSummary, InsertDraft, SendCodes, ExpireDraft, CheckCodes, Claim, ReadUser,
           ReadPlatformPaid, CashOutPix, RecordPayout, RecordFailure, PInv, PayoutsTypeOK
      <4>2. QED
        BY <4>1
    <3>2. ~Request(w) /\ ~Proceed(w)
      BY <1>5 DEF Request, Proceed, Begin,
         RequestPayoutVerification, ConfirmPayoutVerification, CreatePlatformPayout,
         ReadSummary, InsertDraft, SendCodes, ExpireDraft, CheckCodes, Claim, ReadUser,
         ReadPlatformPaid, CashOutPix, RecordFailure
    <3>3. pc' # pc
      OBVIOUS
    <3>4. RecordFails(w) \/ Crash(w)
      BY <3>1, <3>2, <3>3 DEF Next, DraftRunsOut, SetBlock, AdjustBalance, EarnFee, vars
    <3>5. QED
      BY <3>4 DEF RecordFails, Crash, moneyVars
  <2>2. QED
    BY <2>1, <1>2
<1>6. QED
  BY <1>4, <1>5

THEOREM OverdrawsAreRaces == Spec => OverdrawNeedsRace
<1>1. PInv /\ [Next]_vars =>
        [\A w \in Handlers :
            pc[w] = "record" /\ pc'[w] = "idle" =>
               /\ balance' < 0 /\ balance' < balance => balance < job[w].read
               /\ platformPaid' > fees' /\ platformPaid' > platformPaid
                     => platformPaid > job[w].read]_vars
  BY NextOverdraws
<1>2. QED
  BY <1>1, PayoutsInvariant, PTL DEF Spec, OverdrawNeedsRace
-----------------------------------------------------------------------------
(* The promise of module Withdrawal *)

\* A confirmation works with the terms of its draft, and money has left for that draft.
Agreed(w) ==
    LET j == job[w] IN
    job[w] # None =>
        /\ j.kind = "confirm" => j.amount = draft[j.draft].amount /\ j.fee = draft[j.draft].fee
        /\ pc[w] = "record" => origin[j.payout] = j.draft

AgreedOK == \A w \in Handlers : Agreed(w)

TermsStay == \A d \in Drafts : draft[d] # None => draft'[d] # None /\ Terms(d)' = Terms(d)

\* What the provider and the books say is left alone.
BooksRest == UNCHANGED <<payout, sent, origin, debited>>

Kept == AgreedOK' /\ [Promise!WithdrawalNext]_(Promise!withdrawalVars)

LEMMA SameTerms ==
    ASSUME TermsStay, NEW d \in Drafts, draft[d] # None
    PROVE  /\ draft'[d] # None
           /\ draft'[d].amount = draft[d].amount /\ draft'[d].fee = draft[d].fee
<1>1. Terms(d)' = Terms(d) /\ draft'[d] # None
  BY DEF TermsStay
<1>2. /\ Terms(d)'.amount = draft'[d].amount /\ Terms(d)'.fee = draft'[d].fee
      /\ Terms(d).amount = draft[d].amount /\ Terms(d).fee = draft[d].fee
  BY <1>1 DEF Terms
<1>3. QED
  BY <1>1, <1>2

\* A step of one request leaves what the others have agreed on.
LEMMA AgreedFrame ==
    ASSUME PInv, AgreedOK, TermsStay, NEW w \in Handlers, Agreed(w)',
           \A v \in Handlers : v # w => pc'[v] = pc[v] /\ job'[v] = job[v],
           \A p \in Payouts : job[w] = None \/ p # job[w].payout => origin'[p] = origin[p]
    PROVE  AgreedOK'
<1> SUFFICES ASSUME NEW v \in Handlers, v # w, job[v] # None PROVE Agreed(v)'
  BY DEF AgreedOK, Agreed
<1>1. /\ job'[v] = job[v] /\ pc'[v] = pc[v] /\ Agreed(v)
      /\ JobShape(v) /\ OwnRows(v, w) /\ pc[v] # "idle" /\ job[v] \in Job
  BY AJobIsNotNone DEF AgreedOK, PInv, PayoutsTypeOK
<1>2. job[v].kind = "confirm" => job[v].draft \in Drafts /\ draft[job[v].draft] # None
  BY <1>1 DEF JobShape
<1>3. pc[v] = "record" => job[v].payout \in Payouts /\ (job[w] = None \/ job[v].payout # job[w].payout)
  BY <1>1, NoneIsNoId DEF JobShape, OwnRows, Job
<1>4. QED
  BY <1>1, <1>2, <1>3, SameTerms DEF Agreed

LEMMA QuietKept ==
    ASSUME UNCHANGED draft, BooksRest
    PROVE  TermsStay /\ UNCHANGED Promise!withdrawalVars
BY DEF TermsStay, BooksRest, Terms, Booked, Promise!withdrawalVars

LEMMA RequestKept ==
    ASSUME PInv, AgreedOK, NEW w \in Handlers, Request(w)
    PROVE  Kept
<1>1. PICK label \in Pcs, j \in Job :
          /\ Begin(w, label, j) /\ label # "record"
          /\ j.kind = "confirm" => j.amount = draft[j.draft].amount /\ j.fee = draft[j.draft].fee
  <2>1. CASE \E d \in Drafts, cents \in Amounts, feeCents \in {0, InstantFee} :
                RequestPayoutVerification(w, d, cents, feeCents)
    BY <2>1 DEF RequestPayoutVerification, Pcs, Job
  <2>2. ASSUME NEW d \in Drafts, NEW p \in Payouts, ConfirmPayoutVerification(w, d, p)
        PROVE  \E label \in Pcs, j \in Job :
                  /\ Begin(w, label, j) /\ label # "record"
                  /\ j.kind = "confirm" => j.amount = draft[j.draft].amount /\ j.fee = draft[j.draft].fee
    <3>1. draft[d] \in Draft
      BY <2>2 DEF ConfirmPayoutVerification, PInv, PayoutsTypeOK
    <3>2. QED
      BY <2>2, <3>1 DEF ConfirmPayoutVerification, Pcs, Job, Draft
  <2>3. CASE \E p \in Payouts, cents \in Amounts : CreatePlatformPayout(w, p, cents)
    BY <2>3 DEF CreatePlatformPayout, Pcs, Job, PInv, PayoutsTypeOK
  <2>4. QED
    BY <2>1, <2>2, <2>3 DEF Request
<1>2. /\ UNCHANGED draft /\ BooksRest
      /\ pc'[w] = label /\ job'[w] = j
      /\ \A v \in Handlers : v # w => pc'[v] = pc[v] /\ job'[v] = job[v]
  BY <1>1 DEF Begin, BooksRest, moneyVars, providerVars, draftVars, PInv, PayoutsTypeOK
<1>3. Agreed(w)'
  BY <1>1, <1>2 DEF Agreed
<1>4. QED
  BY <1>2, <1>3, QuietKept, AgreedFrame DEF Kept, BooksRest

\* Nothing is left for a request to agree on when it ends; its terms stay when it goes on.
LEMMA GoesOnAgreed ==
    ASSUME PInv, AgreedOK, TermsStay, NEW w \in Handlers, pc[w] # "idle",
           Leave(w) \/ \E label \in Pcs \ {"record"} : Goto(w, label)
    PROVE  /\ Agreed(w)'
           /\ \A v \in Handlers : v # w => pc'[v] = pc[v] /\ job'[v] = job[v]
<1>1. /\ \A v \in Handlers : v # w => pc'[v] = pc[v] /\ job'[v] = job[v]
      /\ pc'[w] # "record" /\ (job'[w] = None \/ job'[w] = job[w])
  BY DEF Leave, Goto, PInv, PayoutsTypeOK
<1>2. JobShape(w) /\ Agreed(w)
  BY DEF PInv, AgreedOK
<1>3. QED
  BY <1>1, <1>2, SameTerms DEF Agreed, JobShape

LEMMA QuietStepKept ==
    ASSUME PInv, AgreedOK, NEW w \in Handlers,
           \/ SendCodes(w) \/ CheckCodes(w) \/ ReadUser(w) \/ RecordFails(w) \/ Crash(w)
    PROVE  Kept
<1>1. /\ UNCHANGED draft /\ BooksRest /\ pc[w] # "idle"
      /\ Leave(w) \/ \E label \in Pcs \ {"record"} : Goto(w, label)
  BY DEF SendCodes, CheckCodes, ReadUser, RecordFails, Crash, BooksRest, moneyVars, providerVars,
     draftVars, Pcs
<1>2. QED
  BY <1>1, QuietKept, GoesOnAgreed, AgreedFrame DEF Kept, BooksRest

LEMMA ReadKept ==
    ASSUME PInv, AgreedOK, NEW w \in Handlers, ReadSummary(w) \/ ReadPlatformPaid(w)
    PROVE  Kept
<1>1. UNCHANGED draft /\ BooksRest /\ pc[w] # "idle"
  BY DEF ReadSummary, ReadPlatformPaid, BooksRest, moneyVars, providerVars, draftVars
<1>2. CASE Leave(w)
  BY <1>1, <1>2, QuietKept, GoesOnAgreed, AgreedFrame DEF Kept, BooksRest
<1>3. CASE ~Leave(w)
  <2>1. PICK label \in {"insertDraft", "cashOut"}, n \in Int :
            pc' = [pc EXCEPT ![w] = label] /\ job' = [job EXCEPT ![w].read = n]
    BY <1>3 DEF ReadSummary, ReadPlatformPaid, PInv, PayoutsTypeOK
  <2>2. /\ \A v \in Handlers : v # w => pc'[v] = pc[v] /\ job'[v] = job[v]
        /\ pc'[w] = label /\ job'[w] = [job[w] EXCEPT !.read = n]
    BY <2>1 DEF PInv, PayoutsTypeOK
  <2>3. job[w] # None /\ job[w] \in Job /\ Agreed(w)
    BY <1>1, AJobIsNotNone DEF AgreedOK
  <2>4. /\ job'[w].kind = job[w].kind /\ job'[w].draft = job[w].draft
        /\ job'[w].amount = job[w].amount /\ job'[w].fee = job[w].fee
    BY <2>2, <2>3 DEF Job
  <2>5. Agreed(w)'
    BY <1>1, <2>2, <2>3, <2>4 DEF Agreed
  <2>6. QED
    BY <1>1, <2>2, <2>5, QuietKept, AgreedFrame DEF Kept, BooksRest
<1>4. QED
  BY <1>2, <1>3

\* A new draft is asked for; what happens to its status later leaves its terms.
LEMMA InsertDraftKept ==
    ASSUME PInv, AgreedOK, NEW w \in Handlers, InsertDraft(w)
    PROVE  Kept
<1>1. /\ pc[w] = "insertDraft" /\ job[w] # None /\ job[w] \in Job /\ job[w].kind = "request"
      /\ job[w].draft \in Drafts /\ draft[job[w].draft] = None
  BY AJobIsNotNone DEF InsertDraft, PInv, JobShape, Job, Working
<1>2. PICK d \in Drafts, n \in Amounts, f \in {0, InstantFee} :
          d = job[w].draft /\ n = job[w].amount /\ f = job[w].fee
  BY <1>1, JobNumbers
<1> DEFINE row == [status |-> "PENDING", amount |-> n, fee |-> f]
<1>3. /\ draft' = [draft EXCEPT ![d] = row]
      /\ BooksRest /\ Goto(w, "sendCodes")
  BY <1>2 DEF InsertDraft, BooksRest, moneyVars, providerVars
<1>4. /\ draft'[d] # None /\ Terms(d) = None /\ Terms(d)' = [amount |-> n, fee |-> f]
      /\ \A c \in Drafts : c # d => draft'[c] = draft[c] /\ Terms(c)' = Terms(c)
  <2>1. draft'[d] = row /\ \A c \in Drafts : c # d => draft'[c] = draft[c]
    BY <1>3 DEF PInv, PayoutsTypeOK
  <2>2. row # None
    BY AbsentAssumption DEF Draft
  <2>3. Terms(d) = None /\ Terms(d)' = [amount |-> n, fee |-> f]
    BY <1>1, <1>2, <2>1, <2>2 DEF Terms
  <2>4. \A c \in Drafts : c # d => Terms(c)' = Terms(c)
    BY <2>1 DEF Terms
  <2>5. QED
    BY <2>1, <2>2, <2>3, <2>4
<1>5. TermsStay
  BY <1>1, <1>2, <1>4 DEF TermsStay
<1>6. AgreedOK'
  BY <1>1, <1>3, <1>5, GoesOnAgreed, AgreedFrame DEF BooksRest, Pcs
<1>7. Promise!Ask(d, n, f)
  <2>1. [c \in Drafts |-> Terms(c)']
          = [[c \in Drafts |-> Terms(c)] EXCEPT ![d] = [amount |-> n, fee |-> f]]
    BY <1>4
  <2>2. UNCHANGED <<sent, origin, [p \in Payouts |-> Booked(p)], debited>>
    BY <1>3 DEF BooksRest, Booked
  <2>3. [c \in Drafts |-> Terms(c)][d] = None
    BY <1>4
  <2>4. QED
    BY <2>1, <2>2, <2>3 DEF Promise!Ask
<1>8. QED
  BY <1>6, <1>7 DEF Kept, Promise!WithdrawalNext

LEMMA StatusKept ==
    ASSUME PInv, AgreedOK, NEW w \in Handlers, ExpireDraft(w) \/ Claim(w)
    PROVE  Kept
<1> DEFINE d == job[w].draft
<1>1. /\ job[w] # None /\ pc[w] # "idle" /\ d \in Drafts /\ draft[d] # None /\ draft[d] \in Draft
  <2>1. pc[w] \in {"expireDraft", "claim"} /\ job[w] # None /\ job[w] \in Job
    BY AJobIsNotNone DEF ExpireDraft, Claim
  <2>2. d \in Drafts /\ draft[d] # None
    BY <2>1 DEF PInv, JobShape, Job
  <2>3. QED
    BY <2>1, <2>2 DEF PInv, PayoutsTypeOK
<1>2. \/ UNCHANGED draft
      \/ \E new \in {"EXPIRED", "CONFIRMED"} : draft' = [draft EXCEPT ![d].status = new]
  BY DEF ExpireDraft, Claim
<1>3. TermsStay /\ \A c \in Drafts : Terms(c)' = Terms(c)
  <2>1. CASE UNCHANGED draft
    BY <2>1 DEF TermsStay, Terms
  <2>2. ASSUME NEW new \in {"EXPIRED", "CONFIRMED"}, draft' = [draft EXCEPT ![d].status = new]
        PROVE  TermsStay /\ \A c \in Drafts : Terms(c)' = Terms(c)
    <3>1. /\ draft'[d] = [draft[d] EXCEPT !.status = new]
          /\ \A c \in Drafts : c # d => draft'[c] = draft[c]
      BY <1>1, <2>2 DEF PInv, PayoutsTypeOK
    <3>2. /\ draft'[d] \in Draft /\ draft'[d].amount = draft[d].amount /\ draft'[d].fee = draft[d].fee
      BY <1>1, <3>1 DEF Draft
    <3>3. QED
      <4>1. draft'[d] # None
        BY <3>2, AbsentAssumption
      <4>2. \A c \in Drafts : Terms(c)' = Terms(c)
        BY <1>1, <3>1, <3>2, <4>1 DEF Terms
      <4>3. QED
        BY <3>1, <4>1, <4>2 DEF TermsStay
  <2>3. QED
    BY <1>2, <2>1, <2>2
<1>4. BooksRest /\ (Leave(w) \/ Goto(w, "context"))
  BY DEF ExpireDraft, Claim, BooksRest, moneyVars, providerVars
<1>5. AgreedOK'
  BY <1>1, <1>3, <1>4, GoesOnAgreed, AgreedFrame DEF BooksRest, Pcs
<1>6. UNCHANGED Promise!withdrawalVars
  BY <1>3, <1>4 DEF BooksRest, Booked, Promise!withdrawalVars
<1>7. QED
  BY <1>5, <1>6 DEF Kept

\* What a request at the provider or after it works with.
LEMMA PayingJob ==
    ASSUME PInv, AgreedOK, NEW w \in Handlers, pc[w] \in {"cashOut", "record", "fail"}
    PROVE  /\ job[w] # None /\ job[w] \in Job /\ pc[w] # "idle"
           /\ job[w].kind \in {"confirm", "platform"}
           /\ job[w].payout \in Payouts /\ job[w].payout # None
           /\ job[w].amount \in Amounts /\ job[w].amount \in Nat /\ job[w].amount > 0
           /\ job[w].kind = "platform" => job[w].draft = None
           /\ job[w].kind = "confirm" =>
                 /\ job[w].draft \in Drafts /\ job[w].draft # None /\ draft[job[w].draft] # None
                 /\ Terms(job[w].draft).amount = job[w].amount /\ Terms(job[w].draft).fee = job[w].fee
<1>1. job[w] # None /\ job[w] \in Job /\ pc[w] # "idle" /\ JobShape(w) /\ Agreed(w)
  BY AJobIsNotNone DEF PInv, AgreedOK
<1>2. job[w].kind \in {"confirm", "platform"}
  BY <1>1 DEF JobShape, Job
<1>3. job[w].payout \in Payouts /\ (job[w].kind = "platform" => job[w].draft = None)
  BY <1>1, <1>2 DEF JobShape
<1>4. job[w].kind = "confirm" => /\ job[w].draft \in Drafts /\ draft[job[w].draft] # None
                                 /\ draft[job[w].draft].amount = job[w].amount
                                 /\ draft[job[w].draft].fee = job[w].fee
  BY <1>1 DEF JobShape, Agreed
<1>5. QED
  BY <1>1, <1>2, <1>3, <1>4, JobNumbers, NoneIsNoId DEF Terms

LEMMA CashOutKept ==
    ASSUME PInv, AgreedOK, NEW w \in Handlers, CashOutPix(w)
    PROVE  Kept
<1>1. pc[w] = "cashOut" /\ UNCHANGED <<draft, payout, debited>>
  BY DEF CashOutPix, draftVars, moneyVars
<1>2. TermsStay
  BY <1>1 DEF TermsStay, Terms
<1>3. CASE UNCHANGED providerVars /\ Goto(w, "fail")
  <2>1. BooksRest
    BY <1>1, <1>3 DEF BooksRest, providerVars
  <2>2. QED
    BY <1>1, <1>2, <1>3, <2>1, QuietKept, GoesOnAgreed, AgreedFrame DEF Kept, BooksRest, Pcs
<1>4. CASE Pay(w) /\ (Goto(w, "record") \/ Goto(w, "fail"))
  <2>1. PICK p \in Payouts, n \in Amounts, s \in Drafts \cup {None} :
            p = job[w].payout /\ n = job[w].amount /\ s = job[w].draft
    BY <1>1, PayingJob
  <2>2. sent' = [sent EXCEPT ![p] = n] /\ origin' = [origin EXCEPT ![p] = s]
    BY <1>4, <2>1 DEF Pay
  <2>3. AgreedOK'
    <3>1. /\ \A v \in Handlers : v # w => pc'[v] = pc[v] /\ job'[v] = job[v]
          /\ job'[w] = job[w]
      BY <1>4 DEF Goto, PInv, PayoutsTypeOK
    <3>2. origin'[p] = s /\ \A q \in Payouts : q # p => origin'[q] = origin[q]
      BY <2>2 DEF PInv, PayoutsTypeOK
    <3>3. Agreed(w)'
      <4>1. Agreed(w) /\ origin'[job[w].payout] = job[w].draft
        BY <2>1, <3>2 DEF AgreedOK
      <4>2. QED
        BY <1>1, <3>1, <4>1 DEF Agreed
    <3>4. QED
      <4>1. \A q \in Payouts : job[w] = None \/ q # job[w].payout => origin'[q] = origin[q]
        BY <1>1, <2>1, <3>2, PayingJob
      <4>2. QED
        BY <1>2, <3>1, <3>3, <4>1, AgreedFrame
  <2>4. sent[p] = 0
    BY <1>1, <2>1, PayingJob DEF PInv, JobMoney, Unpaid
  <2>5. UNCHANGED <<[d \in Drafts |-> Terms(d)], [q \in Payouts |-> Booked(q)], debited>>
    BY <1>1 DEF Terms, Booked
  <2>6. Promise!MoneyLeaves(p, n, s)
    BY <2>2, <2>4, <2>5 DEF Promise!MoneyLeaves
  <2>7. CASE job[w].kind = "platform"
    <3>1. s = None
      BY <1>1, <2>1, <2>7, PayingJob
    <3>2. Promise!PayPlatform(p, n)
      BY <2>6, <3>1 DEF Promise!PayPlatform
    <3>3. QED
      BY <2>3, <3>2 DEF Kept, Promise!WithdrawalNext
  <2>8. CASE job[w].kind = "confirm"
    <3>1. s \in Drafts /\ Terms(s) # None /\ Terms(s).amount = n
      <4>1. s \in Drafts /\ draft[s] # None /\ Terms(s).amount = n
        BY <1>1, <2>1, <2>8, PayingJob
      <4>2. draft[s] \in Draft
        BY <4>1 DEF PInv, PayoutsTypeOK
      <4>3. draft[s].amount \in Amounts /\ draft[s].fee \in {0, InstantFee}
        BY <4>2 DEF Draft
      <4>4. Terms(s) # None
        <5>1. Terms(s) = [amount |-> draft[s].amount, fee |-> draft[s].fee]
          BY <4>1 DEF Terms
        <5>2. QED
          BY <4>3, <5>1, AbsentAssumption
      <4>5. QED
        BY <4>1, <4>4
    <3>2. \A q \in Payouts : sent[q] > 0 => origin[q] # s
      BY <1>1, <2>1, <2>4, <2>8, PayingJob DEF PInv, ClaimExclusive, Claimed, Working
    <3>3. Promise!PayUser(p, s)
      BY <2>6, <3>1, <3>2 DEF Promise!PayUser
    <3>4. QED
      BY <2>3, <3>1, <3>3 DEF Kept, Promise!WithdrawalNext
  <2>9. QED
    BY <1>1, <2>7, <2>8, PayingJob
<1>5. QED
  BY <1>3, <1>4 DEF CashOutPix

LEMMA RecordKept ==
    ASSUME PInv, AgreedOK, NEW w \in Handlers, RecordPayout(w)
    PROVE  Kept
<1>1. pc[w] = "record" /\ UNCHANGED <<draft, sent, origin>> /\ Leave(w)
  BY DEF RecordPayout, draftVars, providerVars
<1>2. PICK p \in Payouts : p = job[w].payout
  BY <1>1, PayingJob
<1>3. /\ payout[p] = None /\ debited[p] = 0 /\ sent[p] = job[w].amount /\ origin[p] = job[w].draft
  BY <1>1, <1>2, PayingJob DEF PInv, JobMoney, AgreedOK, Agreed
<1>4. TermsStay /\ UNCHANGED [d \in Drafts |-> Terms(d)]
  BY <1>1 DEF TermsStay, Terms
<1>5. AgreedOK'
  BY <1>1, <1>4, PayingJob, GoesOnAgreed, AgreedFrame
<1>6. [q \in Payouts |-> Booked(q)]' = [[q \in Payouts |-> Booked(q)] EXCEPT ![p] = TRUE]
  <2> DEFINE row == [status |-> "SENT", scope |-> IF job[w].kind = "platform" THEN "PLATFORM" ELSE "USER",
                     amount |-> job[w].amount, fee |-> job[w].fee]
  <2>1. payout' = [payout EXCEPT ![p] = row]
    BY <1>2 DEF RecordPayout, InsertPayout
  <2>2. row \in Payout
    BY <1>1, PayingJob, JobNumbers DEF Payout
  <2>3. payout'[p] = row /\ \A q \in Payouts : q # p => payout'[q] = payout[q]
    BY <2>1 DEF PInv, PayoutsTypeOK
  <2>4. Booked(p)' /\ \A q \in Payouts : q # p => Booked(q)' = Booked(q)
    BY <2>2, <2>3, AbsentAssumption DEF Booked
  <2>5. QED
    BY <2>4
<1>7. debited' = [debited EXCEPT ![p] = IF origin[p] = None THEN 0
                                        ELSE sent[p] + [d \in Drafts |-> Terms(d)][origin[p]].fee]
  <2>1. CASE job[w].kind = "platform"
    <3>1. origin[p] = None /\ UNCHANGED debited
      BY <1>1, <1>3, <2>1, PayingJob DEF RecordPayout
    <3>2. QED
      BY <1>3, <3>1 DEF PInv, PayoutsTypeOK
  <2>2. CASE job[w].kind = "confirm"
    <3>1. /\ origin[p] \in Drafts /\ origin[p] # None /\ Terms(origin[p]).fee = job[w].fee
      BY <1>1, <1>3, <2>2, PayingJob
    <3>2. debited' = [debited EXCEPT ![p] = job[w].amount + job[w].fee]
      BY <1>2, <2>2 DEF RecordPayout, Due
    <3>3. QED
      BY <1>3, <3>1, <3>2
  <2>3. QED
    BY <1>1, <2>1, <2>2, PayingJob
<1>8. Promise!Book(p)
  <2>1. sent[p] > 0 /\ ~Booked(p)
    BY <1>1, <1>3, PayingJob DEF Booked
  <2>2. QED
    BY <1>1, <1>4, <1>6, <1>7, <2>1 DEF Promise!Book
<1>9. QED
  BY <1>5, <1>8 DEF Kept, Promise!WithdrawalNext

\* A FAILED row is no entry.
LEMMA FailureKept ==
    ASSUME PInv, AgreedOK, NEW w \in Handlers, RecordFailure(w)
    PROVE  Kept
<1>1. pc[w] = "fail" /\ UNCHANGED <<draft, sent, origin, debited>> /\ Leave(w)
  BY DEF RecordFailure, draftVars, providerVars
<1>2. PICK p \in Payouts : p = job[w].payout
  BY <1>1, PayingJob
<1>3. payout[p] = None
  BY <1>1, <1>2, PayingJob DEF PInv, JobMoney
<1>4. TermsStay /\ UNCHANGED [d \in Drafts |-> Terms(d)]
  BY <1>1 DEF TermsStay, Terms
<1>5. AgreedOK'
  BY <1>1, <1>4, PayingJob, GoesOnAgreed, AgreedFrame
<1>6. UNCHANGED [q \in Payouts |-> Booked(q)]
  <2>1. /\ payout'[p].status = "FAILED"
        /\ \A q \in Payouts : q # p => payout'[q] = payout[q]
    BY <1>2 DEF RecordFailure, InsertPayout, PInv, PayoutsTypeOK
  <2>2. \A q \in Payouts : Booked(q)' = Booked(q)
    BY <1>3, <2>1 DEF Booked
  <2>3. QED
    BY <2>2
<1>7. QED
  BY <1>1, <1>4, <1>5, <1>6 DEF Kept, Promise!withdrawalVars

LEMMA OutsideKept ==
    ASSUME PInv, AgreedOK,
           \/ \E d \in Drafts : DraftRunsOut(d)
           \/ \E b \in BOOLEAN : SetBlock(b)
           \/ \E n \in Adjustments : AdjustBalance(n)
           \/ EarnFee
           \/ UNCHANGED vars
    PROVE  Kept
<1>1. UNCHANGED <<draft, pc, job>> /\ BooksRest
  BY DEF DraftRunsOut, SetBlock, AdjustBalance, EarnFee, vars, moneyVars, providerVars, draftVars,
     BooksRest
<1>2. AgreedOK'
  BY <1>1 DEF AgreedOK, Agreed, BooksRest
<1>3. QED
  BY <1>1, <1>2, QuietKept DEF Kept

LEMMA NextKept ==
    ASSUME PInv, AgreedOK, [Next]_vars
    PROVE  Kept
<1>1. ASSUME NEW w \in Handlers, Proceed(w) PROVE Kept
  BY <1>1, QuietStepKept, ReadKept, InsertDraftKept, StatusKept, CashOutKept, RecordKept,
     FailureKept DEF Proceed
<1>2. QED
  BY <1>1, RequestKept, QuietStepKept, OutsideKept DEF Next

\* However confirmations overlap, messages fail late, answers are lost and requests die: money
\* leaves once for a draft, in the amount confirmed, and the user is debited after that, once,
\* what the draft said.
THEOREM WithdrawalIsKept == Spec => WithdrawalKept
<1>1. Init => AgreedOK
  BY DEF Init, AgreedOK, Agreed
<1>2. Init => Promise!WithdrawalInit
  BY DEF Init, Terms, Booked, Promise!WithdrawalInit
<1>3. PInv /\ AgreedOK /\ [Next]_vars
      => AgreedOK' /\ [Promise!WithdrawalNext]_(Promise!withdrawalVars)
  BY NextKept DEF Kept
<1>4. QED
  BY <1>1, <1>2, <1>3, PayoutsInvariant, PTL DEF Spec, WithdrawalKept, Promise!WithdrawalSpec
=============================================================================
