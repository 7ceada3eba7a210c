-------------------------- MODULE SettlementProofs --------------------------
(* What TLAPS proves about Settlement, for every set of orders and handlers, every
   price and fee, and any number of requests and faults. *)
EXTENDS Settlement, TLAPS

USE ConstantsAssumption
USE DEF paymentVars, callVars, FullRefund

\* TypeOK in two parts: the handlers with their jobs, and the tables.
HandlerTypes ==
    /\ jobs \in [Orders -> {"none", "waiting", "failed"} \cup Workers]
    /\ \A o \in Orders : jobs[o] \in Workers => kind[jobs[o]] = "job" /\ on[jobs[o]] = o
    /\ pc \in [Workers -> Pcs]
    /\ kind \in [Workers -> Kinds]
    /\ on \in [Workers -> Orders \cup {None}]
    /\ \A w \in Workers : IF pc[w] = "idle" THEN kind[w] = "none"
                                          ELSE on[w] \in Orders /\ kind[w] # "none"
    /\ amount \in [Workers -> Int]
    /\ cashout \in [Workers -> BOOLEAN]
    /\ absent \in [Workers -> BOOLEAN]
    /\ contested \subseteq Orders

TableTypes ==
    /\ status \in [Orders -> {"DELIVERED", "COMPLETED", "DISPUTED", "REFUNDED"}]
    /\ provider \in [Orders -> {"EFI", "WALLET"}]
    /\ kept \in [Orders -> Nat]
    /\ refunded \subseteq Orders
    /\ dispute \in [Orders -> {"none", "OPEN", "RESOLVED", "REJECTED"}]
    /\ tickets \subseteq Orders
    /\ ledger \in [Orders -> [Accounts -> Int]]
    /\ released \in [Orders -> Nat]
    /\ commission \in [Orders -> SUBSET {"EARNED", "REVERSED"}]
    /\ blocked \in BOOLEAN
    /\ sent \in [Orders -> Nat] /\ returned \in [Orders -> Nat]
    /\ auto \subseteq Orders /\ calls \subseteq Callers \X Orders /\ lost \subseteq Orders
    /\ requests \in Nat /\ faults \in Nat

LEMMA TypeParts == TypeOK <=> HandlerTypes /\ TableTypes
BY DEF TypeOK, HandlerTypes, TableTypes

\* The local state of the handlers other than w.
OthersRest(w) ==
    \A v \in Workers \ {w} : /\ pc'[v] = pc[v] /\ kind'[v] = kind[v] /\ on'[v] = on[v]
                             /\ amount'[v] = amount[v] /\ cashout'[v] = cashout[v]
                             /\ absent'[v] = absent[v]

-----------------------------------------------------------------------------
(* How a handler starts, goes on and ends *)

LEMMA StartEffect ==
    ASSUME HandlerTypes, NEW w \in Workers, NEW k \in Kinds \ {"none"}, NEW o \in Orders,
           NEW a \in Int, NEW m \in BOOLEAN, NEW label \in Pcs \ {"idle"},
           Start(w, k, o, a, m, label)
    PROVE  /\ pc' \in [Workers -> Pcs] /\ kind' \in [Workers -> Kinds]
           /\ on' \in [Workers -> Orders \cup {None}] /\ amount' \in [Workers -> Int]
           /\ cashout' \in [Workers -> BOOLEAN] /\ absent' \in [Workers -> BOOLEAN]
           /\ \A v \in Workers : IF pc'[v] = "idle" THEN kind'[v] = "none"
                                    ELSE on'[v] \in Orders /\ kind'[v] # "none"
           /\ contested' \subseteq Orders /\ contested \subseteq contested'
           /\ \A v \in Workers \ {w} : on[v] = o => o \in contested'
           /\ pc[w] = "idle" /\ pc'[w] = label /\ kind'[w] = k /\ on'[w] = o /\ amount'[w] = a
           /\ absent'[w] = m
           /\ OthersRest(w)
BY DEF HandlerTypes, Start, OthersRest

LEMMA GotoEffect ==
    ASSUME HandlerTypes, NEW w \in Workers, pc[w] # "idle", NEW label \in Pcs \ {"idle"},
           Goto(w, label), UNCHANGED jobs
    PROVE  /\ HandlerTypes' /\ pc'[w] = label /\ OthersRest(w)
           /\ UNCHANGED <<kind, on, amount, cashout, absent, contested>>
BY DEF HandlerTypes, Goto, OthersRest, localVars

LEMMA LeaveEffect ==
    ASSUME HandlerTypes, NEW w \in Workers, pc[w] # "idle", Leave(w),
           NEW outcome \in {"none", "waiting", "failed"}, jobs' = JobEnd(w, outcome)
    PROVE  /\ HandlerTypes' /\ pc'[w] = "idle" /\ kind'[w] = "none" /\ on'[w] = None
           /\ OthersRest(w) /\ UNCHANGED contested
<1>1. /\ pc'[w] = "idle" /\ kind'[w] = "none" /\ on'[w] = None
      /\ OthersRest(w) /\ UNCHANGED contested
  BY DEF HandlerTypes, Leave, OthersRest
<1>2. /\ pc' \in [Workers -> Pcs] /\ kind' \in [Workers -> Kinds]
      /\ on' \in [Workers -> Orders \cup {None}] /\ amount' \in [Workers -> Int]
      /\ cashout' \in [Workers -> BOOLEAN] /\ absent' \in [Workers -> BOOLEAN]
  BY DEF HandlerTypes, Leave, Pcs, Kinds
<1>3. jobs' \in [Orders -> {"none", "waiting", "failed"} \cup Workers]
  BY DEF HandlerTypes, JobEnd
<1>4. \A o \in Orders : jobs'[o] = w => FALSE
  BY DEF HandlerTypes, JobEnd
<1>5. \A o \in Orders : jobs'[o] \in Workers => jobs'[o] = jobs[o]
  BY DEF HandlerTypes, JobEnd
<1>6. \A o \in Orders : jobs'[o] \in Workers => kind'[jobs'[o]] = "job" /\ on'[jobs'[o]] = o
  BY <1>1, <1>4, <1>5 DEF HandlerTypes, OthersRest
<1>7. QED
  BY <1>1, <1>2, <1>3, <1>6 DEF HandlerTypes, OthersRest

LEMMA ThrowEffect ==
    ASSUME HandlerTypes, NEW w \in Workers, pc[w] # "idle", Throw(w)
    PROVE  /\ HandlerTypes' /\ pc'[w] = "idle" /\ kind'[w] = "none" /\ on'[w] = None
           /\ OthersRest(w) /\ UNCHANGED contested /\ UNCHANGED dbVars
BY LeaveEffect DEF Throw

\* A handler that has returned ends, or finalizes its dispute.
LEMMA ReturnEffect ==
    ASSUME HandlerTypes, NEW w \in Workers, pc[w] # "idle", Return(w)
    PROVE  /\ HandlerTypes' /\ OthersRest(w) /\ UNCHANGED contested
           /\ \/ pc'[w] = "idle" /\ kind'[w] = "none" /\ on'[w] = None
              \/ /\ OfDispute(w) /\ pc'[w] = "finalize" /\ kind'[w] = kind[w] /\ on'[w] = on[w]
                 /\ amount'[w] = amount[w] /\ cashout'[w] = cashout[w] /\ absent'[w] = absent[w]
<1>1. CASE OfDispute(w)
  BY <1>1, GotoEffect DEF Return, Pcs
<1>2. CASE ~OfDispute(w)
  BY <1>2, LeaveEffect DEF Return
<1>3. QED
  BY <1>1, <1>2
-----------------------------------------------------------------------------
(* The ledger *)

LEMMA PostEffect ==
    ASSUME TableTypes, NEW o \in Orders, NEW entries \in [Accounts -> Int], Post(o, entries)
    PROVE  /\ ledger' \in [Orders -> [Accounts -> Int]]
           /\ \A a \in Accounts : ledger'[o][a] = ledger[o][a] + entries[a]
           /\ \A p \in Orders \ {o} : ledger'[p] = ledger[p]
BY DEF TableTypes, Post

LEMMA FeeBounds ==
    ASSUME NEW h \in Int, h > 0
    PROVE  FeeOf(h) \in Int /\ 0 <= FeeOf(h) /\ FeeOf(h) <= h
BY DEF FeeOf

Total(l) == l["HELD"] + l["AVAILABLE"] + l["FEE"] + l["PAYOUT"] + l["REVERSED"]

LEMMA ReleaseAmounts ==
    ASSUME NEW h \in Int, h > 0, NEW b \in BOOLEAN
    PROVE  LET e == ReleaseEntries(h, b) IN
           /\ e \in [Accounts -> Int]
           /\ e["HELD"] = -h /\ e["FEE"] = FeeOf(h) /\ e["REVERSED"] = 0 /\ e["BUYER"] = 0
           /\ e["PAYOUT"] = IF b THEN h - FeeOf(h) ELSE 0
           /\ e["AVAILABLE"] = IF b THEN 0 ELSE h - FeeOf(h)
<1> DEFINE e == ReleaseEntries(h, b)
<1>1. \A a \in Accounts : e[a] = CASE a = "HELD" -> -h
                                   [] a = "FEE" -> FeeOf(h)
                                   [] a = "PAYOUT" -> IF b THEN h - FeeOf(h) ELSE 0
                                   [] a = "AVAILABLE" -> IF b THEN 0 ELSE h - FeeOf(h)
                                   [] OTHER -> 0
  BY DEF ReleaseEntries
<1>2. e \in [Accounts -> Int]
  BY FeeBounds DEF ReleaseEntries, Accounts
<1> HIDE DEF e
<1>3. /\ e["HELD"] = -h /\ e["FEE"] = FeeOf(h) /\ e["REVERSED"] = 0 /\ e["BUYER"] = 0
      /\ e["PAYOUT"] = IF b THEN h - FeeOf(h) ELSE 0
      /\ e["AVAILABLE"] = IF b THEN 0 ELSE h - FeeOf(h)
  BY <1>1 DEF Accounts
<1>4. QED
  BY <1>2, <1>3 DEF e

LEMMA RefundAmounts ==
    ASSUME NEW from \in {"HELD", "AVAILABLE"}, NEW x \in Int, NEW toBuyer \in Int
    PROVE  LET e == RefundEntries(from, x, toBuyer) IN
           /\ e \in [Accounts -> Int]
           /\ e["HELD"] = (IF from = "HELD" THEN -x ELSE 0)
           /\ e["AVAILABLE"] = (IF from = "AVAILABLE" THEN -x ELSE 0)
           /\ e["REVERSED"] = x /\ e["BUYER"] = toBuyer /\ e["FEE"] = 0 /\ e["PAYOUT"] = 0
BY DEF RefundEntries, Accounts

-----------------------------------------------------------------------------
(* A step of one handler leaves the others what they know *)

OrderFacts == RefundsOK /\ DisputeBacked /\ PayoutIsSent /\ RefundIsReal /\ CommissionBacked

HandlerFacts(w) == ControlOK(w) /\ KnowsOK(w) /\ AloneOK(w)

\* No evidence is lost: what a handler has seen of an order stays.
Keeps(o) ==
    /\ provider'[o] = provider[o] /\ kept'[o] = kept[o]
    /\ released'[o] >= released[o]
    /\ ledger'[o]["REVERSED"] >= ledger[o]["REVERSED"]
    /\ ledger'[o]["BUYER"] >= ledger[o]["BUYER"]
    /\ sent'[o] >= sent[o] /\ returned'[o] >= returned[o]
    /\ commission[o] \subseteq commission'[o]

\* Nothing a release or a refund relies on changes.
Quiet(o) ==
    /\ ledger'[o]["HELD"] = ledger[o]["HELD"]
    /\ released'[o] = released[o]
    /\ o \in refunded' <=> o \in refunded

Frame(w) ==
    /\ OthersRest(w)
    /\ contested \subseteq contested'
    /\ \A v \in Workers \ {w} : on[v] # None /\ on'[w] = on[v] => on[v] \in contested'
    /\ \A o \in Orders : Keeps(o)
    /\ \A o \in Orders \ {on[w]} : Quiet(o)

\* The local state of v.
Rests(v) == /\ pc'[v] = pc[v] /\ kind'[v] = kind[v] /\ on'[v] = on[v]
            /\ amount'[v] = amount[v] /\ cashout'[v] = cashout[v] /\ absent'[v] = absent[v]

LEMMA RestKeeps ==
    ASSUME TypeOK, TypeOK', NEW v \in Workers, HandlerFacts(v), Rests(v),
           \A o \in Orders : Keeps(o),
           contested \subseteq contested',
           \A u \in Workers \ {v} : on'[v] # None /\ on'[u] = on'[v] => on'[v] \in contested',
           on[v] \in Orders /\ on[v] \notin contested' => Quiet(on[v])
    PROVE  HandlerFacts(v)'
<1> USE DEF HandlerFacts, Rests
<1>1. ControlOK(v)'
  BY DEF ControlOK, InRelease, InRefund, InChargeback, OfDispute, IsPartial
<1>2. KnowsOK(v)'
  <2>1. CASE pc[v] = "idle"
    BY <2>1 DEF KnowsOK, InRelease, InRefund, InChargeback
  <2>2. CASE pc[v] # "idle"
    <3>1. on[v] \in Orders
      BY <2>2 DEF TypeOK
    <3>2. Keeps(on[v])
      BY <3>1
    <3>3. QED
      BY <3>1, <3>2
         DEF Keeps, KnowsOK, InRelease, InRefund, InChargeback, IsPartial, TypeOK, Accounts,
             FeeOf
  <2>3. QED
    BY <2>1, <2>2
<1>3. AloneOK(v)'
  <2>1. ASSUME pc'[v] # "idle", on'[v] \notin contested'
        PROVE  /\ InRelease(v)' => amount'[v] = ledger'[on'[v]]["HELD"]
               /\ InRefund(v)' /\ IsPartial(v)' => amount'[v] <= ledger'[on'[v]]["HELD"]
               /\ InRelease(v)' \/ InRefund(v)' => released'[on'[v]] = 0 /\ on'[v] \notin refunded'
               /\ pc'[v] \in {"completeDisputed", "partialRead"} => on'[v] \notin refunded'
    <3>1. on[v] \in Orders /\ on[v] \notin contested
      BY <2>1 DEF TypeOK
    <3>2. Quiet(on[v])
      BY <2>1, <3>1
    <3>3. QED
      BY <2>1, <3>1, <3>2 DEF Quiet, AloneOK, InRelease, InRefund, IsPartial
  <2>2. QED
    BY <2>1 DEF AloneOK
<1>4. QED
  BY <1>1, <1>2, <1>3

LEMMA FrameKeeps ==
    ASSUME TypeOK, TypeOK', NEW w \in Workers, Frame(w), NEW v \in Workers \ {w}, HandlerFacts(v)
    PROVE  HandlerFacts(v)'
<1>1. Rests(v)
  BY DEF Frame, OthersRest, Rests
<1>2. \A u \in Workers \ {v} : on'[v] # None /\ on'[u] = on'[v] => on'[v] \in contested'
  BY <1>1 DEF Frame, OthersRest, Rests, HandlerFacts, AloneOK
<1>3. on[v] \in Orders /\ on[v] \notin contested' => Quiet(on[v])
  BY DEF Frame, HandlerFacts, AloneOK
<1>4. QED
  BY <1>1, <1>2, <1>3, RestKeeps DEF Frame

\* So a step preserves the invariant if it keeps the types, the facts of its own handler
\* and those of the orders.
LEMMA FrameInductive ==
    ASSUME IInv, TypeOK', NEW w \in Workers, Frame(w), HandlerFacts(w)', OrderFacts'
    PROVE  IInv'
<1>1. \A v \in Workers \ {w} : HandlerFacts(v)'
  BY FrameKeeps DEF IInv, HandlerFacts
<1>2. \A v \in Workers : HandlerFacts(v)'
  BY <1>1
<1>3. QED
  BY <1>2 DEF IInv, HandlerFacts, OrderFacts

\* The facts of the orders when no table changes.
LEMMA OrderFactsRest ==
    ASSUME TypeOK, OrderFacts, UNCHANGED <<dbVars, efiVars>>, contested \subseteq contested'
    PROVE  OrderFacts'
BY DEF OrderFacts, RefundsOK, DisputeBacked, PayoutIsSent, RefundIsReal, CommissionBacked,
       dbVars, efiVars

LEMMA KeepsRest ==
    ASSUME TypeOK, UNCHANGED <<dbVars, efiVars>>
    PROVE  \A o \in Orders : Keeps(o) /\ Quiet(o)
BY DEF TypeOK, Keeps, Quiet, dbVars, efiVars, Accounts

\* A step of handler w that only reads.
LEMMA ReadInductive ==
    ASSUME IInv, NEW w \in Workers, HandlerTypes', TableTypes', OthersRest(w),
           UNCHANGED <<dbVars, efiVars>>, contested \subseteq contested',
           \A v \in Workers \ {w} : on[v] # None /\ on'[w] = on[v] => on[v] \in contested',
           HandlerFacts(w)'
    PROVE  IInv'
<1>1. TypeOK'
  BY TypeParts DEF HandlerTypes, TableTypes, TypeOK
<1>2. OrderFacts'
  BY OrderFactsRest DEF IInv, OrderFacts
<1>3. Frame(w)
  BY KeepsRest DEF IInv, Frame
<1>4. QED
  BY <1>1, <1>2, <1>3, FrameInductive
-----------------------------------------------------------------------------
(* Starts, ends and throws *)

LEMMA IdleFacts ==
    ASSUME NEW w \in Workers, pc'[w] = "idle", kind'[w] = "none", on'[w] = None
    PROVE  HandlerFacts(w)'
BY DEF HandlerFacts, ControlOK, KnowsOK, AloneOK, InRelease, InRefund, InChargeback, OfDispute,
       IsPartial

LEMMA ThrowInductive ==
    ASSUME IInv, NEW w \in Workers, pc[w] # "idle", Throw(w), UNCHANGED <<efiVars, callVars>>,
           requests' \in Nat, faults' \in Nat
    PROVE  IInv'
<1>1. HandlerTypes /\ TableTypes
  BY TypeParts DEF IInv
<1>2. /\ HandlerTypes' /\ pc'[w] = "idle" /\ kind'[w] = "none" /\ on'[w] = None
      /\ OthersRest(w) /\ UNCHANGED contested /\ UNCHANGED dbVars
  BY <1>1, ThrowEffect
<1>3. TableTypes'
  BY <1>1, <1>2 DEF TableTypes, dbVars, efiVars
<1>4. QED
  BY <1>2, <1>3, IdleFacts, ReadInductive

LEMMA StartInductive ==
    ASSUME IInv, NEW w \in Workers, NEW k \in Kinds \ {"none"}, NEW o \in Orders, NEW a \in Int,
           NEW m \in BOOLEAN, NEW label \in {"releaseRead", "refundRead", "completeDisputed"},
           Start(w, k, o, a, m, label), UNCHANGED <<dbVars, efiVars, callVars, faults>>,
           requests' \in Nat,
           \/ UNCHANGED jobs
           \/ k = "job" /\ jobs[o] = "waiting" /\ jobs' = [jobs EXCEPT ![o] = w],
           label = "releaseRead" => k \in {"job", "release"},
           label = "refundRead" => k \in {"refund", "disputeRefund"},
           label = "completeDisputed" => /\ k \in {"disputePartial", "disputeRelease"}
                                         /\ k = "disputePartial" => a > 0
                                         /\ status[o] # "REFUNDED"
    PROVE  IInv'
<1>1. HandlerTypes /\ TableTypes
  BY TypeParts DEF IInv
<1>2. label \in Pcs \ {"idle"}
  BY DEF Pcs
<1>3. /\ pc' \in [Workers -> Pcs] /\ kind' \in [Workers -> Kinds]
      /\ on' \in [Workers -> Orders \cup {None}] /\ amount' \in [Workers -> Int]
      /\ cashout' \in [Workers -> BOOLEAN] /\ absent' \in [Workers -> BOOLEAN]
      /\ \A v \in Workers : IF pc'[v] = "idle" THEN kind'[v] = "none"
                                    ELSE on'[v] \in Orders /\ kind'[v] # "none"
      /\ contested' \subseteq Orders /\ contested \subseteq contested'
      /\ \A v \in Workers \ {w} : on[v] = o => o \in contested'
      /\ pc[w] = "idle" /\ pc'[w] = label /\ kind'[w] = k /\ on'[w] = o /\ amount'[w] = a
      /\ absent'[w] = m
      /\ OthersRest(w)
  BY <1>1, <1>2, StartEffect
<1>4. HandlerTypes'
  <2>1. \A p \in Orders : jobs[p] # w
    <3> SUFFICES ASSUME NEW p \in Orders, jobs[p] = w
                 PROVE  pc[w] # "idle"
      BY <1>3
    <3>1. kind[w] = "job" /\ on[w] = p
      BY <1>1 DEF HandlerTypes
    <3>2. QED
      BY <1>1, <3>1 DEF HandlerTypes
  <2>2. QED
    BY <1>1, <1>3, <2>1 DEF HandlerTypes, OthersRest
<1>5. TableTypes'
  BY <1>1 DEF TableTypes, dbVars, efiVars
<1>6. HandlerFacts(w)'
  <2>1. ControlOK(w)'
    BY <1>3 DEF ControlOK, InRelease, InRefund, InChargeback, OfDispute, IsPartial
  <2>2. KnowsOK(w)'
    BY <1>3 DEF KnowsOK, InRelease, InRefund, InChargeback, IsPartial
  <2>3. AloneOK(w)'
    BY <1>3 DEF AloneOK, InRelease, InRefund, OthersRest, IInv, RefundsOK, dbVars
  <2>4. QED
    BY <2>1, <2>2, <2>3 DEF HandlerFacts
<1>7. QED
  BY <1>3, <1>4, <1>5, <1>6, ReadInductive
LEMMA OperationInductive ==
    ASSUME IInv, NEW w \in Workers, NEW o \in Orders, Operation(w, o)
    PROVE  IInv'
<1>1. /\ {"job", "release", "refund", "disputePartial", "disputeRelease", "disputeRefund"}
           \subseteq Kinds \ {"none"}
      /\ 0 \in Int /\ FALSE \in BOOLEAN
      /\ requests \in Nat /\ requests + 1 \in Nat
  BY DEF Kinds, IInv, TypeOK
<1>2. CASE StartReleaseJob(w, o)
  <2>1. /\ Start(w, "job", o, 0, FALSE, "releaseRead")
        /\ UNCHANGED <<dbVars, efiVars, callVars, faults>>
        /\ requests' = requests
        /\ jobs[o] = "waiting" /\ jobs' = [jobs EXCEPT ![o] = w]
    BY <1>2 DEF StartReleaseJob, boundVars
  <2>2. QED
    BY <1>1, <2>1, StartInductive
<1>3. CASE AdminRelease(w, o)
  <2>1. /\ Start(w, "release", o, 0, FALSE, "releaseRead")
        /\ UNCHANGED <<dbVars, efiVars, callVars, faults>> /\ UNCHANGED jobs /\ requests' \in Nat
    BY <1>1, <1>3 DEF AdminRelease, StartRequest
  <2>2. QED
    BY <1>1, <2>1, StartInductive
<1>4. CASE AdminRefund(w, o)
  <2>1. /\ Start(w, "refund", o, 0, FALSE, "refundRead")
        /\ UNCHANGED <<dbVars, efiVars, callVars, faults>> /\ UNCHANGED jobs /\ requests' \in Nat
    BY <1>1, <1>4 DEF AdminRefund, StartRequest
  <2>2. QED
    BY <1>1, <2>1, StartInductive
<1>5. CASE ResolveDispute(w, o)
  <2>0. status[o] # "REFUNDED" /\ (status[o] # "COMPLETED") \in BOOLEAN
    BY <1>5 DEF ResolveDispute
  <2>1. ASSUME NEW part \in Parts,
               StartRequest(w, "disputePartial", o, part, status[o] # "COMPLETED",
                            "completeDisputed")
        PROVE  IInv'
    <3>1. /\ Start(w, "disputePartial", o, part, status[o] # "COMPLETED", "completeDisputed")
          /\ UNCHANGED <<dbVars, efiVars, callVars, faults>> /\ UNCHANGED jobs /\ requests' \in Nat
          /\ part \in Int /\ part > 0
      BY <1>1, <2>1 DEF StartRequest
    <3>2. QED
      BY <1>1, <2>0, <3>1, StartInductive
  <2>2. CASE StartRequest(w, "disputeRelease", o, 0, status[o] # "COMPLETED", "completeDisputed")
    <3>1. /\ Start(w, "disputeRelease", o, 0, status[o] # "COMPLETED", "completeDisputed")
          /\ UNCHANGED <<dbVars, efiVars, callVars, faults>> /\ UNCHANGED jobs /\ requests' \in Nat
      BY <1>1, <2>2 DEF StartRequest
    <3>2. QED
      BY <1>1, <2>0, <3>1, StartInductive
  <2>3. CASE StartRequest(w, "disputeRefund", o, 0, FALSE, "refundRead")
    <3>1. /\ Start(w, "disputeRefund", o, 0, FALSE, "refundRead")
          /\ UNCHANGED <<dbVars, efiVars, callVars, faults>> /\ UNCHANGED jobs /\ requests' \in Nat
      BY <1>1, <2>3 DEF StartRequest
    <3>2. QED
      BY <1>1, <3>1, StartInductive
  <2>4. QED
    BY <1>5, <2>1, <2>2, <2>3 DEF ResolveDispute
<1>6. QED
  BY <1>2, <1>3, <1>4, <1>5 DEF Operation

-----------------------------------------------------------------------------
(* The steps of a handler that only read *)

\* A handler goes on with its order, or ends.
LEMMA OnOrder ==
    ASSUME IInv, NEW w \in Workers, on'[w] \in {on[w], None}, contested \subseteq contested'
    PROVE  \A v \in Workers \ {w} : on[v] # None /\ on'[w] = on[v] => on[v] \in contested'
BY DEF IInv, AloneOK

LEMMA MoveInductive ==
    ASSUME IInv, NEW w \in Workers, HandlerTypes', OthersRest(w), on'[w] \in {on[w], None},
           UNCHANGED <<dbVars, efiVars, callVars, boundVars, contested>>, HandlerFacts(w)'
    PROVE  IInv'
<1>1. TableTypes'
  BY TypeParts DEF IInv, TableTypes, dbVars, efiVars, boundVars
<1>2. QED
  BY <1>1, OnOrder, ReadInductive

\* What a handler knows when it has returned, from the evidence of its outcome.
LEMMA ReturnFacts ==
    ASSUME IInv, NEW w \in Workers, pc[w] # "idle", Return(w),
           kind[w] = "disputeRelease" => released'[on[w]] > 0,
           kind[w] \in {"disputePartial", "disputeRefund"} => ledger'[on[w]]["REVERSED"] > 0
    PROVE  /\ HandlerTypes' /\ OthersRest(w) /\ on'[w] \in {on[w], None} /\ UNCHANGED contested
           /\ HandlerFacts(w)'
<1>1. HandlerTypes
  BY TypeParts DEF IInv
<1>2. /\ HandlerTypes' /\ OthersRest(w) /\ UNCHANGED contested
      /\ \/ pc'[w] = "idle" /\ kind'[w] = "none" /\ on'[w] = None
         \/ /\ OfDispute(w) /\ pc'[w] = "finalize" /\ kind'[w] = kind[w] /\ on'[w] = on[w]
            /\ amount'[w] = amount[w] /\ cashout'[w] = cashout[w] /\ absent'[w] = absent[w]
  BY <1>1, ReturnEffect
<1>3. CASE pc'[w] = "idle" /\ kind'[w] = "none" /\ on'[w] = None
  BY <1>2, <1>3, IdleFacts
<1>4. CASE /\ OfDispute(w) /\ pc'[w] = "finalize" /\ kind'[w] = kind[w] /\ on'[w] = on[w]
           /\ amount'[w] = amount[w]
  <2>1. ControlOK(w)' /\ KnowsOK(w)'
    BY <1>4 DEF ControlOK, KnowsOK, InRelease, InRefund, InChargeback, OfDispute, IsPartial
  <2>2. AloneOK(w)'
    BY <1>2, <1>4 DEF AloneOK, InRelease, InRefund, OthersRest, IInv
  <2>3. QED
    BY <1>2, <1>4, <2>1, <2>2 DEF HandlerFacts
<1>5. QED
  BY <1>2, <1>3, <1>4

LEMMA ReturnInductive ==
    ASSUME IInv, NEW w \in Workers, pc[w] # "idle", Return(w),
           UNCHANGED <<dbVars, efiVars, callVars, boundVars>>,
           kind[w] = "disputeRelease" => released[on[w]] > 0,
           kind[w] \in {"disputePartial", "disputeRefund"} => ledger[on[w]]["REVERSED"] > 0
    PROVE  IInv'
BY ReturnFacts, MoveInductive DEF dbVars

LEMMA ReleaseReadInductive ==
    ASSUME IInv, NEW w \in Workers, ReleaseRead(w)
    PROVE  IInv'
<1> DEFINE held == ledger[on[w]]["HELD"]
<1>1. pc[w] = "releaseRead" /\ on[w] \in Orders /\ HandlerTypes /\ TableTypes /\ held \in Int
  BY TypeParts DEF ReleaseRead, IInv, TypeOK, Accounts
<1>2. CASE ~ReleaseAllowed(w) \/ (released[on[w]] = 0 /\ held <= 0)
  BY <1>1, <1>2, ThrowInductive DEF ReleaseRead, boundVars, TableTypes
<1>3. CASE ~(~ReleaseAllowed(w) \/ (released[on[w]] = 0 /\ held <= 0)) /\ released[on[w]] > 0
  <2>1. kind[w] \notin {"refund", "disputeRefund"}
    BY <1>1 DEF IInv, ControlOK
  <2>2. kind[w] = "disputePartial" => ledger[on[w]]["REVERSED"] > 0
    BY <1>1 DEF IInv, KnowsOK, IsPartial
  <2>3. QED
    BY <1>1, <1>3, <2>1, <2>2, ReturnInductive DEF ReleaseRead
<1>4. CASE ~(~ReleaseAllowed(w) \/ (released[on[w]] = 0 /\ held <= 0)) /\ ~(released[on[w]] > 0)
  <2>0. released[on[w]] = 0 /\ held > 0 /\ status[on[w]] = "COMPLETED"
    BY <1>1, <1>4 DEF TableTypes, ReleaseAllowed
  <2>1. PICK byPix \in BOOLEAN, hasPixKey \in BOOLEAN :
            IF byPix /\ (~hasPixKey \/ blocked)
            THEN Throw(w)
            ELSE /\ amount' = [amount EXCEPT ![w] = held]
                 /\ cashout' = [cashout EXCEPT ![w] = byPix]
                 /\ pc' = [pc EXCEPT ![w] = IF byPix /\ held > FeeOf(held)
                                            THEN "cashOut" ELSE "releaseCheck"]
                 /\ UNCHANGED <<dbVars, kind, on, absent, contested, jobs>>
    BY <1>4 DEF ReleaseRead
  <2>2. UNCHANGED <<efiVars, callVars, boundVars>>
    BY DEF ReleaseRead
  <2>3. CASE byPix /\ (~hasPixKey \/ blocked)
    BY <1>1, <2>1, <2>2, <2>3, ThrowInductive DEF boundVars, TableTypes
  <2>4. CASE ~(byPix /\ (~hasPixKey \/ blocked))
    <3>1. /\ amount' = [amount EXCEPT ![w] = held]
          /\ cashout' = [cashout EXCEPT ![w] = byPix]
          /\ pc' = [pc EXCEPT ![w] = IF byPix /\ held > FeeOf(held)
                                     THEN "cashOut" ELSE "releaseCheck"]
          /\ UNCHANGED <<dbVars, kind, on, absent, contested, jobs>>
      BY <2>1, <2>4
    <3>2. /\ pc'[w] = IF byPix /\ held > FeeOf(held) THEN "cashOut" ELSE "releaseCheck"
          /\ amount'[w] = held /\ cashout'[w] = byPix /\ kind'[w] = kind[w] /\ on'[w] = on[w]
          /\ OthersRest(w)
      BY <1>1, <3>1 DEF HandlerTypes, OthersRest
    <3>3. HandlerTypes'
      BY <1>1, <3>1 DEF HandlerTypes, Pcs
    <3>4. ControlOK(w)'
      BY <1>1, <2>0, <3>2 DEF ControlOK, InRelease, InRefund, InChargeback, OfDispute, IsPartial,
                              IInv
    <3>5. KnowsOK(w)'
      BY <1>1, <3>1, <3>2 DEF KnowsOK, InRelease, InRefund, InChargeback, IsPartial, IInv, dbVars,
                              FeeOf
    <3>6. AloneOK(w)'
      BY <1>1, <2>0, <3>1, <3>2 DEF AloneOK, InRelease, InRefund, OthersRest, IInv, RefundsOK,
                                    dbVars
    <3>7. QED
      BY <2>2, <3>1, <3>2, <3>3, <3>4, <3>5, <3>6, MoveInductive DEF HandlerFacts
  <2>5. QED
    BY <2>3, <2>4
<1>5. QED
  BY <1>2, <1>3, <1>4
LEMMA ReleaseCheckInductive ==
    ASSUME IInv, NEW w \in Workers, ReleaseCheck(w)
    PROVE  IInv'
<1>1. pc[w] = "releaseCheck" /\ on[w] \in Orders /\ HandlerTypes
  BY TypeParts DEF ReleaseCheck, IInv, TypeOK
<1>2. UNCHANGED <<dbVars, efiVars, callVars, boundVars>>
  BY DEF ReleaseCheck
<1>3. CASE released[on[w]] > 0
  <2>1. kind[w] \notin {"refund", "disputeRefund"}
    BY <1>1 DEF IInv, ControlOK, InRelease
  <2>2. kind[w] = "disputePartial" => ledger[on[w]]["REVERSED"] > 0
    BY <1>1 DEF IInv, KnowsOK, IsPartial, InRelease
  <2>3. QED
    BY <1>1, <1>2, <1>3, <2>1, <2>2, ReturnInductive DEF ReleaseCheck
<1>4. CASE ~(released[on[w]] > 0)
  <2>1. PICK label \in {"releaseFind", "releaseCommit"} : Goto(w, label) /\ UNCHANGED jobs
    BY <1>4 DEF ReleaseCheck
  <2>2. /\ HandlerTypes' /\ pc'[w] = label /\ OthersRest(w)
        /\ UNCHANGED <<kind, on, amount, cashout, absent, contested>>
    BY <1>1, <2>1, GotoEffect DEF Pcs
  <2>3. ControlOK(w)' /\ KnowsOK(w)'
    BY <1>1, <1>2, <2>2 DEF ControlOK, KnowsOK, InRelease, InRefund, InChargeback, OfDispute,
                            IsPartial, FeeOf, IInv, dbVars, efiVars
  <2>4. AloneOK(w)'
    BY <1>1, <1>2, <2>2 DEF AloneOK, InRelease, InRefund, OthersRest, IInv, dbVars
  <2>5. QED
    BY <1>2, <2>2, <2>3, <2>4, MoveInductive DEF HandlerFacts
<1>5. QED
  BY <1>3, <1>4

\* The three lookups of a row that will be inserted.
LEMMA FindInductive ==
    ASSUME IInv, NEW w \in Workers, ReleaseFind(w) \/ RefundFind(w) \/ FindTicket(w)
    PROVE  IInv'
<1>1. /\ on[w] \in Orders /\ HandlerTypes
      /\ UNCHANGED <<dbVars, efiVars, callVars, boundVars, kind, on, amount, cashout, jobs,
                     contested>>
  BY TypeParts DEF ReleaseFind, RefundFind, FindTicket, IInv, TypeOK
<1>2. PICK label \in {"releaseCommit", "refundCommit", "chargebackCommit"}, b \in BOOLEAN :
          /\ pc' = [pc EXCEPT ![w] = label] /\ absent' = [absent EXCEPT ![w] = b]
          /\ \/ pc[w] = "releaseFind" /\ label = "releaseCommit"
             \/ /\ pc[w] = "refundFind" /\ label = "refundCommit"
                /\ b => "EARNED" \in commission[on[w]]
             \/ pc[w] = "findTicket" /\ label = "chargebackCommit"
  BY DEF ReleaseFind, RefundFind, FindTicket
<1>3. /\ HandlerTypes' /\ pc'[w] = label /\ absent'[w] = b /\ OthersRest(w)
  BY <1>1, <1>2 DEF HandlerTypes, OthersRest, Pcs
<1>4. ControlOK(w)'
  BY <1>1, <1>2, <1>3 DEF ControlOK, InRelease, InRefund, InChargeback, OfDispute, IsPartial, IInv
<1>5. KnowsOK(w)'
  BY <1>1, <1>2, <1>3 DEF KnowsOK, InRelease, InRefund, InChargeback, IsPartial, FeeOf, IInv,
                          dbVars, efiVars
<1>6. AloneOK(w)'
  BY <1>1, <1>2, <1>3 DEF AloneOK, InRelease, InRefund, OthersRest, IInv, IsPartial, dbVars
<1>7. QED
  BY <1>1, <1>3, <1>4, <1>5, <1>6, MoveInductive DEF HandlerFacts

LEMMA PartialReadInductive ==
    ASSUME IInv, NEW w \in Workers, PartialRead(w)
    PROVE  IInv'
<1>1. pc[w] = "partialRead" /\ on[w] \in Orders /\ HandlerTypes /\ TableTypes
  BY TypeParts DEF PartialRead, IInv, TypeOK
<1>2. UNCHANGED <<efiVars, callVars, boundVars>>
  BY DEF PartialRead
<1>3. CASE released[on[w]] > 0 \/ amount[w] > ledger[on[w]]["HELD"]
  BY <1>1, <1>2, <1>3, ThrowInductive DEF PartialRead, boundVars, TableTypes
<1>4. CASE ~(released[on[w]] > 0 \/ amount[w] > ledger[on[w]]["HELD"])
  <2>1. Goto(w, "refundPix") /\ UNCHANGED <<dbVars, jobs>>
    BY <1>4 DEF PartialRead
  <2>2. /\ HandlerTypes' /\ pc'[w] = "refundPix" /\ OthersRest(w)
        /\ UNCHANGED <<kind, on, amount, cashout, absent, contested>>
    BY <1>1, <2>1, GotoEffect DEF Pcs
  <2>3. released[on[w]] = 0 /\ amount[w] <= ledger[on[w]]["HELD"]
    BY <1>1, <1>4 DEF TableTypes, HandlerTypes, Accounts
  <2>4. ControlOK(w)' /\ KnowsOK(w)'
    BY <1>1, <2>2 DEF ControlOK, KnowsOK, InRelease, InRefund, InChargeback, OfDispute,
                      IsPartial, IInv
  <2>5. AloneOK(w)'
    BY <1>1, <2>1, <2>2, <2>3 DEF AloneOK, InRelease, InRefund, OthersRest, IInv, dbVars
  <2>6. QED
    BY <1>2, <2>1, <2>2, <2>4, <2>5, MoveInductive DEF HandlerFacts
<1>5. QED
  BY <1>3, <1>4

LEMMA RefundReadInductive ==
    ASSUME IInv, NEW w \in Workers, RefundRead(w)
    PROVE  IInv'
<1>1. pc[w] = "refundRead" /\ on[w] \in Orders /\ HandlerTypes /\ TableTypes
  BY TypeParts DEF RefundRead, IInv, TypeOK
<1>2. UNCHANGED <<dbVars, efiVars, callVars, boundVars>>
  BY DEF RefundRead
<1>3. kind[w] \in {"refund", "disputeRefund"}
  BY <1>1 DEF IInv, ControlOK
<1>4. CASE released[on[w]] > 0
  <2>1. Goto(w, "findTicket") /\ UNCHANGED jobs
    BY <1>4 DEF RefundRead
  <2>2. /\ HandlerTypes' /\ pc'[w] = "findTicket" /\ OthersRest(w)
        /\ UNCHANGED <<kind, on, amount, cashout, absent, contested>>
    BY <1>1, <2>1, GotoEffect DEF Pcs
  <2>3. ControlOK(w)' /\ KnowsOK(w)'
    BY <1>2, <1>3, <1>4, <2>2 DEF ControlOK, KnowsOK, InRelease, InRefund, InChargeback,
                                  OfDispute, IsPartial, dbVars
  <2>4. AloneOK(w)'
    BY <2>2 DEF AloneOK, InRelease, InRefund, OthersRest, IInv
  <2>5. QED
    BY <1>2, <2>2, <2>3, <2>4, MoveInductive DEF HandlerFacts
<1>5. CASE ~(released[on[w]] > 0) /\ on[w] \in refunded
  <2>1. ledger[on[w]]["REVERSED"] > 0
    BY <1>5 DEF IInv, RefundsOK
  <2>2. QED
    BY <1>1, <1>2, <1>3, <1>5, <2>1, ReturnInductive DEF RefundRead
<1>6. CASE ~(released[on[w]] > 0) /\ on[w] \notin refunded
  <2>1. PICK label \in {"refundPix", "refundFind"} :
            /\ amount' = [amount EXCEPT ![w] = Price] /\ pc' = [pc EXCEPT ![w] = label]
            /\ label = "refundFind" => provider[on[w]] # "EFI"
            /\ UNCHANGED <<kind, on, cashout, absent, contested, jobs>>
    BY <1>6 DEF RefundRead
  <2>2. /\ HandlerTypes' /\ pc'[w] = label /\ amount'[w] = Price /\ OthersRest(w)
    BY <1>1, <2>1 DEF HandlerTypes, OthersRest, Pcs
  <2>3. released[on[w]] = 0 /\ Price > 0
    BY <1>1, <1>6 DEF TableTypes
  <2>4. ControlOK(w)'
    BY <1>3, <2>1, <2>2, <2>3 DEF ControlOK, InRelease, InRefund, InChargeback, OfDispute,
                                  IsPartial
  <2>5. KnowsOK(w)'
    BY <1>2, <1>3, <2>1, <2>2 DEF KnowsOK, InRelease, InRefund, InChargeback, IsPartial, dbVars
  <2>6. AloneOK(w)'
    BY <1>2, <1>3, <1>6, <2>1, <2>2, <2>3 DEF AloneOK, InRelease, InRefund, IsPartial, OthersRest,
                                             IInv, dbVars
  <2>7. QED
    BY <1>2, <2>1, <2>2, <2>4, <2>5, <2>6, MoveInductive DEF HandlerFacts
<1>7. QED
  BY <1>4, <1>5, <1>6

LEMMA FailInductive ==
    ASSUME IInv, NEW w \in Workers, Fail(w)
    PROVE  IInv'
<1>1. HandlerTypes /\ TableTypes /\ pc[w] # "idle"
  BY TypeParts DEF IInv, Fail
<1>2. /\ HandlerTypes' /\ pc'[w] = "idle" /\ kind'[w] = "none" /\ on'[w] = None
      /\ OthersRest(w) /\ UNCHANGED contested
  BY <1>1, LeaveEffect DEF Fail
<1>3. TableTypes'
  BY <1>1 DEF TableTypes, dbVars, efiVars, Fail
<1>4. QED
  BY <1>2, <1>3, IdleFacts, ReadInductive DEF Fail
-----------------------------------------------------------------------------
(* Steps that no handler of a settlement takes *)

LEMMA OutsideInductive ==
    ASSUME IInv, TypeOK', UNCHANGED <<pc, localVars, contested>>,
           \A o \in Orders : Keeps(o) /\ Quiet(o), OrderFacts'
    PROVE  IInv'
<1>1. ASSUME NEW v \in Workers
      PROVE  HandlerFacts(v)'
  <2>1. TypeOK /\ HandlerFacts(v) /\ Rests(v)
    BY DEF IInv, HandlerFacts, Rests, localVars
  <2>2. \A u \in Workers \ {v} : on'[v] # None /\ on'[u] = on'[v] => on'[v] \in contested'
    BY <2>1 DEF HandlerFacts, AloneOK, localVars
  <2>3. QED
    BY <2>1, <2>2, RestKeeps
<1>2. QED
  BY <1>1 DEF IInv, HandlerFacts, OrderFacts

\* A queue call or a stall: no table and no handler changes, and no job is handed out.
LEMMA QueueInductive ==
    ASSUME IInv, UNCHANGED <<dbVars, efiVars, requests, localVars, pc, contested>>,
           auto' \subseteq Orders, calls' \subseteq Callers \X Orders, lost' \subseteq Orders,
           faults' \in Nat, jobs' \in [Orders -> {"none", "waiting", "failed"} \cup Workers],
           \A p \in Orders : jobs'[p] \in Workers => jobs'[p] = jobs[p]
    PROVE  IInv'
<1>1. TypeOK'
  BY DEF IInv, TypeOK, dbVars, efiVars, localVars
<1>2. \A p \in Orders : Keeps(p) /\ Quiet(p)
  BY KeepsRest DEF IInv
<1>3. OrderFacts'
  BY OrderFactsRest DEF IInv, OrderFacts
<1>4. QED
  BY <1>1, <1>2, <1>3, OutsideInductive

\* An order that is not REFUNDED is completed or disputed.
LEMMA CommitInductive ==
    ASSUME IInv, NEW o \in Orders, status[o] # "REFUNDED",
           NEW new \in {"COMPLETED", "DISPUTED"}, NEW caller \in Callers, Commit(o, new, caller),
           \/ UNCHANGED dispute
           \/ dispute[o] = "none" /\ dispute' = [dispute EXCEPT ![o] = "OPEN"],
           tickets' \subseteq Orders, auto' \subseteq Orders
    PROVE  IInv'
<1>1. TypeOK'
  BY DEF IInv, TypeOK, Commit, efiVars, boundVars, localVars
<1>2. \A p \in Orders : Keeps(p) /\ Quiet(p)
  BY DEF IInv, TypeOK, Commit, Keeps, Quiet, efiVars, Accounts
<1>3. OrderFacts'
  BY DEF IInv, TypeOK, OrderFacts, Commit, RefundsOK, DisputeBacked, PayoutIsSent,
         RefundIsReal, CommissionBacked, efiVars
<1>4. QED
  BY <1>1, <1>2, <1>3, OutsideInductive DEF Commit

\* What happens to order o outside the handlers of its settlement.
Outside(o) == \/ ConfirmReceipt(o) \/ AutoComplete(o) \/ OpenDispute(o)
              \/ CancelRelease(o) \/ StallJob(o)
              \/ \E c \in Callers : ScheduleRelease(c, o) \/ LoseCall(c, o)

LEMMA OutsideOrderInductive ==
    ASSUME IInv, NEW o \in Orders, Outside(o)
    PROVE  IInv'
<1>1. HandlerTypes /\ TableTypes
  BY TypeParts DEF IInv
<1>2. CASE ConfirmReceipt(o)
  <2>1. /\ status[o] = "DELIVERED" /\ Commit(o, "COMPLETED", "receipt")
        /\ UNCHANGED <<dispute, tickets, auto>> /\ "receipt" \in Callers
    BY <1>2 DEF ConfirmReceipt, Callers
  <2>2. QED
    BY <1>1, <2>1, CommitInductive DEF TableTypes
<1>3. CASE AutoComplete(o)
  <2>1. auto' \subseteq Orders /\ "autoComplete" \in Callers
    BY <1>1, <1>3 DEF AutoComplete, Callers, TableTypes
  <2>2. CASE /\ status[o] \in {"COMPLETED", "DELIVERED"}
             /\ Commit(o, "COMPLETED", "autoComplete") /\ UNCHANGED <<dispute, tickets>>
    BY <1>1, <2>1, <2>2, CommitInductive DEF TableTypes
  <2>3. CASE UNCHANGED <<dbVars, efiVars, calls, lost, boundVars, localVars, jobs, pc, contested>>
    BY <1>1, <2>1, <2>3, QueueInductive DEF HandlerTypes, TableTypes, boundVars
  <2>4. QED
    BY <1>3, <2>2, <2>3 DEF AutoComplete
<1>4. CASE OpenDispute(o)
  <2>1. /\ status[o] # "REFUNDED" /\ dispute[o] = "none" /\ Commit(o, "DISPUTED", "dispute")
        /\ dispute' = [dispute EXCEPT ![o] = "OPEN"]
        /\ tickets' \subseteq Orders /\ auto' \subseteq Orders /\ "dispute" \in Callers
    BY <1>1, <1>4 DEF OpenDispute, Callers, TableTypes
  <2>2. QED
    BY <2>1, CommitInductive
<1>5. CASE CancelRelease(o) \/ \E c \in Callers : ScheduleRelease(c, o)
  <2>1. /\ UNCHANGED <<dbVars, efiVars, auto, lost, boundVars, localVars, pc, contested>>
        /\ calls' \subseteq Callers \X Orders
    BY <1>1, <1>5 DEF CancelRelease, ScheduleRelease, Called, TableTypes
  <2>2. /\ jobs' \in [Orders -> {"none", "waiting", "failed"} \cup Workers]
        /\ \A p \in Orders : jobs'[p] \in Workers => jobs'[p] = jobs[p]
    BY <1>1, <1>5 DEF CancelRelease, ScheduleRelease, HandlerTypes
  <2>3. QED
    BY <1>1, <2>1, <2>2, QueueInductive DEF TableTypes, boundVars
<1>6. CASE \E c \in Callers : LoseCall(c, o)
  <2>1. /\ UNCHANGED <<dbVars, efiVars, requests, localVars, jobs, pc, contested>>
        /\ auto' \subseteq Orders /\ calls' \subseteq Callers \X Orders /\ lost' \subseteq Orders
        /\ faults' \in Nat
    BY <1>1, <1>6 DEF LoseCall, TableTypes
  <2>2. QED
    BY <1>1, <2>1, QueueInductive DEF HandlerTypes
<1>7. CASE StallJob(o)
  <2>1. /\ UNCHANGED <<dbVars, efiVars, callVars, requests, localVars, pc, contested>>
        /\ faults' \in Nat /\ jobs' \in [Orders -> {"none", "waiting", "failed"} \cup Workers]
        /\ \A p \in Orders : jobs'[p] \in Workers => jobs'[p] = jobs[p]
    BY <1>1, <1>7 DEF StallJob, HandlerTypes, TableTypes
  <2>2. QED
    BY <1>1, <2>1, QueueInductive DEF TableTypes
<1>8. QED
  BY <1>2, <1>3, <1>4, <1>5, <1>6, <1>7 DEF Outside

LEMMA SetPayoutBlockInductive ==
    ASSUME IInv, NEW b \in BOOLEAN, SetPayoutBlock(b)
    PROVE  IInv'
<1>1. TypeOK'
  BY DEF IInv, TypeOK, SetPayoutBlock, efiVars, localVars
<1>2. \A p \in Orders : Keeps(p) /\ Quiet(p)
  BY DEF IInv, TypeOK, SetPayoutBlock, Keeps, Quiet, efiVars, Accounts
<1>3. OrderFacts'
  BY DEF IInv, TypeOK, OrderFacts, SetPayoutBlock, RefundsOK, DisputeBacked, PayoutIsSent,
         RefundIsReal, CommissionBacked, efiVars
<1>4. QED
  BY <1>1, <1>2, <1>3, OutsideInductive DEF SetPayoutBlock
-----------------------------------------------------------------------------
(* The steps of a handler that write *)

LEMMA CompleteDisputedInductive ==
    ASSUME IInv, NEW w \in Workers, CompleteDisputed(w)
    PROVE  IInv'
<1>1. pc[w] = "completeDisputed" /\ on[w] \in Orders /\ HandlerTypes /\ TableTypes
  BY TypeParts DEF CompleteDisputed, IInv, TypeOK
<1>2. PICK label \in {"partialRead", "releaseRead"} :
          /\ Goto(w, label)
          /\ label = "partialRead" <=> kind[w] = "disputePartial"
  BY DEF CompleteDisputed
<1>3. /\ HandlerTypes' /\ pc'[w] = label /\ OthersRest(w)
      /\ UNCHANGED <<kind, on, amount, cashout, absent, contested>>
  BY <1>1, <1>2, GotoEffect DEF CompleteDisputed, Pcs
<1>4. /\ status' \in {status, [status EXCEPT ![on[w]] = "COMPLETED"]}
      /\ UNCHANGED <<paymentVars, refunded, dispute, tickets, ledger, released, commission, blocked,
                     sent, returned, callVars, requests, faults>>
  BY DEF CompleteDisputed, efiVars, boundVars
<1>5. TypeOK'
  <2>1. TableTypes'
    BY <1>1, <1>4 DEF TableTypes
  <2>2. QED
    BY <1>3, <2>1 DEF TypeOK, HandlerTypes, TableTypes
<1>6. Frame(w)
  <2>1. \A o \in Orders : Keeps(o) /\ Quiet(o)
    BY <1>1, <1>4 DEF Keeps, Quiet, TableTypes, Accounts
  <2>2. QED
    BY <1>3, <2>1, OnOrder DEF Frame
<1>7. HandlerFacts(w)'
  <2>1. ControlOK(w)' /\ KnowsOK(w)'
    BY <1>1, <1>2, <1>3, <1>4 DEF ControlOK, KnowsOK, InRelease, InRefund, InChargeback,
                                  OfDispute, IsPartial, IInv
  <2>2. AloneOK(w)'
    BY <1>1, <1>3, <1>4 DEF AloneOK, InRelease, InRefund, OthersRest, IInv
  <2>3. QED
    BY <2>1, <2>2 DEF HandlerFacts
<1>8. OrderFacts'
  <2>1. on[w] \in contested \/ on[w] \notin refunded
    BY <1>1 DEF IInv, AloneOK
  <2>2. RefundsOK'
    BY <1>1, <1>3, <1>4, <2>1 DEF IInv, RefundsOK, TableTypes
  <2>3. DisputeBacked' /\ PayoutIsSent' /\ RefundIsReal' /\ CommissionBacked'
    BY <1>4 DEF IInv, DisputeBacked, PayoutIsSent, RefundIsReal, CommissionBacked
  <2>4. QED
    BY <2>2, <2>3 DEF OrderFacts
<1>9. QED
  BY <1>5, <1>6, <1>7, <1>8, FrameInductive

LEMMA FinalizeDisputeInductive ==
    ASSUME IInv, NEW w \in Workers, FinalizeDispute(w)
    PROVE  IInv'
<1>1. pc[w] = "finalize" /\ on[w] \in Orders /\ HandlerTypes /\ TableTypes
  BY TypeParts DEF FinalizeDispute, IInv, TypeOK
<1>2. kind[w] # "job"
  BY <1>1 DEF IInv, ControlOK, OfDispute
<1>3. jobs' = JobEnd(w, "none")
  BY <1>2 DEF FinalizeDispute, JobEnd
<1>4. /\ HandlerTypes' /\ pc'[w] = "idle" /\ kind'[w] = "none" /\ on'[w] = None
      /\ OthersRest(w) /\ UNCHANGED contested
  BY <1>1, <1>3, LeaveEffect DEF FinalizeDispute
<1>5. PICK outcome \in {"REJECTED", "RESOLVED"} :
          /\ dispute' = [dispute EXCEPT ![on[w]] = outcome]
          /\ outcome = "REJECTED" <=> kind[w] = "disputeRelease"
  BY DEF FinalizeDispute
<1>6. UNCHANGED <<status, paymentVars, refunded, tickets, ledger, released, commission, blocked,
                  sent, returned, callVars, requests, faults>>
  BY DEF FinalizeDispute, efiVars, boundVars
<1>7. TypeOK'
  <2>1. TableTypes'
    BY <1>1, <1>5, <1>6 DEF TableTypes
  <2>2. QED
    BY <1>4, <2>1 DEF TypeOK, HandlerTypes, TableTypes
<1>8. Frame(w)
  <2>1. \A o \in Orders : Keeps(o) /\ Quiet(o)
    BY <1>1, <1>6 DEF Keeps, Quiet, TableTypes, Accounts
  <2>2. QED
    BY <1>4, <2>1, OnOrder DEF Frame
<1>9. OrderFacts'
  <2>1. IF outcome = "REJECTED" THEN released[on[w]] > 0 ELSE ledger[on[w]]["REVERSED"] > 0
    BY <1>1, <1>5 DEF IInv, KnowsOK
  <2>2. DisputeBacked'
    BY <1>1, <1>5, <1>6, <2>1 DEF IInv, DisputeBacked, TableTypes
  <2>3. RefundsOK' /\ PayoutIsSent' /\ RefundIsReal' /\ CommissionBacked'
    BY <1>4, <1>6 DEF IInv, RefundsOK, PayoutIsSent, RefundIsReal, CommissionBacked
  <2>4. QED
    BY <2>2, <2>3 DEF OrderFacts
<1>10. QED
  BY <1>4, <1>7, <1>8, <1>9, IdleFacts, FrameInductive

LEMMA CashOutInductive ==
    ASSUME IInv, NEW w \in Workers, CashOut(w)
    PROVE  IInv'
<1>1. pc[w] = "cashOut" /\ on[w] \in Orders /\ HandlerTypes /\ TableTypes
  BY TypeParts DEF CashOut, IInv, TypeOK
<1>2. /\ HandlerTypes' /\ pc'[w] = "releaseCheck" /\ OthersRest(w)
      /\ UNCHANGED <<kind, on, amount, cashout, absent, contested>>
  BY <1>1, GotoEffect DEF CashOut, Pcs
<1>3. UNCHANGED <<status, paymentVars, refunded, dispute, tickets, ledger, released, commission,
                  blocked, returned, callVars, requests, faults>>
  BY DEF CashOut, dbVars, boundVars
<1>4. amount[w] \in Int /\ amount[w] > 0
  BY <1>1 DEF IInv, ControlOK, InRelease, HandlerTypes
<1>5. FeeOf(amount[w]) \in Int /\ FeeOf(amount[w]) <= amount[w]
  BY <1>4, FeeBounds
<1>6. /\ sent' \in [Orders -> Nat]
      /\ \A o \in Orders : sent'[o] >= sent[o]
      /\ amount[w] > FeeOf(amount[w]) => sent'[on[w]] > 0
  BY <1>1, <1>4, <1>5 DEF CashOut, TableTypes
<1>7. TypeOK'
  <2>1. TableTypes'
    BY <1>1, <1>3, <1>6 DEF TableTypes
  <2>2. QED
    BY <1>2, <2>1 DEF TypeOK, HandlerTypes, TableTypes
<1>8. Frame(w)
  <2>1. \A o \in Orders : Keeps(o) /\ Quiet(o)
    BY <1>1, <1>3, <1>6 DEF Keeps, Quiet, TableTypes, Accounts
  <2>2. QED
    BY <1>2, <2>1, OnOrder DEF Frame
<1>9. HandlerFacts(w)'
  <2>1. ControlOK(w)'
    BY <1>1, <1>2 DEF ControlOK, InRelease, InRefund, InChargeback, OfDispute, IsPartial, IInv
  <2>2. KnowsOK(w)'
    BY <1>1, <1>2, <1>3, <1>6 DEF KnowsOK, InRelease, InRefund, InChargeback, IsPartial, FeeOf,
                                  IInv
  <2>3. AloneOK(w)'
    BY <1>1, <1>2, <1>3 DEF AloneOK, InRelease, InRefund, OthersRest, IInv
  <2>4. QED
    BY <2>1, <2>2, <2>3 DEF HandlerFacts
<1>10. OrderFacts'
  <2>1. PayoutIsSent'
    BY <1>1, <1>3, <1>6 DEF IInv, PayoutIsSent, TableTypes
  <2>2. RefundsOK' /\ DisputeBacked' /\ RefundIsReal' /\ CommissionBacked'
    BY <1>2, <1>3 DEF IInv, RefundsOK, DisputeBacked, RefundIsReal, CommissionBacked
  <2>3. QED
    BY <2>1, <2>2 DEF OrderFacts
<1>11. QED
  BY <1>7, <1>8, <1>9, <1>10, FrameInductive

LEMMA RefundPixInductive ==
    ASSUME IInv, NEW w \in Workers, RefundPix(w)
    PROVE  IInv'
<1>1. pc[w] = "refundPix" /\ on[w] \in Orders /\ HandlerTypes /\ TableTypes
  BY TypeParts DEF RefundPix, IInv, TypeOK
<1>2. CASE Throw(w) /\ UNCHANGED returned
  BY <1>1, <1>2, ThrowInductive DEF RefundPix, efiVars, boundVars, TableTypes
<1>3. CASE /\ returned' = [returned EXCEPT ![on[w]] =
                 IF @ # 0 THEN @ ELSE IF IsPartial(w) THEN amount[w] ELSE FullRefund(on[w])]
           /\ Goto(w, "refundFind")
           /\ UNCHANGED <<dbVars, jobs>>
  <2>1. /\ HandlerTypes' /\ pc'[w] = "refundFind" /\ OthersRest(w)
        /\ UNCHANGED <<kind, on, amount, cashout, absent, contested>>
    BY <1>1, <1>3, GotoEffect DEF Pcs
  <2>2. UNCHANGED <<status, paymentVars, refunded, dispute, tickets, ledger, released, commission,
                    blocked, sent, callVars, requests, faults>>
    BY <1>3 DEF RefundPix, dbVars, boundVars
  <2>3. amount[w] \in Int /\ amount[w] > 0
    BY <1>1 DEF IInv, ControlOK, InRefund, HandlerTypes
  <2>4. /\ returned' \in [Orders -> Nat]
        /\ \A o \in Orders : returned'[o] >= returned[o]
        /\ IsPartial(w) \/ FullRefund(on[w]) > 0 => returned'[on[w]] > 0
    BY <1>1, <1>3, <2>3 DEF TableTypes
  <2>5. TypeOK'
    <3>1. TableTypes'
      BY <1>1, <2>2, <2>4 DEF TableTypes
    <3>2. QED
      BY <2>1, <3>1 DEF TypeOK, HandlerTypes, TableTypes
  <2>6. Frame(w)
    <3>1. \A o \in Orders : Keeps(o) /\ Quiet(o)
      BY <1>1, <2>2, <2>4 DEF Keeps, Quiet, TableTypes, Accounts
    <3>2. QED
      BY <2>1, <3>1, OnOrder DEF Frame
  <2>7. HandlerFacts(w)'
    <3>1. ControlOK(w)'
      BY <1>1, <2>1 DEF ControlOK, InRelease, InRefund, InChargeback, OfDispute, IsPartial, IInv
    <3>2. KnowsOK(w)'
      BY <1>1, <2>1, <2>2, <2>4 DEF KnowsOK, InRelease, InRefund, InChargeback, IsPartial, IInv
    <3>3. AloneOK(w)'
      BY <1>1, <2>1, <2>2 DEF AloneOK, InRelease, InRefund, IsPartial, OthersRest, IInv
    <3>4. QED
      BY <3>1, <3>2, <3>3 DEF HandlerFacts
  <2>8. OrderFacts'
    <3>1. RefundIsReal'
      BY <1>1, <2>2, <2>4 DEF IInv, RefundIsReal, TableTypes
    <3>2. RefundsOK' /\ DisputeBacked' /\ PayoutIsSent' /\ CommissionBacked'
      BY <2>1, <2>2 DEF IInv, RefundsOK, DisputeBacked, PayoutIsSent, CommissionBacked
    <3>3. QED
      BY <3>1, <3>2 DEF OrderFacts
  <2>9. QED
    BY <2>5, <2>6, <2>7, <2>8, FrameInductive
<1>4. QED
  BY <1>2, <1>3 DEF RefundPix
\* The entries of a release, in the ledger.
LEMMA ReleasePost ==
    ASSUME TableTypes, NEW o \in Orders, NEW h \in Int, h > 0, NEW b \in BOOLEAN,
           Post(o, ReleaseEntries(h, b))
    PROVE  /\ ledger' \in [Orders -> [Accounts -> Int]]
           /\ \A p \in Orders \ {o} : ledger'[p] = ledger[p]
           /\ ledger'[o]["HELD"] = ledger[o]["HELD"] - h
           /\ ledger'[o]["REVERSED"] = ledger[o]["REVERSED"]
           /\ ledger'[o]["BUYER"] = ledger[o]["BUYER"]
           /\ ledger'[o]["PAYOUT"] = ledger[o]["PAYOUT"] + IF b THEN h - FeeOf(h) ELSE 0
           /\ Total(ledger'[o]) = Total(ledger[o])
<1> DEFINE e == ReleaseEntries(h, b)
<1>1. /\ e \in [Accounts -> Int]
      /\ e["HELD"] = -h /\ e["REVERSED"] = 0 /\ e["BUYER"] = 0 /\ e["FEE"] = FeeOf(h)
      /\ e["PAYOUT"] = IF b THEN h - FeeOf(h) ELSE 0
      /\ e["AVAILABLE"] = IF b THEN 0 ELSE h - FeeOf(h)
  BY ReleaseAmounts
<1> HIDE DEF e
<1>2. /\ ledger' \in [Orders -> [Accounts -> Int]]
      /\ \A a \in Accounts : ledger'[o][a] = ledger[o][a] + e[a]
      /\ \A p \in Orders \ {o} : ledger'[p] = ledger[p]
  BY <1>1, PostEffect DEF e
<1>3. /\ Accounts = {"HELD", "AVAILABLE", "FEE", "PAYOUT", "REVERSED", "BUYER"}
      /\ ledger[o] \in [Accounts -> Int]
  BY DEF Accounts, TableTypes
<1>4. Total(ledger'[o]) = Total(ledger[o])
  BY <1>1, <1>2, <1>3, FeeBounds DEF Total
<1>5. QED
  BY <1>1, <1>2, <1>3, <1>4

\* The entries of a refund, in the ledger.
LEMMA RefundPost ==
    ASSUME TableTypes, NEW o \in Orders, NEW from \in {"HELD", "AVAILABLE"}, NEW x \in Int,
           NEW toBuyer \in Int, Post(o, RefundEntries(from, x, toBuyer))
    PROVE  /\ ledger' \in [Orders -> [Accounts -> Int]]
           /\ \A p \in Orders \ {o} : ledger'[p] = ledger[p]
           /\ ledger'[o]["HELD"] = ledger[o]["HELD"] - IF from = "HELD" THEN x ELSE 0
           /\ ledger'[o]["REVERSED"] = ledger[o]["REVERSED"] + x
           /\ ledger'[o]["BUYER"] = ledger[o]["BUYER"] + toBuyer
           /\ ledger'[o]["PAYOUT"] = ledger[o]["PAYOUT"]
           /\ Total(ledger'[o]) = Total(ledger[o])
<1> DEFINE e == RefundEntries(from, x, toBuyer)
<1>1. /\ e \in [Accounts -> Int]
      /\ e["HELD"] = (IF from = "HELD" THEN -x ELSE 0)
      /\ e["AVAILABLE"] = (IF from = "AVAILABLE" THEN -x ELSE 0)
      /\ e["REVERSED"] = x /\ e["BUYER"] = toBuyer /\ e["PAYOUT"] = 0 /\ e["FEE"] = 0
  BY DEF RefundEntries, Accounts
<1> HIDE DEF e
<1>2. /\ ledger' \in [Orders -> [Accounts -> Int]]
      /\ \A a \in Accounts : ledger'[o][a] = ledger[o][a] + e[a]
      /\ \A p \in Orders \ {o} : ledger'[p] = ledger[p]
  BY <1>1, PostEffect DEF e
<1>3. /\ Accounts = {"HELD", "AVAILABLE", "FEE", "PAYOUT", "REVERSED", "BUYER"}
      /\ ledger[o] \in [Accounts -> Int]
  BY DEF Accounts, TableTypes
<1>4. Total(ledger'[o]) = Total(ledger[o])
  BY <1>1, <1>2, <1>3 DEF Total
<1>5. QED
  BY <1>1, <1>2, <1>3, <1>4

LEMMA ReleaseCommitInductive ==
    ASSUME IInv, NEW w \in Workers, ReleaseCommit(w)
    PROVE  IInv'
<1> DEFINE o == on[w]
<1>1. pc[w] = "releaseCommit" /\ o \in Orders /\ HandlerTypes /\ TableTypes
  BY TypeParts DEF ReleaseCommit, IInv, TypeOK
<1>2. amount[w] \in Int /\ amount[w] > 0 /\ cashout[w] \in BOOLEAN
  BY <1>1 DEF IInv, ControlOK, InRelease, HandlerTypes
<1>3. kind[w] \notin {"refund", "disputeRefund"}
  BY <1>1 DEF IInv, ControlOK, InRelease
<1>4. CASE ~Insertable(w, "EARNED")
  BY <1>1, <1>4, ThrowInductive DEF ReleaseCommit, boundVars, TableTypes
<1>5. CASE Insertable(w, "EARNED")
  <2>1. /\ Post(o, ReleaseEntries(amount[w], cashout[w]))
        /\ released' = [released EXCEPT ![o] = @ + 1]
        /\ commission' \in {commission, [commission EXCEPT ![o] = @ \cup {"EARNED"}]}
        /\ Return(w)
        /\ UNCHANGED <<status, paymentVars, refunded, dispute, tickets, blocked, sent, returned,
                       callVars, requests, faults>>
    BY <1>5 DEF ReleaseCommit, WithEvent, efiVars, boundVars
  <2>2. /\ ledger' \in [Orders -> [Accounts -> Int]]
        /\ \A p \in Orders \ {o} : ledger'[p] = ledger[p]
        /\ ledger'[o]["HELD"] = ledger[o]["HELD"] - amount[w]
        /\ ledger'[o]["REVERSED"] = ledger[o]["REVERSED"]
        /\ ledger'[o]["BUYER"] = ledger[o]["BUYER"]
        /\ ledger'[o]["PAYOUT"] = ledger[o]["PAYOUT"]
              + IF cashout[w] THEN amount[w] - FeeOf(amount[w]) ELSE 0
    BY <1>1, <1>2, <2>1, ReleasePost
  <2>3. /\ released' \in [Orders -> Nat] /\ released'[o] > 0
        /\ \A p \in Orders : released'[p] >= released[p]
        /\ \A p \in Orders \ {o} : released'[p] = released[p]
    BY <1>1, <2>1 DEF TableTypes
  <2>4. kind[w] = "disputePartial" => ledger'[o]["REVERSED"] > 0
    BY <1>1, <2>2 DEF IInv, KnowsOK, InRelease, IsPartial
  <2>5. /\ HandlerTypes' /\ OthersRest(w) /\ on'[w] \in {on[w], None} /\ UNCHANGED contested
        /\ HandlerFacts(w)'
    BY <1>1, <1>3, <2>1, <2>3, <2>4, ReturnFacts
  <2>6. TypeOK'
    <3>1. commission' \in [Orders -> SUBSET {"EARNED", "REVERSED"}]
      BY <1>1, <2>1 DEF TableTypes
    <3>2. TableTypes'
      BY <1>1, <2>1, <2>2, <2>3, <3>1 DEF TableTypes
    <3>3. QED
      BY <2>5, <3>2 DEF TypeOK, HandlerTypes, TableTypes
  <2>7. Frame(w)
    <3>1. \A p \in Orders : Keeps(p)
      BY <1>1, <2>1, <2>2, <2>3 DEF Keeps, TableTypes, Accounts
    <3>2. \A p \in Orders \ {o} : Quiet(p)
      BY <2>1, <2>2, <2>3 DEF Quiet
    <3>3. QED
      BY <2>5, <3>1, <3>2, OnOrder DEF Frame
  <2>8. OrderFacts'
    <3>1. RefundsOK'
      BY <1>1, <2>1, <2>2, <2>5 DEF IInv, RefundsOK, TableTypes
    <3>2. DisputeBacked'
      BY <1>1, <2>1, <2>2, <2>3 DEF IInv, DisputeBacked, TableTypes
    <3>3. PayoutIsSent'
      <4>1. cashout[w] /\ amount[w] > FeeOf(amount[w]) => sent[o] > 0
        BY <1>1 DEF IInv, KnowsOK, InRelease
      <4>2. FeeOf(amount[w]) \in Int /\ FeeOf(amount[w]) <= amount[w]
        BY <1>2, FeeBounds
      <4>3. ledger[o]["PAYOUT"] \in Int
        BY <1>1 DEF TableTypes, Accounts
      <4>4. ledger'[o]["PAYOUT"] > 0 => sent[o] > 0
        BY <1>1, <1>2, <2>2, <4>1, <4>2, <4>3 DEF IInv, PayoutIsSent
      <4>5. QED
        BY <2>1, <2>2, <4>4 DEF IInv, PayoutIsSent
    <3>4. RefundIsReal'
      BY <1>1, <2>1, <2>2, <2>3 DEF IInv, RefundIsReal, TableTypes
    <3>5. CommissionBacked'
      BY <1>1, <2>1, <2>2, <2>3 DEF IInv, CommissionBacked, TableTypes
    <3>6. QED
      BY <3>1, <3>2, <3>3, <3>4, <3>5 DEF OrderFacts
  <2>9. QED
    BY <2>5, <2>6, <2>7, <2>8, FrameInductive
<1>6. QED
  BY <1>4, <1>5
LEMMA RefundCommitInductive ==
    ASSUME IInv, NEW w \in Workers, RefundCommit(w)
    PROVE  IInv'
<1> DEFINE o == on[w]
           toBuyer == IF provider[o] = "WALLET" /\ ~IsPartial(w) THEN FullRefund(o) ELSE 0
<1>1. pc[w] = "refundCommit" /\ o \in Orders /\ HandlerTypes /\ TableTypes
  BY TypeParts DEF RefundCommit, IInv, TypeOK
<1>2. /\ amount[w] \in Int /\ amount[w] > 0 /\ toBuyer \in Int /\ toBuyer >= 0
      /\ kind[w] \in {"refund", "disputeRefund", "disputePartial"}
  BY <1>1 DEF IInv, ControlOK, InRefund, HandlerTypes, TableTypes
<1>3. CASE ~Insertable(w, "REVERSED")
  BY <1>1, <1>3, ThrowInductive DEF RefundCommit, boundVars, TableTypes
<1>4. CASE Insertable(w, "REVERSED")
  <2>1. /\ Post(o, RefundEntries("HELD", amount[w], toBuyer))
        /\ \/ commission' = commission
           \/ commission' = [commission EXCEPT ![o] = @ \cup {"REVERSED"}] /\ absent[w]
        /\ \/ /\ IsPartial(w) /\ Goto(w, "releaseRead")
              /\ UNCHANGED <<status, refunded, jobs>>
           \/ /\ ~IsPartial(w) /\ status' = [status EXCEPT ![o] = "REFUNDED"]
              /\ refunded' = refunded \cup {o} /\ Return(w)
        /\ UNCHANGED <<paymentVars, dispute, tickets, released, blocked, sent, returned, callVars,
                       requests, faults>>
    BY <1>4 DEF RefundCommit, WithEvent, efiVars, boundVars
  <2>2. /\ ledger' \in [Orders -> [Accounts -> Int]]
        /\ \A p \in Orders \ {o} : ledger'[p] = ledger[p]
        /\ ledger'[o]["REVERSED"] = ledger[o]["REVERSED"] + amount[w]
        /\ ledger'[o]["BUYER"] = ledger[o]["BUYER"] + toBuyer
        /\ ledger'[o]["PAYOUT"] = ledger[o]["PAYOUT"]
    BY <1>1, <1>2, <2>1, RefundPost
  <2>3. /\ ledger[o]["REVERSED"] \in Int /\ ledger[o]["REVERSED"] >= 0
        /\ ledger[o]["BUYER"] \in Int /\ ledger[o]["BUYER"] >= 0
    BY <1>1 DEF IInv, RefundsOK, TableTypes, Accounts
  <2>4. /\ ledger'[o]["REVERSED"] > 0 /\ ledger'[o]["REVERSED"] >= 0
        /\ ledger'[o]["REVERSED"] >= ledger[o]["REVERSED"]
        /\ ledger'[o]["BUYER"] >= ledger[o]["BUYER"] /\ ledger'[o]["BUYER"] >= 0
    BY <1>2, <2>2, <2>3
  <2> HIDE DEF toBuyer
  <2>5. /\ HandlerTypes' /\ OthersRest(w) /\ on'[w] \in {on[w], None} /\ UNCHANGED contested
        /\ HandlerFacts(w)'
    <3>1. CASE IsPartial(w)
      <4>1. /\ HandlerTypes' /\ pc'[w] = "releaseRead" /\ OthersRest(w)
            /\ UNCHANGED <<kind, on, amount, cashout, absent, contested>>
        BY <1>1, <2>1, <3>1, GotoEffect DEF Pcs
      <4>2. ControlOK(w)' /\ KnowsOK(w)'
        BY <2>4, <3>1, <4>1 DEF ControlOK, KnowsOK, InRelease, InRefund, InChargeback, OfDispute,
                                IsPartial
      <4>3. AloneOK(w)'
        BY <4>1 DEF AloneOK, InRelease, InRefund, OthersRest, IInv
      <4>4. QED
        BY <4>1, <4>2, <4>3 DEF HandlerFacts
    <3>2. CASE ~IsPartial(w)
      BY <1>1, <1>2, <2>1, <2>4, <3>2, ReturnFacts
    <3>3. QED
      BY <3>1, <3>2
  <2>6. /\ commission' \in [Orders -> SUBSET {"EARNED", "REVERSED"}]
        /\ status' \in [Orders -> {"DELIVERED", "COMPLETED", "DISPUTED", "REFUNDED"}]
        /\ refunded' \subseteq Orders
    <3>1. commission' \in [Orders -> SUBSET {"EARNED", "REVERSED"}]
      BY <1>1, <2>1 DEF TableTypes
    <3>2. /\ status' \in [Orders -> {"DELIVERED", "COMPLETED", "DISPUTED", "REFUNDED"}]
          /\ refunded' \subseteq Orders
      BY <1>1, <2>1 DEF TableTypes
    <3>3. QED
      BY <3>1, <3>2
  <2>7. TypeOK'
    <3>1. TableTypes'
      BY <1>1, <2>1, <2>2, <2>6 DEF TableTypes
    <3>2. QED
      BY <2>5, <3>1 DEF TypeOK, HandlerTypes, TableTypes
  <2>8. Frame(w)
    <3>1. \A p \in Orders : Keeps(p)
      BY <1>1, <2>1, <2>2, <2>4 DEF Keeps, TableTypes, Accounts
    <3>2. \A p \in Orders \ {o} : Quiet(p)
      BY <2>1, <2>2 DEF Quiet
    <3>3. QED
      BY <2>5, <3>1, <3>2, OnOrder DEF Frame
  <2>9. OrderFacts'
    <3>1. RefundsOK'
      <4>1. \A p \in Orders : ledger'[p]["REVERSED"] >= 0 /\ ledger'[p]["BUYER"] >= 0
        <5>1. \A p \in Orders \ {o} : ledger'[p]["REVERSED"] >= 0 /\ ledger'[p]["BUYER"] >= 0
          BY <2>2 DEF IInv, RefundsOK
        <5>2. ledger'[o]["REVERSED"] >= 0 /\ ledger'[o]["BUYER"] >= 0
          BY <2>4
        <5>3. QED
          BY <5>1, <5>2
      <4>2. \A p \in refunded' : ledger'[p]["REVERSED"] > 0
        <5>1. refunded' \in {refunded, refunded \cup {o}}
          BY <2>1
        <5>2. \A p \in Orders \ {o} : ledger'[p] = ledger[p]
          BY <2>2
        <5>3. QED
          BY <1>1, <2>4, <5>1, <5>2 DEF IInv, RefundsOK, TableTypes
      <4>3. \A p \in refunded' \ contested' : status'[p] = "REFUNDED"
        BY <1>1, <2>1, <2>5 DEF IInv, RefundsOK, TableTypes
      <4>4. QED
        BY <4>1, <4>2, <4>3 DEF RefundsOK
    <3>2. DisputeBacked'
      BY <1>1, <2>1, <2>2, <2>4 DEF IInv, DisputeBacked, TableTypes
    <3>3. PayoutIsSent'
      BY <2>1, <2>2 DEF IInv, PayoutIsSent
    <3>4. RefundIsReal'
      <4>1. ~IsPartial(w) => IF provider[o] = "WALLET" THEN ledger'[o]["BUYER"] >= FullRefund(o)
                                                      ELSE FullRefund(o) > 0 => returned[o] > 0
        <5>1. CASE provider[o] = "EFI"
          BY <1>1, <5>1 DEF IInv, KnowsOK
        <5>2. CASE provider[o] = "WALLET" /\ ~IsPartial(w)
          <6>1. toBuyer = FullRefund(o)
            BY <5>2 DEF toBuyer
          <6>2. QED
            BY <1>2, <2>2, <2>3, <5>2, <6>1
        <5>3. QED
          BY <1>1, <5>1, <5>2 DEF TableTypes
      <4>2. ledger'[o]["BUYER"] >= ledger[o]["BUYER"] /\ FullRefund(o) \in Nat
        BY <1>1, <2>4 DEF TableTypes
      <4>3. ASSUME NEW p \in refunded', released'[p] = 0
            PROVE  IF provider'[p] = "WALLET" THEN ledger'[p]["BUYER"] >= FullRefund(p)'
                                              ELSE FullRefund(p)' > 0 => returned'[p] > 0
        <5>1. UNCHANGED <<provider, kept, released, returned>> /\ FullRefund(p)' = FullRefund(p)
          BY <2>1
        <5>2. CASE p # o
          BY <1>1, <2>1, <2>2, <4>3, <5>1, <5>2 DEF IInv, RefundIsReal, TableTypes
        <5>3. CASE p = o /\ o \notin refunded
          BY <2>1, <4>1, <4>3, <5>1, <5>3
        <5>4. CASE p = o /\ o \in refunded
          <6>1. IF provider[o] = "WALLET" THEN ledger[o]["BUYER"] >= FullRefund(o)
                                          ELSE FullRefund(o) > 0 => returned[o] > 0
            BY <4>3, <5>1, <5>4 DEF IInv, RefundIsReal
          <6> HIDE DEF FullRefund
          <6>2. QED
            BY <2>2, <2>3, <4>2, <5>1, <5>4, <6>1, <1>2
        <5>5. QED
          BY <5>2, <5>3, <5>4
      <4>4. QED
        BY <4>3 DEF RefundIsReal
    <3>5. CommissionBacked'
      <4>1. absent[w] => "EARNED" \in commission[o]
        BY <1>1 DEF IInv, KnowsOK
      <4>2. QED
        <5>1. /\ released' = released
              /\ \A p \in Orders \ {o} : ledger'[p] = ledger[p] /\ commission'[p] = commission[p]
              /\ commission'[o] \subseteq commission[o] \cup {"REVERSED"}
              /\ commission[o] \subseteq commission'[o]
              /\ "REVERSED" \in commission'[o] \ commission[o] => absent[w]
          BY <1>1, <2>1, <2>2 DEF TableTypes
        <5>2. QED
          BY <1>1, <2>4, <4>1, <5>1 DEF IInv, CommissionBacked
    <3>6. QED
      BY <3>1, <3>2, <3>3, <3>4, <3>5 DEF OrderFacts
  <2>10. QED
    BY <2>5, <2>7, <2>8, <2>9, FrameInductive
<1>5. QED
  BY <1>3, <1>4

LEMMA ChargebackCommitInductive ==
    ASSUME IInv, NEW w \in Workers, ChargebackCommit(w)
    PROVE  IInv'
<1> DEFINE o == on[w]
<1>1. pc[w] = "chargebackCommit" /\ o \in Orders /\ HandlerTypes /\ TableTypes
  BY TypeParts DEF ChargebackCommit, IInv, TypeOK
<1>2. released[o] > 0 /\ kind[w] \in {"refund", "disputeRefund"}
  BY <1>1 DEF IInv, ControlOK, KnowsOK, InChargeback
<1>3. CASE absent[w] /\ o \in tickets
  BY <1>1, <1>3, ThrowInductive DEF ChargebackCommit, boundVars, TableTypes
<1>4. CASE ~(absent[w] /\ o \in tickets)
  <2>1. /\ Post(o, RefundEntries("AVAILABLE", Price, 0))
        /\ tickets' = tickets \cup {o} /\ blocked' = TRUE
        /\ refunded' = refunded \cup {o}
        /\ status' = [status EXCEPT ![o] = "REFUNDED"]
        /\ Return(w)
        /\ UNCHANGED <<paymentVars, dispute, released, commission, sent, returned, callVars,
                       requests, faults>>
    BY <1>4 DEF ChargebackCommit, efiVars, boundVars
  <2>2. /\ ledger' \in [Orders -> [Accounts -> Int]]
        /\ \A p \in Orders \ {o} : ledger'[p] = ledger[p]
        /\ ledger'[o]["REVERSED"] = ledger[o]["REVERSED"] + Price
        /\ ledger'[o]["BUYER"] = ledger[o]["BUYER"] + 0
        /\ ledger'[o]["PAYOUT"] = ledger[o]["PAYOUT"]
    BY <1>1, <2>1, RefundPost
  <2>3. /\ ledger[o]["REVERSED"] \in Int /\ ledger[o]["REVERSED"] >= 0
        /\ ledger[o]["BUYER"] \in Int /\ ledger[o]["BUYER"] >= 0 /\ Price > 0
    BY <1>1 DEF IInv, RefundsOK, TableTypes, Accounts
  <2>4. /\ ledger'[o]["REVERSED"] > 0 /\ ledger'[o]["REVERSED"] >= ledger[o]["REVERSED"]
        /\ ledger'[o]["BUYER"] = ledger[o]["BUYER"]
    BY <2>2, <2>3
  <2>5. /\ HandlerTypes' /\ OthersRest(w) /\ on'[w] \in {on[w], None} /\ UNCHANGED contested
        /\ HandlerFacts(w)'
    BY <1>1, <1>2, <2>1, <2>4, ReturnFacts
  <2>6. TypeOK'
    <3>1. TableTypes'
      BY <1>1, <2>1, <2>2 DEF TableTypes
    <3>2. QED
      BY <2>5, <3>1 DEF TypeOK, HandlerTypes, TableTypes
  <2>7. Frame(w)
    <3>1. \A p \in Orders : Keeps(p)
      BY <1>1, <2>1, <2>2, <2>4 DEF Keeps, TableTypes, Accounts
    <3>2. \A p \in Orders \ {o} : Quiet(p)
      BY <2>1, <2>2 DEF Quiet
    <3>3. QED
      BY <2>5, <3>1, <3>2, OnOrder DEF Frame
  <2>8. OrderFacts'
    <3>1. RefundsOK'
      <4>1. \A p \in Orders : ledger'[p]["REVERSED"] >= 0 /\ ledger'[p]["BUYER"] >= 0
        BY <2>2, <2>3, <2>4 DEF IInv, RefundsOK
      <4>2. \A p \in refunded' : ledger'[p]["REVERSED"] > 0
        BY <1>1, <2>1, <2>2, <2>4 DEF IInv, RefundsOK, TableTypes
      <4>3. \A p \in refunded' \ contested' : status'[p] = "REFUNDED"
        BY <1>1, <2>1, <2>5 DEF IInv, RefundsOK, TableTypes
      <4>4. QED
        BY <4>1, <4>2, <4>3 DEF RefundsOK
    <3>2. DisputeBacked'
      BY <1>1, <2>1, <2>2, <2>4 DEF IInv, DisputeBacked, TableTypes
    <3>3. PayoutIsSent'
      BY <2>1, <2>2 DEF IInv, PayoutIsSent
    <3>4. RefundIsReal'
      BY <1>1, <1>2, <2>1, <2>2, <2>4 DEF IInv, RefundIsReal, TableTypes
    <3>5. CommissionBacked'
      BY <1>1, <2>1, <2>2, <2>4 DEF IInv, CommissionBacked, TableTypes
    <3>6. QED
      BY <3>1, <3>2, <3>3, <3>4, <3>5 DEF OrderFacts
  <2>9. QED
    BY <2>5, <2>6, <2>7, <2>8, FrameInductive
<1>5. QED
  BY <1>3, <1>4
-----------------------------------------------------------------------------
(* The invariant *)

LEMMA InitialLedger ==
    ASSUME Init, NEW o \in Orders
    PROVE  /\ ledger[o] \in [Accounts -> Int]
           /\ ledger[o]["HELD"] = Price /\ \A a \in Accounts \ {"HELD"} : ledger[o][a] = 0
<1>1. ledger[o] = [a \in Accounts |-> IF a = "HELD" THEN Price ELSE 0]
  BY DEF Init
<1>2. Price \in Int /\ "HELD" \in Accounts
  BY DEF Accounts
<1>3. QED
  BY <1>1, <1>2

LEMMA InitInductive == Init => IInv
<1> SUFFICES ASSUME Init
             PROVE  IInv
  OBVIOUS
<1>1. \A o \in Orders : /\ ledger[o] \in [Accounts -> Int]
                        /\ \A a \in Accounts \ {"HELD"} : ledger[o][a] = 0
  BY InitialLedger
<1>2. {"REVERSED", "BUYER", "PAYOUT"} \subseteq Accounts \ {"HELD"}
  BY DEF Accounts
<1>3. TypeOK
  <2>1. ledger \in [Orders -> [Accounts -> Int]]
    BY <1>1 DEF Init
  <2>2. HandlerTypes
    BY DEF Init, HandlerTypes, Pcs, Kinds
  <2>3. auto \subseteq Orders /\ kept \in [Orders -> Nat]
    BY DEF Init
  <2>4. TableTypes
    BY <2>1, <2>3 DEF Init, TableTypes
  <2>5. QED
    BY <2>2, <2>4, TypeParts
<1>4. \A w \in Workers : HandlerFacts(w)
  BY DEF Init, HandlerFacts, ControlOK, KnowsOK, AloneOK, InRelease, InRefund, InChargeback,
         OfDispute, IsPartial
<1>5. OrderFacts
  BY <1>1, <1>2 DEF Init, OrderFacts, RefundsOK, DisputeBacked, PayoutIsSent, RefundIsReal,
                    CommissionBacked
<1>6. QED
  BY <1>3, <1>4, <1>5 DEF IInv, HandlerFacts, OrderFacts

LEMMA StepInductive ==
    ASSUME IInv, NEW w \in Workers, Step(w)
    PROVE  IInv'
BY CompleteDisputedInductive, FinalizeDisputeInductive, ReleaseReadInductive, CashOutInductive,
   ReleaseCheckInductive, FindInductive, ReleaseCommitInductive, PartialReadInductive,
   RefundReadInductive, RefundPixInductive, RefundCommitInductive, ChargebackCommitInductive
   DEF Step

LEMMA NextInductive ==
    ASSUME IInv, [Next]_vars
    PROVE  IInv'
<1>1. CASE \E w \in Workers : Step(w) \/ Fail(w) \/ \E o \in Orders : Operation(w, o)
  BY <1>1, StepInductive, FailInductive, OperationInductive
<1>2. CASE \E o \in Orders : Outside(o)
  BY <1>2, OutsideOrderInductive
<1>3. CASE \E b \in BOOLEAN : SetPayoutBlock(b)
  BY <1>3, SetPayoutBlockInductive
<1>4. CASE UNCHANGED vars
  <2>1. UNCHANGED <<dbVars, efiVars, callVars, pc, localVars, contested, requests, faults, jobs>>
    BY <1>4 DEF vars, boundVars
  <2>2. TypeOK'
    BY <2>1 DEF IInv, TypeOK, dbVars, efiVars, localVars
  <2>3. \A o \in Orders : Keeps(o) /\ Quiet(o)
    BY <2>1, KeepsRest DEF IInv
  <2>4. OrderFacts'
    BY <2>1, OrderFactsRest DEF IInv, OrderFacts
  <2>5. QED
    BY <2>1, <2>2, <2>3, <2>4, OutsideInductive
<1>5. QED
  BY <1>1, <1>2, <1>3, <1>4 DEF Next, Outside

\* The strengthened invariant is inductive: what a handler in flight has read of its order
\* is still true when it writes, or two handlers are at work on that order.
THEOREM Inductive == Spec => []IInv
<1>1. IInv /\ [Next]_vars => IInv'
  BY NextInductive
<1>2. QED
  BY InitInductive, <1>1, PTL DEF Spec

\* Every reachable state is well typed, and a job handed out is being run.
THEOREM TypeCorrect == Spec => []TypeOK
<1>1. IInv => TypeOK
  BY DEF IInv
<1>2. QED
  BY Inductive, <1>1, PTL

\* The outcome finalizeDispute writes is in the ledger.
THEOREM DisputesAreBacked == Spec => []DisputeBacked
<1>1. IInv => DisputeBacked
  BY DEF IInv
<1>2. QED
  BY Inductive, <1>1, PTL

\* A payout in the ledger has been sent by the provider.
THEOREM PayoutsAreSent == Spec => []PayoutIsSent
<1>1. IInv => PayoutIsSent
  BY DEF IInv
<1>2. QED
  BY Inductive, <1>1, PTL

\* A payment REFUNDED before a release has returned to its buyer what the refund does not
\* keep, at any price and fee: of an order that costs no more than the fee, nothing.
THEOREM RefundsAreReal == Spec => []RefundIsReal
<1>1. IInv => RefundIsReal
  BY DEF IInv
<1>2. QED
  BY Inductive, <1>1, PTL

\* A commission is earned on a release, and reversed only if it was earned.
THEOREM CommissionsAreBacked == Spec => []CommissionBacked
<1>1. IInv => CommissionBacked
  BY DEF IInv
<1>2. QED
  BY Inductive, <1>1, PTL

-----------------------------------------------------------------------------
(* The ledger moves in three commits *)

\* A step that leaves the money of the orders where it is, and contests at most one.
Still == /\ UNCHANGED <<ledger, released, refunded>>
         /\ \/ UNCHANGED contested
            \/ \E o \in Orders : contested' = contested \cup {o}

LEMMA StartStill ==
    ASSUME NEW w \in Workers, NEW k, NEW o \in Orders, NEW a, NEW m, NEW label,
           Start(w, k, o, a, m, label), UNCHANGED dbVars
    PROVE  Still
BY DEF Start, Still, dbVars

LEMMA ThrowStill ==
    ASSUME NEW w \in Workers, Throw(w)
    PROVE  Still
BY DEF Throw, Leave, Still, dbVars

LEMMA ReturnContested ==
    ASSUME NEW w \in Workers, Return(w)
    PROVE  UNCHANGED contested
BY DEF Return, Goto, Leave

LEMMA StepStill ==
    ASSUME NEW w \in Workers, Step(w)
    PROVE  Still \/ ReleaseCommit(w) \/ RefundCommit(w) \/ ChargebackCommit(w)
<1> USE DEF Still, dbVars
<1>1. CASE CompleteDisputed(w)
  BY <1>1 DEF CompleteDisputed, Goto
<1>2. CASE FinalizeDispute(w)
  BY <1>2 DEF FinalizeDispute, Leave
<1>3. CASE ReleaseRead(w)
  BY <1>3, ThrowStill, ReturnContested DEF ReleaseRead
<1>4. CASE CashOut(w)
  BY <1>4 DEF CashOut, Goto
<1>5. CASE ReleaseCheck(w)
  BY <1>5, ReturnContested DEF ReleaseCheck, Goto
<1>6. CASE ReleaseFind(w) \/ RefundFind(w) \/ FindTicket(w)
  BY <1>6 DEF ReleaseFind, RefundFind, FindTicket
<1>7. CASE PartialRead(w)
  BY <1>7, ThrowStill DEF PartialRead, Goto
<1>8. CASE RefundRead(w)
  BY <1>8, ReturnContested DEF RefundRead, Goto
<1>9. CASE RefundPix(w)
  BY <1>9, ThrowStill DEF RefundPix, Goto
<1>10. QED
  BY <1>1, <1>2, <1>3, <1>4, <1>5, <1>6, <1>7, <1>8, <1>9 DEF Step

LEMMA NextStill ==
    ASSUME [Next]_vars
    PROVE  \/ Still
           \/ \E w \in Workers : ReleaseCommit(w) \/ RefundCommit(w) \/ ChargebackCommit(w)
<1>1. ASSUME NEW w \in Workers, NEW o \in Orders, Operation(w, o)
      PROVE  Still
  <2>1. PICK k, a, m, label : Start(w, k, o, a, m, label) /\ UNCHANGED dbVars
    BY <1>1 DEF Operation, StartReleaseJob, AdminRelease, AdminRefund, ResolveDispute,
                StartRequest
  <2>2. QED
    BY <2>1, StartStill
<1>2. ASSUME NEW w \in Workers, Fail(w)
      PROVE  Still
  BY <1>2 DEF Fail, Leave, Still, dbVars
<1>3. CASE \E o \in Orders : Outside(o)
  BY <1>3 DEF Outside, ConfirmReceipt, AutoComplete, OpenDispute, Commit, CancelRelease,
              ScheduleRelease, Called, LoseCall, StallJob, Still, dbVars
<1>4. CASE \E b \in BOOLEAN : SetPayoutBlock(b)
  BY <1>4 DEF SetPayoutBlock, Still
<1>5. CASE UNCHANGED vars
  BY <1>5 DEF vars, dbVars, Still
<1>6. QED
  BY <1>1, <1>2, <1>3, <1>4, <1>5, StepStill DEF Next, Outside

LEMMA RefundCommitPosts ==
    ASSUME IInv, NEW w \in Workers, RefundCommit(w)
    PROVE  Throw(w) \/ \E toBuyer \in Int : Post(on[w], RefundEntries("HELD", amount[w], toBuyer))
<1>1. FullRefund(on[w]) \in Int /\ 0 \in Int
  BY DEF IInv, TypeOK, RefundCommit
<1> HIDE DEF FullRefund
<1>2. QED
  BY <1>1 DEF RefundCommit

LEMMA NextConserves ==
    ASSUME IInv, Conserved, [Next]_vars
    PROVE  Conserved'
<1> SUFFICES \A o \in Orders : Total(ledger'[o]) = Total(ledger[o])
  BY DEF Conserved, Total
<1>1. TableTypes
  BY TypeParts DEF IInv
<1>2. CASE Still
  BY <1>2 DEF Still
<1>3. ASSUME NEW w \in Workers, ReleaseCommit(w)
      PROVE  \A o \in Orders : Total(ledger'[o]) = Total(ledger[o])
  <2>1. /\ on[w] \in Orders /\ amount[w] \in Int /\ amount[w] > 0 /\ cashout[w] \in BOOLEAN
    BY <1>3 DEF IInv, TypeOK, ControlOK, InRelease, ReleaseCommit
  <2>2. Throw(w) \/ Post(on[w], ReleaseEntries(amount[w], cashout[w]))
    BY <1>3 DEF ReleaseCommit
  <2>3. QED
    BY <1>1, <2>1, <2>2, ThrowStill, ReleasePost DEF Still
<1>4. ASSUME NEW w \in Workers, RefundCommit(w)
      PROVE  \A o \in Orders : Total(ledger'[o]) = Total(ledger[o])
  <2>1. on[w] \in Orders /\ amount[w] \in Int
    BY <1>4 DEF IInv, TypeOK, RefundCommit
  <2>2. Throw(w) \/ \E toBuyer \in Int : Post(on[w], RefundEntries("HELD", amount[w], toBuyer))
    BY <1>4, RefundCommitPosts
  <2>3. QED
    BY <1>1, <2>1, <2>2, ThrowStill, RefundPost DEF Still
<1>5. ASSUME NEW w \in Workers, ChargebackCommit(w)
      PROVE  \A o \in Orders : Total(ledger'[o]) = Total(ledger[o])
  <2>1. on[w] \in Orders
    BY <1>5 DEF IInv, TypeOK, ChargebackCommit
  <2>2. Throw(w) \/ Post(on[w], RefundEntries("AVAILABLE", Price, 0))
    BY <1>5 DEF ChargebackCommit
  <2>3. QED
    BY <1>1, <2>1, <2>2, ThrowStill, RefundPost DEF Still
<1>6. QED
  BY <1>2, <1>3, <1>4, <1>5, NextStill

\* The ledger entries of an order add up to what was paid for it, whatever overlaps.
THEOREM LedgerIsConserved == Spec => []Conserved
<1>1. Init => Conserved
  <2> SUFFICES ASSUME Init, NEW o \in Orders
               PROVE  Total(ledger[o]) = Price
    BY DEF Conserved, Total
  <2>1. /\ ledger[o]["HELD"] = Price /\ ledger[o]["AVAILABLE"] = 0 /\ ledger[o]["FEE"] = 0
        /\ ledger[o]["PAYOUT"] = 0 /\ ledger[o]["REVERSED"] = 0
    BY InitialLedger DEF Accounts
  <2>2. QED
    BY <2>1 DEF Total
<1>2. IInv /\ Conserved /\ [Next]_vars => Conserved'
  BY NextConserves
<1>3. QED
  BY Inductive, <1>1, <1>2, PTL DEF Spec

-----------------------------------------------------------------------------
(* The settlement implements module Escrow *)

\* Only the money of order o moves, and no order is contested.
Moves(o) ==
    /\ UNCHANGED contested
    /\ \A p \in Orders \ {o} : /\ ledger'[p] = ledger[p] /\ released'[p] = released[p]
                               /\ p \in refunded' <=> p \in refunded

LEMMA PhaseRests ==
    ASSUME NEW o, Moves(o), NEW p \in Orders \ {o}
    PROVE  PhaseOf(p)' = PhaseOf(p) /\ ledger'[p]["HELD"] = ledger[p]["HELD"]
BY DEF Moves, PhaseOf

\* Module Escrow's Move, by what it is of the settlement's variables.
MovesTo(o, to, e) ==
    /\ [p \in Orders |-> PhaseOf(p)]' = [[p \in Orders |-> PhaseOf(p)] EXCEPT ![o] = to]
    /\ [p \in Orders |-> ledger[p]["HELD"]]'
         = [[p \in Orders |-> ledger[p]["HELD"]] EXCEPT ![o] = e]
    /\ UNCHANGED contested

LEMMA MovesPromise ==
    ASSUME NEW o \in Orders, Moves(o),
           NEW to, to = PhaseOf(o)', NEW e, e = ledger'[o]["HELD"]
    PROVE  MovesTo(o, to, e)
BY PhaseRests DEF Moves, MovesTo

LEMMA ContestedPromise ==
    ASSUME NEW o \in Orders, o \in contested, Moves(o)
    PROVE  Promise!Next
<1>1. Promise!Anything(o)
  BY PhaseRests DEF Promise!Anything, Moves
<1>2. QED
  BY <1>1 DEF Promise!Next

LEMMA StillPromise ==
    ASSUME IInv, Still, contested' \subseteq Orders
    PROVE  [Promise!Next]_(Promise!vars)
<1>1. [o \in Orders |-> PhaseOf(o)]' = [o \in Orders |-> PhaseOf(o)]
  BY DEF Still, PhaseOf
<1>2. [o \in Orders |-> ledger[o]["HELD"]]' = [o \in Orders |-> ledger[o]["HELD"]]
  BY DEF Still
<1>3. CASE UNCHANGED contested
  BY <1>1, <1>2, <1>3 DEF Promise!vars
<1>4. CASE \E o \in Orders : contested' = contested \cup {o}
  BY <1>1, <1>2, <1>4 DEF Promise!Next, Promise!Contend
<1>5. QED
  BY <1>3, <1>4 DEF Still

LEMMA ReleasePromise ==
    ASSUME IInv, NEW w \in Workers, ReleaseCommit(w), contested' \subseteq Orders
    PROVE  [Promise!Next]_(Promise!vars)
<1>0. PICK o \in Orders : o = on[w]
  BY DEF IInv, TypeOK, ReleaseCommit
<1>1. /\ pc[w] = "releaseCommit" /\ TableTypes
      /\ amount[w] \in Int /\ amount[w] > 0 /\ cashout[w] \in BOOLEAN
  BY <1>0, TypeParts DEF ReleaseCommit, IInv, TypeOK, ControlOK, InRelease
<1>2. CASE Throw(w)
  BY <1>2, ThrowStill, StillPromise
<1>3. CASE ~Throw(w)
  <2>1. /\ Post(o, ReleaseEntries(amount[w], cashout[w]))
        /\ released' = [released EXCEPT ![o] = @ + 1]
        /\ Return(w) /\ UNCHANGED refunded
    BY <1>0, <1>3 DEF ReleaseCommit
  <2>2. /\ \A p \in Orders \ {o} : ledger'[p] = ledger[p]
        /\ ledger'[o]["HELD"] = ledger[o]["HELD"] - amount[w]
    BY <1>1, <2>1, ReleasePost
  <2>3. Moves(o) /\ released'[o] = released[o] + 1
    BY <1>1, <2>1, <2>2, ReturnContested DEF Moves, TableTypes
  <2>4. CASE o \in contested
    BY <1>1, <2>3, <2>4, ContestedPromise
  <2>5. CASE o \notin contested
    <3>1. amount[w] = ledger[o]["HELD"] /\ released[o] = 0 /\ o \notin refunded
      BY <1>0, <1>1, <2>5 DEF IInv, AloneOK, InRelease
    <3>2. PhaseOf(o) = "held" /\ PhaseOf(o)' = "released" /\ ledger'[o]["HELD"] = 0
      BY <1>1, <2>1, <2>2, <2>3, <3>1 DEF PhaseOf
    <3>3. MovesTo(o, "released", 0)
      BY <1>1, <2>3, <3>2, MovesPromise
    <3>4. Promise!Release(o)
      BY <1>1, <3>1, <3>2, <3>3 DEF Promise!Release, Promise!Move, MovesTo
    <3>5. QED
      BY <1>1, <3>4 DEF Promise!Next
  <2>6. QED
    BY <2>4, <2>5
<1>4. QED
  BY <1>2, <1>3

LEMMA RefundPromise ==
    ASSUME IInv, NEW w \in Workers, RefundCommit(w), contested' \subseteq Orders
    PROVE  [Promise!Next]_(Promise!vars)
<1>0. PICK o \in Orders : o = on[w]
  BY DEF IInv, TypeOK, RefundCommit
<1>1. /\ pc[w] = "refundCommit" /\ TableTypes
      /\ amount[w] \in Int /\ amount[w] > 0 /\ ledger[o]["HELD"] \in Int
  BY <1>0, TypeParts DEF RefundCommit, IInv, TypeOK, ControlOK, InRefund, Accounts
<1>2. CASE Throw(w)
  BY <1>2, ThrowStill, StillPromise
<1>3. CASE ~Throw(w)
  <2>0. \E toBuyer \in Int : Post(o, RefundEntries("HELD", amount[w], toBuyer))
    BY <1>0, <1>3, RefundCommitPosts
  <2>1. /\ \E toBuyer \in Int : Post(o, RefundEntries("HELD", amount[w], toBuyer))
        /\ refunded' = IF IsPartial(w) THEN refunded ELSE refunded \cup {o}
        /\ UNCHANGED <<released, contested>>
    BY <1>0, <1>3, <2>0, ReturnContested DEF RefundCommit, Goto
  <2>2. /\ \A p \in Orders \ {o} : ledger'[p] = ledger[p]
        /\ ledger'[o]["HELD"] = ledger[o]["HELD"] - amount[w]
    BY <1>1, <2>1, RefundPost
  <2>3. Moves(o)
    BY <2>1, <2>2 DEF Moves
  <2>4. CASE o \in contested
    BY <1>1, <2>3, <2>4, ContestedPromise
  <2>5. CASE o \notin contested
    <3>1. PhaseOf(o) = "held" /\ released[o] = 0 /\ o \notin refunded
      BY <1>0, <1>1, <2>5 DEF IInv, AloneOK, InRefund, PhaseOf
    <3>2. CASE IsPartial(w)
      <4>1. amount[w] <= ledger[o]["HELD"]
        BY <1>0, <1>1, <2>5, <3>2 DEF IInv, AloneOK, InRefund
      <4>2. PhaseOf(o)' = "held"
        BY <2>1, <3>1, <3>2 DEF PhaseOf
      <4>3. PICK part \in 1..ledger[o]["HELD"] : part = amount[w]
        BY <1>1, <4>1
      <4>4. MovesTo(o, "held", ledger'[o]["HELD"])
        BY <2>3, <4>2, MovesPromise DEF MovesTo
      <4>5. Promise!PartialRefund(o)
        BY <2>2, <3>1, <4>3, <4>4 DEF Promise!PartialRefund, Promise!Move, MovesTo
      <4>6. QED
        BY <1>1, <4>5 DEF Promise!Next
    <3>3. CASE ~IsPartial(w)
      <4>1. amount[w] = Price
        BY <1>0, <1>1, <3>3 DEF IInv, ControlOK, InRefund
      <4>2. PhaseOf(o)' = "refunded"
        BY <2>1, <3>1, <3>3 DEF PhaseOf
      <4>3. MovesTo(o, "refunded", ledger'[o]["HELD"])
        BY <2>3, <4>2, MovesPromise DEF MovesTo
      <4>4. Promise!Refund(o)
        BY <2>2, <3>1, <4>1, <4>3 DEF Promise!Refund, Promise!Move, MovesTo
      <4>5. QED
        BY <1>1, <4>4 DEF Promise!Next
    <3>4. QED
      BY <3>2, <3>3
  <2>6. QED
    BY <2>4, <2>5
<1>4. QED
  BY <1>2, <1>3

LEMMA ChargebackPromise ==
    ASSUME IInv, NEW w \in Workers, ChargebackCommit(w), contested' \subseteq Orders
    PROVE  [Promise!Next]_(Promise!vars)
<1>0. PICK o \in Orders : o = on[w]
  BY DEF IInv, TypeOK, ChargebackCommit
<1>1. /\ pc[w] = "chargebackCommit" /\ TableTypes /\ released[o] > 0
  BY <1>0, TypeParts DEF ChargebackCommit, IInv, TypeOK, KnowsOK, InChargeback
<1>2. CASE Throw(w)
  BY <1>2, ThrowStill, StillPromise
<1>3. CASE ~Throw(w)
  <2>1. /\ Post(o, RefundEntries("AVAILABLE", Price, 0))
        /\ refunded' = refunded \cup {o}
        /\ UNCHANGED <<released, contested>>
    BY <1>0, <1>3, ReturnContested DEF ChargebackCommit
  <2>2. /\ \A p \in Orders \ {o} : ledger'[p] = ledger[p]
        /\ ledger'[o]["HELD"] = ledger[o]["HELD"] - 0
        /\ ledger[o]["HELD"] \in Int
    BY <1>1, <2>1, RefundPost DEF TableTypes, Accounts
  <2>3. Moves(o) /\ ledger'[o]["HELD"] = ledger[o]["HELD"]
    BY <2>1, <2>2 DEF Moves
  <2>4. PhaseOf(o)' = "chargedBack"
    BY <1>1, <2>1 DEF PhaseOf
  <2>5. CASE o \notin refunded
    <3>1. PhaseOf(o) = "released"
      BY <1>1, <2>5 DEF PhaseOf
    <3>2. MovesTo(o, "chargedBack", ledger'[o]["HELD"])
      BY <2>3, <2>4, MovesPromise DEF MovesTo
    <3>3. Promise!ManualChargeback(o)
      BY <2>3, <3>1, <3>2 DEF Promise!ManualChargeback, Promise!Move, MovesTo
    <3>4. QED
      BY <3>3 DEF Promise!Next
  <2>6. CASE o \in refunded
    <3>2. PhaseOf(o) = PhaseOf(o)'
      BY <1>1, <2>4, <2>6 DEF PhaseOf
    <3>3. /\ [p \in Orders |-> PhaseOf(p)]' = [p \in Orders |-> PhaseOf(p)]
          /\ [p \in Orders |-> ledger[p]["HELD"]]' = [p \in Orders |-> ledger[p]["HELD"]]
      BY <2>3, <3>2, PhaseRests
    <3>4. QED
      BY <2>1, <3>3 DEF Promise!vars
  <2>7. QED
    BY <2>5, <2>6
<1>4. QED
  BY <1>2, <1>3

\* While no two operations are at work on an order, its escrow is held, refunded in part,
\* and leaves once: every step of a handler is a step of module Escrow or leaves it alone.
THEOREM EscrowKept == Spec => EscrowPromise
<1>1. Init => Promise!Init
  <2> SUFFICES ASSUME Init
               PROVE  Promise!Init
    OBVIOUS
  <2>1. ASSUME NEW o \in Orders
        PROVE  PhaseOf(o) = "held" /\ ledger[o]["HELD"] = Price
    <3>1. ~(released[o] > 0) /\ o \notin refunded
      BY DEF Init
    <3>2. QED
      BY <3>1, InitialLedger DEF PhaseOf
  <2>2. QED
    BY <2>1 DEF Init, Promise!Init
<1>2. IInv /\ [Next]_vars => [Promise!Next]_(Promise!vars)
  <2> SUFFICES ASSUME IInv, [Next]_vars
               PROVE  [Promise!Next]_(Promise!vars)
    OBVIOUS
  <2>1. contested' \subseteq Orders
    BY NextInductive DEF IInv, TypeOK
  <2>2. QED
    BY <2>1, NextStill, StillPromise, ReleasePromise, RefundPromise, ChargebackPromise
<1>3. QED
  BY Inductive, <1>1, <1>2, PTL DEF Spec, EscrowPromise, Promise!Spec

-----------------------------------------------------------------------------
(* Payouts agree with the provider *)

\* The handler has sent the seller's part and has not recorded it yet.
Sending(w) == /\ pc[w] \in {"releaseCheck", "releaseFind", "releaseCommit"}
              /\ cashout[w] /\ amount[w] > FeeOf(amount[w])

\* The cash-out is reached only with something to send.
SendsOK(w) == pc[w] = "cashOut" => cashout[w] /\ amount[w] > FeeOf(amount[w])

\* What was sent for an order is in its ledger or in the hands of the one handler that
\* works on it.
AgreesOn(o) ==
    faults = 0 /\ o \notin contested =>
        /\ released[o] = 0 => ledger[o]["PAYOUT"] = 0
        /\ \A w \in Workers : on[w] = o /\ Sending(w) => sent[o] = amount[w] - FeeOf(amount[w])
        /\ (\A w \in Workers : on[w] = o => ~Sending(w)) => sent[o] = ledger[o]["PAYOUT"]

AgreeOK == (\A w \in Workers : SendsOK(w)) /\ (\A o \in Orders : AgreesOn(o))

\* AgreesOn, for the order of a handler that is alone on it.
AgreesFor(w) ==
    faults = 0 /\ on[w] \notin contested =>
        /\ released[on[w]] = 0 => ledger[on[w]]["PAYOUT"] = 0
        /\ sent[on[w]] = IF Sending(w) THEN amount[w] - FeeOf(amount[w]) ELSE ledger[on[w]]["PAYOUT"]

LEMMA AgreeHere ==
    ASSUME IInv, AgreeOK, NEW w \in Workers, on[w] \in Orders
    PROVE  AgreesFor(w)
<1>1. AgreesOn(on[w])
  BY DEF AgreeOK
<1>2. on[w] \notin contested => \A v \in Workers \ {w} : on[v] # on[w]
  BY DEF IInv, AloneOK
<1>3. QED
  BY <1>1, <1>2 DEF AgreesOn, AgreesFor

\* A handler's step keeps the agreement if it does so for the handler's own order.
LEMMA AgreeFrame ==
    ASSUME IInv, AgreeOK, NEW w \in Workers, on[w] \in Orders, on'[w] \in {on[w], None},
           OthersRest(w), UNCHANGED <<contested, faults>>, SendsOK(w)',
           \A p \in Orders \ {on[w]} : /\ ledger'[p]["PAYOUT"] = ledger[p]["PAYOUT"]
                                       /\ released'[p] = released[p] /\ sent'[p] = sent[p],
           faults = 0 /\ on[w] \notin contested =>
               /\ released'[on[w]] = 0 => ledger'[on[w]]["PAYOUT"] = 0
               /\ Sending(w)' => on'[w] = on[w]
               /\ sent'[on[w]] = IF Sending(w)' THEN amount'[w] - FeeOf(amount'[w])
                                                ELSE ledger'[on[w]]["PAYOUT"]
    PROVE  AgreeOK'
<1>1. \A v \in Workers : SendsOK(v)'
  BY DEF AgreeOK, SendsOK, OthersRest
<1>2. \A v \in Workers \ {w} : on'[v] = on[v] /\ amount'[v] = amount[v] /\ (Sending(v)' <=> Sending(v))
  BY DEF OthersRest, Sending
<1>3. ASSUME NEW p \in Orders, faults' = 0, p \notin contested'
      PROVE  /\ released'[p] = 0 => ledger'[p]["PAYOUT"] = 0
             /\ \A v \in Workers : on'[v] = p /\ Sending(v)' => sent'[p] = amount'[v] - FeeOf(amount'[v])
             /\ (\A v \in Workers : on'[v] = p => ~Sending(v)') => sent'[p] = ledger'[p]["PAYOUT"]
  <2>1. CASE p = on[w]
    <3>1. \A v \in Workers \ {w} : on[v] # on[w]
      BY <1>3, <2>1 DEF IInv, AloneOK
    <3>2. QED
      BY <1>2, <1>3, <2>1, <3>1
  <2>2. CASE p # on[w]
    <3>1. on'[w] # p
      BY <2>2
    <3>2. AgreesOn(p)
      BY DEF AgreeOK
    <3>3. QED
      BY <1>2, <1>3, <2>2, <3>1, <3>2 DEF AgreesOn
  <2>3. QED
    BY <2>1, <2>2
<1>4. \A p \in Orders : AgreesOn(p)'
  BY <1>3 DEF AgreesOn
<1>5. QED
  BY <1>1, <1>4 DEF AgreeOK

\* Most steps neither send nor record a payout.
LEMMA AgreeStill ==
    ASSUME IInv, AgreeOK, NEW w \in Workers, on[w] \in Orders, on'[w] \in {on[w], None},
           OthersRest(w), UNCHANGED <<contested, faults, released, sent>>,
           pc[w] \notin {"releaseCheck", "releaseFind", "releaseCommit"},
           pc'[w] \notin {"cashOut", "releaseCheck", "releaseFind", "releaseCommit"},
           \A p \in Orders : ledger'[p]["PAYOUT"] = ledger[p]["PAYOUT"]
    PROVE  AgreeOK'
<1>1. ~Sending(w) /\ ~Sending(w)' /\ SendsOK(w)'
  BY DEF Sending, SendsOK
<1>2. AgreesFor(w)
  BY AgreeHere
<1>3. QED
  BY <1>1, <1>2, AgreeFrame DEF AgreesFor

\* Nor does a step that leaves every table, every job in hand and the agreement's rows alone.
LEMMA AgreeRests ==
    ASSUME AgreeOK, UNCHANGED <<pc, localVars, contested, faults, ledger, released, sent>>
    PROVE  AgreeOK'
BY DEF AgreeOK, SendsOK, AgreesOn, Sending, localVars

LEMMA ReleaseReadAgrees ==
    ASSUME IInv, AgreeOK, NEW w \in Workers, ReleaseRead(w)
    PROVE  AgreeOK'
<1>1. pc[w] = "releaseRead" /\ on[w] \in Orders /\ HandlerTypes /\ TableTypes
      /\ UNCHANGED <<efiVars, callVars, boundVars>>
  BY TypeParts DEF IInv, TypeOK, ReleaseRead
<1>2. CASE Throw(w) \/ (Return(w) /\ UNCHANGED dbVars)
  <2>1. /\ OthersRest(w) /\ UNCHANGED <<contested, dbVars>> /\ on'[w] \in {on[w], None}
        /\ pc'[w] \in {"idle", "finalize"}
    BY <1>1, <1>2, ThrowEffect, ReturnEffect
  <2>2. QED
    BY <1>1, <2>1, AgreeStill DEF efiVars, boundVars, dbVars
<1>3. CASE ~(Throw(w) \/ (Return(w) /\ UNCHANGED dbVars))
  <2> DEFINE held == ledger[on[w]]["HELD"]
  <2>1. PICK byPix \in BOOLEAN :
            /\ amount' = [amount EXCEPT ![w] = held]
            /\ cashout' = [cashout EXCEPT ![w] = byPix]
            /\ pc' = [pc EXCEPT ![w] = IF byPix /\ held > FeeOf(held) THEN "cashOut"
                                                                     ELSE "releaseCheck"]
            /\ UNCHANGED <<dbVars, kind, on, absent, contested, jobs>>
    BY <1>1, <1>3 DEF ReleaseRead
  <2>2. /\ amount'[w] = held /\ cashout'[w] = byPix
        /\ pc'[w] = IF byPix /\ held > FeeOf(held) THEN "cashOut" ELSE "releaseCheck"
        /\ OthersRest(w) /\ on' = on
    BY <1>1, <2>1 DEF HandlerTypes, OthersRest
  <2> HIDE DEF held
  <2>3. SendsOK(w)' /\ ~Sending(w)' /\ ~Sending(w)
    BY <1>1, <2>2 DEF SendsOK, Sending
  <2>4. AgreesFor(w)
    BY <1>1, AgreeHere
  <2>5. QED
    BY <1>1, <2>1, <2>2, <2>3, <2>4, AgreeFrame DEF AgreesFor, efiVars, boundVars, dbVars
<1>4. QED
  BY <1>2, <1>3

LEMMA CashOutAgrees ==
    ASSUME IInv, AgreeOK, NEW w \in Workers, CashOut(w)
    PROVE  AgreeOK'
<1>1. /\ pc[w] = "cashOut" /\ on[w] \in Orders /\ HandlerTypes /\ TableTypes
      /\ sent' = [sent EXCEPT ![on[w]] = IF @ = 0 THEN amount[w] - FeeOf(amount[w]) ELSE @]
      /\ UNCHANGED <<dbVars, boundVars>>
  BY TypeParts DEF IInv, TypeOK, CashOut
<1>2. /\ pc'[w] = "releaseCheck" /\ OthersRest(w)
      /\ UNCHANGED <<kind, on, amount, cashout, absent, contested>>
  BY <1>1, GotoEffect DEF CashOut, Pcs
<1>3. Sending(w)' /\ ~Sending(w) /\ SendsOK(w)'
  BY <1>1, <1>2 DEF AgreeOK, SendsOK, Sending
<1>4. AgreesFor(w)
  BY <1>1, AgreeHere
<1>5. on[w] \notin contested => released[on[w]] = 0
  BY <1>1 DEF IInv, AloneOK, InRelease
<1>6. \A p \in Orders \ {on[w]} : sent'[p] = sent[p]
  BY <1>1 DEF TableTypes
<1>7. faults = 0 /\ on[w] \notin contested => sent'[on[w]] = amount[w] - FeeOf(amount[w])
  BY <1>1, <1>3, <1>4, <1>5 DEF AgreesFor, TableTypes
<1>8. QED
  BY <1>1, <1>2, <1>3, <1>4, <1>6, <1>7, AgreeFrame DEF AgreesFor, dbVars, boundVars

LEMMA ReleaseCheckAgrees ==
    ASSUME IInv, AgreeOK, NEW w \in Workers, ReleaseCheck(w)
    PROVE  AgreeOK'
<1>1. /\ pc[w] = "releaseCheck" /\ on[w] \in Orders /\ HandlerTypes
      /\ UNCHANGED <<dbVars, efiVars, callVars, boundVars>>
  BY TypeParts DEF IInv, TypeOK, ReleaseCheck
<1>2. on[w] \notin contested => released[on[w]] = 0
  BY <1>1 DEF IInv, AloneOK, InRelease
<1>3. AgreesFor(w)
  BY <1>1, AgreeHere
<1>4. CASE released[on[w]] > 0
  <2>1. /\ OthersRest(w) /\ UNCHANGED contested /\ on'[w] \in {on[w], None}
        /\ pc'[w] \in {"idle", "finalize"}
    BY <1>1, <1>4, ReturnEffect DEF ReleaseCheck
  <2>2. SendsOK(w)' /\ on[w] \in contested
    BY <1>2, <1>4, <2>1 DEF SendsOK
  <2>3. QED
    BY <1>1, <2>1, <2>2, AgreeFrame DEF dbVars, efiVars, boundVars
<1>5. CASE ~(released[on[w]] > 0)
  <2>1. PICK label \in {"releaseFind", "releaseCommit"} : Goto(w, label) /\ UNCHANGED jobs
    BY <1>1, <1>5 DEF ReleaseCheck
  <2>2. /\ pc'[w] = label /\ OthersRest(w)
        /\ UNCHANGED <<kind, on, amount, cashout, absent, contested>>
    BY <1>1, <2>1, GotoEffect DEF Pcs
  <2>3. SendsOK(w)' /\ (Sending(w)' <=> Sending(w))
    BY <1>1, <2>2 DEF SendsOK, Sending
  <2>4. QED
    BY <1>1, <1>3, <2>2, <2>3, AgreeFrame DEF AgreesFor, dbVars, efiVars, boundVars
<1>6. QED
  BY <1>4, <1>5

LEMMA ReleaseFindAgrees ==
    ASSUME IInv, AgreeOK, NEW w \in Workers, ReleaseFind(w)
    PROVE  AgreeOK'
<1>1. /\ pc[w] = "releaseFind" /\ on[w] \in Orders /\ pc'[w] = "releaseCommit" /\ OthersRest(w)
      /\ UNCHANGED <<dbVars, efiVars, callVars, boundVars, on, amount, cashout, contested>>
  BY DEF IInv, TypeOK, ReleaseFind, OthersRest
<1>2. SendsOK(w)' /\ (Sending(w)' <=> Sending(w))
  BY <1>1 DEF SendsOK, Sending
<1>3. AgreesFor(w)
  BY <1>1, AgreeHere
<1>4. QED
  BY <1>1, <1>2, <1>3, AgreeFrame DEF AgreesFor, dbVars, efiVars, boundVars

LEMMA ReleaseCommitAgrees ==
    ASSUME IInv, AgreeOK, NEW w \in Workers, ReleaseCommit(w)
    PROVE  AgreeOK'
<1>1. /\ pc[w] = "releaseCommit" /\ on[w] \in Orders /\ HandlerTypes /\ TableTypes
      /\ UNCHANGED <<efiVars, callVars, boundVars>>
      /\ amount[w] \in Int /\ amount[w] > 0 /\ cashout[w] \in BOOLEAN
  BY TypeParts DEF IInv, TypeOK, ReleaseCommit, ControlOK, InRelease
<1>2. on[w] \notin contested => released[on[w]] = 0
  BY <1>1 DEF IInv, AloneOK, InRelease
<1>3. AgreesFor(w)
  BY <1>1, AgreeHere
<1>4. on[w] \notin contested => Insertable(w, "EARNED")
  BY <1>1, <1>2 DEF IInv, CommissionBacked, Insertable
<1>5. CASE Throw(w)
  <2>1. /\ OthersRest(w) /\ UNCHANGED <<contested, dbVars>> /\ on'[w] = None /\ pc'[w] = "idle"
    BY <1>1, <1>5, ThrowEffect
  <2>2. released' = released /\ ledger' = ledger
    BY <2>1 DEF dbVars
  <2>3. on[w] \in contested
    <3>1. CASE Insertable(w, "EARNED")
      BY <1>1, <2>2, <3>1 DEF ReleaseCommit, TableTypes
    <3>2. QED
      BY <1>4, <3>1
  <2>4. SendsOK(w)'
    BY <2>1 DEF SendsOK
  <2>5. QED
    BY <1>1, <2>1, <2>2, <2>3, <2>4, AgreeFrame DEF efiVars, boundVars
<1>6. CASE ~Throw(w)
  <2>1. /\ Post(on[w], ReleaseEntries(amount[w], cashout[w]))
        /\ released' = [released EXCEPT ![on[w]] = @ + 1]
        /\ Return(w)
    BY <1>1, <1>6 DEF ReleaseCommit
  <2>2. /\ OthersRest(w) /\ UNCHANGED contested /\ on'[w] \in {on[w], None}
        /\ pc'[w] \in {"idle", "finalize"}
    BY <1>1, <2>1, ReturnEffect
  <2>3. /\ \A p \in Orders \ {on[w]} : ledger'[p] = ledger[p] /\ released'[p] = released[p]
        /\ released'[on[w]] = released[on[w]] + 1
        /\ ledger'[on[w]]["PAYOUT"] = ledger[on[w]]["PAYOUT"]
              + IF cashout[w] THEN amount[w] - FeeOf(amount[w]) ELSE 0
    BY <1>1, <2>1, ReleasePost DEF TableTypes
  <2>4. SendsOK(w)' /\ ~Sending(w)'
    BY <2>2 DEF SendsOK, Sending
  <2>5. FeeOf(amount[w]) \in Int /\ FeeOf(amount[w]) <= amount[w]
    BY <1>1, FeeBounds
  <2>6. faults = 0 /\ on[w] \notin contested => sent[on[w]] = ledger'[on[w]]["PAYOUT"]
    BY <1>1, <1>2, <1>3, <2>3, <2>5 DEF AgreesFor, Sending
  <2>7. released[on[w]] \in Nat
    BY <1>1 DEF TableTypes
  <2>8. QED
    BY <1>1, <2>2, <2>3, <2>4, <2>6, <2>7, AgreeFrame DEF efiVars, boundVars
<1>7. QED
  BY <1>5, <1>6

\* The commits that refund leave what was paid out alone.
LEMMA RefundsAgree ==
    ASSUME IInv, AgreeOK, NEW w \in Workers, RefundCommit(w) \/ ChargebackCommit(w)
    PROVE  AgreeOK'
<1>1. /\ pc[w] \in {"refundCommit", "chargebackCommit"} /\ on[w] \in Orders
      /\ HandlerTypes /\ TableTypes /\ UNCHANGED <<efiVars, callVars, boundVars>> /\ amount[w] \in Int
  BY TypeParts DEF IInv, TypeOK, RefundCommit, ChargebackCommit
<1>2. /\ OthersRest(w) /\ UNCHANGED contested /\ on'[w] \in {on[w], None}
      /\ pc'[w] \in {"idle", "finalize", "releaseRead"}
  <2>1. CASE Throw(w) \/ Return(w)
    BY <1>1, <2>1, ThrowEffect, ReturnEffect
  <2>2. CASE Goto(w, "releaseRead") /\ UNCHANGED jobs
    BY <1>1, <2>2, GotoEffect DEF Pcs
  <2>3. QED
    BY <2>1, <2>2 DEF RefundCommit, ChargebackCommit
<1>3. released' = released
  BY DEF RefundCommit, ChargebackCommit, Throw, dbVars
<1>4. \A p \in Orders : ledger'[p]["PAYOUT"] = ledger[p]["PAYOUT"]
  <2>1. CASE Throw(w)
    BY <2>1 DEF Throw, dbVars
  <2>2. CASE \E from \in {"HELD", "AVAILABLE"}, x \in Int, toBuyer \in Int :
                Post(on[w], RefundEntries(from, x, toBuyer))
    BY <1>1, <2>2, RefundPost
  <2>3. CASE RefundCommit(w)
    BY <1>1, <2>1, <2>2, <2>3, RefundCommitPosts
  <2>4. CASE ChargebackCommit(w)
    BY <1>1, <2>1, <2>2, <2>4 DEF ChargebackCommit
  <2>5. QED
    BY <2>3, <2>4
<1>5. QED
  BY <1>1, <1>2, <1>3, <1>4, AgreeStill DEF efiVars, boundVars

\* Nor do the other steps of a handler.
LEMMA OtherStepsAgree ==
    ASSUME IInv, AgreeOK, NEW w \in Workers,
           \/ CompleteDisputed(w) \/ FinalizeDispute(w) \/ PartialRead(w) \/ RefundRead(w)
           \/ RefundPix(w) \/ RefundFind(w) \/ FindTicket(w)
    PROVE  AgreeOK'
<1>1. /\ pc[w] \in {"completeDisputed", "finalize", "partialRead", "refundRead", "refundPix",
                    "refundFind", "findTicket"}
      /\ on[w] \in Orders /\ HandlerTypes
      /\ UNCHANGED <<sent, ledger, released, boundVars>>
  BY TypeParts, ThrowEffect
     DEF IInv, TypeOK, CompleteDisputed, FinalizeDispute, PartialRead, RefundRead, RefundPix,
         RefundFind, FindTicket, Throw, dbVars, efiVars
<1>2. /\ OthersRest(w) /\ UNCHANGED contested /\ on'[w] \in {on[w], None}
      /\ pc'[w] \in {"idle", "finalize", "partialRead", "releaseRead", "refundPix",
                     "refundFind", "findTicket", "refundCommit", "chargebackCommit"}
  <2>1. CASE Throw(w) \/ Return(w)
    BY <1>1, <2>1, ThrowEffect, ReturnEffect
  <2>2. CASE Leave(w)
    BY <1>1, <2>2 DEF Leave, OthersRest, HandlerTypes
  <2>3. CASE \E label \in {"partialRead", "releaseRead", "refundPix", "refundFind", "findTicket"} :
                Goto(w, label)
    BY <1>1, <2>3 DEF Goto, OthersRest, HandlerTypes, localVars
  <2>4. CASE RefundRead(w) /\ ~Throw(w) /\ ~Return(w) /\ ~Goto(w, "findTicket")
    BY <1>1, <2>4 DEF RefundRead, OthersRest, HandlerTypes
  <2>5. CASE RefundFind(w) \/ FindTicket(w)
    BY <1>1, <2>5 DEF RefundFind, FindTicket, OthersRest, HandlerTypes
  <2>6. QED
    BY <2>1, <2>2, <2>3, <2>4, <2>5
       DEF CompleteDisputed, FinalizeDispute, PartialRead, RefundRead, RefundPix
<1>3. QED
  BY <1>1, <1>2, AgreeStill DEF boundVars

LEMMA OperationAgrees ==
    ASSUME IInv, AgreeOK, NEW w \in Workers, NEW o \in Orders, Operation(w, o)
    PROVE  AgreeOK'
<1>1. PICK k, a, m, label : /\ Start(w, k, o, a, m, label)
                            /\ label \in {"releaseRead", "refundRead", "completeDisputed"}
                            /\ UNCHANGED <<dbVars, efiVars, callVars, faults>>
  BY DEF Operation, StartReleaseJob, AdminRelease, AdminRefund, ResolveDispute, StartRequest,
         boundVars
<1>2. /\ pc'[w] = label /\ on'[w] = o /\ pc[w] = "idle" /\ contested \subseteq contested'
      /\ \A v \in Workers \ {w} : on[v] = o => o \in contested'
      /\ \A v \in Workers \ {w} : /\ pc'[v] = pc[v] /\ on'[v] = on[v]
                                  /\ amount'[v] = amount[v] /\ cashout'[v] = cashout[v]
  BY <1>1, TypeParts DEF Start, IInv, HandlerTypes
<1>3. ~Sending(w) /\ ~Sending(w)' /\ \A v \in Workers \ {w} : Sending(v)' <=> Sending(v)
  BY <1>1, <1>2 DEF Sending
<1>4. \A v \in Workers : SendsOK(v)'
  BY <1>1, <1>2 DEF AgreeOK, SendsOK
<1>5. ASSUME NEW p \in Orders
      PROVE  AgreesOn(p)'
  BY <1>1, <1>2, <1>3 DEF AgreeOK, AgreesOn, dbVars, efiVars
<1>6. QED
  BY <1>4, <1>5 DEF AgreeOK

\* A fault ends what is claimed.
LEMMA FaultAgrees ==
    ASSUME IInv, AgreeOK, \/ \E w \in Workers : Fail(w)
                          \/ \E o \in Orders : StallJob(o) \/ \E c \in Callers : LoseCall(c, o)
    PROVE  AgreeOK'
<1>1. faults' # 0
  <2>1. faults' = faults + 1
    BY DEF Fail, StallJob, LoseCall
  <2>2. faults \in Nat
    BY DEF IInv, TypeOK
  <2>3. QED
    BY <2>1, <2>2
<1>2. \A v \in Workers : SendsOK(v)'
  <2>1. CASE \E w \in Workers : Fail(w)
    BY <2>1, TypeParts DEF IInv, HandlerTypes, AgreeOK, SendsOK, Fail, Leave
  <2>2. CASE \E o \in Orders : StallJob(o) \/ \E c \in Callers : LoseCall(c, o)
    BY <2>2 DEF AgreeOK, SendsOK, StallJob, LoseCall, localVars
  <2>3. QED
    BY <2>1, <2>2
<1>3. QED
  BY <1>1, <1>2 DEF AgreeOK, AgreesOn

LEMMA NextAgrees ==
    ASSUME IInv, AgreeOK, [Next]_vars
    PROVE  AgreeOK'
<1>1. CASE \E w \in Workers : Step(w)
  BY <1>1, ReleaseReadAgrees, CashOutAgrees, ReleaseCheckAgrees, ReleaseFindAgrees,
     ReleaseCommitAgrees, RefundsAgree, OtherStepsAgree DEF Step
<1>2. CASE \E o \in Orders : \/ ConfirmReceipt(o) \/ AutoComplete(o) \/ OpenDispute(o)
                             \/ CancelRelease(o) \/ \E c \in Callers : ScheduleRelease(c, o)
  BY <1>2, AgreeRests
     DEF ConfirmReceipt, AutoComplete, OpenDispute, Commit, CancelRelease, ScheduleRelease, Called,
         dbVars, efiVars, boundVars
<1>3. CASE (\E b \in BOOLEAN : SetPayoutBlock(b)) \/ UNCHANGED vars
  BY <1>3, AgreeRests DEF SetPayoutBlock, vars, dbVars, efiVars, boundVars
<1>4. QED
  BY <1>1, <1>2, <1>3, OperationAgrees, FaultAgrees DEF Next

\* Until the first fault, what the provider has sent to the seller of an order that no two
\* handlers have worked on at once is what its ledger says, to the cent.
THEOREM PayoutsAgreeToTheCent == Spec => []PayoutsAgree
<1>1. Init => AgreeOK
  <2> SUFFICES ASSUME Init
               PROVE  AgreeOK
    OBVIOUS
  <2>1. \A o \in Orders : ledger[o]["PAYOUT"] = 0 /\ sent[o] = 0
    BY InitialLedger DEF Init, Accounts
  <2>2. \A w \in Workers : pc[w] = "idle"
    BY DEF Init
  <2>3. QED
    BY <2>1, <2>2 DEF AgreeOK, SendsOK, AgreesOn, Sending
<1>2. AgreeOK => PayoutsAgree
  BY DEF AgreeOK, AgreesOn, PayoutsAgree
<1>3. IInv /\ AgreeOK /\ [Next]_vars => AgreeOK'
  BY NextAgrees
<1>4. QED
  BY Inductive, <1>1, <1>2, <1>3, PTL DEF Spec
=============================================================================
