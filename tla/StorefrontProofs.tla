-------------------------- MODULE StorefrontProofs --------------------------
(* What TLAPS proves about Storefront, for every set of listings, rows, coupons,
   orders and handlers, and every price, rate, discount and limit. *)
EXTENDS Storefront, FiniteSetTheorems, TLAPS

Checking == {"readListing", "countItems", "readCoupon", "consumeCoupon", "readLink", "insertOrder"}

\* Only an AVAILABLE row without an owner is on sale; a deleted row is nobody's.
StockOK ==
    \A i \in Items : /\ itemOf[i] = None => itemStatus[i] = "DISABLED" /\ holder[i] = None
                     /\ itemStatus[i] = "AVAILABLE" => holder[i] = None

RowHeld(i) ==
    rowLock[i] # None => pc[rowLock[i]] = "reserveWrite" /\ picked[rowLock[i]] = i

\* A reservation about to write has the lock of a row that is still free.
Picks(w) ==
    pc[w] = "reserveWrite" =>
        /\ picked[w] \in Items /\ rowLock[picked[w]] = w
        /\ itemOf[picked[w]] # None /\ itemStatus[picked[w]] = "AVAILABLE" /\ holder[picked[w]] = None

Busy(w) ==
    /\ pc[w] # "idle" => target[w] \in Listings
    /\ pc[w] \in Checking \cup {"reserveFind", "reservePick", "reserveWrite"} => serving[w] \in Orders

\* A checkout that has counted its coupon's use has locked the coupon below its limit.
Checkout(w) ==
    LET d == draft[w]  c == draft[w].coupon IN
    /\ pc[w] \in Checking <=> draft[w] # None
    /\ pc[w] \in Checking => order[serving[w]] = None
    /\ pc[w] \in {"readCoupon", "consumeCoupon"} => c # None
    /\ pc[w] = "readLink" => d.link # None /\ c = None
    /\ pc[w] \in {"consumeCoupon", "insertOrder"} /\ c # None => d.terms.limit \in limitsHad[c]
    /\ pc[w] = "insertOrder" /\ c # None => couponLock[c] = w /\ (d.terms.limit # 0 => uses[c] < d.terms.limit)

OwnOrder(w, v) ==
    pc[w] \in Checking /\ pc[v] \in Checking /\ w # v => serving[w] # serving[v]

CouponHeld(c) ==
    couponLock[c] # None => pc[couponLock[c]] = "insertOrder" /\ draft[couponLock[c]].coupon = c

LimitKnown == \A c \in Coupons : coupon[c].limit \in limitsHad[c]

SInv ==
    /\ StorefrontTypeOK
    /\ StockOK /\ LimitKnown
    /\ \A i \in Items : RowHeld(i)
    /\ \A w \in Handlers : Picks(w) /\ Busy(w) /\ Checkout(w)
    /\ \A w, v \in Handlers : OwnOrder(w, v)
    /\ \A c \in Coupons : CouponHeld(c)
    /\ CouponWithinLimit
    /\ CouponUsesCounted
    /\ OrdersAddUp
-----------------------------------------------------------------------------
(* The split of a price *)

LEMMA RoundBpsBounds ==
    ASSUME NEW n \in Nat, NEW most \in Nat, n <= most * Bps
    PROVE  RoundBps(n) \in Nat /\ RoundBps(n) <= most
BY DEF RoundBps, Bps

LEMMA RateOf ==
    ASSUME NEW n \in Nat, NEW bps \in 0..Bps
    PROVE  n * bps \in Nat /\ n * bps <= n * Bps
<1>1. bps \in Nat /\ Bps - bps \in Nat /\ Bps \in Nat
  BY DEF Bps
<1>2. n * bps \in Nat /\ n * (Bps - bps) \in Nat
  BY <1>1
<1>3. n * Bps = n * bps + n * (Bps - bps)
  BY <1>1
<1>4. QED
  BY <1>1, <1>2, <1>3

\* Whatever the price, the rates of at most 100% and the discount are, the split adds up.
THEOREM TotalsAddUp ==
    ASSUME NEW cents \in Nat, NEW feeBps \in 0..Bps, NEW discountBps \in 0..Bps,
           NEW discountCents \in Nat, NEW commissionBps \in 0..Bps
    PROVE  AddsUp(cents, Totals(cents, feeBps, discountBps, discountCents, commissionBps))
<1> DEFINE base == FeeBase(cents, feeBps)
           wanted == DesiredDiscount(cents, discountBps, discountCents)
           discount == Least(wanted, base)
           final == Positive(base - discount)
           commission == RoundBps(final * commissionBps)
<1>1. base \in Nat /\ base <= cents
  BY RateOf, RoundBpsBounds DEF FeeBase
<1>2. wanted \in Nat
  BY RateOf, RoundBpsBounds DEF DesiredDiscount
<1>3. discount \in Nat /\ discount <= base /\ final = base - discount /\ final \in Nat
  BY <1>1, <1>2 DEF Least, Positive
<1>4. commission \in Nat /\ commission <= final
  <2> HIDE DEF final
  <2>1. final * commissionBps \in Nat /\ final * commissionBps <= final * Bps
    BY <1>3, RateOf
  <2>2. QED
    BY <1>3, <2>1, RoundBpsBounds
<1>5. Totals(cents, feeBps, discountBps, discountCents, commissionBps) =
        [discount |-> discount, feeBase |-> base, feeFinal |-> final,
         commission |-> commission, total |-> Positive(cents - discount)]
  BY DEF Totals
<1> HIDE DEF base, wanted, discount, final, commission
<1>6. Positive(cents - discount) = cents - discount
  BY <1>1, <1>3 DEF Positive
<1>7. QED
  BY <1>1, <1>3, <1>4, <1>5, <1>6 DEF AddsUp

\* The split of any order has its type, also for a listing's fee above 100%.
LEMMA TotalsType ==
    ASSUME NEW cents \in Nat, NEW feeBps \in Int, NEW discountBps \in 0..Bps,
           NEW discountCents \in Nat, NEW commissionBps \in 0..Bps
    PROVE  Totals(cents, feeBps, discountBps, discountCents, commissionBps) \in Split
<1> DEFINE base == FeeBase(cents, feeBps)
           wanted == DesiredDiscount(cents, discountBps, discountCents)
           discount == Least(wanted, base)
           final == Positive(base - discount)
<1>1. base \in Int
  <2>1. cents * feeBps \in Int
    OBVIOUS
  <2>2. QED
    BY <2>1 DEF FeeBase, RoundBps, Bps
<1>2. wanted \in Nat
  BY RateOf, RoundBpsBounds DEF DesiredDiscount
<1>3. discount \in Int /\ final \in Nat
  BY <1>1, <1>2 DEF Least, Positive
<1>4. RoundBps(final * commissionBps) \in Nat
  <2> HIDE DEF final
  <2>1. QED
    BY <1>3, RateOf, RoundBpsBounds
<1>5. Positive(cents - discount) \in Nat
  BY <1>3 DEF Positive
<1>6. Totals(cents, feeBps, discountBps, discountCents, commissionBps) =
        [discount |-> discount, feeBase |-> base, feeFinal |-> final,
         commission |-> RoundBps(final * commissionBps), total |-> Positive(cents - discount)]
  BY DEF Totals
<1> HIDE DEF base, discount, final
<1>7. QED
  BY <1>1, <1>3, <1>4, <1>5, <1>6 DEF Split
-----------------------------------------------------------------------------
(* Steps of one handler *)

USE DEF itemVars, flightVars, listingVars, couponVars, termVars, orderVars, vars

Others(w) ==
    \A v \in Handlers : v # w => /\ pc'[v] = pc[v] /\ target'[v] = target[v] /\ serving'[v] = serving[v]
                                 /\ picked'[v] = picked[v] /\ draft'[v] = draft[v]

\* The handler w takes and releases no locks but its own.
LockMoves(w) ==
    /\ \A i \in Items :
          /\ rowLock'[i] = w => pc'[w] = "reserveWrite" /\ picked'[w] = i
          /\ rowLock'[i] # rowLock[i] => rowLock[i] \in {None, w} /\ rowLock'[i] \in {None, w}
    /\ \A c \in Coupons :
          /\ couponLock'[c] = w => pc'[w] = "insertOrder" /\ draft'[w].coupon = c
          /\ couponLock'[c] # couponLock[c] => couponLock[c] \in {None, w} /\ couponLock'[c] \in {None, w}

LEMMA NoneIsNoId ==
    /\ None \notin Handlers /\ None \notin Orders /\ None \notin Listings /\ None \notin Items
    /\ None \notin Coupons /\ None \notin Partners /\ None \notin Draft /\ None \notin Order
BY StorefrontAssumption, AbsentAssumption

LEMMA MoveInductive ==
    ASSUME SInv, NEW w \in Handlers, Others(w), LockMoves(w), StorefrontTypeOK',
           UNCHANGED <<itemOf, itemStatus, holder, coupon, uses, limitsHad, order>>,
           Picks(w)', Busy(w)', Checkout(w)',
           \A v \in Handlers : v # w /\ pc'[w] \in Checking /\ pc[v] \in Checking => serving'[w] # serving[v]
    PROVE  SInv'
<1>1. StockOK' /\ LimitKnown'
  BY DEF SInv, StockOK, LimitKnown
<1>2. ASSUME NEW i \in Items PROVE RowHeld(i)'
  <2>1. CASE rowLock'[i] \in {None, w}
    BY <2>1, NoneIsNoId DEF RowHeld, LockMoves
  <2>2. CASE rowLock'[i] \notin {None, w}
    <3>1. PICK v \in Handlers : v = rowLock[i] /\ rowLock'[i] = v /\ v # w
      BY <2>2 DEF SInv, StorefrontTypeOK, LockMoves
    <3>2. pc'[v] = pc[v] /\ picked'[v] = picked[v]
      BY <3>1 DEF Others
    <3>3. RowHeld(i)
      BY DEF SInv
    <3>4. QED
      BY <3>1, <3>2, <3>3, NoneIsNoId DEF RowHeld
  <2>3. QED
    BY <2>1, <2>2
<1>3. ASSUME NEW v \in Handlers PROVE Picks(v)' /\ Busy(v)' /\ Checkout(v)'
  <2>1. CASE v = w
    BY <2>1
  <2>2. CASE v # w
    <3>1. Picks(v)'
      BY <2>2, NoneIsNoId DEF SInv, Picks, LockMoves, Others
    <3>2. Busy(v)'
      BY <2>2 DEF SInv, Busy, Others
    <3>3. pc[v] = "insertOrder" /\ draft[v].coupon # None => couponLock'[draft[v].coupon] = v
      <4>1. pc[v] = "insertOrder" => draft[v] \in Draft
        BY DEF SInv, StorefrontTypeOK, Checkout, Checking
      <4>2. QED
        BY <2>2, <4>1, NoneIsNoId DEF SInv, Checkout, LockMoves, Draft
    <3>4. Checkout(v)'
      BY <2>2, <3>3 DEF SInv, Checkout, Others
    <3>5. QED
      BY <3>1, <3>2, <3>4
  <2>3. QED
    BY <2>1, <2>2
<1>4. \A u, v \in Handlers : OwnOrder(u, v)'
  BY DEF SInv, OwnOrder, Others
<1>5. ASSUME NEW c \in Coupons PROVE CouponHeld(c)'
  <2>1. CASE couponLock'[c] \in {None, w}
    BY <2>1, NoneIsNoId DEF CouponHeld, LockMoves
  <2>2. CASE couponLock'[c] \notin {None, w}
    <3>1. PICK v \in Handlers : v = couponLock[c] /\ couponLock'[c] = v /\ v # w
      BY <2>2 DEF SInv, StorefrontTypeOK, LockMoves
    <3>2. pc'[v] = pc[v] /\ draft'[v] = draft[v]
      BY <3>1 DEF Others
    <3>3. QED
      BY <3>1, <3>2, NoneIsNoId DEF SInv, CouponHeld
  <2>3. QED
    BY <2>1, <2>2
<1>6. CouponWithinLimit' /\ CouponUsesCounted' /\ OrdersAddUp'
  BY DEF SInv, CouponWithinLimit, CouponUsesCounted, OrdersAddUp
<1>7. QED
  BY <1>1, <1>2, <1>3, <1>4, <1>5, <1>6 DEF SInv

\* A handler that holds no lock leaves the locks alone.
LEMMA NoLocks ==
    ASSUME SInv, NEW w \in Handlers, pc[w] \notin {"reserveWrite", "insertOrder"}, UNCHANGED <<rowLock, couponLock>>
    PROVE  LockMoves(w)
BY NoneIsNoId DEF SInv, RowHeld, CouponHeld, LockMoves

LEMMA FlightOfStart ==
    ASSUME SInv, NEW w \in Handlers, NEW label \in Pcs, NEW l \in Listings, NEW o \in Orders \cup {None}, Start(w, label, l, o)
    PROVE  /\ pc[w] = "idle" /\ pc'[w] = label /\ target'[w] = l /\ serving'[w] = o /\ picked' = picked
           /\ \A v \in Handlers : v # w => pc'[v] = pc[v] /\ target'[v] = target[v] /\ serving'[v] = serving[v]
           /\ pc' \in [Handlers -> Pcs] /\ target' \in [Handlers -> Listings \cup {None}]
           /\ serving' \in [Handlers -> Orders \cup {None}] /\ picked' \in [Handlers -> Items \cup {None}]
BY DEF SInv, StorefrontTypeOK, Start, Goto

LEMMA FlightOfFinish ==
    ASSUME SInv, NEW w \in Handlers, Finish(w)
    PROVE  /\ pc'[w] = "idle"
           /\ \A v \in Handlers : v # w => /\ pc'[v] = pc[v] /\ target'[v] = target[v]
                                           /\ serving'[v] = serving[v] /\ picked'[v] = picked[v]
           /\ pc' \in [Handlers -> Pcs] /\ target' \in [Handlers -> Listings \cup {None}]
           /\ serving' \in [Handlers -> Orders \cup {None}] /\ picked' \in [Handlers -> Items \cup {None}]
BY DEF SInv, StorefrontTypeOK, Finish, Goto, Pcs

LEMMA FlightOfStep ==
    ASSUME SInv, NEW w \in Handlers, NEW label \in Pcs, Step(w, label)
    PROVE  /\ pc'[w] = label /\ UNCHANGED <<target, serving, picked>>
           /\ \A v \in Handlers : v # w => pc'[v] = pc[v]
           /\ pc' \in [Handlers -> Pcs]
BY DEF SInv, StorefrontTypeOK, Step, Goto

-----------------------------------------------------------------------------
(* Listings *)

LEMMA ReadRowInductive ==
    ASSUME SInv, NEW w \in Handlers, NEW l \in Listings,
           \/ UpdateListing(w, l) \/ SubmitListing(w, l)
           \/ \E to \in {"PUBLISHED", "DRAFT", "SUSPENDED"} : ModerateListing(w, l, to)
    PROVE  SInv'
<1>1. PICK label \in {"updateWrite", "statusWrite"}, status \in ListingStatus :
           /\ Start(w, label, l, None) /\ seen' = [seen EXCEPT ![w] = status]
           /\ UNCHANGED <<itemVars, listing, price, termVars, orderVars>>
  BY DEF UpdateListing, SubmitListing, ModerateListing, ReadRow, SInv, StorefrontTypeOK, ListingStatus
<1>2. /\ pc[w] = "idle" /\ pc'[w] = label /\ target'[w] = l /\ picked' = picked
      /\ \A v \in Handlers : v # w => pc'[v] = pc[v] /\ target'[v] = target[v] /\ serving'[v] = serving[v]
      /\ pc' \in [Handlers -> Pcs] /\ target' \in [Handlers -> Listings \cup {None}]
      /\ serving' \in [Handlers -> Orders \cup {None}]
  BY <1>1, FlightOfStart DEF Pcs
<1>3. StorefrontTypeOK'
  BY <1>1, <1>2 DEF SInv, StorefrontTypeOK
<1>4. Others(w) /\ LockMoves(w)
  BY <1>1, <1>2, NoLocks DEF Others
<1>5. Picks(w)' /\ Busy(w)'
  BY <1>1, <1>2 DEF Picks, Busy, Checking
<1>6. draft[w] = None
  BY <1>2 DEF SInv, Checkout, Checking
<1>7. Checkout(w)'
  BY <1>1, <1>2, <1>6 DEF Checkout, Checking
<1>8. pc'[w] \notin Checking
  BY <1>1, <1>2 DEF Checking
<1>9. QED
  BY <1>1, <1>3, <1>4, <1>5, <1>7, <1>8, MoveInductive

LEMMA WriteRowInductive ==
    ASSUME SInv, NEW w \in Handlers, StatusWrite(w) \/ \E cents \in Prices : UpdateWrite(w, cents)
    PROVE  SInv'
<1>1. /\ pc[w] \in {"updateWrite", "statusWrite"} /\ target[w] \in Listings /\ draft[w] = None
  BY DEF SInv, Busy, Checkout, Checking, StatusWrite, UpdateWrite
<1>2. PICK status \in ListingStatus, cents \in Prices : WriteRow(w, status, cents)
  BY <1>1 DEF SInv, StorefrontTypeOK, StatusWrite, UpdateWrite, ListingStatus
<1>3. /\ pc'[w] = "idle"
      /\ \A v \in Handlers : v # w => /\ pc'[v] = pc[v] /\ target'[v] = target[v]
                                      /\ serving'[v] = serving[v] /\ picked'[v] = picked[v]
      /\ pc' \in [Handlers -> Pcs] /\ target' \in [Handlers -> Listings \cup {None}]
      /\ serving' \in [Handlers -> Orders \cup {None}] /\ picked' \in [Handlers -> Items \cup {None}]
  BY <1>2, FlightOfFinish DEF WriteRow
<1>4. /\ listing' \in [Listings -> ListingStatus] /\ price' \in [Listings -> Prices]
      /\ seen' \in [Handlers -> ListingStatus]
  <2>1. \/ UNCHANGED <<listing, price>>
        \/ /\ listing' = [listing EXCEPT ![target[w]] = status]
           /\ price' = [price EXCEPT ![target[w]] = cents]
    BY <1>2 DEF WriteRow
  <2>2. seen' = [seen EXCEPT ![w] = "NONE"]
    BY <1>2 DEF WriteRow
  <2>3. listing' \in [Listings -> ListingStatus] /\ price' \in [Listings -> Prices]
    BY <2>1 DEF SInv, StorefrontTypeOK
  <2>4. seen' \in [Handlers -> ListingStatus]
    BY <2>2 DEF SInv, StorefrontTypeOK, ListingStatus
  <2>5. QED
    BY <2>3, <2>4
<1>5. UNCHANGED <<itemVars, termVars, orderVars>>
  BY <1>2 DEF WriteRow
<1>6. StorefrontTypeOK'
  BY <1>3, <1>4, <1>5 DEF SInv, StorefrontTypeOK
<1>7. Others(w) /\ LockMoves(w)
  BY <1>1, <1>3, <1>5, NoLocks DEF Others
<1>8. Picks(w)' /\ Busy(w)' /\ Checkout(w)' /\ pc'[w] \notin Checking
  BY <1>1, <1>3, <1>5 DEF Picks, Busy, Checkout, Checking
<1>9. QED
  BY <1>5, <1>6, <1>7, <1>8, MoveInductive

LEMMA OutsideInductive ==
    ASSUME SInv,
           \/ \E l \in Listings, cents \in Prices : CreateListing(l, cents)
           \/ \E rate \in FeeRates : UpdateSettings(rate)
           \/ \E p \in Partners, terms \in PartnerTerms : UpdatePartner(p, terms)
           \/ \E c \in Coupons, terms \in CouponTerms : UpdateCoupon(c, terms)
           \/ UNCHANGED vars
    PROVE  SInv'
<1>1. /\ UNCHANGED <<itemVars, flightVars, seen, uses, couponLock, orderVars>>
      /\ listing' \in [Listings -> ListingStatus] /\ price' \in [Listings -> Prices]
      /\ fee' \in FeeRates /\ partner' \in [Partners -> PartnerTerms] /\ coupon' \in [Coupons -> CouponTerms]
  <2> DEFINE Typed == /\ UNCHANGED <<itemVars, flightVars, seen, uses, couponLock, orderVars>>
                      /\ listing' \in [Listings -> ListingStatus] /\ price' \in [Listings -> Prices]
                      /\ fee' \in FeeRates /\ partner' \in [Partners -> PartnerTerms]
                      /\ coupon' \in [Coupons -> CouponTerms]
  <2>1. ASSUME NEW l \in Listings, NEW cents \in Prices, CreateListing(l, cents) PROVE Typed
    BY <2>1 DEF SInv, StorefrontTypeOK, CreateListing, ListingStatus
  <2>2. ASSUME NEW rate \in FeeRates, UpdateSettings(rate) PROVE Typed
    BY <2>2 DEF SInv, StorefrontTypeOK, UpdateSettings
  <2>3. ASSUME NEW p \in Partners, NEW terms \in PartnerTerms, UpdatePartner(p, terms) PROVE Typed
    BY <2>3 DEF SInv, StorefrontTypeOK, UpdatePartner
  <2>4. ASSUME NEW c \in Coupons, NEW terms \in CouponTerms, UpdateCoupon(c, terms) PROVE Typed
    BY <2>4 DEF SInv, StorefrontTypeOK, UpdateCoupon
  <2>5. CASE UNCHANGED vars
    BY <2>5 DEF SInv, StorefrontTypeOK
  <2>6. QED
    BY <2>1, <2>2, <2>3, <2>4, <2>5
<1>2. /\ limitsHad' \in [Coupons -> SUBSET Limits]
      /\ \A c \in Coupons : limitsHad[c] \subseteq limitsHad'[c]
      /\ LimitKnown'
  <2>1. ASSUME NEW c \in Coupons, NEW terms \in CouponTerms, UpdateCoupon(c, terms)
        PROVE  /\ limitsHad' \in [Coupons -> SUBSET Limits]
               /\ \A x \in Coupons : limitsHad[x] \subseteq limitsHad'[x]
               /\ LimitKnown'
    <3>1. terms.limit \in Limits /\ limitsHad' = [limitsHad EXCEPT ![c] = limitsHad[c] \cup {terms.limit}]
      BY <2>1 DEF UpdateCoupon, CouponTerms
    <3>2. limitsHad[c] \cup {terms.limit} \in SUBSET Limits
      BY <3>1 DEF SInv, StorefrontTypeOK
    <3>3. /\ limitsHad' \in [Coupons -> SUBSET Limits]
          /\ \A x \in Coupons : limitsHad[x] \subseteq limitsHad'[x]
      BY <3>1, <3>2 DEF SInv, StorefrontTypeOK
    <3>4. LimitKnown'
      BY <2>1, <3>1 DEF UpdateCoupon, LimitKnown, SInv, StorefrontTypeOK
    <3>5. QED
      BY <3>3, <3>4
  <2>2. QED
    BY <2>1 DEF SInv, StorefrontTypeOK, LimitKnown, CreateListing, UpdateSettings, UpdatePartner
<1>3. StorefrontTypeOK'
  BY <1>1, <1>2 DEF SInv, StorefrontTypeOK
<1>4. StockOK' /\ (\A i \in Items : RowHeld(i)') /\ (\A w \in Handlers : Picks(w)' /\ Busy(w)')
  BY <1>1 DEF SInv, StockOK, RowHeld, Picks, Busy
<1>5. \A w \in Handlers : Checkout(w)'
  <2>1. \A w \in Handlers : draft[w] # None => draft[w].coupon \in Coupons \cup {None}
    BY DEF SInv, StorefrontTypeOK, Draft
  <2>2. ASSUME NEW w \in Handlers PROVE Checkout(w)'
    <3>1. pc[w] \in {"consumeCoupon", "insertOrder"} => draft[w] # None
      BY DEF SInv, Checkout, Checking
    <3>2. QED
      BY <1>1, <1>2, <2>1, <3>1 DEF SInv, Checkout
  <2>3. QED
    BY <2>2
<1>6. (\A w, v \in Handlers : OwnOrder(w, v)') /\ (\A c \in Coupons : CouponHeld(c)')
  BY <1>1 DEF SInv, OwnOrder, CouponHeld
<1>7. CouponWithinLimit' /\ CouponUsesCounted' /\ OrdersAddUp'
  BY <1>1, <1>2 DEF SInv, CouponWithinLimit, CouponUsesCounted, OrdersAddUp
<1>8. QED
  BY <1>2, <1>3, <1>4, <1>5, <1>6, <1>7 DEF SInv

-----------------------------------------------------------------------------
(* Inventory rows *)

\* The rows change, but for those a reservation has locked.
LEMMA RowsInductive ==
    ASSUME SInv, UNCHANGED <<rowLock, flightVars, seen, termVars, draft>>,
           StorefrontTypeOK', StockOK',
           \A i \in Items : rowLock[i] # None =>
               itemOf'[i] = itemOf[i] /\ itemStatus'[i] = itemStatus[i] /\ holder'[i] = holder[i],
           \A o \in Orders :
               IF order[o] = None THEN order'[o] = None
               ELSE order'[o] # None /\ order'[o].coupon = order[o].coupon /\ order'[o].price = order[o].price
                    /\ order'[o].feeBps = order[o].feeBps /\ order'[o].split = order[o].split
    PROVE  SInv'
<1>1. \A i \in Items : RowHeld(i)'
  BY DEF SInv, RowHeld
<1>2. \A w \in Handlers : Picks(w)'
  BY NoneIsNoId DEF SInv, Picks
<1>3. \A w \in Handlers : Busy(w)' /\ Checkout(w)'
  BY DEF SInv, Busy, Checkout
<1>4. (\A w, v \in Handlers : OwnOrder(w, v)') /\ (\A c \in Coupons : CouponHeld(c)') /\ LimitKnown'
  BY DEF SInv, OwnOrder, CouponHeld, LimitKnown
<1>5. CouponWithinLimit' /\ OrdersAddUp'
  BY DEF SInv, CouponWithinLimit, OrdersAddUp
<1>6. \A c \in Coupons : {o \in Orders : order'[o] # None /\ order'[o].coupon = c}
                         = {o \in Orders : order[o] # None /\ order[o].coupon = c}
  OBVIOUS
<1>7. CouponUsesCounted'
  BY <1>6 DEF SInv, CouponUsesCounted
<1>8. QED
  BY <1>1, <1>2, <1>3, <1>4, <1>5, <1>7 DEF SInv

LEMMA ManageInventoryInductive == ASSUME SInv, ManageInventory PROVE SInv'
<1>1. CASE \E l \in Listings, rows \in SUBSET Items : listing[l] # "NONE" /\ AddInventoryItems(l, rows)
  <2>1. PICK l \in Listings, rows \in SUBSET Items : AddInventoryItems(l, rows)
    BY <1>1
  <2>2. /\ itemOf' \in [Items -> Listings \cup {None}] /\ itemStatus' \in [Items -> InventoryStatus]
        /\ UNCHANGED <<holder, rowLock, flightVars>>
    BY <2>1 DEF AddInventoryItems, SInv, StorefrontTypeOK, InventoryStatus
  <2>3. StorefrontTypeOK'
    BY <2>2 DEF ManageInventory, SInv, StorefrontTypeOK
  <2>4. StockOK'
    BY <2>1, NoneIsNoId DEF AddInventoryItems, SInv, StockOK
  <2>5. ASSUME NEW i \in Items, rowLock[i] # None PROVE itemOf'[i] = itemOf[i] /\ itemStatus'[i] = itemStatus[i]
    <3>1. itemOf[i] # None
      BY <2>5 DEF SInv, StorefrontTypeOK, RowHeld, Picks
    <3>2. QED
      BY <2>1, <3>1 DEF AddInventoryItems
  <2>6. QED
    BY <2>2, <2>3, <2>4, <2>5, RowsInductive DEF ManageInventory
<1>2. CASE \E i \in Items : RemoveInventoryItem(i)
  <2>1. PICK i \in Items : RemoveInventoryItem(i)
    BY <1>2
  <2>2. StorefrontTypeOK'
    BY <2>1 DEF RemoveInventoryItem, ManageInventory, SInv, StorefrontTypeOK, InventoryStatus
  <2>3. StockOK'
    BY <2>1 DEF RemoveInventoryItem, SInv, StorefrontTypeOK, StockOK
  <2>4. \A x \in Items : rowLock[x] # None => itemOf'[x] = itemOf[x] /\ itemStatus'[x] = itemStatus[x]
    BY <2>1 DEF RemoveInventoryItem, SInv, StorefrontTypeOK
  <2>5. QED
    BY <2>1, <2>2, <2>3, <2>4, RowsInductive DEF RemoveInventoryItem, ManageInventory
<1>3. CASE \E i \in Items, s \in InventoryStatus : UpdateInventoryItem(i, s)
  <2>1. PICK i \in Items, s \in InventoryStatus : UpdateInventoryItem(i, s)
    BY <1>3
  <2>2. StorefrontTypeOK'
    BY <2>1 DEF UpdateInventoryItem, ManageInventory, SInv, StorefrontTypeOK
  <2>3. StockOK'
    BY <2>1 DEF UpdateInventoryItem, SInv, StorefrontTypeOK, StockOK
  <2>4. \A x \in Items : rowLock[x] # None =>
            itemOf'[x] = itemOf[x] /\ itemStatus'[x] = itemStatus[x] /\ holder'[x] = holder[x]
    BY <2>1 DEF UpdateInventoryItem, SInv, StorefrontTypeOK
  <2>5. QED
    BY <2>1, <2>2, <2>3, <2>4, RowsInductive DEF UpdateInventoryItem, ManageInventory
<1>4. QED
  BY <1>1, <1>2, <1>3 DEF ManageInventory

LEMMA DeleteListingInductive ==
    ASSUME SInv, NEW l \in Listings, DeleteListing(l)
    PROVE  SInv'
<1>1. \A o \in Orders : order[o] # None =>
          /\ order[o] \in Order /\ [order[o] EXCEPT !.listing = None] \in Order
          /\ LET gone == [order[o] EXCEPT !.listing = None]
             IN  gone.coupon = order[o].coupon /\ gone.price = order[o].price
                 /\ gone.feeBps = order[o].feeBps /\ gone.split = order[o].split
  BY DEF SInv, StorefrontTypeOK, Order
<1>2. \A o \in Orders : order'[o] = IF order[o] # None /\ order[o].listing = l
                                   THEN [order[o] EXCEPT !.listing = None] ELSE order[o]
  BY DEF DeleteListing
<1>3. order' \in [Orders -> Order \cup {None}]
  BY <1>1 DEF DeleteListing, SInv, StorefrontTypeOK
<1>4. /\ itemOf' \in [Items -> Listings \cup {None}] /\ itemStatus' \in [Items -> InventoryStatus]
      /\ holder' \in [Items -> Orders \cup {None}] /\ listing' \in [Listings -> ListingStatus]
  BY DEF DeleteListing, SInv, StorefrontTypeOK, InventoryStatus, ListingStatus
<1>5. UNCHANGED <<rowLock, flightVars, price, seen, termVars, draft>>
  BY DEF DeleteListing
<1>6. StorefrontTypeOK'
  BY <1>3, <1>4, <1>5 DEF SInv, StorefrontTypeOK
<1>7. StockOK'
  BY DEF DeleteListing, SInv, StockOK
<1>8. \A i \in Items : rowLock[i] # None =>
          itemOf'[i] = itemOf[i] /\ itemStatus'[i] = itemStatus[i] /\ holder'[i] = holder[i]
  BY DEF DeleteListing
<1>9. \A o \in Orders :
          IF order[o] = None THEN order'[o] = None
          ELSE order'[o] # None /\ order'[o].coupon = order[o].coupon /\ order'[o].price = order[o].price
               /\ order'[o].feeBps = order[o].feeBps /\ order'[o].split = order[o].split
  <2>1. ASSUME NEW o \in Orders, order[o] = None PROVE order'[o] = None
    BY <1>2, <2>1
  <2>2. ASSUME NEW o \in Orders, order[o] # None
        PROVE  /\ order'[o] # None /\ order'[o].coupon = order[o].coupon
               /\ order'[o].price = order[o].price /\ order'[o].feeBps = order[o].feeBps
               /\ order'[o].split = order[o].split
    <3>1. CASE order'[o] = order[o]
      BY <2>2, <3>1
    <3>2. CASE order'[o] = [order[o] EXCEPT !.listing = None]
      BY <1>1, <2>2, <3>2, NoneIsNoId
    <3>3. QED
      BY <1>2, <3>1, <3>2
  <2>3. QED
    BY <2>1, <2>2
<1>10. QED
  BY <1>5, <1>6, <1>7, <1>8, <1>9, RowsInductive
-----------------------------------------------------------------------------
(* Checkouts *)

LEMMA RejectInductive ==
    ASSUME SInv, NEW w \in Handlers, pc[w] \in Checking, Reject(w),
           UNCHANGED <<itemVars, listingVars, fee, partner, coupon, uses, limitsHad, order>>,
           \/ pc[w] # "insertOrder" /\ UNCHANGED couponLock
           \/ couponLock' = [c \in Coupons |-> IF couponLock[c] = w THEN None ELSE couponLock[c]]
    PROVE  SInv'
<1>1. /\ pc'[w] = "idle" /\ draft'[w] = None
      /\ \A v \in Handlers : v # w => /\ pc'[v] = pc[v] /\ target'[v] = target[v]
                                      /\ serving'[v] = serving[v] /\ picked'[v] = picked[v]
                                      /\ draft'[v] = draft[v]
      /\ pc' \in [Handlers -> Pcs] /\ target' \in [Handlers -> Listings \cup {None}]
      /\ serving' \in [Handlers -> Orders \cup {None}] /\ picked' \in [Handlers -> Items \cup {None}]
      /\ draft' \in [Handlers -> Draft \cup {None}]
  BY FlightOfFinish DEF Reject, SInv, StorefrontTypeOK
<1>2. couponLock' \in [Coupons -> Handlers \cup {None}]
  BY DEF SInv, StorefrontTypeOK
<1>3. StorefrontTypeOK'
  BY <1>1, <1>2 DEF SInv, StorefrontTypeOK
<1>4. Others(w)
  BY <1>1 DEF Others
<1>5. LockMoves(w)
  BY NoneIsNoId DEF SInv, RowHeld, CouponHeld, LockMoves, Checking
<1>6. Picks(w)' /\ Busy(w)' /\ Checkout(w)' /\ pc'[w] \notin Checking
  BY <1>1 DEF Picks, Busy, Checkout, Checking
<1>7. QED
  BY <1>3, <1>4, <1>5, <1>6, MoveInductive

LEMMA AdvanceInductive ==
    ASSUME SInv, NEW w \in Handlers, pc[w] \in Checking, pc[w] # "insertOrder",
           NEW label \in Checking, Step(w, label),
           NEW d \in Draft, draft' = [draft EXCEPT ![w] = d],
           UNCHANGED <<itemVars, listingVars, fee, partner, coupon, uses, limitsHad, order>>,
           \/ couponLock' = couponLock
           \/ /\ label = "insertOrder" /\ d.coupon \in Coupons /\ couponLock[d.coupon] = None
              /\ couponLock' = [couponLock EXCEPT ![d.coupon] = w],
           label \in {"readCoupon", "consumeCoupon"} => d.coupon # None,
           label = "readLink" => d.link # None /\ d.coupon = None,
           label \in {"consumeCoupon", "insertOrder"} /\ d.coupon # None => d.terms.limit \in limitsHad[d.coupon],
           label = "insertOrder" /\ d.coupon # None =>
               couponLock'[d.coupon] = w /\ (d.terms.limit # 0 => uses[d.coupon] < d.terms.limit)
    PROVE  SInv'
<1>0. label \in Pcs
  BY DEF Checking, Pcs
<1>1. /\ pc'[w] = label /\ UNCHANGED <<target, serving, picked>>
      /\ \A v \in Handlers : v # w => pc'[v] = pc[v] /\ draft'[v] = draft[v]
      /\ pc' \in [Handlers -> Pcs]
      /\ draft'[w] = d /\ draft' \in [Handlers -> Draft \cup {None}]
  BY <1>0, FlightOfStep DEF SInv, StorefrontTypeOK
<1>a. /\ couponLock' \in [Coupons -> Handlers \cup {None}]
      /\ \A c \in Coupons : couponLock'[c] # couponLock[c] =>
             couponLock[c] = None /\ couponLock'[c] = w /\ label = "insertOrder" /\ d.coupon = c
  BY DEF SInv, StorefrontTypeOK
<1>2. StorefrontTypeOK'
  BY <1>1, <1>a DEF SInv, StorefrontTypeOK
<1>3. Others(w)
  BY <1>1 DEF Others
<1>4. LockMoves(w)
  <2>1. \A c \in Coupons : couponLock[c] # w
    BY NoneIsNoId DEF SInv, CouponHeld
  <2>2. \A i \in Items : rowLock[i] # w
    BY NoneIsNoId DEF SInv, RowHeld, Checking
  <2>3. QED
    BY <1>1, <1>a, <2>1, <2>2 DEF LockMoves
<1>5. Picks(w)' /\ Busy(w)'
  BY <1>1 DEF SInv, Picks, Busy, Checking
<1>6. Checkout(w)'
  BY <1>1, NoneIsNoId DEF SInv, Checkout, Checking
<1>7. \A v \in Handlers : v # w /\ pc'[w] \in Checking /\ pc[v] \in Checking => serving'[w] # serving[v]
  BY <1>1 DEF SInv, OwnOrder
<1>8. QED
  BY <1>2, <1>3, <1>4, <1>5, <1>6, <1>7, MoveInductive

\* The platform's rate and a listing's own are whole numbers of basis points.
LEMMA FeeIsWhole ==
    ASSUME NEW l \in Listings, fee \in FeeRates
    PROVE  (IF ListingFee[l] = None THEN fee ELSE ListingFee[l]) \in Int
<1>1. ListingFee[l] \in Int \cup {None}
  BY StorefrontAssumption
<1>2. FeeRates \subseteq 0..Bps
  BY StorefrontAssumption
<1>3. fee \in Int
  BY <1>2
<1>4. QED
  BY <1>1, <1>3

LEMMA CreateOrderInductive ==
    ASSUME SInv, NEW w \in Handlers, NEW o \in Orders, NEW l \in Listings, NEW quantity \in Quantities,
           NEW c \in Coupons \cup {None}, NEW p \in Partners \cup {None}, CreateOrder(w, o, l, quantity, c, p)
    PROVE  SInv'
<1>1. /\ pc[w] = "idle" /\ pc'[w] = "readListing" /\ target'[w] = l /\ serving'[w] = o /\ picked' = picked
      /\ \A v \in Handlers : v # w => pc'[v] = pc[v] /\ target'[v] = target[v] /\ serving'[v] = serving[v]
      /\ pc' \in [Handlers -> Pcs] /\ target' \in [Handlers -> Listings \cup {None}]
      /\ serving' \in [Handlers -> Orders \cup {None}]
  BY FlightOfStart DEF CreateOrder, Pcs
<1>2. PICK d \in Draft : draft' = [draft EXCEPT ![w] = d]
  <2>1. (IF ListingFee[l] = None THEN fee ELSE ListingFee[l]) \in Int
    BY FeeIsWhole DEF SInv, StorefrontTypeOK
  <2>2. draft' = [draft EXCEPT ![w] =
          [quantity |-> quantity, coupon |-> c, link |-> p, price |-> 0,
           feeBps |-> IF ListingFee[l] = None THEN fee ELSE ListingFee[l],
           terms |-> NoTerms, partner |-> None, bps |-> 0]]
    BY DEF CreateOrder
  <2>3. QED
    BY <2>1, <2>2 DEF Draft
<1>3. /\ draft'[w] = d /\ draft' \in [Handlers -> Draft \cup {None}]
      /\ \A v \in Handlers : v # w => draft'[v] = draft[v]
  BY <1>2 DEF SInv, StorefrontTypeOK
<1>4. UNCHANGED <<itemVars, listingVars, termVars, order>> /\ order[o] = None
      /\ \A v \in Handlers : serving[v] # o
  BY DEF CreateOrder
<1>5. StorefrontTypeOK'
  BY <1>1, <1>3, <1>4 DEF SInv, StorefrontTypeOK
<1>6. Others(w) /\ LockMoves(w)
  BY <1>1, <1>3, <1>4, NoLocks DEF Others
<1>7. Picks(w)' /\ Busy(w)'
  BY <1>1 DEF Picks, Busy
<1>8. Checkout(w)'
  BY <1>1, <1>3, <1>4, NoneIsNoId DEF Checkout, Checking
<1>9. QED
  BY <1>1, <1>4, <1>5, <1>6, <1>7, <1>8, MoveInductive

\* What a handler in the middle of a checkout has read.
LEMMA DraftFacts ==
    ASSUME SInv, NEW w \in Handlers, pc[w] \in Checking
    PROVE  /\ draft[w] \in Draft /\ target[w] \in Listings /\ serving[w] \in Orders
           /\ draft[w].coupon \in Coupons \cup {None} /\ draft[w].link \in Partners \cup {None}
           /\ draft[w].price \in Nat /\ draft[w].quantity \in Quantities /\ draft[w].feeBps \in Int
           /\ draft[w].terms \in CouponTerms \cup {NoTerms} /\ draft[w].bps \in CommissionRates \cup {0}
<1>1. draft[w] \in Draft /\ target[w] \in Listings /\ serving[w] \in Orders
  BY DEF SInv, StorefrontTypeOK, Checkout, Busy, Checking
<1>2. QED
  BY <1>1 DEF Draft

LEMMA ReadListingInductive ==
    ASSUME SInv, NEW w \in Handlers, ReadListing(w)
    PROVE  SInv'
<1>1. pc[w] = "readListing" /\ pc[w] \in Checking /\ pc[w] # "insertOrder"
      /\ UNCHANGED <<itemVars, listingVars, termVars, order>>
  BY DEF ReadListing, Checking
<1>2. CASE listing[target[w]] # "PUBLISHED"
  BY <1>1, <1>2, RejectInductive DEF ReadListing
<1>3. CASE listing[target[w]] = "PUBLISHED"
  <2> DEFINE label == IF target[w] \in ManualListings THEN TermsStep(w) ELSE "countItems"
             d == [draft[w] EXCEPT !.price = price[target[w]] * draft[w].quantity]
  <2>1. price[target[w]] * draft[w].quantity \in Nat
    <3>1. price[target[w]] \in Nat /\ draft[w].quantity \in Nat
      BY <1>1, DraftFacts, StorefrontAssumption DEF SInv, StorefrontTypeOK
    <3>2. QED
      BY <3>1
  <2>2. d \in Draft /\ d.coupon = draft[w].coupon /\ d.link = draft[w].link
    BY <1>1, <2>1, DraftFacts DEF Draft
  <2>3. draft' = [draft EXCEPT ![w] = d] /\ Step(w, label)
    BY <1>3 DEF ReadListing
  <2>4. /\ label \in Checking
        /\ label = "readCoupon" => d.coupon # None
        /\ label = "readLink" => d.link # None /\ d.coupon = None
        /\ label # "consumeCoupon"
        /\ label = "insertOrder" => d.coupon = None
    BY <2>2 DEF TermsStep, Checking
  <2>5. couponLock' = couponLock
    BY <1>1
  <2> HIDE DEF label, d
  <2>6. QED
    BY <1>1, <2>2, <2>3, <2>4, <2>5, AdvanceInductive
<1>4. QED
  BY <1>2, <1>3

LEMMA CountItemsInductive ==
    ASSUME SInv, NEW w \in Handlers, CountItems(w)
    PROVE  SInv'
<1>1. pc[w] = "countItems" /\ pc[w] \in Checking /\ pc[w] # "insertOrder"
      /\ UNCHANGED <<itemVars, listingVars, termVars, order>>
  BY DEF CountItems, Checking
<1>2. CASE Reject(w)
  BY <1>1, <1>2, RejectInductive
<1>3. CASE Step(w, TermsStep(w)) /\ UNCHANGED draft
  <2> DEFINE label == TermsStep(w)  d == draft[w]
  <2>1. d \in Draft /\ draft' = [draft EXCEPT ![w] = d]
    BY <1>1, <1>3, DraftFacts DEF SInv, StorefrontTypeOK
  <2>2. /\ label \in Checking
        /\ label = "readCoupon" => d.coupon # None
        /\ label = "readLink" => d.link # None /\ d.coupon = None
        /\ label # "consumeCoupon"
        /\ label = "insertOrder" => d.coupon = None
    BY DEF TermsStep, Checking
  <2>3. couponLock' = couponLock
    BY <1>1
  <2> HIDE DEF label, d
  <2>4. Step(w, label)
    BY <1>3 DEF label
  <2>5. QED
    BY <1>1, <2>1, <2>2, <2>3, <2>4, AdvanceInductive
<1>4. QED
  BY <1>2, <1>3 DEF CountItems
LEMMA ReadCouponInductive ==
    ASSUME SInv, NEW w \in Handlers, ReadCoupon(w)
    PROVE  SInv'
<1>1. pc[w] = "readCoupon" /\ pc[w] \in Checking /\ pc[w] # "insertOrder"
      /\ UNCHANGED <<itemVars, listingVars, termVars, order>>
  BY DEF ReadCoupon, Checking
<1>2. CASE Reject(w)
  BY <1>1, <1>2, RejectInductive
<1>3. CASE ~Reject(w)
  <2> DEFINE c == draft[w].coupon
             t == coupon[c]
             d == [draft[w] EXCEPT !.terms = t, !.partner = t.partner, !.bps = PartnerBps(t.partner)]
  <2>1. c \in Coupons /\ t \in CouponTerms /\ t.limit \in limitsHad[c] /\ t.partner \in Partners \cup {None}
    BY <1>1, DraftFacts DEF SInv, StorefrontTypeOK, Checkout, LimitKnown, CouponTerms
  <2>2. PartnerBps(t.partner) \in CommissionRates \cup {0}
    BY <2>1 DEF PartnerBps, PartnerTerms, SInv, StorefrontTypeOK
  <2>3. d \in Draft /\ d.coupon = c /\ d.terms = t
    <3>1. draft[w] \in Draft
      BY <1>1, DraftFacts
    <3>2. QED
      BY <2>1, <2>2, <3>1 DEF Draft
  <2>4. draft' = [draft EXCEPT ![w] = d] /\ Step(w, "consumeCoupon")
    BY <1>3 DEF ReadCoupon
  <2>5. couponLock' = couponLock
    BY <1>1
  <2>6. c # None /\ "consumeCoupon" \in Checking
    BY <2>1, NoneIsNoId DEF Checking
  <2> HIDE DEF d
  <2>7. QED
    BY <1>1, <2>1, <2>3, <2>4, <2>5, <2>6, AdvanceInductive
<1>4. QED
  BY <1>2, <1>3

LEMMA ConsumeCouponInductive ==
    ASSUME SInv, NEW w \in Handlers, ConsumeCoupon(w)
    PROVE  SInv'
<1> DEFINE d == draft[w]  c == draft[w].coupon
<1>1. pc[w] = "consumeCoupon" /\ pc[w] \in Checking /\ pc[w] # "insertOrder" /\ couponLock[c] = None
      /\ UNCHANGED <<itemVars, listingVars, fee, partner, coupon, uses, limitsHad, order>>
  BY DEF ConsumeCoupon, Checking
<1>2. CASE Reject(w) /\ UNCHANGED couponLock
  BY <1>1, <1>2, RejectInductive
<1>3. CASE /\ d.terms.limit # 0 => uses[c] < d.terms.limit
           /\ Step(w, "insertOrder") /\ couponLock' = [couponLock EXCEPT ![c] = w] /\ UNCHANGED draft
  <2>1. d \in Draft /\ c \in Coupons /\ c # None /\ d.terms.limit \in limitsHad[c]
    BY <1>1, DraftFacts DEF SInv, Checkout
  <2>2. draft' = [draft EXCEPT ![w] = d]
    BY <1>3 DEF SInv, StorefrontTypeOK
  <2>3. /\ couponLock' \in [Coupons -> Handlers \cup {None}] /\ couponLock'[c] = w
        /\ \A x \in Coupons : x # c => couponLock'[x] = couponLock[x]
    BY <1>3, <2>1 DEF SInv, StorefrontTypeOK
  <2>4. /\ "insertOrder" \in Checking /\ Step(w, "insertOrder") /\ d.coupon \in Coupons
        /\ couponLock[d.coupon] = None /\ couponLock' = [couponLock EXCEPT ![d.coupon] = w]
    BY <1>1, <1>3, <2>1 DEF Checking
  <2>5. /\ d \in Draft /\ couponLock'[d.coupon] = w
        /\ d.coupon # None /\ d.terms.limit \in limitsHad[d.coupon]
        /\ d.terms.limit # 0 => uses[d.coupon] < d.terms.limit
    BY <1>3, <2>1, <2>3
  <2> HIDE DEF d, c
  <2>6. QED
    BY <1>1, <2>2, <2>4, <2>5, AdvanceInductive
<1>4. QED
  BY <1>2, <1>3 DEF ConsumeCoupon

LEMMA ReadLinkInductive ==
    ASSUME SInv, NEW w \in Handlers, ReadLink(w)
    PROVE  SInv'
<1>1. pc[w] = "readLink" /\ pc[w] \in Checking /\ pc[w] # "insertOrder" /\ Step(w, "insertOrder")
      /\ UNCHANGED <<itemVars, listingVars, termVars, order>>
  BY DEF ReadLink, Checking
<1>2. draft[w].coupon = None /\ draft[w].link \in Partners
  BY <1>1, DraftFacts DEF SInv, Checkout
<1>3. PICK d \in Draft : d.coupon = None /\ draft' = [draft EXCEPT ![w] = d]
  <2> DEFINE p == draft[w].link
             e == [draft[w] EXCEPT !.partner = p, !.bps = partner[p].bps]
  <2>1. CASE partner[p].active
    <3>1. partner[p].bps \in CommissionRates
      BY <1>2 DEF SInv, StorefrontTypeOK, PartnerTerms
    <3>2. e \in Draft /\ e.coupon = draft[w].coupon
      <4>1. draft[w] \in Draft
        BY <1>1, DraftFacts
      <4>2. QED
        BY <1>2, <3>1, <4>1 DEF Draft
    <3>3. draft' = [draft EXCEPT ![w] = e]
      BY <2>1 DEF ReadLink
    <3>4. QED
      BY <1>2, <3>2, <3>3
  <2>2. CASE ~partner[p].active
    <3>1. draft' = [draft EXCEPT ![w] = draft[w]]
      BY <2>2 DEF ReadLink, SInv, StorefrontTypeOK
    <3>2. QED
      BY <1>1, <1>2, <3>1, DraftFacts
  <2>3. QED
    BY <2>1, <2>2
<1>4. couponLock' = couponLock
  BY <1>1
<1>5. "insertOrder" \in Checking
  BY DEF Checking
<1>6. QED
  BY <1>1, <1>3, <1>4, <1>5, AdvanceInductive

LEMMA AbortOrderInductive ==
    ASSUME SInv, NEW w \in Handlers, AbortOrder(w)
    PROVE  SInv'
BY RejectInductive DEF AbortOrder, Checking

-----------------------------------------------------------------------------
(* The order *)

LEMMA NewOrderFacts ==
    ASSUME NEW d \in Draft, NEW l \in Listings
    PROVE  /\ NewOrder(d, l) \in Order
           /\ NewOrder(d, l).coupon = d.coupon
           /\ NewOrder(d, l).feeBps \in 0..Bps => AddsUp(NewOrder(d, l).price, NewOrder(d, l).split)
<1>1. /\ d.coupon \in Coupons \cup {None} /\ d.partner \in Partners \cup {None}
      /\ d.price \in Nat /\ d.feeBps \in Int
      /\ d.terms \in CouponTerms \cup {NoTerms} /\ d.bps \in CommissionRates \cup {0}
  BY DEF Draft
<1>2. d.bps \in 0..Bps
  <2>1. 0 \in 0..Bps
    BY DEF Bps
  <2>2. \A rate \in CommissionRates : rate \in 0..Bps
    BY StorefrontAssumption
  <2>3. QED
    BY <1>1, <2>1, <2>2
<1>3. d.terms.discount.bps \in 0..Bps /\ d.terms.discount.cents \in Nat
  <2>1. CASE d.terms \in CouponTerms
    <3>1. d.terms.discount \in [bps : 0..Bps, cents : Nat]
      <4>1. Discounts \subseteq [bps : 0..Bps, cents : Nat]
        BY StorefrontAssumption
      <4>2. d.terms.discount \in Discounts
        BY <2>1 DEF CouponTerms
      <4>3. QED
        BY <4>1, <4>2
    <3>2. QED
      BY <3>1
  <2>2. CASE d.terms = NoTerms
    BY <2>2 DEF NoTerms, Bps
  <2>3. QED
    BY <1>1, <2>1, <2>2
<1> DEFINE split == Totals(d.price, d.feeBps, d.terms.discount.bps, d.terms.discount.cents, d.bps)
<1>4. split \in Split /\ (d.feeBps \in 0..Bps => AddsUp(d.price, split))
  BY <1>1, <1>2, <1>3, TotalsType, TotalsAddUp
<1>5. NewOrder(d, l) = [listing |-> l, coupon |-> d.coupon, partner |-> d.partner, price |-> d.price,
                        feeBps |-> d.feeBps, split |-> split]
  BY DEF NewOrder
<1> HIDE DEF split
<1>6. QED
  BY <1>1, <1>4, <1>5 DEF Order

LEMMA InsertOrderInductive ==
    ASSUME SInv, NEW w \in Handlers, InsertOrder(w)
    PROVE  SInv'
<1>1. /\ pc[w] = "insertOrder" /\ pc[w] \in Checking /\ Reject(w)
      /\ couponLock' = [c \in Coupons |-> IF couponLock[c] = w THEN None ELSE couponLock[c]]
      /\ UNCHANGED <<itemVars, listingVars, fee, partner, coupon, limitsHad>>
  BY DEF InsertOrder, Checking
<1>2. CASE UNCHANGED <<order, uses>>
  BY <1>1, <1>2, RejectInductive
<1>3. CASE ~UNCHANGED <<order, uses>>
  <2> DEFINE d == draft[w]  o == serving[w]  n == NewOrder(draft[w], target[w])
  <2>1. /\ d \in Draft /\ o \in Orders /\ target[w] \in Listings /\ order[o] = None
        /\ d.coupon \in Coupons \cup {None}
    BY <1>1, DraftFacts DEF SInv, Checkout
  <2>2. /\ n \in Order /\ n # None /\ n.coupon = d.coupon
        /\ n.feeBps \in 0..Bps => AddsUp(n.price, n.split)
    BY <2>1, NewOrderFacts, NoneIsNoId
  <2>3. /\ order' = [order EXCEPT ![o] = n]
        /\ uses' = IF d.coupon = None THEN uses ELSE [uses EXCEPT ![d.coupon] = uses[d.coupon] + 1]
    BY <1>3 DEF InsertOrder
  <2> HIDE DEF n
  <2>4. /\ order' \in [Orders -> Order \cup {None}] /\ order'[o] = n
        /\ \A x \in Orders : x # o => order'[x] = order[x]
    BY <2>1, <2>2, <2>3 DEF SInv, StorefrontTypeOK
  <2>5. /\ uses' \in [Coupons -> Nat]
        /\ \A c \in Coupons : uses'[c] = IF c = d.coupon THEN uses[c] + 1 ELSE uses[c]
    BY <2>1, <2>3, NoneIsNoId DEF SInv, StorefrontTypeOK
  <2>6. /\ pc'[w] = "idle" /\ draft'[w] = None
        /\ \A v \in Handlers : v # w => /\ pc'[v] = pc[v] /\ target'[v] = target[v]
                                        /\ serving'[v] = serving[v] /\ picked'[v] = picked[v]
                                        /\ draft'[v] = draft[v]
        /\ pc' \in [Handlers -> Pcs] /\ target' \in [Handlers -> Listings \cup {None}]
        /\ serving' \in [Handlers -> Orders \cup {None}] /\ picked' \in [Handlers -> Items \cup {None}]
        /\ draft' \in [Handlers -> Draft \cup {None}]
    BY <1>1, FlightOfFinish DEF Reject, SInv, StorefrontTypeOK
  <2>7. couponLock' \in [Coupons -> Handlers \cup {None}]
    BY <1>1 DEF SInv, StorefrontTypeOK
  <2>8. StorefrontTypeOK'
    BY <1>1, <2>4, <2>5, <2>6, <2>7 DEF SInv, StorefrontTypeOK
  <2>9. StockOK' /\ LimitKnown'
    BY <1>1 DEF SInv, StockOK, LimitKnown
  <2>10. \A i \in Items : RowHeld(i)'
    BY <1>1, <2>6, NoneIsNoId DEF SInv, StorefrontTypeOK, RowHeld
  <2>11. \A v \in Handlers : Picks(v)' /\ Busy(v)'
    BY <1>1, <2>6 DEF SInv, Picks, Busy, Checking
  <2>12. \A v \in Handlers : Checkout(v)'
    <3>1. CASE d.coupon # None
      <4>1. couponLock[d.coupon] = w
        BY <1>1, <3>1 DEF SInv, Checkout
      <4>2. ASSUME NEW v \in Handlers, v # w PROVE Checkout(v)'
        <5>1. pc[v] \in Checking => draft[v] \in Draft /\ draft[v].coupon \in Coupons \cup {None} /\ serving[v] # o
          BY <1>1, <4>2, DraftFacts DEF SInv, OwnOrder
        <5>2. pc[v] = "insertOrder" /\ draft[v].coupon # None =>
                 couponLock'[draft[v].coupon] = v /\ uses'[draft[v].coupon] = uses[draft[v].coupon]
          BY <1>1, <2>5, <4>1, <4>2, <5>1 DEF SInv, Checkout, Checking
        <5>3. pc[v] \in Checking => order'[serving[v]] = None
          BY <2>4, <5>1, DraftFacts DEF SInv, Checkout
        <5>4. QED
          BY <1>1, <2>6, <4>2, <5>2, <5>3 DEF SInv, Checkout, Checking
      <4>3. Checkout(w)'
        BY <2>6 DEF Checkout, Checking
      <4>4. QED
        BY <4>2, <4>3
    <3>2. CASE d.coupon = None
      <4>1. uses' = uses
        BY <2>3, <3>2
      <4>2. ASSUME NEW v \in Handlers, v # w PROVE Checkout(v)'
        <5>1. pc[v] \in Checking => draft[v] \in Draft /\ draft[v].coupon \in Coupons \cup {None} /\ serving[v] # o
          BY <1>1, <4>2, DraftFacts DEF SInv, OwnOrder
        <5>2. pc[v] = "insertOrder" /\ draft[v].coupon # None => couponLock'[draft[v].coupon] = v
          BY <1>1, <4>2, <5>1 DEF SInv, Checkout, Checking
        <5>3. pc[v] \in Checking => order'[serving[v]] = None
          BY <2>4, <5>1, DraftFacts DEF SInv, Checkout
        <5>4. QED
          BY <1>1, <2>6, <4>1, <4>2, <5>2, <5>3 DEF SInv, Checkout, Checking
      <4>3. Checkout(w)'
        BY <2>6 DEF Checkout, Checking
      <4>4. QED
        BY <4>2, <4>3
    <3>3. QED
      BY <3>1, <3>2
  <2>13. \A u, v \in Handlers : OwnOrder(u, v)'
    BY <2>6 DEF SInv, OwnOrder, Checking
  <2>14. \A c \in Coupons : CouponHeld(c)'
    BY <1>1, <2>6, NoneIsNoId DEF SInv, StorefrontTypeOK, CouponHeld
  <2>15. CouponWithinLimit'
    <3>1. ASSUME NEW c \in Coupons PROVE 0 \in limitsHad[c] \/ \E m \in limitsHad[c] : uses'[c] <= m
      <4>1. CASE c # d.coupon
        BY <2>5, <4>1 DEF SInv, CouponWithinLimit
      <4>2. CASE c = d.coupon
        <5>1. /\ d.terms.limit \in limitsHad[c] /\ (d.terms.limit # 0 => uses[c] < d.terms.limit)
              /\ d.terms.limit \in Nat /\ uses[c] \in Nat
          <6>1. d.terms.limit \in limitsHad[c] /\ (d.terms.limit # 0 => uses[c] < d.terms.limit)
            BY <1>1, <4>2, NoneIsNoId DEF SInv, Checkout
          <6>2. limitsHad[c] \subseteq Limits /\ uses[c] \in Nat
            BY DEF SInv, StorefrontTypeOK
          <6>3. QED
            BY <6>1, <6>2, StorefrontAssumption
        <5>2. CASE d.terms.limit = 0
          BY <5>1, <5>2
        <5>3. CASE d.terms.limit # 0
          <6>1. uses'[c] <= d.terms.limit
            BY <2>5, <4>2, <5>1, <5>3
          <6>2. QED
            BY <5>1, <6>1
        <5>4. QED
          BY <5>2, <5>3
      <4>3. QED
        BY <4>1, <4>2
    <3>2. QED
      BY <1>1, <3>1 DEF CouponWithinLimit
  <2>16. CouponUsesCounted'
    <3> DEFINE With(c) == {x \in Orders : order[x] # None /\ order[x].coupon = c}
               WithNow(c) == {x \in Orders : order'[x] # None /\ order'[x].coupon = c}
    <3>1. ASSUME NEW c \in Coupons PROVE uses'[c] = Cardinality(WithNow(c))
      <4>1. uses[c] = Cardinality(With(c)) /\ IsFiniteSet(With(c)) /\ o \notin With(c)
        <5>1. IsFiniteSet(With(c))
          BY StorefrontAssumption, FS_Subset
        <5>2. QED
          BY <2>1, <5>1 DEF SInv, CouponUsesCounted
      <4>2. CASE c = d.coupon
        <5>1. WithNow(c) = With(c) \cup {o}
          BY <2>1, <2>2, <2>4, <4>2
        <5>2. Cardinality(WithNow(c)) = Cardinality(With(c)) + 1
          BY <4>1, <5>1, FS_AddElement
        <5>3. QED
          BY <2>5, <4>1, <4>2, <5>2
      <4>3. CASE c # d.coupon
        <5>1. WithNow(c) = With(c)
          BY <2>1, <2>2, <2>4, <4>3
        <5>2. QED
          BY <2>5, <4>1, <4>3, <5>1
      <4>4. QED
        BY <4>2, <4>3
    <3>2. QED
      BY <3>1 DEF CouponUsesCounted
  <2>17. OrdersAddUp'
    BY <2>2, <2>4 DEF SInv, OrdersAddUp
  <2>18. QED
    BY <2>8, <2>9, <2>10, <2>11, <2>12, <2>13, <2>14, <2>15, <2>16, <2>17 DEF SInv
<1>4. QED
  BY <1>2, <1>3
-----------------------------------------------------------------------------
(* Reservations *)

LEMMA StartReserveInductive ==
    ASSUME SInv, NEW w \in Handlers, NEW o \in Orders, NEW l \in Listings, StartReserve(w, o, l)
    PROVE  SInv'
<1>1. /\ pc[w] = "idle" /\ pc'[w] = "reserveFind" /\ target'[w] = l /\ serving'[w] = o /\ picked' = picked
      /\ \A v \in Handlers : v # w => pc'[v] = pc[v] /\ target'[v] = target[v] /\ serving'[v] = serving[v]
      /\ pc' \in [Handlers -> Pcs] /\ target' \in [Handlers -> Listings \cup {None}]
      /\ serving' \in [Handlers -> Orders \cup {None}]
  BY FlightOfStart DEF StartReserve, Pcs
<1>2. UNCHANGED <<itemVars, listingVars, termVars, orderVars>>
  BY DEF StartReserve
<1>3. StorefrontTypeOK'
  BY <1>1, <1>2 DEF SInv, StorefrontTypeOK
<1>4. Others(w) /\ LockMoves(w)
  BY <1>1, <1>2, NoLocks DEF Others
<1>5. draft[w] = None
  BY <1>1 DEF SInv, Checkout, Checking
<1>6. Picks(w)' /\ Busy(w)' /\ Checkout(w)' /\ pc'[w] \notin Checking
  BY <1>1, <1>2, <1>5 DEF Picks, Busy, Checkout, Checking
<1>7. QED
  BY <1>2, <1>3, <1>4, <1>6, MoveInductive

\* A reservation ends without having written.
LEMMA ReserveEnds ==
    ASSUME SInv, NEW w \in Handlers, pc[w] \in {"reserveFind", "reservePick", "reserveWrite"}, Finish(w),
           UNCHANGED <<itemOf, itemStatus, holder, listingVars, termVars, orderVars>>,
           rowLock' \in [Items -> Handlers \cup {None}],
           \A i \in Items : rowLock'[i] = IF rowLock[i] = w THEN None ELSE rowLock[i]
    PROVE  SInv'
<1>1. /\ pc'[w] = "idle"
      /\ \A v \in Handlers : v # w => /\ pc'[v] = pc[v] /\ target'[v] = target[v]
                                      /\ serving'[v] = serving[v] /\ picked'[v] = picked[v]
      /\ pc' \in [Handlers -> Pcs] /\ target' \in [Handlers -> Listings \cup {None}]
      /\ serving' \in [Handlers -> Orders \cup {None}] /\ picked' \in [Handlers -> Items \cup {None}]
  BY FlightOfFinish
<1>2. StorefrontTypeOK'
  BY <1>1 DEF SInv, StorefrontTypeOK
<1>3. Others(w)
  BY <1>1 DEF Others
<1>4. LockMoves(w)
  BY NoneIsNoId DEF SInv, CouponHeld, LockMoves
<1>5. draft[w] = None
  BY DEF SInv, Checkout, Checking
<1>6. Picks(w)' /\ Busy(w)' /\ Checkout(w)' /\ pc'[w] \notin Checking
  BY <1>1, <1>5 DEF Picks, Busy, Checkout, Checking
<1>7. QED
  BY <1>2, <1>3, <1>4, <1>6, MoveInductive

LEMMA NotHeld ==
    ASSUME SInv, NEW w \in Handlers, pc[w] # "reserveWrite", UNCHANGED rowLock
    PROVE  /\ rowLock' \in [Items -> Handlers \cup {None}]
           /\ \A i \in Items : rowLock[i] # w /\ rowLock'[i] = IF rowLock[i] = w THEN None ELSE rowLock[i]
BY NoneIsNoId DEF SInv, StorefrontTypeOK, RowHeld

LEMMA ReserveFindInductive ==
    ASSUME SInv, NEW w \in Handlers, ReserveFind(w), UNCHANGED <<listingVars, termVars, orderVars>>
    PROVE  SInv'
<1>1. pc[w] = "reserveFind" /\ UNCHANGED itemVars
  BY DEF ReserveFind
<1>2. CASE Finish(w)
  BY <1>1, <1>2, NotHeld, ReserveEnds
<1>3. CASE Step(w, "reservePick")
  <2>1. /\ pc'[w] = "reservePick" /\ UNCHANGED <<target, serving, picked>>
        /\ \A v \in Handlers : v # w => pc'[v] = pc[v]
        /\ pc' \in [Handlers -> Pcs]
    BY <1>3, FlightOfStep DEF Pcs
  <2>2. StorefrontTypeOK'
    BY <1>1, <2>1 DEF SInv, StorefrontTypeOK
  <2>3. Others(w) /\ LockMoves(w)
    BY <1>1, <2>1, NoLocks DEF Others
  <2>4. Picks(w)' /\ Busy(w)' /\ Checkout(w)' /\ pc'[w] \notin Checking
    BY <1>1, <2>1 DEF SInv, Picks, Busy, Checkout, Checking
  <2>5. QED
    BY <1>1, <2>2, <2>3, <2>4, MoveInductive
<1>4. QED
  BY <1>2, <1>3 DEF ReserveFind

LEMMA ReservePickInductive ==
    ASSUME SInv, NEW w \in Handlers, ReservePick(w), UNCHANGED <<listingVars, termVars, orderVars>>
    PROVE  SInv'
<1>1. pc[w] = "reservePick" /\ UNCHANGED <<itemOf, itemStatus, holder>>
  BY DEF ReservePick
<1>2. CASE Finish(w) /\ UNCHANGED rowLock
  BY <1>1, <1>2, NotHeld, ReserveEnds
<1>3. CASE \E i \in Available(target[w]) :
             /\ rowLock[i] = None
             /\ rowLock' = [rowLock EXCEPT ![i] = w] /\ picked' = [picked EXCEPT ![w] = i]
             /\ Goto(w, "reserveWrite") /\ UNCHANGED <<target, serving>>
  <2>1. PICK i \in Available(target[w]) :
             /\ rowLock[i] = None
             /\ rowLock' = [rowLock EXCEPT ![i] = w] /\ picked' = [picked EXCEPT ![w] = i]
             /\ Goto(w, "reserveWrite") /\ UNCHANGED <<target, serving>>
    BY <1>3
  <2>2. /\ i \in Items /\ itemOf[i] # None /\ itemStatus[i] = "AVAILABLE" /\ holder[i] = None
    BY <1>1, NoneIsNoId DEF Available, SInv, Busy
  <2>3. /\ pc'[w] = "reserveWrite" /\ picked'[w] = i
        /\ \A v \in Handlers : v # w => pc'[v] = pc[v] /\ picked'[v] = picked[v]
        /\ pc' \in [Handlers -> Pcs] /\ picked' \in [Handlers -> Items \cup {None}]
        /\ rowLock' \in [Items -> Handlers \cup {None}] /\ rowLock'[i] = w
        /\ \A x \in Items : x # i => rowLock'[x] = rowLock[x]
    BY <2>1, <2>2 DEF Goto, Pcs, SInv, StorefrontTypeOK
  <2>4. StorefrontTypeOK'
    BY <1>1, <2>1, <2>3 DEF SInv, StorefrontTypeOK
  <2>5. Others(w)
    BY <2>1, <2>3 DEF Others
  <2>6. LockMoves(w)
    <3>1. \A x \in Items : rowLock[x] # w
      BY <1>1, NoneIsNoId DEF SInv, RowHeld
    <3>2. \A c \in Coupons : couponLock[c] # w
      BY <1>1, NoneIsNoId DEF SInv, CouponHeld
    <3>3. QED
      BY <2>1, <2>3, <3>1, <3>2 DEF LockMoves
  <2>7. Picks(w)' /\ Busy(w)' /\ Checkout(w)' /\ pc'[w] \notin Checking
    BY <1>1, <2>1, <2>2, <2>3 DEF SInv, Picks, Busy, Checkout, Checking
  <2>8. QED
    BY <1>1, <2>4, <2>5, <2>6, <2>7, MoveInductive
<1>4. QED
  BY <1>2, <1>3 DEF ReservePick

LEMMA ReserveAbortInductive ==
    ASSUME SInv, NEW w \in Handlers, ReserveAbort(w), UNCHANGED <<listingVars, termVars, orderVars>>
    PROVE  SInv'
<1>1. /\ rowLock' \in [Items -> Handlers \cup {None}]
      /\ \A i \in Items : rowLock'[i] = IF rowLock[i] = w THEN None ELSE rowLock[i]
  BY DEF ReserveAbort, SInv, StorefrontTypeOK
<1>2. QED
  BY <1>1, ReserveEnds DEF ReserveAbort

\* What a reservation's commit does.
LEMMA WriteFacts ==
    ASSUME SInv, NEW w \in Handlers, ReserveWrite(w)
    PROVE  /\ pc[w] = "reserveWrite" /\ picked[w] \in Items /\ serving[w] \in Orders /\ rowLock[picked[w]] = w
           /\ itemOf[picked[w]] # None /\ itemStatus[picked[w]] = "AVAILABLE" /\ holder[picked[w]] = None
           /\ itemStatus' = [itemStatus EXCEPT ![picked[w]] = "RESERVED"]
           /\ holder' = [holder EXCEPT ![picked[w]] = serving[w]]
           /\ rowLock' = [rowLock EXCEPT ![picked[w]] = None]
           /\ Finish(w) /\ UNCHANGED itemOf
BY DEF SInv, Picks, Busy, ReserveWrite

LEMMA ReserveWriteInductive ==
    ASSUME SInv, NEW w \in Handlers, ReserveWrite(w), UNCHANGED <<listingVars, termVars, orderVars>>
    PROVE  SInv'
<1> DEFINE i == picked[w]
<1>1. /\ pc[w] = "reserveWrite" /\ i \in Items /\ serving[w] \in Orders /\ rowLock[i] = w
      /\ itemOf[i] # None /\ Finish(w) /\ UNCHANGED itemOf
  BY WriteFacts
<1>2. /\ itemStatus' \in [Items -> InventoryStatus] /\ itemStatus'[i] = "RESERVED"
      /\ holder' \in [Items -> Orders \cup {None}]
      /\ rowLock' \in [Items -> Handlers \cup {None}] /\ rowLock'[i] = None
      /\ \A x \in Items : x # i => itemStatus'[x] = itemStatus[x] /\ holder'[x] = holder[x]
                                   /\ rowLock'[x] = rowLock[x]
  <2>1. /\ itemStatus' = [itemStatus EXCEPT ![i] = "RESERVED"]
        /\ holder' = [holder EXCEPT ![i] = serving[w]]
        /\ rowLock' = [rowLock EXCEPT ![i] = None]
    BY WriteFacts
  <2> HIDE DEF i
  <2>2. itemStatus' \in [Items -> InventoryStatus] /\ itemStatus'[i] = "RESERVED"
    BY <1>1, <2>1 DEF SInv, StorefrontTypeOK, InventoryStatus
  <2>3. holder' \in [Items -> Orders \cup {None}]
    BY <1>1, <2>1 DEF SInv, StorefrontTypeOK
  <2>4. rowLock' \in [Items -> Handlers \cup {None}] /\ rowLock'[i] = None
    BY <1>1, <2>1 DEF SInv, StorefrontTypeOK
  <2>5. \A x \in Items : x # i => itemStatus'[x] = itemStatus[x] /\ holder'[x] = holder[x]
                                   /\ rowLock'[x] = rowLock[x]
    BY <2>1 DEF SInv, StorefrontTypeOK
  <2>6. QED
    BY <2>2, <2>3, <2>4, <2>5
<1>3. /\ pc'[w] = "idle"
      /\ \A v \in Handlers : v # w => /\ pc'[v] = pc[v] /\ target'[v] = target[v]
                                      /\ serving'[v] = serving[v] /\ picked'[v] = picked[v]
      /\ pc' \in [Handlers -> Pcs] /\ target' \in [Handlers -> Listings \cup {None}]
      /\ serving' \in [Handlers -> Orders \cup {None}] /\ picked' \in [Handlers -> Items \cup {None}]
  BY <1>1, FlightOfFinish
<1>4. StorefrontTypeOK'
  BY <1>1, <1>2, <1>3 DEF SInv, StorefrontTypeOK
<1>5. StockOK' /\ LimitKnown'
  BY <1>1, <1>2 DEF SInv, StockOK, LimitKnown
<1>6. ASSUME NEW x \in Items PROVE RowHeld(x)'
  <2>1. CASE x = i
    BY <1>2, <2>1 DEF RowHeld
  <2>2. CASE x # i
    <3>1. rowLock'[x] = rowLock[x] /\ rowLock[x] # w
      BY <1>1, <1>2, <2>2, NoneIsNoId DEF SInv, RowHeld
    <3>2. QED
      BY <1>3, <3>1 DEF SInv, StorefrontTypeOK, RowHeld
  <2>3. QED
    BY <2>1, <2>2
<1>7. \A v \in Handlers : Picks(v)'
  <2>1. ASSUME NEW v \in Handlers, v # w, pc[v] = "reserveWrite" PROVE picked[v] # i
    BY <1>1, <2>1 DEF SInv, Picks
  <2>2. QED
    BY <1>1, <1>2, <1>3, <2>1 DEF SInv, Picks
<1>8. \A v \in Handlers : Busy(v)' /\ Checkout(v)'
  BY <1>1, <1>3 DEF SInv, Busy, Checkout, Checking
<1>9. \A u, v \in Handlers : OwnOrder(u, v)'
  BY <1>3 DEF SInv, OwnOrder, Checking
<1>10. ASSUME NEW c \in Coupons PROVE CouponHeld(c)'
  <2>1. couponLock[c] # w
    BY <1>1, NoneIsNoId DEF SInv, CouponHeld
  <2>2. QED
    BY <1>3, <2>1 DEF SInv, StorefrontTypeOK, CouponHeld
<1>11. CouponWithinLimit' /\ CouponUsesCounted' /\ OrdersAddUp'
  BY DEF SInv, CouponWithinLimit, CouponUsesCounted, OrdersAddUp
<1>12. QED
  BY <1>4, <1>5, <1>6, <1>7, <1>8, <1>9, <1>10, <1>11 DEF SInv

-----------------------------------------------------------------------------
(* Theorems *)

LEMMA InitInductive == Init => SInv
<1> SUFFICES ASSUME Init PROVE SInv
  OBVIOUS
<1>1. StorefrontTypeOK
  <2>1. /\ itemOf \in [Items -> Listings \cup {None}] /\ itemStatus \in [Items -> InventoryStatus]
        /\ holder \in [Items -> Orders \cup {None}] /\ rowLock \in [Items -> Handlers \cup {None}]
    BY DEF Init, InventoryInit, InventoryStatus
  <2>2. /\ pc \in [Handlers -> Pcs] /\ target \in [Handlers -> Listings \cup {None}]
        /\ serving \in [Handlers -> Orders \cup {None}] /\ picked \in [Handlers -> Items \cup {None}]
    BY DEF Init, InventoryInit, Pcs
  <2>3. /\ listing \in [Listings -> ListingStatus] /\ price \in [Listings -> Prices]
        /\ seen \in [Handlers -> ListingStatus] /\ fee \in FeeRates /\ partner \in [Partners -> PartnerTerms]
    BY DEF Init, ListingStatus
  <2>4. /\ coupon \in [Coupons -> CouponTerms] /\ uses \in [Coupons -> Nat]
        /\ couponLock \in [Coupons -> Handlers \cup {None}]
        /\ order \in [Orders -> Order \cup {None}] /\ draft \in [Handlers -> Draft \cup {None}]
    BY DEF Init
  <2>5. limitsHad \in [Coupons -> SUBSET Limits]
    <3>1. \A c \in Coupons : {coupon[c].limit} \in SUBSET Limits
      BY <2>4 DEF CouponTerms
    <3>2. QED
      BY <3>1 DEF Init
  <2>6. QED
    BY <2>1, <2>2, <2>3, <2>4, <2>5 DEF StorefrontTypeOK
<1>2. StockOK /\ LimitKnown /\ (\A i \in Items : RowHeld(i)) /\ (\A c \in Coupons : CouponHeld(c))
  BY DEF Init, InventoryInit, StockOK, LimitKnown, RowHeld, CouponHeld
<1>3. \A w \in Handlers : Picks(w) /\ Busy(w) /\ Checkout(w)
  BY DEF Init, InventoryInit, Picks, Busy, Checkout, Checking
<1>4. \A w, v \in Handlers : OwnOrder(w, v)
  BY DEF Init, InventoryInit, OwnOrder, Checking
<1>5. CouponWithinLimit
  <2>1. \A c \in Coupons : coupon[c].limit \in Nat
    BY <1>1, StorefrontAssumption DEF StorefrontTypeOK, CouponTerms
  <2>2. \A c \in Coupons : coupon[c].limit \in limitsHad[c] /\ uses[c] = 0
    BY DEF Init
  <2>3. QED
    BY <2>1, <2>2 DEF CouponWithinLimit
<1>6. CouponUsesCounted
  <2>1. \A c \in Coupons : {o \in Orders : order[o] # None /\ order[o].coupon = c} = {} /\ uses[c] = 0
    BY DEF Init
  <2>2. QED
    BY <2>1, FS_EmptySet DEF CouponUsesCounted
<1>7. OrdersAddUp
  BY DEF Init, OrdersAddUp
<1>8. QED
  BY <1>1, <1>2, <1>3, <1>4, <1>5, <1>6, <1>7 DEF SInv

LEMMA NextInductive == SInv /\ [Next]_vars => SInv'
<1> SUFFICES ASSUME SInv, [Next]_vars PROVE SInv'
  OBVIOUS
<1>1. ASSUME NEW w \in Handlers, Begin(w) PROVE SInv'
  BY <1>1, ReadRowInductive, StartReserveInductive, CreateOrderInductive DEF Begin
<1>2. ASSUME NEW w \in Handlers, Continue(w) PROVE SInv'
  BY <1>2, WriteRowInductive, ReadListingInductive, CountItemsInductive, ReadCouponInductive,
     ConsumeCouponInductive, ReadLinkInductive, InsertOrderInductive, ReserveFindInductive,
     ReservePickInductive, ReserveWriteInductive, ReserveAbortInductive DEF Continue, Reserve
<1>3. ASSUME NEW l \in Listings, DeleteListing(l) \/ \E cents \in Prices : CreateListing(l, cents)
      PROVE  SInv'
  BY <1>3, DeleteListingInductive, OutsideInductive
<1>4. QED
  BY <1>1, <1>2, <1>3, OutsideInductive, ManageInventoryInductive, AbortOrderInductive DEF Next

\* The invariant that carries the others.
THEOREM StorefrontInvariant == Spec => []SInv
BY InitInductive, NextInductive, PTL DEF Spec

\* Every variable keeps its type, for any number of listings, coupons, orders and handlers.
THEOREM StorefrontTypeCorrect == Spec => []StorefrontTypeOK
<1>1. SInv => StorefrontTypeOK
  BY DEF SInv
<1>2. QED
  BY <1>1, StorefrontInvariant, PTL

\* usesCount stays within some limit the coupon has had.
THEOREM CouponsStayWithinLimit == Spec => []CouponWithinLimit
<1>1. SInv => CouponWithinLimit
  BY DEF SInv
<1>2. QED
  BY <1>1, StorefrontInvariant, PTL

\* usesCount counts exactly the orders that were created with the coupon.
THEOREM CouponUsesAreCounted == Spec => []CouponUsesCounted
<1>1. SInv => CouponUsesCounted
  BY DEF SInv
<1>2. QED
  BY <1>1, StorefrontInvariant, PTL

\* The split stored with any order adds up, for every price and every fee rate up to 100%.
THEOREM OrdersAlwaysAddUp == Spec => []OrdersAddUp
<1>1. SInv => OrdersAddUp
  BY DEF SInv
<1>2. QED
  BY <1>1, StorefrontInvariant, PTL

-----------------------------------------------------------------------------
(* The storefront implements module Sale *)

OnSale == {i \in Items : itemStatus[i] = "AVAILABLE" /\ itemOf[i] # None}

LEMMA SaleRests ==
    ASSUME UNCHANGED <<itemOf, itemStatus, holder>>
    PROVE  [Shop!SaleNext]_(Shop!saleVars)
<1>1. UNCHANGED Shop!saleVars
  BY DEF Shop!saleVars
<1>2. QED
  BY <1>1

LEMMA SaleManages ==
    ASSUME SInv, SInv', NEW rows \in SUBSET Items,
           \A i \in Items : i \notin rows => itemOf'[i] = itemOf[i] /\ itemStatus'[i] = itemStatus[i],
           \A i \in Items : \/ holder'[i] = holder[i]
                            \/ i \in rows /\ holder'[i] = None
    PROVE  [Shop!SaleNext]_(Shop!saleVars)
<1>1. \A i \in OnSale' : holder'[i] = None
  BY DEF SInv, StockOK, OnSale
<1>2. OnSale' \subseteq OnSale \cup rows /\ OnSale \subseteq OnSale' \cup rows
  BY DEF OnSale
<1>3. holder' \in [Items -> Orders \cup {None}]
  BY DEF SInv, StorefrontTypeOK
<1>4. Shop!Manage(rows)
  BY <1>1, <1>2, <1>3 DEF Shop!Manage, OnSale
<1>5. QED
  BY <1>4 DEF Shop!SaleNext

LEMMA SaleSells ==
    ASSUME SInv, NEW w \in Handlers, ReserveWrite(w)
    PROVE  [Shop!SaleNext]_(Shop!saleVars)
<1>1. PICK i \in Items, o \in Orders :
          /\ itemOf[i] # None /\ itemStatus[i] = "AVAILABLE" /\ holder[i] = None
          /\ itemStatus' = [itemStatus EXCEPT ![i] = "RESERVED"]
          /\ holder' = [holder EXCEPT ![i] = o] /\ itemOf' = itemOf
  BY WriteFacts
<1>2. i \in OnSale /\ OnSale' = OnSale \ {i}
  BY <1>1 DEF OnSale, SInv, StorefrontTypeOK
<1>3. Shop!Sell(i, o)
  BY <1>1, <1>2 DEF Shop!Sell, OnSale
<1>4. QED
  BY <1>1, <1>3 DEF Shop!SaleNext

LEMMA SaleSteps == SInv /\ SInv' /\ [Next]_vars => [Shop!SaleNext]_(Shop!saleVars)
<1> SUFFICES ASSUME SInv, SInv', [Next]_vars PROVE [Shop!SaleNext]_(Shop!saleVars)
  OBVIOUS
<1>1. CASE UNCHANGED <<itemOf, itemStatus, holder>>
  BY <1>1, SaleRests
<1>2. CASE \E w \in Handlers : ReserveWrite(w)
  BY <1>2, SaleSells
<1>3. CASE ManageInventory
  <2>1. ASSUME NEW l \in Listings, NEW rows \in SUBSET Items, AddInventoryItems(l, rows)
        PROVE  [Shop!SaleNext]_(Shop!saleVars)
    BY <2>1, SaleManages DEF AddInventoryItems
  <2>2. ASSUME NEW i \in Items, RemoveInventoryItem(i)
        PROVE  [Shop!SaleNext]_(Shop!saleVars)
    <3>1. {i} \in SUBSET Items /\ \A x \in Items : x \notin {i} => itemOf'[x] = itemOf[x] /\ itemStatus'[x] = itemStatus[x]
      BY <2>2 DEF RemoveInventoryItem, SInv, StorefrontTypeOK
    <3>2. \A x \in Items : holder'[x] = holder[x]
      BY <2>2 DEF RemoveInventoryItem
    <3>3. QED
      BY <3>1, <3>2, SaleManages
  <2>3. ASSUME NEW i \in Items, NEW s \in InventoryStatus, UpdateInventoryItem(i, s)
        PROVE  [Shop!SaleNext]_(Shop!saleVars)
    <3>1. {i} \in SUBSET Items /\ \A x \in Items : x \notin {i} => itemOf'[x] = itemOf[x] /\ itemStatus'[x] = itemStatus[x]
      BY <2>3 DEF UpdateInventoryItem, SInv, StorefrontTypeOK
    <3>2. \A x \in Items : holder'[x] = holder[x] \/ (x \in {i} /\ holder'[x] = None)
      BY <2>3 DEF UpdateInventoryItem, SInv, StorefrontTypeOK
    <3>3. QED
      BY <3>1, <3>2, SaleManages
  <2>4. QED
    BY <1>3, <2>1, <2>2, <2>3 DEF ManageInventory
<1>4. ASSUME NEW l \in Listings, DeleteListing(l)
      PROVE  [Shop!SaleNext]_(Shop!saleVars)
  <2> DEFINE rows == {i \in Items : itemOf[i] = l}
  <2>1. /\ rows \in SUBSET Items
        /\ \A i \in Items : i \notin rows => itemOf'[i] = itemOf[i] /\ itemStatus'[i] = itemStatus[i]
        /\ \A i \in Items : holder'[i] = holder[i] \/ (i \in rows /\ holder'[i] = None)
    BY <1>4 DEF DeleteListing
  <2> HIDE DEF rows
  <2>2. QED
    BY <2>1, SaleManages
<1>5. CASE /\ ~\E w \in Handlers : ReserveWrite(w)
           /\ ~ManageInventory
           /\ ~\E l \in Listings : DeleteListing(l)
  <2>1. ASSUME NEW w \in Handlers, Begin(w) PROVE UNCHANGED <<itemOf, itemStatus, holder>>
    BY <2>1 DEF Begin, UpdateListing, SubmitListing, ModerateListing, ReadRow, StartReserve, CreateOrder
  <2>2. ASSUME NEW w \in Handlers, Continue(w) PROVE UNCHANGED <<itemOf, itemStatus, holder>>
    <3>1. CASE Reserve(w)
      BY <1>5, <3>1 DEF Reserve, ReserveFind, ReservePick, ReserveAbort
    <3>2. CASE ReadListing(w) \/ CountItems(w) \/ ReadCoupon(w) \/ ConsumeCoupon(w)
               \/ ReadLink(w) \/ InsertOrder(w)
      BY <3>2 DEF ReadListing, CountItems, ReadCoupon, ConsumeCoupon, ReadLink, InsertOrder
    <3>3. CASE StatusWrite(w) \/ \E cents \in Prices : UpdateWrite(w, cents)
      BY <3>3 DEF UpdateWrite, StatusWrite, WriteRow
    <3>4. QED
      BY <2>2, <3>1, <3>2, <3>3 DEF Continue
  <2>3. ASSUME NEW w \in Handlers, AbortOrder(w) PROVE UNCHANGED <<itemOf, itemStatus, holder>>
    BY <2>3 DEF AbortOrder
  <2>4. UNCHANGED <<itemOf, itemStatus, holder>>
    BY <1>5, <2>1, <2>2, <2>3 DEF Next, CreateListing, UpdateSettings, UpdatePartner, UpdateCoupon
  <2>5. QED
    BY <2>4, SaleRests
<1>6. QED
  BY <1>2, <1>3, <1>4, <1>5

\* No row is handed to an order while another has it, and none that has an owner is AVAILABLE.
THEOREM SaleIsKept == Spec => SaleKept
<1>1. Init => Shop!SaleInit
  BY DEF Init, InventoryInit, Shop!SaleInit
<1>2. QED
  BY <1>1, InitInductive, NextInductive, SaleSteps, PTL DEF Spec, SaleKept, Shop!SaleSpec
=============================================================================
