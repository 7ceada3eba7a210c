----------------------------- MODULE Storefront -----------------------------
(***************************************************************************)
(* What a checkout draws on: the listing and its moderation, the inventory   *)
(* rows, the coupon and its limit, the partner, the fee of the settings, and *)
(* the order with the split of its price that createOrder computes from     *)
(* them.                                                                    *)
(*                                                                          *)
(* createOrder is one READ COMMITTED transaction of several statements, so   *)
(* every row it has read may have changed before it commits; the coupon row  *)
(* it has updated stays locked until then.  An order has one item.          *)
(***************************************************************************)
EXTENDS Inventory, Attribution

CONSTANTS
    Coupons, Partners,
    ListingFee,   \* Listing.platformFeeBps; None: the settings' rate
    Prices, FeeRates, CommissionRates, Discounts, Limits, Quantities  \* values in use

ASSUME StorefrontAssumption ==
    /\ ListingFee \in [Listings -> Int \cup {None}]
    /\ None \notin Int \cup Handlers \cup Orders \cup Listings \cup Items \cup Coupons \cup Partners
    /\ Prices \subseteq Nat \ {0}
    /\ FeeRates \subseteq 0..Bps
    /\ CommissionRates \subseteq 0..Bps
    /\ Discounts \subseteq [bps : 0..Bps, cents : Nat]
    /\ Limits \subseteq Nat      \* Coupon.maxUses; 0: no limit
    /\ Quantities \subseteq Nat \ {0}
    /\ IsFiniteSet(Orders)

ListingStatus == {"NONE", "DRAFT", "PENDING", "PUBLISHED", "SUSPENDED"}
PartnerTerms == [active : BOOLEAN, bps : CommissionRates]
CouponTerms == [active : BOOLEAN, partner : Partners \cup {None}, discount : Discounts, limit : Limits]

VARIABLES
    listing,     \* Listing.status
    price,       \* Listing.priceCents
    fee,         \* PlatformSetting.platformFeeBps
    partner,     \* Partner.active, Partner.commissionBps
    coupon,      \* Coupon.active, partnerId, discountBps, discountCents, maxUses
    uses,        \* Coupon.usesCount
    couponLock,  \* the handler that holds the coupon row's lock
    limitsHad,   \* the limits the coupon has had so far
    order,       \* Order and OrderAttribution; None: no such order
    seen,        \* the listing status a handler has read or is about to write
    draft        \* what createOrder has read so far

listingVars == <<listing, price, seen>>
couponVars == <<coupon, uses, couponLock, limitsHad>>
termVars == <<fee, partner, couponVars>>
orderVars == <<order, draft>>
vars == <<itemVars, flightVars, listingVars, termVars, orderVars>>

NoTerms == [active |-> FALSE, partner |-> None, discount |-> [bps |-> 0, cents |-> 0], limit |-> 0]
Draft == [quantity : Quantities, coupon : Coupons \cup {None}, link : Partners \cup {None},
          price : Nat, feeBps : Int, terms : CouponTerms \cup {NoTerms},
          partner : Partners \cup {None}, bps : CommissionRates \cup {0}]
Split == [discount : Int, feeBase : Int, feeFinal : Nat, commission : Nat, total : Nat]
Order == [listing : Listings \cup {None}, coupon : Coupons \cup {None},
          partner : Partners \cup {None}, price : Nat, feeBps : Int, split : Split]
ASSUME AbsentAssumption == None \notin Draft /\ None \notin Order

Pcs == {"idle", "reserveFind", "reservePick", "reserveWrite", "readListing", "countItems",
        "readCoupon", "consumeCoupon", "readLink", "insertOrder", "updateWrite",
        "statusWrite"}

StorefrontTypeOK ==
    /\ itemOf \in [Items -> Listings \cup {None}]
    /\ itemStatus \in [Items -> InventoryStatus]
    /\ holder \in [Items -> Orders \cup {None}]
    /\ rowLock \in [Items -> Handlers \cup {None}]
    /\ pc \in [Handlers -> Pcs]
    /\ target \in [Handlers -> Listings \cup {None}]
    /\ serving \in [Handlers -> Orders \cup {None}]
    /\ picked \in [Handlers -> Items \cup {None}]
    /\ listing \in [Listings -> ListingStatus]
    /\ price \in [Listings -> Prices]
    /\ seen \in [Handlers -> ListingStatus]
    /\ fee \in FeeRates
    /\ partner \in [Partners -> PartnerTerms]
    /\ coupon \in [Coupons -> CouponTerms]
    /\ uses \in [Coupons -> Nat]
    /\ couponLock \in [Coupons -> Handlers \cup {None}]
    /\ limitsHad \in [Coupons -> SUBSET Limits]
    /\ order \in [Orders -> Order \cup {None}]
    /\ draft \in [Handlers -> Draft \cup {None}]

Init ==
    /\ InventoryInit
    /\ listing = [l \in Listings |-> "NONE"]
    /\ price \in [Listings -> Prices]
    /\ seen = [w \in Handlers |-> "NONE"]
    /\ fee \in FeeRates
    /\ partner \in [Partners -> PartnerTerms]
    /\ coupon \in [Coupons -> CouponTerms]
    /\ uses = [c \in Coupons |-> 0]
    /\ couponLock = [c \in Coupons |-> None]
    /\ limitsHad = [c \in Coupons |-> {coupon[c].limit}]
    /\ order = [o \in Orders |-> None]
    /\ draft = [w \in Handlers |-> None]

(***************************************************************************)
(* Listings and their moderation: each handler reads the row, checks its      *)
(* status and writes later, by id.                                          *)
(***************************************************************************)

\* createListing, createListingAsAdmin
CreateListing(l, cents) ==
    /\ listing[l] = "NONE"
    /\ listing' = [listing EXCEPT ![l] = "DRAFT"]
    /\ price' = [price EXCEPT ![l] = cents]
    /\ UNCHANGED <<itemVars, flightVars, seen, termVars, orderVars>>

ReadRow(w, l, label, status) ==
    /\ Start(w, label, l, None)
    /\ seen' = [seen EXCEPT ![w] = status]
    /\ UNCHANGED <<itemVars, listing, price, termVars, orderVars>>

\* An edit sends a listing back to moderation if it was PUBLISHED when it was read.
UpdateListing(w, l) ==
    /\ listing[l] \notin {"NONE", "SUSPENDED"}
    /\ ReadRow(w, l, "updateWrite", listing[l])

SubmitListing(w, l) ==
    /\ listing[l] \in {"DRAFT", "SUSPENDED"}
    /\ ReadRow(w, l, "statusWrite", "PENDING")

\* approveListing, rejectListing, suspendListing, archiveListing
ModerateListing(w, l, to) ==
    /\ listing[l] # "NONE"
    /\ to = "SUSPENDED" \/ listing[l] = "PENDING"
    /\ ReadRow(w, l, "statusWrite", to)

\* The handler's update; a row deleted since makes it throw.
WriteRow(w, status, cents) ==
    LET l == target[w] IN
    /\ IF listing[l] = "NONE"
       THEN UNCHANGED <<listing, price>>
       ELSE /\ listing' = [listing EXCEPT ![l] = status]
            /\ price' = [price EXCEPT ![l] = cents]
    /\ seen' = [seen EXCEPT ![w] = "NONE"]
    /\ Finish(w)
    /\ UNCHANGED <<itemVars, termVars, orderVars>>

UpdateWrite(w, cents) ==
    /\ pc[w] = "updateWrite"
    /\ WriteRow(w, IF seen[w] = "PUBLISHED" THEN "PENDING" ELSE listing[target[w]], cents)

StatusWrite(w) ==
    /\ pc[w] = "statusWrite"
    /\ WriteRow(w, seen[w], price[target[w]])

\* deleteListing: the foreign keys delete the inventory rows of the listing and detach
\* its order items.
DeleteListing(l) ==
    LET rows == {i \in Items : itemOf[i] = l} IN
    /\ listing[l] # "NONE"
    /\ \A i \in rows : rowLock[i] = None
    /\ listing' = [listing EXCEPT ![l] = "NONE"]
    /\ itemOf' = [i \in Items |-> IF i \in rows THEN None ELSE itemOf[i]]
    /\ itemStatus' = [i \in Items |-> IF i \in rows THEN "DISABLED" ELSE itemStatus[i]]
    /\ holder' = [i \in Items |-> IF i \in rows THEN None ELSE holder[i]]
    /\ order' = [o \in Orders |-> IF order[o] # None /\ order[o].listing = l
                                  THEN [order[o] EXCEPT !.listing = None] ELSE order[o]]
    /\ UNCHANGED <<rowLock, flightVars, price, seen, termVars, draft>>

(***************************************************************************)
(* The terms of an order: settings, partners, coupons.                      *)
(***************************************************************************)
UpdateSettings(rate) ==
    /\ fee' = rate
    /\ UNCHANGED <<itemVars, flightVars, listingVars, partner, couponVars, orderVars>>

\* updatePartner, deletePartner
UpdatePartner(p, terms) ==
    /\ partner' = [partner EXCEPT ![p] = terms]
    /\ UNCHANGED <<itemVars, flightVars, listingVars, fee, couponVars, orderVars>>

PartnerActive(p) == p # None => partner[p].active
PartnerBps(p) == IF p = None THEN 0 ELSE partner[p].bps

\* updateCoupon, deleteCoupon: a coupon is linked only to an active partner.
UpdateCoupon(c, terms) ==
    /\ couponLock[c] = None
    /\ terms.partner # coupon[c].partner => PartnerActive(terms.partner)
    /\ coupon' = [coupon EXCEPT ![c] = terms]
    /\ limitsHad' = [limitsHad EXCEPT ![c] = @ \cup {terms.limit}]
    /\ UNCHANGED <<itemVars, flightVars, listingVars, fee, partner, uses, couponLock, orderVars>>

\* The seller's rows.
ManageInventory ==
    /\ \/ \E l \in Listings, rows \in SUBSET Items :
             listing[l] # "NONE" /\ AddInventoryItems(l, rows)
       \/ \E i \in Items : \/ RemoveInventoryItem(i)
                           \/ \E s \in InventoryStatus : UpdateInventoryItem(i, s)
    /\ UNCHANGED <<listingVars, termVars, orderVars>>

(***************************************************************************)
(* createOrder.                                                             *)
(***************************************************************************)

\* The settings are read before the transaction; a coupon code takes precedence over a
\* referral link.
CreateOrder(w, o, l, quantity, c, p) ==
    /\ order[o] = None
    /\ \A v \in Handlers : serving[v] # o
    /\ Start(w, "readListing", l, o)
    /\ draft' = [draft EXCEPT ![w] =
          [quantity |-> quantity, coupon |-> c, link |-> p, price |-> 0,
           feeBps |-> IF ListingFee[l] = None THEN fee ELSE ListingFee[l],
           terms |-> NoTerms, partner |-> None, bps |-> 0]]
    /\ UNCHANGED <<itemVars, listingVars, termVars, order>>

\* The order's transaction ends without an order.
Reject(w) ==
    /\ Finish(w)
    /\ draft' = [draft EXCEPT ![w] = None]

TermsStep(w) == IF draft[w].coupon # None THEN "readCoupon"
                ELSE IF draft[w].link # None THEN "readLink" ELSE "insertOrder"

ReadListing(w) ==
    LET l == target[w] IN
    /\ pc[w] = "readListing"
    /\ IF listing[l] = "PUBLISHED"
       THEN /\ Step(w, IF l \in ManualListings THEN TermsStep(w) ELSE "countItems")
            /\ draft' = [draft EXCEPT ![w].price = price[l] * draft[w].quantity]
       ELSE Reject(w)
    /\ UNCHANGED <<itemVars, listingVars, termVars, order>>

CountItems(w) ==
    /\ pc[w] = "countItems"
    /\ IF Cardinality(Available(target[w])) >= draft[w].quantity
       THEN Step(w, TermsStep(w)) /\ UNCHANGED draft
       ELSE Reject(w)
    /\ UNCHANGED <<itemVars, listingVars, termVars, order>>

\* getValidCoupon; the coupon's dates count as its activity.
ReadCoupon(w) ==
    LET c == draft[w].coupon
        t == coupon[c] IN
    /\ pc[w] = "readCoupon"
    /\ IF /\ t.active /\ PartnerActive(t.partner)
          /\ t.discount.bps # 0 \/ t.discount.cents # 0
          /\ t.limit # 0 => uses[c] < t.limit
       THEN /\ Step(w, "consumeCoupon")
            /\ draft' = [draft EXCEPT ![w].terms = t, ![w].partner = t.partner,
                                      ![w].bps = PartnerBps(t.partner)]
       ELSE Reject(w)
    /\ UNCHANGED <<itemVars, listingVars, termVars, order>>

\* Seeded fault: the limit is checked only where the coupon is read.
ConsumeCoupon_Unchecked(w) ==
    LET c == draft[w].coupon IN
    /\ pc[w] = "consumeCoupon"
    /\ couponLock[c] = None
    /\ Step(w, "insertOrder")
    /\ couponLock' = [couponLock EXCEPT ![c] = w]
    /\ UNCHANGED <<itemVars, listingVars, fee, partner, coupon, uses, limitsHad, orderVars>>

\* consumeCouponUsage: the update checks the limit that was read against the row as it is
\* once its lock is free.
ConsumeCoupon(w) ==
    LET c == draft[w].coupon
        limit == draft[w].terms.limit IN
    /\ pc[w] = "consumeCoupon"
    /\ couponLock[c] = None
    /\ IF limit # 0 => uses[c] < limit
       THEN /\ Step(w, "insertOrder")
            /\ couponLock' = [couponLock EXCEPT ![c] = w]
            /\ UNCHANGED draft
       ELSE Reject(w) /\ UNCHANGED couponLock
    /\ UNCHANGED <<itemVars, listingVars, fee, partner, coupon, uses, limitsHad, order>>

\* findActiveBySlug
ReadLink(w) ==
    LET p == draft[w].link IN
    /\ pc[w] = "readLink"
    /\ Step(w, "insertOrder")
    /\ draft' = IF partner[p].active
                THEN [draft EXCEPT ![w].partner = p, ![w].bps = partner[p].bps]
                ELSE draft
    /\ UNCHANGED <<itemVars, listingVars, termVars, order>>

NewOrder(d, l) ==
    [listing |-> l, coupon |-> d.coupon, partner |-> d.partner, price |-> d.price,
     feeBps |-> d.feeBps,
     split |-> Totals(d.price, d.feeBps, d.terms.discount.bps, d.terms.discount.cents, d.bps)]

\* The order, its attribution and the coupon's use commit together; the listing the item
\* refers to must still exist.
InsertOrder(w) ==
    LET d == draft[w] IN
    /\ pc[w] = "insertOrder"
    /\ IF listing[target[w]] # "NONE"
       THEN /\ order' = [order EXCEPT ![serving[w]] = NewOrder(d, target[w])]
            /\ uses' = IF d.coupon = None THEN uses ELSE [uses EXCEPT ![d.coupon] = @ + 1]
       ELSE UNCHANGED <<order, uses>>
    /\ couponLock' = [c \in Coupons |-> IF couponLock[c] = w THEN None ELSE couponLock[c]]
    /\ Reject(w)
    /\ UNCHANGED <<itemVars, listingVars, fee, partner, coupon, limitsHad>>

\* Seeded fault: the use is counted outside the transaction.
AbortOrder_KeepsUse(w) ==
    /\ pc[w] \in {"readListing", "countItems", "readCoupon", "consumeCoupon", "readLink", "insertOrder"}
    /\ uses' = [c \in Coupons |-> IF couponLock[c] = w THEN uses[c] + 1 ELSE uses[c]]
    /\ couponLock' = [c \in Coupons |-> IF couponLock[c] = w THEN None ELSE couponLock[c]]
    /\ Reject(w)
    /\ UNCHANGED <<itemVars, listingVars, fee, partner, coupon, limitsHad, order>>

\* The process dies or a statement fails: Postgres rolls the transaction back.
AbortOrder(w) ==
    /\ pc[w] \in {"readListing", "countItems", "readCoupon", "consumeCoupon", "readLink", "insertOrder"}
    /\ couponLock' = [c \in Coupons |-> IF couponLock[c] = w THEN None ELSE couponLock[c]]
    /\ Reject(w)
    /\ UNCHANGED <<itemVars, listingVars, fee, partner, coupon, uses, limitsHad, order>>

(***************************************************************************)
(* Reservation: handlePaymentSideEffects of a paid order passes the item's   *)
(* own listing, the admin's request any order item and listing.             *)
(***************************************************************************)
StartReserve(w, o, l) ==
    /\ order[o] # None
    /\ order[o].listing \in {l, None}
    /\ listing[l] # "NONE" /\ l \notin ManualListings
    /\ Start(w, "reserveFind", l, o)
    /\ UNCHANGED <<itemVars, listingVars, termVars, orderVars>>

Reserve(w) ==
    /\ ReserveFind(w) \/ ReservePick(w) \/ ReserveWrite(w) \/ ReserveAbort(w)
    /\ UNCHANGED <<listingVars, termVars, orderVars>>

(***************************************************************************)
(* The specification.                                                       *)
(***************************************************************************)
Begin(w) ==
    \/ \E l \in Listings : \/ UpdateListing(w, l) \/ SubmitListing(w, l)
                           \/ \E to \in {"PUBLISHED", "DRAFT", "SUSPENDED"} : ModerateListing(w, l, to)
                           \/ \E o \in Orders : StartReserve(w, o, l)
    \/ \E o \in Orders, l \in Listings, q \in Quantities, c \in Coupons \cup {None},
          p \in Partners \cup {None} : CreateOrder(w, o, l, q, c, p)

Continue(w) ==
    \/ \E cents \in Prices : UpdateWrite(w, cents)
    \/ StatusWrite(w)
    \/ ReadListing(w) \/ CountItems(w) \/ ReadCoupon(w) \/ ConsumeCoupon(w) \/ ReadLink(w)
    \/ InsertOrder(w)
    \/ Reserve(w)

Next ==
    \/ \E l \in Listings : \/ DeleteListing(l)
                           \/ \E cents \in Prices : CreateListing(l, cents)
    \/ \E rate \in FeeRates : UpdateSettings(rate)
    \/ \E p \in Partners, terms \in PartnerTerms : UpdatePartner(p, terms)
    \/ \E c \in Coupons, terms \in CouponTerms : UpdateCoupon(c, terms)
    \/ ManageInventory
    \/ \E w \in Handlers : Begin(w) \/ Continue(w) \/ AbortOrder(w)

Spec == Init /\ [][Next]_vars

(***************************************************************************)
(* Properties.                                                              *)
(***************************************************************************)
Shop == INSTANCE Sale WITH
    Buyers <- Orders, Nobody <- None, owner <- holder,
    onSale <- {i \in Items : itemStatus[i] = "AVAILABLE" /\ itemOf[i] # None}

\* Concurrent reservations, whichever rows they look at and whatever the seller edits
\* meanwhile, keep the promise of module Sale: no row is handed to a second order while
\* a first one has it, and no row that has an owner is AVAILABLE.
SaleKept == Shop!SaleSpec

\* However checkouts with one coupon overlap and whenever an admin edits it, usesCount
\* stays within some limit the coupon has had.
CouponWithinLimit ==
    \A c \in Coupons : 0 \in limitsHad[c] \/ \E m \in limitsHad[c] : uses[c] <= m

\* usesCount counts exactly the orders that were created with the coupon: a checkout that
\* fails gives its use back, and none is lost between two checkouts.
CouponUsesCounted ==
    \A c \in Coupons : uses[c] = Cardinality({o \in Orders : order[o] # None /\ order[o].coupon = c})

\* Whatever coupon, partner and fee change while an order is created, the split that is
\* stored adds up, for every fee rate of at most 100%.
OrdersAddUp ==
    \A o \in Orders : order[o] # None /\ order[o].feeBps \in 0..Bps => AddsUp(order[o].price, order[o].split)

\* deleteListing means to refuse a listing that was bought ("Cannot delete listing with
\* associated orders. Please suspend it instead.", listings.service.ts:724): a listing
\* that an order refers to is never deleted.
BoughtItemsKept ==
    [][\A l \in Listings : listing[l] # "NONE" /\ listing'[l] = "NONE"
          => \A o \in Orders : order[o] # None => order[o].listing # l]_vars
=============================================================================
