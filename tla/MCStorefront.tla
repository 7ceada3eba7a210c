---------------------------- MODULE MCStorefront ----------------------------
(* Small instances of Storefront for TLC. *)
EXTENDS Storefront, TLC

CONSTANTS l1, i1, o1, o2, w1, w2, c1, p1

OneListing == {l1}
NoListings == {}
OneItem == {i1}
TwoOrders == {o1, o2}
TwoHandlers == {w1, w2}
OneCoupon == {c1}
OnePartner == {p1}
SettingsFee == [l \in {l1} |-> None]
OnePrice == {333}
OneFee == {1500}
OneCommission == {6500}
FixedDiscount == {[bps |-> 0, cents |-> 60]}  \* capped by the fee of 50
LimitOne == {1}
OneEach == {1}

Symmetry == Permutations(Items) \cup Permutations(Orders) \cup Permutations(Handlers)
=============================================================================
