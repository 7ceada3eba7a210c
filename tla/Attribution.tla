---------------------------- MODULE Attribution ----------------------------
(***************************************************************************)
(* How an order's price is split between seller, platform, partner and the   *)
(* buyer's discount: calculateAttributionTotals.  Amounts are cents, rates   *)
(* are basis points; 0 stands for an absent rate or discount.               *)
(***************************************************************************)
EXTENDS Integers

Bps == 10000

Least(a, b) == IF a < b THEN a ELSE b
Positive(n) == IF n > 0 THEN n ELSE 0

\* Math.round(n / Bps): halves go up.
RoundBps(n) == (2 * n + Bps) \div (2 * Bps)

FeeBase(price, feeBps) == RoundBps(price * feeBps)

\* A fixed discount is taken before a rate.
DesiredDiscount(price, discountBps, discountCents) ==
    IF discountCents # 0 THEN discountCents ELSE RoundBps(price * discountBps)

\* Seeded fault: nothing is clamped.
Totals_Unclamped(price, feeBps, discountBps, discountCents, commissionBps) ==
    LET base == FeeBase(price, feeBps)
        discount == DesiredDiscount(price, discountBps, discountCents)
    IN  [discount |-> discount, feeBase |-> base, feeFinal |-> base - discount,
         commission |-> RoundBps((base - discount) * commissionBps), total |-> price - discount]

\* Seeded fault: the discount is capped by the price.
Totals_CapsByPrice(price, feeBps, discountBps, discountCents, commissionBps) ==
    LET base == FeeBase(price, feeBps)
        discount == Least(DesiredDiscount(price, discountBps, discountCents), price)
        final == Positive(base - discount)
    IN  [discount |-> discount, feeBase |-> base, feeFinal |-> final,
         commission |-> RoundBps(final * commissionBps), total |-> Positive(price - discount)]

\* calculateAttributionTotals
Totals(price, feeBps, discountBps, discountCents, commissionBps) ==
    LET base == FeeBase(price, feeBps)
        discount == Least(DesiredDiscount(price, discountBps, discountCents), base)
        final == Positive(base - discount)
    IN  [discount |-> discount, feeBase |-> base, feeFinal |-> final,
         commission |-> RoundBps(final * commissionBps), total |-> Positive(price - discount)]

\* A discount comes out of the platform's fee alone: what is left of the total after the
\* fee is what the seller would get without it, the partner's part is inside the fee,
\* and nobody's part is negative.
AddsUp(price, t) ==
    /\ t.discount >= 0 /\ t.feeFinal >= 0 /\ t.commission >= 0
    /\ t.discount <= t.feeBase
    /\ t.commission <= t.feeFinal
    /\ t.total = price - t.discount
    /\ t.total - t.feeFinal = price - t.feeBase
    /\ t.feeFinal <= t.total
=============================================================================
