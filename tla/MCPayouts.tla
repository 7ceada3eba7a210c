----------------------------- MODULE MCPayouts -----------------------------
(* A small instance of Payouts for TLC. *)
EXTENDS Payouts, TLC

CONSTANTS d1, d2, p1, p2, w1, w2

TwoDrafts == {d1, d2}
OneDraft == {d1}
TwoPayouts == {p1, p2}
TwoHandlers == {w1, w2}
OneAmount == {2}
Debit == {-1}

Symmetry == Permutations(Drafts) \cup Permutations(Payouts) \cup Permutations(Handlers)
=============================================================================
