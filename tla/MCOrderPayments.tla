-------------------------- MODULE MCOrderPayments --------------------------
(* Small instances of OrderPayments for TLC. *)
EXTENDS OrderPayments, TLC

CONSTANTS o1, o2, p1, p2, w1, w2, q1, q2

NoOrders == {}
OneOrder == {o1}
TwoOrders == {o1, o2}
OnePix == {p1}
TwoPix == {p1, p2}
OneWalletPayment == {q1}
TwoWalletPayments == {q1, q2}
TwoWorkers == {w1, w2}
OneCopy == {1}
TwoCopies == {1, 2}
NoNotices == {}
NoPayments == {}
OnlyFirst == {o1}
OnlySecond == {o2}
SecondIsNotice == {2}

\* Handlers are interchangeable, and so are the unused payment rows; sound for the
\* runs that check safety only.
Symmetry == Permutations(Workers) \cup Permutations(Pix) \cup Permutations(WalletPayments)

\* Bound of the liveness run: a behaviour has a fault, a wallet payment or a deleted listing,
\* not two of them at once.  What is kept from happening are requests and faults, which no
\* fairness asks for.
WalletInUse == \/ \E w \in Workers : ctx[w].kind = "wallet"
               \/ \E q \in WalletPayments : payStatus[q] # "NONE"
OneDisturbance == Cardinality({t \in 1..3 : CASE t = 1 -> faults > 0
                                              [] t = 2 -> WalletInUse
                                              [] t = 3 -> ~listed}) <= 1

LiveSpec == Init /\ [][Next /\ OneDisturbance']_vars /\ Fairness
=============================================================================
