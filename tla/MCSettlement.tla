---------------------------- MODULE MCSettlement ----------------------------
(* Small instances of Settlement for TLC. *)
EXTENDS Settlement, FiniteSets

CONSTANTS o1, w1, w2

OneOrder == {o1}
TwoWorkers == {w1, w2}
OnePart == {1}

\* Bounds: a queue call is outstanding while at most one settlement handler is in flight, and
\* faults meet the order whose refund keeps nothing.
InBounds ==
    /\ calls = {} \/ Cardinality({w \in Workers : pc[w] # "idle"}) <= 1
    /\ faults = 0 \/ \A o \in Orders : kept[o] = 0

BoundedSpec == Init /\ [][Next /\ InBounds']_vars /\ Fairness
=============================================================================
