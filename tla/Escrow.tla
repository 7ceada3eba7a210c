------------------------------- MODULE Escrow -------------------------------
(***************************************************************************)
(* What the settlement of an order promises: the money of a confirmed        *)
(* payment is held, part of it may go back to the buyer while it is, and it   *)
(* leaves once, to the seller or back to the buyer.  After a release only a   *)
(* manual chargeback is left.                                                *)
(*                                                                          *)
(* The promise ends where two settlement operations work on one order at the *)
(* same time: nothing in the code serializes them.                           *)
(***************************************************************************)
EXTENDS Integers

CONSTANTS
    Orders,   \* paid orders
    Price     \* what each of them cost

VARIABLES
    phase,     \* where the money of an order is
    escrow,    \* HELD balance of an order
    contested  \* orders that two operations have worked on at once

vars == <<phase, escrow, contested>>

Init ==
    /\ phase = [o \in Orders |-> "held"]
    /\ escrow = [o \in Orders |-> Price]
    /\ contested = {}

\* Moves order o to a phase with e left in escrow.
Move(o, to, e) ==
    /\ phase' = [phase EXCEPT ![o] = to]
    /\ escrow' = [escrow EXCEPT ![o] = e]
    /\ UNCHANGED contested

PartialRefund(o) ==
    /\ phase[o] = "held"
    /\ \E part \in 1..escrow[o] : Move(o, "held", escrow[o] - part)

Release(o) ==
    /\ phase[o] = "held" /\ escrow[o] > 0
    /\ Move(o, "released", 0)

\* A refund reverses the whole payment, whatever a partial refund took before.
Refund(o) ==
    /\ phase[o] = "held"
    /\ Move(o, "refunded", escrow[o] - Price)

ManualChargeback(o) ==
    /\ phase[o] = "released"
    /\ Move(o, "chargedBack", escrow[o])

Contend(o) ==
    /\ contested' = contested \cup {o}
    /\ UNCHANGED <<phase, escrow>>

\* Nothing is promised of an order that was contested.
Anything(o) ==
    /\ o \in contested
    /\ \A p \in Orders \ {o} : phase'[p] = phase[p] /\ escrow'[p] = escrow[p]
    /\ UNCHANGED contested

Next ==
    \E o \in Orders : \/ PartialRefund(o) \/ Release(o) \/ Refund(o) \/ ManualChargeback(o)
                      \/ Contend(o) \/ Anything(o)

Spec == Init /\ [][Next]_vars
=============================================================================
