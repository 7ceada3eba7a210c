------------------------------ MODULE Payment ------------------------------
(***************************************************************************)
(* What a payment promises: it is for one order for good; it is confirmed     *)
(* and booked in one step, once, for good, and only when its money has        *)
(* arrived.  A charge lapses only because its order is paid in another way;   *)
(* money that arrives for it nevertheless is still taken and booked.         *)
(***************************************************************************)
EXTENDS Integers

CONSTANTS
    Charges,    \* payments whose money is still to arrive
    Transfers,  \* payments out of money that is already here
    Orders,
    Nobody      \* the order of a payment that does not exist

VARIABLES
    phase,    \* how far a payment has come
    order,    \* what it is for
    arrived,  \* the charges whose money has arrived
    booked    \* how often a payment was booked

paymentVars == <<phase, order, arrived, booked>>

PaymentInit ==
    /\ phase = [p \in Charges \cup Transfers |-> "NONE"]
    /\ order = [p \in Charges \cup Transfers |-> Nobody]
    /\ arrived = {}
    /\ booked = [p \in Charges \cup Transfers |-> 0]

Charge(p, o) ==
    /\ phase[p] = "NONE"
    /\ phase' = [phase EXCEPT ![p] = "PENDING"]
    /\ order' = [order EXCEPT ![p] = o]
    /\ UNCHANGED <<arrived, booked>>

\* Nothing here keeps the payer from paying a charge that has lapsed.
Arrive(p) ==
    /\ phase[p] # "NONE"
    /\ p \notin arrived
    /\ arrived' = arrived \cup {p}
    /\ UNCHANGED <<phase, order, booked>>

Confirm(p) ==
    /\ phase[p] \in {"PENDING", "EXPIRED"}
    /\ p \in arrived
    /\ phase' = [phase EXCEPT ![p] = "CONFIRMED"]
    /\ booked' = [booked EXCEPT ![p] = @ + 1]
    /\ UNCHANGED <<order, arrived>>

\* A transfer needs no charge; pending charges of its order lapse with it.
Transfer(p, o, lapsing) ==
    /\ phase[p] = "NONE"
    /\ \A q \in lapsing : order[q] = o /\ phase[q] = "PENDING"
    /\ phase' = [q \in DOMAIN phase |-> IF q = p THEN "CONFIRMED"
                                        ELSE IF q \in lapsing THEN "EXPIRED" ELSE phase[q]]
    /\ order' = [order EXCEPT ![p] = o]
    /\ booked' = [booked EXCEPT ![p] = @ + 1]
    /\ UNCHANGED arrived

PaymentNext ==
    \/ \E p \in Charges : \/ Arrive(p) \/ Confirm(p)
                          \/ \E o \in Orders : Charge(p, o)
    \/ \E p \in Transfers, o \in Orders, lapsing \in SUBSET Charges : Transfer(p, o, lapsing)

PaymentSpec == PaymentInit /\ [][PaymentNext]_paymentVars
=============================================================================
