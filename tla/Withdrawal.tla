----------------------------- MODULE Withdrawal -----------------------------
(***************************************************************************)
(* What a payout promises: its terms stand from when it is asked for; money   *)
(* leaves once for it, in the amount of those terms; and it is entered in     *)
(* the books after the money has left, once, at what the terms say it costs.  *)
(* What the platform pays itself has no terms but its amount.                 *)
(***************************************************************************)
EXTENDS Integers

CONSTANTS
    Drafts,   \* what may be asked for
    Payouts,
    Amounts, Fees,
    Nothing   \* no terms; the draft of what the platform pays itself

VARIABLES
    terms,   \* per draft: the amount and the fee, or Nothing
    left,    \* the money that has left for a payout
    source,  \* the draft it has left for
    booked,  \* whether a payout is in the books
    cost     \* what it has cost there

withdrawalVars == <<terms, left, source, booked, cost>>

WithdrawalInit ==
    /\ terms = [d \in Drafts |-> Nothing]
    /\ left = [p \in Payouts |-> 0]
    /\ source = [p \in Payouts |-> Nothing]
    /\ booked = [p \in Payouts |-> FALSE]
    /\ cost = [p \in Payouts |-> 0]

Ask(d, amount, fee) ==
    /\ terms[d] = Nothing
    /\ terms' = [terms EXCEPT ![d] = [amount |-> amount, fee |-> fee]]
    /\ UNCHANGED <<left, source, booked, cost>>

MoneyLeaves(p, amount, d) ==
    /\ left[p] = 0
    /\ left' = [left EXCEPT ![p] = amount]
    /\ source' = [source EXCEPT ![p] = d]
    /\ UNCHANGED <<terms, booked, cost>>

PayUser(p, d) ==
    /\ terms[d] # Nothing
    /\ \A q \in Payouts : left[q] > 0 => source[q] # d
    /\ MoneyLeaves(p, terms[d].amount, d)

PayPlatform(p, amount) == MoneyLeaves(p, amount, Nothing)

Book(p) ==
    /\ left[p] > 0 /\ ~booked[p]
    /\ booked' = [booked EXCEPT ![p] = TRUE]
    /\ cost' = [cost EXCEPT ![p] = IF source[p] = Nothing THEN 0
                                   ELSE left[p] + terms[source[p]].fee]
    /\ UNCHANGED <<terms, left, source>>

WithdrawalNext ==
    \/ \E d \in Drafts, amount \in Amounts, fee \in Fees : Ask(d, amount, fee)
    \/ \E p \in Payouts : \/ Book(p)
                          \/ \E d \in Drafts : PayUser(p, d)
                          \/ \E amount \in Amounts : PayPlatform(p, amount)

WithdrawalSpec == WithdrawalInit /\ [][WithdrawalNext]_withdrawalVars
=============================================================================
