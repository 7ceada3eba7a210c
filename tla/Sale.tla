-------------------------------- MODULE Sale --------------------------------
(***************************************************************************)
(* What selling digital items promises: an item is handed to a buyer only   *)
(* while it is on sale, which it is only while it belongs to nobody, and    *)
(* only its seller ends what a buyer has: an item goes from one buyer to     *)
(* another only through the seller's hands.                                 *)
(***************************************************************************)
CONSTANTS Items, Buyers, Nobody

VARIABLES onSale, owner

saleVars == <<onSale, owner>>

SaleInit ==
    /\ onSale = {}
    /\ owner = [i \in Items |-> Nobody]

Sell(i, b) ==
    /\ i \in onSale
    /\ owner[i] = Nobody
    /\ onSale' = onSale \ {i}
    /\ owner' = [owner EXCEPT ![i] = b]

\* The seller offers or withdraws items; only what nobody owns goes on sale, and a
\* seller who takes items back ends their ownership.
Manage(rows) ==
    /\ onSale' \subseteq onSale \cup rows
    /\ onSale \subseteq onSale' \cup rows
    /\ \A i \in Items : \/ owner'[i] = owner[i]
                        \/ i \in rows /\ owner'[i] = Nobody
    /\ owner' \in [Items -> Buyers \cup {Nobody}]
    /\ \A i \in onSale' : owner'[i] = Nobody

SaleNext ==
    \/ \E i \in Items, b \in Buyers : Sell(i, b)
    \/ \E rows \in SUBSET Items : Manage(rows)

SaleSpec == SaleInit /\ [][SaleNext]_saleVars
=============================================================================
