----------------------------- MODULE Inventory -----------------------------
(***************************************************************************)
(* The inventory rows of AUTO listings and the reservation that hands one   *)
(* of them to a paid order item.  An order has one item, so an order stands *)
(* for its OrderItemSnapshot; the text of a code is left out.               *)
(*                                                                          *)
(* Reservations run concurrently, in webhook jobs and in the admin route,    *)
(* each in a READ COMMITTED transaction; a seller edits rows at any time.   *)
(***************************************************************************)
EXTENDS Integers, FiniteSets

CONSTANTS
    Listings,       \* listings that may exist
    ManualListings, \* those with deliveryType MANUAL
    Items,          \* inventory rows that may exist at once (bound)
    Orders,         \* orders that may be created
    Handlers,       \* HTTP handlers and jobs in flight at once (bound)
    None

VARIABLES
    itemOf,     \* InventoryItem.listingId; None: no such row
    itemStatus, \* InventoryItem.status
    holder,     \* InventoryItem.orderItemId
    rowLock,    \* the handler that holds the row's lock
    pc,         \* next statement of each handler in flight
    target,     \* the listing a handler is about
    serving,    \* the order a handler is about
    picked      \* the row a reservation has locked

itemVars == <<itemOf, itemStatus, holder, rowLock>>
flightVars == <<pc, target, serving, picked>>

InventoryStatus == {"AVAILABLE", "RESERVED", "DELIVERED", "DISABLED"}

InventoryInit ==
    /\ itemOf = [i \in Items |-> None]
    /\ itemStatus = [i \in Items |-> "DISABLED"]
    /\ holder = [i \in Items |-> None]
    /\ rowLock = [i \in Items |-> None]
    /\ pc = [w \in Handlers |-> "idle"]
    /\ target = [w \in Handlers |-> None]
    /\ serving = [w \in Handlers |-> None]
    /\ picked = [w \in Handlers |-> None]

\* status AVAILABLE and orderItemId IS NULL
Available(l) == {i \in Items : itemOf[i] = l /\ itemStatus[i] = "AVAILABLE" /\ holder[i] = None}

Goto(w, label) == pc' = [pc EXCEPT ![w] = label]
Step(w, label) == Goto(w, label) /\ UNCHANGED <<target, serving, picked>>

Start(w, label, l, o) ==
    /\ pc[w] = "idle"
    /\ Goto(w, label)
    /\ target' = [target EXCEPT ![w] = l]
    /\ serving' = [serving EXCEPT ![w] = o]
    /\ UNCHANGED picked

\* The handler returns or throws.
Finish(w) ==
    /\ Goto(w, "idle")
    /\ target' = [target EXCEPT ![w] = None]
    /\ serving' = [serving EXCEPT ![w] = None]
    /\ picked' = [picked EXCEPT ![w] = None]

\* addInventoryItems, importInventoryItems: one createMany.
AddInventoryItems(l, rows) ==
    /\ l \notin ManualListings
    /\ rows # {}
    /\ \A i \in rows : itemOf[i] = None
    /\ itemOf' = [i \in Items |-> IF i \in rows THEN l ELSE itemOf[i]]
    /\ itemStatus' = [i \in Items |-> IF i \in rows THEN "AVAILABLE" ELSE itemStatus[i]]
    /\ UNCHANGED <<holder, rowLock, flightVars>>

\* removeInventoryItem: an updateMany by id, whatever the row's status.
RemoveInventoryItem(i) ==
    /\ itemOf[i] # None
    /\ rowLock[i] = None
    /\ itemStatus' = [itemStatus EXCEPT ![i] = "DISABLED"]
    /\ UNCHANGED <<itemOf, holder, rowLock, flightVars>>

\* updateInventoryItem: the new status; AVAILABLE disconnects the order item.  (Prisma may
\* refuse a disconnect in updateMany: then nothing changes.)
UpdateInventoryItem(i, status) ==
    /\ itemOf[i] # None
    /\ rowLock[i] = None
    /\ itemStatus' = [itemStatus EXCEPT ![i] = status]
    /\ holder' = IF status = "AVAILABLE" THEN [holder EXCEPT ![i] = None] ELSE holder
    /\ UNCHANGED <<itemOf, rowLock, flightVars>>

\* reserveInventoryItem: an order item that has an item keeps it ...
ReserveFind(w) ==
    /\ pc[w] = "reserveFind"
    /\ IF \E i \in Items : holder[i] = serving[w] THEN Finish(w) ELSE Step(w, "reservePick")
    /\ UNCHANGED itemVars

\* Seeded fault: the SELECT takes no lock.
ReservePick_NoLock(w) ==
    LET free == Available(target[w]) IN
    /\ pc[w] = "reservePick"
    /\ \/ free = {} /\ Finish(w)
       \/ \E i \in free :
             /\ picked' = [picked EXCEPT ![w] = i]
             /\ Goto(w, "reserveWrite")
             /\ UNCHANGED <<target, serving>>
    /\ UNCHANGED itemVars

\* ... otherwise SELECT ... FOR UPDATE SKIP LOCKED LIMIT 1; a Conflict if there is none ...
ReservePick(w) ==
    LET free == {i \in Available(target[w]) : rowLock[i] = None} IN
    /\ pc[w] = "reservePick"
    /\ \/ free = {} /\ Finish(w) /\ UNCHANGED rowLock
       \/ \E i \in free :
             /\ rowLock' = [rowLock EXCEPT ![i] = w]
             /\ picked' = [picked EXCEPT ![w] = i]
             /\ Goto(w, "reserveWrite")
             /\ UNCHANGED <<target, serving>>
    /\ UNCHANGED <<itemOf, itemStatus, holder>>

\* ... and the update: its commit gives the row to the order item.
ReserveWrite(w) ==
    /\ pc[w] = "reserveWrite"
    /\ itemStatus' = [itemStatus EXCEPT ![picked[w]] = "RESERVED"]
    /\ holder' = [holder EXCEPT ![picked[w]] = serving[w]]
    /\ rowLock' = [rowLock EXCEPT ![picked[w]] = None]
    /\ Finish(w)
    /\ UNCHANGED itemOf

\* The process dies or a statement fails: Postgres rolls back and releases the locks.
ReserveAbort(w) ==
    /\ pc[w] \in {"reserveFind", "reservePick", "reserveWrite"}
    /\ rowLock' = [i \in Items |-> IF rowLock[i] = w THEN None ELSE rowLock[i]]
    /\ Finish(w)
    /\ UNCHANGED <<itemOf, itemStatus, holder>>
=============================================================================
