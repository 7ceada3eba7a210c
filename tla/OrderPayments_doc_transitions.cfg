\* The documented order state machine against stale status writes.
SPECIFICATION Spec
CONSTANTS
    o1 = o1   o2 = o2   p1 = p1   p2 = p2
    w1 = w1   w2 = w2   q1 = q1   q2 = q2
    None = None
    Orders <- OneOrder
    ManualOrders <- NoOrders
    TopupOrders <- NoOrders
    Pix <- OnePix
    WalletPayments <- NoPayments
    Copies <- OneCopy
    Notices <- NoNotices
    Workers <- TwoWorkers
    Stock = 1
    MaxStock = 1
    InitialBalance = 1
    MaxFaults = 0
PROPERTIES DocumentedTransitions
CHECK_DEADLOCK FALSE
