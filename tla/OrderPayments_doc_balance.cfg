\* Two orders paid from one balance at the same time.
SPECIFICATION Spec
CONSTANTS
    o1 = o1   o2 = o2   p1 = p1   p2 = p2
    w1 = w1   w2 = w2   q1 = q1   q2 = q2
    None = None
    Orders <- TwoOrders
    ManualOrders <- NoOrders
    TopupOrders <- NoOrders
    Pix <- NoPayments
    WalletPayments <- TwoWalletPayments
    Copies <- OneCopy
    Notices <- NoNotices
    Workers <- TwoWorkers
    Stock = 2
    MaxStock = 2
    InitialBalance = 1
    MaxFaults = 0
INVARIANTS NeverOverdrawn
CHECK_DEADLOCK FALSE
