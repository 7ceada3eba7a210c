\* A MANUAL order and a wallet top-up, each webhook body possibly a mere notice, two payments
\* out of the balance the top-up fills, two concurrent handlers, one fault.
SPECIFICATION Spec
CONSTANTS
    o1 = o1   o2 = o2   p1 = p1   p2 = p2
    w1 = w1   w2 = w2   q1 = q1   q2 = q2
    None = None
    Orders <- TwoOrders
    ManualOrders <- OnlyFirst
    TopupOrders <- OnlySecond
    Pix <- OnePix
    WalletPayments <- TwoWalletPayments
    Copies <- TwoCopies
    Notices <- SecondIsNotice
    Workers <- TwoWorkers
    Stock = 0
    MaxStock = 0
    InitialBalance = 0
    MaxFaults = 1
SYMMETRY Symmetry
INVARIANTS NeverDeliveredUnpaid AnsweredIsQueued OverdraftBounded
CHECK_DEADLOCK FALSE
