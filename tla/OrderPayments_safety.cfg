\* One AUTO order, two Pix charges and a wallet payment, two concurrent handlers, one fault.
SPECIFICATION Spec
CONSTANTS
    o1 = o1   o2 = o2   p1 = p1   p2 = p2
    w1 = w1   w2 = w2   q1 = q1   q2 = q2
    None = None
    Orders <- OneOrder
    ManualOrders <- NoOrders
    TopupOrders <- NoOrders
    Pix <- TwoPix
    WalletPayments <- OneWalletPayment
    Copies <- OneCopy
    Notices <- NoNotices
    Workers <- TwoWorkers
    Stock = 1
    MaxStock = 1
    InitialBalance = 1
    MaxFaults = 1
SYMMETRY Symmetry
INVARIANTS TypeOK CreditedOnce ProcessedMeansConfirmed DeliveredHasItem UnpaidIsWatched PaidIsServed
PROPERTIES PaymentKept
CHECK_DEADLOCK FALSE
