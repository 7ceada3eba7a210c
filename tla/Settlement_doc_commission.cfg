\* The documented reversal of a commission against a refund after the release.
SPECIFICATION Spec
CONSTANTS
    o1 = o1   w1 = w1   w2 = w2
    None = None
    Orders <- OneOrder
    Attributed <- OneOrder
    Workers <- TwoWorkers
    Price = 3
    Fee = 1
    RefundFee = 1
    Parts <- OnePart
    MaxRequests = 3
    MaxFaults = 0
INVARIANTS CommissionReversed
CHECK_DEADLOCK FALSE
