\* The dispute check of releaseOrder against a dispute opened while it runs.
SPECIFICATION Spec
CONSTANTS
    o1 = o1   w1 = w1   w2 = w2
    None = None
    Orders <- OneOrder
    Attributed <- OneOrder
    Workers <- TwoWorkers
    Price = 3
    Fee = 1
    RefundFee = 1
    Parts <- OnePart
    MaxRequests = 3
    MaxFaults = 0
PROPERTIES DisputeHoldsEscrow
CHECK_DEADLOCK FALSE
