\* One order of a partner, two handlers at once, two requests, one fault.
SPECIFICATION BoundedSpec
CONSTANTS
    o1 = o1   w1 = w1   w2 = w2
    None = None
    Orders <- OneOrder
    Attributed <- OneOrder
    Workers <- TwoWorkers
    Price = 3
    Fee = 1
    RefundFee = 4
    Parts <- OnePart
    MaxRequests = 2
    MaxFaults = 1
INVARIANTS TypeOK DisputeBacked PayoutIsSent PayoutsAgree RefundIsReal CommissionBacked Conserved
PROPERTIES EscrowPromise CompletedIsReleased
CHECK_DEADLOCK FALSE
