\* Two drafts, two payouts of a user or the platform, two requests at once, one fault.
SPECIFICATION Spec
CONSTANTS
    d1 = d1  d2 = d2  p1 = p1  p2 = p2  w1 = w1  w2 = w2
    None = None
    Drafts <- TwoDrafts
    Payouts <- TwoPayouts
    Handlers <- TwoHandlers
    Amounts <- OneAmount
    InstantFee = 1
    InitialBalance = 4
    InitialFees = 2
    Adjustments <- Debit
    MaxAdjustments = 1
    MaxFaults = 1
SYMMETRY Symmetry
INVARIANTS PayoutsTypeOK MoneyOutRecorded
PROPERTIES WithdrawalKept OverdrawNeedsRace
CHECK_DEADLOCK FALSE
