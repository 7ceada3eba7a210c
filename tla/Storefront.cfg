SPECIFICATION Spec
CONSTANTS
    l1 = l1  i1 = i1  o1 = o1  o2 = o2  w1 = w1  w2 = w2  c1 = c1  p1 = p1
    None = None
    Listings <- OneListing
    ManualListings <- NoListings
    Items <- OneItem
    Orders <- TwoOrders
    Handlers <- TwoHandlers
    Coupons <- OneCoupon
    Partners <- OnePartner
    ListingFee <- SettingsFee
    Prices <- OnePrice
    FeeRates <- OneFee
    CommissionRates <- OneCommission
    Discounts <- FixedDiscount
    Limits <- LimitOne
    Quantities <- OneEach
SYMMETRY Symmetry
INVARIANTS StorefrontTypeOK CouponWithinLimit CouponUsesCounted OrdersAddUp
PROPERTIES SaleKept
CHECK_DEADLOCK FALSE
