SPECIFICATION FairSpec
CONSTANTS
    n1 = n1
    s1 = s1
    s2 = s2
    ann = ann
    bob = bob
    Item = {n1, s1}
    Strict = {s1}
    Seller = {ann, bob}
    SellerOf <- Sellers
    AlertCap = 1
    EnrichTicks = 1
    AlertTicks = 2
    RetryDelay <- Delays
INVARIANTS NothingVanishes StrictVerified OneRowPerItem FlightsLed RefreshKeyReturned
PROPERTIES AlertNotHeldUp
CHECK_DEADLOCK FALSE
