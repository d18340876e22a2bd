\* Deduplication across two monitors of one member, and settlement.
SPECIFICATION FairSpec
CONSTANTS
    w1 = w1
    w2 = w2
    Notification <- SameItem
    Delivery <- SameItemDelivery
    NotificationOf <- SameItemOf
    DestinationOf <- SameItemTarget
    ChannelOf <- SameItemTarget
    ItemMatch <- SameItem
    ItemAlert <- SameItem
    Deduped <- SameItem
    UserItem <- SameItemItem
    Lifetime <- SameItemLifetime
    Worker = {w1}
    BatchLimit = 16
    MaxAttempts = 2
    LeaseTicks = 1
    Provisional = 2
    Promoted = 3
    Delay = {1}
    ItemDelayCap = 1
INVARIANTS
    OneLiveAlertPerItem
PROPERTIES
    EveryAlertSettles
