\* Ordering, leases, accounting and promotion at one contended destination.
SPECIFICATION Spec
CONSTANTS
    w1 = w1
    w2 = w2
    Notification <- Webhook
    Delivery <- Webhook
    NotificationOf <- WebhookSelf
    DestinationOf <- WebhookTarget
    ChannelOf <- WebhookChannel
    ItemMatch = {2}
    ItemAlert <- Webhook
    Deduped = {2}
    UserItem <- WebhookItem
    Lifetime <- WebhookLifetime
    Worker <- Workers
    BatchLimit = 16
    MaxAttempts = 2
    LeaseTicks = 1
    Provisional = 2
    Promoted = 3
    Delay = {1}
    ItemDelayCap = 1
SYMMETRY Symmetry
INVARIANTS
    OneSenderPerDestination
    ClaimHeldOnce
    SentWasAccepted
    FlightAccounting
    PromotionWasReceived
PROPERTIES
    DeliveryPromise
