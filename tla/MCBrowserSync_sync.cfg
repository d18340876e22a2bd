\* One linked context whose session is renewed twice, two links.
CONSTANTS
    c1 = c1
    Context = {c1}
    RetryTicks = 1
    MaxRetryTicks = 2
    ActionTicks = 2
    ReceiptTicks = 1
    FailureCap = 2
    RetryAfter = {2}
    MaxCookies = 3
    MaxTokens = 2
    MaxQueue = 2
    None = None
SPECIFICATION Spec
INVARIANTS CachedWasAccepted
PROPERTIES RateLimitRespected InterruptedRefreshWaits
CHECK_DEADLOCK FALSE
