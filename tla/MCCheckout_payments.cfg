\* Two browsers with one buy-link page each, two items.
CONSTANTS
    b1 = b1
    b2 = b2
    p1 = p1
    p2 = p2
    Browser = {b1, b2}
    Page = {p1, p2}
    Host <- MCHost
    Item = {1, 2}
    Limit = {1, 2}
    Quote = {2}
    MaxReview = 1
    MaxOpens = 2
    None = None
SPECIFICATION Spec
SYMMETRY MCSymmetry
INVARIANTS PaidOnce PaidWithinClaim RequestRecorded
CHECK_DEADLOCK FALSE
