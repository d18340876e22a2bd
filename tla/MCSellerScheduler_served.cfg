SPECIFICATION FairSpec
CONSTANTS
    a = a
    b = b
    s = s
    r = r
    f = f
    w1 = w1
    Job = {a, b, s, r, f}
    Arriving = {a, b, r}
    Dated = {s, f}
    Lane <- Lanes
    Class <- Classed
    LaneOf <- InLane
    FollowUps <- Retries
    Worker = {w1}
    Capacity = 1
    MaxDelay = 1
    StarvationAge = 1
INVARIANTS ReadyInFront QueuedOnce
PROPERTIES ForegroundServed StrictServed WorkersReturn
