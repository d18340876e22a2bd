SPECIFICATION Spec
CONSTANTS
    None = None
    ann = ann
    bob = bob
    i1 = i1
    i2 = i2
    j1 = j1
    User = {ann, bob}
    Item = {i1, i2}
    Booking <- TwoItems
    GroupOwner = {}
    Job = {}
    Rate = {1, 2}
    SlowRate = 1
    Price = {1}
    Limit = {1, 2}
    Budget = {3}
    SharedMaxRpm = 3
    MaxWorking = 1
    GroupMaxRpm = 60
    RpmPerProxy = 1
    Strikes = 3
INVARIANTS LimitKept
PROPERTIES AdmittedWithinBudget
