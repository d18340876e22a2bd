SPECIFICATION Spec
CONSTANTS
    None = None
    ann = ann
    bob = bob
    i1 = i1
    i2 = i2
    j1 = j1
    User = {ann, bob}
    Item = {i1}
    Booking <- OneItem
    GroupOwner = {ann}
    Job = {j1}
    Rate = {1}
    SlowRate = 1
    Price = {1, 2}
    Limit = {1}
    Budget = {2}
    SharedMaxRpm = 2
    MaxWorking = 1
    GroupMaxRpm = 60
    RpmPerProxy = 1
    Strikes = 1
INVARIANTS DropWasSeen ActiveIsPolled
PROPERTIES LateResultIgnored
