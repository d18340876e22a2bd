SPECIFICATION FairSpec
CONSTANTS
    m1 = m1
    m2 = m2
    k = k
    Monitor = {m1, m2}
    Admins = {m2}
    Demos = {}
    Key = {k}
    Discovered = {m1, m2}
    KeyOf <- Shared
    MaxEdits = 1
    MaxToggles = 1
    MaxRevision = 2
    MaxTurns = 0
    MaxFaults = 0
    MaxPartial = 0
    MaxExits = 0
    MaxCrashes = 0
CHECK_DEADLOCK FALSE
INVARIANTS ConfirmedMeansDrained
PROPERTIES DrainIsConfirmed
