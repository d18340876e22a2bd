SPECIFICATION FairSpec
CONSTANTS
    m1 = m1
    m2 = m2
    k = k
    Monitor = {m1}
    Admins = {}
    Demos = {m1}
    Key = {k}
    Discovered = {m1}
    KeyOf <- Alone
    MaxEdits = 2
    MaxToggles = 0
    MaxRevision = 0
    MaxTurns = 1
    MaxFaults = 1
    MaxPartial = 1
    MaxExits = 1
    MaxCrashes = 1
CHECK_DEADLOCK FALSE
INVARIANTS OneTaskPerSlot RestartResumes
PROPERTIES ActiveIsWatched InactiveIsLeft
