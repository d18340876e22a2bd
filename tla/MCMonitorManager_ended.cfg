SPECIFICATION Spec
CONSTANTS
    m1 = m1
    m2 = m2
    k = k
    Monitor = {m1}
    Admins = {}
    Demos = {}
    Key = {}
    Discovered = {}
    KeyOf <- Apart
    MaxEdits = 1
    MaxToggles = 0
    MaxRevision = 2
    MaxTurns = 0
    MaxFaults = 0
    MaxPartial = 0
    MaxExits = 0
    MaxCrashes = 0
CHECK_DEADLOCK FALSE
INVARIANTS MaintenanceEndResumes
