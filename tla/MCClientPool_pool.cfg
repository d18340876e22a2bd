SPECIFICATION Spec
CONSTANTS
    None = None
    p1 = p1
    p2 = p2
    k1 = k1
    k2 = k2
    s1 = s1
    s2 = s2
    f1 = f1
    f2 = f2
    Proxy = {p1, p2}
    Slot = {s1, s2}
    Fetch = {f1, f2}
    Keeper = {k1, k2}
    Size = 1
    MaxInFlight = 2
    QuarantineAfter = 1
    MaxAttempts = 2
    Generations = 1
SYMMETRY Symmetry
INVARIANTS RequestsAccounted ExitsHeldOnce ReplacementTracked AnswerOwed
