SPECIFICATION Spec
CONSTANTS
    k1 = k1
    k2 = k2
    r1 = r1
    r2 = r2
    r3 = r3
    NoRow = NoRow
    Keys = {k1}
    Requests = {r1, r2, r3}
    Lifetimes <- AskedLifetimes
    Amounts = {0}
    MaxTime = 2
    MaxFaults = 1
CHECK_DEADLOCK FALSE
SYMMETRY Symmetry
INVARIANTS
    VersionIdentifiesRow
    CountExact
