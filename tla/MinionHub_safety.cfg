SPECIFICATION Spec
CONSTANTS
    b1 = b1
    b2 = b2
    m1 = m1
    s1 = s1
    s2 = s2
    s3 = s3
    Brokers = {b1, b2}
    Minions = {m1}
    Session <- OneMinion
    NoBroker = NoBroker
    NoSession = NoSession
    MaxFaults = 0
SYMMETRY Symmetry
INVARIANTS
    ExclusiveSession
    HolderRow
    OnlineRowHeld
    ReachableUnlessKicked
    TagsOfServed
PROPERTIES
    DeletedStaysOut
