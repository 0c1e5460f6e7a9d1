SPECIFICATION FairSpec
CONSTANTS
    b1 = b1
    b2 = b2
    m1 = m1
    m2 = m2
    s1 = s1
    s2 = s2
    s3 = s3
    Brokers = {b1}
    Minions = {m1}
    Session <- OneBroker
    NoBroker = NoBroker
    NoSession = NoSession
    MaxFaults = 1
INVARIANTS
    EntryOwned
    OnlineRowHasEntry
PROPERTIES
    AuthenticationEnds
