SPECIFICATION FairSpec
CONSTANTS
    b1 = b1
    m1 = m1
    w1 = w1
    w2 = w2
    Brokers = {b1}
    Minions = {m1}
    LSession <- OneBroker
    NoBroker = NoBroker
    NoConn = NoConn
    MaxFaults = 1
INVARIANTS
    EntryLive
    OnlineRowHeld
PROPERTIES
    VanishedGoesOffline
