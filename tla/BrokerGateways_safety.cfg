SPECIFICATION BothSpec
CONSTANTS
    b1 = b1
    b2 = b2
    m1 = m1
    s1 = s1
    s2 = s2
    w1 = w1
    Brokers = {b1, b2}
    Minions = {m1}
    Session <- HubSessions
    LSession <- LegacySession
    NoBroker = NoBroker
    NoSession = NoSession
    NoConn = NoConn
    MaxFaults = 0
INVARIANTS
    OnlineRowServed
    HolderRowWithoutLegacy
