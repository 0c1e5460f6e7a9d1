SPECIFICATION Spec
CONSTANTS
    b1 = b1
    b2 = b2
    m1 = m1
    s1 = s1
    s2 = s2
    s3 = s3
    Brokers = {b1, b2}
    NoBroker = NoBroker
    NoSession = NoSession
    Minions = {m1}
    Session <- OneMinion
    MaxFaults = 0
INVARIANTS
    OfflineAnswerIsTrue
