SPECIFICATION FairSpec
CONSTANTS
    w1 = w1
    w2 = w2
    r1 = r1
    Writers = {w1, w2}
    Readers = {r1}
    Size <- LineSize
    Asked <- AskedLines
    MaxLines = 3
    MaxSize = 4
    Block = 2
    MaxRemoves = 1
    MaxFaults = 1
INVARIANTS
    NoGap
    SizeBound
    TailNExact
PROPERTIES
    StaleClosed
