SPECIFICATION Spec
CONSTANTS
    Request = {r1, r2}
    MaxFaults = 2
    Kinds = {"process", "account", "listen"}
    Keys = {k1}
    Rows = {v1, v2}
    Absent = Absent
    Infos = {v1, v2}
    NoInfo = NoInfo
    Checksums = {"a", "b", "c"}
    Packages <- Listed
    NoVersion = NoVersion
    MaxProjects = 3
    Tags = {t1, t2}
    Bins <- SomeBins
    Agents <- SomeAgents
    NoBin = NoBin
    MaxSize = 1
    Versions = {1, 2}
    Current = 1
    Items = {1, 2}
    BatchSize = 1
    MaxPushes = 3
    LastMinion = 3
    PageSize = 2
    MaxScans = 2
CHECK_DEADLOCK FALSE
INVARIANTS
    AssetsInSync
    ReportsKept
    UpgradeSafe
    CacheSafe
    LinkBootable
    PushSafe
    ScanCovers
PROPERTIES
    SuccessMeansStored
