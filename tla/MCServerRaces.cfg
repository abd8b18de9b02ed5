SPECIFICATION ServerSpec
CONSTANTS
    Name = {n1}
    Key = {k1}
    Hash = {h1, h2}
    QuotaVal = {}
    TtlVal = {}
    MaxProjectId = 1
    MaxEntryId = 2
    MaxTime = 0
    NULL = NULL
    Size <- MCSize
    KindOf <- MCKindOf
    DefaultTtl <- MCNoTtl
    GlobalQuota = 1
    Batch = 2
    Upload = {u1, u2}
    Reader = {}
    Threshold = 1
    AdminOps = {"drop", "delete", "sweep", "scan", "dry", "init"}
    MaxFaults = 1
SYMMETRY Symmetry
INVARIANTS ServerTypeOK DanglingOnlyByRace AckedIsCounted StoredIsPlaced
PROPERTIES DbSpec ScanPurgesOnlyByRace LeakOnlyByRace
