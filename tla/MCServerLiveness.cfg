SPECIFICATION FairServerSpec
CONSTANTS
    Name = {n1}
    Key = {k1}
    Hash = {h1, h2}
    QuotaVal = {}
    TtlVal = {}
    MaxProjectId = 1
    MaxEntryId = 2
    MaxTime = 0
    NULL = NULL
    Size <- MCSize
    KindOf <- MCKindOf
    DefaultTtl <- MCNoTtl
    GlobalQuota = 0
    Batch = 1
    Upload = {u1, u2}
    Reader = {}
    Threshold = 0
    AdminOps = {"delete"}
    MaxFaults = 1
PROPERTIES GarbageIsCollected SweepsGetTheirTurn
