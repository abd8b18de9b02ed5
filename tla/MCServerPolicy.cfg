SPECIFICATION ServerSpec
CONSTANTS
    Name = {n1}
    Key = {k1, k2}
    Hash = {h1}
    QuotaVal = {1}
    TtlVal = {}
    MaxProjectId = 1
    MaxEntryId = 2
    MaxTime = 1
    NULL = NULL
    Size <- MCSize
    KindOf <- MCKindOf
    DefaultTtl <- MCDefaultTtl
    GlobalQuota = 0
    Batch = 1
    Upload = {u1, u2}
    Reader = {r1}
    Threshold = 0
    AdminOps = {"pin", "update"}
    MaxFaults = 0
SYMMETRY Symmetry
PROPERTIES PinsHeldSurvive
