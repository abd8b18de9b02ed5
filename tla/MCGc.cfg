SPECIFICATION CollectorSpec
CONSTANTS
    k1 = k1
    k2 = k2
    k3 = k3
    h1 = h1
    h2 = h2
    n1 = n1
    n2 = n2
    Name = {n1, n2}
    Key = {k1, k2, k3}
    Hash = {h1, h2}
    QuotaVal = {1, 2}
    TtlVal = {1}
    MaxProjectId = 2
    MaxEntryId = 3
    MaxTime = 2
    NULL = NULL
    Size <- MCSize
    KindOf <- MCKindOf
    DefaultTtl <- MCDefaultTtl
    GlobalQuota = 2
    Batch = 1
    Upload = {}
INVARIANTS SweepReachesLimits ScanReconciles
PROPERTIES QuotaEvictsLruWhileOver PassSparesTheRest FileGoesBeforeRow GcEnds
