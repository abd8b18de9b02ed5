SPECIFICATION MCPushSpec
CONSTANTS
    f1 = f1
    f2 = f2
    k1 = k1
    k2 = k2
    h1 = h1
    h2 = h2
    Name = {n1}
    Key = {k1, k2}
    Hash = {h1, h2}
    QuotaVal = {}
    TtlVal = {}
    MaxProjectId = 1
    MaxEntryId = 4
    MaxTime = 0
    NULL = NULL
    Size <- MCSize
    Put <- MCPut
    Admin = {a1}
    OUTSIDE = OUTSIDE
    Pool = 2
    MaxFaults = 1
    File = {f1, f2}
    UrlOf <- MCUrlOf
    MaxRetries = 2
    MaxMeddling = 1
    Concurrency = 2
CHECK_DEADLOCK FALSE
INVARIANTS AuditTellsTruth SuccessLasts SomebodyWins
PROPERTIES TxAtomic KeepsPromise PushEnds
