SPECIFICATION ListedSpec
CONSTANTS
    k1 = k1
    k2 = k2
    k3 = k3
    h1 = h1
    h2 = h2
    n1 = n1
    Name = {n1}
    Key = {k1, k2, k3}
    Hash = {h1, h2}
    QuotaVal = {}
    TtlVal = {}
    MaxProjectId = 1
    MaxEntryId = 3
    MaxTime = 2
    NULL = NULL
    Size <- MCSize
    PathRank <- MCPathRank
    Asked <- MCAsked
    MaxChanges = 2
INVARIANTS PagesInOrder MissedOnlyIfMoved RepeatedOnlyIfMoved
