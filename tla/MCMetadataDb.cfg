SPECIFICATION DbSpec
CONSTANTS
    Name = {n1, n2}
    Key = {k1, k2}
    Hash = {h1, h2}
    QuotaVal = {}
    TtlVal = {}
    MaxProjectId = 2
    MaxEntryId = 3
    MaxTime = 1
    NULL = NULL
    Size <- MCSize
SYMMETRY Symmetry
INVARIANTS DbTypeOK ForeignKeys NoUndercount
PROPERTIES OnlyCascadeDrifts NoIdReuse
