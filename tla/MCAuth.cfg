SPECIFICATION AuthSpec
CONSTANTS
    Name = {a, b}
    Request = {r1}
    MaxProjectId = 2
    MaxCredId = 1
    MaxTime = 3
    CacheTtl = 2
    ADMIN = ADMIN
    NULL = NULL
SYMMETRY Symmetry
INVARIANTS AuthTypeOK GrantsAreBacked DeniedOnlyIfInvalid RevocationLagBounded
