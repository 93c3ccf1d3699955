SPECIFICATION CredentialsSpec
CONSTANTS
    k1 = k1
    k2 = k2
    r1 = r1
    r2 = r2
    i1 = i1
    w1 = w1
    Keys = {k1, k2}
    ValidKeys = {k1}
    Requests = {r1, r2}
    IdemKeys = {i1}
    Workers = {w1}
    MaxRequests = 3
    MaxVersion = 2
    RefreshRowFits = TRUE
INVARIANTS
    ActiveIsVerified
PROPERTIES
    CleanupIsDone
CHECK_DEADLOCK FALSE
