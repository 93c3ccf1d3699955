SPECIFICATION Spec
CONSTANTS
    Browsers = {b1, b2}
    Logins = {l1, l2}
    Callbacks = {c1, c2}
    Identities = {i1, i2}
    Requests = {r1}
    InitialRoles <- TwoUsers
    MaxChanges = 1
CONSTRAINT LoginsAtRest
SYMMETRY Interchangeable
INVARIANTS
    SessionsAreEarned
    OneUserPerIdentity
    MutationsAreIntended
    RevokedIsRefused
    FinalAnswersAreTrue
CHECK_DEADLOCK FALSE
