SPECIFICATION Spec
CONSTANTS
    u1 = u1
    u2 = u2
    u3 = u3
    q1 = q1
    q2 = q2
    Users = {u1, u2, u3}
    Requests = {q1, q2}
    NoRequest = NoRequest
    MaxVersion = 5
SYMMETRY Symmetry
INVARIANTS
    OwnerRemains
    EventsTellTheTable
PROPERTIES
    OwnersAreManagedByOwners
    ArchivedIsReadOnly
CHECK_DEADLOCK FALSE
