SPECIFICATION Spec
CONSTANTS
    a1 = a1
    a2 = a2
    c1 = c1
    c2 = c2
    q1 = q1
    q2 = q2
    Agents = {a1, a2}
    Companies = {c1, c2}
    Profiles = {p1}
    Requests = {q1, q2}
    None = None
    MaxVersion = 3
    MaxCompanyVersion = 2
SYMMETRY Symmetry
INVARIANTS
    HierarchyIsAcyclic
    RevisionsTellTheTable
    ArchivedIsEmpty
    BootstrapIsIdempotent
CHECK_DEADLOCK FALSE
