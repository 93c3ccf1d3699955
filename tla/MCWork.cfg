SPECIFICATION DetailsSpec
CONSTANTS
    Companies = {k}
    ActiveCompanies = {k}
    Goals = {g1, g2}
    Projects = {p1, p2}
    Tasks = {t1, t2, t3, t4}
    Items = {i1}
    Stored = {g1, p1, t1, t2, t3}
    Clients = {c1, c2}
    Users = {u1, u2}
    Agents = {a1}
    Moderators = {u2}
    Assignments = {s1}
    Comments = {m1}
    Artifacts = {f1}
    ObjectKeys = {o1}
    MaxRequests = 3
    MaxVersion = 2
SYMMETRY Interchangeable
INVARIANTS
    DependenciesAreAcyclic
    EventsTellTheRows
PROPERTIES
    TransitionsAreLegal
    DeletedIsFinal
CHECK_DEADLOCK FALSE
