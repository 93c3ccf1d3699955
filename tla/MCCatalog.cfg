SPECIFICATION Spec
CONSTANTS
    Connections <- Connections2
    TypeOf <- Types2
    Models = {m1}
    UsableModels = {m1}
    Pools <- Pools3
    Region = "eu"
    Refreshes = {r1, r2}
    Workers = {w1, w2}
    Granted <- Owner
    MaxVersion = 2
    RowsFit = TRUE
SYMMETRY Interchangeable
INVARIANTS
    GenerationsAreDistinct
    RevisionsTellTheBinding
    PlanAvoidsArchived
CHECK_DEADLOCK FALSE
