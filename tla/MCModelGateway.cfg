SPECIFICATION Spec
CONSTANTS
    h1 = h1
    h2 = h2
    o1 = o1
    o2 = o2
    o3 = o3
    Handlers = {h1, h2}
    RequestIds = {1, 2}
    Offerings = {o1, o2, o3}
    NoOffering = NoOffering
    Plans <- SmallPlans
SYMMETRY HandlerSymmetry
INVARIANTS
    AdmissionIsExclusive
    UsageMatchesJournal
    StreamIsLocked
    OutcomeIsTrue
CHECK_DEADLOCK FALSE
