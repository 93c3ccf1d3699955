SPECIFICATION Spec
CONSTANTS
    c1 = c1
    c2 = c2
    a1 = a1
    a2 = a2
    Events <- FactIds
    Meta <- SmallMeta
    Histories <- SmallHistories
    MaxRepeats = 1
    Consumers = {c1, c2}
    NoConsumer = NoConsumer
    Aggregates = {a1, a2}
    MaxRestores = 1
INVARIANTS
    CommittedIsProjected
    RowsAreLatest
    DuplicatesAreHarmless
PROPERTIES
    EveryFactIsProjected
CHECK_DEADLOCK FALSE
