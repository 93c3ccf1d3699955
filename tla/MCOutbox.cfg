SPECIFICATION Spec
CONSTANTS
    r1 = r1
    r2 = r2
    Relays = {r1, r2}
    NumEvents = 2
    BatchSize = 2
    MaxRepeats = 2
INVARIANTS
    PublishedIsOnLog
PROPERTIES
    AtLeastOnce
    Drains
CHECK_DEADLOCK FALSE
