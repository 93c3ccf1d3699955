SPECIFICATION PagingSpec
CONSTANTS
    Rows <- FourRows
    Times <- TwoTimes
    Sizes <- AskedFor
    DefaultSize = 2
    MaxSize = 3
    MaxChanges = 2
INVARIANTS
    EveryRowIsListed
PROPERTIES
    WalksEnd
CHECK_DEADLOCK FALSE
