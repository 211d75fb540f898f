SPECIFICATION Spec
CONSTANTS
    Rows <- MCRows
    RowBytes <- MCRowBytes
    Tables <- MCTables
    ColumnBytes = 1
    EnvelopeBytes = 2
    HintBytes = 2
    MetaBytes = 1
    Jitter = 1
    RowLimits = {1, 2, 3}
    ByteLimits = {2, 3, 4, 5, 6, 7, 8, 9, 11, 12, 24}
    MaxOffset = 4
INVARIANTS
    TypeOK
    PageIsAllowed
    NoOrphanCursor
PROPERTIES
    Terminates
