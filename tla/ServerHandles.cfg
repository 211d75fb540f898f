SPECIFICATION Spec
CONSTANTS
    DbIds = {1, 2}
    DEFAULT_DB_ID = 2
    absolute = absolute
    relative = relative
    RawPaths = {absolute, relative}
    ResolvedPaths = {absolute}
    Resolve <- MCResolve
    NoPath = NoPath
    HasPersistRoot = TRUE
    Generations = {1, 2}
    CursorIds = {1, 2, 3, 4}
    Ttl = 1
    Capacity = 2
    Rows = {1, 2}
    RowBytes <- MCRowBytes
    ColumnBytes = 1
    EnvelopeBytes = 1
    HintBytes = 1
    MetaBytes = 1
    Jitter = 0
    Clients = {alice}
    Tables <- TwoRows
    NoTable = NoTable
    RowLimits = {1}
    MaxBytes = 5
    NoCursor = NoCursor
    NoDb = NoDb
    Requests = {1, NoDb}
INVARIANTS
    TypeOK
    CursorsMatchHandle
    ActiveIsOpen
PROPERTIES
    CursorsLostForCause
