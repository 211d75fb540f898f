SPECIFICATION Spec
CONSTANTS
    DbIds = {2}
    DEFAULT_DB_ID = 2
    absolute = absolute
    relative = relative
    RawPaths = {absolute}
    ResolvedPaths = {absolute}
    Resolve <- MCResolve
    NoPath = NoPath
    HasPersistRoot = FALSE
    Generations = {1}
    CursorIds = {1, 2, 3, 4, 5}
    Ttl = 2
    Capacity = 2
    Rows = {1, 2, 3}
    RowBytes <- MCRowBytes
    ColumnBytes = 1
    EnvelopeBytes = 1
    HintBytes = 1
    MetaBytes = 1
    Jitter = 2
    Clients = {alice, bob}
    Tables <- ThreeRows
    NoTable = NoTable
    RowLimits = {2}
    MaxBytes = 5
    NoCursor = NoCursor
    NoDb = NoDb
    Requests = {NoDb}
SYMMETRY ClientSymmetry
INVARIANTS
    WithinCapacity
    PagesAreContiguous
PROPERTIES
    OneCursorPerCall
