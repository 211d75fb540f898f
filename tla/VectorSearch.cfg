\* One collection, two documents, three rowids.
CONSTANTS
    near = near
    far = far
    small = small
    large = large
    lower = lower
    Names = {items}
    Tables = {lower}
    TableOf <- OneTable
    Ids = {a, b}
    Texts = {near, far}
    Tags = {red}
    NoTag = NoTag
    Models = {small, large}
    DimensionOf <- MCDimensionOf
    Runtimes <- MCRuntimes
    NoModel = NoModel
    MaxItems = 2
    MaxRow = 3
    NoCollection = NoCollection
    NoTable = NoTable
    NoDoc = NoDoc
    NoVector = NoVector
    NoUpsert = NoUpsert
    Queries = {near}
    Distance <- MCDistance
    Score <- MCScore
    MaxTopK = 2
    MaxFetchK = 2
    FilterFactor = 2
    FilterFloor = 2
    NoAnswer = NoAnswer
SPECIFICATION SearchSpec
INVARIANTS SearchTypeOK EmbeddingsMatchDocuments MissesAreExplained BestMatchesFirst FallbackLosesNothing
