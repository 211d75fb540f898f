\* Two names for the same tables.
CONSTANTS
    near = near
    far = far
    small = small
    large = large
    lower = lower
    Names = {items, Items}
    Tables = {lower}
    TableOf <- OneTable
    Ids = {a}
    Texts = {near, far}
    Tags = {red}
    NoTag = NoTag
    Models = {small}
    DimensionOf <- MCDimensionOf
    Runtimes <- MCRuntimes
    NoModel = NoModel
    MaxItems = 1
    MaxRow = 1
    NoCollection = NoCollection
    NoTable = NoTable
    NoDoc = NoDoc
    NoVector = NoVector
    NoUpsert = NoUpsert
    Queries = {near}
    Distance <- MCDistance
    Score <- MCScore
    MaxTopK = 2
    MaxFetchK = 2
    FilterFactor = 2
    FilterFloor = 2
    NoAnswer = NoAnswer
SPECIFICATION SearchSpec
PROPERTIES CollectionsAreSeparate
