SPECIFICATION Spec
CONSTANTS
    Key = 1
    ValidColumns = {1, 2, 3}
    Imports <- MCImports
    OldTables <- MCOldTables
    MaxRows = 3
    MaxPages = 4
    FileSizes = {1, 3, 5}
    Families <- MCFamilies
    Prefix <- MCPrefix
    Alphabet <- MCAlphabet
    MaxText <- MCMaxText
    Root = 100
    Trees <- MCTrees
    Limits = {0, 1, 2, 3, 5}
INVARIANTS
    TypeOK
    ImportIsExact
    ValuesKeepTheirKinds
    ImportsStayWithinLimit
    StatementsAreSplit
    StatementsAreRecognised
    UnquotedNamesAreFound
    ScansAnswer
    ListingIsHonest
CHECK_DEADLOCK FALSE
