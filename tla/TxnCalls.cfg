\* Three calls of up to two statements each.
CONSTANTS
    Calls = {c1, c2, c3}
    MaxStatements = 2
    NoRequest = NoRequest
    NoCall = NoCall
SPECIFICATION Spec
INVARIANTS TypeOK NoPartialImport
PROPERTIES CallsAreAtomic OthersTransactionKept
