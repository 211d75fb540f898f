SPECIFICATION Spec
CONSTANTS
    Configured = {"embedding", "reranker"}
    Clients = {alice, bob}
    Dbs = {"a", "b"}
    Requests <- MixedRequests
    MaxPolls = 1
    Versions = 2
    NoClient = NoClient
    NoRequest = NoRequest
INVARIANTS
    TypeOK
    CursorsAreFree
    UnitsCloseTheirTransaction
    ReadyStaysLoaded
PROPERTIES
    CallsAreSerial
    OwnLocksOutlastWaits
    EveryCallEnds
