SPECIFICATION FairClassSpec
CONSTANTS
    c1 = c1
    c2 = c2
    Client = {c1, c2}
    NoClient = NoClient
    MaxInum = 15
    StaleType = "stale"
    NUL = NUL
    Name <- Names
    Byte <- Bytes
    MountOrder <- InOrder
    Scenarios <- Passing
INVARIANTS
    DirTypeOK
    DataAreOwned
    DataInHandAreContents
    RemovedIsUnlisted
    ChecksSucceed
    IsOrderly
PROPERTIES
    ImplementsNameSpace
    RequestsFit
    TestsEnd
