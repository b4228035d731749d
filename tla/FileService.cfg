SPECIFICATION FairFileSpec
CONSTANTS
    c1 = c1
    c2 = c2
    t1 = t1
    t2 = t2
    x = x
    NUL = NUL
    Client = {c1, c2}
    Thread = {t1, t2}
    ClientOf <- OneThreadEach
    NoClient = NoClient
    Data <- Contained
    Request <- AllRequests
    MaxLength = 2
INVARIANTS
    FileTypeOK
    CachedDataAreCovered
    DataInHandAreCurrent
PROPERTIES
    OnlyPutsChangeContents
    ImplementsAtomicFile
    RequestsAreAnswered
