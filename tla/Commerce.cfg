SPECIFICATION Spec
CONSTANTS
    w1 = w1
    r1 = r1
    Walkers <- OneWalker
    Readers <- OneReader
    MaxUsers = 3
    MaxPageSize = 2
    DefaultPageSize = 1
    MaxDatasets = 2
    NoLimit = NoLimit
    NoCursor = NoCursor
    Garbage = Garbage
INVARIANTS
    NothingTwice
    WalksAreComplete
PROPERTIES
    OrdersAreWhole
    WalksEnd
