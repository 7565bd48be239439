SPECIFICATION ServedFairSpec
CONSTANTS
    c1 = c1
    r1 = r1
    r2 = r2
    h1 = h1
    NoOne = NoOne
    Clients <- OneClient
    Malformed <- AllParse
    Requests <- TwoRequests
    Probes <- OneProbe
    PoolSize <- KeepOne
    Capacity <- RoomForOne
    MaxPools = 1
INVARIANTS
    ServedByABranchOfItsTime
    StaleSamplesAreLate
    CurrentPoolOnTarget
PROPERTIES
    EveryUseEnds
