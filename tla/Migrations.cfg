SPECIFICATION Spec
CONSTANTS
    c1 = c1
    c2 = c2
    slow = slow
    fast = fast
    slowUrl = slowUrl
    slowPortUrl = slowPortUrl
    fastUrl = fastUrl
    index = index
    rewrite = rewrite
    Nobody = Nobody
    DatabaseOf <- Reaches
    Containers <- TwoContainers
    Databases <- SlowAndFast
    Urls <- AllUrls
    Groups <- IndexAndRewrite
    NullGroups <- OnlyRewrite
    Configurations <- AllConfigurations
    MaxId = 3
    MaxFaults = 2
INVARIANTS
    RerunChangesNothing
    ServesAtHead
PROPERTIES
    FirstsSurvive
    MigratesAtOnce
    EveryContainerServes
CHECK_DEADLOCK FALSE
