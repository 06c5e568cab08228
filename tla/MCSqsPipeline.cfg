SPECIFICATION Spec
CONSTANTS
    m1 = m1
    m2 = m2
    m3 = m3
    o1 = o1
    u = u
    c1 = c1
    c2 = c2
    Messages <- MCMessages
    Objects <- MCObjects
    Unlicensed <- MCUnlicensed
    ProdBuckets <- MCProdBuckets
    Containers <- MCContainers
    BatchSize = 2
    MaxReceive = 2
    MayCrash = TRUE
    Configs <- MCConfigs
INVARIANTS
    DeletedIsDelivered
    UnlicensedNeverExported
PROPERTIES
    EveryMessageSettles
    UnlicensedIsDeadLettered
