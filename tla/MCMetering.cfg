SPECIFICATION Spec
CONSTANTS
    m1 = m1
    m2 = m2
    m3 = m3
    c1 = c1
    Messages <- MCMessages
    Bytes <- MCBytes
    Records <- MCRecords
    SentAt <- MCSentAt
    Containers <- MCContainers
    BatchSize = 2
    MaxReceive = 2
    MaxBatchRecords = 2
    MaxContainerRecords = 2
    Allocation = 2
    WarningInterval = 2
    Drift = 1
    Configs <- MCConfigs
    MaxTime = 4
    MaxReplaced = 1
INVARIANTS
    TypeOK
    LastSamplesCoverDelivery
    FreeUseIsCapped
    BannersAreApart
CHECK_DEADLOCK FALSE
