SPECIFICATION Spec
CONSTANTS
    c1 = c1
    c2 = c2
    a1 = a1
    a2 = a2
    Containers <- MCContainers
    Arns <- MCArns
    HeartbeatInterval = 2
    LeaseDuration = 2
    Drift = 2
    SlidingWindow = 5
    ChunkSize = 1
    Lag = 1
    Batches <- MCBatches
    Delays <- MCDelays
    MaxTime = 8
    MaxCalls = 3
    MaxFaults = 1
SYMMETRY MCSymmetry
INVARIANTS
    CountIsKnown
PROPERTIES
    BoundedStaleness
    IdleForgotten
