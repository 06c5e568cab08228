SPECIFICATION Spec
CONSTANTS
    g1 = g1
    g2 = g2
    Groups <- MCGroups
    GroupSize <- MCGroupSize
    MaxBatchSize = 2
    MaxConcurrent = 2
    MaxRetries = 1
    Statuses <- MCStatuses
INVARIANTS
    ExactlyOnceOnNil
    ErrorIsPrimary
    QuiescentAfterReturn
    InFlightBounded
PROPERTIES
    ImplementsBatchExport
    SendLogsReturns
