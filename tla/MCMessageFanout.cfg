SPECIFICATION Spec
CONSTANTS
    m1 = m1
    m2 = m2
    m3 = m3
    Messages <- MCMessages
    Buckets <- MCBuckets
    WafBuckets <- MCWafBuckets
    Keys <- MCKeys
    Body <- MCBody
    CallerAccount <- MCCaller
    EnrichUserAgent = TRUE
    Limits <- MCLimits
INVARIANTS
    SlotsBounded
    WaitIsComplete
    EnforceSeesWhatIsSent
    EnforceBucketsWerePreflighted
    OneNamePerResource
PROPERTIES
    ImplementsBatchRead
    BatchCompletes
