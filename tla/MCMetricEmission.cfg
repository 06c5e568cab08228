SPECIFICATION MESpec
CONSTANTS
    us = us
    eu = eu
    ap = ap
    none = none
    Homes <- MCHomes
    Default = us
    Metadata <- MCMetadata
    NoRegion = none
    MaxBytes = 3
INVARIANTS
    METypeOK
    BilledIsLogged
PROPERTY LostSamplesAreCovered
CHECK_DEADLOCK FALSE
