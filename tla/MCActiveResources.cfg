SPECIFICATION Spec
CONSTANTS
    r1 = r1
    r2 = r2
    Setups <- MCSetups
    Regions <- MCRegions
    Arns <- MCArns
    Here <- MCHere
    Lasting <- MCLasting
    NonProd <- MCNonProd
    FreeLimit = 1
INVARIANTS
    TypeOK
    MetricMatchesDecision
PROPERTIES
    CountsOneEntitlement
    FleetWithinQuota
    QuotaRecovers
