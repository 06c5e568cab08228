SPECIFICATION Spec
CONSTANTS
    Modes <- MCModes
    Tokens <- MCTokens
    Indicated <- MCIndicated
    Offending <- MCOffending
    Clocks <- MCClocks
    AuthTimes <- MCAuthTimes
    Drift = 2
    GraceEnd = 4
    Builds <- MCBuilds
    Genesis = 2
    ChangePeriod = 3
    OnTheDate = FALSE
    Abbreviates <- MCAbbreviates
INVARIANTS
    TypeOK
    StrictIsExact
    WarnNeverStops
    ClockDefence
PROPERTY
    PreflightIsSound
