SPECIFICATION MCSpec
CHECK_DEADLOCK FALSE
CONSTANTS
    BuiltIn <- MCBuiltIn
    ZuulTriggers <- MCZuulTriggers
    MaxDepth = 6
    Components <- MCComponents
    ParameterNames <- MCParameterNames
    Values <- MCValues
    References <- ReferencesIn
    Expand <- Expanded
    Shared = FALSE
INVARIANTS
    TypeOK
    WrittenInFull
    RecursionOnlyInCircles
    ZuulAmendedOnce
PROPERTIES
    EveryRunEnds
