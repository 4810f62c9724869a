\* Two concurrent requests of each service, and two to four of them in all.
SPECIFICATION OperationsSpec
CONSTANTS
    Experiments = {e1, e2}
    Variants = {v1, v2}
    Baseline = v1
    Excludes <- ExcludeEachOther
    Requires <- RequireNothing
    AssignClients = {c1, c2}
    Recorders = {c1, c2}
    MaxExperimentOps = 3
    Operators = {c1, c2}
    MaxRegistryOps = 3
    Requests = {c1, c2}
    MaxRequests = 3
    LastInstant = 2
    MaxEvents = 2
    BufferSize = 1
    Flushers = {c1, c2}
    MaxFlushes = 2
    Checkers = {c1, c2}
    MaxChecks = 2
    MaxDataChanges = 2
    Volumes = {25}
    Traced = {c1, c2}
    LifeStages <- TracedStages
    Window = 1
    MaxTraced <- TracedRequests
    MaxReviews = 2
    Callers = {c1, c2}
    Phrases = {t1}
    Items = {t1}
    PerWindow = 1
    RequestLimit = 1
    TokenLimit = 2
    Attempts = 2
    BreakerThreshold = 1
    JobRetries = 1
    MaxArrivals = 3
SYMMETRY Symmetry
INVARIANTS
    OperationsTypeOK
    FirstAssignmentStands ExclusiveUnlessRaced EventsCounted
    TrailIsTrue OverrunIsBounded 
PROPERTIES
    DecisionsStick LostOnlyToAnEarlierDecision FlushDrains
    AlarmsAreRaised AlarmsNeedCause RepairSettles
CHECK_DEADLOCK FALSE
