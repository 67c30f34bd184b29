CONSTANTS
    s1 = s1
    j1 = j1
    j2 = j2
    Job <- Jobs
    Site = {s1}
    SiteOf <- OneSite
    Worker = {w1, w2}
    MaxAttempts <- OneRetry
    DomainLimit = 1
    BackendLimit = 2
    CircuitThreshold = 1
    MaxCount = 1
    None = None
SPECIFICATION Spec
INVARIANTS
    TypeOK
    AttemptsMatchLeases
    DomainLimitRespected
    DeadSpentItsAttempts
PROPERTIES
    OnlyTheOwnerEnds
    ImplementsLeasedWork
    CohortCloses
