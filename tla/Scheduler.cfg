CONSTANTS
    p1 = p1
    p2 = p2
    d1 = d1
    Pair <- OnePair
    Binding = {1, 2}
    Window <- Hours
    Domain = {d1}
    DomainOf <- OneDomain
    DomainLimit <- LimitOne
    Worker = {w1}
    AttemptId = {1, 2, 3}
    MaxAttempts = 2
    Lease = 1
    Delay <- OneHour
    None = None
    Jitter <- NoJitter
    RecheckDelay <- RecheckInOneHour
    MaxHour = 1
    MaxBatch = 0
    Applicability = {"APPLICABLE", "FAILED"}
SPECIFICATION SchedulerSpec
INVARIANTS
    SchedulerTypeOK
    FailuresAreDeadLettered
PROPERTIES
    LeaseIsExclusive
    ImplementsLeasedWork
    CommitServesEveryDuePair
