CONSTANTS
    p1 = p1
    p2 = p2
    d1 = d1
    Pair <- TwoPairs
    Binding = {1}
    Window = {1}
    Domain = {d1}
    DomainOf <- OneDomain
    DomainLimit <- LimitOne
    Worker = {w1, w2}
    AttemptId = {1, 2, 3}
    MaxAttempts = 2
    Lease = 1
    Delay <- FailureWaits
    None = None
    MaxBatch = 1
    Applicability = {"APPLICABLE", "FAILED"}
SPECIFICATION Spec
INVARIANTS
    TypeOK
    AttemptsMatchLeases
    HolderIsCurrent
    DomainLimitRespected
    FailuresAreDeadLettered
    FailedSpentItsBudget
PROPERTIES
    LeaseIsExclusive
SYMMETRY Interchangeable
