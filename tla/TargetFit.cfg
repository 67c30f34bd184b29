CONSTANTS
    Company = {c1}
    Worker = {w1, w2}
    MaxAttempts = 2
    BatchSize = 1
    CompanyLimit = 2
    MaxChanges = 2
    MaxInserts = 1
    MaxRows = 1
SPECIFICATION WorkedSpec
INVARIANTS
    TypeOK
    FailedDecisionIsRetried
PROPERTIES
    NeverPublishesOlderContent
    QueueDrains
