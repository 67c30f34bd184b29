CONSTANTS
    Company = {c1}
    Worker = {w1}
    MaxAttempts = 1
    BatchSize = 1
    CompanyLimit = 2
    MaxChanges = 2
    MaxInserts = 1
    MaxRows = 1
SPECIFICATION TimedSpec
PROPERTIES MissedChangesAreFound
