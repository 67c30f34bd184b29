CONSTANTS
    Operation = {o1, o2, o3}
    Owner = {w1, w2}
    Process = {p1, p2}
    None = None
    MaxCohort = 3
SPECIFICATION CycleSpec
INVARIANTS
    CycleTypeOK
    CycleContinuesInOrder
    CurrentIsComplete
    CompletedStageReturned
PROPERTIES
    RunsOperationsSerially
    PromotesOnItsPrior
SYMMETRY Symmetry
CHECK_DEADLOCK FALSE
