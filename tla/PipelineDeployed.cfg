SPECIFICATION RecoverySpec
CONSTANTS
    w1 = w1
    t1 = t1
    t2 = t2
    r1 = r1
    r2 = r2
    None = None
    Window = {w1}
    Target = {t1}
    MaxPage = 2
    PagesOf <- TwoPages
    Run = {r1, r2}
    ScopeOf <- OneScope
    Process = {p1, p2}
CHECK_DEADLOCK FALSE
INVARIANTS
    WatermarkCoversItsScope
    CompletedIsStored
PROPERTY
    AttemptConfirms
