SPECIFICATION DeployedSpec
CONSTANTS
    w1 = w1
    t1 = t1
    t2 = t2
    r1 = r1
    r2 = r2
    None = None
    Window = {w1}
    Target = {t1, t2}
    MaxPage = 1
    PagesOf <- OnePage
    Run = {r1, r2}
    ScopeOf <- OneTargetEach
    Process = {p1, p2}
CHECK_DEADLOCK FALSE
INVARIANT
    WatermarkCoversItsScope
