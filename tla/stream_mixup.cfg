\* Two streams at once on one thread: whose answer does completed carry?
CONSTANTS
    r1 = r1
    r2 = r2
    r3 = r3
    NoRun = NoRun
    Runs = {r1, r2}
    Threads = {t1}
    Modes = {"stream"}
    RoutesTaken <- OverlapRoutes
    SkillOutcomes <- FewOutcomes
    MaxRetries = 1
    HistoryLimit = 2
    SummaryLimit = 1
    Overlap = TRUE
    MaxCrashes = 0
SPECIFICATION Spec
INVARIANTS CompletedReviewed
