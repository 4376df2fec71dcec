\* Two requests at once on one thread, with failures, leaving clients and a restart.
CONSTANTS
    r1 = r1
    r2 = r2
    r3 = r3
    NoRun = NoRun
    Runs = {r1, r2}
    Threads = {t1}
    Modes = {"query", "stream"}
    RoutesTaken <- OverlapRoutes
    SkillOutcomes <- FewOutcomes
    MaxRetries = 1
    HistoryLimit = 2
    SummaryLimit = 1
    Overlap = TRUE
    MaxCrashes = 1
SYMMETRY Symmetry
SPECIFICATION Spec
INVARIANTS QueryReplyVetted DeliveredAudited
