\* One request, every route, outcome, failure and crash point.
CONSTANTS
    r1 = r1
    r2 = r2
    r3 = r3
    NoRun = NoRun
    Runs = {r1}
    Threads = {t1}
    Modes = {"query", "stream"}
    RoutesTaken <- AllRoutes
    SkillOutcomes <- OutcomesOf
    MaxRetries = 1
    HistoryLimit = 5
    SummaryLimit = 3
    Overlap = TRUE
    MaxCrashes = 1
SPECIFICATION FairSpec
INVARIANTS TypeOK RetryDiscipline SentIsLogged LastAnswerStands
PROPERTIES RunsEnd
