\* Two requests in turn, asked either way, on a thread that remembers one turn, across a restart.
CONSTANTS
    r1 = r1
    r2 = r2
    r3 = r3
    NoRun = NoRun
    Runs = {r1, r2}
    Threads = {t1}
    Modes = {"query", "stream"}
    RoutesTaken <- KnowledgeOnly
    SkillOutcomes <- PlainOutcomes
    MaxRetries = 1
    HistoryLimit = 1
    SummaryLimit = 1
    Overlap = FALSE
    MaxCrashes = 1
SPECIFICATION FairSpec
INVARIANTS CompletedVetted SummaryCurrent
PROPERTIES ImplementsConversation
