CONSTANTS
    Runs = {r1, r2}
    Loads = {l1}
    Threads = {t1, t2}
    None = None
SPECIFICATION FairSpec
INVARIANTS
    OneStreamUnlessError
    RunningIsRead
    OneRunShown
    FailureTold
    ForeignIsStray
PROPERTIES
    RunsSettle
