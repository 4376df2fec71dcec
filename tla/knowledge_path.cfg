\* Two requests and a readiness probe on cold models; one query may be rewritten into two.
CONSTANTS
    Requests = {q1, q2}
    Probes = {p1}
    Threshold = 82
    JsonMode = TRUE
    RewriterOn = TRUE
    RerankerOn = TRUE
    MaxRewrites <- OneRewritten
    q1 = q1  q2 = q2
    Dense <- DenseLists
    Sparse <- SparseLists
    RerankScores = {10, 50}
    RrfK = 60
    TopK = 2
    MinScore = 20
SPECIFICATION FairSpec
INVARIANTS OneLoadEach OneFallBack AnswersRest FoundIsUsed
PROPERTIES LoadedOnceEach RequestsEnd
