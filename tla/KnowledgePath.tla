---------------------------- MODULE KnowledgePath ---------------------------
(***************************************************************************)
(* The way of a question to its documents: routing (app/skills/router.py), *)
(* the optional rewriting of the query, embedding, the two searches, the   *)
(* fusion and the optional reranking (app/infra/retrieval.py), and the     *)
(* answer from evidence (app/skills/knowledge.py), with the calls of the   *)
(* language model (app/infra/llm.py) and the two models that load on first *)
(* use.  Requests, readiness probes and the searches of one request run    *)
(* concurrently, and a client that leaves cancels its request.             *)
(*                                                                         *)
(* Which chunks a channel may return is the subject of KnowledgeBase; here *)
(* any of the given hit lists.  Scores are in percent.                     *)
(***************************************************************************)
EXTENDS Router, FiniteSets, FiniteSetsExt, Functions

CONSTANTS
    Requests, Probes,   \* POST /query and /query/stream; GET /health/ready
    Threshold,          \* router_confidence_threshold, in percent
    JsonMode, RewriterOn, RerankerOn,    \* settings
    MaxRewrites,        \* queries the rewriter may add to a request
    Dense, Sparse,      \* hit lists the two channels may return
    RerankScores,       \* scores the reranker may give
    RrfK, TopK, MinScore

Hit == [chunk : Nat, score : 0..100]
ListOf(hits) == {s \in Seq(hits) : \A i, j \in DOMAIN s : s[i].chunk = s[j].chunk => i = j}

ASSUME SettingsAssumption ==
    /\ Requests \cap Probes = {}
    /\ {JsonMode, RewriterOn, RerankerOn} \subseteq BOOLEAN
    /\ MaxRewrites \in [Requests -> Nat] /\ Threshold \in 0..100 /\ MinScore \in 0..100
    /\ TopK \in 1..20 /\ RrfK \in Nat /\ RerankScores \subseteq 0..100
    /\ \A list \in Dense \cup Sparse : list \in ListOf(Hit)

\* Calls of the models: one for each query of a request, one for a probe.
Calls == (UNION {{r} \X (0..MaxRewrites[r]) : r \in Requests}) \cup (Probes \X {0})

VARIABLES
    pc,        \* where a request or a probe is
    posts,     \* requests sent in its present call of the language model, if any
    json,      \* does the last of them ask for JSON mode?
    stage,     \* where the search for one query of a request is
    groups,    \* hit lists of its queries, the original one first, until it is answered
    hits,      \* the candidates in their present order
    cited,     \* evidence the answer cites
    embedder, reranker    \* the two models, see LazyModel

vars == <<pc, posts, json, stage, groups, hits, cited, embedder, reranker>>
models == <<embedder, reranker>>
chat == <<posts, json>>
found == <<groups, hits, cited>>

Embedder == INSTANCE LazyModel WITH slot <- embedder
Reranker == INSTANCE LazyModel WITH slot <- reranker

Chatting == {"routing", "rewriting", "answering"}
Running == Chatting \cup {"granting", "searching", "reranking"}
Ended == {"other", "declined", "answered", "failed", "gone"}
Active(c) == stage[c] \in {"embed", "search"}

Init ==
    /\ pc = [x \in Requests \cup Probes |-> "idle"]
    /\ posts = [r \in Requests |-> 0]
    /\ json = [r \in Requests |-> FALSE]
    /\ stage = [c \in Calls |-> "none"]
    /\ groups = [r \in Requests |-> <<>>]
    /\ hits = [r \in Requests |-> <<>>]
    /\ cited = [r \in Requests |-> {}]
    /\ Embedder!LoaderInit /\ Reranker!LoaderInit
-----------------------------------------------------------------------------
(***************************************************************************)
(* Fusion.  A chunk at a rank of a list gets 1/(k + rank), here times the  *)
(* product of all denominators; equal sums keep the order of first sight.  *)
(***************************************************************************)
RankIn(list, c) == {i \in DOMAIN list : list[i].chunk = c}
ChunksOf(list) == {list[i].chunk : i \in DOMAIN list}
Seen(lists) == UNION {ChunksOf(lists[i]) : i \in DOMAIN lists}

Weight(n, rank) == FoldFunction(LAMBDA a, b : a * b, 1, [i \in (1..n) \ {rank} |-> RrfK + i])

Rrf(lists, c) ==
    LET n == Max({Len(lists[i]) : i \in DOMAIN lists})
    IN  SumFunction([i \in DOMAIN lists |->
                        SumFunction([k \in RankIn(lists[i], c) |-> Weight(n, k)])])

FirstList(lists, c) == Min({i \in DOMAIN lists : c \in ChunksOf(lists[i])})
ScoreIn(list, c) == list[CHOOSE i \in RankIn(list, c) : TRUE].score

Earlier(lists, a, b) ==
    LET i == FirstList(lists, a)
        j == FirstList(lists, b)
    IN  i < j \/ (i = j /\ Min(RankIn(lists[i], a)) < Min(RankIn(lists[i], b)))

Before(lists, a, b) ==
    \/ Rrf(lists, a) > Rrf(lists, b)
    \/ Rrf(lists, a) = Rrf(lists, b) /\ Earlier(lists, a, b)

\* The chunks of the lists by falling sum.
RrfOrder(lists) ==
    CHOOSE order \in [1..Cardinality(Seen(lists)) -> Seen(lists)] :
       \A i, j \in DOMAIN order : i < j => Before(lists, order[i], order[j])

Scored(order, score) == [i \in DOMAIN order |-> [chunk |-> order[i], score |-> score[order[i]]]]

\* _rrf_merge: a chunk of both channels keeps its better score.
Fused(dense, sparse) ==
    LET lists == <<dense, sparse>>
    IN  Scored(RrfOrder(lists),
               [c \in Seen(lists) |->
                   Max({ScoreIn(lists[i], c) : i \in {k \in 1..2 : c \in ChunksOf(lists[k])}})])

\* Mutation: a later query replaces the score of a chunk.
MergedManyLast(lists) ==
    Scored(RrfOrder(lists),
           [c \in Seen(lists) |->
               ScoreIn(lists[Max({i \in DOMAIN lists : c \in ChunksOf(lists[i])})], c)])

\* _rrf_merge_many: a chunk keeps the score of the first query that found it.
MergedMany(lists) ==
    Scored(RrfOrder(lists), [c \in Seen(lists) |-> ScoreIn(lists[FirstList(lists, c)], c)])

\* The fusions of one query, and of the queries of a request.
Groups == {Fused(d, s) : d \in Dense, s \in Sparse}
GroupLists == UNION {[1..n -> Groups] : n \in UNION {1..1 + MaxRewrites[r] : r \in Requests}}
Merged == [lists \in GroupLists |-> MergedMany(lists)]

First(list, n) == SubSeq(list, 1, IF Len(list) < n THEN Len(list) ELSE n)
Top(list) == First(list, TopK)

\* What of a list is above the threshold, in order.
Relevant(list) ==
    LET kept[k \in 0..Len(list)] ==
          IF k = 0 THEN <<>>
          ELSE IF list[k].score >= MinScore THEN Append(kept[k - 1], list[k])
          ELSE kept[k - 1]
    IN  kept[Len(list)]

\* What of the candidates becomes evidence.
Evidence(list) == Relevant(Top(list))
-----------------------------------------------------------------------------
(***************************************************************************)
(* The language model.  A gateway that answers 400 to JSON mode is asked   *)
(* once more without it.                                                   *)
(***************************************************************************)
Posting(r, purpose) ==
    /\ pc' = [pc EXCEPT ![r] = purpose]
    /\ posts' = [posts EXCEPT ![r] = 1]
    /\ json' = [json EXCEPT ![r] = JsonMode /\ purpose # "answering"]

NotPosting(r) ==
    /\ posts' = [posts EXCEPT ![r] = 0]
    /\ json' = [json EXCEPT ![r] = FALSE]

\* Mutation: the second request still asks for JSON mode.
FallBackAgain(r) ==
    /\ pc[r] \in Chatting /\ json[r] /\ posts[r] < 5
    /\ posts' = [posts EXCEPT ![r] = @ + 1]
    /\ UNCHANGED <<pc, json, stage, found, models>>

FallBack(r) ==
    /\ pc[r] \in Chatting /\ json[r]
    /\ posts' = [posts EXCEPT ![r] = @ + 1]
    /\ json' = [json EXCEPT ![r] = FALSE]
    /\ UNCHANGED <<pc, stage, found, models>>

\* The search for the original query and n others begins.
Search(r, n) ==
    /\ pc' = [pc EXCEPT ![r] = "searching"]
    /\ stage' = [c \in Calls |-> IF c[1] = r /\ c[2] =< n THEN "embed" ELSE stage[c]]

\* A request is routed by the rules or the language model.
Routed(r, decision) ==
    /\ pc' = [pc EXCEPT ![r] = IF Applied(decision, Threshold).route = "knowledge"
                               THEN "granting" ELSE "other"]
    /\ NotPosting(r)

RuleDecisions == {Rule(w) : w \in Queries}

Ask(r) ==
    /\ pc[r] = "idle"
    /\ \E d \in RuleDecisions :
          IF d = NoDecision THEN Posting(r, "routing") ELSE Routed(r, d)
    /\ UNCHANGED <<stage, found, models>>

RoutedByModel(r) ==
    /\ pc[r] = "routing"
    /\ \E route \in Routes, confidence \in {0, Threshold} : Routed(r, Decided(route, confidence))
    /\ UNCHANGED <<stage, found, models>>

\* The documents granted to the principal: none of them, or the search may begin.
ReadGrants(r) ==
    /\ pc[r] = "granting"
    /\ \/ pc' = [pc EXCEPT ![r] = "declined"] /\ UNCHANGED <<chat, stage>>
       \/ RewriterOn /\ Posting(r, "rewriting") /\ UNCHANGED stage
       \/ ~RewriterOn /\ Search(r, 0) /\ UNCHANGED chat
    /\ UNCHANGED <<found, models>>

GrantsFail(r) ==
    /\ pc[r] = "granting"
    /\ pc' = [pc EXCEPT ![r] = "failed"]
    /\ UNCHANGED <<chat, stage, found, models>>

Rewritten(r) ==
    /\ pc[r] = "rewriting"
    /\ \E n \in 0..MaxRewrites[r] : Search(r, n)
    /\ NotPosting(r)
    /\ UNCHANGED <<found, models>>

\* The candidates of a request that ended without an answer are gone.
Forgotten(r) ==
    /\ groups' = [groups EXCEPT ![r] = <<>>]
    /\ hits' = [hits EXCEPT ![r] = <<>>]
    /\ UNCHANGED cited

\* An error, a timeout or an invalid answer; without rewriting the search begins.
ChatFails(r) ==
    /\ pc[r] \in Chatting
    /\ IF pc[r] = "rewriting" THEN Search(r, 0)
       ELSE pc' = [pc EXCEPT ![r] = "failed"] /\ UNCHANGED stage
    /\ NotPosting(r)
    /\ Forgotten(r)
    /\ UNCHANGED models
-----------------------------------------------------------------------------
(***************************************************************************)
(* _search_fused for one query of a request.                               *)
(***************************************************************************)
UseEmbedder(c) ==
    /\ stage[c] = "embed"
    /\ Embedder!Enter(c)
    /\ UNCHANGED <<pc, chat, stage, found, reranker>>

Encode(c) ==
    /\ stage[c] = "embed" /\ embedder.at[c] = "ready"
    /\ stage' = [stage EXCEPT ![c] = "search"]
    /\ UNCHANGED <<pc, chat, found, models>>

\* The model could not be loaded, or the inference fails.
EncodeFails(c) ==
    /\ stage[c] = "embed" /\ embedder.at[c] \in {"ready", "failed"}
    /\ stage' = [stage EXCEPT ![c] = "failed"]
    /\ UNCHANGED <<pc, chat, found, models>>

\* Both channels have answered, or one of them has failed.
SearchEnds(c) ==
    /\ stage[c] = "search"
    /\ \E end \in {"found", "failed"} : stage' = [stage EXCEPT ![c] = end]
    /\ UNCHANGED <<pc, chat, found, models>>

StagesOf(r) == {stage[c] : c \in {d \in Calls : d[1] = r}} \ {"none"}
QueriesOf(r) == Cardinality({c \in Calls : c[1] = r /\ stage[c] # "none"})

\* gather raises the first failure; the other searches go on.
SearchFails(r) ==
    /\ pc[r] = "searching" /\ "failed" \in StagesOf(r)
    /\ pc' = [pc EXCEPT ![r] = "failed"]
    /\ UNCHANGED <<chat, stage, found, models>>

\* Evidence goes to the language model; without any the question is declined.
Use(r, list) ==
    /\ hits' = [hits EXCEPT ![r] = list]
    /\ IF Evidence(list) # <<>> THEN Posting(r, "answering")
       ELSE pc' = [pc EXCEPT ![r] = "declined"] /\ UNCHANGED chat

Merge(r) ==
    /\ pc[r] = "searching" /\ StagesOf(r) = {"found"}
    /\ \E lists \in [1..QueriesOf(r) -> Groups] :
          /\ groups' = [groups EXCEPT ![r] = lists]
          /\ IF RerankerOn /\ Seen(lists) # {}
             THEN /\ pc' = [pc EXCEPT ![r] = "reranking"]
                  /\ hits' = [hits EXCEPT ![r] = Merged[lists]]
                  /\ UNCHANGED chat
             ELSE Use(r, Merged[lists])
    /\ UNCHANGED <<stage, cited, models>>
-----------------------------------------------------------------------------
(***************************************************************************)
(* Reranking and the answer.                                               *)
(***************************************************************************)
RerankCall(r) == <<r, 0>>

UseReranker(r) ==
    /\ pc[r] = "reranking"
    /\ Reranker!Enter(RerankCall(r))
    /\ UNCHANGED <<pc, chat, stage, found, embedder>>

\* Candidates with the reranker's scores, the best ten (or TopK) of them in its order.
RerankLimit == IF TopK > 10 THEN TopK ELSE 10
Falling(list) == \A i, j \in DOMAIN list : i < j => list[i].score >= list[j].score
Rescored(list) ==
    {s \in [DOMAIN list -> [chunk : ChunksOf(list), score : RerankScores]] :
        ChunksOf(s) = ChunksOf(list) /\ Falling(s)}

Reranked(r) ==
    /\ pc[r] = "reranking" /\ reranker.at[RerankCall(r)] = "ready"
    /\ \E s \in Rescored(hits[r]) : Use(r, First(s, RerankLimit))
    /\ UNCHANGED <<stage, groups, cited, models>>

\* Whatever goes wrong, the candidates keep the order of the fusion.
RerankFails(r) ==
    /\ pc[r] = "reranking" /\ reranker.at[RerankCall(r)] \in {"ready", "failed"}
    /\ Use(r, hits[r])
    /\ UNCHANGED <<stage, groups, cited, models>>

\* Mutation: the text is taken as the model wrote it.
EnsuredNothing(ids, text) == text

\* _ensure_citations: a text without a known citation gets them all.
Ensured(ids, text) == IF text \cap ids # {} THEN text ELSE text \cup ids

\* A text may cite an id that is not there.
Answer(r) ==
    /\ pc[r] = "answering"
    /\ LET ids == DOMAIN Evidence(hits[r])
       IN  \E text \in SUBSET (ids \cup {TopK + 1}) :
              cited' = [cited EXCEPT ![r] = Ensured(ids, text)]
    /\ pc' = [pc EXCEPT ![r] = "answered"]
    /\ groups' = [groups EXCEPT ![r] = <<>>]
    /\ NotPosting(r)
    /\ UNCHANGED <<stage, hits, models>>

\* The client of a streamed request leaves: what it runs is cancelled.
Leave(r) ==
    /\ pc[r] \in Running
    /\ pc' = [pc EXCEPT ![r] = "gone"]
    /\ LET mine == {c \in Calls : c[1] = r}
       IN  /\ Embedder!Cancel(mine) /\ Reranker!Cancel(mine)
           /\ stage' = [c \in Calls |-> IF c \in mine THEN "none" ELSE stage[c]]
    /\ NotPosting(r)
    /\ Forgotten(r)

\* health() loads the model if need be.
Probe(p) ==
    /\ pc[p] = "idle"
    /\ pc' = [pc EXCEPT ![p] = "probing"]
    /\ Embedder!Enter(<<p, 0>>)
    /\ UNCHANGED <<chat, stage, found, reranker>>

ProbeEnds(p) ==
    /\ pc[p] = "probing" /\ embedder.at[<<p, 0>>] \in {"ready", "failed"}
    /\ pc' = [pc EXCEPT ![p] = "answered"]
    /\ UNCHANGED <<chat, stage, found, models>>
-----------------------------------------------------------------------------
EmbedderEnds(c) == Embedder!Load(c) \/ Embedder!LoadFails(c)
RerankerEnds(c) == Reranker!Load(c) \/ Reranker!LoadFails(c)
ModelsStep ==
    /\ \/ /\ Embedder!Grant \/ \E c \in Calls : EmbedderEnds(c) \/ Embedder!LeftBehind(c)
          /\ UNCHANGED reranker
       \/ /\ Reranker!Grant \/ \E c \in Calls : RerankerEnds(c) \/ Reranker!LeftBehind(c)
          /\ UNCHANGED embedder
    /\ UNCHANGED <<pc, chat, stage, found>>

ChatStep(r) ==
    FallBack(r) \/ RoutedByModel(r) \/ Rewritten(r) \/ ChatFails(r) \/ Answer(r)
RequestStep(r) ==
    \/ ChatStep(r) \/ ReadGrants(r) \/ GrantsFail(r) \/ SearchFails(r) \/ Merge(r)
    \/ UseReranker(r) \/ Reranked(r) \/ RerankFails(r)
CallStep(c) == UseEmbedder(c) \/ Encode(c) \/ EncodeFails(c) \/ SearchEnds(c)

Quiet ==
    /\ \A x \in Requests : pc[x] \in Ended
    /\ \A x \in Probes : pc[x] = "answered"
    /\ \A c \in Calls : ~Active(c)
    /\ embedder.threads = {} /\ reranker.threads = {}
Done == Quiet /\ UNCHANGED vars

Next ==
    \/ \E r \in Requests : Ask(r) \/ RequestStep(r) \/ Leave(r)
    \/ \E c \in Calls : CallStep(c)
    \/ \E p \in Probes : Probe(p) \/ ProbeEnds(p)
    \/ ModelsStep \/ Done

Spec == Init /\ [][Next]_vars

\* Requests to the language model and the database have timeouts, inference and loading
\* end, the lock is granted in turn.
Fairness ==
    /\ \A r \in Requests : WF_vars(RequestStep(r))
    /\ \A c \in Calls : WF_vars(CallStep(c))
    /\ WF_vars(ModelsStep)
FairSpec == Spec /\ Fairness
-----------------------------------------------------------------------------
\* Properties.

\* However calls of requests, their parallel searches and probes interleave, at most one
\* load of each model is wanted at a time (_ensure_model); a second copy is loaded only
\* beside one that a cancelled request left behind.
OneLoadEach == Embedder!OneLoad /\ Reranker!OneLoad

\* Both models are used as LazyModel describes.
ImplementsLoader == Embedder!LoaderSpec /\ Reranker!LoaderSpec

\* What is loaded stays loaded, and no call starts to load it again (_ensure_model): not
\* those that waited while it was loaded, and not after an inference has failed.
LoadedOnceEach == [][Embedder!Kept /\ Reranker!Kept]_models

\* A call of the language model is at most two requests, the second without JSON mode,
\* and the answer is asked for once (_request).
OneFallBack ==
    \A r \in Requests :
        /\ posts[r] =< IF JsonMode THEN 2 ELSE 1
        /\ posts[r] = 2 => ~json[r]
        /\ pc[r] = "answering" => posts[r] = 1

\* An answer rests on 1 to TopK distinct chunks above the threshold and cites at least one
\* of them, whichever of rewriting, fusion, reranking and fallback produced their order.
AnswersRest ==
    \A r \in Requests : pc[r] = "answered" =>
        LET e == Evidence(hits[r])
        IN  /\ Len(e) \in 1..TopK /\ e \in ListOf(Hit)
            /\ \A i \in DOMAIN e : e[i].score >= MinScore
            /\ cited[r] \cap DOMAIN e # {}

\* A chunk that the original query found above the threshold is evidence of the answer,
\* unless the reranker judged it or more than TopK chunks were found: other queries that
\* find it with lower scores do not push it out.
FoundIsUsed ==
    \A r \in Requests :
        /\ pc[r] \in {"answering", "declined"} /\ groups[r] # <<>>
        /\ ~(RerankerOn /\ reranker.at[RerankCall(r)] = "ready")
        /\ Cardinality(Seen(groups[r])) =< TopK
        => \A i \in DOMAIN groups[r][1] :
              groups[r][1][i].score >= MinScore =>
                  groups[r][1][i].chunk \in ChunksOf(Evidence(hits[r]))

\* A request that was asked ends, and so do the searches it started: neither a failed or
\* cancelled load nor a failing sibling leaves a call waiting for the lock.
RequestsEnd ==
    \A r \in Requests :
        pc[r] # "idle" ~> pc[r] \in Ended /\ "embed" \notin StagesOf(r) /\ "search" \notin StagesOf(r)
=============================================================================
