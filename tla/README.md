# TLA+ verification of the enterprise decision agent

The repository (`app/`, `frontend/`) is a FastAPI service that answers questions
about internal documents, business data and inventory risk. A request goes through
a fixed LangGraph workflow — prepare, route, one skill, review, respond — and comes
back as one JSON response (`POST /api/v1/query`) or as a stream of server-sent events
(`POST /api/v1/query/stream`). This directory holds TLA+ models of that system, the
TLC configurations that check them and TLAPS proofs about the parts where a claim for every
size matters most.

`PROJECT.json` is the index: components, runs, which definition stands for which
source lines, findings, hazards and theorems.

## 1. Inventory

| component | state it keeps | operations | interacts with |
|---|---|---|---|
| Agent workflow `graph/workflow.py`, `graph/state.py` | channel values of each running graph; latest checkpoint per thread (MemorySaver, in process) | `run`, `stream`, the nodes | skills, reviewer, HTTP routes |
| Answer review `skills/review.py` | none | `review` | called by the review node |
| Mixed plans `skills/planner.py`, `_mixed`, `_reduce_plan_results` | results of the concurrent steps | choose plan, run steps, merge | knowledge, data and risk skills |
| HTTP routes `api/routes.py`, `main.py` | none | query, stream, history, feedback, audits, health | workflow, application repository |
| Application repository `infra/app_database.py` | documents and grants, data grants, thread events, audits, feedback (PostgreSQL) | sync grants, read grants, record and list events, audits, feedback | routes, retrieval, SQL guard, ingestion |
| Router `skills/router.py` | none | `decide` (LLM, then rules) | workflow |
| Knowledge skill and retrieval `skills/knowledge.py`, `infra/retrieval.py`, `infra/vector_store.py` | Chroma collection (disk), BM25 index (process memory) | search in both channels, fuse, rerank; upsert | repository (grants), ingestion |
| Ingestion `cli.py`, `container.py`, `infra/document_loader.py` | none of its own | load, chunk, sync grants, embed, upsert twice | repository, Chroma, BM25 |
| Data skill, SQL guard, templates `skills/data.py`, `infra/sql_guard.py`, `infra/database.py`, `infra/postgres_queries.py`, `infra/permissions.py` | engine (lazy) | choose template, validate slots, check permissions, execute, render | PostgreSQL |
| Inventory risk `skills/inventory_risk.py` | none | two queries, classify | SQL execution, permissions |
| LLM client `infra/llm.py` | none | one request with one fallback | router, skills, rewriter |
| Embedding and reranker models `infra/embeddings.py`, `infra/retrieval.py` | the model, once loaded; a lock | load once, encode, score, health | retrieval, readiness probe |
| Web console `frontend/src/App.tsx` | messages, run state, thread, evidence, history, feedback | send, handle event, load history, feedback, new thread | HTTP API |

What is hard in it:

* **Concurrency on a thread.** Requests with the same `thread_id` run concurrently;
  each graph works on its own copy of the channels and puts it back as the thread's
  latest checkpoint after every node. `run` returns its own result, `stream` reads
  the thread's latest state.
* **Ordering.** An answer is streamed *before* it is reviewed; events are persisted
  before they are sent; audit comes before the answer.
* **Failure.** Any await may raise, a stream's client may leave at any event, the
  process may restart (threads are in memory, events and audits in PostgreSQL).
* **Retry.** The review node may call the skill a second time; the LLM client may repeat a
  request once.
* **Concurrent steps** of a mixed plan, with exceptions gathered, and textual
  renumbering of citations.
* **Ingestion against search.** An import writes PostgreSQL, Chroma and BM25 in
  separate steps, from a process of its own, and may stop after any of them, while searches
  read the grants with two queries and then ask two channels with rules of their own.
* **Checks before use.** Views are checked in one transaction and read in another, two
  statements of a risk request see different moments, and three limits cut what they return.
* **Models that load on first use** by concurrent calls, some of which fail or are cancelled.
* **A page that reacts to late events**: its streams, history loads, thread and run state
  change independently.

The correctness properties per component are the property names of sections 3 and 4;
`PROJECT.json` lists the hazards behind them, each at its line.

## 2. Modules

| module | models |
|---|---|
| `AnswerReview` | `AnswerReviewer.review` as a function from an abstract answer to a verdict |
| `Router` | the router's rules and the planner's subjects as functions of a query |
| `Chunking` | the window that cuts a section into chunks |
| `DocumentTexts` | `KnowledgeBase` with catalogues that `Chunking` cuts from the texts of documents |
| `Conversation` | abstract specification: what a client that asks one question at a time on a thread may rely on |
| `AgentWorkflow` | runs of the graph on shared threads, behind both endpoints |
| `MixedPlan` | one pass of the mixed node: plan, concurrent steps, merge, review |
| `KnowledgeBase` | imports of documents against searches: grants, Chroma, BM25, crashes, restarts |
| `LazyModel` | abstract specification: a model that concurrent calls load on first use |
| `KnowledgePath` | routing, rewriting, searches, fusion, reranking and the answer from evidence, with the LLM client and two lazily loaded models |
| `DataQuery` | data and inventory risk requests: templates, permissions, guard, execution, rendering |
| `Console` | the page of the web console against its streams and its user |
| `*Proofs` | theorems about the module they are named after; `AgentWorkflowProofs` also on the refinement of `Conversation`, `KnowledgeBaseProofs` also on `DocumentTexts` (section 5) |
| `Induction` | lemmas about naturals, finite sets, recursive functions and folds, which several proofs share |
| `MC*` | the instances TLC checks |

How they fit together. `AgentWorkflow` is the core and takes the outcomes a skill may return as
a constant; the other modules are the detail behind it. `MixedPlan` is one pass of the mixed
node (`SkillOutcomes["mixed"]`), `KnowledgePath` the knowledge skill behind a routing decision,
`DataQuery` the data and risk skills. `KnowledgePath` takes the hit lists of the channels as a
constant; which chunks they may contain is what `KnowledgeBase` is about, and `DocumentTexts` with
`Chunking` says which chunks there are. `Console` is on the other side of the stream `AgentWorkflow` sends.
`AgentWorkflow`, `MixedPlan` and `DataQuery` review answers with the same `AnswerReview`;
`MixedPlan` and `KnowledgePath` use the same `Router`. Two refinements connect levels:
`AgentWorkflow` implements `Conversation` (`Promise`), `KnowledgePath` implements two copies of
`LazyModel` (`Embedder`, `Reranker`), whose actions it shares.

### AgentWorkflow

| model | code |
|---|---|
| `request`, `pc` | thread and endpoint of each request; the node it is at |
| `state[r]` | `AgentState` of the running graph. `run` stands for run id, query, principal and trace, which are set together; `out` for status, answer, evidence and plan; the answer carries its author `by` and what it is (`text`) |
| `saved[t]` | latest checkpoint of thread `t` |
| `final`, `reply` | the `QueryResponse`, before and after it is delivered |
| `log`, `sent` | rows of `thread_events`; events the client has received |
| `audits` | audit rows |
| `calls` | a history variable: outcomes the skills returned, which the retry property speaks about |

One action per node (`Begin`, `Prepare`, `RouteStep`, `Skill`, `Clarify`,
`ReviewPasses/Refuses/Retries`, `Respond`), then `Finish` (response), `Audit` or
`AuditFails`, `Deliver` or `Leave`, and `Fail` and `Crash`. A node is one step because all
it reads is private to its run: the only shared state is `saved`, read at `Begin` and `Finish`
and written when a node ends. Each event of a node is persisted and then sent, and the stream
may be cut at any of these points (`CutShort`), in which case the node's checkpoint
is not put. Texts are abstracted to four kinds; an answer is what the reviewer can
tell apart. Metrics, log lines, confidences and wording are left out, and so are the event
types no property is about (`retrieval_*`, `plan_created`, `step_*`, `sql_validated`).

`review.error_code`, the metadata channel and `error_message` are determined by the
modelled fields or never read by the workflow.

### MixedPlan

`results[i]` is what `gather` holds for step `i`; `order` is the order of completion,
which the reducer cannot see. An answer text is the set of its bracketed tokens and whether its last
bracket is left open; a rewritten text maps
each original token to what it has become, so that sequential replacement
(`Replace`, folded over the evidence items) is modelled as it acts. The reviewer reads the sections as one
text, across newlines: `Tokens` lets an open bracket take in the next section up to its first closing one,
which is the only citation a rendered section has. A step is one
action: the steps share nothing while they run. Cancelling the node (a stream's client
leaving while it runs) is `CutShort` in `AgentWorkflow`. The plan comes from the
words of the query: `Router` gives both the subjects `plan()` finds and the rule that would send
such a query to the mixed route.

### KnowledgeBase

| model | code |
|---|---|
| `Catalog[i]` | the chunks import `i` has loaded, in order |
| `grants[d]` | the rows of `app.documents` and `app.document_grants` of a document |
| `store` | the Chroma collection: document, effective date, ACL, `is_active` per chunk id |
| `index` | the BM25 index in the memory of the searching process |
| `step`, `at`, `seen` | an import's position and the metadata it read and writes back |
| `phase`, `listed`, `allowed` | a search: documents read, ids allowed |
| `dense`, `answers` | what Chroma has returned to the query at hand; what both channels have returned to each query |
| `sole`, `entitled`, `expected`, `revised` | history variables the properties speak about |

`SyncGrants` (one transaction per document), `GetExisting`, `UpdateExisting` (once per
chunk, as the loop does), `UpsertChunks`, `IndexChunks` are the steps of an import;
`ReadDocuments`, `ReadGrants`, `SearchDense`, `SearchSparse` those of a search. Each is one
call of Chroma or one transaction, the grain at which another process can see it. Inside
the searching process the event loop makes some of them one: an import does not
suspend between its first `collection.get` and its end (`HoldsLoop`), nor does anything run
between the two channels (`Asking`). `InServer` names the imports that run there (the
evaluation and the tests do that); the `ingest-demo` command runs in a process of its own.
`GrantStore` is whether `APP_DB_DSN` is set, `Rewrites` whether the query rewriter is.

A rewritten question asks both channels once per query, each when its embedding has come, and the merge
takes the union. `SearchDense` and `SearchSparse` are one such pair and may recur any number of times, with
anything in between. The date of a document is read twice: `ChromaFrom` takes one without an offset
for local time of the importing process (`Zone`) and a malformed one for the epoch, `GrantFrom` takes the former for UTC, and
one that is not `Readable` ends the import, which only `StopImport` can then do.

An ACL is the set of principals it lets in, the same in both stores. `_acl_key` may map two names to one key, which
only widens Chroma's; the document filter still holds the hits to the grants, but without a grant store
nothing does. Chroma and PostgreSQL are external; where a
chunk id is upserted again, Chroma may or may not keep ACL keys the new metadata lacks, and the
model allows both. `top_k`, scores and reranking only leave hits out or order them;
a search is modelled with all that it may return.

`DocumentTexts` gives an import's documents their texts (`TextOf`) and says, in `LoaderAssumption`, that
its catalogue is what `Chunking` cuts from them: the chunks of a document are those of its text, each once.
`WholeTextStored` so follows the letters of a text through import, reimport and restart. A document is one
section here: two sections of a document with the same title get the same locator, hence the same chunk
ids, and the later would replace the earlier (section 4).

### Router and Chunking

Both are pure. A query is the set of the kinds of terms it contains (`Words`); kinds separate
exactly the terms that `_rule_decision` and `plan()` treat differently. Confidences are in
percent, `Applied` is the threshold.

A text is a sequence of characters of which newlines, the two marks a window prefers to end after
and letters are told apart; a chunk is the set of positions that `strip()` leaves of a window.
`Starts` is the sequence of window starts the progress guard `max(end - overlap, start + 1)` produces,
`ChunkText` goes through it and keeps the chunks that are not empty.

### LazyModel and KnowledgePath

| model | code |
|---|---|
| `embedder`, `reranker` | `_model` and `_lock` of `BGEEmbeddingProvider` and `CrossEncoderReranker`, the threads that load, and where each call of `_ensure_model` is |
| `pc`, `stage` | a request's position; the search of each of its queries (`Calls`) |
| `posts`, `json` | the requests one call of the LLM client has sent, and whether the last asks for JSON mode |
| `groups`, `hits`, `cited` | the hit lists of the queries, the candidates, the citations of the answer |

An action is what runs between two awaits: `Ask`, `RoutedByModel`, `ReadGrants`, `Rewritten`, for each
query `UseEmbedder`, `Encode`, `SearchEnds`, then `Merge`, `UseReranker`, `Reranked`, `Answer`, with
`FallBack` and `ChatFails` for every LLM call and a failing branch for each of the others.
`Probe` is the readiness check, which loads the embedding model too. `Leave` cancels the request and
every call it has waiting or loading. The lock is `asyncio.Lock`: granted in the order of waiting, passed over
those who were cancelled; the loading thread of a cancelled call goes on (`LeftBehind`).
`RrfOrder` computes reciprocal rank fusion exactly, with the denominators multiplied out.
How BM25 and the term coverage score a text, tokenizing and prompts are left out: a hit list
has any scores the instance gives it, a text cites any ids.

### DataQuery

| model | code |
|---|---|
| `sales`, `stock`, `grants` | lines of the two views, active rows of `app.data_grants`; they change while requests run |
| `chosen`, `checked` | the selected template with its arguments; templates whose view has been asserted |
| `query[q][t]`, `found` | an `execute_template` call: refused by the guard, running, failed, or its rows |
| `answer` | the rows the data skill rendered, and whether the review finds every number of the text in the excerpt |
| `full`, `held` | history variables the properties speak about |

`Decide` and `SelectionFails` are `_select_template` with its rule fallback, `CheckView`, `Deny`,
`Clarify` and `Submit` the checks in the order the skills make them, `Execute` and `ExecuteFails` one
statement in its transaction, `Answer` and `Raise` what follows. A statement is what
the guard looks at: its views, columns, whether it has a subquery, its limit. `Leading` is
ORDER BY with LIMIT, any order among ties. The results are sums of groups and remember which departments they come
from. `Printed` are the numbers an answer's text prints: those of its rows and, in a ranking, of its
lines. `Occurs` looks for a number in the excerpt as the reviewer does, anywhere among the digits
(`Within`); the numbers of a row stand for all it prints.
`Today` days stand for the calendar; a period's length is a difference of days.

One request per instance is enough: requests share only the views and the grants, which change
between any two of its steps. Error codes and wording are left out. The database is `PostgresDatabase`; the
`FakeDatabase` that the tests and the evaluation inject returns fixed rows and is not modelled. Nor are
the join and the classification of the risk skill, which no execution reaches (section 5, findings): `Answer`
ends such a request without saying what it found.

### Console

| model | code |
|---|---|
| `threadId`, `status` | the fields of the same name |
| `shown`, `failure`, `history` | whose events fill the run id, the details, the steps, the answer; whether the answer is a failure message; whose events the sidebar lists |
| `phase`, `thread`, `load` | each stream's read loop; the thread a request was sent for; each history request |
| `posted` | the run and thread of the last feedback |
| `erred`, `latest`, `strays` | history variables the properties speak about |

`Send`, `Close` and `Break` are `sendQuery` (its body, its end, its catch), `RunStarted`, `Progress`,
`Completed` and `Failed` are `handleEvent`, which looks at neither the run nor the thread of an
event. The server is external: a stream is `run_started`, progress, `completed` or `error`,
and may break anywhere. `LoadHistory` and `Loaded` are the two ends of a history request,
`NewThread`, `EditThread`, `SubmitFeedback` and `Reload` the rest of what the user does. The notice
beside the answer (`error`, `App.tsx:106`, `195`, `532`) is left out: no property is about it.

## 3. Runs

| run | question | result |
|---|---|---|
| `agent_one_run` | one request, all routes, outcomes, failures, a leaving client, a restart | `TypeOK`, `RetryDiscipline`, `SentIsLogged`, `LastAnswerStands`, `RunsEnd` hold |
| `agent_overlap` | two requests at once on one thread, failures, a restart | `QueryReplyVetted`, `DeliveredAudited` hold |
| `agent_serial` | two requests in turn, both endpoints, a restart, a thread that remembers one turn | `CompletedVetted`, `SummaryCurrent` hold, `Conversation` is implemented |
| `stream_mixup` | two streams at once on one thread | `CompletedReviewed` is violated |
| `mixed_plan` | every query, step outcome and order of completion | `KnownCitationsKeep`, `MergedInPlanOrder`, `AnsweredMeansAllRequired`, `RetriedWhenSwallowed`, `RulesMeetPlans` hold |
| `kb_revoke` | three imports by other processes revoke grants, overlap and stop while a principal searches; one is ahead of UTC, one comes to a malformed date | `HitsEntitled`, `SearchComplete`, `LatestImportStands` hold |
| `kb_local` | imports in the searching process, no grant store, rewritten queries, a restart | `AnswersOneVersion`, `OneActiveVersion`, `LexicalFollowsImport`, `WholeTextStored` hold |
| `kb_channels_grants` | both channels with a grant store | `ChannelsAgree` is violated |
| `knowledge_path` | two requests and a readiness probe on cold models, everything may fail, a client leaves | `OneLoadEach`, `LoadedOnceEach`, `OneFallBack`, `AnswersRest`, `FoundIsUsed`, `RequestsEnd` hold |
| `data_query` | one request of either skill while views and grants change | `TypeOK`, `RowsInScope`, `OwnLimitHonoured`, `RefusalsExplained`, `ShortTablesPass`, `RequestsEnd` hold |
| `data_approved` | the approved templates on `PostgresDatabase` | `ApprovedTemplatesRun` is violated |
| `console` | two queries, a history load, thread changes, feedback and reloads | `OneStreamUnlessError`, `RunningIsRead`, `OneRunShown`, `FailureTold`, `ForeignIsStray`, `RunsSettle` hold |

The three violations are disagreements between the code and what the repository says:

* **`stream_mixup`**: `stream` takes its response from `aget_state`, the thread's latest
  checkpoint. When two streams share a thread, one can complete with the other's answer,
  even before that was reviewed; the README says the review is completed before the
  final response. `agent_overlap` shows that `run`, which uses the value `ainvoke`
  returns, does not have the problem, and `agent_serial` that streams do not have it either
  without overlap.
* **`kb_channels_grants`**: with a grant store BM25 intersects chunk ids with document ids, so
  the lexical channel is always empty. Hybrid search is then dense search.
* **`data_approved`**: the statement of the inventory balance compares the day with a scalar
  subquery, and the guard refuses subqueries: with `PostgresDatabase` neither the balance nor an
  inventory risk request can ever be answered, though both are documented as supported. The tests
  run the skills on a fake database without a guard.

Several properties are stated around a known exception, which they name: `OneRunShown` and
`OneStreamUnlessError` until an error event, `ForeignIsStray` up to what was open when the thread
changed, `AnswersOneVersion` up to what is written between two queries of a search, `RetriedWhenSwallowed`
around an open bracket, `FailureTold` where the answer field is empty (a new thread empties it), `ShortTablesPass` but for the line numbers of a ranking, `OneLoad` beside the thread of a
cancelled call. The exceptions really occur; they are in section 4.

Bounds. One request suffices for what a run does alone. Two overlapping requests on one
thread are the smallest case of every interference through `saved`; a third one adds no
new reader or writer between the two ends of a run. Two requests in turn with
`HistoryLimit = 1` are the least in which a turn drops out of the history; the code's limits
5 and 3 (`agent_one_run` uses them) only lengthen the same list. One restart is enough because it resets all
process state. The skill outcomes are one per verdict the reviewer can give on each route
that a skill can really cause. `MaxDocs = 3` in `mixed_plan` lets the offset of the second
step be smaller than, equal to and larger than its item count; tokens range to two
beyond the largest id, and token 0 stands for every bracket that is no evidence id. In `KnowledgeBase` two imports are the
least that overlap or repair each other, and a third one in `kb_revoke` comes to a malformed date; two documents the least in which a document filter can let one through and not the
other, and a search reads shared state only, so one search sees what any would; how many
queries it asks is not bounded. The clock needs one tick to pass the one effective date, and one hour is the least by which two zones differ. In `knowledge_path` four calls of the embedding model (two
of one request, one of another, a probe) meet at its lock, so that one loads, one waits and one is
cancelled; the lists put a chunk on the threshold and one below it, in different orders. In `data_query` the limits are
scaled down (two rows, an excerpt of one, spans of two days) so that every limit is met, passed by
one and missed by one; two changes may fall between a check and its query. Line numbers
and quantities of one digit occur within dates and sums of two (`Digits`) or in no row at all. In `console` a second query is the least that can meet an older
stream, and two threads are enough to leave one. There is one retry, one fallback and one probe because
the code makes no more or treats them alike.

Fairness. `AgentWorkflow`: weak fairness on each run's steps: the LLM client
and the SQL statements have timeouts (`config.py`), a node either returns or raises, and
the event loop serves every ready coroutine. That a call of the application database ends (events, audits, grants) is an
assumption about its driver: the code sets no timeout for it. `DataQuery`: the same for a request's steps, its grant reads
and its statements, which `statement_timeout` ends. `KnowledgePath`: requests, the searches they started
and the loading threads go on; that loading and inference end is an assumption about the model
library, which has no timeout in the code. `Console`: the server ends every stream or the connection breaks; nothing is
assumed about its user, nor about progress events. Nothing is assumed about the arrival of requests,
about failures, changes, cancellations or restarts. Deadlock checking is on in every run; `Terminated`,
`Done` and `Quiet` are the states in which nothing is left to do.

Type invariants are checked by runs where they bound something (`AgentWorkflow`: `retry_count` within
the response model; `DataQuery`: only registered templates are worked on); elsewhere the types are part of
the proofs' invariants.

Every property of a passing run has a mutant in `PROJECT.json`: a definition changed the
way a plausible bug would change it (the operators marked `Mutation:` in the modules),
with which TLC finds the property violated.

## 4. Observations

What the models and the reading showed beside the violations; no document says otherwise, or
no run was spent on it.

Workflow
* Overlapping requests lose a turn: `respond` writes the history extended from the copy its run
  loaded, so the later of two drops the other's turn (`workflow.py:391`).
* A refusal's `retry_count` tells whether the last refusal was retryable, not whether a retry was
  made, while the console prints it as the number of retries.
* A token that is unknown to its own step, and would be refused on the knowledge route, can become
  the id of another step's evidence when the lists are merged (`workflow.py:448`).
* The reviewer's expression for citations runs across newlines. A knowledge text such as `见[[E1]]，另见[` passes
  `_ensure_citations`, and its open bracket then swallows the data section's citation: the mixed answer is refused as
  `REVIEW_CITATION_MISSING`, which is retryable, and the whole plan runs again (`review.py:44`).
* The model may route a query to `mixed` for which there is no plan, and so do the rules when
  its only data terms are figures without a subject: such a query ends as `PLAN_NOT_FOUND`
  (`planner.py:53`). A warning about stock is a risk to the router, which a mixed plan
  treats as a question about stock.

Knowledge
* Two processes that import two versions of a document at once both read the stored chunks before
  either marks them, and leave both versions active (`vector_store.py:63`).
* An effective date without an offset is local time to Chroma and UTC to the grants (`documents.py:76`, `app_database.py:634`):
  outside UTC a document becomes visible at the later of the two. A malformed one ends the import with a grant store,
  after the grants of the documents before it were written; without a grant store it is effective since 1970.
* With the query rewriter, an import that ends between two queries of a search makes the search mix the old and the
  new version of a document (`retrieval.py:203`).
* BM25 ignores the effective date that the dense channel filters by (`retrieval.py:483`).
* `ingest-demo` builds its BM25 index in a process that ends: the serving process starts with an
  empty one (in `KnowledgeBase`, `InServer = {}` keeps `index` empty).
* Two sections of a document with the same title have the same locator and so the same chunk
  id; the second replaces the first (`document_loader.py:49`).
* With an overlap of half a window or more, chunks may be near-duplicates that advance by one character.
* A cancelled load's thread goes on while the next call loads a second copy.

Data
* By reading, as the balance is never executed: cut results would lose shortages. A product whose sales row falls behind the row limit is taken as
  unsold (`inventory_risk.py:51`), and the balance is ordered by stock downwards, so the limit drops
  the lowest stock first.
* When one statement of a risk request fails, `gather` leaves the other running unawaited.
* `top_n` may be up to 50, which a smaller `sql_max_rows` refuses only at the guard.
* Tables of more than five rows may be refused by the review, whose number check sees the first five rows only, and
  so may a short ranking, when one of its line numbers occurs in none of its rows (`data.py:356`).
* `app/domain/permissions.py`, imported at `infra/permissions.py:14` and `app_database.py:21`, is not part of the
  commit; `DataScope` is modelled from its use. Its departments and columns take no part in executing a query.

Console
* An error event frees the run state, so a second query may be sent before the first stream has
  ended; the end of the first then says idle while the second still runs (`App.tsx:188`).
* The end of a stream after an error event sets the state to idle; only the message stays.
* A break after `completed` replaces the answer by a failure message.
* Neither events nor history answers are compared with the thread or run on the page, and `newThread` does not abort a
  stream. Two history loads of one thread may answer out of order.
* Feedback is stored without comparing the run with the thread (`routes.py:187`).

## 5. Proofs

The theorems hold for every value of the constants that satisfies the named assumptions of the
module (`RunsAssumption`, `BoundsAssumption`, `InputAssumption`, `KnowledgeAssumption`,
`CatalogAssumption`, `LoaderAssumption`, `EvidenceAssumption`, `InputsAssumption`, `LimitsAssumption`,
`SettingsAssumption`, `NoneAssumption`), which every run's constants satisfy. What the less obvious ones take from the code:

* `EvidenceAssumption`: the knowledge skill declines when it has no hit (`knowledge.py:42`), and the data
  and risk skills render one evidence item, which their text cites once, with no other bracket (`_data_evidence`, `inventory_risk.py:62`).
* `LoaderAssumption`: the overlap is below the window, which `document_loader.py` checks when it is
  constructed, and `load` numbers the chunks of a text from the first.
* `InputsAssumption`, `LimitsAssumption`: a view has finitely many lines, quantities and products are natural numbers,
  and `DefaultTopN` is an accepted `top_n`.
* `SettingsAssumption`: scores are from 0 to 100 percent, as `min_score` is; a channel returns a chunk once, as both
  store chunks by id; a health check is no query.
* `CatalogAssumption`: an import has chunks, and those of a document carry the same metadata. The code
  takes an empty catalogue for an error (`container.py:197`); two files of the catalogue with one document
  id, of which the later would decide the grants, are left out, and so are further keys of a catalogue entry
  that would shadow those of the metadata (`documents.py:51`).

| module | theorem | statement |
|---|---|---|
| `AgentWorkflowProofs` | `TypeCorrect` | `Spec => []TypeOK` |
| | `QueryReplyAlwaysVetted` | `Spec => []QueryReplyVetted` |
| | `AlwaysDeliveredAudited` | `Spec => []DeliveredAudited` |
| | `AlwaysRetryDiscipline` | `Spec => []RetryDiscipline` |
| | `AlwaysSentIsLogged` | `Spec => []SentIsLogged` |
| | `AlwaysLastAnswerStands` | `Spec => []LastAnswerStands` |
| | `AlwaysSummaryCurrent` | `Spec => []SummaryCurrent` |
| | `CompletedVettedWithoutOverlap` | if `~Overlap`, `Spec => []CompletedVetted` |
| | `RefinesConversation` | if `~Overlap`, `Spec => Promise!Init /\ [][Promise!Next]_(Promise!vars)` |
| `KnowledgeBaseProofs` | `AlwaysHitsEntitled` | `Spec => []HitsEntitled` |
| | `AlwaysLatestImportStands` | `Spec => []LatestImportStands` |
| | `AlwaysSearchComplete` | `Spec => []SearchComplete` |
| | `AlwaysLexicalFollowsImport` | if `InServer = Imports`, `Spec => []LexicalFollowsImport` |
| | `AlwaysOneActiveVersion` | if `InServer = Imports`, `Spec => []OneActiveVersion` |
| | `AlwaysAnswersOneVersion` | if `InServer = Imports`, `Spec => []AnswersOneVersion` |
| | `AlwaysWholeTextStored` | `Spec => []WholeTextStored` |
| | `AlwaysDenseAlone` | `Spec => []DenseAlone` (defined beside it) |
| `MixedPlanProofs` | `AlwaysKnownCitationsKeep` | `Spec => []KnownCitationsKeep` |
| | `AlwaysMergedInPlanOrder` | `Spec => []MergedInPlanOrder` |
| | `AlwaysAnsweredMeansAllRequired` | `Spec => []AnsweredMeansAllRequired` |
| | `AlwaysRetriedWhenSwallowed` | `Spec => []RetriedWhenSwallowed` |
| | `AlwaysRulesMeetPlans` | `Spec => []RulesMeetPlans` |
| `DataQueryProofs` | `AlwaysRowsInScope` | `Spec => []RowsInScope` |
| | `AlwaysRefusalsExplained` | `Spec => []RefusalsExplained` |
| | `TypeCorrect` | `Spec => []TypeOK` |
| | `AlwaysOwnLimitHonoured` | `Spec => []OwnLimitHonoured` |
| | `AlwaysShortTablesPass` | `Spec => []ShortTablesPass` |
| | `AlwaysBalanceUnanswered` | `Spec => []BalanceUnanswered` (defined beside it) |
| `ConsoleProofs` | `AlwaysRunningIsRead` | `Spec => []RunningIsRead` |
| | `AlwaysOneStreamUnlessError` | `Spec => []OneStreamUnlessError` |
| | `AlwaysOneRunShown` | `Spec => []OneRunShown` |
| | `AlwaysForeignIsStray` | `Spec => []ForeignIsStray` |
| | `AlwaysFailureTold` | `Spec => []FailureTold` |
| `LazyModelProofs` | `AlwaysOneLoad` | `LoaderSpec => []OneLoad` |
| | `AlwaysLoadedOnce` | `LoaderSpec => LoadedOnce` |
| `KnowledgePathProofs` | `UsesLoaders` | `Spec => ImplementsLoader` |
| | `AlwaysOneLoadEach` | `Spec => []OneLoadEach` |
| | `AlwaysLoadedOnceEach` | `Spec => LoadedOnceEach` |
| | `AlwaysOneFallBack` | `Spec => []OneFallBack` |
| | `AlwaysAnswersRest` | `Spec => []AnswersRest` |
| | `AlwaysFoundIsUsed` | `Spec => []FoundIsUsed` |

**Workflow.** `TypeOK` is not inductive: a checkpoint may belong to another run, and recording a
turn is only typed when the values carry a run. `TypeInv` adds `OwnRunId`: a run
that performs a node works on values with its own id. On top of it, `SafeInv` gives each run
what it knows at each step (`RunInv`): the calls made so far (`CallsInv`), that
everything past the review is vetted (`VettedInv`), and that the audit row exists before the
answer leaves (`AuditInv`). `RunInv(r)` mentions no variable of another run but the audit set, which only grows,
so `StepIsLocal` and `OthersKeep` reduce each step to the run that takes it. The proof
shows why `run` is immune to overlap: `Response` of a query is `state[r]`, never
`saved`. Streams are only immune without overlap: `SerialInv` then says that the thread's
checkpoint is that of the run at work, whose value `Finish` reads back. Three invariants follow the
events and the memory. `SentInv`: the log and what was sent are equal whenever a node begins, so
a gap of one event opens only where a stream ends. `AnswerInv`: from the return of the skill on,
the last answer event is the outcome the state holds, as the review either keeps it and sends
none or sends its replacement. `SummaryInv`: every run's values and every checkpoint carry the
summary of the history beside it, so nothing is lost when a checkpoint passes between runs.

**Conversation.** `Begin` is `Ask`, the end of the respond node is `Record`, `Deliver` is `Reply`,
whatever ends a run early is `Lose`, a restart is `Restart`, and every other step changes nothing of the abstract
state. `Record` needs `SerialInv` for the history it extends, `Reply` needs `OwnInv`: the response under
way is the state the turn was recorded from.

**Knowledge base.** `HitsEntitled` needs `EntitledInv`: while a search runs, everything granted to its
principal has been recorded (`Granted`), what it allows itself was granted when the second query
read it (`AllowedGranted`), and both channels only return allowed documents
(`DenseAllowed`, `SparseEmpty`). Chroma's ACL does not occur in the proof, so an
ACL that lags behind or is wider than the grants does no harm.

`LatestImportStands` needs `StandInv`: while one import has a document to itself, nobody else
writes its rows, so those it has passed (`Handled`) stay inactive until its upsert puts its own chunks
over them; what an earlier import left there is not mentioned. `SearchComplete` adds `GrantInv`,
that an import past a chunk has granted what it is about to store, and `CompleteInv`, that none of
the documents a search has read, allowed or asked for leaves out a chunk it owes (`Due`); an
import that begins meanwhile takes its document out of what is owed. The remaining three hold where imports share
the process with the search. `VersionInv` says what that is worth: from its first read of the
store an import is alone (`HoldInv`), so the rows it has seen are all there are when it marks them,
the index agrees with the active rows but for the import about to index (`IndexAgrees`), and what a
query has from Chroma is still active when it asks the index (`AskInv`), so one query has one version. Across
the queries of a search, what an earlier one was given is what is stored now unless the document
has been written since, which `revised` records. `SearchComplete` never compares the two dates: each filter passes what its own
store takes for effective, and `expected` asks for both.

**Texts.** `WholeTextStored` joins two arguments. `StandInv` says that everything an import owes a document is
stored and active once the import stands, and `ChunksHoldLetters` that these chunks leave out no letter:
`WindowEnds` bounds where a window ends, `StartsUnfold` turns the recursive `Starts` into its equation,
and `WindowsReach` shows that the windows leave no gap: were a position in none of them, the first start beyond it
would follow a window that ended before it.

**Mixed plans.** `PlanInv` keeps of every result what the skill of its step may return (`Ends`) and of the patch
that it is the merge of the results in plan order (`IsMerged`). `KnownCitationsKeep` then
is about the reducer alone. `RenumberingKeeps` shows that replacing one id after the other, from the smallest up,
moves each by the offset if no new id is one still to be replaced, that is if the offset is zero or at least
the number of items. The second holds because only the knowledge step may render several items
(`EvidenceAssumption`), and it is the first step of every plan that has one. `ReviewedMixed` goes through the
reviewer's rules for the merged answer: both kinds of evidence are there, and the citation of the second section is
found unless the first one swallows it (`Swallowed`).

**Data queries.** `RowsInScope` needs `ScopeInv`: what is granted now has been recorded as held
(`HeldInv`), a template counts as checked only when its view was held (`CheckedInv`), only checked
templates are executed (`QueriedInv`), and every row comes from lines that `InScope` left (`SeenInv`, by `RowsSeen`).
Grants may change at any step, because the invariant never says that a view is still granted.
`RefusalsExplained` rests on `GuardAdmits`, the guard's verdict on the four statements for all
arguments and limits. `ReadInv` follows the results: what runs has been accepted by the guard, so its limit is at most
`MaxRows` (`SubmittedInv`, `RunningLimit`), and `fetchmany` takes what the limit leaves (`ResultInv`), which is
`OwnLimitHonoured`. For `ShortTablesPass`, `LeadingRows` says what ORDER BY with LIMIT leaves of a finite set: the excerpt of a table that
fits is the table, so every number of its rows occurs, and only line numbers are left to doubt (`BoundOrLong`, `AnswerInv`).

**Console.** `PageInv` couples the status with the open streams: it says running only while one is
open, and, until an error event, whenever one is (`StatusHolds`). That is what the status guard
of `sendQuery` needs to keep streams apart. `ShownInv` adds that every open stream is the latest run's until an
earlier one has erred; `StrayInv` that whatever is shown, open or pending was sent for the thread of the
page or is recorded as a stray. `ToldInv`: the message of a failure could only be overwritten by the
stream that failed, whose error event is its last (`ErredLate`), or by an earlier one, which `ShownInv`
rules out.

**Lazy loading.** `LoaderInv` (`SlotType` and `OneLoad`) is inductive for one model: only the holder of
the lock loads, everyone else who does was cancelled. `KnowledgePathProofs` shows
that each step of the knowledge path is a step of `LazyModel` for either model or leaves it alone, and
takes both theorems over by instantiating `LazyModelProofs`. `ChatInv` says of every request whether
a call of the LLM client is under way and what it has sent, which bounds the requests of one call.

**From the search to the answer.** `RrfOrder` is a CHOOSE, so first there must be something to choose:
the sums are numbers (`RrfIsNatural`), chunks with equal sums are told apart by where they are seen
first (`BeforeOrders`), and a finite set with such an order can be listed (`Sorted` of `Induction`). Whatever
the order, a merge then holds each chunk of its lists once and those of the original query with their
scores (`MergedKeepsFirst`), and what is above the threshold goes through to the evidence (`EvidenceFacts`).
`PathInv` follows a request: it has no groups until its searches have ended, its candidates are the merge
of its groups until the reranker has judged, and whoever answers has evidence. That the reranker
is ready once it has judged (`JudgedStays`) is taken from `LazyModelProofs`.

**Findings, for every instance.** A violated run shows that something can happen once. `DenseAlone` says that with a grant
store the lexical channel never adds a hit, and `BalanceUnanswered` that no
request that needs the stock balance is ever answered, whatever the data, the grants and the limits.

**Recursion and folds.** The induction theorems of the library take an operator as a parameter, which the installed
provers cannot instantiate. `Induction` has what these proofs need without one: a non-empty set of naturals has
a least and, if bounded, a greatest element (`LeastNatural`, `GreatestNatural`), a non-empty set of finite sets a smallest one
(`SmallestSet`), so a claim about every number or every finite set is proved from a minimal
counterexample; a function that is defined from its value before exists (`Recursion`), and so
does a fold over the subsets of a finite set (`Folded`), which says that a recursive definition meets its own equation.

Every invariant and every action property of a passing run is the subject of a theorem. Only
model-checked is liveness, which needs fairness and ENABLED: `RunsEnd` and `RunsSettle`, the two
`RequestsEnd`, and the liveness half of the refinement of `Conversation`.

## 6. What is left

* `KnowledgePath` takes the hit lists of the channels from its constants; that they are what `KnowledgeBase` returns
  is not part of either model.
* `AgentWorkflow`, `MixedPlan`, `DataQuery` and `KnowledgePath` share outcomes by agreement: that the outcomes
  `AgentWorkflow` draws from are those the skills' models end with comes from reading the skills; no run compares them.
* The liveness properties are checked at small bounds only.

## 7. Not modelled

* Scoring arithmetic of BM25 and term coverage, tokenizing, prompts, rendering and wording: data
  without control.
* Reading Markdown and PDF files into sections; the catalogue of `KnowledgeBase` is their result.
* Authentication: token decoding is a pure library call per request.
* The read-only endpoints, the feedback insert, status mapping and the trace middleware; health is
  modelled as far as it loads a model.
* Configuration, wiring, metrics and logging: construction of objects and counters; the
  limits the modelled parts use are constants.
* The join and the classification of the inventory risk skill: they come after the balance, whose statement the guard
  refuses (`AlwaysBalanceUnanswered`). A model of them would describe states the program does not reach.
* The offline evaluation, the fakes and the demo schema: not part of the running service.
