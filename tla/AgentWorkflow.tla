---------------------------- MODULE AgentWorkflow ---------------------------
(***************************************************************************)
(* The request path of the agent: AgentWorkflow (app/graph/workflow.py)    *)
(* driven by POST /api/v1/query and POST /api/v1/query/stream              *)
(* (app/api/routes.py), with concurrent requests on shared threads.        *)
(*                                                                         *)
(* A run works on its private copy of the channel values (`state`) and     *)
(* puts it as the latest checkpoint of its thread after every node         *)
(* (`saved`); LangGraph and its MemorySaver are external and modelled as   *)
(* the code uses them: ainvoke/astream load the latest checkpoint of the   *)
(* thread when they start, the last put wins, aget_state reads it back.    *)
(* A node is one step: all it reads is private to its run.                 *)
(***************************************************************************)
EXTENDS AnswerReview, FiniteSets

CONSTANTS Runs,          \* the requests
          NoRun,         \* not a request
          Threads,       \* thread ids
          Modes,         \* how requests come: a subset of {"query", "stream"}
          RoutesTaken,   \* routes the Router chooses in this instance
          SkillOutcomes, \* SkillOutcomes[route]: what the skill may return
          MaxRetries,    \* settings.review_max_retries, 0 or 1
          HistoryLimit,  \* turns kept in `history`, 5 in the code
          SummaryLimit,  \* turns quoted by the summary, 3 in the code
          Overlap,       \* may a thread have two requests in flight?
          MaxCrashes     \* bound on process restarts

\* The text of an answer: absent, a skill's, the clarify node's question, or
\* the notice that replaces an answer the reviewer refused.
Texts == {"none", "skill", "prompt", "rejected"}

\* The outcome channels: status, answer and evidence of the current turn, and
\* `by`, the run whose node wrote the answer.
Outcome == [by : Runs \cup {NoRun}, text : Texts, status : Statuses,
            cited : SUBSET Nat, kinds : Seq(Kinds), bound : BOOLEAN,
            plan : BOOLEAN]

\* What a skill hands to _outcome_update, before a run signs it.
SkillOutcome == {o \in Outcome : o.by = NoRun /\ o.text = "skill"}

Turn == [run : Runs, status : Statuses]

\* The channels of AgentState.  query, principal, trace_id and thread_id are
\* set together with run_id and stand behind `run`; error_code is determined
\* by out and review.
Values == [run : Runs \cup {NoRun}, route : Routes, out : Outcome,
           review : ReviewResults, retry : 0..1,
           history : Seq(Turn), summary : Seq(Turn)]

ASSUME RunsAssumption == NoRun \notin Runs
ASSUME BoundsAssumption ==
    /\ MaxRetries \in 0..1
    /\ HistoryLimit \in Nat \ {0}
    /\ SummaryLimit \in Nat \ {0}
    /\ MaxCrashes \in Nat
    /\ Overlap \in BOOLEAN
ASSUME InputAssumption ==
    /\ Modes \subseteq {"query", "stream"}
    /\ RoutesTaken \subseteq Routes
    /\ SkillOutcomes \in [SkillRoutes -> SUBSET SkillOutcome]

VARIABLES
    request,  \* request[r]: thread and mode, as the client sent them
    pc,       \* pc[r]: the node or step the run performs next
    state,    \* state[r]: the channel values of the running graph
    calls,    \* calls[r]: outcomes the skills returned to the run, in order
    final,    \* final[r]: the QueryResponse built when the graph has ended
    reply,    \* reply[r]: the response the client received
    saved,    \* saved[t]: latest checkpoint of thread t (MemorySaver)
    log,      \* log[r]: persisted thread_events of the run
    sent,     \* sent[r]: events the client received
    audits,   \* persisted agent_run_completed audit rows
    crashes   \* process restarts so far

vars == <<request, pc, state, calls, final, reply, saved, log, sent, audits,
          crashes>>

NoOutcome == [by |-> NoRun, text |-> "none", status |-> "clarify",
              cited |-> {}, kinds |-> <<>>, bound |-> TRUE, plan |-> FALSE]

NoValues == [run |-> NoRun, route |-> "clarify", out |-> NoOutcome,
             review |-> NoReview, retry |-> 0,
             history |-> <<>>, summary |-> <<>>]

Nodes == {"prepare", "route", "branch", "review", "respond"}
Active == Nodes \cup {"finish", "audit", "deliver"}
\* Ways a run ends: answered, failed with an error, cut short, lost in a crash.
Ended == {"done", "failed", "gone", "lost"}

Thread(r) == request[r].thread
Streaming(r) == request[r].mode = "stream"

LastOf(s, n) == SubSeq(s, IF Len(s) > n THEN Len(s) - n + 1 ELSE 1, Len(s))

Init ==
    /\ request \in [Runs -> [thread : Threads, mode : Modes]]
    /\ pc = [r \in Runs |-> "idle"]
    /\ state = [r \in Runs |-> NoValues]
    /\ calls = [r \in Runs |-> <<>>]
    /\ final = [r \in Runs |-> NoValues]
    /\ reply = [r \in Runs |-> NoValues]
    /\ saved = [t \in Threads |-> NoValues]
    /\ log = [r \in Runs |-> <<>>]
    /\ sent = [r \in Runs |-> <<>>]
    /\ audits = {}
    /\ crashes = 0

-----------------------------------------------------------------------------
(***************************************************************************)
(* Events of a streamed run.  event_source persists each one before it is  *)
(* sent; either may fail to happen (the insert fails, the client leaves),  *)
(* which closes the generator and with it the run, before the checkpoint   *)
(* of the node is put.                                                     *)
(***************************************************************************)
EventTypes == {"run_started", "route", "evidence", "answer", "retry_started",
               "review_completed", "completed", "error"}

Event(type, out) == [type |-> type, out |-> out]
Notice(type) == Event(type, NoOutcome)

Publish(r, evs) ==
    IF Streaming(r)
    THEN /\ log' = [log EXCEPT ![r] = @ \o evs]
         /\ sent' = [sent EXCEPT ![r] = @ \o evs]
    ELSE UNCHANGED <<log, sent>>

\* Mutation: an event is sent before it is persisted.
SentFirst(r, evs) ==
    /\ Streaming(r)
    /\ \E got \in 0..Len(evs) : \E stored \in {got - 1, got} \cap Nat :
          /\ log' = [log EXCEPT ![r] = @ \o SubSeq(evs, 1, stored)]
          /\ sent' = [sent EXCEPT ![r] = @ \o SubSeq(evs, 1, got)]
    /\ pc' = [pc EXCEPT ![r] = "gone"]

CutShort(r, evs) ==
    /\ Streaming(r)
    /\ \E stored \in 0..Len(evs) : \E got \in {stored - 1, stored} \cap Nat :
          /\ log' = [log EXCEPT ![r] = @ \o SubSeq(evs, 1, stored)]
          /\ sent' = [sent EXCEPT ![r] = @ \o SubSeq(evs, 1, got)]
    /\ pc' = [pc EXCEPT ![r] = "gone"]

\* The end of a node: its events go out, its patch is applied, the checkpoint
\* is put, and the graph goes on to `next`.
Advance(r, next, v, evs) ==
    \/ /\ Publish(r, evs)
       /\ pc' = [pc EXCEPT ![r] = next]
       /\ state' = [state EXCEPT ![r] = v]
       /\ saved' = [saved EXCEPT ![Thread(r)] = v]
    \/ CutShort(r, evs) /\ UNCHANGED <<state, saved>>

-----------------------------------------------------------------------------
(***************************************************************************)
(* The graph: START -> prepare -> route -> skill | clarify -> review ->    *)
(* respond -> END, clarify bypassing the review.                           *)
(***************************************************************************)

\* No other request is in flight on the thread.
Quiet(r) == \A q \in Runs \ {r} : Thread(q) = Thread(r) => pc[q] \notin Active

\* run/stream: a run id is drawn, and ainvoke/astream load the thread's latest
\* checkpoint and write the request's fields over it.  Everything else the
\* checkpoint held, the previous turn's answer included, is still there.
Begin(r) ==
    /\ pc[r] = "idle"
    /\ Overlap \/ Quiet(r)
    /\ Advance(r, "prepare", [saved[Thread(r)] EXCEPT !.run = r],
               <<Notice("run_started")>>)
    /\ UNCHANGED <<request, calls, final, reply, audits, crashes>>

\* Mutation: the conversation is reset with the turn.
ResetAll(v) == [NoValues EXCEPT !.run = v.run]

\* _prepare: the fields of one turn are reset, the conversation is kept.
Reset(v) ==
    [v EXCEPT !.route = "clarify", !.out = NoOutcome, !.review = NoReview,
              !.retry = 0,
              !.summary = IF v.summary = <<>> THEN LastOf(v.history, SummaryLimit)
                          ELSE v.summary]

Prepare(r) ==
    /\ pc[r] = "prepare"
    /\ Advance(r, "route", Reset(state[r]), <<>>)
    /\ UNCHANGED <<request, calls, final, reply, audits, crashes>>

RouteStep(r) ==
    /\ pc[r] = "route"
    /\ \E route \in RoutesTaken :
          Advance(r, "branch", [state[r] EXCEPT !.route = route],
                  <<Notice("route")>>)
    /\ UNCHANGED <<request, calls, final, reply, audits, crashes>>

\* _outcome_update: the outcome of a skill call becomes the answer of run r.
Signed(o, r) == [o EXCEPT !.by = r]

OutcomeEvents(out) ==
    (IF out.kinds = <<>> THEN <<>> ELSE <<Notice("evidence")>>)
    \o <<Event("answer", out)>>

\* _knowledge, _data, _inventory_risk and _mixed.
Skill(r) ==
    /\ pc[r] = "branch"
    /\ state[r].route # "clarify"
    /\ \E o \in SkillOutcomes[state[r].route] :
          /\ calls' = [calls EXCEPT ![r] = Append(@, o)]
          /\ Advance(r, "review", [state[r] EXCEPT !.out = Signed(o, r)],
                     OutcomeEvents(Signed(o, r)))
    /\ UNCHANGED <<request, final, reply, audits, crashes>>

Prompt(r) == [NoOutcome EXCEPT !.by = r, !.text = "prompt"]

Clarify(r) ==
    /\ pc[r] = "branch"
    /\ state[r].route = "clarify"
    /\ Advance(r, "respond", [state[r] EXCEPT !.out = Prompt(r)],
               OutcomeEvents(Prompt(r)))
    /\ UNCHANGED <<request, calls, final, reply, audits, crashes>>

\* Mutation: the notice leaves the refused answer in place.
RejectedKeeps(v, result, r) ==
    [v EXCEPT !.review = result,
              !.retry = IF v.retry = 1 \/ result.retryable THEN 1 ELSE 0]

\* Mutation: the retry that was made and its failure are added up, uncapped.
RejectedCounts(v, result, r) ==
    [v EXCEPT !.out = [@ EXCEPT !.by = r, !.text = "rejected",
                                !.status = "clarify", !.cited = {},
                                !.bound = TRUE],
              !.review = result,
              !.retry = v.retry + (IF result.retryable THEN 2 ELSE 1)]

\* The patch of a failed review.  The answer is replaced; its evidence stays.
\* retry_count reports the last failure's kind, not the retry that was made.
Rejected(v, result, r) ==
    [v EXCEPT !.out = [@ EXCEPT !.by = r, !.text = "rejected",
                                !.status = "clarify", !.cited = {},
                                !.bound = TRUE],
              !.review = result,
              !.retry = IF v.retry = 1 \/ result.retryable THEN 1 ELSE 0]

Reviewed(v, result, retry) ==
    [v EXCEPT !.review = result, !.retry = retry]

\* Mutation: the answer that replaces the first one is not sent.
ReviewEventsSilent(v, answer) ==
    (IF v.retry = 1 THEN <<Notice("retry_started")>> ELSE <<>>)
    \o <<Notice("review_completed")>>

\* Events of the review node: the answer is sent only when the patch has one.
ReviewEvents(v, answer) ==
    (IF v.retry = 1 THEN <<Notice("retry_started")>> ELSE <<>>)
    \o <<Notice("review_completed")>>
    \o (IF answer THEN <<Event("answer", v.out)>> ELSE <<>>)

\* Mutation: any refusal is retried.
MayRetryAlways(v, first) == ~first.passed /\ v.retry < MaxRetries

MayRetry(v, first) == first.retryable /\ v.retry < MaxRetries

\* _review: the answer passes, is refused, or is made and reviewed once more.
FirstReview(r) == Review(state[r].route, state[r].out)

ReviewPasses(r) ==
    /\ pc[r] = "review"
    /\ FirstReview(r).passed
    /\ LET new == Reviewed(state[r], FirstReview(r), state[r].retry)
       IN  Advance(r, "respond", new, ReviewEvents(new, FALSE))
    /\ UNCHANGED <<request, calls, final, reply, audits, crashes>>

ReviewRefuses(r) ==
    /\ pc[r] = "review"
    /\ ~FirstReview(r).passed
    /\ ~MayRetry(state[r], FirstReview(r))
    /\ LET new == Rejected(state[r], FirstReview(r), r)
       IN  Advance(r, "respond", new, ReviewEvents(new, TRUE))
    /\ UNCHANGED <<request, calls, final, reply, audits, crashes>>

\* The values after a retry whose skill call returned o.
Retried(r, o) ==
    LET second == Review(state[r].route, Signed(o, r))
    IN  IF second.passed
        THEN Reviewed([state[r] EXCEPT !.out = Signed(o, r)], second, 1)
        ELSE Rejected(state[r], second, r)

ReviewRetries(r) ==
    /\ pc[r] = "review"
    /\ ~FirstReview(r).passed
    /\ MayRetry(state[r], FirstReview(r))
    /\ \E o \in SkillOutcomes[state[r].route] :
          /\ calls' = [calls EXCEPT ![r] = Append(@, o)]
          /\ Advance(r, "respond", Retried(r, o),
                     ReviewEvents(Retried(r, o), TRUE))
    /\ UNCHANGED <<request, final, reply, audits, crashes>>

ReviewStep(r) == ReviewPasses(r) \/ ReviewRefuses(r) \/ ReviewRetries(r)

\* Mutation: the summary is made before the turn is appended.
RecordedLate(v) ==
    LET turns == LastOf(Append(v.history,
                               [run |-> v.run, status |-> v.out.status]),
                        HistoryLimit)
    IN  [v EXCEPT !.history = turns, !.summary = LastOf(v.history, SummaryLimit)]

\* Mutation: the history is not truncated.
RecordedAll(v) ==
    LET turns == Append(v.history, [run |-> v.run, status |-> v.out.status])
    IN  [v EXCEPT !.history = turns, !.summary = LastOf(turns, SummaryLimit)]

\* _respond: the turn joins the run's copy of the history, and the whole copy
\* becomes the thread's history.
Recorded(v) ==
    LET turns == LastOf(Append(v.history,
                               [run |-> v.run, status |-> v.out.status]),
                        HistoryLimit)
    IN  [v EXCEPT !.history = turns, !.summary = LastOf(turns, SummaryLimit)]

Respond(r) ==
    /\ pc[r] = "respond"
    /\ Advance(r, "finish", Recorded(state[r]), <<>>)
    /\ UNCHANGED <<request, calls, final, reply, audits, crashes>>

-----------------------------------------------------------------------------
(***************************************************************************)
(* The end of a run: the response, its audit row, the answer.              *)
(***************************************************************************)

\* Mutation: run() too takes the thread's checkpoint for its own result.
ResponseShared(r) == saved[Thread(r)]

\* run() converts what ainvoke returned; stream() asks the checkpointer for
\* the latest state of the thread, whoever put it there.
Response(r) == IF Streaming(r) THEN saved[Thread(r)] ELSE state[r]

Finish(r) ==
    /\ pc[r] = "finish"
    /\ final' = [final EXCEPT ![r] = Response(r)]
    /\ pc' = [pc EXCEPT ![r] = "audit"]
    /\ UNCHANGED <<request, state, calls, reply, saved, log, sent, audits,
                   crashes>>

Completed(r) == Event("completed", final[r].out)

\* Mutation: a stream too is audited under the id found in its response.
AuditRowOfResponse(r) ==
    [by |-> r, run |-> final[r].run,
     status |-> final[r].out.status, retry |-> final[r].retry]

\* A streamed run is audited under its own run id, a query under the id found
\* in its response.
AuditRow(r) ==
    [by |-> r, run |-> IF Streaming(r) THEN r ELSE final[r].run,
     status |-> final[r].out.status, retry |-> final[r].retry]

Audit(r) ==
    /\ pc[r] = "audit"
    /\ audits' = audits \cup {AuditRow(r)}
    /\ log' = IF Streaming(r) THEN [log EXCEPT ![r] = Append(@, Completed(r))]
              ELSE log
    /\ pc' = [pc EXCEPT ![r] = "deliver"]
    /\ UNCHANGED <<request, state, calls, final, reply, saved, sent, crashes>>

\* The insert of the thread event or of the audit row fails: a query answers
\* 500, a stream breaks off; the thread has the turn, the client no answer.
AuditFails(r) ==
    /\ pc[r] = "audit"
    /\ log' \in IF Streaming(r)
                THEN {log, [log EXCEPT ![r] = Append(@, Completed(r))]}
                ELSE {log}
    /\ pc' = [pc EXCEPT ![r] = IF Streaming(r) THEN "gone" ELSE "failed"]
    /\ UNCHANGED <<request, state, calls, final, reply, saved, sent, audits,
                   crashes>>

Deliver(r) ==
    /\ pc[r] = "deliver"
    /\ reply' = [reply EXCEPT ![r] = final[r]]
    /\ sent' = IF Streaming(r) THEN [sent EXCEPT ![r] = Append(@, Completed(r))]
               ELSE sent
    /\ pc' = [pc EXCEPT ![r] = "done"]
    /\ UNCHANGED <<request, state, calls, final, saved, log, audits, crashes>>

\* The client of a stream leaves before the completed event reaches it.
Leave(r) ==
    /\ pc[r] = "deliver"
    /\ Streaming(r)
    /\ pc' = [pc EXCEPT ![r] = "gone"]
    /\ UNCHANGED <<request, state, calls, final, reply, saved, log, sent,
                   audits, crashes>>

\* Mutation: a failed Router call starts the graph over.
FailRestarts(r) ==
    /\ pc[r] = "route"
    /\ pc' = [pc EXCEPT ![r] = "prepare"]
    /\ UNCHANGED <<request, state, calls, final, reply, saved, log, sent,
                   audits, crashes>>

\* A node raises (a model, the vector store or the database is unavailable, a
\* permission is missing): a query answers an error status, a stream sends an
\* error event.  The thread keeps the checkpoint of the last node that ended.
\* The mixed node turns what its steps raise into an outcome.
Fail(r) ==
    /\ \/ pc[r] = "route"
       \/ pc[r] = "branch" /\ state[r].route \notin {"clarify", "mixed"}
       \/ /\ pc[r] = "review"
          /\ state[r].route # "mixed"
          /\ ~FirstReview(r).passed
          /\ MayRetry(state[r], FirstReview(r))
    /\ \/ /\ Publish(r, <<Notice("error")>>)
          /\ pc' = [pc EXCEPT ![r] = "failed"]
       \/ CutShort(r, <<Notice("error")>>)
    /\ UNCHANGED <<request, state, calls, final, reply, saved, audits, crashes>>

\* The process restarts: graphs in flight and every checkpoint are gone; what
\* PostgreSQL and the clients hold stays.
Crash ==
    /\ crashes < MaxCrashes
    /\ crashes' = crashes + 1
    /\ pc' = [r \in Runs |-> IF pc[r] \in Active THEN "lost" ELSE pc[r]]
    /\ state' = [r \in Runs |-> NoValues]
    /\ saved' = [t \in Threads |-> NoValues]
    /\ UNCHANGED <<request, calls, final, reply, log, sent, audits>>

\* What the event loop goes on with once a request is in.
Step(r) ==
    \/ Prepare(r) \/ RouteStep(r) \/ Skill(r) \/ Clarify(r) \/ ReviewStep(r)
    \/ Respond(r) \/ Finish(r) \/ Audit(r) \/ AuditFails(r) \/ Deliver(r)
    \/ Leave(r) \/ Fail(r)

Terminated == (\A r \in Runs : pc[r] \in Ended) /\ UNCHANGED vars

Next == (\E r \in Runs : Begin(r) \/ Step(r)) \/ Crash \/ Terminated

\* Every await of a run has a timeout (llm_timeout_seconds, the statement
\* timeout, the drivers'), and the event loop serves every ready coroutine.
Fairness == \A r \in Runs : WF_vars(Step(r))

Spec == Init /\ [][Next]_vars
FairSpec == Spec /\ Fairness

-----------------------------------------------------------------------------
(***************************************************************************)
(* Properties.                                                             *)
(***************************************************************************)
Events == [type : EventTypes, out : Outcome]
AuditRows == [by : Runs, run : Runs \cup {NoRun}, status : Statuses, retry : 0..1]

TypeOK ==
    /\ request \in [Runs -> [thread : Threads, mode : Modes]]
    /\ pc \in [Runs -> {"idle"} \cup Active \cup Ended]
    /\ state \in [Runs -> Values]
    /\ calls \in [Runs -> Seq(Outcome)]
    /\ final \in [Runs -> Values]
    /\ reply \in [Runs -> Values]
    /\ saved \in [Threads -> Values]
    /\ log \in [Runs -> Seq(Events)]
    /\ sent \in [Runs -> Seq(Events)]
    /\ audits \in SUBSET AuditRows
    /\ crashes \in 0..MaxCrashes

\* v is a response to run r that the reviewer has let through: r's own, and
\* either the clarify question, or a skill's answer with the passing review of
\* exactly that answer, or the notice with the review that refused it.
Vetted(v, r) ==
    /\ v.run = r
    /\ v.out.by = r
    /\ \/ v.out.text = "prompt" /\ v.out.status = "clarify"
       \/ /\ v.out.text = "skill"
          /\ v.review = Review(v.route, v.out)
          /\ v.review.passed
       \/ /\ v.out.text = "rejected"
          /\ v.out.status = "clarify"
          /\ v.review \in ReviewResults
          /\ ~v.review.passed

\* The response of POST /query is the vetted answer to that very request,
\* whatever other requests run on the same thread.
QueryReplyVetted ==
    \A r \in Runs : pc[r] = "done" /\ ~Streaming(r) => Vetted(reply[r], r)

\* The same of the completed event of a stream.
CompletedVetted ==
    \A r \in Runs : pc[r] = "done" /\ Streaming(r) => Vetted(reply[r], r)

\* An answer that a completed event calls answered has passed its review.
CompletedReviewed ==
    \A r \in Runs : pc[r] = "done" /\ Streaming(r) =>
        (reply[r].out.status = "answered" => reply[r].review.passed)

\* A client that has its answer has an audit row that tells the same outcome,
\* across failing inserts and restarts.
DeliveredAudited ==
    \A r \in Runs : pc[r] = "done" =>
        \E a \in audits : /\ a.by = r /\ a.run = r
                          /\ a.status = reply[r].out.status
                          /\ a.retry = reply[r].retry

\* Skills are called again at most max_retries times, and only for an answer
\* whose defect the reviewer calls retryable.
RetryDiscipline ==
    \A r \in Runs :
        /\ Len(calls[r]) <= 1 + MaxRetries
        /\ Len(calls[r]) = 2 /\ state[r].run = r =>
              Review(state[r].route, Signed(calls[r][1], r)).retryable

\* The history a client can reload never lacks an event the client has seen:
\* what was sent is what was persisted, up to one event still on its way.
SentIsLogged ==
    \A r \in Runs :
        /\ Len(log[r]) - Len(sent[r]) \in {0, 1}
        /\ sent[r] = SubSeq(log[r], 1, Len(sent[r]))

AnswerEvents(r) == {i \in DOMAIN log[r] : log[r][i].type = "answer"}

\* A client that shows the last answer event of a stream shows the answer the
\* run ended with: an answer sent before its review never outlives a refusal.
LastAnswerStands ==
    \A r \in Runs : Streaming(r) /\ pc[r] \in {"finish", "audit", "deliver"} =>
        \E i \in AnswerEvents(r) :
            /\ \A j \in AnswerEvents(r) : j <= i
            /\ log[r][i].out = state[r].out

\* The summary given to the Router, and the one a turn leaves for the next,
\* quotes the latest turns of the history beside it.
SummaryCurrent ==
    \A r \in Runs : pc[r] \in {"route", "branch", "review", "finish"} =>
        state[r].summary = LastOf(state[r].history, SummaryLimit)

\* Every request that was taken up ends.
RunsEnd == \A r \in Runs : pc[r] # "idle" ~> pc[r] \in Ended

(***************************************************************************)
(* With one request at a time on a thread, the agent implements            *)
(* Conversation: the turns are those of the latest checkpoint.             *)
(***************************************************************************)
Phase(r) ==
    CASE pc[r] = "idle" -> "waiting"
      [] pc[r] \in Nodes -> "running"
      [] pc[r] \in {"finish", "audit", "deliver"} -> "recorded"
      [] pc[r] = "done" -> "replied"
      [] OTHER -> "lost"

TurnOf(v) == [run |-> v.run, status |-> v.out.status]

NoTurn == [run |-> NoRun, status |-> "clarify"]

Promise == INSTANCE Conversation WITH
    Outcomes <- Statuses,
    NoTurn <- NoTurn,
    thread <- [r \in Runs |-> Thread(r)],
    phase <- [r \in Runs |-> Phase(r)],
    turn <- [r \in Runs |-> CASE Phase(r) = "recorded" -> TurnOf(state[r])
                              [] Phase(r) = "replied" -> TurnOf(reply[r])
                              [] OTHER -> NoTurn],
    turns <- [t \in Threads |-> saved[t].history],
    reply <- [r \in Runs |-> IF pc[r] = "done" THEN TurnOf(reply[r]) ELSE NoTurn]

\* Asked one question at a time per thread, the agent keeps the promises of
\* Conversation: own replies, ordered bounded history, and every question ends.
ImplementsConversation == Promise!Spec
=============================================================================
