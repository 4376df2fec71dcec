------------------------ MODULE AgentWorkflowProofs -------------------------
(***************************************************************************)
(* Theorems about AgentWorkflow, for any requests, threads, outcomes,      *)
(* retry limit, history limits, overlap and number of restarts.            *)
(***************************************************************************)
EXTENDS AgentWorkflow, SequenceTheorems, TLAPS

USE DEF Streaming, Thread

-----------------------------------------------------------------------------
(* What the helpers of the model return.                                   *)

\* Keeping the last n elements of a sequence yields a sequence over its set.
LEMMA LastOfType ==
    ASSUME NEW S, NEW s \in Seq(S), NEW n \in Nat \ {0}
    PROVE  LastOf(s, n) \in Seq(S)
<1> DEFINE first == IF Len(s) > n THEN Len(s) - n + 1 ELSE 1
<1>1. Len(s) \in Nat /\ first \in Int /\ first >= 1
  BY LenProperties
<1>2. \A i \in first..Len(s) : s[i] \in S
  BY <1>1, ElementOfSeq
<1>3. SubSeq(s, first, Len(s)) \in Seq(S)
  <2> HIDE DEF first
  <2> QED BY <1>1, <1>2, SubSeqProperties
<1> QED BY <1>3 DEF LastOf

\* Every review yields a review result.
LEMMA ReviewType ==
    ASSUME NEW route, NEW a
    PROVE  Review(route, a) \in ReviewResults
BY DEF Review, ReviewCode, MixedCode, ReviewResults, Codes

\* A skill's outcome stays an outcome when a run signs it.
LEMMA SignedType ==
    ASSUME NEW o \in SkillOutcome, NEW r \in Runs
    PROVE  /\ Signed(o, r) \in Outcome
           /\ Signed(o, r).by = r
           /\ Signed(o, r).text = "skill"
           /\ o \in Outcome
BY DEF Signed, Outcome, SkillOutcome

\* The values a thread and a run start from have their types.
LEMMA NoValuesType == NoOutcome \in Outcome /\ NoValues \in Values
<1>1. NoReview \in ReviewResults
  BY DEF ReviewResults
<1>2. <<>> \in Seq(Kinds) /\ <<>> \in Seq(Turn)
  BY EmptySeq
<1> QED BY <1>1, <1>2 DEF NoOutcome, NoValues, Outcome, Values, Texts,
        Statuses, Routes

\* The payloads and event lists of the nodes have their types.
LEMMA EventsType ==
    ASSUME NEW out \in Outcome, NEW type \in EventTypes
    PROVE  Event(type, out) \in Events /\ Notice(type) \in Events
BY NoValuesType DEF Event, Notice, Events

\* So do the events of a skill node, whatever outcome they carry.
LEMMA OutcomeEventsType ==
    ASSUME NEW out \in Outcome
    PROVE  OutcomeEvents(out) \in Seq(Events)
<1>1. Notice("evidence") \in Events /\ Event("answer", out) \in Events
  BY EventsType DEF EventTypes
<1>2. <<>> \in Seq(Events) /\ <<Notice("evidence")>> \in Seq(Events)
      /\ <<Event("answer", out)>> \in Seq(Events)
  BY <1>1
<1> QED BY <1>2, ConcatProperties DEF OutcomeEvents

\* So do the events of the review node, with or without an answer.
LEMMA ReviewEventsType ==
    ASSUME NEW v \in Values, NEW answer \in BOOLEAN
    PROVE  ReviewEvents(v, answer) \in Seq(Events)
<1>0. v.out \in Outcome
  BY DEF Values
<1>1. /\ Notice("retry_started") \in Events
      /\ Notice("review_completed") \in Events
      /\ Event("answer", v.out) \in Events
  BY <1>0, EventsType DEF EventTypes
<1> DEFINE a == IF v.retry = 1 THEN <<Notice("retry_started")>> ELSE <<>>
           b == <<Notice("review_completed")>>
           c == IF answer THEN <<Event("answer", v.out)>> ELSE <<>>
<1>2. a \in Seq(Events) /\ b \in Seq(Events) /\ c \in Seq(Events)
  BY <1>1
<1>3. (a \o b) \o c \in Seq(Events)
  <2> HIDE DEF a, b, c
  <2>1. a \o b \in Seq(Events)
    BY <1>2, ConcatProperties
  <2> QED BY <1>2, <2>1, ConcatProperties
<1>4. a \o b \o c = ReviewEvents(v, answer)
  BY DEF ReviewEvents
<1> QED BY <1>3, <1>4

\* Appending the beginning of an event list to a run's log keeps it a log.
LEMMA ExtendType ==
    ASSUME NEW l \in [Runs -> Seq(Events)], NEW r \in Runs,
           NEW evs \in Seq(Events), NEW n \in 0..Len(evs)
    PROVE  /\ [l EXCEPT ![r] = @ \o SubSeq(evs, 1, n)] \in [Runs -> Seq(Events)]
           /\ [l EXCEPT ![r] = @ \o evs] \in [Runs -> Seq(Events)]
<1>1. Len(evs) \in Nat /\ \A i \in 1..n : evs[i] \in Events
  BY LenProperties, ElementOfSeq
<1>2. SubSeq(evs, 1, n) \in Seq(Events)
  BY <1>1, SubSeqProperties
<1>3. l[r] \o SubSeq(evs, 1, n) \in Seq(Events) /\ l[r] \o evs \in Seq(Events)
  BY <1>2, ConcatProperties
<1> QED BY <1>3

\* Publishing keeps the log and the events sent typed, streamed or not.
LEMMA PublishType ==
    ASSUME TypeOK, NEW r \in Runs, NEW evs \in Seq(Events), Publish(r, evs)
    PROVE  log' \in [Runs -> Seq(Events)] /\ sent' \in [Runs -> Seq(Events)]
<1>1. Len(evs) \in 0..Len(evs)
  BY LenProperties
<1>2. [log EXCEPT ![r] = @ \o evs] \in [Runs -> Seq(Events)]
  BY <1>1, ExtendType DEF TypeOK
<1>3. [sent EXCEPT ![r] = @ \o evs] \in [Runs -> Seq(Events)]
  BY <1>1, ExtendType DEF TypeOK
<1> QED BY <1>2, <1>3 DEF Publish, TypeOK

\* A run cut short half way through its events leaves typed logs.
LEMMA CutShortType ==
    ASSUME TypeOK, NEW r \in Runs, NEW evs \in Seq(Events), CutShort(r, evs)
    PROVE  /\ log' \in [Runs -> Seq(Events)]
           /\ sent' \in [Runs -> Seq(Events)]
           /\ pc' = [pc EXCEPT ![r] = "gone"]
<1>1. PICK n \in 0..Len(evs) : \E got \in {n - 1, n} \cap Nat :
          /\ log' = [log EXCEPT ![r] = @ \o SubSeq(evs, 1, n)]
          /\ sent' = [sent EXCEPT ![r] = @ \o SubSeq(evs, 1, got)]
  BY DEF CutShort
<1>2. PICK m \in {n - 1, n} \cap Nat :
          sent' = [sent EXCEPT ![r] = @ \o SubSeq(evs, 1, m)]
  BY <1>1
<1>3. m \in 0..Len(evs)
  BY LenProperties
<1>4. [log EXCEPT ![r] = @ \o SubSeq(evs, 1, n)] \in [Runs -> Seq(Events)]
  BY ExtendType DEF TypeOK
<1>5. [sent EXCEPT ![r] = @ \o SubSeq(evs, 1, m)] \in [Runs -> Seq(Events)]
  BY <1>3, ExtendType DEF TypeOK
<1> QED BY <1>1, <1>2, <1>4, <1>5 DEF CutShort

\* The end of a node, cut short or not, keeps the typed parts of the state.
LEMMA AdvanceType ==
    ASSUME TypeOK, NEW r \in Runs, NEW next \in Active, NEW v \in Values,
           NEW evs \in Seq(Events), Advance(r, next, v, evs)
    PROVE  /\ pc' \in [Runs -> {"idle"} \cup Active \cup Ended]
           /\ state' \in [Runs -> Values]
           /\ saved' \in [Threads -> Values]
           /\ log' \in [Runs -> Seq(Events)]
           /\ sent' \in [Runs -> Seq(Events)]
<1>1. CASE CutShort(r, evs) /\ UNCHANGED <<state, saved>>
  BY <1>1, CutShortType DEF TypeOK, Ended
<1>2. CASE /\ Publish(r, evs)
           /\ pc' = [pc EXCEPT ![r] = next]
           /\ state' = [state EXCEPT ![r] = v]
           /\ saved' = [saved EXCEPT ![Thread(r)] = v]
  BY <1>2, PublishType DEF TypeOK
<1> QED BY <1>1, <1>2 DEF Advance

\* The patches of the nodes keep the channel values well-typed, and the run
\* id they carry.
LEMMA ResetType ==
    ASSUME NEW v \in Values
    PROVE  Reset(v) \in Values /\ Reset(v).run = v.run
<1>1. NoReview \in ReviewResults
  BY DEF ReviewResults
<1>2. LastOf(v.history, SummaryLimit) \in Seq(Turn)
  BY LastOfType, BoundsAssumption DEF Values
<1>3. "clarify" \in Routes /\ 0 \in 0..1 /\ NoOutcome \in Outcome
  BY NoValuesType DEF Routes
<1> HIDE DEF Routes
<1>4. CASE v.summary = <<>>
  BY <1>1, <1>2, <1>3, <1>4 DEF Reset, Values
<1>5. CASE v.summary # <<>>
  BY <1>1, <1>3, <1>5 DEF Reset, Values
<1> QED BY <1>4, <1>5

\* A refusal keeps the run id and leaves retry_count within 0..1.
LEMMA RejectedType ==
    ASSUME NEW v \in Values, NEW result \in ReviewResults, NEW r \in Runs
    PROVE  Rejected(v, result, r) \in Values /\ Rejected(v, result, r).run = v.run
<1>1. [v.out EXCEPT !.by = r, !.text = "rejected", !.status = "clarify",
                    !.cited = {}, !.bound = TRUE] \in Outcome
  BY DEF Values, Outcome, Texts, Statuses
<1>2. (IF v.retry = 1 \/ result.retryable THEN 1 ELSE 0) \in 0..1
  OBVIOUS
<1> QED BY <1>1, <1>2 DEF Rejected, Values

\* A pass keeps the run id and takes the retry count it is given.
LEMMA ReviewedType ==
    ASSUME NEW v \in Values, NEW result \in ReviewResults, NEW retry \in 0..1
    PROVE  Reviewed(v, result, retry) \in Values
           /\ Reviewed(v, result, retry).run = v.run
BY DEF Reviewed, Values

\* Recording appends a turn that names the run, and keeps the run id.
LEMMA RecordedType ==
    ASSUME NEW v \in Values, v.run \in Runs
    PROVE  Recorded(v) \in Values /\ Recorded(v).run = v.run
           /\ Recorded(v).out = v.out /\ Recorded(v).review = v.review
           /\ Recorded(v).route = v.route /\ Recorded(v).retry = v.retry
<1> DEFINE turn == [run |-> v.run, status |-> v.out.status]
           turns == LastOf(Append(v.history, turn), HistoryLimit)
<1>1. turn \in Turn
  BY DEF Turn, Values, Outcome
<1>2. Append(v.history, turn) \in Seq(Turn)
  <2> HIDE DEF turn
  <2> QED BY <1>1, AppendProperties DEF Values
<1>3. turns \in Seq(Turn)
  <2> HIDE DEF turn
  <2> QED BY <1>2, LastOfType, BoundsAssumption
<1>4. LastOf(turns, SummaryLimit) \in Seq(Turn)
  <2> HIDE DEF turns
  <2> QED BY <1>3, LastOfType, BoundsAssumption
<1>5. Recorded(v) = [v EXCEPT !.history = turns,
                              !.summary = LastOf(turns, SummaryLimit)]
  BY DEF Recorded
<1> HIDE DEF turns
<1> QED BY <1>3, <1>4, <1>5 DEF Values

-----------------------------------------------------------------------------
(***************************************************************************)
(* Type correctness.  The turn that respond appends names a request only   *)
(* because a running graph always carries its own run id; a retry calls a  *)
(* skill only because the clarify branch bypasses the review.              *)
(***************************************************************************)
OwnRunId == \A r \in Runs :
    /\ pc[r] \in Active => state[r].run = r
    /\ pc[r] = "review" => state[r].route # "clarify"

TypeInv == TypeOK /\ OwnRunId

\* A node that hands on typed values of its own run keeps the invariant.
LEMMA AdvanceTypeInv ==
    ASSUME TypeInv, NEW r \in Runs, NEW next \in Active, NEW v \in Values,
           v.run = r, next = "review" => v.route # "clarify",
           NEW evs \in Seq(Events), Advance(r, next, v, evs),
           calls' \in [Runs -> Seq(Outcome)],
           UNCHANGED <<request, final, reply, audits, crashes>>
    PROVE  TypeInv'
<1>1. TypeOK'
  BY AdvanceType DEF TypeInv, TypeOK
<1>2. OwnRunId'
  <2>1. CASE CutShort(r, evs) /\ UNCHANGED <<state, saved>>
    BY <2>1, CutShortType DEF TypeInv, TypeOK, OwnRunId, Active, Nodes
  <2>2. CASE /\ pc' = [pc EXCEPT ![r] = next]
             /\ state' = [state EXCEPT ![r] = v]
    BY <2>2 DEF TypeInv, TypeOK, OwnRunId
  <2> QED BY <2>1, <2>2 DEF Advance
<1> QED BY <1>1, <1>2 DEF TypeInv

\* The initial states satisfy the invariant.
LEMMA InitTypeInv == Init => TypeInv
<1> SUFFICES ASSUME Init PROVE TypeInv
  OBVIOUS
<1>1. TypeOK
  BY NoValuesType, BoundsAssumption, EmptySeq DEF Init, TypeOK
<1>2. OwnRunId
  BY DEF Init, OwnRunId, Active, Nodes
<1> QED BY <1>1, <1>2 DEF TypeInv

\* A run that performs a node works on values of its own.
LEMMA OwnValues ==
    ASSUME TypeInv, NEW r \in Runs, pc[r] \in Active
    PROVE  state[r] \in Values /\ state[r].run = r
BY DEF TypeInv, TypeOK, OwnRunId

\* Writing the route or the outcome keeps the channel values well-typed.
LEMMA PatchType ==
    ASSUME NEW v \in Values, NEW route \in Routes, NEW out \in Outcome
    PROVE  /\ [v EXCEPT !.route = route] \in Values
           /\ [v EXCEPT !.route = route].run = v.run
           /\ [v EXCEPT !.out = out] \in Values
           /\ [v EXCEPT !.out = out].run = v.run
           /\ [v EXCEPT !.out = out].route = v.route
BY DEF Values

\* There is a route even where the Router never chooses one.
LEMMA RoutesNotEmpty == "clarify" \in Routes
BY DEF Routes

\* What each node leaves behind, in terms of Advance.
LEMMA BeginTypeInv ==
    ASSUME TypeInv, NEW r \in Runs, Begin(r)
    PROVE  TypeInv'
<1> DEFINE v == [saved[Thread(r)] EXCEPT !.run = r]
<1>1. v \in Values /\ v.run = r
  <2>1. saved[Thread(r)] \in Values
    BY DEF TypeInv, TypeOK
  <2> QED BY <2>1 DEF Values
<1>2. <<Notice("run_started")>> \in Seq(Events)
  BY EventsType, NoValuesType DEF EventTypes
<1>3. "prepare" \in Active
  BY DEF Active, Nodes
<1>4. /\ Advance(r, "prepare", v, <<Notice("run_started")>>)
      /\ UNCHANGED <<request, calls, final, reply, audits, crashes>>
  BY DEF Begin
<1> HIDE DEF v
<1> QED BY <1>1, <1>2, <1>3, <1>4, AdvanceTypeInv DEF TypeInv, TypeOK

\* The prepare node keeps the type invariant.
LEMMA PrepareTypeInv ==
    ASSUME TypeInv, NEW r \in Runs, Prepare(r)
    PROVE  TypeInv'
<1>1. Reset(state[r]) \in Values /\ Reset(state[r]).run = r
  BY ResetType DEF TypeInv, TypeOK, OwnRunId, Prepare, Active, Nodes
<1>2. <<>> \in Seq(Events) /\ "route" \in Active
  BY EmptySeq DEF Active, Nodes
<1> QED BY <1>1, <1>2, AdvanceTypeInv DEF Prepare, TypeInv, TypeOK

\* The route node keeps the type invariant.
LEMMA RouteTypeInv ==
    ASSUME TypeInv, NEW r \in Runs, RouteStep(r)
    PROVE  TypeInv'
<1>1. PICK route \in RoutesTaken :
          Advance(r, "branch", [state[r] EXCEPT !.route = route],
                  <<Notice("route")>>)
  BY DEF RouteStep
<1> DEFINE v == [state[r] EXCEPT !.route = route]
<1>2. v \in Values /\ v.run = r
  <2>1. pc[r] \in Active /\ route \in Routes
    BY InputAssumption DEF RouteStep, Active, Nodes
  <2> QED BY <2>1, OwnValues, PatchType, NoValuesType
<1>3. <<Notice("route")>> \in Seq(Events) /\ "branch" \in Active
  BY EventsType, NoValuesType DEF EventTypes, Active, Nodes
<1>4. Advance(r, "branch", v, <<Notice("route")>>)
  BY <1>1
<1> HIDE DEF v
<1> QED BY <1>2, <1>3, <1>4, AdvanceTypeInv DEF RouteStep, TypeInv, TypeOK

\* What a skill may return on the route of a run is a skill outcome.
LEMMA SkillOutcomeType ==
    ASSUME NEW v \in Values, v.route # "clarify",
           NEW o \in SkillOutcomes[v.route]
    PROVE  o \in SkillOutcome /\ v.route \in SkillRoutes
BY InputAssumption DEF Values, Routes

\* The skill nodes keep the type invariant.
LEMMA SkillTypeInv ==
    ASSUME TypeInv, NEW r \in Runs, Skill(r)
    PROVE  TypeInv'
<1>1. PICK o \in SkillOutcomes[state[r].route] :
          /\ calls' = [calls EXCEPT ![r] = Append(@, o)]
          /\ Advance(r, "review", [state[r] EXCEPT !.out = Signed(o, r)],
                     OutcomeEvents(Signed(o, r)))
  BY DEF Skill
<1>2. o \in SkillOutcome
  BY SkillOutcomeType DEF Skill, TypeInv, TypeOK
<1> DEFINE v == [state[r] EXCEPT !.out = Signed(o, r)]
<1>3. v \in Values /\ v.run = r /\ v.route # "clarify"
  <2>1. pc[r] \in Active /\ state[r].route # "clarify"
    BY DEF Skill, Active, Nodes
  <2>2. Signed(o, r) \in Outcome /\ state[r] \in Values /\ state[r].run = r
    BY <1>2, <2>1, SignedType, OwnValues
  <2> QED BY <2>1, <2>2, PatchType, RoutesNotEmpty
<1>4. OutcomeEvents(Signed(o, r)) \in Seq(Events)
  BY <1>2, SignedType, OutcomeEventsType
<1>5. calls' \in [Runs -> Seq(Outcome)]
  BY <1>1, <1>2, SignedType, AppendProperties DEF TypeInv, TypeOK
<1>6. Advance(r, "review", v, OutcomeEvents(Signed(o, r)))
  BY <1>1
<1>7. "review" \in Active
  BY DEF Active, Nodes
<1> HIDE DEF v
<1> QED BY <1>3, <1>4, <1>5, <1>6, <1>7, AdvanceTypeInv DEF Skill

\* The clarify question is an outcome.
LEMMA PromptType == \A r \in Runs : Prompt(r) \in Outcome
BY NoValuesType DEF Prompt, Outcome, Texts

\* The clarify node keeps the type invariant.
LEMMA ClarifyTypeInv ==
    ASSUME TypeInv, NEW r \in Runs, Clarify(r)
    PROVE  TypeInv'
<1> DEFINE v == [state[r] EXCEPT !.out = Prompt(r)]
<1>1. v \in Values /\ v.run = r
  <2>1. pc[r] \in Active
    BY DEF Clarify, Active, Nodes
  <2> QED BY <2>1, PromptType, OwnValues, PatchType, RoutesNotEmpty
<1>2. OutcomeEvents(Prompt(r)) \in Seq(Events) /\ "respond" \in Active
  BY PromptType, OutcomeEventsType DEF Active, Nodes
<1>3. Advance(r, "respond", v, OutcomeEvents(Prompt(r)))
  BY DEF Clarify
<1> HIDE DEF v
<1> QED BY <1>1, <1>2, <1>3, AdvanceTypeInv DEF Clarify, TypeInv, TypeOK

\* A review that passes keeps the type invariant.
LEMMA ReviewPassesTypeInv ==
    ASSUME TypeInv, NEW r \in Runs, ReviewPasses(r)
    PROVE  TypeInv'
<1> DEFINE new == Reviewed(state[r], FirstReview(r), state[r].retry)
<1>1. state[r] \in Values /\ state[r].run = r
  BY OwnValues DEF ReviewPasses, Active, Nodes
<1>2. FirstReview(r) \in ReviewResults /\ state[r].retry \in 0..1
  BY <1>1, ReviewType DEF FirstReview, Values
<1>3. new \in Values /\ new.run = r
  BY <1>1, <1>2, ReviewedType
<1>4. ReviewEvents(new, FALSE) \in Seq(Events) /\ "respond" \in Active
  BY <1>3, ReviewEventsType DEF Active, Nodes
<1>5. Advance(r, "respond", new, ReviewEvents(new, FALSE))
  BY DEF ReviewPasses
<1> HIDE DEF new
<1> QED BY <1>3, <1>4, <1>5, AdvanceTypeInv DEF ReviewPasses, TypeInv, TypeOK

\* A review that refuses keeps the type invariant.
LEMMA ReviewRefusesTypeInv ==
    ASSUME TypeInv, NEW r \in Runs, ReviewRefuses(r)
    PROVE  TypeInv'
<1> DEFINE new == Rejected(state[r], FirstReview(r), r)
<1>1. state[r] \in Values /\ state[r].run = r
  BY OwnValues DEF ReviewRefuses, Active, Nodes
<1>2. FirstReview(r) \in ReviewResults
  BY ReviewType DEF FirstReview
<1>3. new \in Values /\ new.run = r
  BY <1>1, <1>2, RejectedType
<1>4. ReviewEvents(new, TRUE) \in Seq(Events) /\ "respond" \in Active
  BY <1>3, ReviewEventsType DEF Active, Nodes
<1>5. Advance(r, "respond", new, ReviewEvents(new, TRUE))
  BY DEF ReviewRefuses
<1> HIDE DEF new
<1> QED BY <1>3, <1>4, <1>5, AdvanceTypeInv DEF ReviewRefuses, TypeInv, TypeOK

\* The values after a retry are typed and still the run's own.
LEMMA RetriedType ==
    ASSUME NEW r \in Runs, state[r] \in Values, NEW o \in SkillOutcome
    PROVE  Retried(r, o) \in Values /\ Retried(r, o).run = state[r].run
<1> DEFINE second == Review(state[r].route, Signed(o, r))
           v == [state[r] EXCEPT !.out = Signed(o, r)]
<1>1. second \in ReviewResults
  BY ReviewType
<1>2. v \in Values /\ v.run = state[r].run
  <2>1. Signed(o, r) \in Outcome
    BY SignedType
  <2> QED BY <2>1, PatchType, RoutesNotEmpty
<1>3. Reviewed(v, second, 1) \in Values
      /\ Reviewed(v, second, 1).run = state[r].run
  <2> HIDE DEF v, second
  <2>1. 1 \in 0..1
    OBVIOUS
  <2> QED BY <1>1, <1>2, <2>1, ReviewedType
<1>4. Rejected(state[r], second, r) \in Values
      /\ Rejected(state[r], second, r).run = state[r].run
  BY <1>1, RejectedType
<1>5. Retried(r, o) = IF second.passed THEN Reviewed(v, second, 1)
                      ELSE Rejected(state[r], second, r)
  BY DEF Retried
<1> HIDE DEF v, second
<1> QED BY <1>3, <1>4, <1>5

\* A review that retries keeps the type invariant.
LEMMA ReviewRetriesTypeInv ==
    ASSUME TypeInv, NEW r \in Runs, ReviewRetries(r)
    PROVE  TypeInv'
<1>1. PICK o \in SkillOutcomes[state[r].route] :
          /\ calls' = [calls EXCEPT ![r] = Append(@, o)]
          /\ Advance(r, "respond", Retried(r, o),
                     ReviewEvents(Retried(r, o), TRUE))
  BY DEF ReviewRetries
<1>2. /\ state[r] \in Values
      /\ state[r].run = r
      /\ state[r].route # "clarify"
  BY OwnValues DEF ReviewRetries, Active, Nodes, TypeInv, OwnRunId
<1>3. o \in SkillOutcome
  BY <1>2, SkillOutcomeType
<1>4. Retried(r, o) \in Values /\ Retried(r, o).run = r
  BY <1>2, <1>3, RetriedType
<1>5. ReviewEvents(Retried(r, o), TRUE) \in Seq(Events) /\ "respond" \in Active
  BY <1>4, ReviewEventsType DEF Active, Nodes
<1>6. calls' \in [Runs -> Seq(Outcome)]
  BY <1>1, <1>3, SignedType, AppendProperties DEF TypeInv, TypeOK
<1> QED BY <1>1, <1>4, <1>5, <1>6, AdvanceTypeInv DEF ReviewRetries

\* The respond node keeps the type invariant.
LEMMA RespondTypeInv ==
    ASSUME TypeInv, NEW r \in Runs, Respond(r)
    PROVE  TypeInv'
<1>1. Recorded(state[r]) \in Values /\ Recorded(state[r]).run = r
  BY OwnValues, RecordedType DEF Respond, Active, Nodes
<1>2. <<>> \in Seq(Events) /\ "finish" \in Active
  BY EmptySeq DEF Active
<1> QED BY <1>1, <1>2, AdvanceTypeInv DEF Respond, TypeInv, TypeOK

\* The steps after the graph has ended.
LEMMA CompletedType ==
    ASSUME TypeInv, NEW r \in Runs
    PROVE  Completed(r) \in Events /\ final[r].out \in Outcome
BY EventsType DEF TypeInv, TypeOK, Completed, EventTypes, Values

\* The audit row of a run is an audit row.
LEMMA AuditRowType ==
    ASSUME TypeInv, NEW r \in Runs
    PROVE  AuditRow(r) \in AuditRows
<1>1. /\ final[r].run \in Runs \cup {NoRun}
      /\ final[r].out.status \in Statuses
      /\ final[r].retry \in 0..1
  BY DEF TypeInv, TypeOK, Values, Outcome
<1> QED BY <1>1 DEF AuditRow, AuditRows

\* Persisting the completed event keeps the log typed.
LEMMA LogCompletedType ==
    ASSUME TypeInv, NEW r \in Runs
    PROVE  /\ [log EXCEPT ![r] = Append(@, Completed(r))] \in [Runs -> Seq(Events)]
           /\ [sent EXCEPT ![r] = Append(@, Completed(r))] \in [Runs -> Seq(Events)]
<1>1. Append(log[r], Completed(r)) \in Seq(Events)
      /\ Append(sent[r], Completed(r)) \in Seq(Events)
  BY CompletedType, AppendProperties DEF TypeInv, TypeOK
<1> QED BY <1>1 DEF TypeInv, TypeOK

\* The steps between the graph's end and the answer keep the invariant.
LEMMA EndTypeInv ==
    ASSUME TypeInv, NEW r \in Runs,
           Finish(r) \/ Audit(r) \/ AuditFails(r) \/ Deliver(r) \/ Leave(r)
    PROVE  TypeInv'
<1>1. CASE Finish(r)
  <2>1. Response(r) \in Values
    BY DEF TypeInv, TypeOK, Response
  <2> QED BY <1>1, <2>1 DEF Finish, TypeInv, TypeOK, OwnRunId, Active, Nodes
<1>2. CASE Audit(r)
  <2>1. audits' \in SUBSET AuditRows
    BY <1>2, AuditRowType DEF Audit, TypeInv, TypeOK
  <2>2. log' \in [Runs -> Seq(Events)]
    BY <1>2, LogCompletedType DEF Audit, TypeInv, TypeOK
  <2> QED BY <1>2, <2>1, <2>2 DEF Audit, TypeInv, TypeOK, OwnRunId, Active, Nodes
<1>3. CASE AuditFails(r)
  <2>1. log' \in [Runs -> Seq(Events)]
    BY <1>3, LogCompletedType DEF AuditFails, TypeInv, TypeOK
  <2> QED BY <1>3, <2>1
             DEF AuditFails, TypeInv, TypeOK, OwnRunId, Active, Nodes, Ended
<1>4. CASE Deliver(r)
  <2>1. sent' \in [Runs -> Seq(Events)]
    BY <1>4, LogCompletedType DEF Deliver, TypeInv, TypeOK
  <2> QED BY <1>4, <2>1
             DEF Deliver, TypeInv, TypeOK, OwnRunId, Active, Nodes, Ended
<1>5. CASE Leave(r)
  BY <1>5 DEF Leave, TypeInv, TypeOK, OwnRunId, Active, Nodes, Ended
<1> QED BY <1>1, <1>2, <1>3, <1>4, <1>5

\* A failing node keeps the type invariant.
LEMMA FailTypeInv ==
    ASSUME TypeInv, NEW r \in Runs, Fail(r)
    PROVE  TypeInv'
<1>1. <<Notice("error")>> \in Seq(Events)
  BY EventsType, NoValuesType DEF EventTypes
<1>2. log' \in [Runs -> Seq(Events)] /\ sent' \in [Runs -> Seq(Events)]
  BY <1>1, PublishType, CutShortType DEF Fail, TypeInv
<1>3. pc' \in {[pc EXCEPT ![r] = "failed"], [pc EXCEPT ![r] = "gone"]}
  BY DEF Fail, CutShort
<1> QED BY <1>2, <1>3 DEF Fail, TypeInv, TypeOK, OwnRunId, Active, Nodes, Ended

\* A restart keeps the type invariant.
LEMMA CrashTypeInv == TypeInv /\ Crash => TypeInv'
BY NoValuesType, BoundsAssumption
   DEF Crash, TypeInv, TypeOK, OwnRunId, Active, Nodes, Ended

\* Every step keeps the type invariant.
LEMMA NextTypeInv == TypeInv /\ [Next]_vars => TypeInv'
<1> SUFFICES ASSUME TypeInv, [Next]_vars PROVE TypeInv'
  OBVIOUS
<1>1. CASE UNCHANGED vars
  BY <1>1 DEF vars, TypeInv, TypeOK, OwnRunId
<1>2. CASE Crash
  BY <1>2, CrashTypeInv
<1>3. ASSUME NEW r \in Runs, Begin(r) \/ Step(r) PROVE TypeInv'
  BY <1>3, BeginTypeInv, PrepareTypeInv, RouteTypeInv, SkillTypeInv,
     ClarifyTypeInv, ReviewPassesTypeInv, ReviewRefusesTypeInv,
     ReviewRetriesTypeInv, RespondTypeInv, EndTypeInv, FailTypeInv
     DEF Step, ReviewStep
<1> QED BY <1>1, <1>2, <1>3 DEF Next, Terminated

\* The type invariant holds in every reachable state.
LEMMA AlwaysTypeInv == Spec => []TypeInv
BY InitTypeInv, NextTypeInv, PTL DEF Spec

\* Every variable keeps its type: in particular retry_count stays within the
\* 0..1 the response model demands, and every turn names a request.
THEOREM TypeCorrect == Spec => []TypeOK
<1>1. TypeInv => TypeOK
  BY DEF TypeInv
<1> QED BY <1>1, AlwaysTypeInv, PTL

-----------------------------------------------------------------------------
(***************************************************************************)
(* Safety.  RunInv tells what each run knows at each step: the skill calls *)
(* made so far, that the values past the review are vetted, and that the   *)
(* audit row exists before the answer leaves.  It speaks of one run, and   *)
(* the other runs cannot disturb it: they share only `saved`, which it     *)
(* does not mention, and `audits`, which only grows.                       *)
(***************************************************************************)
CallsInv(r) ==
    /\ pc[r] \in {"idle", "prepare", "route", "branch"} => calls[r] = <<>>
    /\ pc[r] \in {"route", "branch", "review"} => state[r].retry = 0
    /\ pc[r] = "review" => \E o \in SkillOutcome :
          calls[r] = <<o>> /\ state[r].out = Signed(o, r)
    /\ Len(calls[r]) <= 1 + MaxRetries
    /\ Len(calls[r]) = 2 /\ state[r].run = r =>
          Review(state[r].route, Signed(calls[r][1], r)).retryable

VettedInv(r) ==
    /\ pc[r] \in {"respond", "finish", "audit", "deliver"} => Vetted(state[r], r)
    /\ pc[r] \in {"audit", "deliver"} /\ ~Streaming(r) => Vetted(final[r], r)
    /\ pc[r] = "done" /\ ~Streaming(r) => Vetted(reply[r], r)

AuditInv(r) ==
    /\ pc[r] = "deliver" => AuditRow(r) \in audits
    /\ pc[r] = "done" => \E a \in audits :
          /\ a.by = r /\ a.run = r
          /\ a.status = reply[r].out.status /\ a.retry = reply[r].retry

RunInv(r) == CallsInv(r) /\ VettedInv(r) /\ AuditInv(r)

SafeInv == TypeInv /\ \A r \in Runs : RunInv(r)

\* RunInv depends on nothing but the run's own state and a growing audit log.
LEMMA OthersKeep ==
    ASSUME NEW q \in Runs, RunInv(q), request' = request, pc'[q] = pc[q],
           state'[q] = state[q], calls'[q] = calls[q], final'[q] = final[q],
           reply'[q] = reply[q], audits \subseteq audits'
    PROVE  RunInv(q)'
<1>1. CallsInv(q)'
  BY DEF RunInv, CallsInv
<1>2. VettedInv(q)'
  BY DEF RunInv, VettedInv, Vetted
<1>3. AuditInv(q)'
  BY DEF RunInv, AuditInv, AuditRow
<1> QED BY <1>1, <1>2, <1>3 DEF RunInv

\* What the graph's part of a run may do: it ends, or it goes on with v.
LEMMA AdvanceCases ==
    ASSUME TypeInv, NEW r \in Runs, NEW next, NEW v, NEW evs,
           Advance(r, next, v, evs)
    PROVE  /\ \/ pc'[r] = next /\ state'[r] = v
              \/ pc'[r] = "gone" /\ state'[r] = state[r]
           /\ \A q \in Runs \ {r} : pc'[q] = pc[q] /\ state'[q] = state[q]
<1>1. CASE pc' = [pc EXCEPT ![r] = next] /\ state' = [state EXCEPT ![r] = v]
  BY <1>1 DEF TypeInv, TypeOK
<1>2. CASE pc' = [pc EXCEPT ![r] = "gone"] /\ UNCHANGED state
  BY <1>2 DEF TypeInv, TypeOK
<1> QED BY <1>1, <1>2 DEF Advance, CutShort

\* A step of one run leaves every other run as it was.
LEMMA StepIsLocal ==
    ASSUME TypeInv, NEW r \in Runs, Begin(r) \/ Step(r), NEW q \in Runs \ {r}
    PROVE  /\ request' = request /\ pc'[q] = pc[q] /\ state'[q] = state[q]
           /\ calls'[q] = calls[q] /\ final'[q] = final[q]
           /\ reply'[q] = reply[q] /\ audits \subseteq audits'
<1>1. CASE Begin(r)
  BY <1>1, AdvanceCases DEF Begin
<1>2. CASE Prepare(r)
  BY <1>2, AdvanceCases DEF Prepare
<1>3. CASE RouteStep(r)
  BY <1>3, AdvanceCases DEF RouteStep
<1>4. CASE Skill(r)
  BY <1>4, AdvanceCases DEF Skill, TypeInv, TypeOK
<1>5. CASE Clarify(r)
  BY <1>5, AdvanceCases DEF Clarify
<1>6. CASE ReviewPasses(r)
  BY <1>6, AdvanceCases DEF ReviewPasses
<1>7. CASE ReviewRefuses(r)
  BY <1>7, AdvanceCases DEF ReviewRefuses
<1>8. CASE ReviewRetries(r)
  BY <1>8, AdvanceCases DEF ReviewRetries, TypeInv, TypeOK
<1>9. CASE Respond(r)
  BY <1>9, AdvanceCases DEF Respond
<1>10. CASE Finish(r) \/ Audit(r) \/ AuditFails(r) \/ Deliver(r) \/ Leave(r)
  BY <1>10 DEF Finish, Audit, AuditFails, Deliver, Leave, TypeInv, TypeOK
<1>11. CASE Fail(r)
  BY <1>11 DEF Fail, CutShort, TypeInv, TypeOK
<1> QED BY <1>1, <1>2, <1>3, <1>4, <1>5, <1>6, <1>7, <1>8, <1>9, <1>10,
           <1>11 DEF Step, ReviewStep

\* What each way out of the review yields is vetted.
LEMMA PromptVetted ==
    ASSUME NEW r \in Runs, NEW v \in Values, v.run = r
    PROVE  Vetted([v EXCEPT !.out = Prompt(r)], r)
BY DEF Vetted, Prompt, NoOutcome, Values

\* An answer of the run's own that passes its review is vetted.
LEMMA PassVetted ==
    ASSUME NEW r \in Runs, NEW v \in Values, v.run = r, NEW retry,
           v.out.by = r, v.out.text = "skill", Review(v.route, v.out).passed
    PROVE  Vetted(Reviewed(v, Review(v.route, v.out), retry), r)
<1> DEFINE new == Reviewed(v, Review(v.route, v.out), retry)
<1>1. /\ new.run = v.run /\ new.out = v.out /\ new.route = v.route
      /\ new.review = Review(v.route, v.out)
  BY DEF Reviewed, Values
<1> HIDE DEF new
<1>2. Review(new.route, new.out) = Review(v.route, v.out)
  BY <1>1
<1>3. new.run = r /\ new.out.by = r /\ new.out.text = "skill"
  BY <1>1
<1>4. new.review = Review(new.route, new.out) /\ new.review.passed
  BY <1>1, <1>2
<1>5. Vetted(new, r)
  BY <1>3, <1>4 DEF Vetted
<1> QED BY <1>5 DEF new

\* The notice with the review that refused the answer is vetted.
LEMMA RejectionVetted ==
    ASSUME NEW r \in Runs, NEW v \in Values, v.run = r,
           NEW result \in ReviewResults, ~result.passed
    PROVE  Vetted(Rejected(v, result, r), r)
BY DEF Vetted, Rejected, Values, Outcome

\* Recording the turn changes nothing Vetted looks at.
LEMMA RecordingKeepsVetted ==
    ASSUME NEW r \in Runs, NEW v \in Values, Vetted(v, r)
    PROVE  Vetted(Recorded(v), r)
<1>1. v.run \in Runs
  BY DEF Vetted
<1> QED BY <1>1, RecordedType DEF Vetted

\* A retry ends vetted, whichever way the second review goes.
LEMMA RetryVetted ==
    ASSUME NEW r \in Runs, state[r] \in Values, state[r].run = r,
           NEW o \in SkillOutcome
    PROVE  Vetted(Retried(r, o), r) /\ Retried(r, o).route = state[r].route
<1> DEFINE v == [state[r] EXCEPT !.out = Signed(o, r)]
           second == Review(state[r].route, Signed(o, r))
<1>1. /\ v \in Values /\ v.run = r /\ v.route = state[r].route
      /\ v.out = Signed(o, r)
  <2>1. Signed(o, r) \in Outcome
    BY SignedType
  <2>2. v \in Values /\ v.run = r /\ v.route = state[r].route
    BY <2>1, PatchType, RoutesNotEmpty
  <2>3. v.out = Signed(o, r)
    BY DEF Values
  <2> QED BY <2>2, <2>3
<1>2. v.out.by = r /\ v.out.text = "skill"
  BY <1>1, SignedType
<1>3. second \in ReviewResults /\ second = Review(v.route, v.out)
  BY <1>1, ReviewType
<1>4. CASE second.passed
  <2>1. Retried(r, o) = Reviewed(v, second, 1)
    BY <1>4 DEF Retried
  <2>2. Reviewed(v, second, 1).route = state[r].route
    BY <1>1 DEF Reviewed, Values
  <2> HIDE DEF v, second
  <2> QED BY <1>1, <1>2, <1>3, <1>4, <2>1, <2>2, PassVetted
<1>5. CASE ~second.passed
  <2>1. Retried(r, o) = Rejected(state[r], second, r)
    BY <1>5 DEF Retried
  <2>2. Rejected(state[r], second, r).route = state[r].route
    BY DEF Rejected, Values
  <2> HIDE DEF second
  <2> QED BY <1>3, <1>5, <2>1, <2>2, RejectionVetted
<1> QED BY <1>4, <1>5

\* A run that is cut short or fails keeps its invariant: nothing it claims
\* about later steps applies to it any more.
LEMMA EndedRun ==
    ASSUME NEW r \in Runs, pc'[r] \in {"gone", "failed", "lost"},
           Len(calls[r])' <= 1 + MaxRetries,
           (Len(calls[r]) = 2 /\ state[r].run = r =>
              Review(state[r].route, Signed(calls[r][1], r)).retryable)'
    PROVE  RunInv(r)'
BY DEF RunInv, CallsInv, VettedInv, AuditInv

\* A run that ends before its graph does satisfies its invariant.
LEMMA EndedEarly ==
    ASSUME NEW r \in Runs, pc'[r] \in {"gone", "failed", "lost"},
           Len(calls'[r]) = 1, 1 <= 1 + MaxRetries
    PROVE  RunInv(r)'
<1>1. (Len(calls[r]) = 2 /\ state[r].run = r =>
         Review(state[r].route, Signed(calls[r][1], r)).retryable)'
  OBVIOUS
<1>2. Len(calls[r])' <= 1 + MaxRetries
  OBVIOUS
<1> QED BY <1>1, <1>2, EndedRun

-----------------------------------------------------------------------------
(* RunInv(r) across the steps of r itself.                                 *)

\* The nodes before the review keep the invariant of their run.
LEMMA GraphRunInv ==
    ASSUME SafeInv, NEW r \in Runs,
           Begin(r) \/ Prepare(r) \/ RouteStep(r) \/ Clarify(r) \/ Respond(r)
    PROVE  RunInv(r)'
<1>1. RunInv(r) /\ calls' = calls /\ request' = request /\ TypeInv
  BY DEF SafeInv, Begin, Prepare, RouteStep, Clarify, Respond
<1>2. CASE pc'[r] = "gone" /\ state'[r] = state[r]
  BY <1>1, <1>2, EndedRun DEF RunInv, CallsInv
<1>3. CASE Begin(r) /\ pc'[r] = "prepare"
  <2>1. calls[r] = <<>>
    BY <1>1, <1>3 DEF Begin, RunInv, CallsInv
  <2> QED BY <1>1, <1>3, <2>1, BoundsAssumption
             DEF RunInv, CallsInv, VettedInv, AuditInv
<1>4. CASE Prepare(r) /\ pc'[r] = "route" /\ state'[r] = Reset(state[r])
  <2>1. calls[r] = <<>>
    BY <1>1, <1>4 DEF Prepare, RunInv, CallsInv
  <2>2. Reset(state[r]).retry = 0
    BY <1>1 DEF Reset, TypeInv, TypeOK, Values
  <2> QED BY <1>1, <1>4, <2>1, <2>2, BoundsAssumption
             DEF RunInv, CallsInv, VettedInv, AuditInv
<1>5. CASE /\ RouteStep(r)
           /\ pc'[r] = "branch"
           /\ \E route \in RoutesTaken :
                 state'[r] = [state[r] EXCEPT !.route = route]
  <2>1. calls[r] = <<>> /\ state[r].retry = 0
    BY <1>1, <1>5 DEF RouteStep, RunInv, CallsInv
  <2>2. state'[r].retry = 0
    BY <1>1, <1>5, <2>1 DEF TypeInv, TypeOK, Values
  <2> QED BY <1>1, <1>5, <2>1, <2>2, BoundsAssumption
             DEF RunInv, CallsInv, VettedInv, AuditInv
<1>6. CASE /\ Clarify(r)
           /\ pc'[r] = "respond"
           /\ state'[r] = [state[r] EXCEPT !.out = Prompt(r)]
  <2>1. calls[r] = <<>>
    BY <1>1, <1>6 DEF Clarify, RunInv, CallsInv
  <2>2. Vetted(state'[r], r)
    BY <1>1, <1>6, OwnValues, PromptVetted DEF Clarify, Active, Nodes
  <2>3. Vetted(state[r], r)'
    BY <2>2 DEF Vetted
  <2> QED BY <1>1, <1>6, <2>1, <2>3, BoundsAssumption
             DEF RunInv, CallsInv, VettedInv, AuditInv
<1>7. CASE /\ Respond(r)
           /\ pc'[r] = "finish"
           /\ state'[r] = Recorded(state[r])
  <2>1. state[r] \in Values /\ state[r].run = r /\ Vetted(state[r], r)
    BY <1>1, <1>7, OwnValues DEF Respond, Active, Nodes, RunInv, VettedInv
  <2>2. Vetted(state'[r], r) /\ state'[r].route = state[r].route
    BY <1>7, <2>1, RecordingKeepsVetted, RecordedType
  <2>3. Vetted(state[r], r)'
    BY <2>2 DEF Vetted
  <2>4. Review(state'[r].route, Signed(calls'[r][1], r))
        = Review(state[r].route, Signed(calls[r][1], r))
    BY <1>1, <2>2
  <2>5. CallsInv(r)'
    BY <1>1, <1>7, <2>1, <2>4 DEF RunInv, CallsInv
  <2> QED BY <1>1, <1>7, <2>3, <2>5 DEF RunInv, VettedInv, AuditInv
<1>8. CASE Begin(r)
  BY <1>1, <1>2, <1>3, <1>8, AdvanceCases DEF Begin
<1>9. CASE Prepare(r)
  <2>1. Advance(r, "route", Reset(state[r]), <<>>)
    BY <1>9 DEF Prepare
  <2> QED BY <1>1, <1>2, <1>4, <1>9, <2>1, AdvanceCases
<1>10. CASE RouteStep(r)
  <2>1. PICK route \in RoutesTaken :
            Advance(r, "branch", [state[r] EXCEPT !.route = route],
                    <<Notice("route")>>)
    BY <1>10 DEF RouteStep
  <2> QED BY <1>1, <1>2, <1>5, <1>10, <2>1, AdvanceCases
<1>11. CASE Clarify(r)
  <2>1. Advance(r, "respond", [state[r] EXCEPT !.out = Prompt(r)],
                OutcomeEvents(Prompt(r)))
    BY <1>11 DEF Clarify
  <2> QED BY <1>1, <1>2, <1>6, <1>11, <2>1, AdvanceCases
<1>12. CASE Respond(r)
  <2>1. Advance(r, "finish", Recorded(state[r]), <<>>)
    BY <1>12 DEF Respond
  <2> QED BY <1>1, <1>2, <1>7, <1>12, <2>1, AdvanceCases
<1> QED BY <1>8, <1>9, <1>10, <1>11, <1>12

\* The skill nodes do, with one call counted.
LEMMA SkillRunInv ==
    ASSUME SafeInv, NEW r \in Runs, Skill(r)
    PROVE  RunInv(r)'
<1>1. RunInv(r) /\ calls[r] = <<>> /\ state[r].retry = 0 /\ TypeInv
  BY DEF SafeInv, Skill, RunInv, CallsInv
<1>2. PICK o \in SkillOutcomes[state[r].route] :
          /\ calls' = [calls EXCEPT ![r] = Append(@, o)]
          /\ Advance(r, "review", [state[r] EXCEPT !.out = Signed(o, r)],
                     OutcomeEvents(Signed(o, r)))
  BY DEF Skill
<1>3. o \in SkillOutcome /\ state[r] \in Values
  BY <1>1, SkillOutcomeType DEF Skill, TypeInv, TypeOK
<1>4. calls'[r] = <<o>>
  BY <1>1, <1>2 DEF TypeInv, TypeOK
<1>5. Len(calls'[r]) = 1 /\ 1 <= 1 + MaxRetries
  BY <1>4, BoundsAssumption
<1>6. CASE pc'[r] = "gone" /\ state'[r] = state[r]
  BY <1>5, <1>6, EndedEarly
<1>7. CASE /\ pc'[r] = "review"
           /\ state'[r] = [state[r] EXCEPT !.out = Signed(o, r)]
  <2>1. state'[r].retry = 0 /\ state'[r].out = Signed(o, r)
    BY <1>1, <1>3, <1>7 DEF Values
  <2>2. CallsInv(r)'
    BY <1>3, <1>4, <1>5, <1>7, <2>1 DEF CallsInv
  <2> QED BY <1>7, <2>2 DEF RunInv, VettedInv, AuditInv
<1> QED BY <1>1, <1>2, <1>6, <1>7, AdvanceCases

\* The facts about a run at its review that all three outcomes start from.
LEMMA AtReview ==
    ASSUME SafeInv, NEW r \in Runs, pc[r] = "review"
    PROVE  /\ state[r] \in Values /\ state[r].run = r
           /\ state[r].retry = 0 /\ state[r].route # "clarify"
           /\ state[r].out.by = r /\ state[r].out.text = "skill"
           /\ FirstReview(r) \in ReviewResults
           /\ \E o \in SkillOutcome :
                 calls[r] = <<o>> /\ state[r].out = Signed(o, r)
<1>1. TypeInv /\ CallsInv(r)
  BY DEF SafeInv, RunInv
<1>2. /\ state[r] \in Values /\ state[r].run = r
      /\ state[r].route # "clarify" /\ FirstReview(r) \in ReviewResults
  BY <1>1, OwnValues, ReviewType
     DEF Active, Nodes, TypeInv, OwnRunId, FirstReview
<1>3. PICK o \in SkillOutcome : calls[r] = <<o>> /\ state[r].out = Signed(o, r)
  BY <1>1 DEF CallsInv
<1>4. state[r].retry = 0
  BY <1>1 DEF CallsInv
<1> QED BY <1>2, <1>3, <1>4, SignedType

\* The review node without a retry: the calls stay as they were.
LEMMA ReviewedRunInv ==
    ASSUME SafeInv, NEW r \in Runs, pc[r] = "review", calls' = calls,
           pc'[r] \in {"respond", "gone"},
           pc'[r] = "gone" => state'[r] = state[r],
           pc'[r] = "respond" => Vetted(state'[r], r)
    PROVE  RunInv(r)'
<1>1. PICK o \in SkillOutcome : calls[r] = <<o>>
  BY AtReview
<1>2. Len(calls'[r]) = 1 /\ 1 <= 1 + MaxRetries
  BY <1>1, BoundsAssumption
<1>3. CASE pc'[r] = "gone"
  BY <1>2, <1>3, EndedEarly
<1>4. CASE pc'[r] = "respond"
  <2>1. Vetted(state[r], r)'
    BY <1>4 DEF Vetted
  <2>2. CallsInv(r)'
    BY <1>2, <1>4 DEF CallsInv
  <2> QED BY <1>4, <2>1, <2>2 DEF RunInv, VettedInv, AuditInv
<1> QED BY <1>3, <1>4

\* A review that passes keeps the invariant of its run.
LEMMA ReviewPassesRunInv ==
    ASSUME SafeInv, NEW r \in Runs, ReviewPasses(r)
    PROVE  RunInv(r)'
<1> DEFINE new == Reviewed(state[r], FirstReview(r), state[r].retry)
<1>1. pc[r] = "review" /\ calls' = calls /\ TypeInv
  BY DEF ReviewPasses, SafeInv
<1>2. Vetted(new, r)
  BY <1>1, AtReview, PassVetted DEF ReviewPasses, FirstReview
<1>3. \/ pc'[r] = "respond" /\ state'[r] = new
      \/ pc'[r] = "gone" /\ state'[r] = state[r]
  BY <1>1, AdvanceCases DEF ReviewPasses
<1> HIDE DEF new
<1> QED BY <1>1, <1>2, <1>3, ReviewedRunInv

\* A review that refuses keeps the invariant of its run.
LEMMA ReviewRefusesRunInv ==
    ASSUME SafeInv, NEW r \in Runs, ReviewRefuses(r)
    PROVE  RunInv(r)'
<1> DEFINE new == Rejected(state[r], FirstReview(r), r)
<1>1. pc[r] = "review" /\ calls' = calls /\ TypeInv
  BY DEF ReviewRefuses, SafeInv
<1>2. Vetted(new, r)
  BY <1>1, AtReview, RejectionVetted DEF ReviewRefuses
<1>3. \/ pc'[r] = "respond" /\ state'[r] = new
      \/ pc'[r] = "gone" /\ state'[r] = state[r]
  BY <1>1, AdvanceCases DEF ReviewRefuses
<1> HIDE DEF new
<1> QED BY <1>1, <1>2, <1>3, ReviewedRunInv

\* The one step that makes a second call: the first answer was refused with a
\* retryable code, no retry was counted yet, and the setting allows one.
LEMMA ReviewRetriesRunInv ==
    ASSUME SafeInv, NEW r \in Runs, ReviewRetries(r)
    PROVE  RunInv(r)'
<1>1. PICK o \in SkillOutcomes[state[r].route] :
          /\ calls' = [calls EXCEPT ![r] = Append(@, o)]
          /\ Advance(r, "respond", Retried(r, o),
                     ReviewEvents(Retried(r, o), TRUE))
  BY DEF ReviewRetries
<1>2. TypeInv /\ pc[r] = "review"
  BY DEF SafeInv, ReviewRetries
<1>3. PICK o1 \in SkillOutcome :
          calls[r] = <<o1>> /\ state[r].out = Signed(o1, r)
  BY <1>2, AtReview
<1>4. /\ o \in SkillOutcome
      /\ state[r] \in Values /\ state[r].run = r /\ state[r].retry = 0
  BY <1>2, AtReview, SkillOutcomeType
<1>5. calls'[r] = Append(<<o1>>, o)
  BY <1>1, <1>2, <1>3 DEF TypeInv, TypeOK
<1>6. Len(calls'[r]) = 2 /\ calls'[r][1] = o1
  <2>1. <<o1>> \in Seq(SkillOutcome)
    OBVIOUS
  <2> QED BY <1>4, <1>5, <2>1, AppendProperties
<1>7. 2 <= 1 + MaxRetries
  BY <1>4, BoundsAssumption DEF ReviewRetries, MayRetry
<1>8. Review(state[r].route, Signed(o1, r)).retryable
  BY <1>3 DEF ReviewRetries, MayRetry, FirstReview
<1>9. Vetted(Retried(r, o), r) /\ Retried(r, o).route = state[r].route
  BY <1>4, RetryVetted
<1>10. state'[r].route = state[r].route
  BY <1>1, <1>2, <1>9, AdvanceCases
<1>11. Review(state'[r].route, Signed(calls'[r][1], r)).retryable
  BY <1>6, <1>8, <1>10
<1>12. CASE pc'[r] = "gone" /\ state'[r] = state[r]
  BY <1>6, <1>7, <1>11, <1>12, EndedRun
<1>13. CASE pc'[r] = "respond" /\ state'[r] = Retried(r, o)
  <2>1. Vetted(state'[r], r)
    BY <1>9, <1>13
  <2>2. Vetted(state[r], r)'
    BY <2>1 DEF Vetted
  <2>3. CallsInv(r)'
    BY <1>6, <1>7, <1>11, <1>13 DEF CallsInv
  <2> QED BY <1>13, <2>2, <2>3 DEF RunInv, VettedInv, AuditInv
<1> QED BY <1>1, <1>2, <1>12, <1>13, AdvanceCases

\* From the end of the graph to the client: the response of a query is the
\* run's own result, and the row that Audit writes is the one AuditInv needs.
LEMMA EndRunInv ==
    ASSUME SafeInv, NEW r \in Runs,
           Finish(r) \/ Audit(r) \/ AuditFails(r) \/ Deliver(r) \/ Leave(r)
    PROVE  RunInv(r)'
<1>1. /\ TypeInv /\ CallsInv(r) /\ VettedInv(r) /\ AuditInv(r)
      /\ request' = request /\ calls' = calls /\ state' = state
  BY DEF SafeInv, RunInv, Finish, Audit, AuditFails, Deliver, Leave
<1>2. pc[r] \in {"finish", "audit", "deliver"}
  BY DEF Finish, Audit, AuditFails, Deliver, Leave
<1>3. pc'[r] \in {"audit", "deliver", "done", "gone", "failed"}
  BY <1>1 DEF TypeInv, TypeOK, Finish, Audit, AuditFails, Deliver, Leave
<1>4. CallsInv(r)'
  BY <1>1, <1>3 DEF CallsInv
<1>5. Vetted(state[r], r)
  BY <1>1, <1>2 DEF VettedInv
<1>6. CASE Finish(r)
  <2>1. pc'[r] = "audit" /\ final'[r] = Response(r)
    BY <1>1, <1>6 DEF Finish, TypeInv, TypeOK
  <2>2. VettedInv(r)'
    BY <1>1, <1>5, <2>1 DEF VettedInv, Vetted, Response
  <2> QED BY <1>4, <2>1, <2>2 DEF RunInv, AuditInv
<1>7. CASE Audit(r)
  <2>1. /\ pc'[r] = "deliver" /\ final' = final
        /\ audits' = audits \cup {AuditRow(r)}
    BY <1>1, <1>7 DEF Audit, TypeInv, TypeOK
  <2>2. VettedInv(r)'
    BY <1>1, <1>7, <2>1 DEF Audit, VettedInv, Vetted
  <2>3. AuditInv(r)'
    BY <1>1, <2>1 DEF AuditInv, AuditRow
  <2> QED BY <1>4, <2>2, <2>3 DEF RunInv
<1>8. CASE Deliver(r)
  <2>1. /\ pc[r] = "deliver" /\ pc'[r] = "done" /\ reply'[r] = final[r]
        /\ audits' = audits
    BY <1>1, <1>8 DEF Deliver, TypeInv, TypeOK
  <2>2. VettedInv(r)'
    BY <1>1, <2>1 DEF VettedInv, Vetted
  <2>3. AuditRow(r) \in audits /\ (~Streaming(r) => final[r].run = r)
    BY <1>1, <2>1 DEF AuditInv, VettedInv, Vetted
  <2>4. /\ AuditRow(r).by = r /\ AuditRow(r).run = r
        /\ AuditRow(r).status = reply'[r].out.status
        /\ AuditRow(r).retry = reply'[r].retry
    BY <2>1, <2>3 DEF AuditRow
  <2>5. AuditInv(r)'
    BY <2>1, <2>3, <2>4 DEF AuditInv
  <2> QED BY <1>4, <2>2, <2>5 DEF RunInv
<1>9. CASE AuditFails(r) \/ Leave(r)
  <2>1. pc'[r] \in {"gone", "failed"}
    BY <1>1, <1>9 DEF AuditFails, Leave, TypeInv, TypeOK
  <2> QED BY <1>4, <2>1 DEF RunInv, VettedInv, AuditInv
<1> QED BY <1>6, <1>7, <1>8, <1>9

\* A failing node keeps the invariant of its run.
LEMMA FailRunInv ==
    ASSUME SafeInv, NEW r \in Runs, Fail(r)
    PROVE  RunInv(r)'
<1>1. TypeInv /\ CallsInv(r) /\ calls' = calls /\ state' = state
  BY DEF SafeInv, RunInv, Fail
<1>2. pc'[r] \in {"gone", "failed"}
  BY <1>1 DEF Fail, CutShort, TypeInv, TypeOK
<1>3. CallsInv(r)'
  BY <1>1, <1>2 DEF CallsInv
<1> QED BY <1>2, <1>3 DEF RunInv, VettedInv, AuditInv

\* A restart keeps the invariant of every run.
LEMMA CrashRunInv ==
    ASSUME SafeInv, Crash, NEW r \in Runs
    PROVE  RunInv(r)'
<1>1. TypeInv /\ RunInv(r)
  BY DEF SafeInv
<1>2. /\ pc'[r] = (IF pc[r] \in Active THEN "lost" ELSE pc[r])
      /\ pc'[r] \notin Active
      /\ state'[r] = NoValues
      /\ UNCHANGED <<request, calls, final, reply, audits>>
  BY DEF Crash, Active, Nodes
<1>3. state'[r].run # r
  BY <1>2, RunsAssumption DEF NoValues
<1>4. CallsInv(r)'
  BY <1>1, <1>2, <1>3 DEF RunInv, CallsInv, Active, Nodes
<1>5. VettedInv(r)'
  BY <1>1, <1>2 DEF RunInv, VettedInv, Vetted, Active, Nodes
<1>6. AuditInv(r)'
  BY <1>1, <1>2 DEF RunInv, AuditInv, Active, Nodes
<1> QED BY <1>4, <1>5, <1>6 DEF RunInv

\* The initial states satisfy the safety invariant.
LEMMA InitSafeInv == Init => SafeInv
<1> SUFFICES ASSUME Init PROVE SafeInv
  OBVIOUS
<1>1. ASSUME NEW r \in Runs PROVE RunInv(r)
  <2>1. pc[r] = "idle" /\ calls[r] = <<>>
    BY DEF Init
  <2> QED BY <2>1, BoundsAssumption DEF RunInv, CallsInv, VettedInv, AuditInv
<1> QED BY <1>1, InitTypeInv DEF SafeInv

\* Every step keeps the safety invariant.
LEMMA NextSafeInv == SafeInv /\ [Next]_vars => SafeInv'
<1> SUFFICES ASSUME SafeInv, [Next]_vars PROVE SafeInv'
  OBVIOUS
<1>1. TypeInv'
  BY NextTypeInv DEF SafeInv
<1>2. ASSUME UNCHANGED vars, NEW q \in Runs PROVE RunInv(q)'
  BY <1>2, OthersKeep DEF SafeInv, vars
<1>3. ASSUME NEW r \in Runs, Begin(r) \/ Step(r), NEW q \in Runs
      PROVE  RunInv(q)'
  <2>1. CASE q = r
    BY <1>3, <2>1, GraphRunInv, SkillRunInv, ReviewPassesRunInv,
       ReviewRefusesRunInv, ReviewRetriesRunInv, EndRunInv, FailRunInv
       DEF Step, ReviewStep
  <2>2. CASE q # r
    BY <1>3, <2>2, StepIsLocal, OthersKeep DEF SafeInv
  <2> QED BY <2>1, <2>2
<1>4. ASSUME NEW q \in Runs PROVE RunInv(q)'
  BY <1>2, <1>3, <1>4, CrashRunInv DEF Next, Terminated
<1> QED BY <1>1, <1>4 DEF SafeInv

\* The safety invariant holds in every reachable state.
LEMMA AlwaysSafeInv == Spec => []SafeInv
BY InitSafeInv, NextSafeInv, PTL DEF Spec

\* The response of POST /query is always the vetted answer to that request,
\* however many requests share its thread and whatever fails around it.
THEOREM QueryReplyAlwaysVetted == Spec => []QueryReplyVetted
<1>1. SafeInv => QueryReplyVetted
  BY DEF SafeInv, RunInv, VettedInv, QueryReplyVetted
<1> QED BY <1>1, AlwaysSafeInv, PTL

\* Nobody gets an answer before its audit row is stored, restarts included.
THEOREM AlwaysDeliveredAudited == Spec => []DeliveredAudited
<1>1. SafeInv => DeliveredAudited
  BY DEF SafeInv, RunInv, AuditInv, DeliveredAudited
<1> QED BY <1>1, AlwaysSafeInv, PTL

\* Skills are called again at most max_retries times per request, and only
\* after a retryable refusal.
THEOREM AlwaysRetryDiscipline == Spec => []RetryDiscipline
<1>1. SafeInv => RetryDiscipline
  BY DEF SafeInv, RunInv, CallsInv, RetryDiscipline
<1> QED BY <1>1, AlwaysSafeInv, PTL

-----------------------------------------------------------------------------
(***************************************************************************)
(* What is sent is persisted.  A stream's log and what its client received *)
(* are equal whenever a node begins; only the end of a run leaves a gap,   *)
(* the event that was on its way when the stream was cut, or the completed *)
(* event between its insert and its delivery.                              *)
(***************************************************************************)
Behind(s, l) == l = s \/ \E e \in Events : l = Append(s, e)

SentInv(r) ==
    /\ Behind(sent[r], log[r])
    /\ pc[r] \in {"idle", "finish", "audit"} \cup Nodes => log[r] = sent[r]
    /\ pc[r] = "deliver" =>
          log[r] = IF Streaming(r) THEN Append(sent[r], Completed(r)) ELSE sent[r]

\* The beginnings of an event list of which one is at most one event longer.
LEMMA PrefixesBehind ==
    ASSUME NEW s \in Seq(Events), NEW evs \in Seq(Events), NEW n \in 0..Len(evs),
           NEW m \in {n - 1, n} \cap Nat
    PROVE  Behind(s \o SubSeq(evs, 1, m), s \o SubSeq(evs, 1, n))
<1>0. Len(evs) \in Nat
  BY LenProperties
<1>1. CASE m = n
  BY <1>1 DEF Behind
<1>2. CASE m = n - 1
  <2>1. n \in 1..Len(evs) /\ evs[n] \in Events
    BY <1>0, <1>2, ElementOfSeq
  <2>2. SubSeq(evs, 1, n) = SubSeq(evs, 1, m) \o <<evs[n]>>
    BY <1>0, <1>2, <2>1, SubSeqRecursiveSecond
  <2>3. \A i \in 1..m : evs[i] \in Events
    BY <1>0, <1>2, ElementOfSeq
  <2>4. SubSeq(evs, 1, m) \in Seq(Events)
    BY <1>2, <2>3, SubSeqProperties
  <2>5. s \o SubSeq(evs, 1, n) = (s \o SubSeq(evs, 1, m)) \o <<evs[n]>>
    <3> DEFINE head == SubSeq(evs, 1, m)
               last == <<evs[n]>>
    <3>1. head \in Seq(Events) /\ last \in Seq(Events)
      BY <2>1, <2>4
    <3>2. SubSeq(evs, 1, n) = head \o last
      BY <2>2
    <3> HIDE DEF head, last
    <3>3. s \o (head \o last) = (s \o head) \o last
      BY <3>1, ConcatAssociative
    <3>4. s \o SubSeq(evs, 1, n) = (s \o head) \o last
      BY <3>2, <3>3
    <3> QED BY <3>4 DEF head, last
  <2>6. s \o SubSeq(evs, 1, n) = Append(s \o SubSeq(evs, 1, m), evs[n])
    <3>1. s \o SubSeq(evs, 1, m) \in Seq(Events)
      BY <2>4, ConcatProperties
    <3> QED BY <2>1, <2>5, <3>1, AppendIsConcat
  <2> QED BY <2>1, <2>6 DEF Behind
<1> QED BY <1>1, <1>2

\* The end of a node: all its events went out, or the stream was cut among them.
LEMMA CutShortSent ==
    ASSUME TypeInv, NEW r \in Runs, log[r] = sent[r], NEW evs \in Seq(Events),
           CutShort(r, evs)
    PROVE  SentInv(r)'
<1>1. PICK n \in 0..Len(evs) : \E got \in {n - 1, n} \cap Nat :
          /\ log' = [log EXCEPT ![r] = @ \o SubSeq(evs, 1, n)]
          /\ sent' = [sent EXCEPT ![r] = @ \o SubSeq(evs, 1, got)]
  BY DEF CutShort
<1>2. PICK m \in {n - 1, n} \cap Nat :
          sent' = [sent EXCEPT ![r] = @ \o SubSeq(evs, 1, m)]
  BY <1>1
<1>3. log'[r] = sent[r] \o SubSeq(evs, 1, n) /\ sent'[r] = sent[r] \o SubSeq(evs, 1, m)
  BY <1>1, <1>2 DEF TypeInv, TypeOK
<1>4. sent[r] \in Seq(Events)
  BY DEF TypeInv, TypeOK
<1>5. Behind(sent'[r], log'[r])
  BY <1>3, <1>4, PrefixesBehind
<1>6. pc'[r] = "gone"
  BY DEF CutShort, TypeInv, TypeOK
<1> QED BY <1>5, <1>6 DEF SentInv, Behind, Nodes

LEMMA PublishSent ==
    ASSUME TypeInv, NEW r \in Runs, log[r] = sent[r], NEW evs, Publish(r, evs)
    PROVE  log'[r] = sent'[r]
BY DEF Publish, TypeInv, TypeOK

LEMMA AdvanceSent ==
    ASSUME TypeInv, NEW r \in Runs, SentInv(r), pc[r] \in {"idle"} \cup Nodes,
           NEW next, next \in {"finish"} \cup Nodes, NEW v, NEW evs \in Seq(Events),
           Advance(r, next, v, evs)
    PROVE  SentInv(r)'
<1>1. log[r] = sent[r]
  BY DEF SentInv
<1>2. CASE CutShort(r, evs)
  BY <1>1, <1>2, CutShortSent
<1>3. CASE Publish(r, evs) /\ pc' = [pc EXCEPT ![r] = next]
  <2>1. log'[r] = sent'[r] /\ pc'[r] = next
    BY <1>1, <1>3, PublishSent DEF TypeInv, TypeOK
  <2> QED BY <2>1 DEF SentInv, Behind, Nodes
<1> QED BY <1>2, <1>3 DEF Advance

\* The nodes that send no event, or notices only.
LEMMA NoticesSent ==
    ASSUME TypeInv, NEW r \in Runs, SentInv(r),
           Begin(r) \/ Prepare(r) \/ RouteStep(r) \/ Respond(r)
    PROVE  SentInv(r)'
<1>1. <<>> \in Seq(Events) /\ <<Notice("run_started")>> \in Seq(Events)
      /\ <<Notice("route")>> \in Seq(Events)
  BY EventsType, NoValuesType, EmptySeq DEF EventTypes
<1>2. CASE Begin(r)
  BY <1>1, <1>2, AdvanceSent DEF Begin, Nodes
<1>3. CASE Prepare(r)
  BY <1>1, <1>3, AdvanceSent DEF Prepare, Nodes
<1>4. CASE RouteStep(r)
  BY <1>1, <1>4, AdvanceSent DEF RouteStep, Nodes
<1>5. CASE Respond(r)
  BY <1>1, <1>5, AdvanceSent DEF Respond, Nodes
<1> QED BY <1>2, <1>3, <1>4, <1>5

\* The branches send the evidence and the answer.
LEMMA BranchSent ==
    ASSUME TypeInv, NEW r \in Runs, SentInv(r), Skill(r) \/ Clarify(r)
    PROVE  SentInv(r)'
<1>0. pc[r] \in Nodes /\ state[r] \in Values
  BY OwnValues DEF Skill, Clarify, Active, Nodes
<1>1. CASE Skill(r)
  <2>1. PICK o \in SkillOutcomes[state[r].route] :
            Advance(r, "review", [state[r] EXCEPT !.out = Signed(o, r)],
                    OutcomeEvents(Signed(o, r)))
    BY <1>1 DEF Skill
  <2>2. OutcomeEvents(Signed(o, r)) \in Seq(Events)
    BY <1>0, <1>1, SkillOutcomeType, SignedType, OutcomeEventsType DEF Skill
  <2>3. "review" \in Nodes
    BY DEF Nodes
  <2> QED BY <1>0, <2>1, <2>2, <2>3, AdvanceSent
<1>2. CASE Clarify(r)
  <2>1. Advance(r, "respond", [state[r] EXCEPT !.out = Prompt(r)], OutcomeEvents(Prompt(r)))
    BY <1>2 DEF Clarify
  <2>2. OutcomeEvents(Prompt(r)) \in Seq(Events) /\ "respond" \in Nodes
    BY PromptType, OutcomeEventsType DEF Nodes
  <2> QED BY <1>0, <2>1, <2>2, AdvanceSent
<1> QED BY <1>1, <1>2

\* The review sends its notices and the answer that replaces the first one.
LEMMA ReviewSent ==
    ASSUME TypeInv, NEW r \in Runs, SentInv(r), ReviewStep(r)
    PROVE  SentInv(r)'
<1>0. /\ pc[r] \in Nodes /\ "respond" \in Nodes
      /\ state[r] \in Values /\ state[r].retry \in 0..1 /\ state[r].route # "clarify"
      /\ FirstReview(r) \in ReviewResults
  <2>1. pc[r] = "review"
    BY DEF ReviewStep, ReviewPasses, ReviewRefuses, ReviewRetries
  <2>2. state[r] \in Values /\ state[r].route # "clarify"
    BY <2>1, OwnValues DEF Active, Nodes, TypeInv, OwnRunId
  <2> QED BY <2>1, <2>2, ReviewType DEF Nodes, Values, FirstReview
<1>1. ASSUME NEW v \in Values, NEW answer \in BOOLEAN,
             Advance(r, "respond", v, ReviewEvents(v, answer))
      PROVE  SentInv(r)'
  <2>1. ReviewEvents(v, answer) \in Seq(Events)
    BY ReviewEventsType
  <2> QED BY <1>0, <1>1, <2>1, AdvanceSent
<1>2. CASE ReviewPasses(r)
  <2>1. Reviewed(state[r], FirstReview(r), state[r].retry) \in Values
    BY <1>0, ReviewedType
  <2> QED BY <1>1, <1>2, <2>1 DEF ReviewPasses
<1>3. CASE ReviewRefuses(r)
  <2>1. Rejected(state[r], FirstReview(r), r) \in Values
    BY <1>0, RejectedType
  <2> QED BY <1>1, <1>3, <2>1 DEF ReviewRefuses
<1>4. CASE ReviewRetries(r)
  <2>1. \A o \in SkillOutcomes[state[r].route] : Retried(r, o) \in Values
    BY <1>0, SkillOutcomeType, RetriedType
  <2> QED BY <1>1, <1>4, <2>1 DEF ReviewRetries
<1> QED BY <1>2, <1>3, <1>4 DEF ReviewStep

\* The end of a run: the completed event is persisted by one step and sent by another.
LEMMA EndSent ==
    ASSUME TypeInv, NEW r \in Runs, SentInv(r),
           Finish(r) \/ Audit(r) \/ AuditFails(r) \/ Deliver(r) \/ Leave(r) \/ Fail(r)
    PROVE  SentInv(r)'
<1> USE DEF SentInv, Behind, Nodes
<1>0. Completed(r) \in Events
  BY CompletedType
<1>1. CASE Finish(r)
  BY <1>1 DEF Finish, TypeInv, TypeOK
<1>2. CASE Audit(r)
  BY <1>0, <1>2 DEF Audit, Completed, TypeInv, TypeOK
<1>3. CASE AuditFails(r)
  BY <1>0, <1>3 DEF AuditFails, TypeInv, TypeOK
<1>4. CASE Deliver(r)
  BY <1>4 DEF Deliver, TypeInv, TypeOK
<1>5. CASE Leave(r)
  BY <1>5 DEF Leave, TypeInv, TypeOK
<1>6. CASE Fail(r)
  <2>1. log[r] = sent[r] /\ <<Notice("error")>> \in Seq(Events)
    BY <1>6, EventsType, NoValuesType DEF Fail, EventTypes
  <2>2. CASE CutShort(r, <<Notice("error")>>)
    BY <2>1, <2>2, CutShortSent
  <2>3. CASE Publish(r, <<Notice("error")>>) /\ pc' = [pc EXCEPT ![r] = "failed"]
    <3>1. log'[r] = sent'[r] /\ pc'[r] = "failed"
      BY <2>1, <2>3, PublishSent DEF TypeInv, TypeOK
    <3> QED BY <3>1
  <2> QED BY <1>6, <2>2, <2>3 DEF Fail
<1> QED BY <1>1, <1>2, <1>3, <1>4, <1>5, <1>6

\* A step writes the log and the stream of no run but its own.
LEMMA LogIsLocal ==
    ASSUME TypeInv, NEW r \in Runs, Begin(r) \/ Step(r), NEW q \in Runs \ {r}
    PROVE  log'[q] = log[q] /\ sent'[q] = sent[q]
<1>1. ASSUME NEW next, NEW v, NEW evs, Advance(r, next, v, evs)
      PROVE  log'[q] = log[q] /\ sent'[q] = sent[q]
  BY <1>1 DEF Advance, Publish, CutShort, TypeInv, TypeOK
<1>2. CASE Begin(r) \/ Prepare(r) \/ RouteStep(r) \/ Skill(r) \/ Clarify(r) \/ Respond(r)
  BY <1>1, <1>2 DEF Begin, Prepare, RouteStep, Skill, Clarify, Respond
<1>3. CASE ReviewStep(r)
  BY <1>1, <1>3 DEF ReviewStep, ReviewPasses, ReviewRefuses, ReviewRetries
<1>4. CASE Finish(r) \/ Audit(r) \/ AuditFails(r) \/ Deliver(r) \/ Leave(r)
  BY <1>4 DEF Finish, Audit, AuditFails, Deliver, Leave, TypeInv, TypeOK
<1>5. CASE Fail(r)
  BY <1>5 DEF Fail, Publish, CutShort, TypeInv, TypeOK
<1> QED BY <1>2, <1>3, <1>4, <1>5 DEF Step

LEMMA NextSent ==
    ASSUME TypeInv, \A r \in Runs : SentInv(r), [Next]_vars, NEW q \in Runs
    PROVE  SentInv(q)'
<1>1. ASSUME request' = request, pc'[q] = pc[q], final'[q] = final[q], log'[q] = log[q],
             sent'[q] = sent[q]
      PROVE  SentInv(q)'
  BY <1>1 DEF SentInv, Behind, Completed
<1>2. ASSUME NEW r \in Runs, Begin(r) \/ Step(r)  PROVE SentInv(q)'
  <2>1. CASE q = r
    BY <1>2, <2>1, NoticesSent, BranchSent, ReviewSent, EndSent DEF Step
  <2>2. CASE q # r
    BY <1>1, <1>2, <2>2, StepIsLocal, LogIsLocal
  <2> QED BY <2>1, <2>2
<1>3. CASE Crash
  BY <1>3 DEF Crash, SentInv, Behind, Completed, Active, Nodes, TypeInv, TypeOK
<1>4. CASE UNCHANGED vars
  BY <1>1, <1>4 DEF vars
<1> QED BY <1>2, <1>3, <1>4 DEF Next, Terminated

\* What Behind says of two logs, in the words of SentIsLogged.
LEMMA BehindIsPrefix ==
    ASSUME NEW s \in Seq(Events), NEW l \in Seq(Events), Behind(s, l)
    PROVE  Len(l) - Len(s) \in {0, 1} /\ s = SubSeq(l, 1, Len(s))
<1>0. Len(s) \in Nat
  BY LenProperties
<1>1. CASE l = s
  BY <1>0, <1>1, SubSeqFull
<1>2. ASSUME NEW e \in Events, l = Append(s, e)
      PROVE  Len(l) - Len(s) \in {0, 1} /\ s = SubSeq(l, 1, Len(s))
  <2>1. Len(l) = Len(s) + 1 /\ \A i \in 1..Len(s) : l[i] = s[i]
    BY <1>0, <1>2, AppendProperties
  <2>2. \A i \in 1..Len(s) : l[i] \in Events
    BY <1>0, <2>1, ElementOfSeq
  <2>3. /\ SubSeq(l, 1, Len(s)) \in Seq(Events)
        /\ Len(SubSeq(l, 1, Len(s))) = Len(s)
        /\ \A i \in 1..Len(s) : SubSeq(l, 1, Len(s))[i] = l[i]
    BY <1>0, <2>2, SubSeqProperties
  <2>4. s = SubSeq(l, 1, Len(s))
    BY <2>1, <2>3, SeqEqual
  <2> QED BY <1>0, <2>1, <2>4
<1> QED BY <1>1, <1>2 DEF Behind

\* routes.py, event_source: the history of a run holds everything its client has received,
\* and at most one event more, wherever the stream is cut or the process restarts.
THEOREM AlwaysSentIsLogged == Spec => []SentIsLogged
<1>1. Init => \A r \in Runs : SentInv(r)
  BY DEF Init, SentInv, Behind
<1>2. TypeInv /\ (\A r \in Runs : SentInv(r)) /\ [Next]_vars => (\A r \in Runs : SentInv(r))'
  BY NextSent
<1>3. TypeInv /\ (\A r \in Runs : SentInv(r)) => SentIsLogged
  BY BehindIsPrefix DEF SentInv, SentIsLogged, TypeInv, TypeOK
<1> QED BY <1>1, <1>2, <1>3, AlwaysTypeInv, PTL DEF Spec

-----------------------------------------------------------------------------
(***************************************************************************)
(* One request at a time.  Without overlap the latest checkpoint of a      *)
(* thread is the one of the run that works on it, so what a stream reads   *)
(* back is its own, vetted result.                                         *)
(***************************************************************************)
SerialInv(r) ==
    /\ pc[r] \in Active => Quiet(r)
    /\ pc[r] \in {"finish"} \cup Nodes => saved[Thread(r)] = state[r]
    /\ pc[r] \in {"audit", "deliver"} => Vetted(final[r], r)
    /\ pc[r] = "done" => Vetted(reply[r], r)

\* The end of a node keeps it for the run and for those that wait or have ended.
LEMMA AdvanceSerial ==
    ASSUME TypeInv, \A q \in Runs : SerialInv(q), NEW r \in Runs, Quiet(r),
           NEW next, next \in {"finish"} \cup Nodes, NEW v, NEW evs,
           Advance(r, next, v, evs), UNCHANGED <<request, final, reply>>
    PROVE  \A q \in Runs : SerialInv(q)'
<1>0. Nodes \cup {"finish", "audit", "deliver"} = Active /\ "gone" \notin Active /\ "done" \notin Active
  BY DEF Nodes, Active
<1>1. CASE CutShort(r, evs) /\ UNCHANGED <<state, saved>>
  <2>1. pc'[r] = "gone" /\ \A q \in Runs \ {r} : pc'[q] = pc[q]
    BY <1>1 DEF CutShort, TypeInv, TypeOK
  <2> QED BY <1>0, <1>1, <2>1 DEF SerialInv, Quiet, Vetted
<1>2. CASE /\ pc' = [pc EXCEPT ![r] = next]
           /\ state' = [state EXCEPT ![r] = v]
           /\ saved' = [saved EXCEPT ![Thread(r)] = v]
  <2>1. /\ pc'[r] = next /\ state'[r] = v /\ saved'[Thread(r)] = v
        /\ \A q \in Runs \ {r} : pc'[q] = pc[q] /\ state'[q] = state[q]
        /\ \A t \in Threads \ {Thread(r)} : saved'[t] = saved[t]
        /\ \A q \in Runs : Thread(q) \in Threads
    BY <1>2 DEF TypeInv, TypeOK
  <2>2. SerialInv(r)'
    BY <1>0, <2>1 DEF SerialInv, Quiet, Nodes
  <2>3. ASSUME NEW q \in Runs \ {r} PROVE SerialInv(q)'
    <3>1. Thread(q) = Thread(r) => pc[q] \notin Active
      BY DEF Quiet
    <3> QED BY <1>0, <2>1, <3>1 DEF SerialInv, Quiet, Vetted
  <2> QED BY <2>2, <2>3
<1> QED BY <1>1, <1>2 DEF Advance

\* Each step of a run.
LEMMA StepSerial ==
    ASSUME ~Overlap, SafeInv, \A q \in Runs : SerialInv(q), NEW r \in Runs, Begin(r) \/ Step(r)
    PROVE  \A q \in Runs : SerialInv(q)'
<1>0. TypeInv /\ RunInv(r) /\ SerialInv(r)
  BY DEF SafeInv
<1>1. CASE Begin(r)
  BY <1>0, <1>1, AdvanceSerial DEF Begin, Nodes
<1>2. CASE Prepare(r) \/ RouteStep(r) \/ Skill(r) \/ Clarify(r) \/ Respond(r)
  <2>1. Quiet(r)
    BY <1>0, <1>2 DEF SerialInv, Active, Nodes, Prepare, RouteStep, Skill, Clarify, Respond
  <2> QED
    BY <1>0, <1>2, <2>1, AdvanceSerial DEF Nodes, Prepare, RouteStep, Skill, Clarify, Respond
<1>3. CASE ReviewStep(r)
  <2>1. Quiet(r)
    BY <1>0, <1>3
    DEF SerialInv, Active, Nodes, ReviewStep, ReviewPasses, ReviewRefuses, ReviewRetries
  <2> QED
    BY <1>0, <1>3, <2>1, AdvanceSerial
    DEF Nodes, ReviewStep, ReviewPasses, ReviewRefuses, ReviewRetries
<1>4. CASE Finish(r)
  <2>1. Vetted(Response(r), r)
    BY <1>0, <1>4 DEF Finish, Response, SerialInv, RunInv, VettedInv
  <2>2. final'[r] = Response(r)
    BY <1>0, <1>4 DEF Finish, TypeInv, TypeOK
  <2> QED
    BY <1>0, <1>4, <2>1, <2>2 DEF Finish, SerialInv, Quiet, Active, Nodes, Vetted, TypeInv, TypeOK
<1>5. CASE Audit(r) \/ AuditFails(r) \/ Leave(r)
  <2>1. /\ pc[r] \in {"audit", "deliver"}
        /\ \E place \in {"deliver", "failed", "gone"} :
              pc' = [pc EXCEPT ![r] = place] /\ (place = "deliver" => pc[r] = "audit")
        /\ UNCHANGED <<request, state, final, reply, saved>>
    BY <1>5 DEF Audit, AuditFails, Leave
  <2> QED
    BY <1>0, <2>1 DEF SerialInv, Quiet, Active, Nodes, Vetted, TypeInv, TypeOK
<1>6. CASE Deliver(r)
  BY <1>0, <1>6 DEF Deliver, SerialInv, Quiet, Active, Nodes, Vetted, TypeInv, TypeOK
<1>7. CASE Fail(r)
  <2>1. pc' \in {[pc EXCEPT ![r] = "failed"], [pc EXCEPT ![r] = "gone"]}
    BY <1>7 DEF Fail, CutShort
  <2> QED
    BY <1>0, <1>7, <2>1 DEF Fail, SerialInv, Quiet, Active, Nodes, Vetted, TypeInv, TypeOK
<1> QED BY <1>1, <1>2, <1>3, <1>4, <1>5, <1>6, <1>7 DEF Step

\* It holds of every run in every reachable state.
LEMMA AlwaysSerialInv ==
    ASSUME ~Overlap
    PROVE  Spec => [](\A r \in Runs : SerialInv(r))
<1>1. Init => \A r \in Runs : SerialInv(r)
  BY DEF Init, SerialInv, Active, Nodes
<1>2. SafeInv /\ (\A r \in Runs : SerialInv(r)) /\ [Next]_vars => (\A r \in Runs : SerialInv(r))'
  <2> SUFFICES ASSUME SafeInv, \A r \in Runs : SerialInv(r), [Next]_vars
               PROVE  \A r \in Runs : SerialInv(r)'
    OBVIOUS
  <2>1. CASE Crash
    BY <2>1 DEF Crash, SerialInv, Quiet, Active, Nodes, Vetted, SafeInv, TypeInv, TypeOK
  <2>2. CASE UNCHANGED vars
    BY <2>2 DEF vars, SerialInv, Quiet, Vetted
  <2> QED BY <2>1, <2>2, StepSerial DEF Next, Terminated
<1> QED BY <1>1, <1>2, AlwaysSafeInv, PTL DEF Spec

\* routes.py, AgentWorkflow.stream: where a thread has one request at a time, a completed
\* event carries the vetted answer to its own request, restarts and failures included.
THEOREM CompletedVettedWithoutOverlap ==
    ASSUME ~Overlap
    PROVE  Spec => []CompletedVetted
<1>1. (\A r \in Runs : SerialInv(r)) => CompletedVetted
  BY DEF SerialInv, CompletedVetted
<1> QED BY <1>1, AlwaysSerialInv, PTL

-----------------------------------------------------------------------------
(***************************************************************************)
(* The last answer event.  It is the answer of the run from the moment a   *)
(* skill has returned: the review either keeps the answer and sends none,  *)
(* or sends the one that replaces it.                                      *)
(***************************************************************************)
LastAnswerIs(l, out) ==
    \E i \in DOMAIN l :
        /\ l[i].type = "answer" /\ l[i].out = out
        /\ \A j \in DOMAIN l : j > i => l[j].type # "answer"

AnswerInv(r) ==
    Streaming(r) /\ pc[r] \in {"review", "respond", "finish", "audit", "deliver"} =>
        LastAnswerIs(log[r], state[r].out)

\* Events that are no answers do not change which answer is the last.
LEMMA NoticesKeepLast ==
    ASSUME NEW l \in Seq(Events), NEW out, LastAnswerIs(l, out), NEW evs \in Seq(Events),
           \A j \in 1..Len(evs) : evs[j].type # "answer"
    PROVE  LastAnswerIs(l \o evs, out)
<1>1. PICK i \in 1..Len(l) :
          /\ l[i].type = "answer" /\ l[i].out = out
          /\ \A j \in 1..Len(l) : j > i => l[j].type # "answer"
  BY LenProperties DEF LastAnswerIs
<1>2. Len(l) \in Nat /\ Len(evs) \in Nat
  BY LenProperties
<1>3. /\ DOMAIN (l \o evs) = 1..Len(l) + Len(evs)
      /\ \A j \in 1..Len(l) + Len(evs) :
            (l \o evs)[j] = IF j <= Len(l) THEN l[j] ELSE evs[j - Len(l)]
  <2>1. /\ l \o evs \in Seq(Events) /\ Len(l \o evs) = Len(l) + Len(evs)
        /\ \A j \in 1..Len(l) + Len(evs) :
              (l \o evs)[j] = IF j <= Len(l) THEN l[j] ELSE evs[j - Len(l)]
    BY ConcatProperties
  <2> QED BY <2>1, LenProperties
<1>4. i \in DOMAIN (l \o evs) /\ (l \o evs)[i] = l[i]
  BY <1>1, <1>2, <1>3
<1>5. ASSUME NEW j \in DOMAIN (l \o evs), j > i
      PROVE  (l \o evs)[j].type # "answer"
  <2>1. CASE j <= Len(l)
    BY <1>1, <1>2, <1>3, <1>5, <2>1
  <2>2. CASE j > Len(l)
    <3>1. (l \o evs)[j] = evs[j - Len(l)] /\ j - Len(l) \in 1..Len(evs)
      BY <1>2, <1>3, <1>5, <2>2
    <3> QED BY <3>1
  <2> QED BY <1>2, <1>3, <2>1, <2>2
<1> QED BY <1>1, <1>4, <1>5 DEF LastAnswerIs

\* An answer sent at the end is the last one.
LEMMA AnswerIsLast ==
    ASSUME NEW l \in Seq(Events), NEW out \in Outcome, NEW evs \in Seq(Events),
           Len(evs) > 0, evs[Len(evs)] = Event("answer", out)
    PROVE  LastAnswerIs(l \o evs, out)
<1>1. Len(l) \in Nat /\ Len(evs) \in Nat
  BY LenProperties
<1>2. /\ l \o evs \in Seq(Events) /\ Len(l \o evs) = Len(l) + Len(evs)
      /\ \A j \in 1..Len(l) + Len(evs) :
            (l \o evs)[j] = IF j <= Len(l) THEN l[j] ELSE evs[j - Len(l)]
  BY ConcatProperties
<1> DEFINE last == Len(l) + Len(evs)
<1>3. /\ DOMAIN (l \o evs) = 1..last /\ last \in 1..last
      /\ (l \o evs)[last] = Event("answer", out)
  BY <1>1, <1>2, LenProperties
<1>4. \A j \in 1..last : ~(j > last)
  BY <1>1
<1>5. Event("answer", out).type = "answer" /\ Event("answer", out).out = out
  BY DEF Event
<1> HIDE DEF last
<1> QED BY <1>3, <1>4, <1>5 DEF LastAnswerIs

\* A list that one event is added to.
LEMMA OneMore ==
    ASSUME NEW s \in Seq(Events), NEW e \in Events
    PROVE  /\ s \o <<e>> \in Seq(Events) /\ Len(s \o <<e>>) = Len(s) + 1
           /\ Len(s \o <<e>>) > 0
           /\ (s \o <<e>>)[Len(s \o <<e>>)] = e
           /\ \A j \in 1..Len(s) : (s \o <<e>>)[j] = s[j]
<1>1. s \o <<e>> = Append(s, e) /\ Len(s) \in Nat
  BY AppendIsConcat, LenProperties
<1>2. /\ Append(s, e) \in Seq(Events) /\ Len(Append(s, e)) = Len(s) + 1
      /\ \A j \in 1..Len(s) : Append(s, e)[j] = s[j]
      /\ Append(s, e)[Len(s) + 1] = e
  BY AppendProperties
<1> QED BY <1>1, <1>2

\* The events of a branch end with its answer.
LEMMA BranchEventsEnd ==
    ASSUME NEW out \in Outcome
    PROVE  LET evs == OutcomeEvents(out)
           IN  /\ evs \in Seq(Events) /\ Len(evs) > 0
               /\ evs[Len(evs)] = Event("answer", out)
<1> DEFINE s == IF out.kinds = <<>> THEN <<>> ELSE <<Notice("evidence")>>
<1>1. Notice("evidence") \in Events /\ Event("answer", out) \in Events
  BY EventsType DEF EventTypes
<1>2. s \in Seq(Events)
  BY <1>1
<1>3. OutcomeEvents(out) = s \o <<Event("answer", out)>>
  BY DEF OutcomeEvents
<1> HIDE DEF s
<1> QED BY <1>1, <1>2, <1>3, OneMore

\* The events of the review end with its answer, or contain none.
LEMMA ReviewEventsEnd ==
    ASSUME NEW v \in Values
    PROVE  /\ LET evs == ReviewEvents(v, TRUE)
              IN  /\ evs \in Seq(Events) /\ Len(evs) > 0
                  /\ evs[Len(evs)] = Event("answer", v.out)
           /\ LET evs == ReviewEvents(v, FALSE)
              IN  /\ evs \in Seq(Events)
                  /\ \A j \in 1..Len(evs) : evs[j].type # "answer"
<1> DEFINE a == IF v.retry = 1 THEN <<Notice("retry_started")>> ELSE <<>>
           b == Notice("review_completed")
<1>0. v.out \in Outcome
  BY DEF Values
<1>1. /\ Notice("retry_started") \in Events /\ b \in Events
      /\ Event("answer", v.out) \in Events
  BY <1>0, EventsType DEF EventTypes
<1>2. /\ Notice("retry_started").type # "answer" /\ b.type # "answer"
  BY DEF Notice, Event
<1>3. a \in Seq(Events) /\ \A j \in 1..Len(a) : a[j].type # "answer"
  <2>1. CASE v.retry = 1
    BY <1>1, <1>2, <2>1
  <2>2. CASE v.retry # 1
    <3>1. a = <<>> /\ a \in Seq(Events) /\ Len(a) = 0
      BY <2>2, EmptySeq
    <3> QED BY <3>1
  <2> QED BY <2>1, <2>2
<1>4. /\ ReviewEvents(v, TRUE) = (a \o <<b>>) \o <<Event("answer", v.out)>>
      /\ ReviewEvents(v, FALSE) = (a \o <<b>>) \o <<>>
  BY DEF ReviewEvents
<1> HIDE DEF a, b
<1>5. /\ a \o <<b>> \in Seq(Events) /\ Len(a \o <<b>>) = Len(a) + 1 /\ Len(a) \in Nat
      /\ (a \o <<b>>)[Len(a \o <<b>>)] = b
      /\ \A j \in 1..Len(a) : (a \o <<b>>)[j] = a[j]
  BY <1>1, <1>3, OneMore, LenProperties
<1> DEFINE c == a \o <<b>>
<1>6. \A j \in 1..Len(c) : c[j].type # "answer"
  <2> SUFFICES ASSUME NEW j \in 1..Len(c) PROVE c[j].type # "answer"
    OBVIOUS
  <2>1. j \in 1..Len(a) \/ j = Len(c)
    BY <1>5
  <2> QED BY <1>2, <1>3, <1>5, <2>1
<1>7. c \in Seq(Events)
  BY <1>5
<1>8. ReviewEvents(v, TRUE) = c \o <<Event("answer", v.out)>> /\ ReviewEvents(v, FALSE) = c \o <<>>
  BY <1>4
<1> HIDE DEF c
<1>9. ReviewEvents(v, FALSE) = c
  BY <1>7, <1>8, ConcatEmptySeq
<1>10. LET evs == ReviewEvents(v, TRUE)
       IN  /\ evs \in Seq(Events) /\ Len(evs) > 0
           /\ evs[Len(evs)] = Event("answer", v.out)
  <2> DEFINE d == c \o <<Event("answer", v.out)>>
  <2>1. d \in Seq(Events) /\ Len(d) > 0 /\ d[Len(d)] = Event("answer", v.out)
    BY <1>1, <1>7, OneMore
  <2>2. ReviewEvents(v, TRUE) = d
    BY <1>8
  <2> HIDE DEF d
  <2> QED BY <2>1, <2>2
<1> QED BY <1>6, <1>7, <1>9, <1>10

\* The end of a node whose events make its answer the last one; a stream that is cut ends.
LEMMA AdvanceAnswers ==
    ASSUME TypeInv, NEW r \in Runs, request' = request, NEW next, NEW v, NEW evs,
           Advance(r, next, v, evs),
           Streaming(r) => LastAnswerIs(log[r] \o evs, v.out)
    PROVE  AnswerInv(r)'
<1>1. CASE CutShort(r, evs)
  <2>1. pc'[r] = "gone"
    BY <1>1 DEF CutShort, TypeInv, TypeOK
  <2> QED BY <2>1 DEF AnswerInv
<1>2. CASE Publish(r, evs) /\ state' = [state EXCEPT ![r] = v]
  <2>1. state'[r] = v /\ (Streaming(r) => log'[r] = log[r] \o evs)
    BY <1>2 DEF Publish, TypeInv, TypeOK
  <2> QED BY <2>1 DEF AnswerInv, LastAnswerIs, Streaming
<1> QED BY <1>1, <1>2 DEF Advance

\* The skill nodes and the clarify node end with the answer they write.
LEMMA BranchAnswers ==
    ASSUME TypeInv, NEW r \in Runs, Skill(r) \/ Clarify(r)
    PROVE  AnswerInv(r)'
<1>0. /\ pc[r] = "branch" /\ state[r] \in Values /\ log[r] \in Seq(Events)
      /\ request' = request
  BY OwnValues DEF Skill, Clarify, Active, Nodes, TypeInv, TypeOK
<1>1. ASSUME NEW next, NEW out \in Outcome,
             Advance(r, next, [state[r] EXCEPT !.out = out], OutcomeEvents(out))
      PROVE  AnswerInv(r)'
  <2>1. LET evs == OutcomeEvents(out)
        IN  /\ evs \in Seq(Events) /\ Len(evs) > 0
            /\ evs[Len(evs)] = Event("answer", out)
    BY BranchEventsEnd
  <2>2. LastAnswerIs(log[r] \o OutcomeEvents(out), out)
    BY <1>0, <2>1, AnswerIsLast
  <2>3. [state[r] EXCEPT !.out = out].out = out
    BY <1>0 DEF Values
  <2> QED BY <1>0, <1>1, <2>2, <2>3, AdvanceAnswers
<1>2. CASE Skill(r)
  <2>1. PICK o \in SkillOutcomes[state[r].route] :
            Advance(r, "review", [state[r] EXCEPT !.out = Signed(o, r)],
                    OutcomeEvents(Signed(o, r)))
    BY <1>2 DEF Skill
  <2>2. Signed(o, r) \in Outcome
    BY <1>0, <1>2, SkillOutcomeType, SignedType DEF Skill
  <2> QED BY <1>1, <2>1, <2>2
<1>3. CASE Clarify(r)
  <2>1. Advance(r, "respond", [state[r] EXCEPT !.out = Prompt(r)], OutcomeEvents(Prompt(r)))
    BY <1>3 DEF Clarify
  <2> QED BY <1>1, <2>1, PromptType
<1> QED BY <1>2, <1>3

\* The review keeps the answer without sending one, or sends the one it puts in its place.
LEMMA ReviewAnswers ==
    ASSUME TypeInv, NEW r \in Runs, AnswerInv(r), ReviewStep(r)
    PROVE  AnswerInv(r)'
<1>0. /\ pc[r] = "review" /\ state[r] \in Values /\ state[r].retry \in 0..1
      /\ log[r] \in Seq(Events) /\ request' = request
      /\ FirstReview(r) \in ReviewResults
  <2>1. pc[r] = "review" /\ request' = request
    BY DEF ReviewStep, ReviewPasses, ReviewRefuses, ReviewRetries
  <2>2. state[r] \in Values
    BY <2>1, OwnValues DEF Active, Nodes
  <2> QED BY <2>1, <2>2, ReviewType DEF Values, FirstReview, TypeInv, TypeOK
<1>1. ASSUME NEW v \in Values, Advance(r, "respond", v, ReviewEvents(v, TRUE))
      PROVE  AnswerInv(r)'
  <2>1. LET evs == ReviewEvents(v, TRUE)
        IN  /\ evs \in Seq(Events) /\ Len(evs) > 0
            /\ evs[Len(evs)] = Event("answer", v.out)
    BY ReviewEventsEnd
  <2>2. v.out \in Outcome
    BY DEF Values
  <2>3. LastAnswerIs(log[r] \o ReviewEvents(v, TRUE), v.out)
    BY <1>0, <2>1, <2>2, AnswerIsLast
  <2> QED BY <1>0, <1>1, <2>3, AdvanceAnswers
<1>2. CASE ReviewPasses(r)
  <2> DEFINE v == Reviewed(state[r], FirstReview(r), state[r].retry)
  <2>1. v \in Values /\ Advance(r, "respond", v, ReviewEvents(v, FALSE))
    BY <1>0, <1>2, ReviewedType DEF ReviewPasses
  <2>2. v.out = state[r].out
    BY <1>0 DEF Reviewed, Values
  <2> HIDE DEF v
  <2>3. LET evs == ReviewEvents(v, FALSE)
        IN  /\ evs \in Seq(Events)
            /\ \A j \in 1..Len(evs) : evs[j].type # "answer"
    BY <2>1, ReviewEventsEnd
  <2>4. ASSUME Streaming(r) PROVE LastAnswerIs(log[r] \o ReviewEvents(v, FALSE), v.out)
    <3>1. LastAnswerIs(log[r], v.out)
      BY <1>0, <2>2, <2>4 DEF AnswerInv
    <3> QED BY <1>0, <2>3, <3>1, NoticesKeepLast
  <2> QED BY <1>0, <2>1, <2>4, AdvanceAnswers
<1>3. CASE ReviewRefuses(r)
  <2>1. Rejected(state[r], FirstReview(r), r) \in Values
    BY <1>0, RejectedType
  <2> QED BY <1>1, <1>3, <2>1 DEF ReviewRefuses
<1>4. CASE ReviewRetries(r)
  <2>1. state[r].route # "clarify"
    BY <1>0 DEF TypeInv, OwnRunId
  <2>2. \A o \in SkillOutcomes[state[r].route] : Retried(r, o) \in Values
    BY <1>0, <2>1, SkillOutcomeType, RetriedType
  <2> QED BY <1>1, <1>4, <2>2 DEF ReviewRetries
<1> QED BY <1>2, <1>3, <1>4 DEF ReviewStep

\* The turn is recorded without an event, the completed event is no answer.
LEMMA EndAnswers ==
    ASSUME TypeInv, NEW r \in Runs, AnswerInv(r),
           Respond(r) \/ Finish(r) \/ Audit(r) \/ AuditFails(r) \/ Deliver(r)
           \/ Leave(r) \/ Fail(r)
    PROVE  AnswerInv(r)'
<1>0. log[r] \in Seq(Events)
  BY DEF TypeInv, TypeOK
<1>1. CASE Respond(r)
  <2>1. /\ pc[r] = "respond" /\ state[r] \in Values /\ state[r].run \in Runs
        /\ request' = request
        /\ Advance(r, "finish", Recorded(state[r]), <<>>)
    BY <1>1, OwnValues DEF Respond, Active, Nodes
  <2>2. Recorded(state[r]).out = state[r].out /\ log[r] \o <<>> = log[r]
    BY <1>0, <2>1, RecordedType, ConcatEmptySeq
  <2>3. Streaming(r) => LastAnswerIs(log[r] \o <<>>, Recorded(state[r]).out)
    BY <2>1, <2>2 DEF AnswerInv
  <2> QED BY <2>1, <2>3, AdvanceAnswers
<1>2. CASE Finish(r)
  BY <1>2 DEF Finish, AnswerInv, LastAnswerIs, Streaming, TypeInv, TypeOK
<1>3. CASE Audit(r)
  <2> DEFINE evs == <<Completed(r)>>
  <2>1. Completed(r) \in Events /\ Completed(r).type # "answer"
    BY CompletedType DEF Completed, Event
  <2>2. evs \in Seq(Events) /\ \A j \in 1..Len(evs) : evs[j].type # "answer"
    BY <2>1
  <2>3. Append(log[r], Completed(r)) = log[r] \o evs
    BY <1>0, <2>1, AppendIsConcat
  <2> HIDE DEF evs
  <2>4. ASSUME Streaming(r) PROVE LastAnswerIs(log'[r], state[r].out)
    <3>1. log'[r] = Append(log[r], Completed(r))
      BY <1>3, <2>4 DEF Audit, TypeInv, TypeOK
    <3>2. LastAnswerIs(log[r], state[r].out)
      BY <1>3, <2>4 DEF Audit, AnswerInv
    <3> QED BY <1>0, <2>2, <2>3, <3>1, <3>2, NoticesKeepLast
  <2>5. request' = request /\ state' = state
    BY <1>3 DEF Audit
  <2> QED BY <2>4, <2>5 DEF AnswerInv, Streaming, LastAnswerIs
<1>4. CASE AuditFails(r) \/ Deliver(r) \/ Leave(r) \/ Fail(r)
  <2>1. pc'[r] \in {"gone", "failed", "done"}
    BY <1>4 DEF AuditFails, Deliver, Leave, Fail, CutShort, TypeInv, TypeOK
  <2> QED BY <2>1 DEF AnswerInv
<1> QED BY <1>1, <1>2, <1>3, <1>4

LEMMA NextAnswers ==
    ASSUME TypeInv, \A r \in Runs : AnswerInv(r), [Next]_vars, NEW q \in Runs
    PROVE  AnswerInv(q)'
<1>1. ASSUME request' = request, pc'[q] = pc[q], state'[q] = state[q], log'[q] = log[q]
      PROVE  AnswerInv(q)'
  BY <1>1 DEF AnswerInv, LastAnswerIs, Streaming
<1>2. ASSUME NEW r \in Runs, Begin(r) \/ Step(r)  PROVE AnswerInv(q)'
  <2>1. CASE q = r
    <3>1. CASE Begin(r) \/ Prepare(r) \/ RouteStep(r)
      <4>1. pc'[r] \in {"prepare", "route", "branch", "gone"}
        BY <3>1 DEF Begin, Prepare, RouteStep, Advance, CutShort, TypeInv, TypeOK
      <4> QED BY <2>1, <4>1 DEF AnswerInv
    <3> QED BY <1>2, <2>1, <3>1, BranchAnswers, ReviewAnswers, EndAnswers DEF Step
  <2>2. CASE q # r
    BY <1>1, <1>2, <2>2, StepIsLocal, LogIsLocal
  <2> QED BY <2>1, <2>2
<1>3. CASE Crash
  <2>1. pc'[q] \notin {"review", "respond", "finish", "audit", "deliver"}
    BY <1>3 DEF Crash, Active, Nodes
  <2> QED BY <2>1 DEF AnswerInv
<1>4. CASE UNCHANGED vars
  BY <1>1, <1>4 DEF vars
<1> QED BY <1>2, <1>3, <1>4 DEF Next, Terminated

\* workflow.py, _event_from_update: when a streamed run has ended, the last answer event of
\* its history is the answer the run ended with, whatever was refused or made twice before.
THEOREM AlwaysLastAnswerStands == Spec => []LastAnswerStands
<1>1. Init => \A r \in Runs : AnswerInv(r)
  BY DEF Init, AnswerInv
<1>2. TypeInv /\ (\A r \in Runs : AnswerInv(r)) /\ [Next]_vars
         => (\A r \in Runs : AnswerInv(r))'
  BY NextAnswers
<1>3. TypeInv /\ (\A r \in Runs : AnswerInv(r)) => LastAnswerStands
  <2> SUFFICES ASSUME TypeInv, \A r \in Runs : AnswerInv(r), NEW r \in Runs, Streaming(r),
                      pc[r] \in {"finish", "audit", "deliver"}
               PROVE  \E i \in AnswerEvents(r) :
                          /\ \A j \in AnswerEvents(r) : j <= i
                          /\ log[r][i].out = state[r].out
    BY DEF LastAnswerStands
  <2>1. PICK i \in DOMAIN log[r] :
            /\ log[r][i].type = "answer" /\ log[r][i].out = state[r].out
            /\ \A j \in DOMAIN log[r] : j > i => log[r][j].type # "answer"
    BY DEF AnswerInv, LastAnswerIs
  <2>2. DOMAIN log[r] \subseteq Nat
    <3>1. log[r] \in Seq(Events)
      BY DEF TypeInv, TypeOK
    <3> QED BY <3>1, LenProperties
  <2> QED BY <2>1, <2>2 DEF AnswerEvents
<1> QED BY <1>1, <1>2, <1>3, AlwaysTypeInv, PTL DEF Spec

-----------------------------------------------------------------------------
(***************************************************************************)
(* The summary.  It quotes the latest turns of the history beside it in    *)
(* every run and in every checkpoint, so a checkpoint that another run of  *)
(* the thread put brings its own summary along.                            *)
(***************************************************************************)
Current(v) == v.summary = LastOf(v.history, SummaryLimit)

SummaryInv ==
    /\ \A r \in Runs : Current(state[r])
    /\ \A t \in Threads : Current(saved[t])

\* Nothing has been said yet.
LEMMA NothingToQuote == Current(NoValues)
<1>1. LastOf(<<>>, SummaryLimit) = <<>>
  <2>1. Len(<<>>) = 0 /\ ~(0 > SummaryLimit)
    BY EmptySeq, BoundsAssumption
  <2>2. LastOf(<<>>, SummaryLimit) = SubSeq(<<>>, 1, 0)
    BY <2>1 DEF LastOf
  <2> QED BY <2>2, SubSeqEmpty
<1> QED BY <1>1 DEF Current, NoValues

\* A patch of one turn leaves the conversation alone; the respond node writes both channels.
LEMMA PatchesKeepSummary ==
    ASSUME NEW v \in Values, Current(v)
    PROVE  /\ \A r \in Runs : Current([v EXCEPT !.run = r])
           /\ Current(Reset(v)) /\ Current(Recorded(v))
           /\ \A route \in Routes : Current([v EXCEPT !.route = route])
           /\ \A out \in Outcome : Current([v EXCEPT !.out = out])
           /\ \A result : \A retry : Current(Reviewed(v, result, retry))
           /\ \A result : \A r \in Runs : Current(Rejected(v, result, r))
<1> USE DEF Values, Current
<1>1. Current(Reset(v))
  BY DEF Reset
<1>2. Current(Recorded(v))
  BY DEF Recorded
<1>3. \A result : \A retry : Current(Reviewed(v, result, retry))
  BY DEF Reviewed
<1>4. \A result : \A r \in Runs : Current(Rejected(v, result, r))
  BY DEF Rejected
<1> QED BY <1>1, <1>2, <1>3, <1>4

LEMMA AdvanceSummary ==
    ASSUME TypeInv, SummaryInv, NEW r \in Runs, NEW next, NEW v, NEW evs, Current(v),
           Advance(r, next, v, evs)
    PROVE  SummaryInv'
<1>1. CASE UNCHANGED <<state, saved>>
  BY <1>1 DEF SummaryInv, Current
<1>2. CASE state' = [state EXCEPT ![r] = v] /\ saved' = [saved EXCEPT ![Thread(r)] = v]
  <2>1. /\ \A q \in Runs : state'[q] = v \/ state'[q] = state[q]
        /\ \A t \in Threads : saved'[t] = v \/ saved'[t] = saved[t]
    BY <1>2 DEF TypeInv, TypeOK
  <2> QED BY <2>1 DEF SummaryInv, Current
<1> QED BY <1>1, <1>2 DEF Advance

\* Each step of a run.
LEMMA StepSummary ==
    ASSUME TypeInv, SummaryInv, NEW r \in Runs, Begin(r) \/ Step(r)
    PROVE  SummaryInv'
<1>0. /\ state[r] \in Values /\ Current(state[r])
      /\ saved[Thread(r)] \in Values /\ Current(saved[Thread(r)])
  BY DEF SummaryInv, Thread, TypeInv, TypeOK
<1>1. CASE Begin(r)
  BY <1>0, <1>1, AdvanceSummary, PatchesKeepSummary DEF Begin
<1>2. CASE Prepare(r)
  BY <1>0, <1>2, AdvanceSummary, PatchesKeepSummary DEF Prepare
<1>3. CASE RouteStep(r)
  BY <1>0, <1>3, AdvanceSummary, PatchesKeepSummary, InputAssumption DEF RouteStep
<1>4. CASE Skill(r)
  <2>1. PICK o \in SkillOutcomes[state[r].route] :
            Advance(r, "review", [state[r] EXCEPT !.out = Signed(o, r)],
                    OutcomeEvents(Signed(o, r)))
    BY <1>4 DEF Skill
  <2>2. Signed(o, r) \in Outcome
    BY <1>0, <1>4, SkillOutcomeType, SignedType DEF Skill
  <2> QED BY <1>0, <2>1, <2>2, AdvanceSummary, PatchesKeepSummary
<1>5. CASE Clarify(r)
  BY <1>0, <1>5, AdvanceSummary, PatchesKeepSummary, PromptType DEF Clarify
<1>6. CASE ReviewPasses(r)
  BY <1>0, <1>6, AdvanceSummary, PatchesKeepSummary DEF ReviewPasses
<1>7. CASE ReviewRefuses(r)
  BY <1>0, <1>7, AdvanceSummary, PatchesKeepSummary DEF ReviewRefuses
<1>8. CASE ReviewRetries(r)
  <2>1. PICK o \in SkillOutcomes[state[r].route] :
            Advance(r, "respond", Retried(r, o), ReviewEvents(Retried(r, o), TRUE))
    BY <1>8 DEF ReviewRetries
  <2>2. state[r].route # "clarify"
    BY <1>8 DEF ReviewRetries, TypeInv, OwnRunId
  <2>3. Signed(o, r) \in Outcome
    BY <1>0, <2>2, SkillOutcomeType, SignedType
  <2> DEFINE v == [state[r] EXCEPT !.out = Signed(o, r)]
  <2>4. v \in Values /\ Current(v)
    BY <1>0, <2>3, PatchType, PatchesKeepSummary, RoutesNotEmpty
  <2> HIDE DEF v
  <2>5. \A result : Current(Reviewed(v, result, 1))
    BY <2>4, PatchesKeepSummary
  <2>6. Current(Retried(r, o))
    BY <1>0, <2>5, PatchesKeepSummary DEF Retried, v
  <2> QED BY <2>1, <2>6, AdvanceSummary
<1>9. CASE Respond(r)
  BY <1>0, <1>9, AdvanceSummary, PatchesKeepSummary DEF Respond
<1>10. CASE Finish(r) \/ Audit(r) \/ AuditFails(r) \/ Deliver(r) \/ Leave(r) \/ Fail(r)
  BY <1>10 DEF Finish, Audit, AuditFails, Deliver, Leave, Fail, SummaryInv, Current
<1> QED
  BY <1>1, <1>2, <1>3, <1>4, <1>5, <1>6, <1>7, <1>8, <1>9, <1>10 DEF Step, ReviewStep

\* workflow.py, _prepare and _respond: the summary that the Router is given, and the one a
\* turn leaves behind, quotes the latest turns of the history beside it, whoever put the
\* checkpoint the run began with.
THEOREM AlwaysSummaryCurrent == Spec => []SummaryCurrent
<1>1. Init => SummaryInv
  BY NothingToQuote DEF Init, SummaryInv
<1>2. TypeInv /\ SummaryInv /\ [Next]_vars => SummaryInv'
  <2> SUFFICES ASSUME TypeInv, SummaryInv, [Next]_vars PROVE SummaryInv'
    OBVIOUS
  <2>1. CASE Crash
    BY <2>1, NothingToQuote DEF Crash, SummaryInv, Current
  <2>2. CASE UNCHANGED vars
    BY <2>2 DEF vars, SummaryInv, Current
  <2> QED BY <2>1, <2>2, StepSummary DEF Next, Terminated
<1>3. SummaryInv => SummaryCurrent
  BY DEF SummaryInv, Current, SummaryCurrent
<1> QED BY <1>1, <1>2, <1>3, AlwaysTypeInv, PTL DEF Spec

-----------------------------------------------------------------------------
(***************************************************************************)
(* Without overlap on a thread, every step of AgentWorkflow is a step of   *)
(* Conversation or leaves its variables alone: beginning a run asks the    *)
(* question, the respond node records the turn, handing the answer over    *)
(* replies, and whatever ends a run early loses it.                        *)
(***************************************************************************)
\* The variables of Conversation, as AgentWorkflow maps them.
AskedOn == [r \in Runs |-> Thread(r)]
Phases == [r \in Runs |-> Phase(r)]
TurnsMade == [r \in Runs |-> CASE Phase(r) = "recorded" -> TurnOf(state[r])
                               [] Phase(r) = "replied" -> TurnOf(reply[r])
                               [] OTHER -> NoTurn]
Remembered == [t \in Threads |-> saved[t].history]
Replies == [r \in Runs |-> IF pc[r] = "done" THEN TurnOf(reply[r]) ELSE NoTurn]

\* The same for one run, of its place, its values and its reply.
PhaseAt(p) ==
    CASE p = "idle" -> "waiting"
      [] p \in Nodes -> "running"
      [] p \in {"finish", "audit", "deliver"} -> "recorded"
      [] p = "done" -> "replied"
      [] OTHER -> "lost"
TurnAt(p, v, a) ==
    CASE PhaseAt(p) = "recorded" -> TurnOf(v)
      [] PhaseAt(p) = "replied" -> TurnOf(a)
      [] OTHER -> NoTurn
ReplyAt(p, a) == IF p = "done" THEN TurnOf(a) ELSE NoTurn

LEMMA PhasesAt ==
    /\ PhaseAt("idle") = "waiting" /\ PhaseAt("done") = "replied"
    /\ \A p \in Nodes : PhaseAt(p) = "running"
    /\ \A p \in {"finish", "audit", "deliver"} : PhaseAt(p) = "recorded"
    /\ \A p \in {"failed", "gone", "lost"} : PhaseAt(p) = "lost"
BY DEF PhaseAt, Nodes

\* A step of one run changes the abstract state of no other.
LEMMA OneRunSteps ==
    ASSUME NEW r \in Runs, request' = request,
           \A q \in Runs \ {r} :
               pc'[q] = pc[q] /\ state'[q] = state[q] /\ reply'[q] = reply[q]
    PROVE  /\ AskedOn' = AskedOn
           /\ Phases' = [Phases EXCEPT ![r] = PhaseAt(pc'[r])]
           /\ TurnsMade' = [TurnsMade EXCEPT ![r] = TurnAt(pc'[r], state'[r], reply'[r])]
           /\ Replies' = [Replies EXCEPT ![r] = ReplyAt(pc'[r], reply'[r])]
<1>1. AskedOn' = AskedOn
  BY DEF AskedOn, Thread
<1>2. /\ \A q \in Runs : Phase(q) = PhaseAt(pc[q])
      /\ \A q \in Runs : Phase(q)' = PhaseAt(pc'[q])
  BY DEF Phase, PhaseAt
<1>3. Phases' = [Phases EXCEPT ![r] = PhaseAt(pc'[r])]
  BY <1>2 DEF Phases
<1>4. /\ TurnsMade = [q \in Runs |-> TurnAt(pc[q], state[q], reply[q])]
      /\ TurnsMade' = [q \in Runs |-> TurnAt(pc'[q], state'[q], reply'[q])]
  BY <1>2 DEF TurnsMade, TurnAt
<1>5. TurnsMade' = [TurnsMade EXCEPT ![r] = TurnAt(pc'[r], state'[r], reply'[r])]
  BY <1>4
<1>6. Replies' = [Replies EXCEPT ![r] = ReplyAt(pc'[r], reply'[r])]
  BY DEF Replies, ReplyAt
<1> QED BY <1>1, <1>3, <1>5, <1>6

\* The abstract state of one run.
LEMMA AbstractRun ==
    ASSUME NEW r \in Runs
    PROVE  /\ AskedOn[r] = Thread(r)
           /\ Phases[r] = PhaseAt(pc[r])
           /\ TurnsMade[r] = TurnAt(pc[r], state[r], reply[r])
           /\ Replies[r] = ReplyAt(pc[r], reply[r])
BY DEF AskedOn, Phases, TurnsMade, Replies, Phase, PhaseAt, TurnAt, ReplyAt

\* Writing what a function of the runs already has changes nothing.
LEMMA WritingTheSame ==
    ASSUME NEW r \in Runs
    PROVE  /\ \A x : x = Phases[r] => [Phases EXCEPT ![r] = x] = Phases
           /\ \A x : x = TurnsMade[r] => [TurnsMade EXCEPT ![r] = x] = TurnsMade
           /\ \A x : x = Replies[r] => [Replies EXCEPT ![r] = x] = Replies
<1>1. /\ Phases = [q \in Runs |-> Phases[q]]
      /\ TurnsMade = [q \in Runs |-> TurnsMade[q]]
      /\ Replies = [q \in Runs |-> Replies[q]]
  BY DEF Phases, TurnsMade, Replies
<1>2. ASSUME NEW f, f = [q \in Runs |-> f[q]], NEW x, x = f[r]
      PROVE  [f EXCEPT ![r] = x] = f
  BY <1>2
<1> QED BY <1>1, <1>2

\* The actions of Conversation in these words.
LEMMA AbstractActions ==
    ASSUME NEW r \in Runs
    PROVE  /\ Promise!Ask(r) <=>
                 /\ Phases[r] = "waiting"
                 /\ ~\E q \in Runs : /\ AskedOn[q] = AskedOn[r]
                                     /\ Phases[q] \in {"running", "recorded"}
                 /\ Phases' = [Phases EXCEPT ![r] = "running"]
                 /\ UNCHANGED <<AskedOn, TurnsMade, Remembered, Replies>>
           /\ Promise!Record(r) <=>
                 /\ Phases[r] = "running"
                 /\ \E status \in Statuses :
                       LET new == [run |-> r, status |-> status]
                       IN  /\ TurnsMade' = [TurnsMade EXCEPT ![r] = new]
                           /\ Remembered' = [Remembered EXCEPT
                                 ![AskedOn[r]] = LastOf(Append(@, new), HistoryLimit)]
                 /\ Phases' = [Phases EXCEPT ![r] = "recorded"]
                 /\ UNCHANGED <<AskedOn, Replies>>
           /\ Promise!Reply(r) <=>
                 /\ Phases[r] = "recorded"
                 /\ Replies' = [Replies EXCEPT ![r] = TurnsMade[r]]
                 /\ Phases' = [Phases EXCEPT ![r] = "replied"]
                 /\ UNCHANGED <<AskedOn, TurnsMade, Remembered>>
           /\ Promise!Lose(r) <=>
                 /\ Phases[r] \in {"waiting", "running", "recorded"}
                 /\ Phases' = [Phases EXCEPT ![r] = "lost"]
                 /\ TurnsMade' = [TurnsMade EXCEPT ![r] = NoTurn]
                 /\ UNCHANGED <<AskedOn, Remembered, Replies>>
BY DEF Promise!Ask, Promise!Busy, Promise!Record, Promise!LastTurns, Promise!Reply,
       Promise!Lose, AskedOn, Phases, TurnsMade, Remembered, Replies, LastOf

-----------------------------------------------------------------------------
\* The response of a run is what the run ended with.
OwnInv(r) == pc[r] \in {"audit", "deliver"} => final[r] = state[r]

\* Each step keeps it, given that the thread's checkpoint is the run's own.
LEMMA StepOwn ==
    ASSUME TypeInv, \A q \in Runs : SerialInv(q) /\ OwnInv(q), NEW r \in Runs,
           Begin(r) \/ Step(r)
    PROVE  \A q \in Runs : OwnInv(q)'
<1>1. ASSUME NEW q \in Runs \ {r} PROVE OwnInv(q)'
  BY <1>1, StepIsLocal DEF OwnInv
<1>2. OwnInv(r)'
  <2>1. ASSUME NEW next, next \in {"finish"} \cup Nodes, NEW v, NEW evs,
               Advance(r, next, v, evs)
        PROVE  OwnInv(r)'
    <3>1. pc'[r] \in {"finish", "gone"} \cup Nodes
      BY <2>1, AdvanceCases
    <3> QED BY <3>1 DEF OwnInv, Nodes
  <2>2. CASE Begin(r) \/ Prepare(r) \/ RouteStep(r) \/ Skill(r) \/ Clarify(r) \/ Respond(r)
    BY <2>1, <2>2 DEF Begin, Prepare, RouteStep, Skill, Clarify, Respond, Nodes
  <2>3. CASE ReviewStep(r)
    BY <2>1, <2>3 DEF ReviewStep, ReviewPasses, ReviewRefuses, ReviewRetries, Nodes
  <2>4. CASE Finish(r)
    <3>1. final'[r] = Response(r) /\ state' = state /\ Response(r) = state[r]
      BY <2>4 DEF Finish, Response, SerialInv, TypeInv, TypeOK
    <3> QED BY <3>1 DEF OwnInv
  <2>5. CASE Audit(r)
    BY <2>5 DEF Audit, OwnInv
  <2>6. CASE AuditFails(r) \/ Deliver(r) \/ Leave(r) \/ Fail(r)
    <3>1. pc'[r] \in {"gone", "failed", "done"}
      BY <2>6 DEF AuditFails, Deliver, Leave, Fail, CutShort, TypeInv, TypeOK
    <3> QED BY <3>1 DEF OwnInv
  <2> QED BY <2>2, <2>3, <2>4, <2>5, <2>6 DEF Step
<1> QED BY <1>1, <1>2

LEMMA NextOwn ==
    TypeInv /\ (\A r \in Runs : SerialInv(r) /\ OwnInv(r)) /\ [Next]_vars
        => (\A r \in Runs : OwnInv(r))'
<1> SUFFICES ASSUME TypeInv, \A r \in Runs : SerialInv(r) /\ OwnInv(r), [Next]_vars
             PROVE  \A r \in Runs : OwnInv(r)'
  OBVIOUS
<1>1. CASE Crash
  <2>1. \A r \in Runs : pc'[r] \notin {"audit", "deliver"}
    BY <1>1 DEF Crash, Active, Nodes
  <2> QED BY <2>1 DEF OwnInv
<1>2. CASE UNCHANGED vars
  BY <1>2 DEF vars, OwnInv
<1> QED BY <1>1, <1>2, StepOwn DEF Next, Terminated

-----------------------------------------------------------------------------
\* A run that ends without a reply loses its question.
LEMMA EndingLoses ==
    ASSUME TypeInv, NEW r \in Runs, request' = request, saved' = saved,
           pc[r] \in {"idle"} \cup Active, pc'[r] \in {"failed", "gone"},
           \A q \in Runs \ {r} :
               pc'[q] = pc[q] /\ state'[q] = state[q] /\ reply'[q] = reply[q]
    PROVE  Promise!Lose(r)
<1>1. Phases[r] \in {"waiting", "running", "recorded"} /\ Replies[r] = NoTurn
  BY AbstractRun, PhasesAt DEF Active, ReplyAt, Nodes
<1>2. PhaseAt(pc'[r]) = "lost" /\ ReplyAt(pc'[r], reply'[r]) = NoTurn
  BY PhasesAt DEF ReplyAt
<1>3. TurnAt(pc'[r], state'[r], reply'[r]) = NoTurn
  BY <1>2 DEF TurnAt
<1>4. Replies' = Replies
  BY <1>1, <1>2, OneRunSteps, WritingTheSame
<1>5. Remembered' = Remembered
  BY DEF Remembered
<1> QED BY <1>1, <1>2, <1>3, <1>4, <1>5, OneRunSteps, AbstractActions

\* What the end of a node does to the run and its thread.
LEMMA AdvanceAbstract ==
    ASSUME TypeInv, NEW r \in Runs, NEW next, NEW v, NEW evs, Advance(r, next, v, evs),
           UNCHANGED <<request, reply>>, pc[r] \in {"idle"} \cup Active
    PROVE  \/ Promise!Lose(r)
           \/ /\ pc'[r] = next /\ state'[r] = v
              /\ Remembered' = [Remembered EXCEPT ![Thread(r)] = v.history]
<1>0. \A q \in Runs \ {r} : pc'[q] = pc[q] /\ state'[q] = state[q] /\ reply'[q] = reply[q]
  BY AdvanceCases
<1>1. CASE CutShort(r, evs) /\ UNCHANGED <<state, saved>>
  <2>1. pc'[r] = "gone"
    BY <1>1 DEF CutShort, TypeInv, TypeOK
  <2> QED BY <1>0, <1>1, <2>1, EndingLoses
<1>2. CASE /\ pc' = [pc EXCEPT ![r] = next]
           /\ state' = [state EXCEPT ![r] = v]
           /\ saved' = [saved EXCEPT ![Thread(r)] = v]
  BY <1>2 DEF Remembered, TypeInv, TypeOK
<1> QED BY <1>1, <1>2 DEF Advance

\* A node before the respond node changes nothing that Conversation speaks of.
LEMMA NodesStutter ==
    ASSUME TypeInv, NEW r \in Runs, SerialInv(r), NEW next \in Nodes, NEW v, NEW evs,
           Advance(r, next, v, evs), UNCHANGED <<request, reply>>, pc[r] \in Nodes,
           v.history = state[r].history
    PROVE  Promise!Lose(r) \/ UNCHANGED Promise!vars
<1>0. /\ pc[r] \in Active /\ Thread(r) \in Threads
      /\ Remembered[Thread(r)] = v.history
  BY DEF Active, Nodes, SerialInv, Remembered, TypeInv, TypeOK
<1> SUFFICES ASSUME pc'[r] = next, state'[r] = v,
                    Remembered' = [Remembered EXCEPT ![Thread(r)] = v.history]
             PROVE  UNCHANGED Promise!vars
  BY <1>0, AdvanceAbstract
<1>1. \A q \in Runs \ {r} : pc'[q] = pc[q] /\ state'[q] = state[q] /\ reply'[q] = reply[q]
  BY AdvanceCases
<1>2. Phases[r] = "running" /\ PhaseAt(pc'[r]) = "running"
  BY AbstractRun, PhasesAt
<1>3. /\ TurnsMade[r] = NoTurn /\ TurnAt(pc'[r], state'[r], reply'[r]) = NoTurn
      /\ Replies[r] = NoTurn /\ ReplyAt(pc'[r], reply'[r]) = NoTurn
  BY <1>2, AbstractRun DEF TurnAt, ReplyAt, Nodes
<1>4. AskedOn' = AskedOn /\ Phases' = Phases /\ TurnsMade' = TurnsMade /\ Replies' = Replies
  BY <1>1, <1>2, <1>3, OneRunSteps, WritingTheSame
<1>5. Remembered' = Remembered
  BY <1>0 DEF Remembered
<1> QED BY <1>4, <1>5 DEF Promise!vars, AskedOn, Phases, TurnsMade, Remembered, Replies

-----------------------------------------------------------------------------
LEMMA BeginAsks ==
    ASSUME ~Overlap, TypeInv, NEW r \in Runs, Begin(r)
    PROVE  Promise!Ask(r) \/ Promise!Lose(r)
<1> DEFINE v == [saved[Thread(r)] EXCEPT !.run = r]
<1>0. /\ pc[r] = "idle" /\ Quiet(r) /\ UNCHANGED <<request, reply>>
      /\ Advance(r, "prepare", v, <<Notice("run_started")>>)
      /\ Thread(r) \in Threads /\ saved[Thread(r)] \in Values
  BY DEF Begin, TypeInv, TypeOK
<1>1. v.history = Remembered[Thread(r)]
  BY <1>0 DEF Values, Remembered
<1> HIDE DEF v
<1> SUFFICES ASSUME pc'[r] = "prepare", state'[r] = v,
                    Remembered' = [Remembered EXCEPT ![Thread(r)] = v.history]
             PROVE  Promise!Ask(r)
  BY <1>0, AdvanceAbstract
<1>2. \A q \in Runs \ {r} : pc'[q] = pc[q] /\ state'[q] = state[q] /\ reply'[q] = reply[q]
  BY <1>0, AdvanceCases
<1>3. Phases[r] = "waiting" /\ PhaseAt(pc'[r]) = "running"
  BY <1>0, AbstractRun, PhasesAt DEF Nodes
<1>4. /\ TurnsMade[r] = NoTurn /\ TurnAt(pc'[r], state'[r], reply'[r]) = NoTurn
      /\ Replies[r] = NoTurn /\ ReplyAt(pc'[r], reply'[r]) = NoTurn
  BY <1>0, <1>3, AbstractRun DEF TurnAt, ReplyAt
<1>5. /\ AskedOn' = AskedOn /\ Phases' = [Phases EXCEPT ![r] = "running"]
      /\ TurnsMade' = TurnsMade /\ Replies' = Replies
  BY <1>0, <1>2, <1>3, <1>4, OneRunSteps, WritingTheSame
<1>6. Remembered' = Remembered
  BY <1>0, <1>1 DEF Remembered
<1>7. ASSUME NEW q \in Runs, AskedOn[q] = AskedOn[r], Phases[q] \in {"running", "recorded"}
      PROVE  FALSE
  <2>1. q # r /\ Thread(q) = Thread(r)
    BY <1>3, <1>7, AbstractRun
  <2>2. pc[q] \notin Active
    BY <1>0, <2>1 DEF Quiet
  <2>3. pc[q] \in {"idle", "done", "failed", "gone", "lost"}
    BY <2>2 DEF TypeInv, TypeOK, Active, Ended
  <2> QED BY <1>7, <2>3, AbstractRun, PhasesAt
<1> QED BY <1>3, <1>5, <1>6, <1>7, AbstractActions

LEMMA RespondRecords ==
    ASSUME TypeInv, NEW r \in Runs, SerialInv(r), Respond(r)
    PROVE  Promise!Record(r) \/ Promise!Lose(r)
<1>0. /\ pc[r] = "respond" /\ UNCHANGED <<request, reply>>
      /\ Advance(r, "finish", Recorded(state[r]), <<>>)
      /\ Thread(r) \in Threads /\ state[r] \in Values /\ state[r].run = r
      /\ saved[Thread(r)] = state[r]
  BY OwnValues DEF Respond, SerialInv, TypeInv, TypeOK, Active, Nodes
<1> DEFINE v == Recorded(state[r])
           new == [run |-> r, status |-> state[r].out.status]
<1> SUFFICES ASSUME pc'[r] = "finish", state'[r] = v,
                    Remembered' = [Remembered EXCEPT ![Thread(r)] = v.history]
             PROVE  Promise!Record(r)
  BY <1>0, AdvanceAbstract DEF Active, Nodes
<1>1. \A q \in Runs \ {r} : pc'[q] = pc[q] /\ state'[q] = state[q] /\ reply'[q] = reply[q]
  BY <1>0, AdvanceCases
<1>2. Phases[r] = "running" /\ PhaseAt(pc'[r]) = "recorded"
  BY <1>0, AbstractRun, PhasesAt DEF Nodes
<1>3. state[r].out.status \in Statuses /\ TurnOf(v) = new
  BY <1>0, RecordedType DEF Values, Outcome, TurnOf
<1>4. v.history = LastOf(Append(Remembered[Thread(r)], new), HistoryLimit)
  BY <1>0 DEF Recorded, Remembered, Values
<1> HIDE DEF v, new
<1>5. /\ TurnAt(pc'[r], state'[r], reply'[r]) = new
      /\ Replies[r] = NoTurn /\ ReplyAt(pc'[r], reply'[r]) = NoTurn
  BY <1>0, <1>2, <1>3, AbstractRun DEF TurnAt, ReplyAt
<1>6. /\ AskedOn' = AskedOn /\ Phases' = [Phases EXCEPT ![r] = "recorded"]
      /\ TurnsMade' = [TurnsMade EXCEPT ![r] = new] /\ Replies' = Replies
  BY <1>0, <1>1, <1>2, <1>5, OneRunSteps, WritingTheSame
<1>7. Remembered' = [Remembered EXCEPT
          ![AskedOn[r]] = LastOf(Append(@, new), HistoryLimit)]
  BY <1>0, <1>4, AbstractRun DEF Remembered
<1>8. \E status \in Statuses :
          LET turn == [run |-> r, status |-> status]
          IN  /\ TurnsMade' = [TurnsMade EXCEPT ![r] = turn]
              /\ Remembered' = [Remembered EXCEPT
                    ![AskedOn[r]] = LastOf(Append(@, turn), HistoryLimit)]
  BY <1>3, <1>6, <1>7 DEF new
<1> QED BY <1>2, <1>6, <1>8, AbstractActions

LEMMA DeliverReplies ==
    ASSUME TypeInv, NEW r \in Runs, OwnInv(r), Deliver(r)
    PROVE  Promise!Reply(r)
<1>0. /\ pc[r] = "deliver" /\ pc'[r] = "done" /\ reply'[r] = state[r]
      /\ UNCHANGED <<request, state, saved>>
      /\ \A q \in Runs \ {r} : pc'[q] = pc[q] /\ state'[q] = state[q] /\ reply'[q] = reply[q]
  BY DEF Deliver, OwnInv, TypeInv, TypeOK
<1>1. Phases[r] = "recorded" /\ PhaseAt(pc'[r]) = "replied"
  BY <1>0, AbstractRun, PhasesAt
<1>2. /\ TurnsMade[r] = TurnOf(state[r])
      /\ TurnAt(pc'[r], state'[r], reply'[r]) = TurnOf(state[r])
      /\ ReplyAt(pc'[r], reply'[r]) = TurnOf(state[r])
  BY <1>0, <1>1, AbstractRun DEF TurnAt, ReplyAt
<1>3. /\ AskedOn' = AskedOn /\ Phases' = [Phases EXCEPT ![r] = "replied"]
      /\ TurnsMade' = TurnsMade /\ Replies' = [Replies EXCEPT ![r] = TurnsMade[r]]
  BY <1>0, <1>1, <1>2, OneRunSteps, WritingTheSame
<1>4. Remembered' = Remembered
  BY <1>0 DEF Remembered
<1> QED BY <1>1, <1>3, <1>4, AbstractActions

\* Building the response and auditing it is not seen from outside.
LEMMA AuditingStutters ==
    ASSUME TypeInv, NEW r \in Runs, Finish(r) \/ Audit(r)
    PROVE  UNCHANGED Promise!vars
<1>0. /\ pc[r] \in {"finish", "audit", "deliver"} /\ pc'[r] \in {"finish", "audit", "deliver"}
      /\ UNCHANGED <<request, state, saved, reply>>
      /\ \A q \in Runs \ {r} : pc'[q] = pc[q] /\ state'[q] = state[q] /\ reply'[q] = reply[q]
  BY DEF Finish, Audit, TypeInv, TypeOK
<1>1. Phases[r] = "recorded" /\ PhaseAt(pc'[r]) = "recorded"
  BY <1>0, AbstractRun, PhasesAt
<1>2. /\ TurnAt(pc'[r], state'[r], reply'[r]) = TurnsMade[r]
      /\ ReplyAt(pc'[r], reply'[r]) = Replies[r]
  BY <1>0, <1>1, AbstractRun DEF TurnAt, ReplyAt
<1>3. AskedOn' = AskedOn /\ Phases' = Phases /\ TurnsMade' = TurnsMade /\ Replies' = Replies
  BY <1>0, <1>1, <1>2, OneRunSteps, WritingTheSame
<1>4. Remembered' = Remembered
  BY <1>0 DEF Remembered
<1> QED BY <1>3, <1>4 DEF Promise!vars, AskedOn, Phases, TurnsMade, Remembered, Replies

\* A restart forgets the conversations and loses what was under way.
LEMMA CrashRestarts ==
    ASSUME TypeInv, Crash
    PROVE  Promise!Restart
<1>0. /\ UNCHANGED <<request, reply>>
      /\ \A q \in Runs : pc'[q] = IF pc[q] \in Active THEN "lost" ELSE pc[q]
      /\ \A t \in Threads : saved'[t] = NoValues
  BY DEF Crash, TypeInv, TypeOK
<1>1. AskedOn' = AskedOn
  BY <1>0 DEF AskedOn
<1>2. \A q \in Runs : /\ Phase(q) = PhaseAt(pc[q]) /\ Phase(q)' = PhaseAt(pc'[q])
                      /\ Phases[q] = PhaseAt(pc[q])
  BY DEF Phase, PhaseAt, Phases
<1>3. ASSUME NEW q \in Runs
      PROVE  /\ PhaseAt(pc'[q]) = IF Phases[q] \in {"running", "recorded"} THEN "lost"
                                  ELSE Phases[q]
             /\ TurnAt(pc'[q], state'[q], reply'[q])
                    = IF Phases[q] = "replied" THEN TurnsMade[q] ELSE NoTurn
             /\ ReplyAt(pc'[q], reply'[q]) = Replies[q]
  <2>1. CASE pc[q] \in Active
    <3>1. pc'[q] = "lost" /\ Phases[q] \in {"running", "recorded"}
      BY <1>0, <1>2, <2>1, PhasesAt DEF Active
    <3>2. Replies[q] = NoTurn
      BY <2>1, AbstractRun DEF ReplyAt, Active, Nodes
    <3> QED BY <3>1, <3>2, PhasesAt DEF TurnAt, ReplyAt
  <2>2. CASE pc[q] = "done"
    <3>1. pc'[q] = "done" /\ Phases[q] = "replied" /\ reply'[q] = reply[q]
      BY <1>0, <1>2, <2>2, PhasesAt DEF Active, Nodes
    <3>2. TurnsMade[q] = TurnOf(reply[q]) /\ Replies[q] = TurnOf(reply[q])
      BY <1>2, <2>2, <3>1, AbstractRun DEF TurnAt, ReplyAt
    <3> QED BY <3>1, <3>2, PhasesAt DEF TurnAt, ReplyAt
  <2>3. CASE pc[q] \in {"idle", "failed", "gone", "lost"}
    <3>1. pc'[q] = pc[q] /\ Phases[q] \in {"waiting", "lost"}
      BY <1>0, <1>2, <2>3, PhasesAt DEF Active, Nodes
    <3>2. Replies[q] = NoTurn
      BY <2>3, AbstractRun DEF ReplyAt
    <3> QED BY <1>2, <2>3, <3>1, <3>2 DEF TurnAt, ReplyAt
  <2> QED BY <2>1, <2>2, <2>3 DEF TypeInv, TypeOK, Ended
<1>4. /\ Phases' = [q \in Runs |-> PhaseAt(pc'[q])]
      /\ TurnsMade' = [q \in Runs |-> TurnAt(pc'[q], state'[q], reply'[q])]
      /\ Replies' = [q \in Runs |-> ReplyAt(pc'[q], reply'[q])]
  BY <1>2 DEF Phases, TurnsMade, Replies, TurnAt, ReplyAt
<1>5. /\ Phases' = [q \in Runs |-> IF Phases[q] \in {"running", "recorded"} THEN "lost"
                                   ELSE Phases[q]]
      /\ TurnsMade' = [q \in Runs |-> IF Phases[q] = "replied" THEN TurnsMade[q] ELSE NoTurn]
      /\ Replies' = [q \in Runs |-> Replies[q]]
  BY <1>3, <1>4
<1>6. Replies' = Replies
  BY <1>5 DEF Replies
<1>7. Remembered' = [t \in Threads |-> <<>>]
  BY <1>0 DEF Remembered, NoValues
<1> QED
  BY <1>1, <1>5, <1>6, <1>7
  DEF Promise!Restart, AskedOn, Phases, TurnsMade, Remembered, Replies

\* No question has been asked.
LEMMA InitAbstract == Init => Promise!Init
<1> SUFFICES ASSUME Init PROVE Promise!Init
  OBVIOUS
<1>0. /\ \A r \in Runs : pc[r] = "idle" /\ Thread(r) \in Threads
      /\ \A t \in Threads : saved[t] = NoValues
  BY DEF Init
<1>1. AskedOn \in [Runs -> Threads]
  BY <1>0 DEF AskedOn
<1>2. Phases = [r \in Runs |-> "waiting"]
  <2>1. \A r \in Runs : Phase(r) = "waiting"
    BY <1>0 DEF Phase, Nodes
  <2> QED BY <2>1 DEF Phases
<1>3. TurnsMade = [r \in Runs |-> NoTurn]
  BY <1>0 DEF TurnsMade, Phase
<1>4. Replies = [r \in Runs |-> NoTurn]
  BY <1>0 DEF Replies
<1>5. Remembered = [t \in Threads |-> <<>>]
  BY <1>0 DEF Remembered, NoValues
<1> QED
  BY <1>1, <1>2, <1>3, <1>4, <1>5
  DEF Promise!Init, AskedOn, Phases, TurnsMade, Remembered, Replies

\* Each step of a run is a step of its conversation, or is not seen there.
LEMMA StepRefines ==
    ASSUME ~Overlap, TypeInv, NEW r \in Runs, SerialInv(r), OwnInv(r), Begin(r) \/ Step(r)
    PROVE  \/ Promise!Ask(r) \/ Promise!Record(r) \/ Promise!Reply(r) \/ Promise!Lose(r)
           \/ UNCHANGED Promise!vars
<1>0. state[r] \in Values
  BY DEF TypeInv, TypeOK
<1>1. CASE Begin(r)
  BY <1>1, BeginAsks
<1>2. CASE Prepare(r) \/ RouteStep(r) \/ Skill(r) \/ Clarify(r)
  <2>1. /\ Reset(state[r]).history = state[r].history
        /\ \A route : [state[r] EXCEPT !.route = route].history = state[r].history
        /\ \A out : [state[r] EXCEPT !.out = out].history = state[r].history
    BY <1>0 DEF Reset, Values
  <2> QED
    BY <1>2, <2>1, NodesStutter DEF Prepare, RouteStep, Skill, Clarify, Nodes
<1>3. CASE ReviewStep(r)
  <2>1. /\ \A result, retry : Reviewed(state[r], result, retry).history = state[r].history
        /\ \A result : Rejected(state[r], result, r).history = state[r].history
    BY <1>0 DEF Reviewed, Rejected, Values
  <2>2. \A o : Retried(r, o).history = state[r].history
    <3> SUFFICES ASSUME NEW o PROVE Retried(r, o).history = state[r].history
      OBVIOUS
    <3> DEFINE v == [state[r] EXCEPT !.out = Signed(o, r)]
    <3>1. \A result : Reviewed(v, result, 1).history = state[r].history
      BY <1>0 DEF Reviewed, Values
    <3> HIDE DEF v
    <3> QED BY <2>1, <3>1 DEF Retried, v
  <2>3. pc[r] = "review"
    BY <1>3 DEF ReviewStep, ReviewPasses, ReviewRefuses, ReviewRetries
  <2> QED
    BY <1>3, <2>1, <2>2, <2>3, NodesStutter
    DEF ReviewStep, ReviewPasses, ReviewRefuses, ReviewRetries, Nodes
<1>4. CASE Respond(r)
  BY <1>4, RespondRecords
<1>5. CASE Finish(r) \/ Audit(r)
  BY <1>5, AuditingStutters
<1>6. CASE AuditFails(r) \/ Leave(r) \/ Fail(r)
  <2>1. /\ UNCHANGED <<request, state, reply, saved>>
        /\ pc[r] \in Active
        /\ pc'[r] \in {"failed", "gone"} /\ \A q \in Runs \ {r} : pc'[q] = pc[q]
    BY <1>6 DEF AuditFails, Leave, Fail, CutShort, Active, Nodes, TypeInv, TypeOK
  <2> QED BY <2>1, EndingLoses
<1>7. CASE Deliver(r)
  BY <1>7, DeliverReplies
<1> QED BY <1>1, <1>2, <1>3, <1>4, <1>5, <1>6, <1>7 DEF Step

\* workflow.py and routes.py: where a thread has one request at a time, whatever the agent
\* does is a step of Conversation or stays inside the agent, failures, clients that leave and
\* restarts included: a reply is the turn recorded for that very question, and the thread
\* remembers its last turns in order.
THEOREM RefinesConversation ==
    ASSUME ~Overlap
    PROVE  Spec => Promise!Init /\ [][Promise!Next]_(Promise!vars)
<1>1. Init => \A r \in Runs : OwnInv(r)
  BY DEF Init, OwnInv
<1>2. TypeInv /\ (\A r \in Runs : SerialInv(r)) /\ (\A r \in Runs : OwnInv(r)) /\ [Next]_vars
         => (\A r \in Runs : OwnInv(r))'
  BY NextOwn
<1>3. Spec => [](\A r \in Runs : OwnInv(r))
  BY <1>1, <1>2, AlwaysTypeInv, AlwaysSerialInv, PTL DEF Spec
<1>4. TypeInv /\ (\A r \in Runs : SerialInv(r)) /\ (\A r \in Runs : OwnInv(r)) /\ [Next]_vars
         => [Promise!Next]_(Promise!vars)
  <2> SUFFICES ASSUME TypeInv, \A r \in Runs : SerialInv(r), \A r \in Runs : OwnInv(r),
                      [Next]_vars
               PROVE  Promise!Next \/ UNCHANGED Promise!vars
    OBVIOUS
  <2>1. CASE Crash
    BY <2>1, CrashRestarts DEF Promise!Next
  <2>2. CASE UNCHANGED vars
    BY <2>2 DEF vars, Promise!vars, Phase, TurnOf
  <2>3. ASSUME NEW r \in Runs, Begin(r) \/ Step(r)
        PROVE  Promise!Next \/ UNCHANGED Promise!vars
    BY <2>3, StepRefines DEF Promise!Next
  <2> QED BY <2>1, <2>2, <2>3 DEF Next, Terminated
<1>5. Init => Promise!Init
  BY InitAbstract
<1> QED BY <1>3, <1>4, <1>5, AlwaysTypeInv, AlwaysSerialInv, PTL DEF Spec
=============================================================================
