----------------------------- MODULE MixedPlan ------------------------------
(***************************************************************************)
(* One pass of the `mixed` node (_mixed, _run_plan_step and                *)
(* _reduce_plan_results of app/graph/workflow.py, WhitelistPlanner of      *)
(* app/skills/planner.py) and the review of its answer.                    *)
(*                                                                         *)
(* The steps of a plan run concurrently and end in any order; gather       *)
(* collects their results, exceptions included, by their place in the      *)
(* plan.  The reducer renumbers the evidence of the steps into one list    *)
(* and rewrites the citations of each text by textual replacement, one     *)
(* evidence item after the other.  The reviewer reads all texts as one,    *)
(* so a bracket that the text of a step leaves open ends in the next one.  *)
(***************************************************************************)
EXTENDS Router, SequencesExt

\* How the step of a skill may end: it answers, declines or raises.  cited is
\* the set of bracketed tokens of its text (see AnswerReview), open says that the
\* last bracket of the text is not closed, size is the number of its evidence
\* items, which a skill numbers from E1.
CONSTANT StepOutcomes

Result == [end : {"answered", "clarify", "raised"},
           cited : SUBSET Nat, open : BOOLEAN, size : Nat]

ASSUME StepOutcomesAssumption == StepOutcomes \in [SkillRoutes -> SUBSET Result]

\* The knowledge skill declines without documents; the others render one evidence
\* item and cite it once, with no other bracket.
ASSUME EvidenceAssumption == \A skill \in SkillRoutes : \A res \in StepOutcomes[skill] :
    res.end = "answered" =>
        /\ res.size >= 1
        /\ skill # "knowledge" => res.size = 1 /\ res.cited = {1} /\ ~res.open

VARIABLES
    topics,   \* the subjects the terms of the query name
    phase,    \* "plan", "run", "review" or "done"
    plan,     \* the steps of the plan, or NoPlan
    results,  \* results[i]: how step i ended, or Running
    order,    \* the steps in the order they ended, which gather hides
    patch,    \* the merged outcome the node writes to the state
    verdict   \* the review of that outcome

vars == <<topics, phase, plan, results, order, patch, verdict>>

\* Mutation: the rules are a complement to the numbers, not a must.
PlanStepOptional(skill) == [skill |-> skill, required |-> skill # "knowledge"]

\* A step of an approved plan; every registered one is required.
PlanStep(skill) == [skill |-> skill, required |-> TRUE]

Topics == {"risk", "stock", "sales"}

\* Mutation: the numbers come first.
PlansDataFirst ==
    [risk  |-> <<PlanStep("inventory_risk"), PlanStep("knowledge")>>,
     stock |-> <<PlanStep("data"), PlanStep("knowledge")>>,
     sales |-> <<PlanStep("data"), PlanStep("knowledge")>>]

\* inventory_risk_with_policy, policy_plus_inventory, policy_plus_sales.
Plans ==
    [risk  |-> <<PlanStep("knowledge"), PlanStep("inventory_risk")>>,
     stock |-> <<PlanStep("knowledge"), PlanStep("data")>>,
     sales |-> <<PlanStep("knowledge"), PlanStep("data")>>]

NoPlan == <<>>
\* WhitelistPlanner.plan: the first subject that matches decides.
PlanFor(named) ==
    CASE "risk" \in named -> Plans.risk
      [] "risk" \notin named /\ "stock" \in named -> Plans.stock
      [] named = {"sales"} -> Plans.sales
      [] named = {} -> NoPlan

Running == [end |-> "running", cited |-> {}, open |-> FALSE, size |-> 0]

NoPatch == [status |-> "clarify", error |-> "NONE", plan |-> NoPlan,
            items |-> <<>>, sections |-> <<>>, failed |-> FALSE]

Init ==
    /\ topics \in {Named(w) : w \in Queries}
    /\ phase = "plan"
    /\ plan = NoPlan
    /\ results = <<>>
    /\ order = <<>>
    /\ patch = NoPatch
    /\ verdict = NoReview

-----------------------------------------------------------------------------
(***************************************************************************)
(* The reducer.                                                            *)
(***************************************************************************)

\* rewritten.replace("[En]", "[E<new>]"), on the tokens a text now has: cites
\* maps each token of the original text to what it has become.
Replace(cites, n, new) ==
    [c \in DOMAIN cites |-> IF cites[c] = n THEN new ELSE cites[c]]

\* The items of a step get the next free numbers, one after the other.
Rewritten(res, offset) ==
    FoldLeft(LAMBDA cites, n : Replace(cites, n, offset + n),
             [c \in res.cited |-> c],
             [n \in 1..res.size |-> n])

ItemsOf(i, res) == [n \in 1..res.size |-> [step |-> i, id |-> n]]

Section(i, offset) ==
    [step |-> i, cites |-> Rewritten(results[i], offset), open |-> results[i].open]

\* Mutation: the last step decides whether the plan has failed.
MergeLastDecides(acc, i) ==
    IF results[i].end # "answered"
    THEN [acc EXCEPT !.failed = plan[i].required]
    ELSE [acc EXCEPT
            !.items = @ \o ItemsOf(i, results[i]),
            !.sections = Append(@, Section(i, Len(acc.items))),
            !.failed = FALSE]

\* One turn of the loop over the steps.
Merge(acc, i) ==
    IF results[i].end # "answered"
    THEN [acc EXCEPT !.failed = @ \/ plan[i].required]
    ELSE [acc EXCEPT
            !.items = @ \o ItemsOf(i, results[i]),
            !.sections = Append(@, Section(i, Len(acc.items)))]

\* Mutation: results are merged as they come in.
PlanOrderAsEnded == order

\* The order in which zip(plan.steps, raw_results) visits the steps.
PlanOrder == [i \in DOMAIN plan |-> i]

\* _reduce_plan_results.  A plan that failed keeps the evidence it has.
Reduced ==
    LET merged == FoldLeft(Merge, [NoPatch EXCEPT !.plan = plan], PlanOrder)
    IN  IF merged.failed \/ merged.sections = <<>>
        THEN [merged EXCEPT !.error = "PLAN_STEP_FAILED", !.sections = <<>>]
        ELSE [merged EXCEPT !.status = "answered"]

-----------------------------------------------------------------------------
\* The query matches no approved plan: nothing is run.
RefuseUnplanned ==
    /\ phase = "plan"
    /\ PlanFor(topics) = NoPlan
    /\ patch' = [NoPatch EXCEPT !.error = "PLAN_NOT_FOUND"]
    /\ phase' = "review"
    /\ UNCHANGED <<topics, plan, results, order, verdict>>

StartSteps ==
    /\ phase = "plan"
    /\ PlanFor(topics) # NoPlan
    /\ plan' = PlanFor(topics)
    /\ results' = [i \in DOMAIN plan' |-> Running]
    /\ phase' = "run"
    /\ UNCHANGED <<topics, order, patch, verdict>>

EndStep(i) ==
    /\ phase = "run"
    /\ results[i] = Running
    /\ \E res \in StepOutcomes[plan[i].skill] : results' = [results EXCEPT ![i] = res]
    /\ order' = Append(order, i)
    /\ UNCHANGED <<topics, phase, plan, patch, verdict>>

\* asyncio.gather(..., return_exceptions=True) waits for every step.
Gathered == \A i \in DOMAIN plan : results[i] # Running

Reduce ==
    /\ phase = "run"
    /\ Gathered
    /\ patch' = Reduced
    /\ phase' = "review"
    /\ UNCHANGED <<topics, plan, results, order, verdict>>

KindOf(skill) ==
    CASE skill = "knowledge" -> "document"
      [] skill = "data" -> "data"
      [] skill = "inventory_risk" -> "risk"

\* The tokens found in section n.  A bracket the section before leaves open takes
\* in all text up to the first closing one: the only citation of a section after
\* the first, which turns into a token that is no evidence id.
Tokens(n) ==
    IF n > 1 /\ patch.sections[n - 1].open
    THEN {0}
    ELSE {patch.sections[n].cites[c] : c \in DOMAIN patch.sections[n].cites}

\* The patch as the reviewer sees it: the answer is all sections together.
Answer ==
    [status |-> patch.status,
     cited  |-> UNION {Tokens(n) : n \in DOMAIN patch.sections},
     kinds  |-> [n \in DOMAIN patch.items |->
                    KindOf(patch.plan[patch.items[n].step].skill)],
     bound  |-> FALSE,
     plan   |-> patch.plan # NoPlan]

ReviewMixed ==
    /\ phase = "review"
    /\ verdict' = Review("mixed", Answer)
    /\ phase' = "done"
    /\ UNCHANGED <<topics, plan, results, order, patch>>

Done == phase = "done" /\ UNCHANGED vars

Next == \/ RefuseUnplanned \/ StartSteps \/ Reduce \/ ReviewMixed \/ Done
        \/ \E i \in DOMAIN plan : EndStep(i)

Spec == Init /\ [][Next]_vars

-----------------------------------------------------------------------------
\* A citation of an evidence item its own step knows still leads to that item
\* after renumbering: replacing one id never rewrites another's new id.
KnownCitationsKeep ==
    \A s \in ToSet(patch.sections) :
        \A c \in DOMAIN s.cites \cap 1..results[s.step].size :
            /\ s.cites[c] \in DOMAIN patch.items
            /\ patch.items[s.cites[c]] = [step |-> s.step, id |-> c]

\* Sections and evidence follow the plan, whichever step ends first.
MergedInPlanOrder ==
    /\ \A m, n \in DOMAIN patch.items :
          m < n => patch.items[m].step <= patch.items[n].step
    /\ \A m, n \in DOMAIN patch.sections :
          m < n => patch.sections[m].step < patch.sections[n].step

\* A mixed answer is an answer only if every step of its plan has answered.
AnsweredMeansAllRequired ==
    patch.status = "answered" =>
        \A i \in DOMAIN plan : results[i].end = "answered"

\* A mixed plan is run a second time just when the text on the rules swallows the
\* citation of the other section and cites nothing of the merged evidence itself: no
\* other outcome of its steps leaves a defect the reviewer calls retryable.
RetriedWhenSwallowed ==
    phase = "done" =>
        (verdict.retryable <=>
            /\ patch.status = "answered"
            /\ results[1].open
            /\ results[1].cited \cap DOMAIN patch.items = {})

\* Rules and planner know the same subjects: a query the rules call mixed has a plan
\* unless its only data terms are figures without a subject, and a question of risk gets
\* the risk plan unless "warning" is its only risk term.  What the language model calls
\* mixed, which it is asked only without any term, has no plan but that of goods in transit.
RulesMeetPlans ==
    phase = "plan" => \A w \in Queries : Named(w) = topics =>
        /\ Rule(w).route = "mixed" =>
              /\ PlanFor(topics) = NoPlan => w \cap DataWords = {"figures"}
              /\ AsksForRisk(w) =>
                    PlanFor(topics) = Plans.risk \/ ~Has(w, {"risk", "named_risk"})
        /\ Rule(w) = NoDecision /\ PlanFor(topics) # NoPlan =>
              PlanFor(topics) = Plans.stock /\ "transit" \in w
=============================================================================
