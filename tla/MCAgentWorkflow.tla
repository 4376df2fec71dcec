-------------------------- MODULE MCAgentWorkflow ---------------------------
(***************************************************************************)
(* Small instances of AgentWorkflow.  The outcomes are those the skills    *)
(* can return: knowledge answers with documents and cites at least one     *)
(* token containing an evidence id (_ensure_citations), where "[[E1]]"     *)
(* counts as token 0 and "[E9]" as an unknown id; data answers with one    *)
(* evidence item, whose excerpt holds the first five rows only.  Token 0   *)
(* alone is a mixed answer whose text on the rules swallows the other      *)
(* citation (RetriedWhenSwallowed of MixedPlan).                           *)
(***************************************************************************)
EXTENDS AgentWorkflow, TLC

CONSTANTS r1, r2, r3

Declined == [NoOutcome EXCEPT !.text = "skill"]
Answered(cited, kinds, bound, plan) ==
    [by |-> NoRun, text |-> "skill", status |-> "answered", cited |-> cited,
     kinds |-> kinds, bound |-> bound, plan |-> plan]

Doc == <<"document">>

KnowledgeOutcomes == {Declined, Answered({1}, Doc, TRUE, FALSE),
                      Answered({0}, Doc, TRUE, FALSE),
                      Answered({1, 9}, Doc, TRUE, FALSE)}
DataOutcomes == {Declined, Answered({1}, <<"data">>, TRUE, FALSE),
                 Answered({1}, <<"data">>, FALSE, FALSE)}
RiskOutcomes == {Answered({1}, <<"risk">>, TRUE, FALSE)}
MixedOutcomes == {Declined,
                  [Declined EXCEPT !.kinds = Doc, !.plan = TRUE],
                  Answered({1, 2}, <<"document", "data">>, TRUE, TRUE),
                  Answered({0, 2}, <<"document", "data">>, TRUE, TRUE),
                  Answered({0}, <<"document", "data">>, TRUE, TRUE)}

OutcomesOf == [route \in SkillRoutes |->
                 CASE route = "knowledge"      -> KnowledgeOutcomes
                   [] route = "data"           -> DataOutcomes
                   [] route = "inventory_risk" -> RiskOutcomes
                   [] OTHER                    -> MixedOutcomes]

\* Fewer outcomes where the run is about something else.
FewOutcomes == [route \in SkillRoutes |->
                  IF route = "knowledge"
                  THEN {Answered({1}, Doc, TRUE, FALSE),
                        Answered({0}, Doc, TRUE, FALSE)}
                  ELSE OutcomesOf[route]]

\* Nothing is retried: an answer that passes, one that is refused.
PlainOutcomes == [route \in SkillRoutes |->
                    {Answered({1}, Doc, TRUE, FALSE),
                     Answered({1, 9}, Doc, TRUE, FALSE)}]

KnowledgeOnly == {"knowledge"}
OverlapRoutes == {"knowledge", "clarify"}
AllRoutes == Routes
Symmetry == Permutations(Runs)
=============================================================================
