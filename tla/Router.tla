------------------------------- MODULE Router -------------------------------
(***************************************************************************)
(* The rules of RouterSkill (app/skills/router.py) and the subjects the    *)
(* WhitelistPlanner (app/skills/planner.py) finds in the same query.       *)
(*                                                                         *)
(* A query is the set of the kinds of terms it contains.  Kinds separate   *)
(* the terms that _rule_decision and plan() treat differently: `explain`   *)
(* are the knowledge terms that turn a data word into a question about its *)
(* meaning, `policy` the other ones; `named_risk` a whole risk ("out of    *)
(* stock risk"), `risk` its parts; `stock` and `balance` both are subjects *)
(* of stock, and so is `transit`, which is no data term; `figures` are     *)
(* data terms without a subject (how many, total, year on year, top).      *)
(***************************************************************************)
EXTENDS AnswerReview

KnowledgeWords == {"policy", "explain"}
DataWords == {"named_risk", "risk", "stock", "balance", "sales", "figures"}
Words == KnowledgeWords \cup DataWords \cup {"transit", "warning", "marker", "chatter"}

\* A blank query, a greeting or a bare pronoun has no other term.
Queries == {w \in SUBSET Words : "chatter" \in w => w = {"chatter"}}

Has(w, kinds) == w \cap kinds # {}

\* The condition of the inventory risk route.
AsksForRisk(w) ==
    \/ "named_risk" \in w
    \/ Has(w, {"risk", "warning"}) /\ Has(w, {"stock", "transit"})

Decided(route, confidence) == [route |-> route, confidence |-> confidence]
NoDecision == Decided("none", 0)

\* _rule_decision, with the confidence in percent: the first rule that matches.
Rule(w) ==
    LET known == Has(w, KnowledgeWords)
        data  == Has(w, DataWords)
    IN  IF w = {"chatter"}                      THEN Decided("clarify", 100)
        ELSE IF known /\ data /\ "marker" \in w THEN Decided("mixed", 95)
        ELSE IF AsksForRisk(w)                  THEN Decided("inventory_risk", 97)
        ELSE IF known /\ ~data                  THEN Decided("knowledge", 90)
        ELSE IF data /\ ~known                  THEN Decided("data", 90)
        ELSE IF data /\ "explain" \in w         THEN Decided("knowledge", 85)
        ELSE IF known /\ data                   THEN Decided("data", 80)
        ELSE NoDecision

\* _apply_threshold.
Applied(decision, threshold) ==
    IF decision.confidence < threshold THEN Decided("clarify", decision.confidence)
    ELSE decision

\* Mutation: a stock balance is no subject.
NamedLess(w) ==
    (IF Has(w, {"named_risk", "risk"}) THEN {"risk"} ELSE {})
    \cup (IF Has(w, {"stock", "transit"}) THEN {"stock"} ELSE {})
    \cup (IF "sales" \in w THEN {"sales"} ELSE {})

\* The subjects plan() finds.
Named(w) ==
    (IF Has(w, {"named_risk", "risk"}) THEN {"risk"} ELSE {})
    \cup (IF Has(w, {"stock", "balance", "transit"}) THEN {"stock"} ELSE {})
    \cup (IF "sales" \in w THEN {"sales"} ELSE {})
=============================================================================
