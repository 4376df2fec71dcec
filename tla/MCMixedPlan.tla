---------------------------- MODULE MCMixedPlan ------------------------------
(***************************************************************************)
(* Small instances of MixedPlan.  The knowledge skill answers with one to  *)
(* MaxDocs documents in a text the model wrote: _ensure_citations only     *)
(* makes sure that "[En]" of some document occurs in it, be it as          *)
(* "[[En]]", which is token 0; what follows may open a bracket and not     *)
(* close it.  The data and risk skills render "[E1]" once, for their only  *)
(* evidence item.                                                          *)
(***************************************************************************)
EXTENDS MixedPlan

CONSTANT MaxDocs

Unanswered == {[end |-> e, cited |-> {}, open |-> FALSE, size |-> 0] : e \in {"clarify", "raised"}}

ModelTexts(n) == {c \in SUBSET (0..MaxDocs + 2) : c \cap (0..n) # {}}

KnowledgeAnswers ==
    UNION {{[end |-> "answered", cited |-> c, open |-> o, size |-> n]
              : c \in ModelTexts(n), o \in BOOLEAN} : n \in 1..MaxDocs}

Rendered == [end |-> "answered", cited |-> {1}, open |-> FALSE, size |-> 1]

OutcomesOf(answers) ==
    [skill \in SkillRoutes |->
        Unanswered \cup (IF skill = "knowledge" THEN answers ELSE {Rendered})]

AllOutcomes == OutcomesOf(KnowledgeAnswers)
=============================================================================
