---------------------------- MODULE AnswerReview ----------------------------
(***************************************************************************)
(* The deterministic answer reviewer (app/skills/review.py).               *)
(*                                                                         *)
(* An answer is abstracted to what the reviewer can tell apart:            *)
(*   status    the RunStatus the skill returned;                           *)
(*   cited     the bracketed tokens of the text: n stands for "[En]" and 0 *)
(*             for any token that is not an evidence id ("[[E1]]" yields   *)
(*             the token "[E1");                                           *)
(*   kinds     the kinds of the evidence items, which skills and reducer   *)
(*             always number E1..En in order, so the id of an item is its  *)
(*             position;                                                   *)
(*   bound     every number of the text occurs in an evidence excerpt;     *)
(*   plan      the state carries a whitelisted plan.                       *)
(***************************************************************************)
EXTENDS Integers, Sequences

SkillRoutes == {"knowledge", "data", "inventory_risk", "mixed"}
Routes == SkillRoutes \cup {"clarify"}

Statuses == {"answered", "clarify", "unsupported", "error"}

Kinds == {"document", "data", "risk"}

Codes == {"NOT_APPLICABLE", "REVIEW_NO_EVIDENCE", "REVIEW_CITATION_MISSING",
          "REVIEW_CITATION_UNKNOWN", "REVIEW_NUMBER_UNSUPPORTED",
          "REVIEW_PLAN_INCOMPLETE", "REVIEW_PLAN_MISSING", "REVIEW_PASSED"}

RetryableCodes == {"REVIEW_NO_EVIDENCE", "REVIEW_CITATION_MISSING",
                   "REVIEW_PLAN_INCOMPLETE"}

\* What a retried check can repair is retryable; a pass never is.
ReviewResult(code) ==
    [passed    |-> code \in {"NOT_APPLICABLE", "REVIEW_PASSED"},
     code      |-> code,
     retryable |-> code \in RetryableCodes]

\* Channel value before a review has been made (None in the code).
NoReview == [passed |-> FALSE, code |-> "NONE", retryable |-> FALSE]

ReviewResults == {ReviewResult(c) : c \in Codes} \cup {NoReview}

MixedCode(a) ==
    LET found == {a.kinds[i] : i \in DOMAIN a.kinds}
    IN  IF "document" \notin found \/ found \cap {"data", "risk"} = {}
        THEN "REVIEW_PLAN_INCOMPLETE"
        ELSE IF ~a.plan THEN "REVIEW_PLAN_MISSING" ELSE "REVIEW_PASSED"

\* The checks in the order the code makes them: the first that fails decides.
ReviewCode(route, a) ==
    LET known == 1..Len(a.kinds)
    IN  IF a.status # "answered"            THEN "NOT_APPLICABLE"
        ELSE IF a.kinds = <<>>              THEN "REVIEW_NO_EVIDENCE"
        ELSE IF a.cited \cap known = {}     THEN "REVIEW_CITATION_MISSING"
        ELSE IF a.cited \ known # {}        THEN "REVIEW_CITATION_UNKNOWN"
        ELSE IF route = "data" /\ ~a.bound  THEN "REVIEW_NUMBER_UNSUPPORTED"
        ELSE IF route = "mixed"             THEN MixedCode(a)
        ELSE "REVIEW_PASSED"

Review(route, a) == ReviewResult(ReviewCode(route, a))
=============================================================================
