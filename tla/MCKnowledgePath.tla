--------------------------- MODULE MCKnowledgePath --------------------------
(***************************************************************************)
(* Small instance of KnowledgePath: two chunks, one at the threshold and   *)
(* one below it, in the orders that the channels may return.               *)
(***************************************************************************)
EXTENDS KnowledgePath, TLC

CONSTANTS q1, q2

\* The query of one request may be rewritten into a second one.
OneRewritten == [r \in {q1, q2} |-> IF r = q1 THEN 1 ELSE 0]

H(chunk, score) == [chunk |-> chunk, score |-> score]
DenseLists == {<<H(2, 10)>>, <<H(2, 20), H(1, 10)>>}
SparseLists == {<<H(1, 30)>>}
=============================================================================
