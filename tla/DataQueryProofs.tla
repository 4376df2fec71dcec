-------------------------- MODULE DataQueryProofs ---------------------------
(***************************************************************************)
(* For every set of requests, principals and decisions, every content of   *)
(* the views and every sequence of changes to them and to the grants: a    *)
(* request reads only views granted to its principal while it lasted, and  *)
(* only departments its principal may see; what the guard refuses has one  *)
(* of two reasons; results are cut by their own limit alone; and a short   *)
(* table passes the number check of the review.                            *)
(***************************************************************************)
EXTENDS DataQuery, Induction

\* The variables the argument updates are functions on the requests.
ShapeInv ==
    /\ pc \in [Requests -> States]
    /\ asker \in [Requests -> Principals]
    /\ checked \in [Requests -> SUBSET Templates]
    /\ query \in [Requests -> [Templates -> QueryStates]]
    /\ held \in [Requests -> SUBSET Views]
    /\ chosen = [q \in Requests |-> chosen[q]]
    /\ skill \in [Requests -> {"data", "inventory_risk"}]
    /\ found = [q \in Requests |-> [t \in Templates |-> found[q][t]]]

\* What is granted now has been recorded as held while the request lasts.
HeldInv == \A q \in Requests : Running(q) => AllowedViews(asker[q]) \subseteq held[q]

\* A template counts as checked only when its view was granted at some moment.
CheckedInv ==
    \A q \in Requests :
        /\ pc[q] = "idle" => checked[q] = {}
        /\ \A t \in checked[q] : ViewOf(t) \in held[q]

\* Only checked templates are executed.
QueriedInv ==
    \A q \in Requests, t \in Templates :
        query[q][t] \in {"running", "rows"} => t \in checked[q]

\* Rows come from departments the asker may see.
SeenInv ==
    \A q \in Requests, t \in Templates :
        \A row \in found[q][t] : \A d \in row.from : Sees(asker[q], d)

\* A request in the checks works for registered templates.
NeededInv == \A q \in Requests : pc[q] = "checking" => Needed(q) \subseteq Templates

ScopeInv == ShapeInv /\ HeldInv /\ NeededInv /\ CheckedInv /\ QueriedInv /\ SeenInv
-----------------------------------------------------------------------------
\* A statement selects lines of departments its principal may see.
LEMMA SelectedSeen ==
    ASSUME NEW p, NEW t, NEW v
    PROVE  \A l \in Selected(p, t, v) : Sees(p, l.dept)
  BY DEF Selected, Latest, InScope

\* So do the rows it groups them into.
LEMMA RowsSeen ==
    ASSUME NEW p, NEW t, NEW v, NEW row \in Rows(p, t, v), NEW d \in row.from
    PROVE  Sees(p, d)
  <1> DEFINE lines == Selected(p, t, v)
             group(k) == {l \in lines : KeyOf(t, l) = k}
  <1>1. PICK k \in {KeyOf(t, l) : l \in lines} :
            row = [key |-> k, qty |-> Quantity(group(k)), from |-> {l.dept : l \in group(k)}]
    BY DEF Rows
  <1>2. row.from = {l.dept : l \in group(k)}
    BY <1>1
  <1>3. PICK l \in lines : d = l.dept
    BY <1>2
  <1>4. QED
    BY <1>3, SelectedSeen

\* Nothing has been asked, checked or read at first.
LEMMA InitScope == ASSUME Init PROVE ScopeInv
  <1> USE DEF Init
  <1>1. ShapeInv
    BY DEF ShapeInv, States, Ended, QueryStates, NoQueries, NoRows
  <1>2. HeldInv
    BY DEF HeldInv, Running
  <1>3. CheckedInv /\ QueriedInv /\ SeenInv /\ NeededInv
    BY DEF NeededInv, CheckedInv, QueriedInv, SeenInv, NoQueries, NoRows
  <1>4. QED
    BY <1>1, <1>2, <1>3 DEF ScopeInv

\* Steps that only move one request between its phases.
LEMMA PhaseKeeps ==
    ASSUME ScopeInv, NEW q \in Requests, Running(q), NEW s \in States \ {"idle"},
           pc' = [pc EXCEPT ![q] = s], s = "checking" => Needed(q)' \subseteq Templates,
           chosen' = [chosen EXCEPT ![q] = chosen'[q]],
           UNCHANGED <<grants, asker, skill, checked, query, found, held>>
    PROVE  ScopeInv'
  <1> USE DEF ScopeInv
  <1>1. ShapeInv'
    <2>1. pc' \in [Requests -> States]
      BY DEF ShapeInv
    <2>2. chosen' = [r \in Requests |-> chosen'[r]]
      <3>1. chosen = [r \in Requests |-> chosen[r]]
        BY DEF ShapeInv
      <3>2. QED
        BY <3>1
    <2>3. QED
      BY <2>1, <2>2 DEF ShapeInv
  <1>2. HeldInv'
    BY DEF HeldInv, ShapeInv, Running, AllowedViews
  <1>3. CheckedInv' /\ QueriedInv' /\ SeenInv'
    BY DEF CheckedInv, QueriedInv, SeenInv, Sees, ShapeInv, Running
  <1>4. NeededInv'
    <2> SUFFICES ASSUME NEW r \in Requests, pc'[r] = "checking"
                 PROVE  Needed(r)' \subseteq Templates
      BY DEF NeededInv
    <2>1. CASE r = q
      BY <2>1 DEF ShapeInv
    <2>2. CASE r # q
      <3>1. pc[r] = "checking" /\ chosen'[r] = chosen[r] /\ skill'[r] = skill[r]
        BY <2>2 DEF ShapeInv
      <3>2. Needed(r)' = Needed(r)
        BY <3>1 DEF Needed
      <3>3. QED
        BY <3>1, <3>2 DEF NeededInv
    <2>3. QED
      BY <2>1, <2>2
  <1>5. QED
    BY <1>1, <1>2, <1>3, <1>4

\* Steps of one execution: it was running and gets new rows or none.
LEMMA ExecutionKeeps ==
    ASSUME ScopeInv, NEW q \in Requests, NEW t \in Templates,
           query[q][t] = "running", NEW s \in QueryStates,
           query' = [query EXCEPT ![q][t] = s],
           NEW rows, \A row \in rows : \A d \in row.from : Sees(asker[q], d),
           found' = [found EXCEPT ![q][t] = rows],
           UNCHANGED <<grants, pc, asker, skill, chosen, checked, held>>
    PROVE  ScopeInv'
  <1> USE DEF ScopeInv
  <1>1. ShapeInv'
    BY DEF ShapeInv
  <1>2. HeldInv' /\ CheckedInv' /\ NeededInv'
    BY DEF HeldInv, CheckedInv, NeededInv, Needed, ShapeInv, Running, AllowedViews
  <1>3. QueriedInv'
    BY DEF QueriedInv, ShapeInv
  <1>4. SeenInv'
    BY DEF SeenInv, ShapeInv, Sees
  <1>5. QED
    BY <1>1, <1>2, <1>3, <1>4

\* Asking records what is granted now.
LEMMA AskScope == ASSUME ScopeInv, NEW q \in Requests, Ask(q) PROVE ScopeInv'
  <1> USE DEF ScopeInv, Ask, world
  <1>1. ShapeInv'
    BY DEF ShapeInv, States, AllowedViews
  <1>2. HeldInv'
    BY DEF HeldInv, ShapeInv, Running, AllowedViews
  <1>3. CheckedInv'
    BY DEF CheckedInv, ShapeInv
  <1>4. QueriedInv' /\ SeenInv'
    BY DEF QueriedInv, SeenInv, Sees
  <1>5. NeededInv'
    BY DEF NeededInv, Needed, ShapeInv, Templates
  <1>6. QED
    BY <1>1, <1>2, <1>3, <1>4, <1>5

\* The steps that end a request, or go from the selection to the checks.
LEMMA PhaseScope ==
    ASSUME ScopeInv, NEW q \in Requests,
           \/ Decide(q) \/ SelectionFails(q) \/ Deny(q) \/ Clarify(q)
           \/ Answer(q) \/ Raise(q)
    PROVE  ScopeInv'
  <1> USE DEF world
  <1>1. CASE Decide(q)
    <2>1. ShapeInv
      BY DEF ScopeInv
    <2>2. PICK d \in Decisions \cup RuleDecisions :
             IF d.template \in Templates
             THEN pc' = [pc EXCEPT ![q] = "checking"] /\ chosen' = [chosen EXCEPT ![q] = d]
             ELSE pc' = [pc EXCEPT ![q] = "clarified"] /\ UNCHANGED chosen
      BY <1>1 DEF Decide
    <2>3. pc[q] = "selecting" /\ UNCHANGED <<grants, asker, skill, checked, query, found, held>>
      BY <1>1 DEF Decide
    <2>4. CASE d.template \in Templates
      <3>1. chosen' = [chosen EXCEPT ![q] = d] /\ chosen'[q] = d
        BY <2>1, <2>2, <2>3, <2>4 DEF ShapeInv
      <3>2. Needed(q)' \subseteq Templates
        BY <3>1, <2>3, <2>4 DEF Needed, Templates
      <3>3. chosen' = [chosen EXCEPT ![q] = chosen'[q]]
        BY <2>1, <2>2, <2>4 DEF ShapeInv
      <3>4. QED
        BY <2>2, <2>3, <2>4, <3>2, <3>3, PhaseKeeps DEF Running, States, Ended
    <2>5. CASE d.template \notin Templates
      <3>1. chosen' = [chosen EXCEPT ![q] = chosen'[q]]
        BY <2>1, <2>2, <2>5 DEF ShapeInv
      <3>2. QED
        BY <2>2, <2>3, <2>5, <3>1, PhaseKeeps DEF Running, States, Ended
    <2>6. QED
      BY <2>4, <2>5
  <1>2. ASSUME NEW s \in Ended, Running(q), pc' = [pc EXCEPT ![q] = s],
               UNCHANGED <<grants, asker, skill, chosen, checked, query, found, held>>
        PROVE  ScopeInv'
    <2>1. chosen' = [chosen EXCEPT ![q] = chosen'[q]]
      BY <1>2 DEF ScopeInv, ShapeInv
    <2>2. QED
      BY <1>2, <2>1, PhaseKeeps DEF States, Ended
  <1>3. CASE SelectionFails(q)
    BY <1>2, <1>3 DEF SelectionFails, Running, Ended
  <1>4. CASE Deny(q)
    BY <1>2, <1>4 DEF Deny, Running, Ended
  <1>5. CASE Clarify(q)
    BY <1>2, <1>5 DEF Clarify, MayRead, Running, Ended
  <1>6. CASE Answer(q)
    BY <1>2, <1>6 DEF Answer, HasRows, Running, Ended
  <1>8. CASE Raise(q)
    BY <1>2, <1>8 DEF Raise, Running, Ended
  <1>9. QED
    BY <1>1, <1>3, <1>4, <1>5, <1>6, <1>8

\* The view of the next check, when it passes, is held.
LEMMA NextCheckHeld ==
    ASSUME ScopeInv, NEW q \in Requests, MayRead(q)
    PROVE  /\ NextCheck(q) \in Needed(q) /\ NextCheck(q) \in Templates
           /\ ViewOf(NextCheck(q)) \in held[q]
  <1>1. NextCheck(q) \in Needed(q)
    BY DEF NextCheck, Needed
  <1>2. Needed(q) \subseteq Templates /\ AllowedViews(asker[q]) \subseteq held[q]
    BY DEF ScopeInv, NeededInv, HeldInv, MayRead, Running
  <1>3. QED
    BY <1>1, <1>2 DEF MayRead

\* The first check of the risk skill.
LEMMA CheckScope == ASSUME ScopeInv, NEW q \in Requests, CheckView(q) PROVE ScopeInv'
  <1> USE DEF CheckView, world
  <1>1. ShapeInv' /\ CheckedInv'
    BY NextCheckHeld DEF ScopeInv, ShapeInv, CheckedInv, MayRead
  <1>2. HeldInv' /\ NeededInv' /\ SeenInv'
    BY DEF ScopeInv, HeldInv, NeededInv, Needed, SeenInv, Sees, Running, AllowedViews
  <1>3. QueriedInv'
    BY DEF ScopeInv, ShapeInv, QueriedInv
  <1>4. QED
    BY <1>1, <1>2, <1>3 DEF ScopeInv

\* The last check, after which all needed templates are checked.
LEMMA SubmitScope == ASSUME ScopeInv, NEW q \in Requests, Submit(q) PROVE ScopeInv'
  <1> USE DEF Submit, world
  <1>1. ShapeInv'
    BY NextCheckHeld DEF ScopeInv, ShapeInv, States, QueryStates
  <1>2. CheckedInv'
    BY NextCheckHeld DEF ScopeInv, ShapeInv, CheckedInv, MayRead
  <1>3. HeldInv' /\ NeededInv' /\ SeenInv'
    BY DEF ScopeInv, ShapeInv, HeldInv, NeededInv, Needed, SeenInv, Sees, Running,
           AllowedViews, MayRead
  <1>4. QueriedInv'
    <2>1. Needed(q) \subseteq checked'[q]
      BY DEF LastCheck, ScopeInv, ShapeInv
    <2>2. QED
      BY <2>1 DEF ScopeInv, ShapeInv, QueriedInv
  <1>5. QED
    BY <1>1, <1>2, <1>3, <1>4 DEF ScopeInv

\* An execution of a statement, whatever rows the limit leaves.
LEMMA ExecuteScope ==
    ASSUME ScopeInv, NEW q \in Requests, NEW t \in Templates,
           Execute(q, t) \/ ExecuteFails(q, t)
    PROVE  ScopeInv'
  <1> USE DEF world
  <1>1. CASE Execute(q, t)
    <2> DEFINE all == Rows(asker[q], t, ValuesFor(q, t))
    <2>1. PICK s \in Leading(t, all, Fetched(StatementFor(q, t).limit)) :
             found' = [found EXCEPT ![q][t] = s]
      BY <1>1 DEF Execute
    <2>2. \A row \in s : \A d \in row.from : Sees(asker[q], d)
      BY RowsSeen DEF Leading
    <2>3. query[q][t] = "running" /\ query' = [query EXCEPT ![q][t] = "rows"]
          /\ UNCHANGED <<grants, pc, asker, skill, chosen, checked, held>>
      BY <1>1 DEF Execute
    <2>4. QED
      BY <2>1, <2>2, <2>3, ExecutionKeeps DEF QueryStates
  <1>2. CASE ExecuteFails(q, t)
    <2>1. found' = [found EXCEPT ![q][t] = found[q][t]]
      BY <1>2 DEF ExecuteFails, ScopeInv, ShapeInv
    <2>2. \A row \in found[q][t] : \A d \in row.from : Sees(asker[q], d)
      BY DEF ScopeInv, SeenInv
    <2>3. QED
      BY <1>2, <2>1, <2>2, ExecutionKeeps DEF ExecuteFails, QueryStates
  <1>3. QED
    BY <1>1, <1>2

\* Changes of the views touch no request; a new grant is recorded for those it concerns.
LEMMA ChangeScope ==
    ASSUME ScopeInv, Sell \/ TakeStock \/ Regrant PROVE ScopeInv'
  <1> USE DEF Change
  <1>1. CASE Sell \/ TakeStock
    BY <1>1 DEF Sell, TakeStock, ScopeInv, ShapeInv, HeldInv, NeededInv, Needed, CheckedInv,
                QueriedInv, SeenInv, Sees, Running, AllowedViews
  <1>2. CASE Regrant
    <2>1. PICK g \in Principals \X Views :
             /\ grants' = IF g \in grants THEN grants \ {g} ELSE grants \cup {g}
             /\ held' = [q \in Requests |->
                           IF Running(q) /\ asker[q] = g[1] /\ g \notin grants
                           THEN held[q] \cup {g[2]} ELSE held[q]]
      BY <1>2 DEF Regrant
    <2>2. ShapeInv'
      BY <1>2, <2>1 DEF Regrant, ScopeInv, ShapeInv
    <2>3. HeldInv'
      BY <1>2, <2>1 DEF Regrant, ScopeInv, ShapeInv, HeldInv, Running, AllowedViews
    <2>4. CheckedInv' /\ QueriedInv' /\ SeenInv' /\ NeededInv'
      BY <1>2, <2>1 DEF Regrant, ScopeInv, NeededInv, Needed, CheckedInv, QueriedInv,
                        SeenInv, Sees
    <2>5. QED
      BY <2>2, <2>3, <2>4 DEF ScopeInv
  <1>3. QED
    BY <1>1, <1>2

LEMMA NextScope == ASSUME ScopeInv, [Next]_vars PROVE ScopeInv'
  <1>1. ASSUME NEW q \in Requests, Step(q) PROVE ScopeInv'
    BY <1>1, PhaseScope, CheckScope, SubmitScope, ExecuteScope DEF Step
  <1>2. CASE Done \/ UNCHANGED vars
    BY <1>2 DEF Done, vars, ScopeInv, ShapeInv, HeldInv, NeededInv, Needed, CheckedInv,
                QueriedInv, SeenInv, Sees, Running, AllowedViews
  <1>3. QED
    BY <1>1, <1>2, AskScope, ChangeScope DEF Next

\* What a request reads is within its principal's departments and within views granted
\* during the request, for every instance of the model.
THEOREM AlwaysRowsInScope == Spec => []RowsInScope
  <1>1. ScopeInv => RowsInScope
    BY DEF ScopeInv, CheckedInv, QueriedInv, SeenInv, RowsInScope
  <1>2. QED
    BY InitScope, NextScope, <1>1, PTL DEF Spec
-----------------------------------------------------------------------------
\* The guard never refuses what the registry builds from accepted arguments, but for
\* the subquery and for a top_n above the row limit; so for every sql_max_rows.
LEMMA GuardAdmits ==
    ASSUME NEW p \in Principals, NEW t \in Templates, NEW v,
           t # "inventory_balance", t = "top_products" => v["top_n"] =< MaxRows
    PROVE  GuardAccepts(Statement(p, t, v))
  <1> DEFINE s == Statement(p, t, v)
  <1>1. ~s.subquery /\ s.tables = {SalesView} /\ s.columns \subseteq Catalog[SalesView]
    BY DEF Statement, ViewOf, Templates, ColumnsOf, Catalog, Views, SalesView, StockView
  <1>2. s.limit =< MaxRows
    BY LimitsAssumption DEF Statement
  <1>3. QED
    BY <1>1, <1>2 DEF GuardAccepts, Views

\* A refusal has its explanation, and the decision it was about stands.
Late == {"querying"} \cup Ended
RefusedInv ==
    \A q \in Requests, t \in Templates :
        query[q][t] = "refused" => pc[q] \in Late /\ Explained(q, t)

\* No step but Submit makes a refusal, and none changes a late request's decision.
LEMMA RefusedKeeps ==
    ASSUME RefusedInv,
           \A r \in Requests, t \in Templates :
               query'[r][t] = "refused" => query[r][t] = "refused",
           \A r \in Requests :
               pc[r] \in Late => pc'[r] \in Late /\ chosen'[r] = chosen[r]
    PROVE  RefusedInv'
  <1> SUFFICES ASSUME NEW r \in Requests, NEW t \in Templates, query'[r][t] = "refused"
               PROVE  pc'[r] \in Late /\ Explained(r, t)'
    BY DEF RefusedInv
  <1>1. pc[r] \in Late /\ Explained(r, t)
    BY DEF RefusedInv
  <1>2. pc'[r] \in Late /\ chosen'[r] = chosen[r]
    BY <1>1
  <1>3. Explained(r, t)'
    BY <1>1, <1>2 DEF Explained, Values
  <1>4. QED
    BY <1>2, <1>3

\* What Submit refuses, GuardAdmits does not admit.
LEMMA RefusedSubmit ==
    ASSUME ScopeInv, RefusedInv, NEW q \in Requests, Submit(q)
    PROVE  RefusedInv'
  <1> SUFFICES ASSUME NEW r \in Requests, NEW t \in Templates, query'[r][t] = "refused"
               PROVE  pc'[r] \in Late /\ Explained(r, t)'
    BY DEF RefusedInv
  <1>1. ShapeInv /\ chosen' = chosen
    BY DEF ScopeInv, Submit
  <1>2. CASE r # q
    BY <1>1, <1>2 DEF Submit, ShapeInv, RefusedInv, Explained, Values
  <1>3. CASE r = q
    <2>1. t \in Needed(q) /\ ~GuardAccepts(StatementFor(q, t)) /\ pc'[q] \in Late
      BY <1>1, <1>3 DEF Submit, ShapeInv, Late
    <2>2. asker[q] \in Principals /\ skill[q] \in {"data", "inventory_risk"}
      BY <1>1 DEF ShapeInv
    <2>3. ASSUME t # "inventory_balance" PROVE Explained(q, t)
      <3>1. t = "top_products" /\ ~(ValuesFor(q, t)["top_n"] =< MaxRows)
        BY <2>1, <2>2, <2>3, GuardAdmits DEF StatementFor
      <3>2. skill[q] = "data" /\ t = chosen[q].template
        BY <2>1, <2>2, <3>1 DEF Needed
      <3>3. Values(chosen[q])["top_n"] \in 1..MaxTopN
        BY <3>1, <3>2 DEF Submit, Acceptable, ValidArguments, Values, ArgumentsOf
      <3>4. ~(Values(chosen[q])["top_n"] =< MaxRows)
        BY <3>1, <3>2 DEF ValuesFor
      <3>5. QED
        BY <3>1, <3>3, <3>4, LimitsAssumption DEF Explained
    <2>4. QED
      BY <1>1, <1>3, <2>1, <2>3 DEF Explained, Values
  <1>4. QED
    BY <1>2, <1>3

LEMMA RefusedNext == ASSUME ScopeInv, RefusedInv, [Next]_vars PROVE RefusedInv'
  <1> USE DEF world, Late, Ended
  <1>0. ShapeInv
    BY DEF ScopeInv
  <1>1. ASSUME NEW q \in Requests,
               \/ Ask(q) \/ Decide(q) \/ SelectionFails(q) \/ CheckView(q) \/ Deny(q)
               \/ Clarify(q) \/ Answer(q) \/ Raise(q)
        PROVE  RefusedInv'
    <2>1. query' = query
      BY <1>1 DEF Ask, Decide, SelectionFails, CheckView, Deny, Clarify, Answer, Raise
    <2>2. \A r \in Requests : pc[r] \in Late => pc'[r] \in Late /\ chosen'[r] = chosen[r]
      <3>1. CASE Decide(q)
        BY <1>0, <3>1 DEF ShapeInv, Decide
      <3>2. CASE ~Decide(q)
        BY <1>0, <1>1, <3>2 DEF ShapeInv, Ask, SelectionFails, CheckView, Deny, Clarify, Answer,
                                Raise, MayRead, HasRows
      <3>3. QED
        BY <3>1, <3>2
    <2>3. QED
      BY <2>1, <2>2, RefusedKeeps
  <1>2. ASSUME NEW q \in Requests, NEW t \in Templates, Execute(q, t) \/ ExecuteFails(q, t)
        PROVE  RefusedInv'
    <2>1. \A r \in Requests, u \in Templates :
              query'[r][u] = "refused" => query[r][u] = "refused"
      <3>1. PICK s \in {"rows", "failed"} : query' = [query EXCEPT ![q][t] = s]
        BY <1>2 DEF Execute, ExecuteFails
      <3>2. query \in [Requests -> [Templates -> QueryStates]]
        BY <1>0 DEF ShapeInv
      <3>3. QED
        BY <3>1, <3>2
    <2>2. QED
      BY <1>2, <2>1, RefusedKeeps DEF Execute, ExecuteFails
  <1>3. CASE Sell \/ TakeStock \/ Regrant \/ Done \/ UNCHANGED vars
    BY <1>3, RefusedKeeps DEF Sell, TakeStock, Regrant, Change, Done, vars
  <1>4. QED
    BY <1>1, <1>2, <1>3, RefusedSubmit DEF Next, Step

\* Whatever sql_max_rows is, the guard refuses nothing else the registry builds.
THEOREM AlwaysRefusalsExplained == Spec => []RefusalsExplained
  <1>1. Init => RefusedInv
    BY DEF Init, RefusedInv, NoQueries
  <1>2. RefusedInv => RefusalsExplained
    BY DEF RefusedInv, RefusalsExplained
  <1>3. QED
    BY InitScope, NextScope, <1>1, RefusedNext, <1>2, PTL DEF Spec
-----------------------------------------------------------------------------
(* The stock balance behind the guard.                                     *)

BalanceInv ==
    \A q \in Requests :
        /\ query[q]["inventory_balance"] \notin {"running", "rows"}
        /\ pc[q] = "answered" => "inventory_balance" \notin Needed(q)

\* No request that needs the stock balance is answered.
BalanceUnanswered ==
    \A q \in Requests :
        pc[q] = "answered" => "inventory_balance" \notin Needed(q)

\* Steps that run no new statement and answer nobody.
LEMMA BalanceKeeps ==
    ASSUME ScopeInv, BalanceInv, skill' = skill,
           \A q \in Requests : /\ query'[q]["inventory_balance"] = query[q]["inventory_balance"]
                                   \/ query'[q]["inventory_balance"] \notin {"running", "rows"}
                               /\ pc'[q] = "answered" =>
                                     pc[q] = "answered" /\ chosen'[q] = chosen[q]
    PROVE  BalanceInv'
  BY DEF BalanceInv, Needed

LEMMA BalanceNext == ASSUME ScopeInv, BalanceInv, [Next]_vars PROVE BalanceInv'
  <1> USE DEF world
  <1>1. ShapeInv /\ "inventory_balance" \in Templates
    BY DEF ScopeInv, Templates
  <1>2. ASSUME NEW q \in Requests,
               \/ Ask(q) \/ Decide(q) \/ SelectionFails(q) \/ CheckView(q) \/ Deny(q)
               \/ Clarify(q) \/ Raise(q)
        PROVE  BalanceInv'
    <2>1. UNCHANGED <<skill, query>>
      BY <1>2 DEF Ask, Decide, SelectionFails, CheckView, Deny, Clarify, Raise
    <2>2. ASSUME NEW r \in Requests, pc'[r] = "answered"
          PROVE  pc[r] = "answered" /\ chosen'[r] = chosen[r]
      <3>1. CASE Decide(q)
        BY <1>1, <2>2, <3>1 DEF ShapeInv, Decide
      <3>2. CASE ~Decide(q)
        BY <1>1, <1>2, <2>2, <3>2 DEF ShapeInv, Ask, SelectionFails, CheckView, Deny, Clarify, Raise
      <3>3. QED
        BY <3>1, <3>2
    <2>3. QED
      BY <2>1, <2>2, BalanceKeeps
  <1>3. ASSUME NEW q \in Requests, Submit(q) PROVE BalanceInv'
    <2>1. query'[q]["inventory_balance"] \notin {"running", "rows"}
      <3>1. ~GuardAccepts(StatementFor(q, "inventory_balance"))
        BY DEF GuardAccepts, StatementFor, Statement
      <3>2. query'[q]["inventory_balance"] \in {"none", "refused"}
        BY <1>1, <1>3, <3>1 DEF Submit, ShapeInv
      <3>3. QED
        BY <3>2
    <2>2. UNCHANGED <<skill, chosen>>
      BY <1>3 DEF Submit
    <2>3. \A r \in Requests : /\ pc'[r] = "answered" => pc[r] = "answered"
                              /\ r # q => query'[r] = query[r]
      BY <1>1, <1>3 DEF Submit, ShapeInv
    <2>4. QED
      BY <2>1, <2>2, <2>3 DEF BalanceInv, Needed
  <1>4. ASSUME NEW q \in Requests, Answer(q) PROVE BalanceInv'
    <2>1. UNCHANGED <<skill, chosen, query>>
      BY <1>4 DEF Answer
    <2>2. "inventory_balance" \notin Needed(q)
      BY <1>1, <1>4 DEF Answer, HasRows, BalanceInv
    <2>3. \A r \in Requests : r # q => pc'[r] = pc[r]
      BY <1>1, <1>4 DEF Answer, ShapeInv
    <2>4. QED
      BY <2>1, <2>2, <2>3 DEF BalanceInv, Needed
  <1>5. ASSUME NEW q \in Requests, NEW t \in Templates, Execute(q, t) \/ ExecuteFails(q, t)
        PROVE  BalanceInv'
    <2>1. UNCHANGED <<skill, chosen, pc>> /\ query[q][t] = "running"
      BY <1>5 DEF Execute, ExecuteFails
    <2>2. PICK s \in {"rows", "failed"} : query' = [query EXCEPT ![q][t] = s]
      BY <1>5 DEF Execute, ExecuteFails
    <2>3. query \in [Requests -> [Templates -> QueryStates]]
      BY <1>1 DEF ShapeInv
    <2>4. t # "inventory_balance"
      BY <2>1 DEF BalanceInv
    <2>5. \A r \in Requests :
              query'[r]["inventory_balance"] = query[r]["inventory_balance"]
      BY <1>1, <2>2, <2>3, <2>4
    <2>6. QED
      BY <2>1, <2>5 DEF BalanceInv, Needed
  <1>6. CASE Sell \/ TakeStock \/ Regrant \/ Done \/ UNCHANGED vars
    BY <1>6, BalanceKeeps DEF Sell, TakeStock, Regrant, Change, Done, vars
  <1>7. QED
    BY <1>2, <1>3, <1>4, <1>5, <1>6 DEF Next, Step

\* What the run data_approved meets once holds always: SqlGuard.validate refuses the
\* subquery of the balance, so neither it nor an inventory risk request is ever answered,
\* whatever the views hold, the grants allow and the limits are.
THEOREM AlwaysBalanceUnanswered == Spec => []BalanceUnanswered
  <1>1. Init => BalanceInv
    BY DEF Init, BalanceInv, NoQueries, Templates
  <1>2. BalanceInv => BalanceUnanswered
    BY DEF BalanceInv, BalanceUnanswered
  <1>3. QED
    BY InitScope, NextScope, <1>1, BalanceNext, <1>2, PTL DEF Spec
-----------------------------------------------------------------------------
(* The results of the statements.                                          *)

\* The rows of a result are typed, and there is one of each group.
IsResult(rows) ==
    /\ rows \subseteq Row /\ IsFiniteSet(rows)
    /\ \A a, b \in rows : a.key = b.key => a = b

\* The sum over a finite set of lines is defined.
LEMMA QuantityUnfolds ==
    ASSUME NEW lines, IsFiniteSet(lines), \A l \in lines : l.qty \in Nat
    PROVE  \E sum : /\ Quantity(lines) = sum[lines]
                    /\ \A s \in SUBSET lines :
                          sum[s] = IF s = {} THEN 0
                                   ELSE LET x == CHOOSE x \in s : TRUE
                                        IN  x.qty + sum[s \ {x}]
<1> DEFINE Pick(s) == CHOOSE x \in s : TRUE
           Sum(f, s) == IF s = {} THEN 0 ELSE Pick(s).qty + f[s \ {Pick(s)}]
           Turn(f) == [s \in SUBSET lines |-> Sum(f, s)]
           step == [l \in lines |-> [n \in Nat |-> l.qty + n]]
           pick == [s \in SUBSET lines |-> Pick(s)]
<1>1. \A s \in SUBSET lines : s # {} => Pick(s) \in s /\ pick[s] = Pick(s)
  OBVIOUS
<1>2. step \in [lines -> [Nat -> Nat]]
  OBVIOUS
<1>3. FoldStep(lines, Nat, step, pick)
  <2> HIDE DEF step, pick
  <2> QED BY <1>1, <1>2 DEF FoldStep
<1>4. PICK g : IsFold(lines, Nat, 0, step, pick, g)
  <2> HIDE DEF step, pick
  <2>1. 0 \in Nat
    OBVIOUS
  <2> QED BY <1>3, <2>1, Folded
<1>5. g = Turn(g)
  <2>1. g \in [SUBSET lines -> Nat]
    BY <1>4 DEF IsFold
  <2>2. \A s \in SUBSET lines :
           g[s] = IF s = {} THEN 0 ELSE step[pick[s]][g[s \ {pick[s]}]]
    <3> HIDE DEF step, pick
    <3> QED BY <1>4, Zenon DEF IsFold
  <2>3. ASSUME NEW s \in SUBSET lines PROVE g[s] = Sum(g, s)
    <3>1. CASE s = {}
      BY <2>2, <3>1
    <3>2. CASE s # {}
      <4>1. Pick(s) \in lines /\ pick[s] = Pick(s) /\ s \ {Pick(s)} \in SUBSET lines
        BY <1>1, <3>2
      <4>2. g[s \ {Pick(s)}] \in Nat
        <5> HIDE DEF Pick
        <5> QED BY <2>1, <4>1
      <4>3. g[s] = step[Pick(s)][g[s \ {Pick(s)}]]
        <5> HIDE DEF step, pick, Pick
        <5> QED BY <2>2, <3>2, <4>1
      <4>4. step[Pick(s)][g[s \ {Pick(s)}]] = Pick(s).qty + g[s \ {Pick(s)}]
        <5> HIDE DEF Pick
        <5> QED BY <4>1, <4>2
      <4> HIDE DEF Pick, step
      <4> QED BY <3>2, <4>3, <4>4
    <3> QED BY <3>1, <3>2
  <2> HIDE DEF Sum
  <2> QED BY <2>1, <2>3
<1> DEFINE sum == CHOOSE f : f = Turn(f)
<1>6. sum = Turn(sum)
  <2> HIDE DEF Step
  <2> QED BY <1>5
<1>7. Quantity(lines) = sum[lines]
  BY DEF Quantity, MapThenSumSet, MapThenFoldSet
<1>8. \A s \in SUBSET lines : sum[s] = Sum(sum, s)
  <2> HIDE DEF sum, Sum
  <2> QED BY <1>6, Zenon
<1> HIDE DEF sum
<1> QED BY <1>7, <1>8

\* A sum of quantities is one.
LEMMA QuantityNat ==
    ASSUME NEW lines, IsFiniteSet(lines), \A l \in lines : l.qty \in Nat
    PROVE  Quantity(lines) \in Nat
<1> DEFINE Pick(s) == CHOOSE x \in s : TRUE
<1>1. PICK sum : /\ Quantity(lines) = sum[lines]
                 /\ \A s \in SUBSET lines :
                       sum[s] = IF s = {} THEN 0 ELSE Pick(s).qty + sum[s \ {Pick(s)}]
  BY QuantityUnfolds
<1>2. \A s \in SUBSET lines : s # {} => Pick(s) \in s
  OBVIOUS
<1> HIDE DEF Pick
<1> DEFINE Odd == {s \in SUBSET lines : sum[s] \notin Nat}
<1>3. Odd = {}
  <2> SUFFICES ASSUME Odd # {} PROVE FALSE
    OBVIOUS
  <2>1. PICK s \in Odd : \A r \in Odd : r \subseteq s => r = s
    <3>1. Odd \in SUBSET SUBSET lines
      OBVIOUS
    <3> HIDE DEF Odd
    <3> QED BY <3>1, SmallestSet
  <2>2. s \in SUBSET lines /\ sum[s] \notin Nat
    BY <2>1
  <2>3. s # {}
    <3>1. sum[{}] = 0
      BY <1>1
    <3> QED BY <2>2, <3>1
  <2> DEFINE rest == s \ {Pick(s)}
  <2>4. Pick(s) \in lines /\ rest \in SUBSET lines /\ rest \subseteq s /\ rest # s
    BY <1>2, <2>2, <2>3
  <2>5. sum[rest] \in Nat
    <3> HIDE DEF rest
    <3> QED BY <2>1, <2>4
  <2>6. sum[s] = Pick(s).qty + sum[rest]
    BY <1>1, <2>2, <2>3
  <2>7. Pick(s).qty \in Nat
    BY <2>4
  <2> HIDE DEF rest
  <2> QED BY <2>2, <2>5, <2>6, <2>7
<1>4. lines \in SUBSET lines
  OBVIOUS
<1> QED BY <1>1, <1>3, <1>4

\* A statement selects lines of one of the views.
LEMMA SelectedLines ==
    ASSUME sales \subseteq SalesLines, stock \subseteq StockLines,
           NEW p, NEW t, NEW v
    PROVE  Selected(p, t, v) \subseteq Line /\ IsFiniteSet(Selected(p, t, v))
<1>1. Selected(p, t, v) \subseteq SalesLines \/ Selected(p, t, v) \subseteq StockLines
  BY DEF Selected, Latest, InScope
<1> QED BY <1>1, InputsAssumption, FS_Subset

\* Its rows are a result: finitely many, one of each group.
LEMMA RowsResult ==
    ASSUME sales \subseteq SalesLines, stock \subseteq StockLines,
           NEW p, NEW t, NEW v
    PROVE  IsResult(Rows(p, t, v))
<1> DEFINE lines == Selected(p, t, v)
           group(k) == {l \in lines : KeyOf(t, l) = k}
           row(k) == [key |-> k, qty |-> Quantity(group(k)), from |-> {l.dept : l \in group(k)}]
           keys == {KeyOf(t, l) : l \in lines}
           rows == {row(k) : k \in keys}
<1>1. lines \subseteq Line /\ IsFiniteSet(lines)
  BY SelectedLines
<1>2. Rows(p, t, v) = rows
  BY DEF Rows
<1> HIDE DEF lines
<1>3. \A k \in keys : k \in Nat
  <2>1. Today \in Nat /\ Products \subseteq Nat
    BY InputsAssumption, LimitsAssumption
  <2>2. \A l \in Line : l.day \in Nat /\ l.product \in Nat
    <3>1. \A d \in 1..Today : d \in Nat
      BY <2>1
    <3>2. \A l \in Line : l.day \in 1..Today /\ l.product \in Products
      BY DEF Line
    <3> QED BY <2>1, <3>1, <3>2
  <2> QED BY <1>1, <2>2 DEF KeyOf
<1>4. \A k \in keys : Quantity(group(k)) \in Nat
  <2> TAKE k \in keys
  <2>1. IsFiniteSet(group(k)) /\ \A l \in group(k) : l.qty \in Nat
    <3>1. \A l \in Line : l.qty \in Nat
      BY DEF Line
    <3>2. group(k) \in SUBSET lines
      OBVIOUS
    <3> QED BY <1>1, <3>1, <3>2, FS_Subset
  <2> HIDE DEF group
  <2> QED BY <2>1, QuantityNat
<1>5. \A k \in keys : {l.dept : l \in group(k)} \in SUBSET Departments
  BY <1>1 DEF Line
<1>6. rows \subseteq Row
  <2> HIDE DEF keys, group
  <2> QED BY <1>3, <1>4, <1>5 DEF Row
<1>7. \A a, b \in rows : a.key = b.key => a = b
  <2>1. \A k : row(k).key = k
    OBVIOUS
  <2> HIDE DEF row, keys
  <2> QED BY <2>1
<1>8. IsFiniteSet(rows)
  <2> DEFINE f == [l \in lines |-> row(KeyOf(t, l))]
  <2>1. f \in Surjection(lines, rows)
    <3> HIDE DEF row
    <3>1. f \in [lines -> rows]
      OBVIOUS
    <3>2. \A r \in rows : \E l \in lines : f[l] = r
      OBVIOUS
    <3> QED BY <3>1, <3>2 DEF Surjection
  <2> QED BY <1>1, <2>1, FS_Surjection
<1> QED BY <1>2, <1>6, <1>7, <1>8 DEF IsResult

\* The first n rows are at most n, and all of them if there are no more.
LEMMA LeadingRows ==
    ASSUME NEW t, NEW rows, IsFiniteSet(rows), NEW n \in Nat,
           NEW s \in Leading(t, rows, n)
    PROVE  /\ s \subseteq rows /\ IsFiniteSet(s)
           /\ Cardinality(s) \in Nat /\ Cardinality(s) =< n
           /\ Cardinality(rows) =< n => s = rows
<1>1. s \subseteq rows /\ Cardinality(s) = IF Cardinality(rows) < n THEN Cardinality(rows) ELSE n
  BY DEF Leading
<1>2. IsFiniteSet(s) /\ Cardinality(s) \in Nat /\ Cardinality(rows) \in Nat
  BY <1>1, FS_Subset, FS_CardinalityType
<1>3. Cardinality(rows) =< n => Cardinality(rows) = Cardinality(s)
  BY <1>1, <1>2
<1> QED BY <1>1, <1>2, <1>3, FS_Subset

\* Why the number check may fail.
Excused(t, rows, bound) ==
    \/ bound = TRUE
    \/ Cardinality(rows) > ExcerptRows
    \/ t = "top_products" /\ \E n \in 1..Cardinality(rows) : ~Occurs(n, rows)

\* The variables the runs' type invariant is about, and the shape of the others.
WorldInv ==
    /\ sales \subseteq SalesLines /\ stock \subseteq StockLines
    /\ grants \subseteq Principals \X Views /\ changes \in 0..MaxChanges
    /\ chosen \in [Requests -> Registered \cup {NothingChosen}]
    /\ answer = [q \in Requests |-> answer[q]]
    /\ \A q \in Requests : DOMAIN answer[q] = {"shown", "bound"}
    /\ full = [q \in Requests |-> [t \in Templates |-> full[q][t]]]

\* Only the templates an accepted request needs are ever submitted, it is late then, and
\* the guard has accepted what runs.
SubmittedInv ==
    /\ \A q \in Requests :
          pc[q] \in {"querying", "answered"} => Needed(q) \subseteq Templates
    /\ \A q \in Requests, t \in Templates :
          query[q][t] # "none" => pc[q] \in Late /\ t \in Needed(q) /\ Acceptable(q)
    /\ \A q \in Requests, t \in Templates :
          query[q][t] \in {"running", "rows"} => GuardAccepts(StatementFor(q, t))

\* A result is what the limit of its statement leaves.
ResultInv ==
    \A q \in Requests, t \in Templates :
        /\ found[q][t] \in SUBSET Row /\ IsFiniteSet(found[q][t])
        /\ query[q][t] = "rows" =>
              found[q][t] \in Leading(t, full[q][t], StatementFor(q, t).limit)

\* The numbers of a data answer are bound, or it is long, or the number of a line is not.
AnswerInv ==
    \A q \in Requests :
        pc[q] = "answered" /\ skill[q] = "data" =>
            Excused(chosen[q].template, answer[q].shown, answer[q].bound)

ReadInv == WorldInv /\ SubmittedInv /\ ResultInv /\ AnswerInv

\* Nothing has been submitted at first.
LEMMA InitRead == ASSUME Init PROVE ReadInv
  <1> USE DEF Init
  <1>1. WorldInv
    BY InputsAssumption, LimitsAssumption DEF WorldInv, NoAnswer, NoRows
  <1>2. SubmittedInv
    BY DEF SubmittedInv, NoQueries
  <1>3. ResultInv
    BY FS_EmptySet DEF ResultInv, NoQueries, NoRows
  <1>4. AnswerInv
    BY DEF AnswerInv
  <1>5. QED
    BY <1>1, <1>2, <1>3, <1>4 DEF ReadInv

\* What a late request works on stays, and so does what is said of it.
LEMMA LateKeeps ==
    ASSUME NEW q \in Requests, chosen'[q] = chosen[q], skill' = skill, asker' = asker
    PROVE  /\ Needed(q)' = Needed(q) /\ Acceptable(q)' = Acceptable(q)
           /\ \A t : StatementFor(q, t)' = StatementFor(q, t)
  <1>1. Needed(q)' = Needed(q) /\ Acceptable(q)' = Acceptable(q)
    BY DEF Needed, Acceptable, ValidArguments, Values, ValidPeriod
  <1>2. \A t : ValuesFor(q, t)' = ValuesFor(q, t)
    BY DEF ValuesFor, Values
  <1>3. QED
    BY <1>1, <1>2 DEF StatementFor

\* Steps that touch no execution, no result and no answer.
LEMMA MovesRead ==
    ASSUME ReadInv, ScopeInv,
           UNCHANGED <<asker, skill, query, found, answer, full>>,
           WorldInv',
           \A r \in Requests : pc[r] \in Late => pc'[r] \in Late /\ chosen'[r] = chosen[r],
           \A r \in Requests : pc'[r] \in {"querying", "answered"} => pc[r] = pc'[r]
    PROVE  ReadInv'
  <1>0. \A r \in Requests : pc[r] \in Late =>
           /\ Needed(r)' = Needed(r) /\ Acceptable(r)' = Acceptable(r)
           /\ \A t : StatementFor(r, t)' = StatementFor(r, t)
    BY LateKeeps
  <1>1. SubmittedInv'
    BY <1>0 DEF ReadInv, SubmittedInv, Late, Ended, GuardAccepts
  <1>2. ResultInv'
    BY <1>0 DEF ReadInv, ResultInv, SubmittedInv, Leading, Before
  <1>3. AnswerInv'
    BY <1>0 DEF ReadInv, AnswerInv, Excused, Late, Ended
  <1>4. QED
    BY <1>1, <1>2, <1>3 DEF ReadInv

\* A decision for a template, and the steps that end a request without an answer.
LEMMA PhaseRead ==
    ASSUME ReadInv, ScopeInv, NEW q \in Requests,
           \/ Ask(q) \/ Decide(q) \/ SelectionFails(q) \/ CheckView(q) \/ Deny(q)
           \/ Clarify(q) \/ Raise(q)
    PROVE  ReadInv'
  <1> USE DEF world
  <1>0. ShapeInv /\ WorldInv
    BY DEF ReadInv, ScopeInv
  <1>1. CASE Decide(q)
    <2>1. WorldInv'
      BY <1>0, <1>1 DEF Decide, WorldInv, Registered
    <2>2. \A r \in Requests : pc[r] \in Late => pc'[r] \in Late /\ chosen'[r] = chosen[r]
      BY <1>0, <1>1 DEF Decide, ShapeInv, Late, Ended
    <2>3. \A r \in Requests : pc'[r] \in {"querying", "answered"} => pc[r] = pc'[r]
      BY <1>0, <1>1 DEF Decide, ShapeInv
    <2>4. QED
      BY <1>1, <2>1, <2>2, <2>3, MovesRead DEF Decide
  <1>2. CASE ~Decide(q)
    <2>1. UNCHANGED <<world, asker, skill, chosen, query, found, answer, full>>
      BY <1>2 DEF Ask, SelectionFails, CheckView, Deny, Clarify, Raise
    <2>2. WorldInv'
      BY <1>0, <2>1 DEF WorldInv
    <2>3. \A r \in Requests : pc[r] \in Late => pc'[r] \in Late
      BY <1>0, <1>2 DEF Ask, SelectionFails, CheckView, Deny, Clarify, Raise, MayRead,
                        ShapeInv, Late, Ended
    <2>4. \A r \in Requests : pc'[r] \in {"querying", "answered"} => pc[r] = pc'[r]
      BY <1>0, <1>2 DEF Ask, SelectionFails, CheckView, Deny, Clarify, Raise, ShapeInv
    <2>5. QED
      BY <2>1, <2>2, <2>3, <2>4, MovesRead
  <1>3. QED
    BY <1>1, <1>2

\* Accepted requests are submitted, for the templates they need and no other.
LEMMA SubmitRead ==
    ASSUME ReadInv, ScopeInv, NEW q \in Requests, Submit(q) PROVE ReadInv'
  <1> USE DEF world
  <1>0. ShapeInv /\ WorldInv /\ SubmittedInv /\ ResultInv /\ AnswerInv
    BY DEF ReadInv, ScopeInv
  <1>1. /\ pc[q] = "checking" /\ pc' = [pc EXCEPT ![q] = "querying"]
        /\ Acceptable(q)
        /\ UNCHANGED <<world, asker, skill, chosen, found, answer, full>>
    BY DEF Submit, MayRead
  <1>2. \A r \in Requests :
           /\ Needed(r)' = Needed(r) /\ Acceptable(r)' = Acceptable(r)
           /\ \A t : StatementFor(r, t)' = StatementFor(r, t)
    BY <1>1, LateKeeps
  <1>3. \A r \in Requests, t \in Templates :
           query'[r][t] = IF r # q THEN query[r][t]
                          ELSE IF t \notin Needed(q) THEN "none"
                          ELSE IF GuardAccepts(StatementFor(q, t)) THEN "running"
                          ELSE "refused"
    BY <1>0 DEF Submit, ShapeInv
  <1>4. WorldInv'
    BY <1>0, <1>1 DEF WorldInv
  <1>5. SubmittedInv'
    <2>1. \A r \in Requests, t \in Templates : query'[r][t] # "none" =>
             pc'[r] \in Late /\ t \in Needed(r) /\ Acceptable(r)
      BY <1>0, <1>1, <1>3 DEF SubmittedInv, ShapeInv, Late
    <2>2. \A r \in Requests : pc'[r] \in {"querying", "answered"} => Needed(r) \subseteq Templates
      BY <1>0, <1>1 DEF SubmittedInv, ScopeInv, NeededInv, ShapeInv
    <2>3. \A r \in Requests, t \in Templates :
             query'[r][t] \in {"running", "rows"} => GuardAccepts(StatementFor(r, t))
      BY <1>0, <1>3 DEF SubmittedInv
    <2>4. QED
      BY <1>2, <2>1, <2>2, <2>3 DEF SubmittedInv, GuardAccepts
  <1>6. ResultInv'
    BY <1>0, <1>1, <1>2, <1>3 DEF ResultInv, Leading, Before
  <1>7. AnswerInv'
    <2>1. \A r \in Requests : pc'[r] = "answered" => r # q /\ pc[r] = "answered"
      BY <1>0, <1>1 DEF ShapeInv
    <2>2. QED
      BY <1>0, <1>1, <2>1 DEF AnswerInv, Excused
  <1>8. QED
    BY <1>4, <1>5, <1>6, <1>7 DEF ReadInv

\* fetchmany cuts nothing off what the limit of an accepted statement leaves.
LEMMA RunningLimit ==
    ASSUME SubmittedInv, ShapeInv, NEW q \in Requests, NEW t \in Templates,
           query[q][t] = "running"
    PROVE  /\ StatementFor(q, t).limit \in Nat
           /\ Fetched(StatementFor(q, t).limit) = StatementFor(q, t).limit
  <1>1. t \in Needed(q) /\ Acceptable(q) /\ StatementFor(q, t).limit =< MaxRows
    BY DEF SubmittedInv, GuardAccepts
  <1>2. skill[q] \in {"data", "inventory_risk"} /\ MaxRows \in Nat
    BY LimitsAssumption DEF ShapeInv
  <1>3. StatementFor(q, t).limit = IF t = "top_products" THEN ValuesFor(q, t)["top_n"] ELSE MaxRows
    BY DEF StatementFor, Statement
  <1>4. CASE t = "top_products"
    <2>1. skill[q] = "data" /\ t = chosen[q].template
      BY <1>1, <1>2, <1>4 DEF Needed
    <2>2. Values(chosen[q])["top_n"] \in 1..MaxTopN
      BY <1>1, <1>4, <2>1 DEF Acceptable, ValidArguments, Values, ArgumentsOf
    <2>3. StatementFor(q, t).limit \in Nat
      BY <1>3, <1>4, <2>1, <2>2, LimitsAssumption DEF ValuesFor
    <2>4. QED
      BY <1>1, <1>2, <2>3 DEF Fetched
  <1>5. CASE t # "top_products"
    BY <1>2, <1>3, <1>5 DEF Fetched
  <1>6. QED
    BY <1>4, <1>5

\* An execution returns the first rows of what its statement sees then, or fails.
LEMMA ExecuteRead ==
    ASSUME ReadInv, ScopeInv, NEW q \in Requests, NEW t \in Templates,
           Execute(q, t) \/ ExecuteFails(q, t)
    PROVE  ReadInv'
  <1> USE DEF world
  <1>0. ShapeInv /\ WorldInv /\ SubmittedInv /\ ResultInv /\ AnswerInv
    BY DEF ReadInv, ScopeInv
  <1>1. /\ query[q][t] = "running"
        /\ UNCHANGED <<world, pc, asker, skill, chosen, checked, answer>>
    BY DEF Execute, ExecuteFails
  <1>2. \A r \in Requests :
           /\ Needed(r)' = Needed(r) /\ Acceptable(r)' = Acceptable(r)
           /\ \A u : StatementFor(r, u)' = StatementFor(r, u)
    BY <1>1, LateKeeps
  <1>3. \A r \in Requests, u \in Templates : r # q \/ u # t =>
           /\ query'[r][u] = query[r][u] /\ found'[r][u] = found[r][u]
           /\ full'[r][u] = full[r][u]
    <2>1. CASE Execute(q, t)
      <3>1. PICK s, rows : /\ found' = [found EXCEPT ![q][t] = s]
                           /\ full' = [full EXCEPT ![q][t] = rows]
                           /\ query' = [query EXCEPT ![q][t] = "rows"]
        BY <2>1 DEF Execute
      <3>2. /\ found = [r \in Requests |-> [u \in Templates |-> found[r][u]]]
            /\ full = [r \in Requests |-> [u \in Templates |-> full[r][u]]]
            /\ query \in [Requests -> [Templates -> QueryStates]]
        BY <1>0 DEF ShapeInv, WorldInv
      <3>3. QED
        BY <3>1, <3>2
    <2>2. CASE ExecuteFails(q, t)
      BY <1>0, <2>2 DEF ExecuteFails, ShapeInv
    <2>3. QED
      BY <1>1, <2>1, <2>2 DEF Execute, ExecuteFails
  <1>4. query'[q][t] \in {"rows", "failed"}
    BY <1>0 DEF Execute, ExecuteFails, ShapeInv
  <1>5. pc[q] \in Late /\ t \in Needed(q) /\ Acceptable(q)
    BY <1>0, <1>1 DEF SubmittedInv
  <1>6. WorldInv'
    <2>1. full' = [r \in Requests |-> [u \in Templates |-> full'[r][u]]]
      <3>1. full = [r \in Requests |-> [u \in Templates |-> full[r][u]]]
        BY <1>0 DEF WorldInv
      <3>2. full' = full \/ \E rows : full' = [full EXCEPT ![q][t] = rows]
        BY DEF Execute, ExecuteFails
      <3>3. QED
        BY <3>1, <3>2
    <2>2. QED
      BY <1>0, <1>1, <2>1 DEF WorldInv
  <1>7. SubmittedInv'
    <2>1. \A r \in Requests, u \in Templates : query'[r][u] # "none" =>
             pc[r] \in Late /\ u \in Needed(r) /\ Acceptable(r)
      BY <1>0, <1>3, <1>5 DEF SubmittedInv
    <2>2. \A r \in Requests, u \in Templates :
             query'[r][u] \in {"running", "rows"} => GuardAccepts(StatementFor(r, u))
      <3>1. GuardAccepts(StatementFor(q, t))
        BY <1>0, <1>1 DEF SubmittedInv
      <3>2. QED
        BY <1>0, <1>3, <3>1 DEF SubmittedInv
    <2>3. QED
      BY <1>0, <1>1, <1>2, <2>1, <2>2 DEF SubmittedInv, GuardAccepts
  <1>8. AnswerInv'
    BY <1>0, <1>1 DEF AnswerInv, Excused
  <1>9. ResultInv'
    <2> SUFFICES ASSUME NEW r \in Requests, NEW u \in Templates
                 PROVE  /\ found'[r][u] \in SUBSET Row /\ IsFiniteSet(found'[r][u])
                        /\ query'[r][u] = "rows" =>
                              found'[r][u] \in Leading(u, full'[r][u], StatementFor(r, u).limit)
      BY <1>2 DEF ResultInv, Leading, Before
    <2>1. CASE r # q \/ u # t
      BY <1>0, <1>3, <2>1 DEF ResultInv
    <2>2. CASE r = q /\ u = t /\ ExecuteFails(q, t)
      BY <1>0, <2>2 DEF ResultInv, ExecuteFails, ShapeInv
    <2>3. CASE r = q /\ u = t /\ Execute(q, t)
      <3> DEFINE rows == Rows(asker[q], t, ValuesFor(q, t))
                 n == StatementFor(q, t).limit
      <3>1. PICK s \in Leading(t, rows, Fetched(n)) : found' = [found EXCEPT ![q][t] = s]
        BY <2>3 DEF Execute
      <3>2. found'[q][t] = s /\ full'[q][t] = rows
        BY <1>0, <2>3, <3>1 DEF Execute, ShapeInv, WorldInv
      <3>3. IsResult(rows)
        BY <1>0, RowsResult DEF WorldInv
      <3>4. n \in Nat /\ Fetched(n) = n
        BY <1>0, <1>1, RunningLimit
      <3> HIDE DEF rows, n
      <3>5. s \in Leading(t, rows, n) /\ IsFiniteSet(rows) /\ rows \subseteq Row
        BY <3>1, <3>3, <3>4 DEF IsResult
      <3>6. s \subseteq rows /\ IsFiniteSet(s)
        BY <3>4, <3>5, LeadingRows
      <3>7. QED
        BY <2>3, <3>2, <3>5, <3>6 DEF n
    <2>4. QED
      BY <2>1, <2>2, <2>3
  <1>10. QED
    BY <1>6, <1>7, <1>8, <1>9 DEF ReadInv

\* A number of a row occurs in the excerpt when all rows are in it.
LEMMA BoundOrLong ==
    ASSUME NEW t, NEW rows, IsFiniteSet(rows),
           NEW excerpt \in Leading(t, rows, ExcerptRows)
    PROVE  Excused(t, rows, \A n \in Printed(t, rows) : Occurs(n, excerpt))
  <1>1. Cardinality(rows) =< ExcerptRows => excerpt = rows
    BY LeadingRows, LimitsAssumption
  <1>2. Cardinality(rows) \in Nat /\ ExcerptRows \in Nat
    BY FS_CardinalityType, LimitsAssumption
  <1>3. \A n \in Numbers(rows) : Occurs(n, rows)
    BY DEF Occurs
  <1>4. ASSUME Cardinality(rows) =< ExcerptRows,
               NEW n \in Printed(t, rows), ~Occurs(n, excerpt)
        PROVE  t = "top_products" /\ n \in 1..Cardinality(rows) /\ ~Occurs(n, rows)
    <2>1. ~Occurs(n, rows)
      BY <1>1, <1>4
    <2>2. n \in Positions(t, rows)
      BY <1>3, <1>4, <2>1 DEF Printed
    <2>3. QED
      BY <2>1, <2>2 DEF Positions
  <1>5. Cardinality(rows) =< ExcerptRows \/ Cardinality(rows) > ExcerptRows
    BY <1>2
  <1>6. QED
    BY <1>4, <1>5, Zenon DEF Excused

\* The answers of the two skills, when all executions they wait for returned rows.
LEMMA AnswerRead ==
    ASSUME ReadInv, ScopeInv, NEW q \in Requests, Answer(q)
    PROVE  ReadInv'
  <1> USE DEF world
  <1>0. ShapeInv /\ WorldInv /\ SubmittedInv /\ ResultInv /\ AnswerInv
    BY DEF ReadInv, ScopeInv
  <1>1. /\ pc[q] = "querying" /\ pc' = [pc EXCEPT ![q] = "answered"]
        /\ \A t \in Needed(q) : query[q][t] = "rows"
        /\ UNCHANGED <<world, asker, skill, chosen, checked, query, found, full>>
    BY DEF Answer, HasRows
  <1>2. \A r \in Requests :
           /\ Needed(r)' = Needed(r) /\ Acceptable(r)' = Acceptable(r)
           /\ \A t : StatementFor(r, t)' = StatementFor(r, t)
    BY <1>1, LateKeeps
  <1>3. Needed(q) \subseteq Templates
    BY <1>0, <1>1 DEF SubmittedInv
  <1>4. ASSUME skill[q] = "data" PROVE WorldInv' /\ AnswerInv'
    <2> DEFINE t == chosen[q].template
               rows == found[q][t]
    <2>1. t \in Templates /\ IsFiniteSet(rows)
      BY <1>0, <1>3, <1>4 DEF Needed, ResultInv
    <2>2. PICK excerpt \in Leading(t, rows, ExcerptRows) :
             answer' = [answer EXCEPT ![q] =
                           [shown |-> rows,
                            bound |-> \A n \in Printed(t, rows) : Occurs(n, excerpt)]]
      BY <1>4 DEF Answer
    <2> DEFINE verdict == \A n \in Printed(t, rows) : Occurs(n, excerpt)
    <2>3. Excused(t, rows, verdict)
      <3> HIDE DEF t, rows
      <3> QED BY <2>1, BoundOrLong
    <2>4. answer' = [answer EXCEPT ![q] = [shown |-> rows, bound |-> verdict]]
      BY <2>2
    <2> HIDE DEF verdict
    <2>5. /\ answer'[q].shown = rows /\ answer'[q].bound = verdict
          /\ \A r \in Requests : r # q => answer'[r] = answer[r]
          /\ answer' = [r \in Requests |-> answer'[r]]
          /\ \A r \in Requests : DOMAIN answer'[r] = {"shown", "bound"}
      <3> HIDE DEF rows
      <3> QED BY <1>0, <2>4 DEF WorldInv
    <2>6. WorldInv'
      BY <1>0, <1>1, <2>5 DEF WorldInv
    <2>7. AnswerInv'
      <3> SUFFICES ASSUME NEW r \in Requests, pc'[r] = "answered", skill[r] = "data"
                   PROVE  Excused(chosen[r].template, answer'[r].shown, answer'[r].bound)
        BY <1>1 DEF AnswerInv
      <3>1. CASE r = q
        BY <2>3, <2>5, <3>1
      <3>2. CASE r # q
        BY <1>0, <1>1, <2>5, <3>2 DEF AnswerInv, ShapeInv
      <3>3. QED
        BY <3>1, <3>2
    <2>8. QED
      BY <2>6, <2>7
  <1>5. ASSUME skill[q] # "data" PROVE WorldInv' /\ AnswerInv'
    <2>1. UNCHANGED answer
      BY <1>5 DEF Answer
    <2>2. WorldInv'
      BY <1>0, <1>1, <2>1 DEF WorldInv
    <2>3. AnswerInv'
      BY <1>0, <1>1, <1>5, <2>1 DEF AnswerInv, Excused, ShapeInv
    <2>4. QED
      BY <2>2, <2>3
  <1>6. SubmittedInv'
    BY <1>0, <1>1, <1>2, <1>3 DEF SubmittedInv, ShapeInv, GuardAccepts, Late, Ended
  <1>7. ResultInv'
    BY <1>0, <1>1, <1>2 DEF ResultInv, Leading, Before
  <1>8. QED
    BY <1>4, <1>5, <1>6, <1>7 DEF ReadInv

\* Changes of the views and the grants leave the requests alone.
LEMMA ChangeRead ==
    ASSUME ReadInv, ScopeInv, Sell \/ TakeStock \/ Regrant \/ Done \/ UNCHANGED vars
    PROVE  ReadInv'
  <1>1. UNCHANGED <<pc, asker, skill, chosen, query, found, answer, full>>
    BY DEF Sell, TakeStock, Regrant, Change, Done, vars
  <1>2. WorldInv
    BY DEF ReadInv
  <1>3. /\ sales' \subseteq SalesLines /\ stock' \subseteq StockLines
        /\ grants' \subseteq Principals \X Views
    BY <1>2 DEF WorldInv, Sell, TakeStock, Regrant, Done, vars
  <1>4. changes' \in 0..MaxChanges
    <2>1. changes' = changes \/ (changes < MaxChanges /\ changes' = changes + 1)
      BY DEF Sell, TakeStock, Regrant, Change, Done, vars
    <2>2. QED
      BY <1>2, <2>1, LimitsAssumption DEF WorldInv
  <1>5. WorldInv'
    BY <1>1, <1>2, <1>3, <1>4 DEF WorldInv
  <1>6. QED
    BY <1>1, <1>5, MovesRead

LEMMA NextRead == ASSUME ReadInv, ScopeInv, [Next]_vars PROVE ReadInv'
  <1>1. ASSUME NEW q \in Requests, Ask(q) \/ Step(q) PROVE ReadInv'
    BY <1>1, PhaseRead, SubmitRead, ExecuteRead, AnswerRead DEF Step
  <1>2. QED
    BY <1>1, ChangeRead DEF Next

\* What requests read satisfies its invariant throughout.
LEMMA ReadInvHolds == Spec => [](ScopeInv /\ ReadInv)
  BY InitScope, NextScope, InitRead, NextRead, PTL DEF Spec

\* Every variable has its type, for whatever the model proposes.
THEOREM TypeCorrect == Spec => []TypeOK
  <1>1. ScopeInv /\ ReadInv => TypeOK
    BY DEF ScopeInv, ShapeInv, ReadInv, WorldInv, ResultInv, TypeOK
  <1>2. QED
    BY ReadInvHolds, <1>1, PTL

\* However many rows the views hold, whatever top_n is asked for and wherever sql_max_rows
\* lies, a result is cut by the limit of its own statement and by nothing else.
THEOREM AlwaysOwnLimitHonoured == Spec => []OwnLimitHonoured
  <1>1. ReadInv => OwnLimitHonoured
    BY DEF ReadInv, ResultInv, OwnLimitHonoured
  <1>2. QED
    BY ReadInvHolds, <1>1, PTL

\* A short data answer passes the number check of the review, unless the number of one of
\* its lines occurs in no row: for every table, excerpt length and reading of digits.
THEOREM AlwaysShortTablesPass == Spec => []ShortTablesPass
  <1>1. ASSUME ReadInv PROVE ShortTablesPass
    <2> SUFFICES ASSUME NEW q \in Requests, pc[q] = "answered", skill[q] = "data",
                        ~Review("data", Reviewed(q)).passed
                 PROVE  \/ Cardinality(answer[q].shown) > ExcerptRows
                        \/ /\ chosen[q].template = "top_products"
                           /\ \E n \in 1..Cardinality(answer[q].shown) :
                                 ~Occurs(n, answer[q].shown)
      BY DEF ShortTablesPass
    <2>1. Len(Reviewed(q).kinds) = 1 /\ Reviewed(q).kinds # << >>
      BY DEF Reviewed
    <2>2. ASSUME answer[q].bound = TRUE PROVE FALSE
      <3>1. /\ Reviewed(q).status = "answered" /\ Reviewed(q).cited = {1}
            /\ Reviewed(q).bound = TRUE
        BY <2>2 DEF Reviewed
      <3>2. Reviewed(q).cited \cap (1..1) # {} /\ Reviewed(q).cited \ (1..1) = {}
        BY <3>1
      <3>3. ReviewCode("data", Reviewed(q)) = "REVIEW_PASSED"
        BY <2>1, <3>1, <3>2 DEF ReviewCode
      <3>4. QED
        BY <3>3 DEF Review, ReviewResult
    <2>3. QED
      BY <1>1, <2>2 DEF ReadInv, AnswerInv, Excused
  <1>2. QED
    BY ReadInvHolds, <1>1, PTL
=============================================================================
