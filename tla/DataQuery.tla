----------------------------- MODULE DataQuery ------------------------------
(***************************************************************************)
(* Controlled data queries: the data skill (app/skills/data.py), the       *)
(* inventory risk skill (app/skills/inventory_risk.py) and what both call: *)
(* permissions, the registered templates with the statements they build,   *)
(* the SQL guard and PostgresDatabase.execute_template.  The fixed rows    *)
(* that the tests inject instead (infra/fakes.py) are not modelled.        *)
(*                                                                         *)
(* A line of a view is a record of department, product, day and quantity;  *)
(* a day stands for the unit sales_summary groups by.  A result row is its *)
(* group key, the sum of its quantities and, for the properties only, the  *)
(* departments it was computed from.  Requests interleave with changes of  *)
(* the views and of the data grants.                                       *)
(***************************************************************************)
EXTENDS AnswerReview, FiniteSets, FiniteSetsExt

CONSTANTS
    Requests, Principals, Departments,
    DeptOf,          \* the department claim of each principal
    Executives,      \* principals with the role exec or admin
    Products,        \* product ids, numbers in the order velocity sorts them
    Today,           \* the last of the days 1..Today
    SalesLines, StockLines,      \* lines the two views may come to hold
    FirstSales, FirstStock,      \* lines they hold at first
    Decisions,       \* what the language model may propose
    Threshold,       \* router_confidence_threshold, in percent
    MaxRows,         \* sql_max_rows
    ExcerptRows,     \* rows an evidence excerpt holds (5)
    MaxTopN, DefaultTopN,        \* bound and default of top_n (50 and 5)
    MaxSpan,         \* longest period of a query (366 days)
    Lookback,        \* days of sales the risk skill asks for (30)
    Within,          \* <<n, m>>: the digits of n occur within those of m # n
    GrantStore,      \* APP_DB_DSN is set: grants are read from PostgreSQL
    MaxChanges,      \* bound on changes of the views and the grants
    Null, Malformed, \* values of an argument that are no date or number
    NoTemplate       \* template_id null

SalesView == "v_ai_sales_orders"
StockView == "v_ai_inventory_snapshots"
Views == {SalesView, StockView}

\* The columns the schema catalog allows.
Catalog ==
    [v \in Views |->
        IF v = SalesView
        THEN {"order_id", "order_date", "department_id", "region", "customer_id",
              "product_id", "quantity", "amount"}
        ELSE {"snapshot_date", "department_id", "warehouse_id", "product_id",
              "quantity_on_hand", "quantity_in_transit"}]

Templates == {"sales_summary", "top_products", "inventory_balance",
              "inventory_velocity"}
Unregistered == "unregistered"
Period == {"period_start", "period_end"}

Line == [dept : Departments, product : Products, day : 1..Today, qty : Nat]
Decision(d) == /\ d.template \in Templates \cup {Unregistered, NoTemplate}
               /\ d.confidence \in 0..100

ASSUME InputsAssumption ==
    /\ DeptOf \in [Principals -> Departments]
    /\ Executives \subseteq Principals
    /\ Products \subseteq Nat
    /\ SalesLines \subseteq Line /\ FirstSales \subseteq SalesLines
    /\ StockLines \subseteq Line /\ FirstStock \subseteq StockLines
    /\ IsFiniteSet(SalesLines) /\ IsFiniteSet(StockLines)
    /\ \A d \in Decisions : Decision(d)

ASSUME LimitsAssumption ==
    /\ Today \in Nat /\ MaxRows \in Nat \ {0} /\ ExcerptRows \in Nat
    /\ MaxTopN \in Nat /\ DefaultTopN \in 1..MaxTopN /\ MaxSpan \in Nat
    /\ Lookback \in Nat \ {0} /\ MaxChanges \in Nat /\ Threshold \in 0..100
    /\ GrantStore \in BOOLEAN
    /\ Null \notin Int /\ Malformed \notin Int /\ Null # Malformed

VARIABLES
    sales, stock,     \* lines the two views hold
    grants,    \* active rows of app.data_grants: <<principal, view>>
    changes,   \* how often the views or the grants have changed
    pc,        \* where a request is
    asker, skill,     \* who asked, and the skill the router chose
    chosen,    \* the decision the data skill works on
    checked,   \* templates whose view has been asserted
    query,     \* state of each template's execution
    found,     \* the rows it returned
    answer,    \* the rows the data skill rendered, and the verdict on their numbers
    full,      \* history: the rows before the limit, when it executed
    held       \* history: views granted to the asker during the request

world == <<sales, stock, grants, changes>>
vars == <<sales, stock, grants, changes, pc, asker, skill, chosen,
          checked, query, found, answer, full, held>>
-----------------------------------------------------------------------------
\* Templates: arguments, validation, statements.
ViewOf(t) == IF t = "inventory_balance" THEN StockView ELSE SalesView

ArgumentsOf(t) ==
    CASE t = "inventory_balance" -> {}
      [] t = "top_products"      -> Period \cup {"top_n"}
      [] OTHER                   -> Period

DefaultOf(name) == IF name = "top_n" THEN DefaultTopN ELSE Null

\* Arguments as _validate_arguments completes them; None and "" count as absent.
Values(d) ==
    [name \in ArgumentsOf(d.template) |->
        IF name \in DOMAIN d.args /\ d.args[name] # Null
        THEN d.args[name] ELSE DefaultOf(name)]

ValidPeriod(v) == /\ v["period_start"] =< v["period_end"]
                  /\ v["period_end"] - v["period_start"] =< MaxSpan

ValidArguments(d) ==
    LET v == Values(d)
    IN  /\ DOMAIN d.args \subseteq ArgumentsOf(d.template)
        /\ \A name \in DOMAIN v : v[name] \notin {Null, Malformed}
        /\ Period \subseteq DOMAIN v => ValidPeriod(v)
        /\ "top_n" \in DOMAIN v => v["top_n"] \in 1..MaxTopN

ColumnsOf(t) ==
    CASE t = "sales_summary"     -> {"order_date", "amount", "order_id"}
      [] t = "top_products"      -> {"product_id", "quantity", "amount", "order_date"}
      [] t = "inventory_balance" -> {"product_id", "snapshot_date", "quantity_on_hand",
                                     "quantity_in_transit"}
      [] OTHER                   -> {"product_id", "quantity", "order_date"}

\* The statement of a template; every one but the executives' names the department.
Statement(p, t, v) ==
    [tables   |-> {ViewOf(t)},
     columns  |-> ColumnsOf(t) \cup (IF p \in Executives THEN {} ELSE {"department_id"}),
     subquery |-> t = "inventory_balance",
     limit    |-> IF t = "top_products" THEN v["top_n"] ELSE MaxRows]

\* Mutation: the limit must be below the bound.
GuardAcceptsBelow(s) ==
    /\ ~s.subquery
    /\ s.tables # {} /\ s.tables \subseteq Views
    /\ \A view \in s.tables : s.columns \subseteq Catalog[view]
    /\ s.limit < MaxRows

\* Mutation: the limit is not validated.
GuardAcceptsAnyLimit(s) ==
    /\ ~s.subquery
    /\ s.tables # {} /\ s.tables \subseteq Views
    /\ \A view \in s.tables : s.columns \subseteq Catalog[view]

\* SqlGuard.validate on a single SELECT without CTE or star.
GuardAccepts(s) ==
    /\ ~s.subquery
    /\ s.tables # {} /\ s.tables \subseteq Views
    /\ \A view \in s.tables : s.columns \subseteq Catalog[view]
    /\ s.limit =< MaxRows
-----------------------------------------------------------------------------
\* What a statement returns.
Sees(p, dept) == p \in Executives \/ dept = DeptOf[p]

\* Mutation: the permission clause is forgotten.
InScopeAll(p, lines) == lines
InScope(p, lines) == {l \in lines : Sees(p, l.dept)}

\* The balance is taken over the latest day the principal can see.
Latest(lines) == {l \in lines : \A o \in lines : o.day =< l.day}

Selected(p, t, v) ==
    IF t = "inventory_balance"
    THEN Latest(InScope(p, stock))
    ELSE {l \in InScope(p, sales) :
             v["period_start"] =< l.day /\ l.day =< v["period_end"]}

KeyOf(t, l) == IF t = "sales_summary" THEN l.day ELSE l.product

Quantity(lines) == MapThenSumSet(LAMBDA l : l.qty, lines)

\* One row per group.
Rows(p, t, v) ==
    LET lines == Selected(p, t, v)
        group(k) == {l \in lines : KeyOf(t, l) = k}
    IN  {[key  |-> k, qty |-> Quantity(group(k)),
          from |-> {l.dept : l \in group(k)}] : k \in {KeyOf(t, l) : l \in lines}}

\* The order of a template's rows: by key, or by quantity downwards with ties anyhow.
Before(t, a, b) ==
    IF t \in {"sales_summary", "inventory_velocity"} THEN a.key < b.key
    ELSE a.qty > b.qty

\* The first n rows of a result.
Leading(t, rows, n) ==
    {s \in SUBSET rows :
        /\ Cardinality(s) = IF Cardinality(rows) < n THEN Cardinality(rows) ELSE n
        /\ \A a \in s, b \in rows \ s : ~Before(t, b, a)}
-----------------------------------------------------------------------------
\* The text of an answer prints the numbers of every row, a ranking those of its lines
\* too; an evidence excerpt holds the numbers of the first rows.
Numbers(rows) == UNION {{r.key, r.qty} : r \in rows}

\* Mutation: every table numbers its lines.
PositionsEach(t, rows) == 1..Cardinality(rows)
Positions(t, rows) == IF t = "top_products" THEN 1..Cardinality(rows) ELSE {}

Printed(t, rows) ==
    IF t = "inventory_velocity" THEN {} ELSE Numbers(rows) \cup Positions(t, rows)

\* The reviewer looks for a number anywhere in the excerpt.
Occurs(n, rows) == \E m \in Numbers(rows) : n = m \/ <<n, m>> \in Within
-----------------------------------------------------------------------------
\* Requests.
NoArguments == [name \in {} |-> Null]
NothingChosen == [template |-> NoTemplate, args |-> NoArguments, confidence |-> 0]
NoAnswer == [shown |-> {}, bound |-> TRUE]
NoQueries == [t \in Templates |-> "none"]
NoRows == [t \in Templates |-> {}]

\* What _rule_template may propose when the language model is unavailable.
Rule(template, confidence) ==
    [template |-> template, args |-> NoArguments, confidence |-> confidence]
RuleDecisions == {Rule("inventory_balance", 85), Rule("top_products", 55),
                  Rule("sales_summary", 55)}

Ended == {"answered", "clarified", "failed"}
Running(q) == pc[q] \in {"selecting", "checking", "querying"}

Needed(q) == IF skill[q] = "data" THEN {chosen[q].template}
             ELSE {"inventory_balance", "inventory_velocity"}

\* The values bound to a template; the risk skill looks back from today.
ValuesFor(q, t) ==
    IF skill[q] = "data" THEN Values(chosen[q])
    ELSE [period_start |-> Today - Lookback + 1, period_end |-> Today]

StatementFor(q, t) == Statement(asker[q], t, ValuesFor(q, t))

AllowedViews(p) ==
    IF GrantStore THEN {view \in Views : <<p, view>> \in grants} ELSE Views

Init ==
    /\ sales = FirstSales /\ stock = FirstStock
    /\ grants = Principals \X Views
    /\ changes = 0
    /\ pc = [q \in Requests |-> "idle"]
    /\ asker \in [Requests -> Principals]
    /\ skill \in [Requests -> {"data", "inventory_risk"}]
    /\ chosen = [q \in Requests |-> NothingChosen]
    /\ checked = [q \in Requests |-> {}]
    /\ query = [q \in Requests |-> NoQueries]
    /\ found = [q \in Requests |-> NoRows]
    /\ answer = [q \in Requests |-> NoAnswer]
    /\ full = [q \in Requests |-> NoRows]
    /\ held = [q \in Requests |-> {}]

\* The workflow calls the skill; the data skill first asks the language model.
Ask(q) ==
    /\ pc[q] = "idle"
    /\ pc' = [pc EXCEPT ![q] = IF skill[q] = "data" THEN "selecting" ELSE "checking"]
    /\ held' = [held EXCEPT ![q] = AllowedViews(asker[q])]
    /\ UNCHANGED <<world, asker, skill, chosen, checked, query, found, answer, full>>

\* Mutation: the registry's answer is not looked at.
DecideUnchecked(q) ==
    /\ pc[q] = "selecting"
    /\ \E d \in Decisions \cup RuleDecisions :
          /\ d.template # NoTemplate
          /\ chosen' = [chosen EXCEPT ![q] = d]
    /\ pc' = [pc EXCEPT ![q] = "checking"]
    /\ UNCHANGED <<world, asker, skill, checked, query, found, answer, full, held>>

\* A decision for a registered template goes on to the permission checks.
Decide(q) ==
    /\ pc[q] = "selecting"
    /\ \E d \in Decisions \cup RuleDecisions :
          IF d.template \in Templates
          THEN /\ pc' = [pc EXCEPT ![q] = "checking"]
               /\ chosen' = [chosen EXCEPT ![q] = d]
          ELSE /\ pc' = [pc EXCEPT ![q] = "clarified"]
               /\ UNCHANGED chosen
    /\ UNCHANGED <<world, asker, skill, checked, query, found, answer, full, held>>

\* No rule matches an unavailable model's query, or its decision is malformed.
SelectionFails(q) ==
    /\ pc[q] = "selecting"
    /\ pc' = [pc EXCEPT ![q] = "failed"]
    /\ UNCHANGED <<world, asker, skill, chosen, checked, query, found, answer, full, held>>

\* The risk skill checks the template of the balance first.
NextCheck(q) ==
    IF skill[q] = "data" THEN chosen[q].template
    ELSE IF "inventory_balance" \notin checked[q] THEN "inventory_balance"
    ELSE "inventory_velocity"
LastCheck(q) == Needed(q) \subseteq checked[q] \cup {NextCheck(q)}
MayRead(q) == pc[q] = "checking" /\ ViewOf(NextCheck(q)) \in AllowedViews(asker[q])

CheckView(q) ==
    /\ MayRead(q) /\ ~LastCheck(q)
    /\ checked' = [checked EXCEPT ![q] = @ \cup {NextCheck(q)}]
    /\ UNCHANGED <<world, pc, asker, skill, chosen, query, found, answer, full, held>>

\* assert_view_allowed raises.
Deny(q) ==
    /\ pc[q] = "checking" /\ ~MayRead(q)
    /\ pc' = [pc EXCEPT ![q] = "failed"]
    /\ UNCHANGED <<world, asker, skill, chosen, checked, query, found, answer, full, held>>

\* The data skill validates the arguments and the confidence after the checks.
Acceptable(q) == skill[q] = "data" => /\ ValidArguments(chosen[q])
                                      /\ chosen[q].confidence >= Threshold

Clarify(q) ==
    /\ MayRead(q) /\ LastCheck(q) /\ ~Acceptable(q)
    /\ pc' = [pc EXCEPT ![q] = "clarified"]
    /\ UNCHANGED <<world, asker, skill, chosen, checked, query, found, answer, full, held>>

\* The last check passes and the statements are built and guarded; the risk skill
\* runs its two at once.
Submit(q) ==
    /\ MayRead(q) /\ LastCheck(q) /\ Acceptable(q)
    /\ pc' = [pc EXCEPT ![q] = "querying"]
    /\ checked' = [checked EXCEPT ![q] = @ \cup {NextCheck(q)}]
    /\ query' = [query EXCEPT ![q] =
                    [t \in Templates |->
                        IF t \notin Needed(q) THEN "none"
                        ELSE IF GuardAccepts(StatementFor(q, t)) THEN "running"
                        ELSE "refused"]]
    /\ UNCHANGED <<world, asker, skill, chosen, found, answer, full, held>>

\* fetchmany never takes more rows than the template allows.
Fetched(limit) == IF limit < MaxRows THEN limit ELSE MaxRows

\* The database executes a statement and returns its rows.
Execute(q, t) ==
    /\ query[q][t] = "running"
    /\ LET rows == Rows(asker[q], t, ValuesFor(q, t))
       IN  /\ \E s \in Leading(t, rows, Fetched(StatementFor(q, t).limit)) :
                 found' = [found EXCEPT ![q][t] = s]
           /\ full' = [full EXCEPT ![q][t] = rows]
    /\ query' = [query EXCEPT ![q][t] = "rows"]
    /\ UNCHANGED <<world, pc, asker, skill, chosen, checked, answer, held>>

\* The time limit, or any error of the database.
ExecuteFails(q, t) ==
    /\ query[q][t] = "running"
    /\ query' = [query EXCEPT ![q][t] = "failed"]
    /\ UNCHANGED <<world, pc, asker, skill, chosen, checked, found, answer, full, held>>

HasRows(q) == pc[q] = "querying" /\ \A t \in Needed(q) : query[q][t] = "rows"

\* The data skill renders all rows and cites the first ones as evidence; the risk skill
\* joins its two results.
Answer(q) ==
    /\ HasRows(q)
    /\ LET t == chosen[q].template
           rows == found[q][t]
       IN  IF skill[q] = "data"
           THEN \E excerpt \in Leading(t, rows, ExcerptRows) :
                   answer' = [answer EXCEPT ![q] =
                                 [shown |-> rows,
                                  bound |-> \A n \in Printed(t, rows) : Occurs(n, excerpt)]]
           ELSE UNCHANGED answer
    /\ pc' = [pc EXCEPT ![q] = "answered"]
    /\ UNCHANGED <<world, asker, skill, chosen, checked, query, found, full, held>>

\* Mutation: a failed request starts again.
RaiseAgain(q) ==
    /\ pc[q] = "querying"
    /\ \E t \in Needed(q) : query[q][t] \in {"refused", "failed"}
    /\ pc' = [pc EXCEPT ![q] = "checking"]
    /\ checked' = [checked EXCEPT ![q] = {}]
    /\ UNCHANGED <<world, asker, skill, chosen, query, found, answer, full, held>>

\* The first failing execution is raised; the other one goes on.
Raise(q) ==
    /\ pc[q] = "querying"
    /\ \E t \in Needed(q) : query[q][t] \in {"refused", "failed"}
    /\ pc' = [pc EXCEPT ![q] = "failed"]
    /\ UNCHANGED <<world, asker, skill, chosen, checked, query, found, answer, full, held>>

Step(q) ==
    \/ Decide(q) \/ SelectionFails(q) \/ CheckView(q) \/ Deny(q) \/ Clarify(q)
    \/ Submit(q) \/ Answer(q) \/ Raise(q)
    \/ \E t \in Templates : Execute(q, t) \/ ExecuteFails(q, t)

\* Meanwhile the business goes on, and an administrator edits the data grants.
Change ==
    /\ changes < MaxChanges
    /\ changes' = changes + 1
    /\ UNCHANGED <<pc, asker, skill, chosen, checked, query, found, answer, full>>

Sell ==
    /\ Change
    /\ \E l \in SalesLines \ sales : sales' = sales \cup {l}
    /\ UNCHANGED <<stock, grants, held>>

TakeStock ==
    /\ Change
    /\ \E l \in StockLines \ stock : stock' = stock \cup {l}
    /\ UNCHANGED <<sales, grants, held>>

Regrant ==
    /\ Change
    /\ \E g \in Principals \X Views :
          /\ grants' = IF g \in grants THEN grants \ {g} ELSE grants \cup {g}
          /\ held' = [q \in Requests |->
                        IF Running(q) /\ asker[q] = g[1] /\ g \notin grants
                        THEN held[q] \cup {g[2]} ELSE held[q]]
    /\ UNCHANGED <<sales, stock>>

Quiet == \A q \in Requests : pc[q] \in Ended /\ "running" \notin {query[q][t] : t \in Templates}
Done == Quiet /\ UNCHANGED vars

Next ==
    \/ \E q \in Requests : Ask(q) \/ Step(q)
    \/ Sell \/ TakeStock \/ Regrant \/ Done

Spec == Init /\ [][Next]_vars
FairSpec == Spec /\ \A q \in Requests : WF_vars(Step(q))
-----------------------------------------------------------------------------
\* Properties.

Row == [key : Nat, qty : Nat, from : SUBSET Departments]
QueryStates == {"none", "running", "rows", "refused", "failed"}
States == Ended \cup {"idle", "selecting", "checking", "querying"}

Registered == {d \in Decisions \cup RuleDecisions : d.template \in Templates}

\* Every variable has its type: in particular a request works only on a template the
\* registry holds (QueryTemplateRegistry.get), whatever the model proposes.
TypeOK ==
    /\ sales \subseteq SalesLines /\ stock \subseteq StockLines
    /\ grants \subseteq Principals \X Views /\ changes \in 0..MaxChanges
    /\ pc \in [Requests -> States]
    /\ asker \in [Requests -> Principals]
    /\ skill \in [Requests -> {"data", "inventory_risk"}]
    /\ chosen \in [Requests -> Registered \cup {NothingChosen}]
    /\ checked \in [Requests -> SUBSET Templates]
    /\ query \in [Requests -> [Templates -> QueryStates]]
    /\ held \in [Requests -> SUBSET Views]
    /\ \A q \in Requests, t \in Templates : found[q][t] \in SUBSET Row

\* A result is what the statement's own ORDER BY and LIMIT leave of the view: a top_n the
\* data skill has accepted is honoured or refused by the guard, and fetchmany never cuts
\* the result to sql_max_rows behind the back of the user.
OwnLimitHonoured ==
    \A q \in Requests, t \in Templates :
        query[q][t] = "rows" =>
            found[q][t] \in Leading(t, full[q][t], StatementFor(q, t).limit)

\* What a request read from a view is computed from departments its principal may see
\* (_permission_clause), and the view was granted to the principal at some moment of the
\* request (assert_view_allowed), however grants change between the check and the query.
RowsInScope ==
    \A q \in Requests, t \in Templates :
        query[q][t] = "rows" =>
            /\ ViewOf(t) \in held[q]
            /\ \A row \in found[q][t] : \A d \in row.from : Sees(asker[q], d)

Explained(q, t) ==
    \/ t = "inventory_balance"
    \/ t = "top_products" /\ Values(chosen[q])["top_n"] > MaxRows

\* The guard refuses a statement built from accepted arguments only for the subquery of
\* the stock balance or a top_n above sql_max_rows: a template's own row limit, at its
\* bound, and its columns are always accepted.
RefusalsExplained ==
    \A q \in Requests, t \in Templates :
        query[q][t] = "refused" => Explained(q, t)

\* The outcome the reviewer gets to see of an answer of the data skill.
Reviewed(q) == [status |-> "answered", cited |-> {1}, kinds |-> <<"data">>,
                bound |-> answer[q].bound, plan |-> FALSE]

\* The number check of the review doubts no number of a table that fits in the excerpt:
\* a short answer it refuses is a ranking, one of whose line numbers occurs in no row.
ShortTablesPass ==
    \A q \in Requests :
        /\ pc[q] = "answered" /\ skill[q] = "data"
        /\ ~Review("data", Reviewed(q)).passed
        => \/ Cardinality(answer[q].shown) > ExcerptRows
           \/ /\ chosen[q].template = "top_products"
              /\ \E n \in 1..Cardinality(answer[q].shown) : ~Occurs(n, answer[q].shown)

\* Every approved template whose arguments are accepted can be executed.
ApprovedTemplatesRun ==
    \A q \in Requests : query[q]["inventory_balance"] # "refused"

\* A request that has been asked ends, and leaves no execution running behind it: the
\* model and the statements have time limits, and a failing execution is raised.
RequestsEnd ==
    \A q \in Requests :
        pc[q] # "idle" ~> /\ pc[q] \in Ended
                          /\ \A t \in Templates : query[q][t] # "running"
=============================================================================
