---------------------------- MODULE MCDataQuery -----------------------------
(***************************************************************************)
(* A small instance of DataQuery: an employee and an executive, two        *)
(* departments, three products and three days, limits scaled down.         *)
(***************************************************************************)
EXTENDS DataQuery, TLC

CONSTANTS emp, boss, shop, plant

Claims == (emp :> shop @@ boss :> plant)

\* A number of one digit occurs within those of two it is part of.
Digits == {<<n, m>> \in (0..9) \X (10..99) : n \in {m % 10, m \div 10}}

L(dept, product, day, qty) ==
    [dept |-> dept, product |-> product, day |-> day, qty |-> qty]

\* Old and new sales of both departments; the plant sells one product more.
Sales0 == {L(shop, 1, 1, 1), L(shop, 2, 2, 2), L(shop, 2, 3, 2), L(plant, 1, 3, 1)}
SalesAll == Sales0 \cup {L(shop, 3, 3, 4), L(plant, 3, 2, 1)}

Stock0 == {L(shop, 1, 2, 1), L(shop, 2, 2, 0), L(plant, 1, 2, 2)}
StockAll == Stock0 \cup {L(shop, 3, 2, 0), L(plant, 3, 2, 9), L(shop, 2, 3, 5)}

D(template, args, confidence) ==
    [template |-> template, args |-> args, confidence |-> confidence]
P(from, to) == [period_start |-> from, period_end |-> to]
N(from, to, n) == [period_start |-> from, period_end |-> to, top_n |-> n]

Proposals ==
    {D(NoTemplate, <<>>, 20), D("unregistered", <<>>, 90),
     D("sales_summary", P(1, 3), 90), D("sales_summary", P(2, 3), 40),
     D("sales_summary", P(2, 2), 90),
     D("sales_summary", P(3, 2), 90), D("sales_summary", P(0, 3), 90),
     D("sales_summary", P(Null, 3), 90), D("sales_summary", P(Malformed, 3), 90),
     D("sales_summary", N(1, 3, 1), 90),
     D("top_products", P(2, 3), 90), D("top_products", N(1, 3, Null), 90),
     D("top_products", N(1, 3, 0), 90), D("top_products", N(1, 3, 2), 90),
     D("top_products", N(1, 3, 3), 90), D("top_products", N(1, 3, 4), 90),
     D("inventory_velocity", P(1, 3), 90), D("inventory_balance", P(1, 3), 90)}
=============================================================================
