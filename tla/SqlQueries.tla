----------------------------- MODULE SqlQueries -----------------------------
(* What the queries of src/benchmarks ask: the SQL text in the comments above them, read as relational    *)
(* algebra over bags.  Nothing here knows about plans, positions or hash tables.                           *)
(*                                                                                                         *)
(* A bag of rows is a set of pairs <<positions, row>>: the positions in the tables that were joined make   *)
(* equal rows distinct.  sql(q, db) is the set of right answers, more than one when ORDER BY leaves ties.  *)
(* A sum over no rows is 0 here (NULL in SQL).  Query 6 of TPC-H and flight 1 of SSB carry no SQL in the   *)
(* code; the comments of SSB 2.3, 3.3 and 3.4 quote other queries.  These follow the benchmarks.             *)
EXTENDS Integers, Sequences, FiniteSets, SequencesExt

CONSTANTS One, Limit, Fraction, Percent  \* as in TpchQueries

From(table) == {<<<<i>>, table[i]>> : i \in DOMAIN table}
Join(rows, fk, table, pk) ==
  {<<Append(x[1][1], x[2]), x[1][2] @@ table[x[2]]>> :
     x \in {y \in rows \X DOMAIN table : y[1][2][fk] = table[y[2]][pk]}}
Where(rows, P(_)) == {x \in rows : P(x[2])}
Sum(rows, Value(_)) == MapThenSumSet(LAMBDA x : Value(x[2]), rows)
By(names, r) == [n \in names |-> r[n]]

\* Key and Value give records: the columns of GROUP BY, and the summands of the aggregates.
GroupBy(rows, Key(_), Value(_)) ==
  {LET group == Where(rows, LAMBDA r : Key(r) = key)
   IN  key @@ [v \in DOMAIN Value((CHOOSE x \in group : TRUE)[2]) |-> Sum(group, LAMBDA r : Value(r)[v])] :
     key \in {Key(x[2]) : x \in rows}}

\* ORDER BY: the enumerations of the rows in which none comes after one that it precedes.
OrderBy(rows, Precedes(_, _)) ==
  {s \in SetToSeqs(rows) : \A i, j \in DOMAIN s : i < j => ~Precedes(s[j], s[i])}

---------------------------------------------------------------------------
(* Star schema benchmark *)

WithDate(db) == Join(From(db.lineorder), "lo_orderdate", db.date, "d_datekey")
WithSupplier(db) == Join(WithDate(db), "lo_suppkey", db.supplier, "s_suppkey")
WithPart(db) == Join(WithSupplier(db), "lo_partkey", db.part, "p_partkey")
WithCustomer(db) == Join(WithSupplier(db), "lo_custkey", db.customer, "c_custkey")
WithAll(db) == Join(WithPart(db), "lo_custkey", db.customer, "c_custkey")

Lost(r) == r.lo_extendedprice * r.lo_discount
Earned(r) == [revenue |-> r.lo_revenue]
Won(r) == [profit |-> r.lo_revenue - r.lo_supplycost]
UnitedKingdom == {"UNITED KI1", "UNITED KI5"}

SsbAnswers(q, db) ==
  CASE q = "q11" -> {Sum(Where(WithDate(db), LAMBDA r : /\ r.d_year = 1993 /\ r.lo_quantity < 25
                                                        /\ r.lo_discount \in 100..300), Lost)}
    [] q = "q12" -> {Sum(Where(WithDate(db), LAMBDA r : /\ r.d_yearmonthnum = 199401 /\ r.lo_quantity \in 26..35
                                                        /\ r.lo_discount \in 400..600), Lost)}
    [] q = "q13" -> {Sum(Where(WithDate(db), LAMBDA r : /\ r.d_weeknuminyear = 6 /\ r.d_year = 1994
                                                        /\ r.lo_quantity \in 26..35
                                                        /\ r.lo_discount \in 500..700), Lost)}
    [] q = "q21" -> {GroupBy(Where(WithPart(db), LAMBDA r : r.p_category = "MFGR#12" /\ r.s_region = "AMERICA"),
                             LAMBDA r : By({"d_year", "p_brand1"}, r), Earned)}
    [] q = "q22" -> {GroupBy(Where(WithPart(db), LAMBDA r : r.p_brand1 \in 2221..2228 /\ r.s_region = "ASIA"),
                             LAMBDA r : By({"d_year", "p_brand1"}, r), Earned)}
    [] q = "q23" -> {GroupBy(Where(WithPart(db), LAMBDA r : r.p_brand1 = 2221 /\ r.s_region = "EUROPE"),
                             LAMBDA r : By({"d_year", "p_brand1"}, r), Earned)}
    [] q = "q31" -> {GroupBy(Where(WithCustomer(db), LAMBDA r : /\ r.c_region = "ASIA" /\ r.s_region = "ASIA"
                                                               /\ r.d_year \in 1992..1997),
                             LAMBDA r : By({"c_nation", "s_nation", "d_year"}, r), Earned)}
    [] q = "q32" -> {GroupBy(Where(WithCustomer(db), LAMBDA r : /\ r.c_nation = "UNITED STATES"
                                                               /\ r.s_nation = "UNITED STATES"
                                                               /\ r.d_year \in 1992..1997),
                             LAMBDA r : By({"c_city", "s_city", "d_year"}, r), Earned)}
    [] q = "q33" -> {GroupBy(Where(WithCustomer(db), LAMBDA r : /\ {r.c_city, r.s_city} \subseteq UnitedKingdom
                                                               /\ r.d_year \in 1992..1997),
                             LAMBDA r : By({"c_city", "s_city", "d_year"}, r), Earned)}
    [] q = "q34" -> {GroupBy(Where(WithCustomer(db), LAMBDA r : /\ {r.c_city, r.s_city} \subseteq UnitedKingdom
                                                               /\ r.d_yearmonth = "Dec1997"),
                             LAMBDA r : By({"c_city", "s_city", "d_year"}, r), Earned)}
    [] q = "q41" -> {GroupBy(Where(WithAll(db), LAMBDA r : /\ r.c_region = "AMERICA" /\ r.s_region = "AMERICA"
                                                          /\ r.p_mfgr \in {"MFGR#1", "MFGR#2"}),
                             LAMBDA r : By({"d_year", "c_nation"}, r), Won)}
    [] q = "q42" -> {GroupBy(Where(WithAll(db), LAMBDA r : /\ r.c_region = "AMERICA" /\ r.s_region = "AMERICA"
                                                          /\ r.d_year \in {1997, 1998}
                                                          /\ r.p_mfgr \in {"MFGR#1", "MFGR#2"}),
                             LAMBDA r : By({"d_year", "s_nation", "p_category"}, r), Won)}
    [] q = "q43" -> {GroupBy(Where(WithAll(db), LAMBDA r : /\ r.c_region = "AMERICA"
                                                          /\ r.s_nation = "UNITED STATES"
                                                          /\ r.d_year \in {1997, 1998}
                                                          /\ r.p_category = "MFGR#14"),
                             LAMBDA r : By({"d_year", "s_city", "p_brand1"}, r), Won)}

---------------------------------------------------------------------------
(* TPC-H *)

WithOrders(db) == Join(From(db.lineitem), "l_orderkey", db.orders, "o_orderkey")
WithBuyer(db) == Join(WithOrders(db), "o_custkey", db.customer, "c_custkey")
LinePrice(r) == r.l_extendedprice * (One - r.l_discount)
RevenueSum(r) == [revenue |-> LinePrice(r)]
Has(words, w) == \E i \in DOMAIN words : words[i] = w

q5_sql(db) ==
  LET rows == Join(Join(Join(WithBuyer(db), "l_suppkey", db.supplier, "s_suppkey"),
                        "s_nationkey", db.nation, "n_nationkey"), "n_regionkey", db.region, "r_regionkey")
  IN  GroupBy(Where(rows, LAMBDA r : /\ r.c_nationkey = r.s_nationkey /\ r.r_name = "ASIA"
                                     /\ r.o_orderdate >= 19940101 /\ r.o_orderdate < 19950101),
              LAMBDA r : By({"n_name"}, r), RevenueSum)

q9_sql(db) ==
  LET rows == Join(Join(Join(Join(WithOrders(db), "l_suppkey", db.supplier, "s_suppkey"),
                             "s_nationkey", db.nation, "n_nationkey"),
                        "l_partkey", db.part, "p_partkey"), "l_suppkey", db.partsupp, "ps_suppkey")
  IN  GroupBy(Where(rows, LAMBDA r : r.ps_partkey = r.l_partkey /\ Has(r.p_name, "green")),
              LAMBDA r : [nation |-> r.n_name, o_year |-> r.o_orderdate \div 10000],
              LAMBDA r : [sum_profit |-> LinePrice(r) - r.ps_supplycost * r.l_quantity])

\* LIMIT: the first rows of an ordered answer.
q10_sql(db) ==
  LET rows == Where(Join(WithBuyer(db), "c_nationkey", db.nation, "n_nationkey"),
                    LAMBDA r : /\ r.o_orderdate >= 19931001 /\ r.o_orderdate < 19940101
                               /\ r.l_returnflag = "R")
      answers == OrderBy(GroupBy(rows, LAMBDA r : By({"c_custkey", "n_name"}, r), RevenueSum),
                         LAMBDA a, b : a.revenue > b.revenue)
  IN  {SubSeq(s, 1, Min({Limit, Len(s)})) : s \in answers}

q11_sql(db) ==
  LET rows == Where(Join(Join(From(db.partsupp), "ps_suppkey", db.supplier, "s_suppkey"),
                         "s_nationkey", db.nation, "n_nationkey"), LAMBDA r : r.n_name = "GERMANY")
      Stock(r) == r.ps_supplycost * r.ps_availqty
      all == Sum(rows, Stock)
  IN  OrderBy({g \in GroupBy(rows, LAMBDA r : By({"ps_partkey"}, r), LAMBDA r : [value |-> Stock(r)]) :
                 g.value * Fraction > all}, LAMBDA a, b : a.value > b.value)

\* The left outer join gives a customer without such an order a count of 0.
q13_sql(db) ==
  LET Special(words) == \E i, j \in DOMAIN words : i < j /\ words[i] = "special" /\ words[j] = "requests"
      Orders(c) == Cardinality({i \in DOMAIN db.orders : /\ db.orders[i].o_custkey = c.c_custkey
                                                         /\ ~Special(db.orders[i].o_comment)})
  IN  OrderBy(GroupBy(From(db.customer), LAMBDA c : [c_count |-> Orders(c)], LAMBDA c : [custdist |-> 1]),
              LAMBDA a, b : a.custdist > b.custdist \/ (a.custdist = b.custdist /\ a.c_count > b.c_count))

\* A quotient of sums, truncated to the places of its type.
q14_sql(db) ==
  LET rows == Where(Join(From(db.lineitem), "l_partkey", db.part, "p_partkey"),
                    LAMBDA r : r.l_shipdate >= 19950901 /\ r.l_shipdate < 19951001)
      all   == Sum(rows, LinePrice)
      promo == Sum(Where(rows, LAMBDA r : r.p_type # <<>> /\ r.p_type[1] = "PROMO"), LinePrice)
  IN  IF all = 0 THEN {0} ELSE {x \in 0..Percent : x * all <= promo * Percent /\ promo * Percent < (x + 1) * all}

q15_sql(db) ==
  LET revenue == GroupBy(Where(From(db.lineitem), LAMBDA r : r.l_shipdate >= 19960101 /\ r.l_shipdate < 19960401),
                         LAMBDA r : [supplier_no |-> r.l_suppkey], LAMBDA r : [total_revenue |-> LinePrice(r)])
  IN  SetToSeqs({[s_suppkey |-> g.supplier_no, total_revenue |-> g.total_revenue] :
                   g \in {x \in revenue : \A y \in revenue : y.total_revenue <= x.total_revenue}})

\* Prices are cents and the answer has four places: a hundred times the sum, divided by seven, rounded.
q17_sql(db) ==
  LET OfPart(key) == {i \in DOMAIN db.lineitem : db.lineitem[i].l_partkey = key}
      Quantity(key) == MapThenSumSet(LAMBDA i : db.lineitem[i].l_quantity, OfPart(key))
      rows == Where(Join(From(db.lineitem), "l_partkey", db.part, "p_partkey"),
                    LAMBDA r : /\ r.p_brand = "Brand#23" /\ r.p_container = "MED BOX"
                               /\ 5 * r.l_quantity * Cardinality(OfPart(r.l_partkey)) < Quantity(r.l_partkey))
      cents == Sum(rows, LAMBDA r : r.l_extendedprice)
  IN  {x \div 7 : x \in {y \in (100 * cents - 3)..(100 * cents + 3) : y % 7 = 0}}

q18_sql(db) ==
  LET Quantity(key) == Sum(Where(From(db.lineitem), LAMBDA r : r.l_orderkey = key), LAMBDA r : r.l_quantity)
  IN  GroupBy(Where(WithBuyer(db), LAMBDA r : Quantity(r.o_orderkey) > 30000),
              LAMBDA r : By({"c_name", "c_custkey", "o_orderkey", "o_orderdate", "o_totalprice"}, r),
              LAMBDA r : [sum |-> r.l_quantity])

TpchAnswers(q, db) ==
  CASE q = "q1" -> {GroupBy(Where(From(db.lineitem), LAMBDA r : r.l_shipdate <= 19980902),
                            LAMBDA r : By({"l_returnflag", "l_linestatus"}, r),
                            LAMBDA r : [sum_qty |-> r.l_quantity, sum_base_price |-> r.l_extendedprice,
                                        sum_disc_price |-> LinePrice(r),
                                        sum_charge |-> LinePrice(r) * (One + r.l_tax), count_order |-> 1])}
    [] q = "q3" -> {GroupBy(Where(WithBuyer(db), LAMBDA r : /\ r.c_mktsegment = "BUILDING"
                                                           /\ r.o_orderdate < 19950315
                                                           /\ r.l_shipdate > 19950315),
                            LAMBDA r : By({"l_orderkey", "o_orderdate", "o_shippriority"}, r), RevenueSum)}
    [] q = "q4" -> {GroupBy(Where(From(db.orders), LAMBDA o :
                              /\ o.o_orderdate >= 19930701 /\ o.o_orderdate < 19931001
                              /\ \E i \in DOMAIN db.lineitem : /\ db.lineitem[i].l_orderkey = o.o_orderkey
                                                               /\ db.lineitem[i].l_commitdate < db.lineitem[i].l_receiptdate),
                            LAMBDA o : By({"o_orderpriority"}, o), LAMBDA o : [order_count |-> 1])}
    [] q = "q5" -> {q5_sql(db)}
    [] q = "q6" -> {Sum(Where(From(db.lineitem), LAMBDA r : /\ r.l_shipdate >= 19940101 /\ r.l_shipdate < 19950101
                                                            /\ r.l_quantity < 2400 /\ r.l_discount \in 5..7),
                        LAMBDA r : r.l_extendedprice * r.l_discount)}
    [] q = "q9" -> {q9_sql(db)}
    [] q = "q10" -> q10_sql(db)
    [] q = "q11" -> q11_sql(db)
    [] q = "q12" -> {GroupBy(Where(WithOrders(db), LAMBDA r :
                               /\ r.l_shipmode \in {"MAIL", "SHIP"}
                               /\ r.l_commitdate < r.l_receiptdate /\ r.l_shipdate < r.l_commitdate
                               /\ r.l_receiptdate >= 19940101 /\ r.l_receiptdate < 19950101),
                             LAMBDA r : By({"l_shipmode"}, r),
                             LAMBDA r : IF r.o_orderpriority \in {"1-URGENT", "2-HIGH"}
                                        THEN [high_line_count |-> 1, low_line_count |-> 0]
                                        ELSE [high_line_count |-> 0, low_line_count |-> 1])}
    [] q = "q13" -> q13_sql(db)
    [] q = "q14" -> q14_sql(db)
    [] q = "q15" -> q15_sql(db)
    [] q = "q17" -> q17_sql(db)
    [] q = "q18" -> {q18_sql(db)}
=============================================================================
