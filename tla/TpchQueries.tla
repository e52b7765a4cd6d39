----------------------------- MODULE TpchQueries -----------------------------
(* The plans of src/benchmarks/tpch/queries.  qN_hyper is the loop nest of the compiled query, qN_plan    *)
(* the vectorwise plan that getQuery builds, with what qN_vectorwise does to its result.                   *)
(*                                                                                                         *)
(* Names of buffers and selection vectors are those of the code.  Dates are numbers, prices, quantities    *)
(* and discounts the integers of their fixed-point form.  A name or a comment that a query searches for    *)
(* words is a sequence of words.  Averages are left out of query 1 as in the code.                         *)
EXTENDS PlanOperators

CONSTANTS One,       \* 1.00 in the fixed-point form of a discount (100 in the code)
          Limit,     \* rows that query 10 reports (20 in the code)
          Fraction,  \* 1 / 0.0001 of query 11 (10000 in the code)
          Percent    \* 100.000000 of query 14 in the fixed-point form of its result (100000000)

Always(r) == TRUE
IsBuilding(x) == x = "BUILDING"

\* l_extendedprice * (one - l_discount), of a row and of the rows that sel names.
Revenue(r) == r.l_extendedprice * (One - r.l_discount)
RevenueSel(lineitem, sel) ==
  LET result_proj_minus == [i \in DOMAIN sel |-> One - Lookup(Column(lineitem, "l_discount"), sel)[i]]
  IN  [i \in DOMAIN sel |-> Lookup(Column(lineitem, "l_extendedprice"), sel)[i] * result_proj_minus[i]]

---------------------------------------------------------------------------
(* Query 1 *)

q1_hyper(db) ==
  Compiled(<<>>, PreAggregate(db.lineitem, LAMBDA r : r.l_shipdate <= 19980902,
    LAMBDA r : [l_returnflag |-> r.l_returnflag, l_linestatus |-> r.l_linestatus],
    LAMBDA r : [sum_qty |-> r.l_quantity, sum_base_price |-> r.l_extendedprice, sum_disc_price |-> Revenue(r),
                sum_charge |-> Revenue(r) * (One + r.l_tax), count_order |-> 1]))

q1_plan(db) ==
  LET lineitem   == db.lineitem
      sel_date   == Sel(LAMBDA x : x <= 19980902, Column(lineitem, "l_shipdate"))
      At(name)   == Lookup(Column(lineitem, name), sel_date)
      disc_price == RevenueSel(lineitem, sel_date)
      charge     == [i \in DOMAIN sel_date |-> disc_price[i] * (At("l_tax")[i] + One)]
  IN  HashGroup(Len(sel_date),
        [l_returnflag |-> At("l_returnflag"), l_linestatus |-> At("l_linestatus")],
        [sum_qty |-> At("l_quantity"), sum_base_price |-> At("l_extendedprice"),
         sum_disc_price |-> disc_price, sum_charge |-> charge, count_order |-> [i \in DOMAIN sel_date |-> 1]])

---------------------------------------------------------------------------
(* Query 3 *)

q3_hyper(db) ==
  LET ht1 == Hashset(db.customer, LAMBDA c : c.c_mktsegment = "BUILDING", "c_custkey")
      ht2 == Hashmapx(db.orders, LAMBDA o : o.o_orderdate < 19950315 /\ o.o_custkey \in ht1, "o_orderkey",
                      LAMBDA o : [o_orderdate |-> o.o_orderdate, o_shippriority |-> o.o_shippriority])
  IN  Compiled(<<ht1, DOMAIN ht2>>,
        PreAggregate(db.lineitem,
          LAMBDA r : r.l_shipdate > 19950315 /\ r.l_orderkey \in DOMAIN ht2,
          LAMBDA r : [l_orderkey |-> r.l_orderkey] @@ ht2[r.l_orderkey],
          LAMBDA r : [revenue |-> Revenue(r)]))

q3_plan(db) ==
  LET orders       == db.orders
      lineitem     == db.lineitem
      sel_cust     == Sel(IsBuilding, Column(db.customer, "c_mktsegment"))
      sel_order    == Sel(LAMBDA x : x < 19950315, Column(orders, "o_orderdate"))
      cust_ord     == ProbeRows(HashJoin(Lookup(Column(db.customer, "c_custkey"), sel_cust),
                                         Lookup(Column(orders, "o_custkey"), sel_order)), sel_order).probe
      sel_lineitem == Sel(LAMBDA x : x > 19950315, Column(lineitem, "l_shipdate"))
      j1_lineitem  == ProbeRows(HashJoin(Lookup(Column(orders, "o_orderkey"), cust_ord),
                                         Lookup(Column(lineitem, "l_orderkey"), sel_lineitem)), sel_lineitem)
      BuildValue(name) == Lookup(Lookup(Column(orders, name), cust_ord), j1_lineitem.build)
  IN  HashGroup(Len(j1_lineitem.probe),
        [l_orderkey |-> Lookup(Column(lineitem, "l_orderkey"), j1_lineitem.probe),
         o_orderdate |-> BuildValue("o_orderdate"), o_shippriority |-> BuildValue("o_shippriority")],
        [revenue |-> RevenueSel(lineitem, j1_lineitem.probe)])

---------------------------------------------------------------------------
(* Query 4: the semi-join with lineitem is a join with its groups. *)

q4_hyper(db) ==
  LET lateOrders == Hashset(db.lineitem, LAMBDA r : r.l_commitdate < r.l_receiptdate, "l_orderkey")
  IN  Compiled(<<lateOrders>>,
        PreAggregate(db.orders,
          LAMBDA o : o.o_orderdate < 19931001 /\ o.o_orderdate >= 19930701 /\ o.o_orderkey \in lateOrders,
          LAMBDA o : [o_orderpriority |-> o.o_orderpriority],
          LAMBDA o : [order_count |-> 1]))

q4_plan(db) ==
  LET orders       == db.orders
      lineitem     == db.lineitem
      sel_lineitem == SelectSeq([i \in DOMAIN lineitem |-> i],
                                LAMBDA i : lineitem[i].l_commitdate < lineitem[i].l_receiptdate)
      lineitem_groups == SetToSeq(HashGroup(Len(sel_lineitem),
                           [l_orderkey |-> Lookup(Column(lineitem, "l_orderkey"), sel_lineitem)], <<>>))
      sel_order    == Sel(LAMBDA x : x < 19931001, Column(orders, "o_orderdate"))
      sel_order2   == SelSel(LAMBDA x : x >= 19930701, sel_order, Column(orders, "o_orderdate"))
      order_matches == ProbeRows(HashJoin(Column(lineitem_groups, "l_orderkey"),
                                          Lookup(Column(orders, "o_orderkey"), sel_order2)), sel_order2).probe
  IN  HashGroup(Len(order_matches),
        [o_orderpriority |-> Lookup(Column(orders, "o_orderpriority"), order_matches)],
        [order_count |-> [i \in DOMAIN order_matches |-> 1]])

---------------------------------------------------------------------------
(* Query 5: the join with supplier has a key of two attributes. *)

q5_hyper(db) ==
  LET ht1 == Hashset(db.region, LAMBDA r : r.r_name = "ASIA", "r_regionkey")
      ht2 == Hashmapx(db.nation, LAMBDA n : n.n_regionkey \in ht1, "n_nationkey", LAMBDA n : n.n_name)
      ht3 == Hashmapx(db.customer, LAMBDA c : c.c_nationkey \in DOMAIN ht2, "c_custkey",
                      LAMBDA c : [nationkey |-> c.c_nationkey, n_name |-> ht2[c.c_nationkey]])
      ht4 == Hashmapx(db.orders, LAMBDA o : /\ o.o_orderdate < 19950101 /\ o.o_orderdate >= 19940101
                                            /\ o.o_custkey \in DOMAIN ht3,
                      "o_orderkey", LAMBDA o : ht3[o.o_custkey])
      ht5 == {<<s.s_suppkey, s.s_nationkey>> : s \in Range(db.supplier)}
  IN  Compiled(<<ht1, DOMAIN ht2, DOMAIN ht3, DOMAIN ht4, ht5>>,
        PreAggregate(db.lineitem,
          LAMBDA r : /\ r.l_orderkey \in DOMAIN ht4
                     /\ <<r.l_suppkey, ht4[r.l_orderkey].nationkey>> \in ht5,
          LAMBDA r : [n_name |-> ht4[r.l_orderkey].n_name],
          LAMBDA r : [revenue |-> Revenue(r)]))

q5_plan(db) ==
  LET nation       == db.nation
      customer     == db.customer
      orders       == db.orders
      supplier     == db.supplier
      lineitem     == db.lineitem
      sel_region   == Sel(LAMBDA x : x = "ASIA", Column(db.region, "r_name"))
      join_reg_nat == HashJoin(Lookup(Column(db.region, "r_regionkey"), sel_region),
                               Column(nation, "n_regionkey")).probe
      join_cust    == HashJoin(Lookup(Column(nation, "n_nationkey"), join_reg_nat),
                               Column(customer, "c_nationkey"))
      n_name       == Lookup(Lookup(Column(nation, "n_name"), join_reg_nat), join_cust.build)
      sel_ord      == Sel(LAMBDA x : x < 19950101, Column(orders, "o_orderdate"))
      sel_ord2     == SelSel(LAMBDA x : x >= 19940101, sel_ord, Column(orders, "o_orderdate"))
      join_ord     == ProbeRows(HashJoin(Lookup(Column(customer, "c_custkey"), join_cust.probe),
                                         Lookup(Column(orders, "o_custkey"), sel_ord2)), sel_ord2)
      join_ord_nationkey == Lookup(Lookup(Column(customer, "c_nationkey"), join_cust.probe), join_ord.build)
      n_name2      == Lookup(n_name, join_ord.build)
      join_line    == HashJoin(Lookup(Column(orders, "o_orderkey"), join_ord.probe),
                               Column(lineitem, "l_orderkey"))
      join_line_nationkey == Lookup(join_ord_nationkey, join_line.build)
      line_name    == Lookup(n_name2, join_line.build)
      join_supp    == PairJoinPushed(Column(supplier, "s_nationkey"), Column(supplier, "s_suppkey"),
                                     join_line_nationkey, Column(lineitem, "l_suppkey"), join_line.probe)
  IN  HashGroup(Len(join_supp.probe), [n_name |-> Lookup(line_name, join_supp.probe)],
                [revenue |-> RevenueSel(lineitem, join_supp.line)])

---------------------------------------------------------------------------
(* Query 6 *)

q6_hyper(db) ==
  Compiled(<<>>, Reduce(db.lineitem,
         LAMBDA r : /\ r.l_shipdate >= 19940101 /\ r.l_shipdate < 19950101
                    /\ r.l_quantity < 2400
                    /\ r.l_discount >= 5 /\ r.l_discount <= 7,
         LAMBDA r : r.l_extendedprice * r.l_discount))

q6_plan(db) ==
  LET lineitem == db.lineitem
      date == Column(lineitem, "l_shipdate")
      disc == Column(lineitem, "l_discount")
      sel1 == Sel(LAMBDA x : x < 19950101, date)
      sel2 == SelSel(LAMBDA x : x >= 19940101, sel1, date)
      sel3 == SelSel(LAMBDA x : x < 2400, sel2, Column(lineitem, "l_quantity"))
      sel4 == SelSel(LAMBDA x : x >= 5, sel3, disc)
      sel5 == SelSel(LAMBDA x : x <= 7, sel4, disc)
  IN  Total([i \in DOMAIN sel5 |-> Lookup(Column(lineitem, "l_extendedprice"), sel5)[i] * Lookup(disc, sel5)[i]])

---------------------------------------------------------------------------
(* Query 9: ht5 of the compiled plan and the build side of ordersx have several entries for an order. *)

Green(words) == \E i \in DOMAIN words : words[i] = "green"
extractYear(date) == date \div 10000
Years(dates) == [i \in DOMAIN dates |-> extractYear(dates[i])]

\* Project: the value of each line of an order less what its part costs.
Amounts(l_extendedprice, l_discount, ps_supplycost, l_quantity) ==
  [i \in DOMAIN l_extendedprice |->
     l_extendedprice[i] * (One - l_discount[i]) - ps_supplycost[i] * l_quantity[i]]

q9_hyper(db) ==
  LET ht1 == Hashmapx(db.nation, Always, "n_nationkey", LAMBDA n : n.n_name)
      ht2 == Hashmapx(db.supplier, LAMBDA s : s.s_nationkey \in DOMAIN ht1, "s_suppkey",
                      LAMBDA s : ht1[s.s_nationkey])
      ht3 == Hashset(db.part, LAMBDA p : Green(p.p_name), "p_partkey")
      reached4 == {i \in DOMAIN db.partsupp :
                     db.partsupp[i].ps_partkey \in ht3 /\ db.partsupp[i].ps_suppkey \in DOMAIN ht2}
      PartKey(r) == <<r.ps_partkey, r.ps_suppkey>>
      ht4 == [key \in {PartKey(db.partsupp[i]) : i \in reached4} |->
                LET row == db.partsupp[CHOOSE i \in reached4 : PartKey(db.partsupp[i]) = key]
                IN  [nation |-> ht2[row.ps_suppkey], supplycost |-> row.ps_supplycost]]
      LinePart(r) == <<r.l_partkey, r.l_suppkey>>
      ht5 == {i \in DOMAIN db.lineitem : LinePart(db.lineitem[i]) \in DOMAIN ht4}
      \* an order of the outermost loop with an entry of its chain
      pairs == {x \in (DOMAIN db.orders) \X ht5 : db.lineitem[x[2]].l_orderkey = db.orders[x[1]].o_orderkey}
      Part(x) == ht4[LinePart(db.lineitem[x[2]])]
  IN  Compiled(<<DOMAIN ht1, DOMAIN ht2, ht3, DOMAIN ht4, ht5>>,
        Groups(pairs,
          LAMBDA x : [nation |-> Part(x).nation, o_year |-> extractYear(db.orders[x[1]].o_orderdate)],
          LAMBDA x : [sum_profit |-> Revenue(db.lineitem[x[2]])
                                     - Part(x).supplycost * db.lineitem[x[2]].l_quantity]))

q9_plan(db) ==
  LET partsupp == db.partsupp
      lineitem == db.lineitem
      supplier == db.supplier
      nation_supplier == HashJoin(Column(db.nation, "n_nationkey"), Column(supplier, "s_nationkey"))
      n_name   == Lookup(Column(db.nation, "n_name"), nation_supplier.build)
      sel_part == Sel(Green, Column(db.part, "p_name"))
      part_partsupp == HashJoin(Lookup(Column(db.part, "p_partkey"), sel_part),
                                Column(partsupp, "ps_partkey")).probe
      pspp     == ProbeRows(HashJoin(Lookup(Column(supplier, "s_suppkey"), nation_supplier.probe),
                                     Lookup(Column(partsupp, "ps_suppkey"), part_partsupp)), part_partsupp)
      pspp_name == Lookup(n_name, pspp.build)
      ps_partkey == Lookup(Column(partsupp, "ps_partkey"), pspp.probe)
      ps_suppkey == Lookup(Column(partsupp, "ps_suppkey"), pspp.probe)
      xlineitem  == PairJoin(ps_partkey, ps_suppkey, Column(lineitem, "l_partkey"), Column(lineitem, "l_suppkey"))
      line_name  == Lookup(pspp_name, xlineitem.build)
      line_cost  == Lookup(Lookup(Column(partsupp, "ps_supplycost"), pspp.probe), xlineitem.build)
      ordersx    == HashJoin(Lookup(Column(lineitem, "l_orderkey"), xlineitem.probe), Column(db.orders, "o_orderkey"))
      BuildValue(name) == Lookup(Lookup(Column(lineitem, name), xlineitem.probe), ordersx.build)
      ps_supplycost == Lookup(line_cost, ordersx.build)
      amount     == Amounts(BuildValue("l_extendedprice"), BuildValue("l_discount"), ps_supplycost,
                            BuildValue("l_quantity"))
      o_year     == Years(Lookup(Column(db.orders, "o_orderdate"), ordersx.probe))
  IN  HashGroup(Len(ordersx.probe), [nation |-> Lookup(line_name, ordersx.build), o_year |-> o_year],
                [sum_profit |-> amount])

---------------------------------------------------------------------------
(* Query 10 *)

\* finishQ10: the rows of the customers with revenue, the greatest first, at most Limit of them.
finishQ10(db, revenues) ==
  LET nationName(key) == (CHOOSE n \in Range(db.nation) : n.n_nationkey = key).n_name
      rows == {[c_custkey |-> y[1].c_custkey, revenue |-> y[2].revenue, n_name |-> nationName(y[1].c_nationkey)] :
                 y \in {x \in Range(db.customer) \X revenues : x[1].c_custkey = x[2].c_custkey}}
      sorted == SetToSortSeq(rows, LAMBDA l, r : \/ l.revenue > r.revenue
                                                 \/ l.revenue = r.revenue /\ l.c_custkey < r.c_custkey)
  IN  SubSeq(sorted, 1, IF Len(sorted) > Limit THEN Limit ELSE Len(sorted))

q10_hyper(db) ==
  LET orderCustomers == Hashmapx(db.orders,
                                 LAMBDA o : o.o_orderdate >= 19931001 /\ o.o_orderdate < 19940101,
                                 "o_orderkey", LAMBDA o : o.o_custkey)
  IN  Compiled(<<DOMAIN orderCustomers>>,
        finishQ10(db, PreAggregate(db.lineitem,
          LAMBDA r : r.l_returnflag = "R" /\ r.l_orderkey \in DOMAIN orderCustomers,
          LAMBDA r : [c_custkey |-> orderCustomers[r.l_orderkey]],
          LAMBDA r : [revenue |-> Revenue(r)])))

q10_plan(db) ==
  LET orders       == db.orders
      lineitem     == db.lineitem
      o_orderdate  == Column(orders, "o_orderdate")
      sel_order    == Sel(LAMBDA x : x < 19940101, o_orderdate)
      sel_order2   == SelSel(LAMBDA x : x >= 19931001, sel_order, o_orderdate)
      sel_lineitem == Sel(LAMBDA x : x = "R", Column(lineitem, "l_returnflag"))
      order_line   == ProbeRows(HashJoin(Lookup(Column(orders, "o_orderkey"), sel_order2),
                                         Lookup(Column(lineitem, "l_orderkey"), sel_lineitem)), sel_lineitem)
      o_custkey    == Lookup(Lookup(Column(orders, "o_custkey"), sel_order2), order_line.build)
  IN  finishQ10(db, HashGroup(Len(o_custkey), [c_custkey |-> o_custkey],
                              [revenue |-> RevenueSel(lineitem, order_line.probe)]))

---------------------------------------------------------------------------
(* Query 11 *)

\* finishQ11: the parts whose stock is worth more than a fraction of all, the most valuable first.
finishQ11(groups) ==
  LET totalRaw == MapThenSumSet(LAMBDA g : g.value, groups)
  IN  SetToSortSeq({g \in groups : g.value * Fraction > totalRaw},
                   LAMBDA l, r : \/ l.value > r.value
                                 \/ l.value = r.value /\ l.ps_partkey < r.ps_partkey)

q11_hyper(db) ==
  LET germanNations   == Hashset(db.nation, LAMBDA n : n.n_name = "GERMANY", "n_nationkey")
      germanSuppliers == Hashset(db.supplier, LAMBDA s : s.s_nationkey \in germanNations, "s_suppkey")
  IN  Compiled(<<germanNations, germanSuppliers>>,
        finishQ11(PreAggregate(db.partsupp, LAMBDA r : r.ps_suppkey \in germanSuppliers,
                    LAMBDA r : [ps_partkey |-> r.ps_partkey],
                    LAMBDA r : [value |-> r.ps_supplycost * r.ps_availqty])))

q11_plan(db) ==
  LET partsupp          == db.partsupp
      sel_nation        == Sel(LAMBDA x : x = "GERMANY", Column(db.nation, "n_name"))
      nation_supplier   == HashJoin(Lookup(Column(db.nation, "n_nationkey"), sel_nation),
                                    Column(db.supplier, "s_nationkey")).probe
      supplier_partsupp == HashJoin(Lookup(Column(db.supplier, "s_suppkey"), nation_supplier),
                                    Column(partsupp, "ps_suppkey")).probe
      compact_partkey   == Lookup(Column(partsupp, "ps_partkey"), supplier_partsupp)
      part_value        == [i \in DOMAIN supplier_partsupp |->
                              Lookup(Column(partsupp, "ps_supplycost"), supplier_partsupp)[i]
                              * Lookup(Column(partsupp, "ps_availqty"), supplier_partsupp)[i]]
  IN  finishQ11(HashGroup(Len(part_value), [ps_partkey |-> compact_partkey], [value |-> part_value]))

---------------------------------------------------------------------------
(* Query 12 *)

MailOrShip == {"MAIL", "SHIP"}
highPriorities == {"1-URGENT", "2-HIGH"}
Counts(priority) == [high_line_count |-> IF priority \in highPriorities THEN 1 ELSE 0,
                     low_line_count |-> IF priority \in highPriorities THEN 0 ELSE 1]

q12_hyper(db) ==
  LET orderPriorities == Hashmapx(db.orders, Always, "o_orderkey", LAMBDA o : o.o_orderpriority)
  IN  Compiled(<<DOMAIN orderPriorities>>,
        PreAggregate(db.lineitem,
          LAMBDA r : /\ r.l_shipmode \in MailOrShip
                     /\ r.l_commitdate < r.l_receiptdate /\ r.l_shipdate < r.l_commitdate
                     /\ r.l_receiptdate >= 19940101 /\ r.l_receiptdate < 19950101
                     /\ r.l_orderkey \in DOMAIN orderPriorities,
          LAMBDA r : [l_shipmode |-> r.l_shipmode],
          LAMBDA r : Counts(orderPriorities[r.l_orderkey])))

q12_plan(db) ==
  LET lineitem == db.lineitem
      receipt  == Column(lineitem, "l_receiptdate")
      commit   == Column(lineitem, "l_commitdate")
      ship     == Column(lineitem, "l_shipdate")
      sel1     == Sel(LAMBDA x : x \in MailOrShip, Column(lineitem, "l_shipmode"))
      sel2     == SelectSeq(sel1, LAMBDA i : commit[i] < receipt[i])
      sel3     == SelectSeq(sel2, LAMBDA i : ship[i] < commit[i])
      sel4     == SelSel(LAMBDA x : x >= 19940101, sel3, receipt)
      sel_lineitem == SelSel(LAMBDA x : x < 19950101, sel4, receipt)
      lineitem_orders == ProbeRows(HashJoin(Column(db.orders, "o_orderkey"),
                                            Lookup(Column(lineitem, "l_orderkey"), sel_lineitem)), sel_lineitem)
      o_orderpriority == Lookup(Column(db.orders, "o_orderpriority"), lineitem_orders.build)
      Input(name) == [i \in DOMAIN o_orderpriority |-> Counts(o_orderpriority[i])[name]]
  IN  HashGroup(Len(o_orderpriority),
        [l_shipmode |-> Lookup(Column(lineitem, "l_shipmode"), lineitem_orders.probe)],
        [high_line_count |-> Input("high_line_count"), low_line_count |-> Input("low_line_count")])

---------------------------------------------------------------------------
(* Query 13 *)

\* The first "special", then a "requests" in what follows it.
containsSpecialRequests(words) ==
  \E i \in DOMAIN words : /\ words[i] = "special" /\ \A j \in 1..(i - 1) : words[j] # "special"
                          /\ \E j \in (i + 1)..Len(words) : words[j] = "requests"

\* finishQ13_InnerJoin: customers without a group are not counted.
finishQ13_InnerJoin(db, orderCounts) ==
  SetToSortSeq(Groups(orderCounts, LAMBDA g : [c_count |-> g.c_count], LAMBDA g : [custdist |-> 1]),
               LAMBDA l, r : \/ l.custdist > r.custdist
                             \/ l.custdist = r.custdist /\ l.c_count > r.c_count)

\* finishQ13: how many customers have each number of orders, those without a group none; the rows sorted.
finishQ13(db, orderCounts) ==
  LET CountOf(c) == MapThenSumSet(LAMBDA g : g.c_count, {g \in orderCounts : g.c_custkey = c.c_custkey})
      rows == Groups(DOMAIN db.customer, LAMBDA i : [c_count |-> CountOf(db.customer[i])],
                     LAMBDA i : [custdist |-> 1])
  IN  SetToSortSeq(rows, LAMBDA l, r : \/ l.custdist > r.custdist
                                       \/ l.custdist = r.custdist /\ l.c_count > r.c_count)

q13_hyper(db) ==
  Compiled(<<>>, finishQ13(db, PreAggregate(db.orders, LAMBDA o : ~containsSpecialRequests(o.o_comment),
                             LAMBDA o : [c_custkey |-> o.o_custkey], LAMBDA o : [c_count |-> 1])))

q13_plan(db) ==
  LET sel_orders == Sel(LAMBDA x : ~containsSpecialRequests(x), Column(db.orders, "o_comment"))
  IN  finishQ13(db, HashGroup(Len(sel_orders), [c_custkey |-> Lookup(Column(db.orders, "o_custkey"), sel_orders)],
                              [c_count |-> [i \in DOMAIN sel_orders |-> 1]]))

---------------------------------------------------------------------------
(* Query 14 *)

computePromoRevenue(promoRevenue, totalRevenue) ==
  IF totalRevenue = 0 THEN 0 ELSE (promoRevenue * Percent) \div totalRevenue

\* p_type starts with PROMO.
Promo(words) == IF words # <<>> /\ words[1] = "PROMO" THEN 1 ELSE 0

q14_hyper(db) ==
  LET partPromo == Hashmapx(db.part, Always, "p_partkey", LAMBDA p : Promo(p.p_type))
      Reached(r) == /\ r.l_shipdate >= 19950901 /\ r.l_shipdate < 19951001
                    /\ r.l_partkey \in DOMAIN partPromo
  IN  Compiled(<<DOMAIN partPromo>>,
        computePromoRevenue(
          Reduce(db.lineitem, LAMBDA r : Reached(r) /\ partPromo[r.l_partkey] # 0, Revenue),
          Reduce(db.lineitem, Reached, Revenue)))

q14_plan(db) ==
  LET lineitem      == db.lineitem
      promo_flag    == [i \in DOMAIN db.part |-> Promo(Column(db.part, "p_type")[i])]
      sel_lineitem  == Sel(LAMBDA x : x < 19951001, Column(lineitem, "l_shipdate"))
      sel_lineitem2 == SelSel(LAMBDA x : x >= 19950901, sel_lineitem, Column(lineitem, "l_shipdate"))
      lineitem_part == ProbeRows(HashJoin(Column(db.part, "p_partkey"),
                                          Lookup(Column(lineitem, "l_partkey"), sel_lineitem2)), sel_lineitem2)
      promo_part    == Lookup(promo_flag, lineitem_part.build)
      revenue       == RevenueSel(lineitem, lineitem_part.probe)
  IN  computePromoRevenue(Total([i \in DOMAIN revenue |-> revenue[i] * promo_part[i]]), Total(revenue))

---------------------------------------------------------------------------
(* Query 15 *)

\* finishQ15: the suppliers with the greatest revenue.
finishQ15(db, revenues) ==
  IF revenues = {} THEN <<>>
  ELSE LET maxRevenue == Max({g.total_revenue : g \in revenues})
           winningSuppliers == {g.supplier_no : g \in {x \in revenues : x.total_revenue = maxRevenue}}
       IN  SetToSortSeq({[s_suppkey |-> s.s_suppkey, total_revenue |-> maxRevenue] :
                           s \in {x \in Range(db.supplier) : x.s_suppkey \in winningSuppliers}},
                        LAMBDA l, r : l.s_suppkey < r.s_suppkey)

q15_hyper(db) ==
  LET revenues == PreAggregate(db.lineitem, LAMBDA r : r.l_shipdate >= 19960101 /\ r.l_shipdate < 19960401,
                               LAMBDA r : [supplier_no |-> r.l_suppkey],
                               LAMBDA r : [total_revenue |-> Revenue(r)])
  IN  Compiled(<<>>, finishQ15(db, revenues))

q15_plan(db) ==
  LET lineitem      == db.lineitem
      sel_lineitem  == Sel(LAMBDA x : x < 19960401, Column(lineitem, "l_shipdate"))
      sel_lineitem2 == SelSel(LAMBDA x : x >= 19960101, sel_lineitem, Column(lineitem, "l_shipdate"))
  IN  finishQ15(db, HashGroup(Len(sel_lineitem2),
                      [supplier_no |-> Lookup(Column(lineitem, "l_suppkey"), sel_lineitem2)],
                      [total_revenue |-> RevenueSel(lineitem, sel_lineitem2)]))

---------------------------------------------------------------------------
(* Query 17 *)

\* l_quantity < 0.2 * avg(l_quantity) in integers; one seventh, rounded.
Threshold(sumQuantity, count) == (sumQuantity - 1) \div (5 * count)
avgYearlyFromCents(cents) == (cents * 100 + 3) \div 7

QuantityByPart(lineitem) ==
  PreAggregate(lineitem, Always, LAMBDA r : [partkey |-> r.l_partkey],
               LAMBDA r : [quantity |-> r.l_quantity, count |-> 1])

q17_hyper(db) ==
  LET partStats  == QuantityByPart(db.lineitem)
      Stats(key) == CHOOSE g \in partStats : g.partkey = key
      thresholds == Hashmapx(db.part,
                      LAMBDA p : /\ p.p_brand = "Brand#23" /\ p.p_container = "MED BOX"
                                 /\ \E g \in partStats : g.partkey = p.p_partkey,
                      "p_partkey", LAMBDA p : Threshold(Stats(p.p_partkey).quantity, Stats(p.p_partkey).count))
  IN  Compiled(<<partStats, DOMAIN thresholds>>,
        avgYearlyFromCents(
          Reduce(db.lineitem, LAMBDA r : /\ r.l_partkey \in DOMAIN thresholds
                                         /\ r.l_quantity <= thresholds[r.l_partkey],
                 LAMBDA r : r.l_extendedprice)))

q17_plan(db) ==
  LET part         == db.part
      lineitem     == db.lineitem
      groups       == SetToSeq(HashGroup(Len(lineitem), [partkey |-> Column(lineitem, "l_partkey")],
                        [quantity |-> Column(lineitem, "l_quantity"), count |-> [i \in DOMAIN lineitem |-> 1]]))
      sel_part_brand == Sel(LAMBDA x : x = "Brand#23", Column(part, "p_brand"))
      sel_part     == SelSel(LAMBDA x : x = "MED BOX", sel_part_brand, Column(part, "p_container"))
      part_matches == ProbeRows(HashJoin(Column(groups, "partkey"),
                                         Lookup(Column(part, "p_partkey"), sel_part)), sel_part)
      part_quantity  == Lookup(Column(groups, "quantity"), part_matches.build)
      part_count     == Lookup(Column(groups, "count"), part_matches.build)
      part_threshold == [i \in DOMAIN part_count |-> Threshold(part_quantity[i], part_count[i])]
      lineitem_matches == HashJoin(Lookup(Column(part, "p_partkey"), part_matches.probe),
                                   Column(lineitem, "l_partkey"))
      lineitem_threshold == Lookup(part_threshold, lineitem_matches.build)
      compact_quantity   == Lookup(Column(lineitem, "l_quantity"), lineitem_matches.probe)
      compact_price      == Lookup(Column(lineitem, "l_extendedprice"), lineitem_matches.probe)
      sel_lineitem == SelectSeq([i \in DOMAIN compact_quantity |-> i],
                                LAMBDA i : compact_quantity[i] <= lineitem_threshold[i])
  IN  avgYearlyFromCents(Total(Lookup(compact_price, sel_lineitem)))

---------------------------------------------------------------------------
(* Query 18 *)

q18_hyper(db) ==
  LET groups == PreAggregate(db.lineitem, Always, LAMBDA r : [l_orderkey |-> r.l_orderkey],
                             LAMBDA r : [quantity |-> r.l_quantity])
      ht1 == {g.l_orderkey : g \in {x \in groups : x.quantity > 30000}}
      ht2 == Hashmapx(db.customer, Always, "c_custkey", LAMBDA c : c.c_name)
      ht3 == Hashmapx(db.orders, LAMBDA o : o.o_orderkey \in ht1 /\ o.o_custkey \in DOMAIN ht2, "o_orderkey",
                      LAMBDA o : [c_custkey |-> o.o_custkey, o_orderdate |-> o.o_orderdate,
                                  o_totalprice |-> o.o_totalprice, c_name |-> ht2[o.o_custkey]])
  IN  Compiled(<<ht1, DOMAIN ht2, DOMAIN ht3>>,
        PreAggregate(db.lineitem, LAMBDA r : r.l_orderkey \in DOMAIN ht3,
                     LAMBDA r : ht3[r.l_orderkey] @@ [o_orderkey |-> r.l_orderkey],
                     LAMBDA r : [sum |-> r.l_quantity]))

q18_plan(db) ==
  LET orders           == db.orders
      customer         == db.customer
      lineitem         == db.lineitem
      groups           == SetToSeq(HashGroup(Len(lineitem), [l_orderkey |-> Column(lineitem, "l_orderkey")],
                                             [quantity |-> Column(lineitem, "l_quantity")]))
      sel_orderkey     == Sel(LAMBDA x : x > 30000, Column(groups, "quantity"))
      orders_matches   == HashJoin(Lookup(Column(groups, "l_orderkey"), sel_orderkey),
                                   Column(orders, "o_orderkey")).probe
      customer_matches == ProbeRows(HashJoin(Column(customer, "c_custkey"),
                                             Lookup(Column(orders, "o_custkey"), orders_matches)), orders_matches)
      c_name           == Lookup(Column(customer, "c_name"), customer_matches.build)
      lineitem_matches == HashJoin(Lookup(Column(orders, "o_orderkey"), customer_matches.probe),
                                   Column(lineitem, "l_orderkey"))
      BuildValue(name) == Lookup(Lookup(Column(orders, name), customer_matches.probe), lineitem_matches.build)
  IN  HashGroup(Len(lineitem_matches.probe),
        [c_name |-> Lookup(c_name, lineitem_matches.build), c_custkey |-> BuildValue("o_custkey"),
         o_orderdate |-> BuildValue("o_orderdate"), o_totalprice |-> BuildValue("o_totalprice"),
         o_orderkey |-> Lookup(Column(lineitem, "l_orderkey"), lineitem_matches.probe)],
        [sum |-> Lookup(Column(lineitem, "l_quantity"), lineitem_matches.probe)])
=============================================================================
