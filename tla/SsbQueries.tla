----------------------------- MODULE SsbQueries -----------------------------
(* The plans of src/benchmarks/sbb/queries.  qNN_hyper is the loop nest of the compiled query, qNN_plan   *)
(* the vectorwise plan that getQuery builds, executed by qNN_vectorwise.  Queries of one flight have the  *)
(* same plan up to selections and attributes, so a flight has one definition with those as parameters.    *)
(*                                                                                                         *)
(* Names of buffers and selection vectors are those of the code: lineorder_part is the join result that    *)
(* the code keeps in Buffer(lineorder_part).  Dates are numbers, discounts hundredths; brands are numbers  *)
(* in the order in which Char compares them.                                                               *)
EXTENDS PlanOperators

Always(r) == TRUE

---------------------------------------------------------------------------
(* Flight 1: the revenue that discounts cost, one number. *)

Q1_hyper(db, DateWanted(_), QuantityWanted(_), discount_min, discount_max) ==
  LET ht == Hashset(db.date, DateWanted, "d_datekey")
  IN  Compiled(<<ht>>,
        Reduce(db.lineorder,
          LAMBDA r : /\ QuantityWanted(r.lo_quantity)
                     /\ r.lo_discount >= discount_min /\ r.lo_discount <= discount_max
                     /\ r.lo_orderdate \in ht,
          LAMBDA r : r.lo_extendedprice * r.lo_discount))

\* sel_date and sel_qty: what the selections on date and on lo_quantity leave.
Q1_plan(db, sel_date, sel_qty, discount_min, discount_max) ==
  LET lineorder         == db.lineorder
      lo_discount       == Column(lineorder, "lo_discount")
      sel_discount_low  == SelSel(LAMBDA x : x >= discount_min, sel_qty, lo_discount)
      sel_discount_high == SelSel(LAMBDA x : x <= discount_max, sel_discount_low, lo_discount)
      join_result       == ProbeRows(HashJoin(Lookup(Column(db.date, "d_datekey"), sel_date),
                                              Lookup(Column(lineorder, "lo_orderdate"), sel_discount_high)),
                                     sel_discount_high).probe
  IN  Total([i \in DOMAIN join_result |-> lineorder[join_result[i]].lo_extendedprice
                                          * lo_discount[join_result[i]]])

q11_hyper(db) == Q1_hyper(db, LAMBDA d : d.d_year = 1993, LAMBDA x : x < 25, 100, 300)
q12_hyper(db) == Q1_hyper(db, LAMBDA d : d.d_yearmonthnum = 199401, LAMBDA x : x >= 26 /\ x <= 35, 400, 600)
q13_hyper(db) ==
  Q1_hyper(db, LAMBDA d : d.d_year = 1994 /\ d.d_weeknuminyear = 6, LAMBDA x : x >= 26 /\ x <= 35, 500, 700)

q11_plan(db) ==
  Q1_plan(db, Sel(LAMBDA x : x = 1993, Column(db.date, "d_year")),
          Sel(LAMBDA x : x < 25, Column(db.lineorder, "lo_quantity")), 100, 300)

\* lo_quantity between 26 and 35: sel_qty_high, then sel_qty_low.
QuantitySel(db) ==
  LET lo_quantity == Column(db.lineorder, "lo_quantity")
  IN  SelSel(LAMBDA x : x >= 26, Sel(LAMBDA x : x <= 35, lo_quantity), lo_quantity)

q12_plan(db) ==
  Q1_plan(db, Sel(LAMBDA x : x = 199401, Column(db.date, "d_yearmonthnum")), QuantitySel(db), 400, 600)

q13_plan(db) ==
  LET sel_year == Sel(LAMBDA x : x = 1994, Column(db.date, "d_year"))
      sel_week == SelSel(LAMBDA x : x = 6, sel_year, Column(db.date, "d_weeknuminyear"))
  IN  Q1_plan(db, sel_week, QuantitySel(db), 500, 700)

---------------------------------------------------------------------------
(* Flight 2: revenue by year and brand. *)

Q2_hyper(db, PartWanted(_), region) ==
  LET ht1 == Hashmapx(db.date, Always, "d_datekey", LAMBDA d : d.d_year)
      ht2 == Hashset(db.supplier, LAMBDA s : s.s_region = region, "s_suppkey")
      ht3 == Hashmapx(db.part, PartWanted, "p_partkey", LAMBDA p : p.p_brand1)
  IN  Compiled(<<DOMAIN ht1, ht2, DOMAIN ht3>>,
        PreAggregate(db.lineorder,
          LAMBDA r : r.lo_partkey \in DOMAIN ht3 /\ r.lo_suppkey \in ht2 /\ r.lo_orderdate \in DOMAIN ht1,
          LAMBDA r : [p_brand1 |-> ht3[r.lo_partkey], d_year |-> ht1[r.lo_orderdate]],
          LAMBDA r : [revenue |-> r.lo_revenue]))

Q2_plan(db, sel_part, region) ==
  LET lineorder          == db.lineorder
      sel_supplier       == Sel(LAMBDA x : x = region, Column(db.supplier, "s_region"))
      lineorder_part     == HashJoin(Lookup(Column(db.part, "p_partkey"), sel_part),
                                     Column(lineorder, "lo_partkey"))
      p_brand1           == Lookup(Lookup(Column(db.part, "p_brand1"), sel_part), lineorder_part.build)
      lineorder_supplier == HashJoin(Lookup(Column(db.supplier, "s_suppkey"), sel_supplier),
                                     Lookup(Column(lineorder, "lo_suppkey"), lineorder_part.probe))
      lineorder_supplier_line == Lookup(lineorder_part.probe, lineorder_supplier.probe)
      lineorder_date     == HashJoin(Column(db.date, "d_datekey"),
                                     Lookup(Column(lineorder, "lo_orderdate"), lineorder_supplier_line))
      d_year             == Lookup(Column(db.date, "d_year"), lineorder_date.build)
      lineorder_date_part     == Lookup(lineorder_supplier.probe, lineorder_date.probe)
      lineorder_supplier_date == Lookup(lineorder_supplier_line, lineorder_date.probe)
  IN  HashGroup(Len(d_year), [d_year |-> d_year, p_brand1 |-> Lookup(p_brand1, lineorder_date_part)],
                [revenue |-> Lookup(Column(lineorder, "lo_revenue"), lineorder_supplier_date)])

q21_hyper(db) == Q2_hyper(db, LAMBDA p : p.p_category = "MFGR#12", "AMERICA")
q22_hyper(db) == Q2_hyper(db, LAMBDA p : p.p_brand1 <= 2228 /\ p.p_brand1 >= 2221, "ASIA")
q23_hyper(db) == Q2_hyper(db, LAMBDA p : p.p_brand1 = 2221, "EUROPE")

q21_plan(db) == Q2_plan(db, Sel(LAMBDA x : x = "MFGR#12", Column(db.part, "p_category")), "AMERICA")

q22_plan(db) ==
  LET p_brand1     == Column(db.part, "p_brand1")
      sel_part_max == Sel(LAMBDA x : x <= 2228, p_brand1)
      sel_part_min == SelSel(LAMBDA x : x >= 2221, sel_part_max, p_brand1)
  IN  Q2_plan(db, sel_part_min, "ASIA")

q23_plan(db) == Q2_plan(db, Sel(LAMBDA x : x = 2221, Column(db.part, "p_brand1")), "EUROPE")

---------------------------------------------------------------------------
(* Flight 3: revenue by place of the customer, place of the supplier, and year.  The attributes c_place    *)
(* and s_place that a query reports are the nations or the cities.                                         *)

Q3_hyper(db, DateWanted(_), SupplierWanted(_), CustomerWanted(_), s_place, c_place) ==
  LET ht1 == Hashmapx(db.date, DateWanted, "d_datekey", LAMBDA d : d.d_year)
      ht2 == Hashmapx(db.supplier, SupplierWanted, "s_suppkey", LAMBDA s : s[s_place])
      ht3 == Hashmapx(db.customer, CustomerWanted, "c_custkey", LAMBDA c : c[c_place])
  IN  Compiled(<<DOMAIN ht1, DOMAIN ht2, DOMAIN ht3>>,
        PreAggregate(db.lineorder,
          LAMBDA r : /\ r.lo_custkey \in DOMAIN ht3
                     /\ r.lo_suppkey \in DOMAIN ht2
                     /\ r.lo_orderdate \in DOMAIN ht1,
          LAMBDA r : (c_place :> ht3[r.lo_custkey]) @@ (s_place :> ht2[r.lo_suppkey])
                       @@ [d_year |-> ht1[r.lo_orderdate]],
          LAMBDA r : [revenue |-> r.lo_revenue]))

Q3_plan(db, sel_date, sel_supplier, sel_customer, s_place, c_place) ==
  LET lineorder          == db.lineorder
      lineorder_customer == HashJoin(Lookup(Column(db.customer, "c_custkey"), sel_customer),
                                     Column(lineorder, "lo_custkey"))
      c_values           == Lookup(Lookup(Column(db.customer, c_place), sel_customer), lineorder_customer.build)
      lineorder_supplier == HashJoin(Lookup(Column(db.supplier, "s_suppkey"), sel_supplier),
                                     Lookup(Column(lineorder, "lo_suppkey"), lineorder_customer.probe))
      s_values           == Lookup(Lookup(Column(db.supplier, s_place), sel_supplier), lineorder_supplier.build)
      lineorder_supplier_line == Lookup(lineorder_customer.probe, lineorder_supplier.probe)
      lineorder_date     == HashJoin(Lookup(Column(db.date, "d_datekey"), sel_date),
                                     Lookup(Column(lineorder, "lo_orderdate"), lineorder_supplier_line))
      d_year             == Lookup(Lookup(Column(db.date, "d_year"), sel_date), lineorder_date.build)
      lineorder_date_customer == Lookup(lineorder_supplier.probe, lineorder_date.probe)
      lineorder_supplier_date == Lookup(lineorder_supplier_line, lineorder_date.probe)
  IN  HashGroup(Len(d_year),
                (c_place :> Lookup(c_values, lineorder_date_customer))
                  @@ (s_place :> Lookup(s_values, lineorder_date.probe)) @@ [d_year |-> d_year],
                [revenue |-> Lookup(Column(lineorder, "lo_revenue"), lineorder_supplier_date)])

YearWanted(d) == d.d_year >= 1992 /\ d.d_year <= 1997
UnitedKi == {"UNITED KI1", "UNITED KI5"}

q31_hyper(db) == Q3_hyper(db, YearWanted, LAMBDA s : s.s_region = "ASIA", LAMBDA c : c.c_region = "ASIA",
                          "s_nation", "c_nation")
q32_hyper(db) == Q3_hyper(db, YearWanted, LAMBDA s : s.s_nation = "UNITED STATES",
                          LAMBDA c : c.c_nation = "UNITED STATES", "s_city", "c_city")
q33_hyper(db) == Q3_hyper(db, YearWanted, LAMBDA s : s.s_city \in UnitedKi,
                          LAMBDA c : c.c_city \in UnitedKi, "s_city", "c_city")
q34_hyper(db) == Q3_hyper(db, LAMBDA d : d.d_yearmonth = "Dec1997", LAMBDA s : s.s_city \in UnitedKi,
                          LAMBDA c : c.c_city \in UnitedKi, "s_city", "c_city")

\* d_year between 1992 and 1997: sel_year_max, then sel_year_min.
YearSel(db) ==
  LET d_year == Column(db.date, "d_year")
  IN  SelSel(LAMBDA x : x >= 1992, Sel(LAMBDA x : x <= 1997, d_year), d_year)

q31_plan(db) == Q3_plan(db, YearSel(db), Sel(LAMBDA x : x = "ASIA", Column(db.supplier, "s_region")),
                        Sel(LAMBDA x : x = "ASIA", Column(db.customer, "c_region")), "s_nation", "c_nation")
q32_plan(db) == Q3_plan(db, YearSel(db), Sel(LAMBDA x : x = "UNITED STATES", Column(db.supplier, "s_nation")),
                        Sel(LAMBDA x : x = "UNITED STATES", Column(db.customer, "c_nation")),
                        "s_city", "c_city")
q33_plan(db) == Q3_plan(db, YearSel(db), Sel(LAMBDA x : x \in UnitedKi, Column(db.supplier, "s_city")),
                        Sel(LAMBDA x : x \in UnitedKi, Column(db.customer, "c_city")), "s_city", "c_city")
q34_plan(db) == Q3_plan(db, Sel(LAMBDA x : x = "Dec1997", Column(db.date, "d_yearmonth")),
                        Sel(LAMBDA x : x \in UnitedKi, Column(db.supplier, "s_city")),
                        Sel(LAMBDA x : x \in UnitedKi, Column(db.customer, "c_city")), "s_city", "c_city")

---------------------------------------------------------------------------
(* Flight 4: profit by year and attributes of customer, supplier or part. *)

Mfgr12 == {"MFGR#1", "MFGR#2"}
Profit(r) == [profit |-> r.lo_revenue - r.lo_supplycost]

\* Project: proj_sel_both_minus on lo_revenue and lo_supplycost.
ProjMinus(lineorder, sel) ==
  [i \in DOMAIN sel |-> Lookup(Column(lineorder, "lo_revenue"), sel)[i]
                        - Lookup(Column(lineorder, "lo_supplycost"), sel)[i]]

q41_hyper(db) ==
  LET ht1 == Hashmapx(db.date, Always, "d_datekey", LAMBDA d : d.d_year)
      ht2 == Hashset(db.part, LAMBDA p : p.p_mfgr \in Mfgr12, "p_partkey")
      ht3 == Hashmapx(db.customer, LAMBDA c : c.c_region = "AMERICA", "c_custkey", LAMBDA c : c.c_nation)
      ht4 == Hashset(db.supplier, LAMBDA s : s.s_region = "AMERICA", "s_suppkey")
  IN  Compiled(<<DOMAIN ht1, ht2, DOMAIN ht3, ht4>>,
        PreAggregate(db.lineorder,
          LAMBDA r : /\ r.lo_suppkey \in ht4
                     /\ r.lo_custkey \in DOMAIN ht3
                     /\ r.lo_partkey \in ht2
                     /\ r.lo_orderdate \in DOMAIN ht1,
          LAMBDA r : [d_year |-> ht1[r.lo_orderdate], c_nation |-> ht3[r.lo_custkey]],
          Profit))

q41_plan(db) ==
  LET lineorder    == db.lineorder
      sel_part     == Sel(LAMBDA x : x \in Mfgr12, Column(db.part, "p_mfgr"))
      sel_customer == Sel(LAMBDA x : x = "AMERICA", Column(db.customer, "c_region"))
      sel_supplier == Sel(LAMBDA x : x = "AMERICA", Column(db.supplier, "s_region"))
      lineorder_supplier == HashJoin(Lookup(Column(db.supplier, "s_suppkey"), sel_supplier),
                                     Column(lineorder, "lo_suppkey")).probe
      lineorder_customer == ProbeRows(HashJoin(Lookup(Column(db.customer, "c_custkey"), sel_customer),
                                               Lookup(Column(lineorder, "lo_custkey"), lineorder_supplier)),
                                      lineorder_supplier)
      c_nation     == Lookup(Lookup(Column(db.customer, "c_nation"), sel_customer), lineorder_customer.build)
      lineorder_part == HashJoin(Lookup(Column(db.part, "p_partkey"), sel_part),
                                 Lookup(Column(lineorder, "lo_partkey"), lineorder_customer.probe)).probe
      lineorder_customer_part == Lookup(lineorder_customer.probe, lineorder_part)
      lineorder_date == HashJoin(Column(db.date, "d_datekey"),
                                 Lookup(Column(lineorder, "lo_orderdate"), lineorder_customer_part))
      d_year       == Lookup(Column(db.date, "d_year"), lineorder_date.build)
      lineorder_part_date          == Lookup(lineorder_part, lineorder_date.probe)
      lineorder_customer_part_date == Lookup(lineorder_customer_part, lineorder_date.probe)
  IN  HashGroup(Len(d_year), [d_year |-> d_year, c_nation |-> Lookup(c_nation, lineorder_part_date)],
                [profit |-> ProjMinus(lineorder, lineorder_customer_part_date)])

\* Queries 4.2 and 4.3 have the same joins.
Q4_hyper(db, PartWanted(_), SupplierWanted(_), p_attr, s_place) ==
  LET ht1 == Hashmapx(db.date, LAMBDA d : d.d_year \in {1997, 1998}, "d_datekey", LAMBDA d : d.d_year)
      ht2 == Hashmapx(db.part, PartWanted, "p_partkey", LAMBDA p : p[p_attr])
      ht3 == Hashset(db.customer, LAMBDA c : c.c_region = "AMERICA", "c_custkey")
      ht4 == Hashmapx(db.supplier, SupplierWanted, "s_suppkey", LAMBDA s : s[s_place])
  IN  Compiled(<<DOMAIN ht1, DOMAIN ht2, ht3, DOMAIN ht4>>,
        PreAggregate(db.lineorder,
          LAMBDA r : /\ r.lo_suppkey \in DOMAIN ht4
                     /\ r.lo_custkey \in ht3
                     /\ r.lo_partkey \in DOMAIN ht2
                     /\ r.lo_orderdate \in DOMAIN ht1,
          LAMBDA r : [d_year |-> ht1[r.lo_orderdate]] @@ (s_place :> ht4[r.lo_suppkey])
                       @@ (p_attr :> ht2[r.lo_partkey]),
          Profit))

Q4_plan(db, sel_part, sel_supplier, p_attr, s_place) ==
  LET lineorder    == db.lineorder
      sel_date     == Sel(LAMBDA x : x \in {1997, 1998}, Column(db.date, "d_year"))
      sel_customer == Sel(LAMBDA x : x = "AMERICA", Column(db.customer, "c_region"))
      lineorder_supplier == HashJoin(Lookup(Column(db.supplier, "s_suppkey"), sel_supplier),
                                     Column(lineorder, "lo_suppkey"))
      s_values     == Lookup(Lookup(Column(db.supplier, s_place), sel_supplier), lineorder_supplier.build)
      lineorder_customer == HashJoin(Lookup(Column(db.customer, "c_custkey"), sel_customer),
                                     Lookup(Column(lineorder, "lo_custkey"), lineorder_supplier.probe)).probe
      lineorder_supplier_customer == Lookup(lineorder_supplier.probe, lineorder_customer)
      lineorder_part == HashJoin(Lookup(Column(db.part, "p_partkey"), sel_part),
                                 Lookup(Column(lineorder, "lo_partkey"), lineorder_supplier_customer))
      p_values     == Lookup(Lookup(Column(db.part, p_attr), sel_part), lineorder_part.build)
      lineorder_customer_part  == Lookup(lineorder_supplier_customer, lineorder_part.probe)
      lineorder_customer_part2 == Lookup(lineorder_customer, lineorder_part.probe)
      lineorder_date == HashJoin(Lookup(Column(db.date, "d_datekey"), sel_date),
                                 Lookup(Column(lineorder, "lo_orderdate"), lineorder_customer_part))
      d_year       == Lookup(Lookup(Column(db.date, "d_year"), sel_date), lineorder_date.build)
      lineorder_customer_part2_date == Lookup(lineorder_customer_part2, lineorder_date.probe)
      lineorder_customer_part_date  == Lookup(lineorder_customer_part, lineorder_date.probe)
  IN  HashGroup(Len(d_year),
                [d_year |-> d_year] @@ (p_attr :> Lookup(p_values, lineorder_date.probe))
                  @@ (s_place :> Lookup(s_values, lineorder_customer_part2_date)),
                [profit |-> ProjMinus(lineorder, lineorder_customer_part_date)])

q42_hyper(db) == Q4_hyper(db, LAMBDA p : p.p_mfgr \in Mfgr12, LAMBDA s : s.s_region = "AMERICA",
                          "p_category", "s_nation")
q43_hyper(db) == Q4_hyper(db, LAMBDA p : p.p_category = "MFGR#14", LAMBDA s : s.s_nation = "UNITED STATES",
                          "p_brand1", "s_city")

q42_plan(db) == Q4_plan(db, Sel(LAMBDA x : x \in Mfgr12, Column(db.part, "p_mfgr")),
                        Sel(LAMBDA x : x = "AMERICA", Column(db.supplier, "s_region")),
                        "p_category", "s_nation")
q43_plan(db) == Q4_plan(db, Sel(LAMBDA x : x = "MFGR#14", Column(db.part, "p_category")),
                        Sel(LAMBDA x : x = "UNITED STATES", Column(db.supplier, "s_nation")),
                        "p_brand1", "s_city")
=============================================================================
