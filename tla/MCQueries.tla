------------------------------ MODULE MCQueries ------------------------------
(* TLC instance of the queries.  In some behaviours a query is run on one of the databases below, in others *)
(* it is shown what columns hold and how it gets there: a table is imported, a loop selects or hashes the   *)
(* rows of a vector, one value is read, printed, compared or searched, or a calendar walked day by day.     *)
(*                                                                                                          *)
(* The drivers run each query of a benchmark twice on one database, first compiled, then vectorwise         *)
(* (src/benchmarks/tpch/run.cpp, src/benchmarks/sbb/run.cpp); the tests compare both results with what is   *)
(* known of the answer for one database (src/test/tpch.cpp, src/test/ssb.cpp).                              *)
(*                                                                                                          *)
(* The databases: small fixed tables around one that varies, at most MaxRows rows of it (three    *)
(* where a query compares sums of groups).  Keys differ from positions, and the first rows of a table are   *)
(* mostly not wanted, so a position read in the wrong place or an unselected row shows in the answer.       *)
(* Values lie on both sides of every bound of a query, and foreign keys exist.                              *)
EXTENDS Integers, Sequences, FiniteSets, TLC

CONSTANTS One, Limit, Fraction, Percent,  \* as in TpchQueries
          Databases(_, _)                 \* the databases on which a query of a benchmark is run

ASSUME ScaleAssumption == {One, Limit, Fraction, Percent} \subseteq Nat \ {0}

Ssb == INSTANCE SsbQueries
Tpch == INSTANCE TpchQueries
Sql == INSTANCE SqlQueries

SsbNames == {"q11", "q12", "q13", "q21", "q22", "q23", "q31", "q32", "q33", "q34", "q41", "q42", "q43"}
TpchNames == {"q1", "q3", "q4", "q5", "q6", "q9", "q10", "q11", "q12", "q13", "q14", "q15", "q17", "q18"}
Queries == ({"ssb"} \X SsbNames) \cup ({"tpch"} \X TpchNames)

VARIABLES query, db, hyper, vectorwise
vars == <<query, db, hyper, vectorwise>>

\* What a run has returned so far: nothing, or its answer; or it has been stopped by an assertion.
Pending == <<>>
Answer(x) == <<x>>
Aborted == <<"Hashmap.hpp", "assert(nrEntries != 0)">>

ssb_hyper(q) ==
  CASE q = "q11" -> Ssb!q11_hyper(db) [] q = "q12" -> Ssb!q12_hyper(db) [] q = "q13" -> Ssb!q13_hyper(db)
    [] q = "q21" -> Ssb!q21_hyper(db) [] q = "q22" -> Ssb!q22_hyper(db) [] q = "q23" -> Ssb!q23_hyper(db)
    [] q = "q31" -> Ssb!q31_hyper(db) [] q = "q32" -> Ssb!q32_hyper(db) [] q = "q33" -> Ssb!q33_hyper(db)
    [] q = "q34" -> Ssb!q34_hyper(db) [] q = "q41" -> Ssb!q41_hyper(db) [] q = "q42" -> Ssb!q42_hyper(db)
    [] q = "q43" -> Ssb!q43_hyper(db)

ssb_vectorwise(q) ==
  CASE q = "q11" -> Ssb!q11_plan(db) [] q = "q12" -> Ssb!q12_plan(db) [] q = "q13" -> Ssb!q13_plan(db)
    [] q = "q21" -> Ssb!q21_plan(db) [] q = "q22" -> Ssb!q22_plan(db) [] q = "q23" -> Ssb!q23_plan(db)
    [] q = "q31" -> Ssb!q31_plan(db) [] q = "q32" -> Ssb!q32_plan(db) [] q = "q33" -> Ssb!q33_plan(db)
    [] q = "q34" -> Ssb!q34_plan(db) [] q = "q41" -> Ssb!q41_plan(db) [] q = "q42" -> Ssb!q42_plan(db)
    [] q = "q43" -> Ssb!q43_plan(db)

tpch_hyper(q) ==
  CASE q = "q1" -> Tpch!q1_hyper(db)   [] q = "q3" -> Tpch!q3_hyper(db)   [] q = "q4" -> Tpch!q4_hyper(db)
    [] q = "q5" -> Tpch!q5_hyper(db)   [] q = "q6" -> Tpch!q6_hyper(db)   [] q = "q9" -> Tpch!q9_hyper(db)
    [] q = "q10" -> Tpch!q10_hyper(db) [] q = "q11" -> Tpch!q11_hyper(db) [] q = "q12" -> Tpch!q12_hyper(db)
    [] q = "q13" -> Tpch!q13_hyper(db) [] q = "q14" -> Tpch!q14_hyper(db) [] q = "q15" -> Tpch!q15_hyper(db)
    [] q = "q17" -> Tpch!q17_hyper(db) [] q = "q18" -> Tpch!q18_hyper(db)

tpch_vectorwise(q) ==
  CASE q = "q1" -> Tpch!q1_plan(db)   [] q = "q3" -> Tpch!q3_plan(db)   [] q = "q4" -> Tpch!q4_plan(db)
    [] q = "q5" -> Tpch!q5_plan(db)   [] q = "q6" -> Tpch!q6_plan(db)   [] q = "q9" -> Tpch!q9_plan(db)
    [] q = "q10" -> Tpch!q10_plan(db) [] q = "q11" -> Tpch!q11_plan(db) [] q = "q12" -> Tpch!q12_plan(db)
    [] q = "q13" -> Tpch!q13_plan(db) [] q = "q14" -> Tpch!q14_plan(db) [] q = "q15" -> Tpch!q15_plan(db)
    [] q = "q17" -> Tpch!q17_plan(db) [] q = "q18" -> Tpch!q18_plan(db)

Init ==
  /\ query \in Queries
  /\ db \in Databases(query[1], query[2])
  /\ hyper = Pending /\ vectorwise = Pending

compiled == IF query[1] = "ssb" THEN ssb_hyper(query[2]) ELSE tpch_hyper(query[2])

\* A build without assertions goes on with a table of one chain, which is empty, when it counted no entries:
\* __builtin_clzll is lzcnt there (-march=native in CMakeLists.txt), and 64 for zero.
RunHyper ==
  /\ hyper = Pending
  /\ hyper' = Answer(compiled.answer)
  /\ UNCHANGED <<query, db, vectorwise>>

\* Any other is stopped, and the driver with it.
StopHyper ==
  /\ hyper = Pending
  /\ ~compiled.defined
  /\ hyper' = Aborted
  /\ UNCHANGED <<query, db, vectorwise>>

RunVectorwise ==
  /\ hyper \notin {Pending, Aborted} /\ vectorwise = Pending
  /\ vectorwise' = Answer(IF query[1] = "ssb" THEN ssb_vectorwise(query[2]) ELSE tpch_vectorwise(query[2]))
  /\ UNCHANGED <<query, db, hyper>>

Next == RunHyper \/ StopHyper \/ RunVectorwise
Spec == Init /\ [][Next]_vars

---------------------------------------------------------------------------
AnswersOn(d) == IF query[1] = "ssb" THEN Sql!SsbAnswers(query[2], d) ELSE Sql!TpchAnswers(query[2], d)
RightAnswers == AnswersOn(db)
NoRows == [table \in DOMAIN db |-> <<>>]

\* A compiled query returns what its SQL text asks, rows with equal keys, orders without lines and lines
\* that match several times included.  If it is stopped because a hash table would get no entries, nothing
\* is lost but the answer that no rows give.
HyperAnswers ==
  /\ hyper \notin {Pending, Aborted} => hyper[1] \in RightAnswers
  /\ hyper = Aborted => RightAnswers = AnswersOn(NoRows)

\* "assert(nrEntries != 0)" (Hashmap::setSize, src/include/common/runtime/Hashmap.hpp): the hash tables of a
\* compiled query are made for at least one entry.
SizesPositive == hyper # Aborted

\* So does the vectorwise plan: every operator reads each column through the selection vector or join
\* result that is aligned with it, however many selections and joins lie in between.
VectorwiseAnswers == vectorwise # Pending => vectorwise[1] \in RightAnswers

---------------------------------------------------------------------------
(* The databases *)

MaxRows == 2

\* The sequences of at most n rows, and at least one (a table without rows cannot be imported: see
\* TableImport); Own gives the i-th row values that no other has.
TablesOf(n, rows, Own(_)) ==
  UNION {{[i \in 1..k |-> t[i] @@ Own(i)] : t \in [1..k -> rows]} : k \in 1..n}

---------------------------------------------------------------------------
(* Star schema benchmark *)

Date(key, year, yearmonthnum, week, yearmonth) ==
  [d_datekey |-> key, d_year |-> year, d_yearmonthnum |-> yearmonthnum, d_weeknuminyear |-> week,
   d_yearmonth |-> yearmonth]
ssbDate == <<Date(19980105, 1998, 199801, 1, "Jan1998"), Date(19930210, 1993, 199302, 6, "Feb1993"),
             Date(19940103, 1994, 199401, 1, "Jan1994"), Date(19940208, 1994, 199402, 6, "Feb1994"),
             Date(19971224, 1997, 199712, 52, "Dec1997"), Date(19971231, 1997, 199712, 53, "Dec1997")>>

Part(key, mfgr, category, brand) ==
  [p_partkey |-> key, p_mfgr |-> mfgr, p_category |-> category, p_brand1 |-> brand]
ssbPart == <<Part(21, "MFGR#3", "MFGR#31", 3107), Part(22, "MFGR#1", "MFGR#12", 1205),
             Part(23, "MFGR#2", "MFGR#22", 2221), Part(24, "MFGR#2", "MFGR#22", 2228),
             Part(25, "MFGR#1", "MFGR#14", 1403), Part(26, "MFGR#2", "MFGR#22", 2229)>>

Places == <<<<"EUROPE", "FRANCE", "FRANCE   1">>, <<"ASIA", "INDIA", "INDIA    3">>,
            <<"ASIA", "CHINA", "CHINA    2">>, <<"AMERICA", "UNITED STATES", "UNITED ST4">>,
            <<"EUROPE", "UNITED KINGDOM", "UNITED KI1">>, <<"EUROPE", "UNITED KINGDOM", "UNITED KI5">>,
            <<"AMERICA", "CANADA", "CANADA   1">>>>
ssbSupplier == [i \in DOMAIN Places |->
  [s_suppkey |-> 30 + i, s_region |-> Places[i][1], s_nation |-> Places[i][2], s_city |-> Places[i][3]]]
ssbCustomer == [i \in DOMAIN Places |->
  [c_custkey |-> 48 - i, c_region |-> Places[i][1], c_nation |-> Places[i][2], c_city |-> Places[i][3]]]

SuppliersAt(places) == {30 + i : i \in places}
CustomersAt(places) == {48 - i : i \in places}

Flight1(dates, quantities, discounts) ==
  TablesOf(MaxRows, [lo_orderdate : dates, lo_quantity : quantities, lo_discount : discounts],
         LAMBDA i : [lo_extendedprice |-> 10 ^ i])
Lines(dates, parts, suppliers, customers) ==
  TablesOf(MaxRows, [lo_orderdate : dates, lo_partkey : parts, lo_suppkey : suppliers, lo_custkey : customers],
         LAMBDA i : [lo_revenue |-> 10 ^ i, lo_supplycost |-> 3 * i])

SsbLineorders(q) ==
  CASE q = "q11" -> Flight1({19940103, 19930210}, {24, 25}, {99, 100, 300, 301})
    [] q = "q12" -> Flight1({19940208, 19940103}, {25, 26, 35, 36}, {399, 400, 600, 601})
    [] q = "q13" -> Flight1({19940103, 19940208, 19930210}, {25, 26, 35, 36}, {500, 700, 701})
    [] q = "q21" -> Lines({19930210, 19940208}, {21, 22}, SuppliersAt({2, 4, 7}), {47})
    [] q = "q22" -> Lines({19930210, 19940208}, {22, 23, 24, 26}, SuppliersAt({2, 4}), {47})
    [] q = "q23" -> Lines({19930210, 19940208}, {23, 24}, SuppliersAt({1, 2, 5}), {47})
    [] q = "q31" -> Lines({19980105, 19930210, 19940103}, {21}, SuppliersAt({1, 2, 3}), CustomersAt({1, 2, 3}))
    [] q = "q32" -> Lines({19980105, 19930210, 19940103}, {21}, SuppliersAt({4, 7}), CustomersAt({1, 4, 7}))
    [] q = "q33" -> Lines({19980105, 19930210, 19940103}, {21}, SuppliersAt({1, 5, 6}), CustomersAt({1, 5, 6}))
    [] q = "q34" -> Lines({19980105, 19971224, 19971231}, {21}, SuppliersAt({1, 5, 6}), CustomersAt({1, 5, 6}))
    [] q = "q41" -> Lines({19930210, 19940103}, {21, 22}, SuppliersAt({2, 4}), CustomersAt({1, 4, 7}))
    [] q = "q42" -> Lines({19930210, 19971224}, {21, 22, 23}, SuppliersAt({1, 4, 7}), CustomersAt({1, 4}))
    [] q = "q43" -> Lines({19980105, 19930210, 19971231}, {21, 25}, SuppliersAt({4, 7}), CustomersAt({1, 4}))

SsbDatabases(q) ==
  {[date |-> ssbDate, part |-> ssbPart, supplier |-> ssbSupplier, customer |-> ssbCustomer, lineorder |-> t] :
     t \in SsbLineorders(q)}

---------------------------------------------------------------------------
(* TPC-H.  The keys of the suppliers are chosen so that nation and supplier keys have equal sums. *)

region == <<[r_regionkey |-> 1, r_name |-> "EUROPE"], [r_regionkey |-> 2, r_name |-> "ASIA"]>>
nation == <<[n_nationkey |-> 5, n_regionkey |-> 1, n_name |-> "GERMANY"],
            [n_nationkey |-> 6, n_regionkey |-> 2, n_name |-> "INDIA"],
            [n_nationkey |-> 7, n_regionkey |-> 2, n_name |-> "CHINA"]>>
supplier == <<[s_suppkey |-> 31, s_nationkey |-> 7], [s_suppkey |-> 32, s_nationkey |-> 6],
              [s_suppkey |-> 33, s_nationkey |-> 5], [s_suppkey |-> 34, s_nationkey |-> 5]>>
customer == <<[c_custkey |-> 43, c_nationkey |-> 5, c_mktsegment |-> "MACHINERY", c_name |-> "c43"],
              [c_custkey |-> 41, c_nationkey |-> 7, c_mktsegment |-> "BUILDING", c_name |-> "c41"],
              [c_custkey |-> 42, c_nationkey |-> 6, c_mktsegment |-> "BUILDING", c_name |-> "c42"]>>
part == <<[p_partkey |-> 22, p_name |-> <<"red">>, p_type |-> <<"STANDARD", "PROMO">>,
           p_brand |-> "Brand#23", p_container |-> "JUMBO BOX"],
          [p_partkey |-> 21, p_name |-> <<"dark", "green">>, p_type |-> <<"PROMO", "TIN">>,
           p_brand |-> "Brand#23", p_container |-> "MED BOX"],
          [p_partkey |-> 23, p_name |-> <<"green">>, p_type |-> <<"ECONOMY", "TIN">>,
           p_brand |-> "Brand#12", p_container |-> "MED BOX"]>>
partsupp == <<[ps_partkey |-> 22, ps_suppkey |-> 31, ps_supplycost |-> 1],
              [ps_partkey |-> 21, ps_suppkey |-> 32, ps_supplycost |-> 2],
              [ps_partkey |-> 23, ps_suppkey |-> 31, ps_supplycost |-> 3],
              [ps_partkey |-> 21, ps_suppkey |-> 33, ps_supplycost |-> 4]>>

\* Orders 54, 51, 52, 53 of these dates.
OrdersOn(dates) ==
  LET Order(key, i, cust, priority) ==
        [o_orderkey |-> key, o_orderdate |-> dates[i], o_custkey |-> cust, o_orderpriority |-> priority,
         o_shippriority |-> 0, o_totalprice |-> key]
  IN  <<Order(54, 1, 43, "2-HIGH"), Order(51, 2, 41, "3-MEDIUM"), Order(52, 3, 42, "1-URGENT"),
        Order(53, 4, 41, "3-MEDIUM")>>
OrderDates(q) ==
  CASE q = "q3" -> <<19950314, 19950314, 19950315, 19950101>>
    [] q = "q4" -> <<19930630, 19930701, 19931001, 19930930>>
    [] q = "q5" -> <<19940101, 19940101, 19941231, 19950101>>
    [] q = "q9" -> <<19940101, 19930101, 19940101, 19930101>>
    [] q = "q10" -> <<19930930, 19931001, 19931231, 19940101>>
    [] OTHER -> <<19940101, 19940101, 19940101, 19940101>>

OrderKeys == {51, 52, 53, 54}
Price(i) == [l_extendedprice |-> 10 ^ i]
NoValue(i) == <<>>

\* Dates of shipping, commitment and receipt.
Delivered == {<<19940101, 19940102, 19940103>>, <<19940101, 19940103, 19940103>>, <<19940102, 19940102, 19940103>>,
              <<19931229, 19931230, 19931231>>, <<19941229, 19941230, 19941231>>, <<19941230, 19941231, 19950101>>}

Lineitems(q) ==
  CASE q = "q1" -> TablesOf(MaxRows, [l_shipdate : {19980902, 19980903}, l_returnflag : {"A", "N"},
                                    l_linestatus : {"F", "O"}, l_discount : {1}, l_tax : {2}],
                          LAMBDA i : [l_extendedprice |-> 10 ^ i, l_quantity |-> i])
    [] q = "q3" -> TablesOf(MaxRows, [l_orderkey : OrderKeys, l_shipdate : {19950315, 19950316}, l_discount : {0, 1}],
                          Price)
    [] q = "q4" -> TablesOf(MaxRows, [l_orderkey : OrderKeys, l_commitdate : {1, 2}, l_receiptdate : {2}], NoValue)
    [] q = "q5" -> TablesOf(MaxRows, [l_orderkey : OrderKeys, l_suppkey : {31, 32, 33}, l_discount : {1}], Price)
    [] q = "q6" -> TablesOf(MaxRows, [l_shipdate : {19931231, 19940101, 19941231, 19950101},
                                    l_quantity : {2399, 2400}, l_discount : {4, 5, 7, 8}], Price)
    [] q = "q9" -> TablesOf(MaxRows, {[l_orderkey |-> key, l_partkey |-> ps.ps_partkey, l_suppkey |-> ps.ps_suppkey,
                                     l_discount |-> 1, l_quantity |-> 2] :
                                      key \in {51, 52, 53}, ps \in {partsupp[i] : i \in DOMAIN partsupp}}, Price)
    [] q = "q10" -> TablesOf(MaxRows, [l_orderkey : OrderKeys, l_returnflag : {"N", "R"}, l_discount : {1},
                                     l_extendedprice : {10, 20}], NoValue)
    [] q = "q12" -> TablesOf(MaxRows, {[l_orderkey |-> key, l_shipmode |-> mode, l_shipdate |-> d[1],
                                      l_commitdate |-> d[2], l_receiptdate |-> d[3]] :
                                       key \in {51, 52}, mode \in {"AIR", "MAIL", "SHIP"}, d \in Delivered}, NoValue)
    [] q = "q14" -> TablesOf(MaxRows, [l_shipdate : {19950831, 19950901, 19950930, 19951001}, l_partkey : {21, 22, 23},
                                     l_discount : {1}], LAMBDA i : [l_extendedprice |-> 7 + 4 * i])
    [] q = "q15" -> TablesOf(MaxRows, [l_shipdate : {19951231, 19960101, 19960331, 19960401}, l_suppkey : {31, 33},
                                     l_extendedprice : {10, 20}, l_discount : {1}], NoValue)
    [] q = "q17" -> TablesOf(MaxRows, [l_partkey : {21, 22, 23}, l_quantity : {1, 9, 10, 50}],
                           LAMBDA i : [l_extendedprice |-> 7 + 4 * i])
    [] q = "q18" -> TablesOf(MaxRows, [l_orderkey : OrderKeys, l_quantity : {15000, 15001, 30001}], NoValue)

\* The primary key of partsupp.
UniqueParts(t) == \A i, j \in DOMAIN t : i # j => <<t[i].ps_partkey, t[i].ps_suppkey>> # <<t[j].ps_partkey, t[j].ps_suppkey>>

TpchBase(q) ==
  [region |-> region, nation |-> nation, supplier |-> supplier, customer |-> customer, part |-> part,
   partsupp |-> partsupp, orders |-> OrdersOn(OrderDates(q)), lineitem |-> <<>>]

TpchDatabases(q) ==
  CASE q = "q11" -> {[TpchBase(q) EXCEPT !.partsupp = t] :
                       t \in {u \in TablesOf(MaxRows + 1, [ps_partkey : {21, 22}, ps_suppkey : {31, 33, 34},
                                                         ps_supplycost : {1, 2}, ps_availqty : {3}], NoValue) :
                                UniqueParts(u)}}
    [] q = "q13" -> {[TpchBase(q) EXCEPT !.orders = t] :
                       t \in TablesOf(MaxRows + 1,
                               [o_custkey : {41, 42, 43}, o_comment : {<<"requests", "special">>, <<"special", "requests">>,
                                                                  <<"special", "or", "special", "requests">>}], NoValue)}
    [] OTHER -> {[TpchBase(q) EXCEPT !.lineitem = t] : t \in Lineitems(q)}

MCDatabases(benchmark, q) == IF benchmark = "ssb" THEN SsbDatabases(q) ELSE TpchDatabases(q)
NoDatabases(benchmark, q) == {}

---------------------------------------------------------------------------
(* What columns hold *)

CONSTANTS Zero, None, Untouched, Stray   \* as in TableImport and LaneKernels

VARIABLES
  shown,    \* what this behaviour shows: "query", "import", "lanes" or "value"
  sample,   \* the value
  tbl, dir, cached, pc, column, parsed, size, diffs, relation, outcome, latest, replaced, damage,
  kernel, nrRows, inSel, wanted, keys, written, row, nrWritten

importVars == <<tbl, dir, cached, pc, column, parsed, size, diffs, relation, outcome, latest, replaced, damage>>
laneVars == <<kernel, nrRows, inSel, wanted, keys, written, row, nrWritten>>
allVars == <<shown, vars, sample, importVars, laneVars>>

\* Integers of 8 bits, numbers of 3 digits, registers of 4 characters.
Alphabet == <<" ", "a", "b", "c">>
V == INSTANCE ColumnValues WITH IntWidth <- 8, IntDigits <- 3, NumericDigits <- 5, Register <- 4

-----------------------------------------------------------------------------
(* The import: a relation with the types of TPC-H's region; texts of up to *)
(* two characters.                                                         *)

ImportTypes == [c \in DOMAIN V!importTPCH.region |-> V!importTPCH.region[c][2]]
castString(type, text) ==
  CASE type = "Integer" -> V!IntegerCast(text)
    [] type = "Char_25" -> V!CharCast(2, text, " ")
    [] type = "Varchar_152" -> V!VarcharCast(2, text, " ")

Line1 == <<"1", "|", "a", "b", "|", "|">>
Line2 == <<" ", "2", "|", " ", "c", "|", "a", "b", "|">>
Line3 == <<"-", "3", "|", "c", "|", "a", "|">>
BadLine == <<"1", "a", "|", "a", "|", "|">>
ImportTables == {<<>>, <<Line1>>, <<Line1, Line2>>, <<Line3, Line2>>, <<Line1, BadLine>>}

Import == INSTANCE TableImport WITH Types <- ImportTypes, Tables <- ImportTables, Bar <- "|", attributes <- parsed

-----------------------------------------------------------------------------
(* The loops: two lanes of 64 bits, or four of 32; vectors of up to six    *)
(* rows, so that zero or more whole registers are followed by any rest;    *)
(* keys of 4 bits, one of them negative, hashes of 6.                      *)

LaneRows == 6
Rising == [p \in 0..(LaneRows - 1) |-> p]
Mixed == [p \in 0..(LaneRows - 1) |-> IF p = 1 THEN -1 ELSE 2 * (p \div 2)]

Lanes == INSTANCE LaneKernels WITH
  WideLanes <- 2, KeyBits <- 4, HashBits <- 6, MaxRows <- LaneRows, KeyColumns <- {Rising, Mixed},
  n <- nrRows, result <- written, i <- row, found <- nrWritten

-----------------------------------------------------------------------------
(* Values *)

TextsOf(chars, lengths) == UNION {[1..k -> chars] : k \in lengths}

IntegerSamples ==
  [of : {"integer"}, number : -300..300 \cup {1000, -1000}, plus : BOOLEAN,
   before : {<<>>, <<" ">>}, behind : {<<>>, <<".">>, <<".", "5">>, <<" ", " ">>}]
NumericSamples == [of : {"numeric"}, precision : 0..3, number : -1100..1100]
ProductSamples == [of : {"product"}, x : {-250, -99, -7, 0, 1, 6, 125}, y : {-30, -3, 1, 7, 100}, digits : {0, 1, 2, 4}]
TextSamples == [of : {"text"}, x : TextsOf({" ", "a", "b"}, 0..3), y : TextsOf({" ", "a", "b"}, 0..3)]
SearchSamples == [of : {"search"}, text : TextsOf({"a", "b"}, 0..8),
                  word : TextsOf({"a", "b"}, 1..3) \cup {<<"a", "b", "a", "a">>, <<"a", "a", "b", "a", "b">>}]
WordsSamples == [of : {"words"}, text : TextsOf({"a", "b"}, 0..7),
                 first : {<<"a">>, <<"a", "b">>, <<"b", "b">>}, second : {<<"b">>, <<"a", "b">>, <<"a", "a", "b">>}]
StampSamples == [of : {"stamp"}, date : {2448623, 2451604, 2451605},
                 time : {0, 1, 50, 999, 1000, 59999, 60000, 3599999, 3600000, 45296789, 86399999}]

\* The day before leap years of both kinds, and the first day in the data of TPC-H.
FirstDays == {[of |-> "day", date |-> <<1899, 12, 31>>, number |-> 2415020],
              [of |-> "day", date |-> <<1992, 1, 1>>, number |-> 2448623],
              [of |-> "day", date |-> <<1999, 12, 31>>, number |-> 2451544]}
LastDays == {<<1900, 3, 2>>, <<1998, 12, 31>>, <<2001, 1, 1>>}

Samples == IntegerSamples \cup NumericSamples \cup ProductSamples \cup TextSamples \cup SearchSamples
           \cup WordsSamples \cup StampSamples \cup FirstDays \cup {[of |-> "schemas"]}

\* The Gregorian calendar, as it is defined.
LeapYear(y) == y % 4 = 0 /\ (y % 100 # 0 \/ y % 400 = 0)
DaysOf(y, m) == IF m = 2 THEN (IF LeapYear(y) THEN 29 ELSE 28) ELSE IF m \in {4, 6, 9, 11} THEN 30 ELSE 31
DayAfter(date) ==
  IF date[3] < DaysOf(date[1], date[2]) THEN <<date[1], date[2], date[3] + 1>>
  ELSE IF date[2] < 12 THEN <<date[1], date[2] + 1, 1>> ELSE <<date[1] + 1, 1, 1>>

NextDay ==
  /\ shown = "value" /\ sample.of = "day" /\ sample.date \notin LastDays
  /\ sample' = [sample EXCEPT !.date = DayAfter(@), !.number = @ + 1]
  /\ UNCHANGED <<shown, vars, importVars, laneVars>>

-----------------------------------------------------------------------------

NoQuery == query = <<>> /\ db = <<>> /\ hyper = Pending /\ vectorwise = Pending
NoSample == sample = [of |-> "none"]
NoImport == Import!Init /\ tbl = None /\ ~dir
NoLanes == kernel = Lanes!sel_col /\ nrRows = 0 /\ Lanes!Init

MCInit ==
  \/ shown = "query" /\ Init /\ NoSample /\ NoImport /\ NoLanes
  \/ shown = "import" /\ NoQuery /\ NoSample /\ Import!Init /\ NoLanes
  \/ shown = "lanes" /\ NoQuery /\ NoSample /\ NoImport /\ Lanes!Init
  \/ shown = "value" /\ NoQuery /\ sample \in Samples /\ NoImport /\ NoLanes

QueryStep == shown = "query" /\ Next /\ UNCHANGED <<shown, sample, importVars, laneVars>>
ImportStep == shown = "import" /\ Import!Next /\ UNCHANGED <<shown, vars, sample, laneVars>>
LanesStep == shown = "lanes" /\ Lanes!Next /\ UNCHANGED <<shown, vars, sample, importVars>>

\* The query has been run twice or stopped, a loop has returned, or there is nothing to wait for.
Finished ==
  /\ \/ shown = "query" /\ (hyper = Aborted \/ vectorwise # Pending)
     \/ shown = "lanes" /\ Lanes!Returned
     \/ shown = "value"
  /\ UNCHANGED allVars

MCNext == QueryStep \/ ImportStep \/ LanesStep \/ NextDay \/ Finished

MCSpec == MCInit /\ [][MCNext]_allVars

ASSUME ImportAssumption == Import!TypesAssumption /\ Import!TablesAssumption

-----------------------------------------------------------------------------
(* What must be right with a value.  Each part says of one kind of sample  *)
(* what the column types of src/include/common/runtime/Types.hpp do to it. *)

LOCAL Abs(k) == IF k < 0 THEN -k ELSE k

\* A number that fits an Integer is read exactly whatever surrounds it, one of too
\* many digits refused; between them lie those that silently become others.
IntegersRead ==
  sample.of = "integer" =>
    LET sign == IF sample.number < 0 THEN <<"-">> ELSE IF sample.plus THEN <<"+">> ELSE <<>>
        read == V!IntegerCast(sample.before \o sign \o V!DigitsOf(Abs(sample.number)) \o sample.behind)
    IN  /\ sample.number \in -128..127 => read = {sample.number}
        /\ sample.number \notin -128..127 => sample.number \notin read
        /\ read = {} <=> Abs(sample.number) > 999

\* A Numeric that is printed is read back as itself at its precision or a higher
\* one, and at a lower one if nothing is lost, which otherwise is refused.
NumbersKept ==
  sample.of = "numeric" =>
    LET p == sample.precision
        text == V!NumericText(p, sample.number)
    IN  /\ V!NumericCast(p, text) = {sample.number}
        /\ V!NumericCast(p + 2, text) = {100 * sample.number}
        /\ p > 0 => /\ V!NumericCast(p - 1, text)
                         = IF sample.number % 10 = 0 THEN {V!castM(sample.number, 1)} ELSE {}
                    /\ Len(V!Behind(".", text)) = p

\* What is multiplied, divided and cut back to its precision is itself again, and
\* a quotient is less than one unit too close to zero.
ProductsExact ==
  sample.of = "product" =>
    LET x == sample.x  y == sample.y  q == sample.digits
        quotient == V!NumericDivide(x, q, y)
    IN  /\ V!castM(V!NumericDivide(V!NumericMultiply(x, y), q, y), q) = x
        /\ V!castM(V!castP(x, q), q) = x
        /\ Abs(quotient * y) <= Abs(x * 10 ^ q) /\ Abs(x * 10 ^ q - quotient * y) < Abs(y)

\* The order of a dictionary.
Precedes(x, y) ==
  \E k \in 0..Len(x) :
    /\ k < Len(y) /\ SubSeq(x, 1, k) = SubSeq(y, 1, k)
    /\ k = Len(x) \/ V!ByteOf(x[k + 1]) < V!ByteOf(y[k + 1])

\* Strings compare as their texts do, whatever lies behind them in their columns.
TextsOrdered ==
  sample.of = "text" =>
    LET Agree(x, y, a, b) ==
          /\ V!Same(x, y) <=> a = b
          /\ V!Less(x, y) <=> Precedes(a, b)
          /\ V!LessEqual(x, y) <=> ~Precedes(b, a)
          /\ V!Greater(x, y) <=> Precedes(b, a)
          /\ V!GreaterEqual(x, y) <=> ~Precedes(a, b)
    IN  /\ \A x \in V!VarcharCast(3, sample.x, "c"), y \in V!VarcharCast(3, sample.y, " ") :
             Agree(x, y, sample.x, sample.y)
        /\ \A x \in V!CharCast(3, sample.x, "c"), y \in V!CharCast(3, sample.y, " ") :
             Agree(x, y, V!WithoutBlanks(sample.x), V!WithoutBlanks(sample.y))

\* The search with registers finds what a search by bytes does, also a word across
\* the seam of two registers or one half of which ended the register before.
WordsFound ==
  /\ sample.of = "search" =>
       LET place == V!memmemSSE(sample.text, sample.word) IN
       /\ place = V!memmem(sample.text, sample.word)
       /\ V!startsWith(sample.text, sample.word) <=> place = 0
       /\ V!endsWith(sample.text, sample.word) => place # V!NotFound
  /\ sample.of = "words" /\ Len(sample.text) >= Len(sample.second) =>
       V!contains2(sample.text, sample.first, sample.second)
         = {\E p, q \in 0..Len(sample.text) :
              /\ V!startsWith(SubSeq(sample.text, p + 1, Len(sample.text)), sample.first)
              /\ V!startsWith(SubSeq(sample.text, q + 1, Len(sample.text)), sample.second)
              /\ q >= p + Len(sample.first)}

\* Days are numbered in the order of the calendar, without gaps, and can be told
\* from their numbers; a day behind the end of its month counts as one of the next.
DaysCount ==
  sample.of = "day" =>
    LET date == sample.date IN
    /\ V!mergeJulianDay(date[1], date[2], date[3]) = sample.number
    /\ V!splitJulianDay(sample.number) = date /\ V!extractYear(sample.number) = date[1]
    /\ V!DateCast(V!DateText(sample.number)) = {sample.number}
    /\ V!mergeJulianDay(date[1], date[2], 31) = sample.number + 31 - date[3]

\* A timestamp that is printed is read back as itself.
StampsKept ==
  sample.of = "stamp" =>
    V!TimestampCast(V!TimestampText(<<sample.date, sample.time>>)) = {<<sample.date, sample.time>>}

\* All of this, and the types of the columns: what is read, printed, compared,
\* searched and counted is what the texts of a table mean.
ValuesRight ==
  /\ IntegersRead /\ NumbersKept /\ ProductsExact /\ TextsOrdered /\ WordsFound
  /\ DaysCount /\ StampsKept /\ (sample.of = "schemas" => V!SchemasAgree)

\* What a driver works on is one table, the one that was parsed last, except for
\* values of the last column that a kill prevented from being copied.
LoadedIsOneTable == Import!LoadedIsOneTable

\* A start refuses the files it finds only after tables were exchanged or a kill in
\* the last column, and the directory only if it was missing.
RefusalsExplained == Import!RefusalsExplained

\* The loops over lanes select and hash as those over rows do and stay inside
\* their vectors.
LanesRight ==
  /\ Lanes!SelectsWanted /\ Lanes!LanesAgree /\ Lanes!HashesApart /\ Lanes!StaysInVector

\* "It is semantically equivalent to hash4_sel<int32_t, DEFAULT_HASH>" (a comment
\* on hash4_selASM, src/vectorwise/primitives/Hash.cpp).
SameAsHash4Sel == Lanes!SameAsHash4Sel
=============================================================================
