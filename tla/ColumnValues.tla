---------------------------- MODULE ColumnValues ----------------------------
(***************************************************************************)
(* The SQL values of a column (src/include/common/runtime/Types.hpp,       *)
(* src/common/runtime/Types.cpp): how they are read from the text of a     *)
(* field, printed, compared and calculated with.                           *)
(*                                                                         *)
(* A text is a sequence of one-character strings.  A castString that       *)
(* throws gives {}, one that returns v gives {v}.                          *)
(***************************************************************************)
EXTENDS Integers, Sequences, FiniteSets, SequencesExt

CONSTANTS
  IntWidth,       \* bits of an Integer (32 in the code)
  IntDigits,      \* digits it is read from at most (10)
  NumericDigits,  \* digits of a Numeric before the point at most (18)
  Register,       \* bytes of a register (16)
  Alphabet        \* the characters in the order of their bytes

WidthsAssumption == {IntWidth, IntDigits, NumericDigits, Register} \subseteq Nat \ {0}

DigitChars == <<"0", "1", "2", "3", "4", "5", "6", "7", "8", "9">>
IsDigit(c) == \E d \in 1..10 : DigitChars[d] = c
DigitOf(c) == (CHOOSE d \in 1..10 : DigitChars[d] = c) - 1
AllDigits(t) == \A i \in DOMAIN t : IsDigit(t[i])
NumberOf(digits) == FoldLeft(LAMBDA n, c : 10 * n + DigitOf(c), 0, digits)

\* Without the blanks before and after it.
Trim(t) ==
  LET inked == {i \in DOMAIN t : t[i] # " "}
  IN  IF inked = {} THEN <<>>
      ELSE SubSeq(t, CHOOSE i \in inked : \A j \in inked : i <= j,
                     CHOOSE i \in inked : \A j \in inked : j <= i)

\* The position of the first c of t, or one behind t; what is before and behind it.
FirstOf(c, t) == CHOOSE i \in 1..(Len(t) + 1) :
                   (i <= Len(t) => t[i] = c) /\ \A j \in 1..(i - 1) : t[j] # c
Before(c, t) == SubSeq(t, 1, FirstOf(c, t) - 1)
Behind(c, t) == SubSeq(t, FirstOf(c, t) + 1, Len(t))
Has(c, t) == FirstOf(c, t) <= Len(t)

Negative(t) == t # <<>> /\ t[1] = "-"
Unsigned(t) == IF t # <<>> /\ t[1] \in {"-", "+"} THEN Tail(t) ELSE t
Signed(t, n) == IF Negative(t) THEN -n ELSE n

-----------------------------------------------------------------------------
(* Integer *)

\* The conversion of a wider number to a signed one of IntWidth bits.
Wrap(n) == ((n + 2 ^ (IntWidth - 1)) % 2 ^ IntWidth) - 2 ^ (IntWidth - 1)

\* What follows a point is not looked at.
IntegerCast(text) ==
  LET t == Trim(text)
      digits == Before(".", Unsigned(t))
  IN  IF Unsigned(t) # <<>> /\ AllDigits(digits) /\ Len(digits) <= IntDigits
      THEN {Wrap(Signed(t, NumberOf(digits)))} ELSE {}

-----------------------------------------------------------------------------
(* Numeric<len, precision>: an integer that counts units of 10^-precision *)

\* The zeros at the end of t are skipped once a point is met.
WithoutZeros(t) ==
  LET kept == {i \in DOMAIN t : \E j \in i..Len(t) : t[j] # "0"} IN SubSeq(t, 1, Cardinality(kept))

NumericCast(precision, text) ==
  LET t == Trim(text)
      body == Unsigned(t)
      whole == Before(".", body)
      fraction == WithoutZeros(Behind(".", body))
  IN  IF /\ body # <<>>
         /\ AllDigits(whole) /\ AllDigits(fraction)
         /\ Len(whole) <= NumericDigits /\ Len(fraction) <= precision
      THEN {Signed(t, NumberOf(whole \o fraction) * 10 ^ (precision - Len(fraction)))} ELSE {}

DigitsOf(n) ==
  LET digits[k \in Nat] == IF k < 10 THEN <<DigitChars[k + 1]>>
                           ELSE Append(digits[k \div 10], DigitChars[(k % 10) + 1])
  IN  digits[n]

\* operator<<: zeros while 10 v is below the separator, which loses a digit each time.
Padding(v, precision) ==
  LET zeros[sep \in Nat] == IF sep > 10 * v THEN <<"0">> \o zeros[sep \div 10] ELSE <<>>
  IN  IF v = 0 THEN [i \in 1..precision |-> "0"] ELSE zeros[10 ^ precision] \o DigitsOf(v)

NumericText(precision, value) ==
  LET v == IF value < 0 THEN -value ELSE value
      sep == 10 ^ precision
  IN  (IF value < 0 THEN <<"-">> ELSE <<>>)
      \o (IF precision = 0 THEN DigitsOf(v)
          ELSE DigitsOf(v \div sep) \o <<".">> \o Padding(v % sep, precision))

\* The division of C++ drops what is behind the point, also of negative numbers.
Quotient(m, n) ==
  LET Abs(k) == IF k < 0 THEN -k ELSE k
  IN  IF (m < 0) = (n < 0) THEN Abs(m) \div Abs(n) ELSE -(Abs(m) \div Abs(n))

\* By a number of q digits behind the point: the precision stays that of the dividend.
NumericDivide(value, q, n) == Quotient(value * 10 ^ q, n)
NumericMultiply(value, n) == value * n  \* at the sum of both precisions
castP(value, digits) == value * 10 ^ digits
castM(value, digits) == Quotient(value, 10 ^ digits)

-----------------------------------------------------------------------------
(* Date: a day number *)

mergeJulianDay(year, month, day) ==
  LET a == (14 - month) \div 12
      y == year + 4800 - a
      m == month + 12 * a - 3
  IN  day + ((153 * m + 2) \div 5) + 365 * y + (y \div 4) - (y \div 100) + (y \div 400) - 32045

splitJulianDay(jd) ==
  LET a == jd + 32044
      b == (4 * a + 3) \div 146097
      c == a - ((146097 * b) \div 4)
      d == (4 * c + 3) \div 1461
      e == c - ((1461 * d) \div 4)
      m == (5 * e + 2) \div 153
  IN  <<100 * b + d - 4800 + (m \div 10), m + 3 - 12 * (m \div 10), e - ((153 * m + 2) \div 5) + 1>>

extractYear(jd) == splitJulianDay(jd)[1]

\* Two dashes part year, month and day.  A day up to 31 is taken in every month.
DateCast(text) ==
  LET t == Trim(text)
      parts == <<Before("-", t), Before("-", Behind("-", t)), Behind("-", Behind("-", t))>>
      year == NumberOf(parts[1])
      month == NumberOf(parts[2])
      day == NumberOf(parts[3])
  IN  IF /\ Has("-", t) /\ Has("-", Behind("-", t))
         /\ \A i \in 1..3 : AllDigits(parts[i])
         /\ year <= 9999 /\ month \in 1..12 /\ day \in 1..31
      THEN {mergeJulianDay(year, month, day)} ELSE {}

Padded(n, width) == [i \in 1..(width - Len(DigitsOf(n))) |-> "0"] \o DigitsOf(n)

DateText(jd) ==
  LET date == splitJulianDay(jd)
  IN  Padded(date[1], 4) \o <<"-">> \o Padded(date[2], 2) \o <<"-">> \o Padded(date[3], 2)

-----------------------------------------------------------------------------
(* Timestamp: a day number and the milliseconds since midnight, which the  *)
(* code holds in one number of 64 bits: msPerDay * day + ms.               *)

null == <<0, 0>>

mergeTime(hour, minute, second, ms) == ms + 1000 * second + 60 * 1000 * minute + 60 * 60 * 1000 * hour
splitTime(value) ==
  <<(value \div 3600000) % 24, (value \div 60000) % 60, (value \div 1000) % 60, value % 1000>>

\* A date, a blank, and hour, minute and second, with or without milliseconds:
\* a number, not a fraction.
TimestampCast(text) ==
  LET t == Trim(text)
      time == Behind(" ", t)
      seconds == Behind(":", Behind(":", time))
      parts == <<Before(":", time), Before(":", Behind(":", time)), Before(".", seconds), Behind(".", seconds)>>
      Part(i) == NumberOf(parts[i])
  IN  IF text = <<"N", "U", "L", "L">> THEN {null}
      ELSE IF /\ Has(":", time) /\ Has(":", Behind(":", time))
              /\ \A i \in 1..4 : AllDigits(parts[i])
              /\ Part(1) < 24 /\ Part(2) < 60 /\ Part(3) < 60 /\ Part(4) < 1000
      THEN {<<date, mergeTime(Part(1), Part(2), Part(3), Part(4))>> : date \in DateCast(Before(" ", t))}
      ELSE {}

\* Of a timestamp that is not null.
TimestampText(stamp) ==
  LET time == splitTime(stamp[2])
  IN  DateText(stamp[1]) \o <<" ">> \o DigitsOf(time[1]) \o <<":">> \o Padded(time[2], 2)
      \o <<":">> \o Padded(time[3], 2)
      \o (IF time[4] = 0 THEN <<>> ELSE <<".">> \o Padded(time[4], 3))

-----------------------------------------------------------------------------
(* Char<maxLen> and Varchar<maxLen>: a length and maxLen bytes, of which   *)
(* those behind the length are what happened to be there.                  *)

\* Only a Char loses the blanks before it.
WithoutBlanks(text) ==
  LET inked == {i \in DOMAIN text : text[i] # " "}
  IN  IF inked = {} THEN <<>> ELSE SubSeq(text, CHOOSE i \in inked : \A j \in inked : i <= j, Len(text))

TextCast(maxLen, text, junk) ==
  IF Len(text) > maxLen THEN {}
  ELSE {[len |-> Len(text), value |-> [i \in 1..maxLen |-> IF i <= Len(text) THEN text[i] ELSE junk]]}
VarcharCast(maxLen, text, junk) == TextCast(maxLen, text, junk)
CharCast(maxLen, text, junk) == TextCast(maxLen, WithoutBlanks(text), junk)

ByteOf(c) == CHOOSE k \in DOMAIN Alphabet : Alphabet[k] = c

\* memcmp of the first n bytes
memcmp(x, y, n) ==
  LET differ == {i \in 1..n : x.value[i] # y.value[i]}
      i == CHOOSE k \in differ : \A j \in differ : k <= j
  IN  IF differ = {} THEN 0 ELSE IF ByteOf(x.value[i]) < ByteOf(y.value[i]) THEN -1 ELSE 1

Shorter(x, y) == IF x.len < y.len THEN x.len ELSE y.len
Same(x, y) == x.len = y.len /\ memcmp(x, y, x.len) = 0
Less(x, y) == LET c == memcmp(x, y, Shorter(x, y)) IN c < 0 \/ (c = 0 /\ x.len < y.len)
LessEqual(x, y) == LET c == memcmp(x, y, Shorter(x, y)) IN c < 0 \/ (c = 0 /\ x.len <= y.len)
Greater(x, y) == LET c == memcmp(x, y, Shorter(x, y)) IN c > 0 \/ (c = 0 /\ x.len > y.len)
GreaterEqual(x, y) == LET c == memcmp(x, y, Shorter(x, y)) IN c > 0 \/ (c = 0 /\ x.len >= y.len)

-----------------------------------------------------------------------------
(* Words in a text.  A place counts from 0; NotFound is the null pointer.  *)

NotFound == -1

\* word stands at place p of t, or at least as much of it as fits before end.
StandsAt(word, t, p, end) == \A k \in DOMAIN word : p + k <= end => t[p + k] = word[k]
FirstPlace(places, none) == IF places = {} THEN none ELSE CHOOSE p \in places : \A q \in places : p <= q

\* memmem of the C library
memmem(t, word) == FirstPlace({p \in 0..(Len(t) - Len(word)) : StandsAt(word, t, p, Len(t))}, NotFound)

\* _mm_cmpestri with _SIDD_CMP_EQUAL_ORDERED: where in the register that begins at
\* pos the word begins, also if its end is cut off.
cmpestri(word, t, pos) ==
  FirstPlace({p \in 0..(Register - 1) : StandsAt(word, t, pos + p, pos + Register)}, Register)

\* Mutant: a word that begins in one register and ends in the next is missed.
memmemSSE_WholeSteps(t, word) ==
  LET n == Len(t)
      Fits(p) == Register - p >= Len(word)
      search[pos \in 0..n] ==
        LET chunk == IF n - pos >= Register THEN pos ELSE n - Register
            p == cmpestri(word, t, chunk)
        IN  IF Fits(p) THEN chunk + p ELSE IF n - pos >= Register THEN search[pos + Register] ELSE NotFound
  IN  IF n < Register \/ Len(word) > Register THEN memmem(t, word) ELSE search[0]

memmemSSE(t, word) ==
  LET n == Len(t)
      Fits(p) == Register - p >= Len(word)
      search[pos \in 0..n] ==
        LET chunk == IF n - pos >= Register THEN pos ELSE n - Register
            p == cmpestri(word, t, chunk)
        IN  IF Fits(p) THEN chunk + p ELSE IF n - pos >= Register THEN search[pos + p] ELSE NotFound
  IN  IF n < Register \/ Len(word) > Register THEN memmem(t, word) ELSE search[0]

\* first and behind it second.  A text shorter than second makes the length to
\* search wrap: whatever lies behind the text decides.
contains2(t, first, second) ==
  IF Len(t) < Len(second) THEN BOOLEAN
  ELSE LET start == memmemSSE(SubSeq(t, 1, Len(t) - Len(second)), first)
       IN  {start # NotFound /\ memmemSSE(SubSeq(t, start + Len(first) + 1, Len(t)), second) # NotFound}

startsWith(t, word) == Len(t) >= Len(word) /\ SubSeq(t, 1, Len(word)) = word
endsWith(t, word) == Len(t) >= Len(word) /\ SubSeq(t, Len(t) - Len(word) + 1, Len(t)) = word
-----------------------------------------------------------------------------
(* The columns that src/common/runtime/Import.cpp stores for the tables of *)
(* the two benchmarks, in the order of the fields of a line, and the types *)
(* as which the compiled queries read them.                                *)

importTPCH ==
  [part |->
     <<<<"p_partkey", "Integer">>, <<"p_name", "Varchar_55">>, <<"p_mfgr", "Char_25">>,
       <<"p_brand", "Char_10">>, <<"p_type", "Varchar_25">>, <<"p_size", "Integer">>,
       <<"p_container", "Char_10">>, <<"p_retailprice", "Numeric_12_2">>, <<"p_comment", "Varchar_23">>>>,
   supplier |->
     <<<<"s_suppkey", "Integer">>, <<"s_name", "Char_25">>, <<"s_address", "Varchar_40">>,
       <<"s_nationkey", "Integer">>, <<"s_phone", "Char_15">>, <<"s_acctbal", "Numeric_12_2">>,
       <<"s_comment", "Varchar_101">>>>,
   partsupp |->
     <<<<"ps_partkey", "Integer">>, <<"ps_suppkey", "Integer">>, <<"ps_availqty", "Integer">>,
       <<"ps_supplycost", "Numeric_12_2">>, <<"ps_comment", "Varchar_199">>>>,
   customer |->
     <<<<"c_custkey", "Integer">>, <<"c_name", "Char_25">>, <<"c_address", "Varchar_40">>,
       <<"c_nationkey", "Integer">>, <<"c_phone", "Char_15">>, <<"c_acctbal", "Numeric_12_2">>,
       <<"c_mktsegment", "Char_10">>, <<"c_comment", "Varchar_117">>>>,
   orders |->
     <<<<"o_orderkey", "Integer">>, <<"o_custkey", "Integer">>, <<"o_orderstatus", "Char_1">>,
       <<"o_totalprice", "Numeric_12_2">>, <<"o_orderdate", "Date">>, <<"o_orderpriority", "Char_15">>,
       <<"o_clerk", "Char_15">>, <<"o_shippriority", "Integer">>, <<"o_comment", "Varchar_79">>>>,
   lineitem |->
     <<<<"l_orderkey", "Integer">>, <<"l_partkey", "Integer">>, <<"l_suppkey", "Integer">>,
       <<"l_linenumber", "Integer">>, <<"l_quantity", "Numeric_12_2">>, <<"l_extendedprice", "Numeric_12_2">>,
       <<"l_discount", "Numeric_12_2">>, <<"l_tax", "Numeric_12_2">>, <<"l_returnflag", "Char_1">>,
       <<"l_linestatus", "Char_1">>, <<"l_shipdate", "Date">>, <<"l_commitdate", "Date">>,
       <<"l_receiptdate", "Date">>, <<"l_shipinstruct", "Char_25">>, <<"l_shipmode", "Char_10">>,
       <<"l_comment", "Varchar_44">>>>,
   nation |->
     <<<<"n_nationkey", "Integer">>, <<"n_name", "Char_25">>, <<"n_regionkey", "Integer">>,
       <<"n_comment", "Varchar_152">>>>,
   region |->
     <<<<"r_regionkey", "Integer">>, <<"r_name", "Char_25">>, <<"r_comment", "Varchar_152">>>>]

importSSB ==
  [lineorder |->
     <<<<"lo_orderkey", "Integer">>, <<"lo_linenumber", "Integer">>, <<"lo_custkey", "Integer">>,
       <<"lo_partkey", "Integer">>, <<"lo_suppkey", "Integer">>, <<"lo_orderdate", "Integer">>,
       <<"lo_orderpriority", "Char_15">>, <<"lo_shippriority", "Char_1">>, <<"lo_quantity", "Integer">>,
       <<"lo_extendedprice", "Numeric_18_2">>, <<"lo_ordtotalprice", "Numeric_18_2">>,
       <<"lo_discount", "Numeric_18_2">>, <<"lo_revenue", "Numeric_18_2">>, <<"lo_supplycost", "Numeric_18_2">>,
       <<"lo_tax", "Integer">>, <<"lo_commitdate", "Integer">>, <<"lo_shopmode", "Char_10">>>>,
   part |->
     <<<<"p_partkey", "Integer">>, <<"p_name", "Varchar_22">>, <<"p_mfgr", "Char_6">>,
       <<"p_category", "Char_7">>, <<"p_brand1", "Char_9">>, <<"p_color", "Varchar_11">>,
       <<"p_type", "Varchar_25">>, <<"p_size", "Integer">>, <<"p_container", "Char_10">>>>,
   supplier |->
     <<<<"s_suppkey", "Integer">>, <<"s_name", "Char_25">>, <<"s_address", "Varchar_25">>,
       <<"s_city", "Char_10">>, <<"s_nation", "Char_15">>, <<"s_region", "Char_12">>, <<"s_phone", "Char_15">>>>,
   customer |->
     <<<<"c_custkey", "Integer">>, <<"c_name", "Varchar_25">>, <<"c_address", "Varchar_25">>,
       <<"c_city", "Char_10">>, <<"c_nation", "Char_15">>, <<"c_region", "Char_12">>, <<"c_phone", "Char_15">>,
       <<"c_mktsegment", "Char_10">>>>,
   date |->
     <<<<"d_datekey", "Integer">>, <<"d_date", "Char_18">>, <<"d_dayofweek", "Char_9">>,
       <<"d_month", "Char_9">>, <<"d_year", "Integer">>, <<"d_yearmonthnum", "Integer">>,
       <<"d_yearmonth", "Char_7">>, <<"d_daynuminweek", "Integer">>, <<"d_daynuminmonth", "Integer">>,
       <<"d_daynuminyear", "Integer">>, <<"d_monthnuminyear", "Integer">>, <<"d_weeknuminyear", "Integer">>,
       <<"d_sellingseasin", "Varchar_12">>, <<"d_lastdayinweekfl", "Integer">>,
       <<"d_lastdayinmonthfl", "Integer">>, <<"d_holidayfl", "Integer">>, <<"d_weekdayfl", "Integer">>>>]

\* The types that a file can be written as and mapped; for others algebraToRTType throws.
RTType ==
  {"Integer", "Numeric_12_2", "Numeric_18_2", "Date", "Char_1", "Char_6", "Char_7", "Char_9", "Char_10", "Char_11",
   "Char_12", "Char_15", "Char_18", "Char_22", "Char_25", "Varchar_11", "Varchar_12", "Varchar_22", "Varchar_23",
   "Varchar_25", "Varchar_40", "Varchar_44", "Varchar_55", "Varchar_79", "Varchar_101", "Varchar_117",
   "Varchar_152", "Varchar_199"}

\* data<T>() and typedAccess<T>() reinterpret what was mapped as a vector of T.  The columns that the
\* compiled queries access as each type:
TypedAccessTPCH ==
  [Char_1 |-> {"l_linestatus", "l_returnflag"},
   Char_10 |-> {"c_mktsegment"},
   Char_15 |-> {"c_phone", "s_phone"},
   Char_25 |-> {"c_name", "n_name", "r_name", "s_name"},
   Date |-> {"l_shipdate", "o_orderdate"},
   Integer |-> {"c_custkey", "c_nationkey", "l_orderkey", "l_partkey", "l_suppkey", "n_nationkey",
         "n_regionkey", "o_custkey", "o_orderkey", "o_shippriority", "p_partkey", "ps_availqty",
         "ps_partkey", "ps_suppkey", "r_regionkey", "s_nationkey", "s_suppkey"},
   Numeric_12_2 |-> {"c_acctbal", "l_discount", "l_extendedprice", "l_quantity", "l_tax", "o_totalprice",
         "ps_supplycost"},
   Varchar_117 |-> {"c_comment"},
   Varchar_40 |-> {"c_address", "s_address"},
   Varchar_55 |-> {"p_name"},
   Varchar_79 |-> {"o_comment"}]

TypedAccessSSB ==
  [Char_10 |-> {"c_city", "s_city"},
   Char_12 |-> {"c_region", "s_region"},
   Char_15 |-> {"c_nation", "s_nation"},
   Char_6 |-> {"p_mfgr"},
   Char_7 |-> {"d_yearmonth", "p_category"},
   Char_9 |-> {"p_brand1"},
   Integer |-> {"c_custkey", "d_datekey", "d_weeknuminyear", "d_year", "d_yearmonthnum", "lo_custkey",
         "lo_orderdate", "lo_partkey", "lo_quantity", "lo_suppkey", "p_partkey", "s_suppkey"},
   Numeric_18_2 |-> {"lo_discount", "lo_extendedprice", "lo_revenue", "lo_supplycost"}]

ColumnsOf(import) == UNION {{import[t][i] : i \in DOMAIN import[t]} : t \in DOMAIN import}

\* Every column can be stored, its name is unique in its benchmark, and every query reads it as the type
\* that its values were stored with: a cast without a check would give other values, not an error.
SchemasAgree ==
  /\ \A import \in {importTPCH, importSSB} : \A t \in DOMAIN import : \A i, j \in DOMAIN import[t] :
       import[t][i][2] \in RTType /\ (i # j => import[t][i][1] # import[t][j][1])
  /\ \A pair \in {<<importTPCH, TypedAccessTPCH>>, <<importSSB, TypedAccessSSB>>} :
       \A type \in DOMAIN pair[2] : \A column \in pair[2][type] :
         <<column, type>> \in ColumnsOf(pair[1])
=============================================================================
