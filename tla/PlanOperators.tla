--------------------------- MODULE PlanOperators ---------------------------
(* What the parts of a query plan compute, as the queries in src/benchmarks put them together.          *)
(*                                                                                                       *)
(* A table is a sequence of records.  A vectorwise plan sees it as columns and works on positions: a     *)
(* selection vector is a sequence of positions, a join delivers aligned sequences of positions in its    *)
(* two inputs.  A hyper plan is a loop over the rows that consults hash tables, which are functions.     *)
(* Here one vector holds a whole table; how operators split tables into vectors, and how workers share   *)
(* the work, is the subject of ProbeSide, MorselScan, HashGroup and HashJoinBuild.                       *)
EXTENDS Integers, Sequences, SequencesExt

---------------------------------------------------------------------------
(* Vectorwise *)

\* QueryBuilder::Column: one attribute of a table.
Column(table, name) == [i \in DOMAIN table |-> table[i][name]]

\* Primitives sel_*: the positions whose value satisfies P, in order; selsel_*: those of sel that do.
Sel(P(_), col) == SelectSeq([i \in DOMAIN col |-> i], LAMBDA i : P(col[i]))
SelSel(P(_), sel, col) == SelectSeq(sel, LAMBDA i : P(col[i]))

\* Primitives with an input selection vector (hash_sel_*, scatter_sel_*, proj_sel_*), gather_*, and
\* lookup_sel: the values of source at the positions in sel.
Lookup(source, sel) == [i \in DOMAIN sel |-> source[sel[i]]]

\* The hash of a key of two attributes: the hash of the second is combined with that of the first, so it
\* is injective in the second attribute while the first is the same, but pairs of keys collide.
PairHash_FirstOnly(first, second) == first  \* the second attribute is not combined into the hash
PairHash(first, second) == [i \in DOMAIN first |-> first[i] + second[i]]

\* Primitives keys_equal_*: the places i of the match vectors where the attribute agrees.
KeysEqual(build, buildSel, probe, probeSel) ==
  SelectSeq([i \in DOMAIN buildSel |-> i], LAMBDA i : build[buildSel[i]] = probe[probeSel[i]])

\* Hashjoin: positions of the pairs with equal keys, aligned.  A chain of the table is followed for all
\* tuples of a vector before the next entry, so pairs do not come in the order of the probe side; here
\* they are ordered by the build side.
HashJoin(buildKeys, probeKeys) ==
  LET n == Len(probeKeys)
      pairs == SelectSeq([i \in 1..(Len(buildKeys) * n) |-> <<((i - 1) \div n) + 1, ((i - 1) % n) + 1>>],
                         LAMBDA p : buildKeys[p[1]] = probeKeys[p[2]])
  IN  [build |-> [i \in DOMAIN pairs |-> pairs[i][1]], probe |-> [i \in DOMAIN pairs |-> pairs[i][2]]]

\* A join on two attributes: entries with the hash of the pair, then keys_equal for one attribute after the
\* other, which compacts both match vectors.
PairJoin(build1, build2, probe1, probe2) ==
  LET candidates == HashJoin(PairHash(build1, build2), PairHash(probe1, probe2))
      kept  == KeysEqual(build1, candidates.build, probe1, candidates.probe)
      kept2 == KeysEqual(build2, Lookup(candidates.build, kept), probe2, Lookup(candidates.probe, kept))
  IN  [build |-> Lookup(Lookup(candidates.build, kept), kept2),
       probe |-> Lookup(Lookup(candidates.probe, kept), kept2)]

\* The same with pushProbeSelVector: the second attribute of the probe side is read through pushed at the
\* matches of the first.  keys_equal compacts what was read of pushed, and not the matches themselves.
PairJoinPushed(build1, build2, probe1, probe2, pushed) ==
  LET candidates   == HashJoin(PairHash(build1, build2), PairHash(probe1, Lookup(probe2, pushed)))
      kept         == KeysEqual(build1, candidates.build, probe1, candidates.probe)
      probeMatches == Lookup(candidates.probe, kept)
      line_matches == Lookup(pushed, probeMatches)
      kept2        == KeysEqual(build2, Lookup(candidates.build, kept), probe2, line_matches)
  IN  [probe |-> SubSeq(probeMatches, 1, Len(kept2)), line |-> Lookup(line_matches, kept2)]

\* setProbeSelVector: the join reports the rows that the selection vector of its probe side names.
ProbeRows(join, sel) == [join EXCEPT !.probe = Lookup(sel, @)]

\* FixedAggregation with aggr_static_plus.
Total(values) == SumFunction(values)

\* Groups of the positions in idx: each key with the sums of the values.
Groups(idx, Key(_), Value(_)) ==
  {LET members == {j \in idx : Key(j) = key}
   IN  key @@ [v \in DOMAIN Value(CHOOSE j \in members : TRUE) |->
                 MapThenSumSet(LAMBDA j : Value(j)[v], members)] : key \in {Key(i) : i \in idx}}

\* HashGroup: keys and values are records of aligned columns; n is the number of tuples.
HashGroup(n, keys, values) ==
  Groups(1..n, LAMBDA i : [k \in DOMAIN keys |-> keys[k][i]], LAMBDA i : [v \in DOMAIN values |-> values[v][i]])

---------------------------------------------------------------------------
(* Hyper *)

\* PARALLEL_SELECT with parallel_insert into a Hashset or a Hashmapx whose key is unique in the table.
Hashset(table, P(_), key) == {row[key] : row \in {r \in Range(table) : P(r)}}
Hashmapx(table, P(_), key, Value(_)) ==
  [k \in Hashset(table, P, key) |-> Value(CHOOSE r \in Range(table) : r[key] = k)]

\* Hashmap::setSize for as many entries as were found.  It asserts that there is one, and takes the logarithm
\* with __builtin_clzll, which is undefined for zero.
setSize(entries) == entries # {}

\* What a compiled query does whose tables get these keys: its answer, and whether every setSize is defined.
\* If one is not, a build with assertions stops, and what another one gets is a number of chains that no
\* memory is found for, or that are all empty: then no lookup in the table finds anything.
Compiled(tables, answer) == [answer |-> answer, defined |-> \A i \in DOMAIN tables : setSize(tables[i])]

\* A loop over table that passes the rows that reach its innermost statement to groupLocals.consume.
\* forallGroups writes the groups.
PreAggregate(table, Reached(_), Key(_), Value(_)) ==
  Groups({i \in DOMAIN table : Reached(table[i])}, LAMBDA i : Key(table[i]), LAMBDA i : Value(table[i]))

\* The same with parallel_reduce or a single accumulator.
Reduce(table, Reached(_), Value(_)) ==
  MapThenSumSet(LAMBDA i : Value(table[i]), {i \in DOMAIN table : Reached(table[i])})
=============================================================================
