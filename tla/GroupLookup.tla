---------------------------- MODULE GroupLookup -----------------------------
(***************************************************************************)
(* HashGroup::GroupLookup (include/vectorwise/Operators.hpp): one worker   *)
(* aggregates vectors of tuples into its hash table.  Per vector:          *)
(* findGroups looks every tuple up by hash (htLookup), compares the keys   *)
(* and follows the chains of those that differ (htFollow);                 *)
(* createMissingGroups makes a group of each key that was not found; the   *)
(* aggregates are updated through htMatches.  Before phase 2 the table is  *)
(* flushed when it is full, in phase 2 it is resized (resizes).            *)
(*                                                                         *)
(* The aggregate is a count.  Rows are counted from 1.                     *)
(***************************************************************************)
EXTENDS Naturals, Sequences, FiniteSets, SequencesExt

CONSTANTS
  Keys,
  Hashings,    \* what the hash function may be on Keys
  VecSize,     \* rows per vector
  MaxRows,     \* bound: rows aggregated
  InitialSize  \* initialMapSize

KeysAssumption == IsFiniteSet(Keys) /\ Hashings \subseteq [Keys -> Nat]
SizesAssumption == VecSize \in Nat \ {0} /\ MaxRows \in Nat /\ InitialSize \in Nat \ {0}

VARIABLES
  hash,            \* hash[k]: the hash of key k (constant)
  resizes,         \* phase 2: createMissingGroups(ht, true)
  pc,
  keys,            \* the keys of the rows of the current vector
  groups,          \* allocations: the groups [key, count] in creation order
  table,           \* table[b]: the chain of bucket b, numbers of groups
  maxFill,         \* the load at which the table is flushed or resized
  created,         \* the counter "groups" of HashGroup::next
  htMatches,       \* htMatches[r]: the group of row r
  groupsFound,     \* rows that found an entry with their hash
  groupsNotFound,  \* rows that found none
  keysNEq,         \* rows whose entry has another key
  spilled,         \* counts flushed so far, per key (history)
  seen             \* rows seen so far, per key (history)

lookupVars == <<htMatches, groupsFound, groupsNotFound, keysNEq>>
vars == <<hash, resizes, pc, keys, groups, table, maxFill, created, htMatches, groupsFound,
          groupsNotFound, keysNEq, spilled, seen>>

Rows == 1 .. VecSize

\* The elements of s that are in A, in their order.
Those(s, A) ==
  LET of[i \in 0 .. Len(s)] == IF i = 0 THEN <<>>
                               ELSE IF s[i] \in A THEN Append(of[i - 1], s[i]) ELSE of[i - 1]
  IN of[Len(s)]

Numbers(n) == [i \in 1 .. n |-> i]

pow[e \in Nat] == IF e = 0 THEN 1 ELSE 2 * pow[e - 1]

\* setSize(n) gives 2^exp buckets, exp the bit length of n, or one more if
\* that is less than n / 0.7, and returns the load factor 0.7 of it.
capacityFor(n) ==
  LET exp == CHOOSE e \in 1 .. n + 1 : pow[e - 1] <= n /\ n < pow[e]
  IN IF pow[exp] * 7 < n * 10 THEN pow[exp + 1] ELSE pow[exp]

fillOf(cap) == (cap * 7) \div 10

Empty(cap) == [b \in 0 .. cap - 1 |-> <<>>]

bucket(k, t) == hash[k] % Cardinality(DOMAIN t)

\* insertAll: the groups from first on are pushed to the front of their chains.
InsertAll(t, gs, first) ==
  LET of(b) == Those(Numbers(Len(gs)), {n \in first .. Len(gs) : bucket(gs[n].key, t) = b})
  IN [b \in DOMAIN t |-> Reverse(of(b)) \o t[b]]

Init ==
  /\ hash \in Hashings
  /\ resizes \in BOOLEAN
  /\ pc = "next"
  /\ keys = <<>>
  /\ groups = <<>>
  /\ table = Empty(capacityFor(InitialSize))
  /\ maxFill = fillOf(capacityFor(InitialSize))
  /\ created = 0
  /\ htMatches = [r \in Rows |-> 0]
  /\ groupsFound = <<>> /\ groupsNotFound = <<>> /\ keysNEq = <<>>
  /\ spilled = [k \in Keys |-> 0]
  /\ seen = [k \in Keys |-> 0]

\* The sum of counts: a pair for each row counted.
Total(counts) == Cardinality(UNION {{x} \X (1 .. counts[x]) : x \in DOMAIN counts})

\* n = child->next(); groupHash.evaluate(n)
NextVector ==
  /\ pc = "next"
  /\ \E n \in 1 .. VecSize : \E ks \in [1 .. n -> Keys] :
       /\ Total(seen) + n <= MaxRows
       /\ keys' = ks
  /\ pc' = "lookup"
  /\ UNCHANGED <<hash, resizes, groups, table, maxFill, created, lookupVars, spilled, seen>>

chain(r) == table[bucket(keys[r], table)]

SameHash(r, g) == hash[groups[g].key] = hash[keys[r]]

\* The first entry with the hash of row r among those after place p of its
\* chain: its place, or one beyond the end.
Seek(r, p) ==
  LET hits == {q \in p + 1 .. Len(chain(r)) : SameHash(r, chain(r)[q])}
  IN IF hits = {} THEN Len(chain(r)) + 1 ELSE CHOOSE q \in hits : \A x \in hits : q <= x

InChain(r, q) == q <= Len(chain(r))

\* htLookup: the first entry with the hash of the row.
htLookup ==
  LET hits == {r \in DOMAIN keys : InChain(r, Seek(r, 0))}
  IN /\ pc = "lookup"
     /\ htMatches' = [r \in Rows |-> IF r \in hits THEN chain(r)[Seek(r, 0)] ELSE htMatches[r]]
     /\ groupsFound' = Those(Numbers(Len(keys)), hits)
     /\ groupsNotFound' = Those(Numbers(Len(keys)), DOMAIN keys \ hits)
     /\ keysNEq' = <<>>
     /\ pc' = "compare"
     /\ UNCHANGED <<hash, resizes, keys, groups, table, maxFill, created, spilled, seen>>

\* keyEquality.evaluate(found): the rows whose entry has another key.
keyEquality ==
  /\ pc = "compare"
  /\ keysNEq' = keysNEq \o Those(groupsFound, {r \in ToSet(groupsFound) : groups[htMatches[r]].key # keys[r]})
  /\ pc' = "follow"
  /\ UNCHANGED <<hash, resizes, keys, groups, table, maxFill, created, htMatches, groupsFound,
                 groupsNotFound, spilled, seen>>

\* while (keysNEq->size()) htFollow: rows whose entry had another key search
\* on in their chain.  For every entry passed on the way the code pushes i,
\* the position in keysNEq, to groupsNotFound; nothing is pushed for a row
\* that reaches the end of its chain at once.
htFollow ==
  LET at(r) == CHOOSE q \in DOMAIN chain(r) : chain(r)[q] = htMatches[r]
      hits == {r \in ToSet(keysNEq) : InChain(r, Seek(r, at(r)))}
      passed(i) == LET r == keysNEq[i]
                   IN [n \in 1 .. Seek(r, at(r)) - at(r) - 1 |-> i]
      found == Those(keysNEq, hits)
  IN /\ pc = "follow"
     /\ keysNEq # <<>>
     /\ htMatches' = [r \in Rows |-> IF r \in hits THEN chain(r)[Seek(r, at(r))] ELSE htMatches[r]]
     /\ groupsFound' = found
     /\ groupsNotFound' = groupsNotFound \o FlattenSeq([i \in DOMAIN keysNEq |-> passed(i)])
     /\ IF found = <<>>
        THEN pc' = "create" /\ UNCHANGED keysNEq
        ELSE pc' = "compare" /\ keysNEq' = <<>>
     /\ UNCHANGED <<hash, resizes, keys, groups, table, maxFill, created, spilled, seen>>

\* No keys differ (any more): findGroups returns.
FindGroupsDone ==
  /\ pc = "follow"
  /\ keysNEq = <<>>
  /\ pc' = "create"
  /\ UNCHANGED <<hash, resizes, keys, groups, table, maxFill, created, lookupVars, spilled, seen>>

\* partitionKeys: the distinct keys of the rows in groupsNotFound, in the
\* order of their first rows.
MissingKeys ==
  LET ks == [n \in DOMAIN groupsNotFound |-> keys[groupsNotFound[n]]]
      firsts == Those(Numbers(Len(ks)), {n \in DOMAIN ks : \A m \in 1 .. n - 1 : ks[m] # ks[n]})
  IN [n \in DOMAIN firsts |-> ks[firsts[n]]]

Grown == groups \o [n \in DOMAIN MissingKeys |-> [key |-> MissingKeys[n], count |-> 0]]

\* Rows in groupsNotFound point to the new group of their key.
PointTo(gs) ==
  [r \in Rows |-> IF r \in ToSet(groupsNotFound)
                  THEN CHOOSE g \in Len(groups) + 1 .. Len(gs) : gs[g].key = keys[r]
                  ELSE htMatches[r]]

\* Mutant: the new groups are not written back to htMatches.
createMissingGroups_NoWriteBack ==
  LET gs == Grown
      grow == resizes /\ MissingKeys # <<>> /\ Len(gs) > maxFill
      cap == capacityFor(2 * Len(gs))
  IN /\ pc = "create"
     /\ groups' = gs
     /\ table' = IF grow THEN InsertAll(Empty(cap), gs, 1)
                 ELSE InsertAll(table, gs, Len(groups) + 1)
     /\ maxFill' = IF grow THEN fillOf(cap) ELSE maxFill
     /\ created' = IF resizes THEN created ELSE created + Len(MissingKeys)
     /\ pc' = "update"
     /\ UNCHANGED <<hash, resizes, keys, lookupVars, spilled, seen>>

\* createMissingGroups: allocate and insert the groups; if the table may be
\* resized and is too full, set its size anew and insert all groups again.
createMissingGroups ==
  LET gs == Grown
      grow == resizes /\ MissingKeys # <<>> /\ Len(gs) > maxFill
      cap == capacityFor(2 * Len(gs))
  IN /\ pc = "create"
     /\ groups' = gs
     /\ table' = IF grow THEN InsertAll(Empty(cap), gs, 1)
                 ELSE InsertAll(table, gs, Len(groups) + 1)
     /\ maxFill' = IF grow THEN fillOf(cap) ELSE maxFill
     /\ created' = IF resizes THEN created ELSE created + Len(MissingKeys)
     /\ htMatches' = PointTo(gs)
     /\ pc' = "update"
     /\ UNCHANGED <<hash, resizes, keys, groupsFound, groupsNotFound, keysNEq, spilled, seen>>

NrRows(S) == Cardinality({r \in 1 .. Len(keys) : r \in S})

\* updateGroups.evaluate(n): every row counts in the group it points to.
updateGroups ==
  /\ pc = "update"
  /\ groups' = [g \in DOMAIN groups |->
                  [groups[g] EXCEPT !.count = @ + NrRows({r \in Rows : htMatches[r] = g})]]
  /\ seen' = [k \in Keys |-> seen[k] + Cardinality({r \in DOMAIN keys : keys[r] = k})]
  /\ pc' = IF ~resizes /\ created >= maxFill THEN "flush" ELSE "next"
  /\ keys' = <<>>
  /\ UNCHANGED <<hash, resizes, table, maxFill, created, lookupVars, spilled>>

CountIn(gs, k) == Total([g \in {g \in DOMAIN gs : gs[g].key = k} |-> gs[g].count])

\* Mutant: the table is not cleared.
flushAndClear_KeepsTable ==
  /\ pc = "flush"
  /\ spilled' = [k \in Keys |-> spilled[k] + CountIn(groups, k)]
  /\ groups' = <<>>
  /\ pc' = "next"
  /\ UNCHANGED <<hash, resizes, keys, table, maxFill, created, lookupVars, seen>>

\* flushAndClear: spill all groups, clear the table and its memory.  The
\* counter that led here is not reset.
flushAndClear ==
  /\ pc = "flush"
  /\ spilled' = [k \in Keys |-> spilled[k] + CountIn(groups, k)]
  /\ groups' = <<>>
  /\ table' = Empty(Cardinality(DOMAIN table))
  /\ pc' = "next"
  /\ UNCHANGED <<hash, resizes, keys, maxFill, created, lookupVars, seen>>

\* The input ends when the model's bound is reached.
Finished == pc = "next" /\ UNCHANGED vars

Next == \/ NextVector \/ htLookup \/ keyEquality \/ htFollow \/ FindGroupsDone
        \/ createMissingGroups \/ updateGroups \/ flushAndClear \/ Finished

Spec == Init /\ [][Next]_vars

-----------------------------------------------------------------------------

\* No two keys have the same hash.
NoEqualHashes == \A k, l \in Keys : hash[k] = hash[l] => k = l

\* The lists of rows have room for a vector.  Keys with one hash can make
\* groupsNotFound longer, since htFollow pushes once for each entry it passes.
TypeOK ==
  /\ hash \in Hashings
  /\ resizes \in BOOLEAN
  /\ pc \in {"next", "lookup", "compare", "follow", "create", "update", "flush"}
  /\ keys \in Seq(Keys) /\ Len(keys) <= VecSize
  /\ groups \in Seq([key : Keys, count : 0 .. MaxRows])
  /\ \A b \in DOMAIN table : \A n \in DOMAIN table[b] : table[b][n] \in DOMAIN groups
  /\ htMatches \in [Rows -> Nat]
  /\ \A s \in {groupsFound, groupsNotFound, keysNEq} : s \in Seq(Rows)
  /\ Len(groupsFound) <= VecSize /\ Len(keysNEq) <= VecSize
  /\ NoEqualHashes => Len(groupsNotFound) <= VecSize

\* Unless two keys have the same hash: every row is counted for its own key,
\* once, in a group that is in the table or has been spilled, through
\* collisions in a bucket, resizes and flushes.
RowsCounted ==
  NoEqualHashes /\ pc = "next" => \A k \in Keys : seen[k] = spilled[k] + CountIn(groups, k)

\* Nor does a key have two groups in the table at a time, and each group can be
\* found in the chain of its bucket, once.
GroupsDistinct ==
  NoEqualHashes /\ pc \in {"next", "update"} =>
    /\ \A g, h \in DOMAIN groups : groups[g].key = groups[h].key => g = h
    /\ \A g \in DOMAIN groups :
         LET b == bucket(groups[g].key, table)
         IN Cardinality({n \in DOMAIN table[b] : table[b][n] = g}) = 1

\* The table never holds more groups than one vector beyond its fill limit.
FillBounded == Len(groups) < maxFill + VecSize

CountsExact == RowsCounted /\ GroupsDistinct /\ FillBounded

\* Whatever the hashes: each row is counted in exactly one group.  (With equal
\* hashes it may be the group of another key.)
NoRowLost ==
  pc = "next" => Total([k \in Keys |-> spilled[k] + CountIn(groups, k)]) = Total(seen)

\* "Tuples which did not find an aggregate in the hashtable" is what
\* groupsNotFound is documented to hold (include/vectorwise/Operators.hpp): when
\* findGroups is done, a row points to the group of its key or is on the list.
FoundOrMissing ==
  pc = "create" =>
    \A r \in DOMAIN keys :
      r \in ToSet(groupsNotFound) \/ (htMatches[r] \in DOMAIN groups /\ groups[htMatches[r]].key = keys[r])

=============================================================================
