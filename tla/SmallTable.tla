----------------------------- MODULE SmallTable -----------------------------
(***************************************************************************)
(* How the rows without a group are sorted by their keys: partition_by_key *)
(* and its variants (include/vectorwise/Primitives.hpp), which read the    *)
(* key and the hash of a row from columns, through a selection vector or   *)
(* from spilled rows, with the table HashmapSmall                          *)
(* (include/common/runtime/HashmapSmall.hpp).  One pass for each column of *)
(* the key splits the partitions of the pass before; the hash is that of   *)
(* the whole key.  The table is used by all passes and all vectors.        *)
(*                                                                         *)
(* A step is one turn of a loop.  Rows are numbered as they are listed in  *)
(* groupsNotFound.  Positions count from 0, entries of the table from 1.   *)
(***************************************************************************)
EXTENDS Naturals, Sequences, FiniteSets

CONSTANTS
  Keys,           \* keys of two columns: pairs
  Hashings,       \* what the hash function may be on Keys
  VecSize,
  FirstCapacity,  \* of the table (256)
  MaxVectors      \* bound: vectors whose rows are sorted

KeysAssumption == Hashings \subseteq [Keys -> Nat]
SizesAssumption == {VecSize, FirstCapacity} \subseteq Nat \ {0} /\ MaxVectors \in Nat

VARIABLES
  hash,       \* hash[k]: the hash of key k (constant)
  vectors,    \* how many were sorted
  keys,       \* keys[row] of the vector
  pc,
  column,     \* of the key
  sel, selOut,                          \* the rows before and after the pass
  partitionBounds, partitionBoundsOut,  \* the ends of partitions in them
  n, p, start, i,                       \* partitions of sel, the current one, its start, as in the code
  outPartition,                         \* partitions of selOut so far
  ht,         \* the table
  grownApart  \* rows that were counted in one entry have different buckets now (history)

rowVars == <<hash, vectors, keys, column>>
passVars == <<sel, selOut, partitionBounds, partitionBoundsOut, n, p, start, outPartition>>
vars == <<rowVars, pc, passVars, i, ht, grownApart>>

-----------------------------------------------------------------------------
(* HashmapSmall *)

Empty == 0
Entries == 1 .. VecSize

\* The power of two for size elements, filled to 0.7 at most.
maxCapacity ==
  LET exp == CHOOSE e \in 1 .. VecSize : 2 ^ (e - 1) <= VecSize /\ VecSize < 2 ^ e
  IN  IF 2 ^ exp * 7 < VecSize * 10 THEN 2 ^ (exp + 1) ELSE 2 ^ exp
capLimit(h) == (h.capacity * 7) \div 10

clearByMemset(h) == [h EXCEPT !.entries = [b \in DOMAIN @ |-> IF b < h.capacity THEN Empty ELSE @[b]]]

\* Storage and the directory behind the capacity hold anything.
HashmapSmall ==
  [entries |-> [b \in 0 .. maxCapacity - 1 |-> Empty],
   storage |-> [s \in Entries |-> [next |-> Empty, hash |-> 0, key |-> 0, value |-> 0]],
   storageUsed |-> 0,
   capacity |-> IF FirstCapacity < maxCapacity THEN FirstCapacity ELSE maxCapacity]

\* Entry s goes to the front of its chain.
Push(h, s) ==
  LET b == h.storage[s].hash % h.capacity
  IN  [h EXCEPT !.storage[s].next = h.entries[b], !.entries[b] = s]

\* A larger table into which all entries are inserted again.
Grow(h) ==
  LET again[s \in 0 .. h.storageUsed] ==
        IF s = 0 THEN clearByMemset([h EXCEPT !.capacity = 2 * @]) ELSE Push(again[s - 1], s)
  IN  again[h.storageUsed]

insert(h, row, rowHash) ==
  LET s == h.storageUsed + 1
      with == Push([h EXCEPT !.storageUsed = s,
                             !.storage[s] = [next |-> Empty, hash |-> rowHash, key |-> row, value |-> 1]], s)
  IN  IF s > capLimit(with) THEN Grow(with) ELSE with

-----------------------------------------------------------------------------

HashOf(row) == hash[keys[row]]
SameValue(r, q) == keys[r][column] = keys[q][column]

\* The first entry in the chain of the row's bucket whose row has the same value.
findFirst(h, row) ==
  LET walk[s \in 0 .. VecSize] ==
        IF s = Empty \/ SameValue(h.storage[s].key, row) THEN s ELSE walk[h.storage[s].next]
  IN  walk[h.entries[HashOf(row) % h.capacity]]

\* Wrong offsets may lead behind the rows.
Places == 0 .. 2 * VecSize - 1
RowsOf(part) == {sel[j] : j \in part}
Part == start .. partitionBounds[p] - 1   \* the places of the current partition

Init ==
  /\ hash \in Hashings /\ vectors = 0 /\ keys = <<>>
  /\ pc = "next" /\ column = 1
  /\ sel = [j \in Places |-> 0] /\ selOut = sel
  /\ partitionBounds = sel /\ partitionBoundsOut = sel
  /\ n = 0 /\ p = 0 /\ start = 0 /\ i = 0 /\ outPartition = 0
  /\ ht = HashmapSmall /\ grownApart = FALSE

\* createMissingGroups begins with one partition of all rows in groupsNotFound.
createMissingGroups ==
  /\ pc = "next" /\ vectors < MaxVectors
  /\ \E size \in 1 .. VecSize :
       /\ keys' \in [0 .. size - 1 -> Keys]
       /\ sel' = [j \in Places |-> IF j < size THEN j ELSE sel[j]]
       /\ partitionBounds' = [partitionBounds EXCEPT ![0] = size]
  /\ vectors' = vectors + 1 /\ column' = 1
  /\ pc' = "count" /\ n' = 1 /\ p' = 0 /\ start' = 0 /\ i' = 0 /\ outPartition' = 0
  /\ UNCHANGED <<hash, selOut, partitionBoundsOut, ht, grownApart>>

\* Pass 1: one more of the row's value.
Count ==
  /\ pc = "count" /\ i \in Part
  /\ LET row == sel[i]
         el == findFirst(ht, row)
     IN  ht' = IF el # Empty THEN [ht EXCEPT !.storage[el].value = @ + 1]
               ELSE insert(ht, row, HashOf(row))
  /\ grownApart' = (grownApart \/
       \E r, q \in RowsOf(start .. i) :
         /\ SameValue(r, q) /\ HashOf(r) % ht.capacity = HashOf(q) % ht.capacity
         /\ HashOf(r) % ht'.capacity # HashOf(q) % ht'.capacity)
  /\ i' = i + 1
  /\ UNCHANGED <<rowVars, pc, passVars>>

\* Frequencies become offsets for writing.
Offsets ==
  /\ pc = "count" /\ i = partitionBounds[p]
  /\ LET from[s \in 1 .. ht.storageUsed + 1] ==
           IF s = 1 THEN start ELSE from[s - 1] + ht.storage[s - 1].value
     IN  /\ ht' = [ht EXCEPT !.storage =
                     [s \in Entries |-> IF s <= ht.storageUsed THEN [@[s] EXCEPT !.value = from[s]] ELSE @[s]]]
         /\ partitionBoundsOut' =
              [j \in Places |-> IF j \in outPartition .. outPartition + ht.storageUsed - 1
                                THEN from[j - outPartition + 2] ELSE partitionBoundsOut[j]]
  /\ outPartition' = outPartition + ht.storageUsed
  /\ i' = start /\ pc' = "scatter"
  /\ UNCHANGED <<rowVars, sel, selOut, partitionBounds, n, p, start, grownApart>>

\* Pass 2: the row goes to the next place of its value.  That findFirst finds
\* nothing is not looked at.
Scatter ==
  /\ pc = "scatter" /\ i \in Part
  /\ LET el == findFirst(ht, sel[i])
     IN  IF el = Empty THEN pc' = "crashed" /\ UNCHANGED <<selOut, ht>>
         ELSE /\ selOut' = [selOut EXCEPT ![ht.storage[el].value] = sel[i]]
              /\ ht' = [ht EXCEPT !.storage[el].value = @ + 1]
              /\ UNCHANGED pc
  /\ i' = i + 1
  /\ UNCHANGED <<rowVars, sel, partitionBounds, partitionBoundsOut, n, p, start, outPartition, grownApart>>

\* Mutant: with few entries, the table forgets how many they are, but not its buckets.
clear_KeepsBuckets ==
  IF 10 * ht.storageUsed < 3 * ht.capacity
  THEN [ht EXCEPT !.storageUsed = 0]
  ELSE [clearByMemset(ht) EXCEPT !.storageUsed = 0]

\* A table with few entries is cleared bucket by bucket.
clear ==
  IF 10 * ht.storageUsed < 3 * ht.capacity
  THEN LET buckets == {HashOf(r) % ht.capacity : r \in RowsOf(Part)}
       IN  [ht EXCEPT !.storageUsed = 0,
                      !.entries = [b \in DOMAIN @ |-> IF b \in buckets THEN Empty ELSE @[b]]]
  ELSE [clearByMemset(ht) EXCEPT !.storageUsed = 0]

\* The next partition, or the end of the pass.
NextPartition ==
  /\ pc = "scatter" /\ i = partitionBounds[p]
  /\ ht' = clear
  /\ start' = partitionBounds[p] /\ p' = p + 1
  /\ pc' = IF p + 1 < n THEN "count" ELSE "sorted"
  /\ UNCHANGED <<rowVars, sel, selOut, partitionBounds, partitionBoundsOut, n, outPartition, i, grownApart>>

\* The next column reads what this pass has written, and writes what it has read.
NextPass ==
  /\ pc = "sorted" /\ column = 1
  /\ column' = 2 /\ pc' = "count"
  /\ sel' = selOut /\ selOut' = sel
  /\ partitionBounds' = partitionBoundsOut /\ partitionBoundsOut' = partitionBounds
  /\ n' = outPartition /\ p' = 0 /\ start' = 0 /\ i' = 0 /\ outPartition' = 0
  /\ UNCHANGED <<hash, vectors, keys, ht, grownApart>>

\* All columns are done: each partition becomes a group.
Return ==
  /\ pc = "sorted" /\ column = 2
  /\ pc' = "next" /\ column' = 1 /\ n' = 0 /\ p' = 0 /\ start' = 0 /\ i' = 0 /\ outPartition' = 0
  /\ keys' = <<>>
  /\ UNCHANGED <<hash, vectors, sel, selOut, partitionBounds, partitionBoundsOut, ht, grownApart>>

Next == \/ createMissingGroups \/ Count \/ Offsets \/ Scatter \/ NextPartition \/ NextPass \/ Return
Spec == Init /\ [][Next]_vars

-----------------------------------------------------------------------------

TypeOK ==
  /\ hash \in Hashings /\ vectors \in 0 .. MaxVectors
  /\ pc \in {"next", "count", "scatter", "sorted", "crashed"} /\ column \in {1, 2}
  /\ {sel, selOut} \subseteq [Places -> 0 .. VecSize - 1]
  /\ {partitionBounds, partitionBoundsOut} \subseteq [Places -> 0 .. VecSize]
  /\ ht.storageUsed \in 0 .. VecSize /\ ht.capacity <= maxCapacity
  /\ ht.entries \in [0 .. maxCapacity - 1 -> 0 .. VecSize]
  /\ DOMAIN ht.storage = Entries

NrRows == Cardinality(DOMAIN keys)
\* The partition of selOut in which place j lies.
PartitionOf(j) == CHOOSE k \in 0 .. outPartition - 1 :
                    j < partitionBoundsOut[k] /\ (k > 0 => partitionBoundsOut[k - 1] <= j)

\* "selOut: permutation of 'sel' with consecutive partitions" (the comment on
\* partition_by_key in include/vectorwise/Primitives.hpp): every row is somewhere
\* in selOut when a pass ends.
SelOutPermutes ==
  pc = "sorted" => {selOut[j] : j \in 0 .. NrRows - 1} = 0 .. NrRows - 1

\* Unless rows of one value but different keys were counted in one entry before
\* the table grew, and have different buckets in the larger table: every pass
\* keeps all rows, leaves rows of one key together and separates those with
\* different values in its column, so that in the end partitions are keys,
\* whatever entries are left in the table from other partitions.
KeysParted ==
  ~grownApart =>
    /\ pc # "crashed" /\ SelOutPermutes
    /\ pc = "sorted" =>
         \A j, k \in 0 .. NrRows - 1 :
           LET r == selOut[j]  q == selOut[k] IN
           /\ PartitionOf(j) = PartitionOf(k) => \A c \in 1 .. column : keys[r][c] = keys[q][c]
           /\ keys[r] = keys[q] => PartitionOf(j) = PartitionOf(k)

\* Between two partitions no bucket leads to an entry of the one before, and the
\* table never needs more buckets than it was made with.
TableClean ==
  /\ ht.capacity <= maxCapacity
  /\ pc = "count" /\ i = start => ht.storageUsed = 0 /\ \A b \in 0 .. ht.capacity - 1 : ht.entries[b] = Empty
=============================================================================
