------------------------------ MODULE MCGroups ------------------------------
(***************************************************************************)
(* TLC instance of what groups are found with and kept in: the lookup of a *)
(* worker's groups, the layout of their entries, the Stack of a table, the *)
(* PartitionedDeque they are spilled to, the sorting of the rows without a *)
(* group by their keys, and the aggregation of a compiled query with all   *)
(* its threads.  A behaviour uses one of them; the others stay as they     *)
(* were created.                                                           *)
(***************************************************************************)
EXTENDS EntryLayout, TLC

CONSTANTS
  Elements, initialSize, MaxChunks,             \* the stack
  Workers, HashBits, chunkSize, MaxLen,         \* the deque
  Keys, Hashings, VecSize, MaxRows, InitialSize,\* the lookup
  Threads, GroupKeys, partitionOf, GroupPartitions,\* the compiled aggregation
  FirstSize, MaxScanned,
  PartVecSize, FirstCapacity, MaxVectors        \* the sorting

\* Keys whose hashes differ but meet in a bucket, and keys with the same hash.
MCKeys == {"a", "b", "c", "d"}
DifferentHashes == "a" :> 0 @@ "b" :> 4 @@ "c" :> 8 @@ "d" :> 1
SameHashes == "a" :> 0 @@ "b" :> 0 @@ "c" :> 4 @@ "d" :> 1
Both == {DifferentHashes, SameHashes}
OnlySame == {SameHashes}

\* Two keys of one partition and one of another.
MCGroupKeys == {"a", "b", "c"}
CompiledPartitions == "a" :> 0 @@ "b" :> 0 @@ "c" :> 1

\* Two keys with one value in their first column and two others; all their hashes
\* differ, or meet in a bucket at first, or are equal for the two others.
PartKeys == {<<1, 1>>, <<1, 2>>, <<2, 1>>, <<3, 2>>}
PartHashing(a, b, c, d) == <<1, 1>> :> a @@ <<1, 2>> :> b @@ <<2, 1>> :> c @@ <<3, 2>> :> d
PartHashings == {PartHashing(0, 1, 2, 3), PartHashing(0, 2, 4, 6), PartHashing(0, 2, 1, 1), PartHashing(0, 4, 1, 0)}

VARIABLES
  kind,
  chunks, lastChunk, capacity, fill, nrElements, latest,
  partitions, current, pushed,
  hash, resizes, pc, keys, groups, table, maxFill, created, htMatches, groupsFound,
  groupsNotFound, keysNEq, spilled, seen,
  phase, rows, consumed, locals, deques, tasks, partition, merged, sent,
  partHash, vectors, partKeys, partPc, column, sel, selOut, partitionBounds, partitionBoundsOut,
  nrParts, part, start, place, outPartition, ht, grownApart

stackVars == <<chunks, lastChunk, capacity, fill, nrElements, latest>>
dequeVars == <<partitions, current, pushed>>
lookupVars == <<hash, resizes, pc, keys, groups, table, maxFill, created, htMatches,
                groupsFound, groupsNotFound, keysNEq, spilled, seen>>
compiledVars == <<phase, rows, consumed, locals, deques, tasks, partition, merged, sent>>
partVars == <<partHash, vectors, partKeys, partPc, column, sel, selOut, partitionBounds, partitionBoundsOut,
              nrParts, part, start, place, outPartition, ht, grownApart>>

Stack == INSTANCE ChunkedStack WITH last <- lastChunk, chunkSize <- capacity
Deque == INSTANCE SpillPartitions WITH chunks <- partitions
Lookup == INSTANCE GroupLookup
Compiled == INSTANCE CompiledGroupBy WITH
  Keys <- GroupKeys, MaxRows <- MaxScanned, nrPartitions <- GroupPartitions
Parts == INSTANCE SmallTable WITH
  Keys <- PartKeys, Hashings <- PartHashings, VecSize <- PartVecSize,
  hash <- partHash, keys <- partKeys, pc <- partPc, n <- nrParts, p <- part, i <- place

ASSUME StackAssumption == Stack!SizeAssumption
ASSUME DequeAssumption == Deque!WorkersAssumption /\ Deque!SizeAssumption
ASSUME LookupAssumption == Lookup!KeysAssumption /\ Lookup!SizesAssumption
ASSUME PartsAssumption == Parts!KeysAssumption /\ Parts!SizesAssumption
ASSUME CompiledAssumption ==
  Compiled!ThreadsAssumption /\ Compiled!PartitionAssumption /\ Compiled!SizeAssumption

\* What was constructed last does not matter before anything was, nor what the
\* keys of an idle lookup would be.
MCInit ==
  /\ kind \in {"lookup", "layout", "stack", "deque", "compiled", "partition"}
  /\ Init
  /\ Stack!Init /\ latest = CHOOSE e \in Elements : TRUE
  /\ Deque!Init
  /\ Lookup!Init
  /\ Compiled!Init
  /\ Parts!Init /\ (kind # "partition" => partHash = PartHashing(0, 1, 2, 3))
  /\ kind # "lookup" => hash = (CHOOSE h \in Hashings : TRUE) /\ ~resizes

MCNext ==
  \/ kind = "layout" /\ Next /\ UNCHANGED <<stackVars, dequeVars, lookupVars, compiledVars, partVars>>
  \/ kind = "stack" /\ Stack!Next /\ UNCHANGED <<vars, dequeVars, lookupVars, compiledVars, partVars>>
  \/ kind = "deque" /\ Deque!Next /\ UNCHANGED <<vars, stackVars, lookupVars, compiledVars, partVars>>
  \/ kind = "lookup" /\ Lookup!Next /\ UNCHANGED <<vars, stackVars, dequeVars, compiledVars, partVars>>
  \/ kind = "compiled" /\ Compiled!Next /\ UNCHANGED <<vars, stackVars, dequeVars, lookupVars, partVars>>
  \/ kind = "partition" /\ Parts!Next /\ UNCHANGED <<vars, stackVars, dequeVars, lookupVars, compiledVars>>

allVars == <<kind, vars, stackVars, dequeVars, lookupVars, compiledVars, partVars>>
MCSpec == MCInit /\ [][MCNext /\ UNCHANGED kind]_allVars

-----------------------------------------------------------------------------

\* The variables of all six keep their types.
TypesOK == TypeOK /\ Stack!TypeOK /\ Deque!TypeOK /\ Lookup!TypeOK /\ Compiled!TypeOK /\ Parts!TypeOK

\* Who iterates a Stack sees what was pushed since it was last cleared, and
\* nothing that is left in its chunks from before.
StackAppends == Stack!Implements

\* Nothing is constructed behind the end of a chunk of a Stack, before or after
\* a clear(), and three ways to ask for the number of its elements agree; every
\* partition of a PartitionedDeque is read exactly as it was filled, and equal
\* hashes are in one partition, whose number is one the vector has.
ContainersExact == Stack!InsideChunks /\ Stack!SizesAgree /\ Deque!ReadsAll

\* Unless two keys have the same hash: every row is counted for its own key,
\* once, in a group that is in the table or has been spilled, through collisions
\* in a bucket, resizes and flushes; a key never has two groups in the table,
\* each group is in the chain of its bucket, and the table is never fuller than
\* its limit and a vector.
\* Whatever the hashes: each row is counted in exactly one group.  (With equal
\* hashes it may be the group of another key.)
RowsCounted == Lookup!CountsExact /\ Lookup!NoRowLost

\* The rows that found no group are sorted into one partition for each key, in a
\* table that grows and is used again, unless rows it counted together were torn
\* apart when it grew; clear(), bucket by bucket or by memset, leaves nothing in
\* that table that leads to an entry of the partition before.
RowsSorted == Parts!KeysParted /\ Parts!TableClean

\* The aggregation of a compiled query delivers each group once, with all rows of
\* its key, whichever threads scanned, spilled and merged them; no partition is
\* merged twice, and the table and the stack of a thread, which are cleared,
\* enlarged and used again by other partitions, always hold the same groups.
CompiledExact == Compiled!GroupsExact /\ Compiled!TablesWhole /\ Compiled!PartitionsApart

\* "Tuples which did not find an aggregate in the hashtable" is what
\* groupsNotFound is documented to hold (include/vectorwise/Operators.hpp): when
\* findGroups is done, a row points to the group of its key or is on the list.
FoundOrMissing == Lookup!FoundOrMissing

\* "selOut: permutation of 'sel' with consecutive partitions" is what is said of
\* partition_by_key (include/vectorwise/Primitives.hpp).
SelOutPermutes == Parts!SelOutPermutes
=============================================================================
