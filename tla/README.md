# A TLA+ model of the query engines

The repository compares two styles of query engine on one runtime: *vectorwise* interprets plans of
operators over vectors of tuples, *hyper* ("compiled") has one hand-written loop nest per query.  Both
run the same TPC-H and SSB queries with several workers.  This directory models the parts in which
workers meet, memory is handed out and results can be lost: the barriers, the memory pools, the shared
hash table, the operators that coordinate workers, the aggregations of both styles with the containers
groups are kept in, the workers of query after query, the way a plan is built and its result written,
what the plans of both styles compute, and where their columns come from: the import, the values, and
the loops of primitives over them.  TLC checks the modules on small instances; TLAPS proves what the
runs check of barriers, memory, joins and parallel operators for every instance (section 4).

## 1 Inventory

State, operations and interactions of each component, what is hard about it, and what makes it correct.

| Component (source below `src/`) | State | Operations | Interacts with | Hard | Correct means | Module |
|---|---|---|---|---|---|---|
| `Barrier` (`include/common/runtime/Barrier.hpp`) | `cntr`, `round` | `wait(finalizer)` | all pipeline breakers | reuse in the next round; 8-bit round number | nobody returns early, one leader, everybody returns | RuntimeBarrier |
| `HierarchicBarrier` (same) | a tree of barriers | `create`, `wait`, `destroy` | `this_worker->barrier` | finalizer of a barrier waits at its parent; incomplete levels | same contract for the whole tree | HierarchicBarrier |
| `GlobalPool` (`src/common/runtime/MemoryPool.cpp`) | `start`, `end`, chunk list, mutex | `allocate` | source of every `Allocator` | lock-free fast path against a refill in two stores; ABA | blocks disjoint and inside chunks, requests served | GlobalPool |
| `Allocator` (`include/common/runtime/MemoryPool.hpp`) | region, `free` | `setSource`, `allocate` | operators of one worker | two paddings; regions left behind | blocks disjoint, aligned, inside | WorkerAllocator |
| `ResetableAllocator` (same) | chunk list, `current`, `free` | `setSource`, `allocate`, `reset` | `HashGroup::groupStore`, on an `Allocator` | chunks used again; unsigned `free` | no byte in two blocks | ResetableAllocator, GroupMemory |
| `Hashmap` (`include/common/runtime/Hashmap.hpp`) | bucket words with tags, `next` | `insertAll_tagged`, `find_chain_tagged`, `setSize`, `clear` | Hashjoin, groups, compiled plans | concurrent pushes; tag filter | all inserted entries found, none twice | TaggedHashmap |
| `Hashjoin` (`src/vectorwise/Operators.cpp`) | shared count and table; `IteratorContinuation` | `next`, seven join functions | Hashmap, Barrier, `Allocator` | two barriers, early exit; results cut at a full output | every match reported once | HashJoinBuild, ProbeSide, JoinProbe, JoinBoncz, JoinAll, JoinCursor |
| `Scan` (same) | shared `pos`; offsets per worker | `next`, `addConsumer` | column pointers of the plan | relative steps between claimed chunks | every tuple delivered once | MorselScan |
| `HashGroup` (same, `include/vectorwise/Operators.hpp`) | local table, spill storage, shared partition counter | `next`, `findGroups`, `createMissingGroups`, `flush` | Barrier, `thread_specific`, deque, allocators | phase 2 reads what others spilled; resize in the middle of a vector | exact counts, no group twice | HashGroup, GroupLookup |
| `Stack`, `PartitionedDeque` (`include/common/runtime`) | chunk lists | `emplace_back`, `clear`, iteration; `push_back` | tables, spill storage | boundaries of chunks, reuse | what is read is what was written | ChunkedStack (abstract: AppendSequence), SpillPartitions |
| `HashGroupBuilder` (`src/vectorwise/QueryBuilder.cpp`) | entry layout, buffers | `addKey`, `addValue`, destructor | HashGroup | one layout for three kinds of rows; pairs of buffers | fields apart and inside, passes chained | EntryLayout |
| `SharedStateManager` (`include/vectorwise/Operators.hpp`) | map by number, `oncesExecuted` | `get`, `once` | QueryBuilders of all workers | double-checked lock | copies share states, blocks run once | OperatorStates, PlanBuilding |
| `ResultWriter`, `BlockRelation` (`src/vectorwise/Operators.cpp`, `common/runtime/Database`) | attributes, blocks | `addValue`, `createBlock`, `next` | Barrier, all workers | attributes added while plans are built; layout depends on them | rows whole, cells apart, complete when taken | PlanBuilding |
| `WorkerGroup`, `Worker`, `Query`, `initQuery`, `leaveQuery` (`common/runtime`, `include/hyper/ParallelHelper.hpp`) | `this_worker` of each thread, groups, barriers, allocator sources | `run`, `start`, `participate`, `leave` | TBB, drivers, GlobalPool | worker objects swapped between queries and threads; barriers inside TBB loops | everyone works with its own worker, pool and barrier; every query returns | QueryWorkers; what a worker does in `run`: PlanBuilding; allocator sources: GroupMemory |
| hyper `GroupBy` (`include/hyper/GroupBy.hpp`), `Hashmapx` below it | a table, stack and spill storage per thread | `consume`, `spillAll`, `forallGroups`; `findOrCreate`, `setSize`, `insertAll`, `clear` | TBB, PartitionedDeque | tables of one thread used again by tasks of another; growth; merging | each group delivered once with all its rows | CompiledGroupBy |
| other parallel helpers, `Hashmapx`, `Hashset` in plans | typed tables | `parallel_insert`, `findOne`, `contains` | compiled plans | | as maps and sets | PlanOperators |
| `HashmapSmall`, partition primitives (`include/vectorwise/Primitives.hpp`) | chained table of positions, pairs of buffers | `findFirst`, `insert`, `clear`; `partition_by_key` and variants | `createMissingGroups` | one table for all passes, growing, cleared in part | each key one partition, no row lost | SmallTable |
| selection and hash primitives (`include/vectorwise/Primitives.hpp`, `src/vectorwise/primitives`), Hash, SIMD | none | loops over rows or registers | the plans | rests, masks, widening of keys | all variants agree, nothing behind the vector | LaneKernels |
| `Select`, `Project`, `FixedAggr`, other primitives | none shared | loops over vectors | the plans | selection vectors | columns read at the right positions | PlanOperators: what they compute on one vector |
| Types (`common/runtime/Types`) | none | casts, printing, comparison, arithmetic, searches | import, plans | widths, signs, blanks, seams of registers | values are what the texts mean | ColumnValues |
| Import, Schemas, Mmap (`common/runtime/Import`, `Mmap.hpp`, `Database.hpp`) | the `.tbl` file, a file per column, mapped columns | `parseColumns`, `writeBinary`, `readBinary`, `typedAccess` | drivers, file system, user | killed between or in writes; files of another table | a driver sees one table; types agree | TableImport, ColumnValues |
| TPC-H and SSB plans (`src/benchmarks`) | none shared | 14 and 13 queries in two styles | all of the above | two hand-written plans per query; buffers aligned by hand | both compute the SQL text | TpchQueries, SsbQueries, MCQueries (abstract: SqlQueries) |
| String, Memory, `thread_specific`, `VectorAllocator`, `DebugOperator`, algebra and code generator, profiling, drivers, vendored code, scripts | | | | | | not modelled, see section 7 |

## 2 How the modules fit together

    Rendezvous            what a barrier promises
      implemented by      RuntimeBarrier, HierarchicBarrier (both proved)
      used by             HashJoinBuild, HashGroup, PlanBuilding
    GlobalPool            memory for all workers
    WorkerAllocator       regions of the pool, one worker
    ResetableAllocator    chunks of an Allocator
    GroupMemory           WorkerAllocator + ResetableAllocator: the second lives in blocks of the first;
                          its run also shows the steps of GlobalPool, on their own
    TaggedHashmap         the table while it is built
    ProbeSide             the finished table and the lookup loop; JoinProbe, JoinBoncz, JoinAll are the
                          join functions that extend it, JoinCursor what a join function promises
                          (proved of JoinProbe and JoinBoncz; JoinAll breaks it, section 6)
    HashJoinBuild, MorselScan, HashGroup    operators whose copies share state
    GroupLookup           one worker's lookup of groups
    SmallTable            the partition primitives that GroupLookup takes as exact
    EntryLayout, ChunkedStack (implements AppendSequence), SpillPartitions   what groups are kept in
    CompiledGroupBy       the aggregation of a compiled query, with all threads of TBB
    QueryWorkers          threads, their workers, pools and barriers, query after query
    OperatorStates        shared states of a plan
    PlanBuilding          a plan and its result, in the order in which a worker goes through them
    SqlQueries            what the SQL texts ask for, as set expressions
      implemented by      SsbQueries, TpchQueries: the plans, from the parts in PlanOperators
    TableImport           how a table gets into memory; ColumnValues, what its values are
    LaneKernels           the loops of primitives over rows and registers
    MCParallelOperators   runs one of HashJoinBuild, MorselScan, HashGroup, PlanBuilding, QueryWorkers
    MCQueries             runs both plans of a query on one database, or shows one of the three before

Definitions carry the names of the source.  Local variables of a function are functions of the worker
(`prevRound[t]`), a function that can be interrupted by other workers has one action per access of
shared state, with `pc` or `stage` as the place in the function; code that only touches what the worker
owns is one action.  Variables marked *(history)* record what happened, for the properties; no guard
reads them.  An operator with a name such as `Push_NoCompare` is a mutant: a plausible mistake in the
definition after the underscore.  No specification uses it; it serves to see that a property can fail.

Per module:

- **RuntimeBarrier**: `LoadRound`, `Arrive`, `ResetCounter`, `RunFinalizer`, `AdvanceRound`,
  `PassRound` are the six statements of `wait`; `round` wraps at `RoundMod`.
- **HierarchicBarrier**: barriers are the nodes `create` builds for `nrThreads`; `Climb` is the
  finalizer that calls `wait` of the parent, `ReturnBelow` the way back down.
- **GlobalPool**: one action per load, store and exchange of `allocate`.  Chunks are placed anywhere
  the system may put them, below or above the current one, so both orders of the two stores
  (`if (chunk < current)`) occur.
- **WorkerAllocator**, **ResetableAllocator**, **GroupMemory**: addresses are bytes from the start of
  the region or the chunk.  In GroupMemory each chunk of the store is a block of the worker's allocator; the
  pool gives it a region in one step, so the interleavings of the pool's own steps
  are a behaviour of their own (`part`), an instance of GlobalPool.
- **TaggedHashmap**: `Fetch`, `Link`, `Push`, `PushFails` are the iterations of `insertAll_tagged`;
  a bucket word is a pointer with a set of tags.
- **ProbeSide** and the join functions: a table is an arbitrary set of chains, each in the bucket of its
  hashes (`h % capacity`, the code's `hash & mask`), a probe vector an arbitrary sequence of hashes.  `Call` and `Return` are the boundaries of a call; what the
  function keeps in `cont` survives it.
- **HashJoinBuild**: `Materialize`, `AddFound` (the `fetch_add` of the count), `Check`, insertion and
  the two barriers for a chain of joins, the first finalizer sizing the table.
- **MorselScan**: `NextChunk` claims a chunk, `Advance` moves to the next vector; consumers keep a
  pointer that is moved by the same relative steps.
- **HashGroup**: phase 1 into `ht[w]`, flushed to `spill[w]`; the barrier; `ClaimPartition` and
  `Merge`.  Groups are counts per key.
- **GroupLookup**: `findGroups`, `createMissingGroups`, resizing, update and flush for vectors of rows.
- **SmallTable**: `createMissingGroups` hands over a vector; `Count`, `Offsets`, `Scatter` and
  `NextPartition` are the loops of a partition primitive, one turn each, `NextPass` the next column of the
  key, which reads the buffers the one before has written.  `insert`, `findFirst` and `clear` are those
  of HashmapSmall, whose storage and directory keep what was in them.
- **CompiledGroupBy**: the phases are the parallel loops: `consume` of each morsel by any thread, the
  spilling of each thread's table by any thread, the merge of each partition by any thread in a table
  that is new or left from the scan, one step per entry, one spill storage after the other.
- **QueryWorkers**: `BeginCompiled` to `EndCompiled` are `initQuery`, the query and `leaveQuery`;
  `BeginRun` to `EndRun` are `WorkerGroup::run`.  A task may be taken by any idle thread; `this_worker`
  of a thread may point to a worker that is gone, and the model records whether anybody follows it.
- **EntryLayout**: `addKey`, `addValue`, the destructor's padding, and the buffers of each pass.
- **ChunkedStack**, **SpillPartitions**: chunk by chunk, with stale contents after `clear`.
- **OperatorStates**: `get` is atomic under its mutex; `once` is the check, the lock, the check again,
  the callback and the mark.
- **PlanBuilding**: the steps of OperatorStates, then `addValue` with its barrier, `ResultWriter::next`
  block by block and byte by byte,
  the last barrier, and the move of the result by the leader.
- **PlanOperators**: the selections, lookups, joins and groupings of a vectorwise plan as operators on
  columns, positions and aligned match vectors; the hash sets, hash maps and loops of a compiled query as
  sets, functions and sums.  `KeysEqual` compacts match vectors as the primitive does. `PairJoin` and
  `PairJoinPushed` are the joins on two attributes of TPC-H 9 and 5.
  `Sel` is `sel_col_val` and its kin, `SelSel` `selsel_col_val` (`Primitives.hpp:17-81`); `Hashset` and
  `Hashmapx` are `contains` and `findOne` (`Hashmap.hpp:335-457`), which see what `PARALLEL_SELECT` has
  found and `parallel_insert` has put there; `setSize` is the assertion with which that begins, and
  `Compiled` the answer of a query with the conjunction of its assertions; `PreAggregate` with `Groups` is
  `consume` and `forallGroups` (`GroupBy.hpp:55-174`).
- **SsbQueries**, **TpchQueries**: `qN_hyper` and `qN_plan` follow the two functions of `qN.cpp`; each
  `LET` definition of a plan is a buffer or selection vector of the code.
- **SqlQueries**: the text of each query, from the comments at the head of the files and, where those
  belong to another query (section 6), from the benchmark; joins are sets of combined rows, an
  answer that the text leaves open is a set of answers (ties, rounding, limits).
- **MCQueries**: `RunHyper` and `RunVectorwise` are the two blocks of a test or a driver; `StopHyper` is a
  compiled query that an assertion of `setSize` stops, and the driver with it.  Other behaviours
  show an import, a loop over a vector, or one value of a column.
- **TableImport**: a start is `mkdir`, the look for cached files, the parse, then for each column open,
  allocate and copy, then the mapping of each file.  `Kill` ends it anywhere, in the middle of a copy with
  any part of the values; the user replaces the table or empties the directory between starts.
- **ColumnValues**: `castString`, printing, comparison, arithmetic and searches of `Types.hpp` and
  `Types.cpp` on texts that are sequences of characters, because properties are about them; and the
  schemas of `Import.cpp` with the types under which compiled queries access each column.
- **LaneKernels**: a kernel is a record that says what the loop does, over how many lanes and with
  which rest; `SelectRow`, `SelectBlock`, `HashRow`, `HashBlock`, `HashRest` are its turns, `ExtraBlock`
  the additional one of `hash4_selASM`.

## 3 What is checked

A run explores one MC module.  Several components are grouped into one run: a variable chooses in the
initial state which of them works, and the others stay idle, so the state space is the sum of theirs
and every invariant is checked in every state.  `TypesOK` is the conjunction of the type invariants
of a run's modules; other properties that a run lists are conjunctions of the named parts defined next
to them, so that a theorem and a run can speak of the same definition.

| Run | Instance | Shows |
|---|---|---|
| `barriers` | 3 threads, 5 rounds, round number mod 3; a tree of 5 workers with fan-in 2, 2 rounds | KeepsContract, TreeKeepsContract: the barriers implement Rendezvous (refinement); WaitersInStep (the closing thread is alone, nobody returns early or is more than a round behind), SubtreeWaits; EveryoneReturns (liveness) |
| `memory` | alignment 4, regions from 16 bytes, requests 7, 30; store with groups of 3 and 20 bytes | BlocksSound of the Allocator; NoByteShared: no byte in two blocks of either allocator, groups inside their chunks, `free` exact |
| | the pool: 2 workers, 2 requests each, first chunk of 2 bytes, 5 places for chunks | GrantsSound (blocks disjoint, inside a chunk, never from a torn pair of pointers); AllServed (liveness) |
| `memory_large` | the same with groups of 31 bytes | **violation**: ChunkHasSpace, see section 6 |
| `hashjoin` | 2 workers insert 5 entries, 2 buckets, 2 tags; all tables with chains up to 3, all probe vectors up to 3 tuples, output of 3, ring of 4, steps of 1 or 2 lanes | ChainsSound, LookupExact; BuffersHold; PairsOnce: the functions implement JoinCursor (refinement); EveryoneEnds (liveness) |
| `join_all` | chains up to 2, output of 2 | **violation**: NoPairTwice, see section 6 |
| `parallel_operators` | 3 workers scan up to 10 tuples or build 2 joins; 2 workers aggregate 3 keys, 2 partitions; 3 threads run 3 queries of either style; 2 workers build a plan of 2 operators and 2 blocks with 2 attributes and write 2 vectors each | ScanExact; BuildRight; GroupsRight, PhasesApart; WorkersOwn; WorkersAgree, ResultsComplete; EveryoneEnds (liveness) |
| `groups` | lookup: 4 keys, vectors of 2, 6 rows, table of 1 bucket that grows, hashes different or partly equal; layout: up to 3 columns of 1, 4, 8, 10 bytes; stack chunks of 1, 2, 4 elements; deque: 8 partitions, 4-bit hashes, chunks of 2; sorting: 2 vectors of up to 3 rows, keys of 2 columns, a table of 2 buckets that grows to 8; compiled aggregation: 2 TBB threads, 4 rows, 3 keys, 2 partitions | RowsCounted, RowsSorted; LayoutSound; ContainersExact, StackAppends (refinement of AppendSequence); CompiledExact |
| `group_lookup_collision` | two keys with one hash | **violation**: FoundOrMissing, see section 6 |
| `partition_rows` | the sorting with one vector of up to 4 rows | **violation**: SelOutPermutes, see section 6 |
| `queries` | 27 queries; small fixed dimension tables, one table of up to 2 rows (3 in TPC-H 11 and 13) that takes every value on either side of the query's bounds | HyperAnswers, VectorwiseAnswers: both plans answer the SQL text |
| | tables of 3 columns and up to 2 lines, one of them malformed, that replace each other; kills at every step | LoadedIsOneTable, RefusalsExplained |
| | 2 lanes of 64 bits or 4 of 32, up to 6 rows, keys of 4 bits, hashes of 6 | LanesRight |
| | integers of 8 bits and 3 digits, registers of 4 characters, texts up to 8 characters, 3000 days | ValuesRight |
| `queries_sizes` | the same databases | **violation**: SizesPositive, see section 6 |
| `hash4_sel_asm` | the same loops | **violation**: SameAsHash4Sel, see section 6 |

**Why these bounds are enough to be interesting.** The number of calls of a barrier exceeds the period
of the round number, so a waiter that compares against a wrapped number is in the model; five workers
with fan-in two give three levels with an incomplete barrier on two of them.  Two requests of two workers against a
first chunk for one block make both workers refill, with either order of stores, while the other is
between any two of its accesses.  In the join the output is as small as the longest chain and the ring
exactly one larger than the vector, as in the code, so wrap-around and cuts at every place occur.  The
scan ends in the middle of a vector, of a chunk, or before the first tuple.  Group tables start with
one bucket and grow in the middle of a vector; the aggregation flushes on its second group.  A block
of the result is filled exactly, left half empty, or made for one large vector.  In `queries` keys
differ from positions and the first rows of a table are mostly not wanted, so a position read in the
wrong vector or an unselected row changes the answer; two rows suffice for a row that matches beside one
that does not, for two rows of one group, and for two groups; prices are powers of ten so that sums
tell rows apart.  Three rows of a vector suffice for a table that grows twice in a pass, is cleared in
both ways, and is used by a second vector in the size the first left it.  Two threads and four rows give
tables that one thread fills and the other spills or merges in.  Three queries give a compiled one
between, before and after vectorwise ones.  A table of two lines with three columns has a first, a
middle and a last column whose files can be missing, stale or torn.  Six rows are zero to three registers
with every rest; the calendar runs over leap years of both kinds.  `One`, `Limit`, `Fraction` and `Percent` are the code's scale factors made small.

**Fairness.** Liveness is checked under weak fairness of each worker's next step and nothing stronger:
workers are OS threads, pinned or not, that the system schedules again and again
(`WorkerGroup::run`).  The threads of TBB are such threads too, and take a task when they are idle and there
is one; the driver need not begin another query.  The join functions are sequential, so fairness says only that the code goes on;
the caller is the loop of `Hashjoin::next` and of its consumer, which asks until the end of the stream.
The spinning waiters of a barrier and the retry loops are allowed to spin for as long as this permits.
A mutex is acquired by a step that is enabled while it is free.  `std::mutex` does not promise a waiter that
it gets it while others keep taking it, and no strong fairness of that step is assumed: a waiter of the
pool's refill mutex, or of `once`, gets it because each of the others holds it for a bounded number of steps
and takes it a bounded number of times (`PoolRequests` in the run; in the engine, the allocations of a query).
AllServed says no more than that: it would not hold of a pool from which some worker allocates for ever.

**Deadlock** is checked in all runs that end in a state of completion (`Finished` stutters there).
`memory`, `memory_large`, `groups`, `group_lookup_collision` and `partition_rows` switch it off: their bounds
on blocks, rows and elements stop them, not the code.  So does `hash4_sel_asm`, whose loops end.

## 4 What is proved

| Module | Theorems (and the property of a run they state) | For every |
|---|---|---|
| BarriersProofs | TypeCorrect, LastAlone, OneBehind, NobodyReturnsEarly, InStep (WaitersInStep), Implements (KeepsContract); of the tree SubtreeRight (SubtreeWaits), TreeImplements (TreeKeepsContract); TypesRight (TypesOK) | finite set of threads, number of calls, width of the round number from 1 bit; tree of any size |
| HierarchicBarrierProofs | TypeCorrect, Subtree, Implements (the tree implements Rendezvous) | number of workers, fan-in from 2, number of calls, width of the round numbers |
| GlobalPoolProofs | TypeCorrect (TypeOK), NoByteTwice, InsideChunks, NoPhantom, Sound (GrantsSound), all under PoolAssumption | set of workers, request sizes above 0, number of requests, placement of chunks |
| GroupMemoryProofs | of the Allocator TypeCorrect, BlocksNeverOverlap, BlocksStayInside, Sound; of the store NoByteTwice, InsideChunks, FreeNeverWraps; of both together MemorySound (BlocksSound), NothingShared (NoByteShared); of the whole run TypesRight (TypesOK), GrantsRight (GrantsSound) | alignment, header, first sizes, request sizes; of the store, requests up to twice the first chunk minus two alignments |
| HashjoinProofs | of the table TypeCorrect, ChainsIntact, NoFalseNegative, Sound (ChainsSound), LookupRight (LookupExact); of the join functions BuffersRight (BuffersHold), PairsRight (PairsOnce); TypesRight (TypesOK) | set of workers, entries, hashes, capacity, number of tags that divides the range; batch size, set of lane widths, ring larger than a batch, length of chains |
| GroupsProofs | of the layout of entries LayoutRight (LayoutSound); of Stack StackRefines (StackAppends); of both containers ContainersRight (ContainersExact); of the compiled aggregation CompiledRight (CompiledExact); of the lookup CountsRight (RowsCounted) | header, sizes, alignments and number of columns; elements, first size and number of chunks; workers, bits of a hash (more than the partitions need), size of chunks; set of threads and of keys, partitions, first size of a table, rows; finite set of keys and their hashes, first size of a table, size of vectors |
| ParallelOperatorsProofs | of one build TypeCorrect, Complete; RightBuild (BuildRight), ScanRight (ScanExact), AggregationRight (GroupsRight), PhasesRight (PhasesApart), WorkersRight (WorkersOwn), AgreementRight (WorkersAgree), ResultsRight (ResultsComplete), TypesRight (TypesOK) | finite set of workers and threads, chain of joins, sizes of table, chunk and vector, keys, partitions, queries, plans, sizes of attributes and blocks |
| QueriesProofs | of the import LoadedRight (LoadedIsOneTable), RefusalsRight (RefusalsExplained), DirectoryInvariant | schema of at least one column, set of tables, types and results of parsing |

The arguments:

- *Barrier.* NoEarlyReturn is not inductive: it says nothing of the counter.  The invariant counts:
  while nobody closes the round, `cntr` is the number of threads that are not parked in it
  (`Counted`); a thread is either in the round being collected or still spinning in the one before,
  where the number it has read differs from `round` by one step (`Placed`).  Since `cntr` reaches 0
  only when all are parked, the one who sees it is alone until it advances `round`.
- *Tree of barriers.* The same counting at every node, over the children that `create` gave it, needs
  the shape of the tree: a node's workers are an interval, those of its children partition it, and who
  climbs from a node stands for all of its workers.  The path of a worker (`above`) is a recursive
  function; facts about it are shown for a least height at which they fail.
- *GlobalPool.* Everything hangs on `start` being unable to return to an address it has had
  (no ABA): `Top(c)` is how far a chunk has been used, and only grows; every value a worker has read
  is `Seen`.  A worker whose exchange succeeds has read both pointers in one chunk (`FastPath`),
  because a refill first moves `start` to `end` and then publishes the two pointers in the order in
  which the space in between looks negative (`Pointers`).  Headers keep chunks from touching.
- *Allocators.* All blocks of the current region or chunk end before `start`, so the next one cannot
  meet them; `start` and `free` add up to the end.  For ResetableAllocator that needs the hypothesis
  `SmallRequests`: all chunks but the first have at least twice the first size, so a request whose two
  paddings fit in that is safe.  The engine's requests for groups are far below it (the first chunk
  has 2 MB); beyond it the code is wrong (section 6).  In NothingShared the chunks of the store are
  blocks of the Allocator: blocks of the store in different chunks are apart because those are.
- *Hash table.* What an inserting worker has linked is what it compares (`Held`), and nobody writes
  the `next` of an entry that is in a chain (`Settled`).  The tag set covers the chain (`Tagged`).  A
  lookup then meets exactly the chain (`MetChain`).
- *Join functions.* The invariants `RingInv` and `BonczInv` relate three things.  What has been
  reported of a probe vector is the part of the join result that neither the first pass nor the rest of
  a chain in the ring (in the compacted followups) will report (`RingOwes`, `BonczOwes`).  Every rest is
  that of another probe tuple, so there are never more than tuples (`SlotsSound`, `RestsSound`), and the
  number the code computes from the two positions of the ring is the number of slots in use
  (`InUse`): it is never so full that it looks empty.  The output has room for what the round still
  handles (`RingFits`, `BonczFits`).  The refinement of JoinCursor follows: when a probe vector is
  fetched, the ring is empty, so nothing is owed.
- *Hash join build.* Until the leader has left the first barrier of a join, the table is unsized, `found`
  counts the vectors of those that have added theirs, and what is left of the input has somebody who
  still fetches (`Sizing`); afterwards nothing is left, the size is the number of all vectors, and behind
  the second barrier all of them are inserted (`Sized`).  Between them lies `Rounds`: nobody is more than
  one call of the barrier away from the others.
- *Scan.* A worker's offset is the begin of the chunk it has claimed plus the vectors it has taken from it,
  relative steps or not (`ScanPlaced`), and nobody else has that chunk (`ChunksClaimed`).
- *Aggregation.* Of each key the rows that nobody has scanned, those in the tables of phase 1 and those in
  the spill storage add up to its rows (`Conserved`), the groups in a table of phase 2 to what has been
  merged of the spill storages (`MergedSoFar`), and the result holds each key whose partition is not
  pending, once (`SentOnce`).  Sums over workers are cardinalities of sets of pairs, whose change in one
  worker the library's theorems about finite sets give.
- *Workers.* In the loop of `initQuery` the tasks left and the threads that have a worker of the query are as
  many as the query has workers, and a thread with one waits in the barrier of the loop (`InInit`): that is
  why no thread runs two tasks.  In a vectorwise query a thread has its worker to itself (`OwnWorker`), and
  the driver's thread lends its own to the group (`MainLent`).  Otherwise `this_worker` may
  point to a worker of an earlier query, which nobody follows.
- *Plans.* A worker's number for its next operator is the number of operators it is past, and the state with
  that number has the type of the operator with as many before it (`Numbered`), whoever made it; so the test
  of `get` never fails.  A worker behind the mutex of `once` holds it, blocks before `oncesExecuted` have
  ended and later ones have not started (`Blocks`).
- *Results.* The round of the barrier tells how many attributes a worker knows (`InRounds`), so no attribute
  is read before its round has added it, and no block is made before all are.  Columns lie one behind the
  other (`Layout`), and each value copied is that of a tuple in its column of a row below the size of its
  block (`Filled`): with `PlacesApart`, arithmetic on offsets and capacities, two of them never overlap.
  Only who led the last round takes the result (`Leading`), and nobody can write when that round is over.
- *Compiled aggregation.* The rows of a key are in the tables that are not spilled yet and in the entries of
  the storages, each in one place (`RowsKept`: the cardinality of a set with one element per row); a spill
  moves a table's part of them, a flush in the scan and the spilling at the end alike.  A table and its stack
  hold the same groups (`Whole`) through every clear and growth, which needs that a table made for n entries
  holds n at 0.7 of its capacity (`FillHolds`).  The table of who merges a partition counts what was merged of
  the storages (`Merging`), so at the end all of its rows; and the partitions nobody has delivered are those
  left and those being merged, each once (`Claimed`, `SentExact`).
- *Lookup of groups.* Each chain holds the groups of its bucket, each once (`ChainsHold`), through insertions,
  flushes and growth, which inserts all of them again.  While findGroups runs, a row has been led to an entry
  with its hash or is listed as missing (`RowsTraced`); if no two keys have one hash, that entry is the group of its
  key, no row is left to compare, and no key with a group is listed (`RowsPlaced`).  Then every row points to a
  group when the aggregates are updated.  Sums of counts are cardinalities of sets with one pair per row, so a
  vector of n rows adds n to both sides of `RowsNotLost`.  The counter that flushes the table is never reset, so it
  is at least the number of groups (`FillKept`), which is why the table is flushed soon enough.
- *Import.* Files are made in the order of the columns and a start parses as long as one is missing, so the last
  file is there only if all before it begin with the values of the table parsed last (`FilesInv`, `Complete`); what
  a kill leaves of the last one is `LastWritten`.  The files before it may be longer, of an older table; but the first
  size already differs from 0, so a start that reports no other difference has files of one size, that of the last
  (`LoadInv`).  Without the directory there are no files, and only `mkdir` and the user make it (`DirInv`), so a start
  that has just made it leaves it empty.
- *Containers of groups.* The elements of a Stack are the contents of its full chunks and the first `fill`
  of the last one (`StackInv`), where the i-th chunk has `initialSize * 2^(i - 1)` places and may hold
  older elements behind; so a push appends to what an iteration sees, and clear() leaves nothing of it.
  In a PartitionedDeque every chunk before the last is full, and the chunks of a partition, one after the
  other, are what was pushed with a hash of that partition (`PartitionInv`).  Powers of two and the
  selection of pushed hashes are recursive functions, about which facts are shown for a least argument
  at which they would fail; that the upper bits of a hash number a partition is division of one power by
  another (`DequeSizes`), which needs that a hash has more values than there are partitions.

Assumptions on constants are named in the modules (`PoolAssumption`, ...) and evaluated by TLC in the
runs; they say that sets are what they are called, sizes positive where the code guarantees it (only
`Allocator` draws from the pool, at least 2 MB at a time) and chunk headers not empty.

Left to TLC:

- liveness under fairness and ENABLED, which the prover does not handle (EveryoneReturns, AllServed,
  EveryoneEnds);
- what recursive definitions compute from data (HyperAnswers, VectorwiseAnswers, ValuesRight, LanesRight): they
  quantify over the databases and values of the instance, and would need induction over tables and words;
- RowsSorted: what `partition_by_key` and its table hold after each row, with entries that move when the table
  grows, is checked for vectors of three rows;
- TypesOK of `groups`, which is large and of no interest beyond its parts: the typing that the proof of
  CountsRight needs is in its invariant (`LookupTyped`).  The list `groupsNotFound` has room for one vector.
  TypesOK says that it keeps to it if no two keys have equal hashes, and nothing otherwise, because `htFollow`
  pushes a position once for each entry that a row passes (section 6): with long chains the list is overrun.

## 5 Abstractions

Hashes, keys and tuples are members of small sets; tags are taken from hashes as in the code.
Memory contents are modelled only where a property reads them (chains, stack, spill chunks, cells of the
result).  `compare_exchange_weak` fails only if the values differ, as on x86, and the atomics are
sequentially consistent, the default of `std::atomic` which the code uses.  `malloc_huge` succeeds.
Join functions with a selection vector report `probeSel[i]` where the others report `i`; that renaming
is left out.  Key equality filters the result of a join afterwards and cannot lose or repeat a pair.
Barriers inside operators are the contract `Rendezvous`, which `barriers` shows the real ones to keep.

TBB, which is external, keeps the threads it has and gives each iteration of the two loops of `initQuery`
and `leaveQuery` a task of its own: the drivers ask for as many threads as a query uses.  The properties
depend on that: with one thread fewer than `nrThreads` the barrier in the loop never opens, with one more
a thread leaves whose worker was never saved.  In CompiledGroupBy a task is one step, since everything it
writes belongs to its thread until the phase is over, but for the merge, whose inputs are others'.
`forallGroups` reads the first element of the containers of spill storages, which is undefined if no
thread scanned a row; an empty relation cannot be imported.  An aggregate is a count.

In SmallTable a key has two columns and its hash any number; the first capacity is 2, not 256.  The three
variants of the primitive differ in where they find the key and the hash of a row.

LaneKernels has the operations of the hash functions in their order with constants cut to the width of its
words and shifts scaled to it, so `HashesApart` (no two keys collide) is about the structure of mixing
steps, each a bijection.  The kernels that hash to 32 bits have lanes twice as many.  ColumnValues scales
widths and digits alike; where a number is read that fits the digits and not the width, the result is the
wrapped one.  In TableImport a value is written or not (`memcpy` of a page may stop anywhere, a value
does not straddle it), and `exit` in a failed check leaves files as they are.

Which of `RunHyper` and `StopHyper` happens when no row qualifies for a hash table depends on the build.
With assertions the query stops.  Without, `__builtin_clzll(0)` is undefined; the release build of
`CMakeLists.txt` (`-march=native`) makes it `lzcnt`, which gives 64, so `exp` is 0 and the table has one
chain, which is empty: lookups find nothing, as in the sets and functions of PlanOperators.  Both happen in the
model.  Tables have a row at least, since an empty one cannot be imported (`posix_fallocate` refuses it).

In the query plans one vector holds a whole table: cutting tables into vectors and sharing them among
workers is what the modules of the operators are about.  Fixed-point numbers are their integers, dates
are numbers in the order of dates, brands numbers in the order in which `Char` compares them, comments
and names sequences of words.  The order of a join's matches is not that of the code, and no answer
depends on it.  When no row survives, a vectorwise aggregate without groups delivers no row and the
compiled one a zero; both are taken as the total 0.  TPC-H 1 reports no averages, as in the code.
Quantities are at least 1, so the division of TPC-H 17 truncates as `\div` does.  In the hash of two
attributes (`PairHash`) keys collide, but never two that agree in the first attribute: the hash of
the second is mixed into the first by a bijection.

## 6 Where the code differs from what it says

- `memory_large` (ChunkHasSpace): `ResetableAllocator::allocate` looks for a chunk that holds the
  request with the padding of the *old* chunk and adds the padding of the new one afterwards
  (`MemoryPool.hpp:123`).  A request within 64 bytes of the chunk's size ends behind the chunk and
  `free` wraps.  No query requests such sizes.
- `join_all` (NoPairTwice): when the output of `joinAll` fills up on the last entry of a chain, the next
  call begins with the same probe tuple again (`Operators.cpp:126`, `136`).
- `group_lookup_collision` (FoundOrMissing): `htFollow` pushes the position `i` in `keysNEq` instead of
  the row, and does so inside the loop over the chain (`Operators.hpp:461`).  A row whose hash is that
  of another key's group, at the end of a chain, is neither found nor reported as missing, and is
  counted in the other key's group.  No row is lost (NoRowLost holds for such hashes too).
- `partition_rows` (SelOutPermutes): `partition_by_key` counts, in one entry, rows of one value in the
  key column it is at, if they share a bucket, although their hashes, of the whole key, differ.  When the
  table grows in the same pass (`HashmapSmall.hpp:91`) they no longer share one, and the pass that writes
  finds another entry for some, and writes over the places of other rows, or none, and dereferences
  `nullptr` (`Primitives.hpp:866`).  It takes a key of several columns whose first does not determine
  the others, and more than 179 groups without an entry in one vector: with the default vector
  size few queries could, with larger ones (environment variable `vectorSize`) more.  KeysParted, a part
  of RowsSorted, shows that all is well as long as no such rows were torn apart (`grownApart`).
- `queries_sizes` (SizesPositive): `Hashmap::setSize` asserts `nrEntries != 0` (`Hashmap.hpp:194`), and goes on
  with `__builtin_clzll(nrEntries)`, undefined for zero (line 199).  Compiled TPC-H 4, 9, 17 and 18 call it with
  the number of rows that qualified (`q4.cpp:82`, `q9.cpp:169`, `q17.cpp:119` and `138`, `q18.cpp:107` and
  `148`), without a test for none, which `Hashjoin::next` has (`Operators.cpp:779`).  On databases where none
  does, a build with assertions stops, others depend on what the compiler makes of it (section 5).
  HyperAnswers, in `queries`, says of such a database that the right answer is that of no rows and that
  builds which go on return it.  The other compiled queries do the same with tables that the databases of
  the run never leave empty (dimension tables with rows that always qualify).
- `hash4_sel_asm` (SameAsHash4Sel): the loop of `hash4_selASM`, which a comment calls equivalent to
  `hash4_sel` (`Hash.cpp:46`), compares its pointer after it has advanced it with an end that lies one
  register further, so it reads and writes one register more than it should; and its rest starts from
  pointers the assembly has moved without declaring it.  `hash4_sel_int32_t_col` points to it
  (`Hash.cpp:114`) in the build that has it.
- Shown by the passing run `queries` and named in its properties: `mkdir` returns 0 when it has made the
  directory, and exactly then the import throws (`Import.cpp:192`).  RefusalsExplained says that this can only
  happen when there are no files, and leaves the directory: the first start fails, the second works.
  A kill in the copy of the last column leaves a file that every later start takes for complete
  (LoadedIsOneTable).  In the build with hashes of 64 bits negative keys of 32 bits are extended differently by
  loops over rows (with the sign) and over lanes (with zeros).  LanesAgree says exactly how: every kernel with
  lanes, in registers and rest alike, hashes a key as the number its bits are without a sign.  So a table must
  not be built with one kind and probed with the other; `src/benchmarks/config.cpp` chooses them for all
  operators together, and the keys of both benchmarks are positive.
- Read, not run: `MurMurHash3` for 64-bit keys rotates `k1` a second time where its pattern has `k2`
  (`Hash.hpp:337`), so the upper half of a key is mixed less; equal keys still have equal hashes.
- Read, not run: `QueryBuilder.cpp:534` pads the entries of phase 2 by what the entries of phase 1 lack
  after they were padded, which is nothing, although line 532 says "round up ht_entry_size to next 8
  aligned value"; line 544 passes `4 * workers` partitions where line 537 says `8 * <number of workers>`
  (the deque rounds up to a power of two, so the two agree for powers of two only).
- Read, not run: the SQL text at the head of `sbb/queries/q23.cpp` (lines 26 and 27) is that of query
  2.1, while the code selects `MFGR#2221` and `EUROPE` (lines 52 and 53), which is query 2.3; the texts in
  `q33.cpp` and `q34.cpp` are those of query 3.2, the code is that of 3.3 and 3.4.
- Read, not run: in the pair join of TPC-H 5 the second key check compacts the pushed selection vector and
  the build matches, not the first match vector (`QueryBuilder.cpp:424`).  The columns read through both stay
  aligned only because no candidate fails the second check after passing the first; VectorwiseAnswers
  fails as soon as the hash does not guarantee that (mutant `PairHash_FirstOnly`).

## 7 Not modelled

- *The loops of Select, Project and FixedAggr over next()*: one worker asks its child for vectors until
  the stream ends, without shared state.
- *Other SIMD variants of primitives* (gathers, joins by lanes beyond JoinProbe, `sel` variants of
  aggregates): they compute what the scalar ones do on the positions PlanOperators takes.
- *Cutting of TBB loops into morsels, thread affinity*: external, or without effect on state.
- *`q5_no_sel.cpp` and the group query of `q18.cpp`*: no driver runs them.
- *Types*: `Char<1>`, comparisons with C strings, the hash of a string; *Hash*: hashes of bytes and `CRC32Hash`,
  the hash of many compiled queries: the modules that use a hash take its values as given and any of them
  as equal; `StdHash`, which nothing uses.
- *Mmap*: the vector of strings, which no table has.  *String*: `SmallStringView`, which nothing uses.
- *Memory*: `malloc_huge` maps pages; the allocators take it to succeed.
- *`thread_specific`, `VectorAllocator`, `DebugOperator`*: a map under one mutex, three sizes of buffers,
  a counter for debugging.
- *Algebra and code generator*: skeletons that no query uses.
- *Profiling, drivers, microbenchmarks, vendored code, scripts*: they measure and print.

## 8 What is left

*Proofs.*  RowsSorted (section 4) is the one safety property of the run `groups` that could be proved and is not.
Its invariant would say that an entry of the table is the only one of its bucket and value, that it counts
the rows before the current one that lead to it, and, in the second pass, how many of its places are written.

*Models.*  What section 7 lists has no shared state; primitives beyond LaneKernels and PlanOperators would be the
next to model, one operator per family, with the scalar variant as reference.
