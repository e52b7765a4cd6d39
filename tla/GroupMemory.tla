---------------------------- MODULE GroupMemory ----------------------------
(***************************************************************************)
(* The memory of one worker during a query: the blocks it allocates from   *)
(* its Allocator, among them the chunks of the ResetableAllocator that     *)
(* keeps the groups of its HashGroup (groupStore).  The store is attached  *)
(* while the plan is built and given up with the query.                    *)
(***************************************************************************)
EXTENDS WorkerAllocator, Sequences, SequencesExt

CONSTANTS
  Header, Word,  \* of the chunks of the store
  FirstChunk,    \* the first value of its allocSize
  GroupSizes,    \* the sizes requested from it
  MaxGroups      \* bound: blocks of the store between two resets

VARIABLES
  homes,    \* homes[k]: the block of the Allocator that chunk k of the store is
  storeAllocSize, chunks, current, storeStart, storeFree, groups

storeVars == <<storeAllocSize, chunks, current, storeStart, storeFree, groups>>

Store == INSTANCE ResetableAllocator WITH
  FirstSize <- FirstChunk, Requests <- GroupSizes, MaxBlocks <- MaxGroups,
  allocSize <- storeAllocSize, start <- storeStart, free <- storeFree, blocks <- groups

ASSUME StoreAssumption == Store!AlignAssumption /\ Store!SizeAssumption /\ Store!BoundsAssumption

\* homes is empty until the store is attached.
MemoryInit == Init /\ homes = <<>> /\ Store!Init

\* allocate(size) of the Allocator
Allocate(size) == hasSource /\ (Bump(size) \/ Fetch(size))

\* The block that a step allocates.
NewBlock == CHOOSE b \in blocks' : b \notin blocks

\* groupStore.setSource(&this_worker->allocator)
AttachStore ==
  /\ homes = <<>>
  /\ Allocate(FirstChunk + Header)
  /\ homes' = <<NewBlock>>
  /\ UNCHANGED storeVars

\* Groups that the chunks of the store have room for; a flush.
UseStore ==
  /\ homes # <<>>
  /\ \/ Store!reset
     \/ \E size \in GroupSizes : Store!Bump(size) \/ Store!Reuse(size)
  /\ UNCHANGED <<vars, homes>>

\* A group that needs another chunk.
GrowStore ==
  /\ homes # <<>>
  /\ \E size \in GroupSizes : Store!Create(size)
  /\ Allocate(storeAllocSize' + Header)
  /\ homes' = Append(homes, NewBlock)

\* What the other operators of the plan allocate.
UseAllocator == (\E size \in Requests : Allocate(size)) /\ UNCHANGED <<homes, storeVars>>

JoinQuery == setSource /\ UNCHANGED <<homes, storeVars>>

\* The operators go with the query; the next one has a store of its own.
LeaveQuery ==
  /\ leaveSource
  /\ homes' = <<>>
  /\ storeAllocSize' = FirstChunk /\ chunks' = <<FirstChunk>> /\ current' = 1
  /\ storeStart' = Header /\ storeFree' = FirstChunk /\ groups' = {}

MemoryNext == JoinQuery \/ LeaveQuery \/ UseAllocator \/ AttachStore \/ UseStore \/ GrowStore

MemorySpec == MemoryInit /\ [][MemoryNext]_<<vars, homes, storeVars>>

-----------------------------------------------------------------------------
(* All workers draw their regions from one GlobalPool.  A region is fetched *)
(* in one step above, so the steps of the pool are taken on their own: a    *)
(* behaviour is one of the memory of a worker or one of the pool.           *)

CONSTANTS
  Threads, Sizes, PoolRequests, Bases, PoolHeader, PoolFirstSize  \* of the pool

VARIABLES
  part,  \* whose behaviour it is
  poolStart, poolEnd, refill, poolCurrent, poolAllocSize, poolChunks, pc, poolSize,
  myStart, myEnd, myChunk, served, grants

poolVars == <<poolStart, poolEnd, refill, poolCurrent, poolAllocSize, poolChunks, pc,
              poolSize, myStart, myEnd, myChunk, served, grants>>

Pool == INSTANCE GlobalPool WITH
  Requests <- PoolRequests, Header <- PoolHeader, FirstSize <- PoolFirstSize,
  start <- poolStart, end <- poolEnd, current <- poolCurrent, allocSize <- poolAllocSize,
  chunks <- poolChunks, size <- poolSize

ASSUME PoolIsBuilt == Pool!PoolAssumption

\* The pool of a behaviour of the worker stays as one was created.
MCInit ==
  /\ part \in {"worker", "pool"}
  /\ MemoryInit
  /\ Pool!Init
  /\ part = "worker" => poolCurrent.base = CHOOSE b \in Bases : TRUE

WorkerStep == part = "worker" /\ MemoryNext /\ UNCHANGED <<part, poolVars>>
PoolStep(t) == part = "pool" /\ Pool!Step(t) /\ UNCHANGED <<part, vars, homes, storeVars>>
PoolFinished == part = "pool" /\ Pool!Finished /\ UNCHANGED <<part, vars, homes, storeVars>>

MCNext == WorkerStep \/ (\E t \in Threads : PoolStep(t)) \/ PoolFinished

allVars == <<part, vars, homes, storeVars, poolVars>>

\* As FairSpec of GlobalPool.
MCSpec == MCInit /\ [][MCNext]_allVars /\ \A t \in Threads : WF_allVars(PoolStep(t))

-----------------------------------------------------------------------------

TypesOK ==
  /\ TypeOK
  /\ Store!TypeOK
  /\ Pool!TypeOK
  /\ homes \in Seq(blocks)
  /\ homes # <<>> => Len(homes) = Len(chunks)

\* Where in its region a group of the store lies.
Place(g) == [region |-> homes[g.chunk].region, from |-> homes[g.chunk].from + g.from,
             size |-> g.size]

\* Blocks of two allocators on top of each other: a group ends inside its chunk,
\* new or used again after a flush, the unsigned free of the store has not
\* wrapped, and no byte of a group is shared with another group or with
\* anything else that the worker has allocated.
NoByteShared ==
  LET used == (blocks \ ToSet(homes)) \cup {Place(g) : g \in groups}
  IN /\ Store!BlocksInChunk /\ Store!FreeExact
     /\ \A x, y \in used :
          x # y /\ x.region = y.region => x.from + x.size <= y.from \/ y.from + y.size <= x.from

\* "skip chunks that are too small", "in case no chunk with enough space was
\* found: allocate new one" (include/common/runtime/MemoryPool.hpp): the chunk
\* that ResetableAllocator::allocate settles on has the space the block takes.
ChunkHasSpace == Store!ChunkHasSpace

\* GlobalPool::allocate hands out memory that nobody else has, however requests
\* race with each other and with a refill.
GrantsSound == Pool!GrantsSound

\* It answers every request.
AllServed == part = "pool" => Pool!AllServed

=============================================================================
