----------------------------- MODULE GlobalPool -----------------------------
(***************************************************************************)
(* runtime::GlobalPool (src/common/runtime/MemoryPool.cpp): the lock-free  *)
(* bump allocator all workers draw their memory from.  The fast path is a  *)
(* compare-and-swap on start; a mutex serialises the refill, which runs    *)
(* while other threads keep reading start and end without the mutex.       *)
(*                                                                         *)
(* A chunk is a record [base, size]: the address the system returned and   *)
(* the number of bytes after the chunk header.  The program runs on x86,   *)
(* where compare_exchange_weak fails only if the values differ.            *)
(***************************************************************************)
EXTENDS Naturals

CONSTANTS
  Threads,    \* the workers
  Sizes,      \* the sizes they ask for
  Requests,   \* how many requests each worker makes
  Bases,      \* the addresses mem::malloc_huge can return
  Header,     \* sizeof(Chunk)
  FirstSize   \* the initial allocSize

\* Only Allocator draws from the pool, and never fewer than 2 MB; a chunk
\* starts with a header that is never empty.
PoolAssumption ==
  /\ Sizes \subseteq Nat \ {0} /\ Sizes # {}
  /\ Requests \in Nat
  /\ Bases \subseteq Nat
  /\ Header \in Nat \ {0}
  /\ FirstSize \in Nat \ {0}

VARIABLES
  start, end,   \* the free part of the current chunk
  refill,       \* who holds the refill mutex: a set of at most one thread
  current,      \* the chunk the pool last switched to
  allocSize,    \* the size of the last chunk
  chunks,       \* all chunks ever allocated
  pc,           \* pc[t]: the next statement of t in allocate()
  size,         \* size[t]: what t asks for
  myStart,      \* myStart[t], myEnd[t]: the locals start_ and end_
  myEnd,
  myChunk,      \* myChunk[t]: the chunk t allocated in the refill
  served,       \* served[t]: how many requests of t have returned
  grants        \* the blocks handed out (history)

vars == <<start, end, refill, current, allocSize, chunks, pc, size, myStart, myEnd,
          myChunk, served, grants>>

pool == <<start, end, refill, current, allocSize, chunks>>
locals == <<size, myStart, myEnd, myChunk, served, grants>>

Data(c) == c.base + Header
DataEnd(c) == c.base + Header + c.size

\* Two chunks do not overlap, headers included.
Apart(c, d) == DataEnd(c) <= d.base \/ DataEnd(d) <= c.base

\* mem::malloc_huge: a fresh region for the header and n bytes.
NewChunk(n) == {c \in [base : Bases, size : {n}] : \A d \in chunks : Apart(c, d)}

Larger(m, n) == IF m < n THEN n ELSE m

Init ==
  /\ current \in [base : Bases, size : {FirstSize}]
  /\ chunks = {current}
  /\ allocSize = FirstSize
  /\ start = Data(current)
  /\ end = DataEnd(current)
  /\ refill = {}
  /\ pc = [t \in Threads |-> "idle"]
  /\ size = [t \in Threads |-> CHOOSE n \in Sizes : TRUE]
  /\ myStart = [t \in Threads |-> 0]
  /\ myEnd = [t \in Threads |-> 0]
  /\ myChunk = [t \in Threads |-> current]
  /\ served = [t \in Threads |-> 0]
  /\ grants = {}

Goto(t, l) == pc' = [pc EXCEPT ![t] = l]

Call(t) ==
  /\ pc[t] = "idle"
  /\ served[t] < Requests
  /\ \E n \in Sizes : size' = [size EXCEPT ![t] = n]
  /\ Goto(t, "loadStart")
  /\ UNCHANGED <<pool, myStart, myEnd, myChunk, served, grants>>

\* start_ = start.load()
LoadStart(t) ==
  /\ pc[t] = "loadStart"
  /\ myStart' = [myStart EXCEPT ![t] = start]
  /\ Goto(t, "loadEnd")
  /\ UNCHANGED <<pool, size, myEnd, myChunk, served, grants>>

\* end_ = end.load(); if (start_ + size >= end_)
LoadEnd(t) ==
  /\ pc[t] = "loadEnd"
  /\ myEnd' = [myEnd EXCEPT ![t] = end]
  /\ Goto(t, IF myStart[t] + size[t] >= end THEN "lock" ELSE "bump")
  /\ UNCHANGED <<pool, size, myStart, myChunk, served, grants>>

Lock(t) ==
  /\ pc[t] = "lock"
  /\ refill = {}
  /\ refill' = {t}
  /\ Goto(t, "recheckStart")
  /\ UNCHANGED <<start, end, current, allocSize, chunks, locals>>

RecheckStart(t) ==
  /\ pc[t] = "recheckStart"
  /\ myStart' = [myStart EXCEPT ![t] = start]
  /\ Goto(t, "recheckEnd")
  /\ UNCHANGED <<pool, size, myEnd, myChunk, served, grants>>

\* The pool is still short of space: refill it.
RecheckEnd(t) ==
  /\ pc[t] = "recheckEnd"
  /\ myStart[t] + size[t] >= end
  /\ myEnd' = [myEnd EXCEPT ![t] = end]
  /\ Goto(t, "drainLoad")
  /\ UNCHANGED <<pool, size, myStart, myChunk, served, grants>>

\* Mutant: the mutex is not released when the refill turns out to be done.
Restart_KeepsMutex(t) ==
  /\ pc[t] = "recheckEnd"
  /\ myStart[t] + size[t] < end
  /\ myEnd' = [myEnd EXCEPT ![t] = end]
  /\ Goto(t, "loadStart")
  /\ UNCHANGED <<pool, size, myStart, myChunk, served, grants>>

\* Somebody else has refilled it: else goto restart, which leaves the scope
\* of the lock.
Restart(t) ==
  /\ pc[t] = "recheckEnd"
  /\ myStart[t] + size[t] < end
  /\ myEnd' = [myEnd EXCEPT ![t] = end]
  /\ refill' = {}
  /\ Goto(t, "loadStart")
  /\ UNCHANGED <<start, end, current, allocSize, chunks, size, myStart, myChunk, served, grants>>

\* do { end_ = end.load();
DrainLoad(t) ==
  /\ pc[t] = "drainLoad"
  /\ myEnd' = [myEnd EXCEPT ![t] = end]
  /\ Goto(t, "drain")
  /\ UNCHANGED <<pool, size, myStart, myChunk, served, grants>>

\* } while (!start.compare_exchange_weak(start_, end_)): no other thread can
\* get memory from the old chunk any more.
Drain(t) ==
  /\ pc[t] = "drain"
  /\ start = myStart[t]
  /\ start' = myEnd[t]
  /\ Goto(t, "newChunk")
  /\ UNCHANGED <<end, refill, current, allocSize, chunks, locals>>

DrainFails(t) ==
  /\ pc[t] = "drain"
  /\ start # myStart[t]
  /\ myStart' = [myStart EXCEPT ![t] = start]
  /\ Goto(t, "drainLoad")
  /\ UNCHANGED <<pool, size, myEnd, myChunk, served, grants>>

\* allocSize = max(allocSize * 2, size); newChunk(allocSize); start_, end_
AllocChunk(t) ==
  /\ pc[t] = "newChunk"
  /\ allocSize' = Larger(2 * allocSize, size[t])
  /\ \E c \in NewChunk(allocSize') :
       /\ chunks' = chunks \cup {c}
       /\ myChunk' = [myChunk EXCEPT ![t] = c]
       /\ myStart' = [myStart EXCEPT ![t] = Data(c)]
       /\ myEnd' = [myEnd EXCEPT ![t] = DataEnd(c)]
  /\ Goto(t, "publish")
  /\ UNCHANGED <<start, end, refill, current, size, served, grants>>

\* Mutant: the two pointers are published in the opposite order.
PublishFirst_Swapped(t) ==
  /\ pc[t] = "publish"
  /\ IF myChunk[t].base < current.base
       THEN start' = myStart[t] /\ UNCHANGED end
       ELSE end' = myEnd[t] /\ UNCHANGED start
  /\ Goto(t, "publishRest")
  /\ UNCHANGED <<refill, current, allocSize, chunks, locals>>

\* if (chunk < current) end = end_ else start = start_: the pair (start, end)
\* that the other threads can see in between must not look like free space.
PublishFirst(t) ==
  /\ pc[t] = "publish"
  /\ IF myChunk[t].base < current.base
       THEN end' = myEnd[t] /\ UNCHANGED start
       ELSE start' = myStart[t] /\ UNCHANGED end
  /\ Goto(t, "publishRest")
  /\ UNCHANGED <<refill, current, allocSize, chunks, locals>>

\* The other pointer, current = chunk, and the end of the lock's scope.
PublishRest(t) ==
  /\ pc[t] = "publishRest"
  /\ start' = myStart[t]
  /\ end' = myEnd[t]
  /\ current' = myChunk[t]
  /\ refill' = {}
  /\ Goto(t, "bump")
  /\ UNCHANGED <<allocSize, chunks, locals>>

Block(t) == [by |-> t, nr |-> served[t], addr |-> myStart[t], len |-> size[t]]

\* while (!start.compare_exchange_weak(start_, start_ + size)); return alloc
Bump(t) ==
  /\ pc[t] = "bump"
  /\ start = myStart[t]
  /\ start' = myStart[t] + size[t]
  /\ grants' = grants \cup {Block(t)}
  /\ served' = [served EXCEPT ![t] = @ + 1]
  /\ Goto(t, "idle")
  /\ UNCHANGED <<end, refill, current, allocSize, chunks, size, myStart, myEnd, myChunk>>

BumpFails(t) ==
  /\ pc[t] = "bump"
  /\ start # myStart[t]
  /\ myStart' = [myStart EXCEPT ![t] = start]
  /\ Goto(t, "loadStart")
  /\ UNCHANGED <<pool, size, myEnd, myChunk, served, grants>>

Refill(t) == RecheckStart(t) \/ RecheckEnd(t) \/ Restart(t) \/ DrainLoad(t) \/ Drain(t)
               \/ DrainFails(t) \/ AllocChunk(t) \/ PublishFirst(t) \/ PublishRest(t)

Step(t) == Call(t) \/ LoadStart(t) \/ LoadEnd(t) \/ Lock(t) \/ Refill(t)
             \/ Bump(t) \/ BumpFails(t)

Finished ==
  /\ \A t \in Threads : served[t] = Requests
  /\ UNCHANGED vars

Next == (\E t \in Threads : Step(t)) \/ Finished

Spec == Init /\ [][Next]_vars

\* Workers are OS threads.  std::mutex promises a waiter nothing while others
\* keep taking it.
FairSpec == Spec /\ \A t \in Threads : WF_vars(Step(t))

-----------------------------------------------------------------------------

Labels == {"idle", "loadStart", "loadEnd", "lock", "recheckStart", "recheckEnd",
           "drainLoad", "drain", "newChunk", "publish", "publishRest", "bump"}

Chunk == [base : Nat, size : Nat]

TypeOK ==
  /\ start \in Nat /\ end \in Nat /\ allocSize \in Nat
  /\ refill \in SUBSET Threads
  /\ chunks \in SUBSET Chunk /\ current \in chunks
  /\ pc \in [Threads -> Labels]
  /\ size \in [Threads -> Sizes]
  /\ myStart \in [Threads -> Nat] /\ myEnd \in [Threads -> Nat]
  /\ myChunk \in [Threads -> chunks]
  /\ served \in [Threads -> Nat]
  /\ grants \in SUBSET [by : Threads, nr : Nat, addr : Nat, len : Sizes]

\* No byte is handed out twice: two blocks returned by allocate() never
\* overlap, however many threads race on the fast path and the refill.
BlocksDisjoint ==
  \A g, h \in grants :
    g # h => g.addr + g.len <= h.addr \/ h.addr + h.len <= g.addr

\* Every block lies in the data part of one chunk of the pool: it neither
\* crosses a chunk's end nor covers a chunk's header.
BlocksInChunks ==
  \A g \in grants : \E c \in chunks : Data(c) <= g.addr /\ g.addr + g.len <= DataEnd(c)

\* While the pool switches chunks, the pair (start, end) that others read
\* without the mutex either delimits free space of one chunk or shows none:
\* what "order is important due to above conditions in if" is about.
NoPhantomSpace ==
  start < end => \E c \in chunks : Data(c) <= start /\ end = DataEnd(c)

\* Blocks are real memory that nobody else has: apart from each other, inside
\* one chunk each, and taken from a pair (start, end) that never shows space
\* which is not there, however allocations race with a refill.
GrantsSound == BlocksDisjoint /\ BlocksInChunks /\ NoPhantomSpace

\* Every request is answered: the retries of the compare-and-swap loops and
\* "goto restart" do not go on for ever.
AllServed == <>(\A t \in Threads : served[t] = Requests)

=============================================================================
