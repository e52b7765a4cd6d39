-------------------------- MODULE GlobalPoolProofs --------------------------
(***************************************************************************)
(* Proofs about GlobalPool, for any number of workers, any request sizes   *)
(* and any placement of the chunks the system returns.                     *)
(***************************************************************************)
EXTENDS GlobalPool, TLAPS

\* The statements between lock and unlock, and those of them during which
\* start and end do not both belong to one chunk.
Refilling == {"recheckStart", "recheckEnd", "drainLoad", "drain", "newChunk",
              "publish", "publishRest"}
Switching(t) == pc[t] \in {"newChunk", "publish", "publishRest"}

Mutex == /\ \A t \in Threads : t \in refill <=> pc[t] \in Refilling
         /\ \A t, u \in refill : t = u

Layout == \A c, d \in chunks : c # d => Apart(c, d)

Holds(c, a) == Data(c) <= a /\ a <= DataEnd(c)

\* A chunk that no thread but its creator has seen.
Fresh(c) ==
  \E t \in Threads : /\ myChunk[t] = c
                     /\ \/ pc[t] = "publish"
                        \/ pc[t] = "publishRest" /\ start # Data(c)

\* How far a chunk has been used up.  It only ever grows.
Top(c) == IF Fresh(c) THEN 0 ELSE IF Holds(c, start) THEN start ELSE DataEnd(c)

\* An address start has had: not beyond the used part of its chunk.
Seen(a) == \E c \in chunks : Data(c) <= a /\ a <= Top(c)

\* Where start and end point, as the refill proceeds.
Pointers ==
  /\ (\A t \in Threads : ~ Switching(t)) => Holds(current, start) /\ end = DataEnd(current)
  /\ \A t \in Threads :
       /\ pc[t] \in {"newChunk", "publish"} => start = DataEnd(current) /\ end = start
       /\ pc[t] = "drain" => myEnd[t] = end
       /\ pc[t] = "newChunk" => size[t] \in Sizes
       /\ pc[t] \in {"publish", "publishRest"} =>
            /\ myChunk[t] # current
            /\ size[t] <= myChunk[t].size
            /\ myStart[t] = Data(myChunk[t])
            /\ myEnd[t] = DataEnd(myChunk[t])
       /\ pc[t] = "publishRest" =>
            IF myChunk[t].base < current.base
              THEN end = DataEnd(myChunk[t]) /\ start = DataEnd(current)
              ELSE start = Data(myChunk[t]) /\ end = DataEnd(current)

\* What the fast path knows: if start still is what it read, its block fits.
FastPath ==
  \A t \in Threads :
    /\ pc[t] \in {"loadEnd", "bump"} => Seen(myStart[t])
    /\ pc[t] = "bump" /\ start = myStart[t] =>
         (\A u \in Threads : ~ Switching(u)) /\ start + size[t] <= end

\* A block lies in the used part of a chunk.
Placed == \A g \in grants : \E c \in chunks : Data(c) <= g.addr /\ g.addr + g.len <= Top(c)

\* The inductive invariant.
IInv == TypeOK /\ Mutex /\ Layout /\ Pointers /\ FastPath /\ Placed /\ BlocksDisjoint

-----------------------------------------------------------------------------

\* Bounds of a chunk; two chunks never hold the same address, not even where
\* one ends, because a header lies in between.
LEMMA Geometry ==
  ASSUME PoolAssumption, TypeOK, Layout
  PROVE  /\ \A c \in chunks : /\ Data(c) \in Nat /\ DataEnd(c) \in Nat
                              /\ 0 < Data(c) /\ Data(c) <= DataEnd(c)
                              /\ DataEnd(c) = Data(c) + c.size
         /\ \A c, d \in chunks, a \in Nat : Holds(c, a) /\ Holds(d, a) => c = d
         /\ \A c, d \in chunks : c # d /\ c.base < d.base => DataEnd(c) < Data(d)
         /\ \A c, d \in chunks : c # d /\ ~ (c.base < d.base) => DataEnd(d) < Data(c)
BY DEF PoolAssumption, TypeOK, Chunk, Layout, Apart, Holds, Data, DataEnd

LEMMA TopType ==
  ASSUME PoolAssumption, TypeOK, Layout, NEW c \in chunks
  PROVE  Top(c) \in Nat /\ Top(c) <= DataEnd(c)
BY Geometry DEF TypeOK, Top, Holds

\* An address seen in a chunk is not beyond start if start is in that chunk,
\* and the chunk is not fresh.
LEMMA SeenBound ==
  ASSUME PoolAssumption, TypeOK, Layout, NEW a \in Nat, Seen(a), NEW c \in chunks, Holds(c, a)
  PROVE  /\ ~ Fresh(c)
         /\ Holds(c, start) => a <= start
<1>1. PICK d \in chunks : Data(d) <= a /\ a <= Top(d)
  BY DEF Seen
<1>2. Holds(d, a)
  BY <1>1, TopType, Geometry DEF Holds
<1>3. d = c
  BY <1>2, Geometry
<1> QED
  BY <1>1, <1>3, Geometry DEF Top

\* The part of the invariant that follows from the growth of Top alone.
LEMMA Growth ==
  ASSUME PoolAssumption, TypeOK, Layout, chunks \subseteq chunks',
         \A c \in chunks : Top(c)' \in Nat /\ Top(c) <= Top(c)'
  PROVE  /\ \A a \in Nat : Seen(a) => \E c \in chunks' : Data(c) <= a /\ a <= Top(c)'
         /\ Placed => \A g \in grants : \E c \in chunks' :
                        Data(c) <= g.addr /\ g.addr + g.len <= Top(c)'
<1>1. \A c \in chunks : Top(c) \in Nat
  BY TopType
<1>2. \A a \in Nat : Seen(a) => \E c \in chunks' : Data(c) <= a /\ a <= Top(c)'
  BY <1>1 DEF Seen
<1>3. ASSUME Placed, NEW g \in grants
      PROVE  \E c \in chunks' : Data(c) <= g.addr /\ g.addr + g.len <= Top(c)'
  <2>1. PICK c \in chunks : Data(c) <= g.addr /\ g.addr + g.len <= Top(c)
    BY <1>3 DEF Placed
  <2>2. g \in [by : Threads, nr : Nat, addr : Nat, len : Sizes]
    BY DEF TypeOK
  <2>3. g.addr \in Nat /\ g.len \in Sizes
    BY <2>2
  <2>4. g.len \in Nat
    BY <2>3 DEF PoolAssumption
  <2>5. g.addr + g.len \in Nat
    BY <2>3, <2>4
  <2> QED
    BY <1>1, <2>1, <2>5
<1> QED
  BY <1>2, <1>3

\* Steps that touch neither the pool's pointers nor a publication.
Quiet(t) ==
  /\ UNCHANGED <<start, end, current, allocSize, chunks, myChunk, grants>>
  /\ \A u \in Threads \ {t} : pc'[u] = pc[u]
  /\ ~ Switching(t) /\ ~ Switching(t)'

LEMMA QuietTop ==
  ASSUME NEW t \in Threads, Quiet(t)
  PROVE  /\ \A c \in chunks : Top(c)' = Top(c)
         /\ \A u \in Threads : Switching(u)' <=> Switching(u)
<1>1. \A u \in Threads : Switching(u)' <=> Switching(u)
  BY DEF Quiet, Switching
<1>2. \A u \in Threads : pc[u] \in {"publish", "publishRest"} \/ pc'[u] \in {"publish", "publishRest"}
                         => pc'[u] = pc[u]
  BY DEF Quiet, Switching
<1>3. \A c \in chunks : Fresh(c)' <=> Fresh(c)
  BY <1>2 DEF Fresh, Quiet
<1>4. \A c \in chunks : Top(c)' = Top(c)
  BY <1>3 DEF Top, Holds, Quiet
<1> QED
  BY <1>1, <1>4

\* What a quiet step preserves.
LEMMA QuietFrame ==
  ASSUME PoolAssumption, IInv, NEW t \in Threads, Quiet(t)
  PROVE  /\ \A a \in Nat : Seen(a) => \E c \in chunks' : Data(c) <= a /\ a <= Top(c)'
         /\ Layout' /\ Placed' /\ BlocksDisjoint'
         /\ \A c \in chunks : Top(c)' = Top(c)
         /\ \A u \in Threads : Switching(u)' <=> Switching(u)
<1>1. /\ \A c \in chunks : Top(c)' = Top(c)
      /\ \A u \in Threads : Switching(u)' <=> Switching(u)
  BY QuietTop
<1>2. \A c \in chunks : Top(c)' \in Nat /\ Top(c) <= Top(c)'
  BY <1>1, TopType DEF IInv
<1>3. /\ \A a \in Nat : Seen(a) => \E c \in chunks' : Data(c) <= a /\ a <= Top(c)'
      /\ Placed => \A g \in grants : \E c \in chunks' :
                     Data(c) <= g.addr /\ g.addr + g.len <= Top(c)'
  BY <1>2, Growth DEF IInv, Quiet
<1>4. Placed'
  BY <1>3 DEF IInv, Placed, Quiet
<1>5. Layout' /\ BlocksDisjoint'
  BY DEF IInv, Layout, BlocksDisjoint, Quiet
<1> QED
  BY <1>1, <1>3, <1>4, <1>5

\* The address start holds is one that has been seen, whatever the refill does.
LEMMA StartSeen ==
  ASSUME PoolAssumption, IInv
  PROVE  Seen(start)
<1>1. current \in chunks /\ start \in Nat
  BY DEF IInv, TypeOK
<1>2. \A t \in Threads : pc[t] \in {"publish", "publishRest"} => myChunk[t] # current
  BY DEF IInv, Pointers
<1>3. ~ Fresh(current)
  BY <1>2 DEF Fresh
<1>4. CASE Holds(current, start)
  BY <1>1, <1>3, <1>4 DEF Seen, Top, Holds
<1>5. CASE ~ Holds(current, start)
  <2>1. PICK t \in Threads : Switching(t)
    BY <1>5 DEF IInv, Pointers
  <2>2. DataEnd(current) \in Nat /\ Data(current) <= DataEnd(current)
    BY Geometry DEF IInv, TypeOK
  <2>3. pc[t] = "publishRest" /\ start = Data(myChunk[t])
    BY <1>5, <2>1, <2>2 DEF IInv, Pointers, Switching, Holds
  <2>4. myChunk[t] \in chunks
    BY DEF IInv, TypeOK
  <2>5. ~ Fresh(myChunk[t])
    <3>1. t \in refill /\ \A u \in refill : u = t
      BY <2>3 DEF IInv, Mutex, Refilling
    <3>2. \A u \in Threads : pc[u] \in {"publish", "publishRest"} => u = t
      BY <3>1 DEF IInv, Mutex, Refilling
    <3> QED
      BY <2>3, <3>2 DEF Fresh
  <2>6. Holds(myChunk[t], start)
    BY <2>3, <2>4, Geometry DEF IInv, Holds
  <2> QED
    BY <2>3, <2>4, <2>5, <2>6, <1>1 DEF Seen, Top, Holds
<1> QED
  BY <1>4, <1>5

\* Only one thread is between lock and unlock.
LEMMA OnlyOne ==
  ASSUME PoolAssumption, IInv, NEW t \in Threads, NEW u \in Threads,
         pc[t] \in Refilling, pc[u] \in Refilling
  PROVE  t = u
BY DEF IInv, Mutex

-----------------------------------------------------------------------------

\* The constructor establishes the invariant.
LEMMA InitIInv ==
  ASSUME PoolAssumption, Init
  PROVE  IInv
<1>1. current \in Chunk /\ Chunk = [base : Nat, size : Nat]
  BY DEF PoolAssumption, Init, Chunk
<1>2. (CHOOSE n \in Sizes : TRUE) \in Sizes
  BY DEF PoolAssumption
<1>3. TypeOK
  BY <1>1, <1>2 DEF PoolAssumption, Init, TypeOK, Data, DataEnd, Labels
<1>4. Mutex /\ Layout /\ FastPath /\ Placed /\ BlocksDisjoint
  BY DEF Init, Mutex, Layout, FastPath, Placed, BlocksDisjoint, Refilling
<1>5. Pointers
  BY <1>1 DEF PoolAssumption, Init, Pointers, Switching, Holds, Data, DataEnd
<1> QED
  BY <1>3, <1>4, <1>5 DEF IInv

LEMMA CallIInv ==
  ASSUME PoolAssumption, IInv, NEW t \in Threads, Call(t)
  PROVE  IInv'
<1>1. TypeOK'
  BY DEF IInv, TypeOK, Call, Goto, pool, Labels
<1>2. Quiet(t)
  BY DEF IInv, TypeOK, Call, Goto, pool, Quiet, Switching
<1>3. Mutex'
  BY DEF IInv, TypeOK, Mutex, Call, Goto, pool, Refilling
<1>4. Pointers'
  BY <1>2, QuietFrame DEF IInv, TypeOK, Pointers, Call, Goto, pool, Switching, Holds, Data, DataEnd
<1>5. FastPath'
  BY <1>2, QuietFrame DEF IInv, TypeOK, FastPath, Call, Goto, pool, Seen
<1> QED
  BY <1>1, <1>2, <1>3, <1>4, <1>5, QuietFrame DEF IInv

LEMMA LockIInv ==
  ASSUME PoolAssumption, IInv, NEW t \in Threads, Lock(t)
  PROVE  IInv'
<1>1. TypeOK'
  BY DEF IInv, TypeOK, Lock, Goto, pool, locals, Labels
<1>2. Quiet(t)
  BY DEF IInv, TypeOK, Lock, Goto, pool, locals, Quiet, Switching
<1>3. Mutex'
  BY DEF IInv, TypeOK, Mutex, Lock, Goto, pool, locals, Refilling
<1>4. Pointers'
  BY <1>2, QuietFrame DEF IInv, TypeOK, Pointers, Lock, Goto, pool, locals, Switching, Holds, Data, DataEnd
<1>5. FastPath'
  BY <1>2, QuietFrame DEF IInv, TypeOK, FastPath, Lock, Goto, pool, locals, Seen
<1> QED
  BY <1>1, <1>2, <1>3, <1>4, <1>5, QuietFrame DEF IInv

LEMMA RecheckStartIInv ==
  ASSUME PoolAssumption, IInv, NEW t \in Threads, RecheckStart(t)
  PROVE  IInv'
<1>1. TypeOK'
  BY DEF IInv, TypeOK, RecheckStart, Goto, pool, locals, Labels
<1>2. Quiet(t)
  BY DEF IInv, TypeOK, RecheckStart, Goto, pool, locals, Quiet, Switching
<1>3. Mutex'
  BY DEF IInv, TypeOK, Mutex, RecheckStart, Goto, pool, locals, Refilling
<1>4. Pointers'
  BY <1>2, QuietFrame DEF IInv, TypeOK, Pointers, RecheckStart, Goto, pool, locals, Switching, Holds, Data, DataEnd
<1>5. FastPath'
  BY <1>2, QuietFrame DEF IInv, TypeOK, FastPath, RecheckStart, Goto, pool, locals, Seen
<1> QED
  BY <1>1, <1>2, <1>3, <1>4, <1>5, QuietFrame DEF IInv

LEMMA RestartIInv ==
  ASSUME PoolAssumption, IInv, NEW t \in Threads, Restart(t)
  PROVE  IInv'
<1>1. TypeOK'
  BY DEF IInv, TypeOK, Restart, Goto, pool, locals, Labels
<1>2. Quiet(t)
  BY DEF IInv, TypeOK, Restart, Goto, pool, locals, Quiet, Switching
<1>3. Mutex'
  BY DEF IInv, TypeOK, Mutex, Restart, Goto, pool, locals, Refilling
<1>4. Pointers'
  BY <1>2, QuietFrame DEF IInv, TypeOK, Pointers, Restart, Goto, pool, locals, Switching, Holds, Data, DataEnd
<1>5. FastPath'
  BY <1>2, QuietFrame DEF IInv, TypeOK, FastPath, Restart, Goto, pool, locals, Seen
<1> QED
  BY <1>1, <1>2, <1>3, <1>4, <1>5, QuietFrame DEF IInv

LEMMA DrainLoadIInv ==
  ASSUME PoolAssumption, IInv, NEW t \in Threads, DrainLoad(t)
  PROVE  IInv'
<1>1. TypeOK'
  BY DEF IInv, TypeOK, DrainLoad, Goto, pool, locals, Labels
<1>2. Quiet(t)
  BY DEF IInv, TypeOK, DrainLoad, Goto, pool, locals, Quiet, Switching
<1>3. Mutex'
  BY DEF IInv, TypeOK, Mutex, DrainLoad, Goto, pool, locals, Refilling
<1>4. Pointers'
  BY <1>2, QuietFrame DEF IInv, TypeOK, Pointers, DrainLoad, Goto, pool, locals, Switching, Holds, Data, DataEnd
<1>5. FastPath'
  BY <1>2, QuietFrame DEF IInv, TypeOK, FastPath, DrainLoad, Goto, pool, locals, Seen
<1> QED
  BY <1>1, <1>2, <1>3, <1>4, <1>5, QuietFrame DEF IInv

LEMMA DrainFailsIInv ==
  ASSUME PoolAssumption, IInv, NEW t \in Threads, DrainFails(t)
  PROVE  IInv'
<1>1. TypeOK'
  BY DEF IInv, TypeOK, DrainFails, Goto, pool, locals, Labels
<1>2. Quiet(t)
  BY DEF IInv, TypeOK, DrainFails, Goto, pool, locals, Quiet, Switching
<1>3. Mutex'
  BY DEF IInv, TypeOK, Mutex, DrainFails, Goto, pool, locals, Refilling
<1>4. Pointers'
  BY <1>2, QuietFrame DEF IInv, TypeOK, Pointers, DrainFails, Goto, pool, locals, Switching, Holds, Data, DataEnd
<1>5. FastPath'
  BY <1>2, QuietFrame DEF IInv, TypeOK, FastPath, DrainFails, Goto, pool, locals, Seen
<1> QED
  BY <1>1, <1>2, <1>3, <1>4, <1>5, QuietFrame DEF IInv

LEMMA BumpFailsIInv ==
  ASSUME PoolAssumption, IInv, NEW t \in Threads, BumpFails(t)
  PROVE  IInv'
<1>1. TypeOK'
  BY DEF IInv, TypeOK, BumpFails, Goto, pool, locals, Labels
<1>2. Quiet(t)
  BY DEF IInv, TypeOK, BumpFails, Goto, pool, locals, Quiet, Switching
<1>3. Mutex'
  BY DEF IInv, TypeOK, Mutex, BumpFails, Goto, pool, locals, Refilling
<1>4. Pointers'
  BY <1>2, QuietFrame DEF IInv, TypeOK, Pointers, BumpFails, Goto, pool, locals, Switching, Holds, Data, DataEnd
<1>5. FastPath'
  BY <1>2, QuietFrame DEF IInv, TypeOK, FastPath, BumpFails, Goto, pool, locals, Seen
<1> QED
  BY <1>1, <1>2, <1>3, <1>4, <1>5, QuietFrame DEF IInv

LEMMA LoadStartIInv ==
  ASSUME PoolAssumption, IInv, NEW t \in Threads, LoadStart(t)
  PROVE  IInv'
<1>1. TypeOK'
  BY DEF IInv, TypeOK, LoadStart, Goto, pool, Labels
<1>2. Quiet(t)
  BY DEF IInv, TypeOK, LoadStart, Goto, pool, Quiet, Switching
<1>3. Mutex'
  BY DEF IInv, TypeOK, Mutex, LoadStart, Goto, pool, Refilling
<1>4. Pointers'
  BY <1>2, QuietFrame DEF IInv, TypeOK, Pointers, LoadStart, Goto, pool, Switching, Holds, Data, DataEnd
<1>5. start \in Nat /\ Seen(start)
  BY StartSeen DEF IInv, TypeOK
<1>6. FastPath'
  BY <1>2, <1>5, QuietFrame DEF IInv, TypeOK, FastPath, LoadStart, Goto, pool, Seen
<1> QED
  BY <1>1, <1>2, <1>3, <1>4, <1>6, QuietFrame DEF IInv

\* Space below end that starts at start is space of the current chunk: no
\* refill is between its first and its last store.
LEMMA SpaceIsReal ==
  ASSUME PoolAssumption, IInv, start < end
  PROVE  \A u \in Threads : ~ Switching(u)
<1> SUFFICES ASSUME NEW u \in Threads, Switching(u) PROVE FALSE
  OBVIOUS
<1>1. current \in chunks /\ myChunk[u] \in chunks /\ start \in Nat /\ end \in Nat
  BY DEF IInv, TypeOK
<1>2. pc[u] = "publishRest" /\ myChunk[u] # current
  BY <1>1 DEF IInv, Pointers, Switching
<1>3. CASE myChunk[u].base < current.base
  <2>1. end = DataEnd(myChunk[u]) /\ start = DataEnd(current)
    BY <1>2, <1>3 DEF IInv, Pointers
  <2>2. DataEnd(myChunk[u]) < Data(current) /\ Data(current) <= DataEnd(current)
    BY <1>1, <1>2, <1>3, Geometry DEF IInv
  <2>3. Data(current) \in Nat
    BY <1>1, Geometry DEF IInv
  <2> QED
    BY <1>1, <2>1, <2>2, <2>3
<1>4. CASE ~ (myChunk[u].base < current.base)
  <2>1. end = DataEnd(current) /\ start = Data(myChunk[u])
    BY <1>2, <1>4 DEF IInv, Pointers
  <2>2. DataEnd(current) < Data(myChunk[u])
    BY <1>1, <1>2, <1>4, Geometry DEF IInv
  <2> QED
    BY <1>1, <2>1, <2>2
<1> QED
  BY <1>3, <1>4

LEMMA LoadEndIInv ==
  ASSUME PoolAssumption, IInv, NEW t \in Threads, LoadEnd(t)
  PROVE  IInv'
<1>1. TypeOK'
  BY DEF IInv, TypeOK, LoadEnd, Goto, pool, Labels
<1>2. Quiet(t)
  BY DEF IInv, TypeOK, LoadEnd, Goto, pool, Quiet, Switching
<1>3. Mutex'
  BY DEF IInv, TypeOK, Mutex, LoadEnd, Goto, pool, Refilling
<1>4. Pointers'
  BY <1>2, QuietFrame DEF IInv, TypeOK, Pointers, LoadEnd, Goto, pool, Switching, Holds, Data, DataEnd
<1>5. ASSUME pc'[t] = "bump", start = myStart[t]
      PROVE  (\A u \in Threads : ~ Switching(u)) /\ start + size[t] <= end
  <2>1. ~ (myStart[t] + size[t] >= end)
    BY <1>5 DEF IInv, TypeOK, LoadEnd, Goto
  <2>2. size[t] \in Sizes /\ start \in Nat /\ end \in Nat
    BY DEF IInv, TypeOK
  <2>3. size[t] \in Nat \ {0}
    BY <2>2 DEF PoolAssumption
  <2>4. start < end /\ start + size[t] <= end
    BY <1>5, <2>1, <2>2, <2>3
  <2> QED
    BY <2>4, SpaceIsReal
<1>6. FastPath'
  BY <1>2, <1>5, QuietFrame DEF IInv, TypeOK, FastPath, LoadEnd, Goto, pool, Seen
<1> QED
  BY <1>1, <1>2, <1>3, <1>4, <1>6, QuietFrame DEF IInv

LEMMA RecheckEndIInv ==
  ASSUME PoolAssumption, IInv, NEW t \in Threads, RecheckEnd(t)
  PROVE  IInv'
<1>1. TypeOK'
  BY DEF IInv, TypeOK, RecheckEnd, Goto, pool, locals, Labels
<1>2. Quiet(t)
  BY DEF IInv, TypeOK, RecheckEnd, Goto, pool, locals, Quiet, Switching
<1>3. Mutex'
  BY DEF IInv, TypeOK, Mutex, RecheckEnd, Goto, pool, locals, Refilling
<1>4. Pointers'
  BY <1>2, QuietFrame DEF IInv, TypeOK, Pointers, RecheckEnd, Goto, pool, locals, Switching, Holds, Data, DataEnd
<1>5. FastPath'
  BY <1>2, QuietFrame DEF IInv, TypeOK, FastPath, RecheckEnd, Goto, pool, locals, Seen
<1> QED
  BY <1>1, <1>2, <1>3, <1>4, <1>5, QuietFrame DEF IInv

\* The CAS that drains the old chunk: start jumps to the chunk's end.
LEMMA DrainIInv ==
  ASSUME PoolAssumption, IInv, NEW t \in Threads, Drain(t)
  PROVE  IInv'
<1>1. TypeOK'
  BY DEF IInv, TypeOK, Drain, Goto, locals, Labels
<1>2. Mutex'
  BY DEF IInv, TypeOK, Mutex, Drain, Goto, locals, Refilling
<1>3. \A u \in Threads : u # t => pc[u] \notin Refilling
  BY OnlyOne DEF Drain, Refilling
<1>4. \A u \in Threads : ~ Switching(u)
  BY <1>3 DEF Drain, Switching, Refilling
<1>5. /\ Holds(current, start) /\ end = DataEnd(current) /\ start' = end /\ end' = end
      /\ current \in chunks /\ start \in Nat
  BY <1>4 DEF IInv, TypeOK, Pointers, Drain
<1>6. Data(current) <= DataEnd(current) /\ DataEnd(current) \in Nat /\ Data(current) \in Nat
  BY <1>5, Geometry DEF IInv
<1>7. (\A c \in chunks : ~ Fresh(c)) /\ (\A c \in chunks : ~ Fresh(c)')
  BY <1>4 DEF IInv, TypeOK, Fresh, Switching, Drain, Goto, locals
<1>8. \A c \in chunks : Top(c)' \in Nat /\ Top(c) <= Top(c)'
  <2> SUFFICES ASSUME NEW c \in chunks
               PROVE  Top(c)' \in Nat /\ Top(c) <= Top(c)'
    OBVIOUS
  <2>1. DataEnd(c) \in Nat
    BY Geometry DEF IInv
  <2>2. Top(c) <= DataEnd(c) /\ Top(c) \in Nat
    BY TopType DEF IInv
  <2>3. Top(c)' = DataEnd(c)
    <3>1. CASE c = current
      BY <1>5, <1>6, <1>7, <3>1 DEF Top, Holds, Data, DataEnd
    <3>2. CASE c # current
      <4>1. Holds(current, start') /\ start' \in Nat
        BY <1>5, <1>6 DEF Holds
      <4>2. ~ Holds(c, start')
        BY <1>5, <3>2, <4>1, Geometry DEF IInv
      <4> QED
        BY <1>7, <4>2 DEF Top, Holds, Data, DataEnd
    <3> QED
      BY <3>1, <3>2
  <2> QED
    BY <2>1, <2>2, <2>3
<1>9. /\ \A a \in Nat : Seen(a) => \E c \in chunks' : Data(c) <= a /\ a <= Top(c)'
      /\ Placed => \A g \in grants : \E c \in chunks' :
                     Data(c) <= g.addr /\ g.addr + g.len <= Top(c)'
  BY <1>8, Growth DEF IInv, Drain
<1>10. Layout' /\ Placed' /\ BlocksDisjoint'
  BY <1>9 DEF IInv, Layout, Placed, BlocksDisjoint, Drain, locals
<1>11. Pointers'
  BY <1>3, <1>5 DEF IInv, TypeOK, Pointers, Drain, Goto, locals, Switching, Refilling, Holds, Data, DataEnd
<1>12. ASSUME NEW u \in Threads, pc'[u] = "bump", start' = myStart'[u]
       PROVE  FALSE
  <2>1. u # t /\ pc[u] = "bump" /\ myStart[u] = end
    BY <1>5, <1>12 DEF IInv, TypeOK, Drain, Goto, locals
  <2>2. Seen(end) /\ end \in Nat
    BY <2>1 DEF IInv, TypeOK, FastPath
  <2>3. Holds(current, end)
    BY <1>5, <1>6 DEF Holds
  <2>4. end <= start
    BY <1>5, <2>2, <2>3, SeenBound DEF IInv
  <2>5. start = end
    BY <1>5, <2>2, <2>4 DEF Holds
  <2>6. start + size[u] <= end
    BY <2>1, <2>5 DEF IInv, FastPath
  <2>7. size[u] \in Sizes
    BY DEF IInv, TypeOK
  <2>8. size[u] \in Nat \ {0}
    BY <2>7 DEF PoolAssumption
  <2> QED
    BY <1>5, <2>5, <2>6, <2>8
<1>13. FastPath'
  BY <1>9, <1>12 DEF IInv, TypeOK, FastPath, Drain, Goto, locals, Seen
<1> QED
  BY <1>1, <1>2, <1>10, <1>11, <1>13 DEF IInv

\* A fresh chunk is added; nobody has seen an address of it.
LEMMA AllocChunkIInv ==
  ASSUME PoolAssumption, IInv, NEW t \in Threads, AllocChunk(t)
  PROVE  IInv'
<1>1. \A u \in Threads : u # t => pc[u] \notin Refilling
  BY OnlyOne DEF AllocChunk, Refilling
<1>2. start = DataEnd(current) /\ end = start /\ start \in Nat /\ current \in chunks
  BY DEF IInv, TypeOK, Pointers, AllocChunk
<1>3. size[t] \in Nat /\ allocSize' \in Nat /\ size[t] <= allocSize'
  <2>1. size[t] \in Sizes /\ allocSize \in Nat
    BY DEF IInv, TypeOK
  <2>2. size[t] \in Nat
    BY <2>1 DEF PoolAssumption
  <2> QED
    BY <2>1, <2>2 DEF AllocChunk, Larger
<1>4. PICK c \in NewChunk(allocSize') :
        /\ chunks' = chunks \cup {c}
        /\ myChunk' = [myChunk EXCEPT ![t] = c]
        /\ myStart' = [myStart EXCEPT ![t] = Data(c)]
        /\ myEnd' = [myEnd EXCEPT ![t] = DataEnd(c)]
  BY DEF AllocChunk
<1>5. c \in Chunk /\ c.size = allocSize' /\ \A d \in chunks : Apart(c, d)
  BY <1>3 DEF PoolAssumption, NewChunk, Chunk
<1>6. Data(c) \in Nat /\ DataEnd(c) \in Nat /\ 0 < Data(c)
  BY <1>5 DEF PoolAssumption, Chunk, Data, DataEnd
<1>7. c \notin chunks
  <2> SUFFICES ASSUME c \in chunks PROVE FALSE
    OBVIOUS
  <2>1. Apart(c, c)
    BY <1>5
  <2> QED
    BY <1>5, <2>1 DEF PoolAssumption, Apart, DataEnd, Chunk
<1>8. TypeOK'
  BY <1>3, <1>4, <1>5, <1>6 DEF IInv, TypeOK, AllocChunk, Goto, Labels
<1>9. Mutex'
  BY DEF IInv, TypeOK, Mutex, AllocChunk, Goto, Refilling
<1>10. Layout'
  BY <1>4, <1>5 DEF IInv, Layout, Apart
<1>11. \A d \in chunks : Fresh(d)' <=> Fresh(d)
  BY <1>1, <1>4, <1>7 DEF IInv, TypeOK, Fresh, AllocChunk, Goto, Refilling
<1>12. \A d \in chunks : Top(d)' = Top(d)
  BY <1>11 DEF Top, Holds, AllocChunk
<1>13. \A d \in chunks : Top(d)' \in Nat /\ Top(d) <= Top(d)'
  BY <1>12, TopType DEF IInv
<1>14. /\ \A a \in Nat : Seen(a) => \E d \in chunks' : Data(d) <= a /\ a <= Top(d)'
       /\ Placed => \A g \in grants : \E d \in chunks' :
                      Data(d) <= g.addr /\ g.addr + g.len <= Top(d)'
  BY <1>4, <1>13, Growth DEF IInv
<1>15. Placed' /\ BlocksDisjoint'
  BY <1>14 DEF IInv, Placed, BlocksDisjoint, AllocChunk
<1>16. \A u \in Threads : u # t => pc'[u] = pc[u] /\ myChunk'[u] = myChunk[u]
                                  /\ myStart'[u] = myStart[u] /\ myEnd'[u] = myEnd[u]
  BY <1>4 DEF IInv, TypeOK, AllocChunk, Goto
<1>17. /\ pc'[t] = "publish" /\ myChunk'[t] = c /\ myStart'[t] = Data(c)
       /\ myEnd'[t] = DataEnd(c)
  BY <1>4 DEF IInv, TypeOK, AllocChunk, Goto
<1>18. c # current /\ size[t] <= c.size
  BY <1>2, <1>3, <1>5, <1>7
<1>19. start' = start /\ end' = end /\ current' = current /\ size' = size
  BY DEF AllocChunk
<1>20. Pointers'
  BY <1>1, <1>2, <1>16, <1>17, <1>18, <1>19 DEF Pointers, Switching, Refilling, Holds, Data, DataEnd
<1>21. Switching(t)
  BY DEF AllocChunk, Switching
<1>22. FastPath'
  BY <1>14, <1>16, <1>17, <1>19, <1>21 DEF IInv, TypeOK, FastPath, Seen
<1> QED
  BY <1>8, <1>9, <1>10, <1>15, <1>20, <1>22 DEF IInv

\* What both stores of a publication know about the new chunk.
LEMMA Publication ==
  ASSUME PoolAssumption, IInv, NEW t \in Threads, pc[t] \in {"publish", "publishRest"}
  PROVE  /\ \A u \in Threads : u # t => pc[u] \notin Refilling
         /\ myChunk[t] \in chunks /\ current \in chunks /\ myChunk[t] # current
         /\ myStart[t] = Data(myChunk[t]) /\ myEnd[t] = DataEnd(myChunk[t])
         /\ Data(myChunk[t]) \in Nat /\ DataEnd(myChunk[t]) \in Nat
         /\ Data(myChunk[t]) <= DataEnd(myChunk[t])
         /\ (start = DataEnd(current) \/ start = Data(myChunk[t]))
         /\ \A c \in chunks : Fresh(c) <=> c = myChunk[t] /\ start # Data(c)
<1>1. \A u \in Threads : u # t => pc[u] \notin Refilling
  BY OnlyOne DEF Refilling
<1>2. /\ myChunk[t] \in chunks /\ current \in chunks /\ myChunk[t] # current
      /\ myStart[t] = Data(myChunk[t]) /\ myEnd[t] = DataEnd(myChunk[t])
      /\ (start = DataEnd(current) \/ start = Data(myChunk[t]))
  BY DEF IInv, TypeOK, Pointers
<1>3. /\ Data(myChunk[t]) \in Nat /\ DataEnd(myChunk[t]) \in Nat
      /\ Data(myChunk[t]) <= DataEnd(myChunk[t])
  BY <1>2, Geometry DEF IInv
<1>4. pc[t] = "publish" => start # Data(myChunk[t])
  <2> SUFFICES ASSUME pc[t] = "publish", start = Data(myChunk[t]) PROVE FALSE
    OBVIOUS
  <2>1. start = DataEnd(current) /\ start \in Nat
    BY DEF IInv, TypeOK, Pointers
  <2>2. Holds(current, start) /\ Holds(myChunk[t], start)
    BY <1>2, <1>3, <2>1, Geometry DEF IInv, Holds
  <2> QED
    BY <1>2, <2>1, <2>2, Geometry DEF IInv
<1>5. \A c \in chunks : Fresh(c) <=> c = myChunk[t] /\ start # Data(c)
  BY <1>1, <1>4 DEF Fresh, Refilling
<1> QED
  BY <1>1, <1>2, <1>3, <1>5

\* Moving start from the end of the old chunk to the beginning of the new one
\* leaves everything used that was used.
LEMMA SwitchTop ==
  ASSUME PoolAssumption, IInv, NEW t \in Threads, pc[t] \in {"publish", "publishRest"},
         start' = Data(myChunk[t]), \A c \in chunks : ~ Fresh(c)'
  PROVE  \A c \in chunks : Top(c)' \in Nat /\ Top(c) <= Top(c)'
<1> SUFFICES ASSUME NEW c \in chunks
             PROVE  Top(c)' \in Nat /\ Top(c) <= Top(c)'
  OBVIOUS
<1>1. /\ myChunk[t] \in chunks /\ start' \in Nat
      /\ Holds(myChunk[t], start')
      /\ Fresh(myChunk[t]) \/ start = Data(myChunk[t])
  BY Publication DEF Holds
<1>2. Top(c) \in Nat /\ Top(c) <= DataEnd(c) /\ DataEnd(c) \in Nat
  BY TopType, Geometry DEF IInv
<1>3. CASE c = myChunk[t]
  <2>1. Top(c)' = start'
    BY <1>1, <1>3 DEF Top, Holds, Data, DataEnd
  <2>2. Top(c) <= start'
    BY <1>1, <1>3 DEF Top, Holds
  <2> QED
    BY <1>1, <2>1, <2>2
<1>4. CASE c # myChunk[t]
  <2>1. ~ Holds(c, start')
    BY <1>1, <1>4, Geometry DEF IInv
  <2>2. Top(c)' = DataEnd(c)
    BY <2>1 DEF Top, Holds, Data, DataEnd
  <2> QED
    BY <1>2, <2>2
<1> QED
  BY <1>3, <1>4

LEMMA PublishFirstIInv ==
  ASSUME PoolAssumption, IInv, NEW t \in Threads, PublishFirst(t)
  PROVE  IInv'
<1> DEFINE c == myChunk[t]
<1>1. pc[t] = "publish" /\ Switching(t)
  BY DEF PublishFirst, Switching
<1>2. /\ \A u \in Threads : u # t => pc[u] \notin Refilling
      /\ c \in chunks /\ current \in chunks /\ c # current
      /\ myStart[t] = Data(c) /\ myEnd[t] = DataEnd(c)
      /\ Data(c) \in Nat /\ DataEnd(c) \in Nat
      /\ Data(c) <= DataEnd(c)
      /\ \A d \in chunks : Fresh(d) <=> d = c /\ start # Data(d)
  BY <1>1, Publication
<1>3. start = DataEnd(current) /\ end = start /\ start \in Nat
  BY <1>1 DEF IInv, TypeOK, Pointers
<1>4. start # Data(c)
  <2> SUFFICES ASSUME start = Data(c) PROVE FALSE
    OBVIOUS
  <2>1. Holds(current, start) /\ Holds(c, start)
    BY <1>2, <1>3, Geometry DEF IInv, Holds
  <2> QED
    BY <1>2, <1>3, <2>1, Geometry DEF IInv
<1>5. TypeOK'
  BY <1>2 DEF IInv, TypeOK, PublishFirst, Goto, locals, Labels
<1>6. Mutex'
  BY DEF IInv, TypeOK, Mutex, PublishFirst, Goto, locals, Refilling
<1>7. /\ pc'[t] = "publishRest" /\ \A u \in Threads : u # t => pc'[u] = pc[u]
      /\ chunks' = chunks /\ current' = current /\ UNCHANGED locals
  BY DEF IInv, TypeOK, PublishFirst, Goto
<1>8. \/ c.base < current.base /\ end' = DataEnd(c) /\ start' = start
      \/ ~ (c.base < current.base) /\ start' = Data(c) /\ end' = end
  BY <1>2 DEF PublishFirst
<1>9. \A d \in chunks : Fresh(d)' <=> d = c /\ start' # Data(d)
  BY <1>2, <1>7 DEF Fresh, Refilling, locals, Data
<1>10. \A d \in chunks : Top(d)' \in Nat /\ Top(d) <= Top(d)'
  <2>1. CASE start' = start
    <3>1. \A d \in chunks : Top(d)' = Top(d)
      BY <1>2, <1>9, <2>1 DEF Top, Holds, Data, DataEnd
    <3> QED
      BY <3>1, TopType DEF IInv
  <2>2. CASE start' = Data(c)
    <3>1. \A d \in chunks : ~ Fresh(d)'
      BY <1>9, <2>2
    <3> QED
      BY <1>1, <2>2, <3>1, SwitchTop
  <2> QED
    BY <1>8, <2>1, <2>2
<1>11. /\ \A a \in Nat : Seen(a) => \E d \in chunks' : Data(d) <= a /\ a <= Top(d)'
       /\ Placed => \A g \in grants : \E d \in chunks' :
                      Data(d) <= g.addr /\ g.addr + g.len <= Top(d)'
  BY <1>7, <1>10, Growth DEF IInv
<1>12. Layout' /\ Placed' /\ BlocksDisjoint'
  BY <1>7, <1>11 DEF IInv, Layout, Placed, BlocksDisjoint, locals
<1>13. Pointers'
  <2>1. \A u \in Threads : u # t => pc'[u] \notin Refilling
    BY <1>2, <1>7
  <2>2. Switching(t)'
    BY <1>7 DEF Switching
  <2>3. size[t] <= c.size
    BY <1>1 DEF IInv, Pointers
  <2>4. myChunk'[t] = c /\ myStart'[t] = Data(c) /\ myEnd'[t] = DataEnd(c) /\ size'[t] = size[t]
    BY <1>2, <1>7 DEF locals
  <2> QED
    BY <1>2, <1>3, <1>7, <1>8, <2>1, <2>2, <2>3, <2>4 DEF Pointers, Refilling, Data, DataEnd
<1>14. ASSUME NEW u \in Threads, pc'[u] = "bump", start' = myStart'[u]
       PROVE  FALSE
  <2>1. u # t /\ pc[u] = "bump" /\ myStart[u] = start'
    BY <1>7, <1>14 DEF locals
  <2>2. start # myStart[u]
    BY <1>1, <2>1 DEF IInv, FastPath
  <2>3. myStart[u] = Data(c) /\ Seen(Data(c))
    BY <1>8, <2>1, <2>2 DEF IInv, FastPath
  <2>4. Holds(c, Data(c))
    BY <1>2 DEF Holds
  <2>5. ~ Fresh(c)
    BY <1>2, <2>3, <2>4, SeenBound DEF IInv
  <2> QED
    BY <1>2, <1>4, <2>5
<1>15. FastPath'
  <2> SUFFICES ASSUME NEW u \in Threads, pc'[u] \in {"loadEnd", "bump"}
               PROVE  Seen(myStart[u])'
    BY <1>14 DEF FastPath
  <2>1. Seen(myStart[u]) /\ myStart[u] \in Nat /\ myStart'[u] = myStart[u]
    BY <1>7 DEF IInv, TypeOK, FastPath, locals
  <2> QED
    BY <1>11, <2>1 DEF Seen
<1> QED
  BY <1>5, <1>6, <1>12, <1>13, <1>15 DEF IInv

LEMMA PublishRestIInv ==
  ASSUME PoolAssumption, IInv, NEW t \in Threads, PublishRest(t)
  PROVE  IInv'
<1> DEFINE c == myChunk[t]
<1>1. pc[t] = "publishRest" /\ Switching(t)
  BY DEF PublishRest, Switching
<1>2. /\ \A u \in Threads : u # t => pc[u] \notin Refilling
      /\ c \in chunks /\ current \in chunks /\ c # current
      /\ myStart[t] = Data(c) /\ myEnd[t] = DataEnd(c)
      /\ Data(c) \in Nat /\ DataEnd(c) \in Nat
      /\ Data(c) <= DataEnd(c)
      /\ \A d \in chunks : Fresh(d) <=> d = c /\ start # Data(d)
  BY <1>1, Publication
<1>3. TypeOK'
  BY <1>2 DEF IInv, TypeOK, PublishRest, Goto, locals, Labels
<1>4. Mutex'
  BY <1>1, <1>2 DEF IInv, TypeOK, Mutex, PublishRest, Goto, locals, Refilling
<1>5. /\ pc'[t] = "bump" /\ \A u \in Threads : u # t => pc'[u] = pc[u]
      /\ chunks' = chunks /\ current' = c /\ UNCHANGED locals
      /\ start' = Data(c) /\ end' = DataEnd(c)
  BY <1>2 DEF IInv, TypeOK, PublishRest, Goto
<1>6. \A u \in Threads : pc'[u] \notin Refilling
  BY <1>2, <1>5 DEF Refilling
<1>7. \A d \in chunks : ~ Fresh(d)'
  BY <1>6 DEF Fresh, Refilling
<1>8. \A d \in chunks : Top(d)' \in Nat /\ Top(d) <= Top(d)'
  BY <1>1, <1>5, <1>7, SwitchTop
<1>9. /\ \A a \in Nat : Seen(a) => \E d \in chunks' : Data(d) <= a /\ a <= Top(d)'
      /\ Placed => \A g \in grants : \E d \in chunks' :
                      Data(d) <= g.addr /\ g.addr + g.len <= Top(d)'
  BY <1>5, <1>8, Growth DEF IInv
<1>10. Layout' /\ Placed' /\ BlocksDisjoint'
  BY <1>5, <1>9 DEF IInv, Layout, Placed, BlocksDisjoint, locals
<1>11. Pointers'
  BY <1>2, <1>5, <1>6 DEF Pointers, Refilling, Switching, Holds, Data, DataEnd
<1>12. \A u \in Threads : ~ Switching(u)'
  BY <1>6 DEF Switching, Refilling
<1>13. ASSUME NEW u \in Threads, u # t, pc'[u] = "bump", start' = myStart'[u]
       PROVE  FALSE
  <2>1. pc[u] = "bump" /\ myStart[u] = Data(c)
    BY <1>5, <1>13 DEF locals
  <2>2. start # Data(c) /\ Seen(Data(c))
    BY <1>1, <2>1 DEF IInv, FastPath
  <2>3. Holds(c, Data(c))
    BY <1>2 DEF Holds
  <2>4. ~ Fresh(c)
    BY <1>2, <2>2, <2>3, SeenBound DEF IInv
  <2> QED
    BY <1>2, <2>2, <2>4
<1>14. Data(c) + size[t] <= DataEnd(c) /\ size'[t] = size[t] /\ myStart'[t] = Data(c)
  <2>1. size[t] <= c.size /\ size[t] \in Sizes
    BY <1>1 DEF IInv, TypeOK, Pointers
  <2>2. size[t] \in Nat
    BY <2>1 DEF PoolAssumption
  <2>3. DataEnd(c) = Data(c) + c.size /\ c.size \in Nat
    BY <1>2, Geometry DEF IInv, TypeOK, Chunk
  <2> QED
    BY <1>2, <1>5, <2>1, <2>2, <2>3 DEF locals
<1>15. \E d \in chunks' : Data(d) <= Data(c) /\ Data(c) <= Top(d)'
  <2>1. \A d \in chunks : d = c => Top(d)' = Data(c)
    BY <1>2, <1>5, <1>7 DEF Top, Holds, Data, DataEnd
  <2>2. \E d \in chunks : d = c
    BY <1>2
  <2>3. PICK d \in chunks : d = c /\ Top(d)' = Data(c)
    BY <2>1, <2>2
  <2> QED
    BY <1>2, <1>5, <2>3
<1>16. FastPath'
  <2> SUFFICES ASSUME NEW u \in Threads
               PROVE  /\ pc'[u] \in {"loadEnd", "bump"} => Seen(myStart[u])'
                      /\ pc'[u] = "bump" /\ start' = myStart'[u] =>
                           start' + size'[u] <= end'
    BY <1>12 DEF FastPath
  <2>1. CASE u = t
    <3>1. Seen(myStart[u])'
      BY <1>14, <1>15, <2>1 DEF Seen
    <3> QED
      BY <1>5, <1>14, <2>1, <3>1
  <2>2. CASE u # t
    <3>1. ASSUME pc'[u] \in {"loadEnd", "bump"} PROVE Seen(myStart[u])'
      <4>1. Seen(myStart[u]) /\ myStart[u] \in Nat /\ myStart'[u] = myStart[u]
        BY <1>5, <2>2, <3>1 DEF IInv, TypeOK, FastPath, locals
      <4> QED
        BY <1>9, <4>1 DEF Seen
    <3> QED
      BY <1>13, <2>2, <3>1
  <2> QED
    BY <2>1, <2>2
<1> QED
  BY <1>3, <1>4, <1>10, <1>11, <1>16 DEF IInv

\* The CAS that takes a block: it starts where the used part of the current
\* chunk ended and ends within the chunk.
LEMMA BumpIInv ==
  ASSUME PoolAssumption, IInv, NEW t \in Threads, Bump(t)
  PROVE  IInv'
<1>1. \A u \in Threads : ~ Switching(u)
  BY DEF IInv, FastPath, Bump
<1>2. /\ start = myStart[t] /\ start + size[t] <= end /\ start' = start + size[t]
      /\ Holds(current, start) /\ end = DataEnd(current) /\ current \in chunks /\ start \in Nat
      /\ size[t] \in Sizes
  BY <1>1 DEF IInv, TypeOK, FastPath, Pointers, Bump
<1>3. size[t] \in Nat \ {0} /\ start' \in Nat /\ start < start'
  <2>1. size[t] \in Nat \ {0}
    BY <1>2 DEF PoolAssumption
  <2> QED
    BY <1>2, <2>1
<1>4. Holds(current, start')
  BY <1>2, <1>3, Geometry DEF IInv, Holds
<1>5. TypeOK'
  BY <1>2, <1>3 DEF IInv, TypeOK, Bump, Block, Goto, Labels
<1>6. /\ pc'[t] = "idle" /\ (\A u \in Threads : u # t => pc'[u] = pc[u])
      /\ chunks' = chunks /\ current' = current /\ end' = end /\ myChunk' = myChunk
      /\ size' = size /\ myStart' = myStart /\ myEnd' = myEnd /\ refill' = refill
      /\ grants' = grants \cup {Block(t)}
  BY DEF IInv, TypeOK, Bump, Goto
<1>7. Mutex'
  BY <1>6 DEF IInv, Mutex, Refilling, Bump
<1>8. \A u \in Threads : ~ Switching(u)'
  BY <1>1, <1>6 DEF Switching
<1>9. (\A d \in chunks : ~ Fresh(d)) /\ (\A d \in chunks : ~ Fresh(d)')
  BY <1>1, <1>8 DEF Fresh, Switching
<1>10. \A d \in chunks : d # current => ~ Holds(d, start) /\ ~ Holds(d, start')
  BY <1>2, <1>3, <1>4, Geometry DEF IInv
<1>11. \A d \in chunks : d # current => Top(d)' = Top(d)
  BY <1>9, <1>10 DEF Top, Holds, Data, DataEnd
<1>12. \A d \in chunks : d = current => Top(d) = start /\ Top(d)' = start'
  BY <1>2, <1>4, <1>9 DEF Top, Holds, Data, DataEnd
<1>13. \A d \in chunks : Top(d)' \in Nat /\ Top(d) <= Top(d)'
  BY <1>2, <1>3, <1>11, <1>12, TopType DEF IInv
<1>14. /\ \A a \in Nat : Seen(a) => \E d \in chunks' : Data(d) <= a /\ a <= Top(d)'
       /\ \A g \in grants : \E d \in chunks' : Data(d) <= g.addr /\ g.addr + g.len <= Top(d)'
  BY <1>6, <1>13, Growth DEF IInv
<1>15. Block(t).addr = start /\ Block(t).len = size[t]
  BY <1>2 DEF Block
<1>16. Placed'
  <2>1. PICK d \in chunks : d = current /\ Top(d)' = start'
    BY <1>2, <1>12
  <2>2. Data(d) <= Block(t).addr /\ Block(t).addr + Block(t).len <= Top(d)'
    BY <1>2, <1>15, <2>1 DEF Holds
  <2> QED
    BY <1>6, <1>14, <2>2 DEF Placed
<1>17. ASSUME NEW g \in grants
       PROVE  g.addr + g.len <= start \/ start' <= g.addr
  <2>1. g \in [by : Threads, nr : Nat, addr : Nat, len : Sizes]
    BY DEF IInv, TypeOK
  <2>2. g.addr \in Nat /\ g.len \in Sizes
    BY <2>1
  <2>3. g.len \in Nat
    BY <2>2 DEF PoolAssumption
  <2>4. PICK d \in chunks : Data(d) <= g.addr /\ g.addr + g.len <= Top(d)
    BY DEF IInv, Placed
  <2>5. CASE d = current
    BY <1>12, <2>4, <2>5
  <2>6. CASE d # current
    <3>1. Apart(d, current) /\ Top(d) <= DataEnd(d) /\ Top(d) \in Nat
      BY <1>2, <2>6, TopType DEF IInv, Layout
    <3>2. Data(current) <= start /\ start' <= DataEnd(current)
      BY <1>2, <1>4 DEF Holds
    <3>3. d \in Chunk /\ current \in Chunk
      BY <1>2 DEF IInv, TypeOK
    <3> QED
      BY <1>2, <1>3, <2>2, <2>3, <2>4, <3>1, <3>2, <3>3
         DEF PoolAssumption, Apart, Data, DataEnd, Chunk
  <2> QED
    BY <2>5, <2>6
<1>18. BlocksDisjoint'
  BY <1>2, <1>6, <1>15, <1>17 DEF IInv, BlocksDisjoint
<1>19. Layout'
  BY <1>6 DEF IInv, Layout
<1>20. Pointers'
  BY <1>2, <1>4, <1>6, <1>8 DEF IInv, Pointers, Switching, Holds, Data, DataEnd
<1>21. ASSUME NEW u \in Threads, pc'[u] = "bump", start' = myStart'[u]
       PROVE  FALSE
  <2>1. Seen(start')
    BY <1>6, <1>21 DEF IInv, FastPath
  <2>2. start' <= start
    BY <1>2, <1>3, <1>4, <2>1, SeenBound DEF IInv
  <2> QED
    BY <1>2, <1>3, <2>2
<1>22. FastPath'
  <2> SUFFICES ASSUME NEW u \in Threads, pc'[u] \in {"loadEnd", "bump"}
               PROVE  Seen(myStart[u])'
    BY <1>21 DEF FastPath
  <2>1. Seen(myStart[u]) /\ myStart[u] \in Nat /\ myStart'[u] = myStart[u]
    BY <1>6 DEF IInv, TypeOK, FastPath
  <2> QED
    BY <1>14, <2>1 DEF Seen
<1> QED
  BY <1>5, <1>7, <1>16, <1>18, <1>19, <1>20, <1>22 DEF IInv

LEMMA StutterIInv ==
  ASSUME PoolAssumption, IInv, UNCHANGED vars
  PROVE  IInv'
BY DEF IInv, TypeOK, Mutex, Layout, Pointers, FastPath, Placed, BlocksDisjoint, Seen, Top,
       Fresh, Holds, Data, DataEnd, Switching, Chunk, vars

-----------------------------------------------------------------------------

\* The inductive invariant holds of every execution of the pool.
THEOREM Invariance == PoolAssumption => (Spec => []IInv)
<1> SUFFICES ASSUME PoolAssumption PROVE Spec => []IInv
  OBVIOUS
<1>1. Init => IInv
  BY InitIInv
<1>2. IInv /\ [Next]_vars => IInv'
  BY CallIInv, LoadStartIInv, LoadEndIInv, LockIInv, RecheckStartIInv, RecheckEndIInv,
     RestartIInv, DrainLoadIInv, DrainIInv, DrainFailsIInv, AllocChunkIInv,
     PublishFirstIInv, PublishRestIInv, BumpIInv, BumpFailsIInv, StutterIInv
     DEF Next, Step, Refill, Finished
<1> QED
  BY <1>1, <1>2, PTL DEF Spec

\* The variables keep their types; in particular the pool never switches to a
\* chunk that it does not own.
THEOREM TypeCorrect == PoolAssumption => (Spec => []TypeOK)
<1> SUFFICES ASSUME PoolAssumption PROVE Spec => []TypeOK
  OBVIOUS
<1>1. IInv => TypeOK
  BY DEF IInv
<1> QED
  BY <1>1, Invariance, PTL

\* GlobalPool::allocate never hands out a byte twice, for any number of
\* workers and any sizes of requests.
THEOREM NoByteTwice == PoolAssumption => (Spec => []BlocksDisjoint)
<1> SUFFICES ASSUME PoolAssumption PROVE Spec => []BlocksDisjoint
  OBVIOUS
<1>1. IInv => BlocksDisjoint
  BY DEF IInv
<1> QED
  BY <1>1, Invariance, PTL

\* Every block lies in the data part of one chunk.
THEOREM InsideChunks == PoolAssumption => (Spec => []BlocksInChunks)
<1> SUFFICES ASSUME PoolAssumption PROVE Spec => []BlocksInChunks
  OBVIOUS
<1>1. ASSUME IInv PROVE BlocksInChunks
  <2> SUFFICES ASSUME NEW g \in grants
               PROVE  \E c \in chunks : Data(c) <= g.addr /\ g.addr + g.len <= DataEnd(c)
    BY DEF BlocksInChunks
  <2>1. g \in [by : Threads, nr : Nat, addr : Nat, len : Sizes]
    BY <1>1 DEF IInv, TypeOK
  <2>2. g.addr \in Nat /\ g.len \in Sizes
    BY <2>1
  <2>3. g.len \in Nat
    BY <2>2 DEF PoolAssumption
  <2>4. PICK c \in chunks : Data(c) <= g.addr /\ g.addr + g.len <= Top(c)
    BY <1>1 DEF IInv, Placed
  <2>5. Top(c) \in Nat /\ DataEnd(c) \in Nat /\ Top(c) <= DataEnd(c)
    BY <1>1, TopType, Geometry DEF IInv
  <2> QED
    BY <2>2, <2>3, <2>4, <2>5
<1> QED
  BY <1>1, Invariance, PTL

\* Whatever pair (start, end) a thread without the mutex can observe in one
\* state is either space of a single chunk or no space at all: the order of
\* the two stores of a refill is right for both relative positions of the new
\* chunk.
THEOREM NoPhantom == PoolAssumption => (Spec => []NoPhantomSpace)
<1> SUFFICES ASSUME PoolAssumption PROVE Spec => []NoPhantomSpace
  OBVIOUS
<1>1. ASSUME IInv PROVE NoPhantomSpace
  <2>1. start < end => Holds(current, start) /\ end = DataEnd(current)
    BY <1>1, SpaceIsReal DEF IInv, Pointers
  <2> QED
    BY <1>1, <2>1 DEF IInv, TypeOK, NoPhantomSpace, Holds
<1> QED
  BY <1>1, Invariance, PTL

\* What GlobalPool::allocate returns is memory of a chunk that nobody else has.
THEOREM Sound == PoolAssumption => (Spec => []GrantsSound)
<1> SUFFICES ASSUME PoolAssumption PROVE Spec => []GrantsSound
  OBVIOUS
<1>1. BlocksDisjoint /\ BlocksInChunks /\ NoPhantomSpace => GrantsSound
  BY DEF GrantsSound
<1> QED
  BY <1>1, NoByteTwice, InsideChunks, NoPhantom, PTL

=============================================================================
