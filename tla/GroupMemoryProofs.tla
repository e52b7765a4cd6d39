------------------------- MODULE GroupMemoryProofs --------------------------
(***************************************************************************)
(* Proofs about the memory of a worker: for any alignment, first sizes and *)
(* requests the blocks of Allocator are disjoint, aligned and inside their *)
(* region.  As long as no request comes closer than two alignments to      *)
(* twice the first chunk, ResetableAllocator uses its chunks again without *)
(* overlaps or overruns, whatever is allocated and however often the       *)
(* memory is reset (beyond that, ChunkHasSpace fails), and the groups in   *)
(* its chunks share no byte with anything else of the worker.              *)
(***************************************************************************)
EXTENDS GroupMemory, TLAPS

-----------------------------------------------------------------------------
(* Allocator *)

\* What is handed out of the current region ends before start, the blocks of
\* other regions are those of earlier ones; a new block begins at start or
\* later, or in a region of its own.
IInv ==
  /\ TypeOK
  /\ BlocksInRegion
  /\ \A b \in blocks : b.region <= region
  /\ BlocksApart

\* The distance to the next multiple.
LEMMA NextMultiple ==
  ASSUME NEW A \in Nat \ {0}, NEW x \in Nat
  PROVE  /\ x % A \in 0 .. A - 1
         /\ (x + (A - (x % A))) % A = 0
<1>1. x % A \in 0 .. A - 1
  BY SMT
<1>2. (x + (A - (x % A))) % A = 0
  BY SMT
<1> QED
  BY <1>1, <1>2

\* The padding leads to the next boundary.
LEMMA Padding ==
  ASSUME NEW b \in Nat, NEW s \in Nat
  PROVE  /\ aligndiff(b, s) \in 1 .. Align
         /\ (b + (s + aligndiff(b, s))) % Align = 0
<1>1. b + s \in Nat
  BY SMT
<1>2. /\ (b + s) % Align \in 0 .. Align - 1
      /\ ((b + s) + (Align - ((b + s) % Align))) % Align = 0
  BY <1>1, AlignAssumption, NextMultiple
<1>3. b + (s + aligndiff(b, s)) = (b + s) + (Align - ((b + s) % Align))
  BY <1>2, AlignAssumption, SMT DEF aligndiff
<1> QED
  BY <1>1, <1>2, <1>3, AlignAssumption, SMT DEF aligndiff

LEMMA InitInv == Init => IInv
<1> SUFFICES ASSUME Init PROVE IInv
  OBVIOUS
<1>1. TypeOK
  <2>1. base \in 0 .. Align - 1
    BY AlignAssumption, SMT DEF Init
  <2>2. allocSize \in Nat \ {0}
    BY SizeAssumption DEF Init
  <2>3. blocks \in SUBSET Block /\ hasSource \in BOOLEAN
    BY DEF Init
  <2>4. region \in Nat /\ regionSize \in Nat /\ start \in Nat /\ free \in Nat
    BY SMT DEF Init
  <2> QED
    BY <2>1, <2>2, <2>3, <2>4 DEF TypeOK
<1>2. BlocksInRegion /\ BlocksApart /\ \A b \in blocks : b.region <= region
  BY SMT DEF Init, BlocksInRegion, BlocksApart
<1> QED
  BY <1>1, <1>2 DEF IInv

\* A region of its own for what comes next: nothing in it yet.
LEMMA SetSourceInv == IInv /\ setSource => IInv'
<1> SUFFICES ASSUME IInv, setSource PROVE IInv'
  OBVIOUS
<1>1. TypeOK'
  BY AlignAssumption, SMT DEF IInv, TypeOK, setSource
<1>2. \A b \in blocks' : b.region < region'
  BY SMT DEF IInv, TypeOK, setSource, Block
<1>3. BlocksInRegion'
  BY <1>2, SMT DEF IInv, TypeOK, setSource, Block, BlocksInRegion
<1>4. BlocksApart'
  BY DEF IInv, setSource, BlocksApart
<1> QED
  BY <1>1, <1>2, <1>3, <1>4, SMT DEF IInv, TypeOK, Block

LEMMA BumpInv ==
  ASSUME NEW size \in Nat, IInv, Bump(size)
  PROVE  IInv'
<1> DEFINE d == aligndiff(base, start)
<1> DEFINE new == [region |-> region, from |-> start + d, size |-> size]
<1> USE DEF Bump
<1>1. /\ d \in 1 .. Align
      /\ (base + (start + d)) % Align = 0
  <2>1. base \in Nat /\ start \in Nat
    BY AlignAssumption, SMT DEF IInv, TypeOK
  <2> QED
    BY <2>1, Padding
<1>2. size \in Nat /\ region \in Nat /\ start \in Nat /\ free \in Nat
  BY SizeAssumption DEF IInv, TypeOK
<1> HIDE DEF d
<1>3. /\ blocks' = blocks \cup {new}
      /\ start' = start + size + d
      /\ free >= size + d
      /\ free' = free - (size + d)
      /\ UNCHANGED <<hasSource, allocSize, region, base, regionSize>>
  BY DEF d
<1>4. new \in Block
  BY <1>1, <1>2, SMT DEF Block
<1>5. start' \in Nat /\ free' \in Nat
  BY <1>1, <1>2, <1>3, AlignAssumption, SMT
<1>6. TypeOK'
  BY <1>3, <1>4, <1>5 DEF IInv, TypeOK
<1>7. \A b \in blocks : b.region = region => b.from + b.size <= start
  BY DEF IInv, BlocksInRegion
<1>8. BlocksInRegion'
  <2>1. start' + free' = regionSize' /\ start' <= regionSize'
    BY <1>1, <1>2, <1>3, <1>5, SMT DEF IInv, BlocksInRegion
  <2>2. ASSUME NEW b \in blocks', b.region = region'
        PROVE  (base' + b.from) % Align = 0 /\ b.from + b.size <= start'
    <3>1. CASE b = new
      BY <3>1, <1>1, <1>2, <1>3, SMT
    <3>2. CASE b \in blocks
      <4>1. b.from \in Nat /\ b.size \in Nat
        BY <3>2 DEF IInv, TypeOK, Block
      <4>2. (base + b.from) % Align = 0 /\ b.from + b.size <= start
        BY <3>2, <2>2, <1>3 DEF IInv, BlocksInRegion
      <4> QED
        BY <4>1, <4>2, <1>1, <1>2, <1>3, SMT
    <3> QED
      BY <3>1, <3>2, <1>3
  <2> QED
    BY <2>1, <2>2 DEF BlocksInRegion
<1>9. \A b \in blocks' : b.region <= region'
  BY <1>2, <1>3, SMT DEF IInv
<1>10. BlocksApart'
  <2> SUFFICES ASSUME NEW b \in blocks', NEW c \in blocks', b # c, b.region = c.region
               PROVE  b.from + b.size <= c.from \/ c.from + c.size <= b.from
    BY DEF BlocksApart
  <2>1. CASE b \in blocks /\ c \in blocks
    BY <2>1 DEF IInv, BlocksApart
  <2>2. ASSUME NEW x \in blocks, x.region = region
        PROVE  x.from + x.size <= new.from
    <3>1. x.from \in Nat /\ x.size \in Nat
      BY DEF IInv, TypeOK, Block
    <3> QED
      BY <3>1, <2>2, <1>1, <1>2, <1>7, SMT
  <2>3. CASE b = new \/ c = new
    BY <2>2, <2>3, <1>3
  <2> QED
    BY <2>1, <2>3, <1>3
<1> QED
  BY <1>6, <1>8, <1>9, <1>10 DEF IInv

LEMMA FetchInv ==
  ASSUME NEW size \in Nat, IInv, Fetch(size)
  PROVE  IInv'
<1> DEFINE wanted == size + aligndiff(base, start)
<1> DEFINE d == Align - ((base' + 0) % Align)
<1> DEFINE new == [region |-> region', from |-> d, size |-> size]
<1>1. base' \in 0 .. Align - 1 /\ base' \in Nat
  BY AlignAssumption, SMT DEF Fetch
<1>2. d \in 1 .. Align /\ (base' + (0 + d)) % Align = 0
  BY <1>1, Padding DEF aligndiff
<1>3. wanted \in Nat /\ size \in Nat /\ wanted >= size
  <2>1. size \in Nat
    BY SizeAssumption
  <2>2. base \in Nat /\ start \in Nat
    BY AlignAssumption, SMT DEF IInv, TypeOK
  <2>3. aligndiff(base, start) \in 1 .. Align
    BY <2>2, Padding
  <2> QED
    BY <2>1, <2>3, AlignAssumption, SMT
<1>4. /\ blocks' = blocks \cup {new}
      /\ start' = wanted + d
      /\ region' = region + 1
      /\ regionSize' = allocSize'
      /\ free' = allocSize' - (wanted + d)
      /\ allocSize' = larger(allocSize * 2, wanted + Align)
      /\ hasSource' = hasSource
  BY DEF Fetch, aligndiff
<1> HIDE DEF wanted, d
<1>5. region \in Nat /\ allocSize \in Nat \ {0}
  BY DEF IInv, TypeOK
<1>6. allocSize' \in Nat \ {0} /\ allocSize' >= wanted + Align
  BY <1>3, <1>4, <1>5, AlignAssumption, SMT DEF larger
<1>7. /\ start' \in Nat /\ free' \in Nat /\ region' \in Nat
      /\ start' + free' = regionSize' /\ start' <= regionSize'
  BY <1>2, <1>3, <1>4, <1>5, <1>6, AlignAssumption, SMT
<1>8. new \in Block
  BY <1>2, <1>3, <1>7, SMT DEF Block
<1>9. TypeOK'
  BY <1>1, <1>4, <1>6, <1>7, <1>8 DEF IInv, TypeOK
<1>10. \A b \in blocks : b.region < region'
  BY <1>4, <1>5, SMT DEF IInv, TypeOK, Block
<1>11. ASSUME NEW b \in blocks', b.region = region'
       PROVE  b = new
  BY <1>11, <1>10, <1>4, <1>7, SMT DEF IInv, TypeOK, Block
<1>12. BlocksInRegion'
  <2>1. new.from + new.size <= start' /\ (base' + new.from) % Align = 0
    BY <1>2, <1>3, <1>4, SMT
  <2> QED
    BY <2>1, <1>7, <1>11 DEF BlocksInRegion
<1>13. \A b \in blocks' : b.region <= region'
  BY <1>4, <1>5, <1>10, SMT DEF IInv, TypeOK, Block
<1>14. BlocksApart'
  <2> SUFFICES ASSUME NEW b \in blocks', NEW c \in blocks', b # c, b.region = c.region
               PROVE  b.from + b.size <= c.from \/ c.from + c.size <= b.from
    BY DEF BlocksApart
  <2>1. CASE b.region = region'
    BY <2>1, <1>11
  <2>2. CASE b.region # region'
    <3>1. b # new /\ c # new
      BY <2>2
    <3> QED
      BY <3>1, <1>4 DEF IInv, BlocksApart
  <2> QED
    BY <2>1, <2>2
<1> QED
  BY <1>9, <1>12, <1>13, <1>14 DEF IInv

LEMMA NextInv == IInv /\ [Next]_vars => IInv'
<1> SUFFICES ASSUME IInv, [Next]_vars PROVE IInv'
  OBVIOUS
<1>1. CASE setSource
  BY <1>1, SetSourceInv
<1>2. CASE leaveSource
  BY <1>2 DEF leaveSource, IInv, TypeOK, BlocksInRegion, BlocksApart
<1>3. CASE \E size \in Requests : hasSource /\ (Bump(size) \/ Fetch(size))
  BY <1>3, SizeAssumption, BumpInv, FetchInv
<1>4. CASE UNCHANGED vars
  BY <1>4 DEF vars, IInv, TypeOK, BlocksInRegion, BlocksApart
<1> QED
  BY <1>1, <1>2, <1>3, <1>4 DEF Next

\* In every behaviour the inductive invariant holds.
THEOREM Inductive == Spec => []IInv
  BY InitInv, NextInv, PTL DEF Spec

\* The counters of Allocator keep their types: free never wraps below zero.
THEOREM TypeCorrect == Spec => []TypeOK
<1>1. IInv => TypeOK
  BY DEF IInv
<1> QED
  BY <1>1, Inductive, PTL

\* Allocator::allocate never hands out a byte twice.
THEOREM BlocksNeverOverlap == Spec => []BlocksApart
<1>1. IInv => BlocksApart
  BY DEF IInv
<1> QED
  BY <1>1, Inductive, PTL

\* Blocks are aligned and end inside their region, for any alignment, sizes of
\* regions and requests.
THEOREM BlocksStayInside == Spec => []BlocksInRegion
<1>1. IInv => BlocksInRegion
  BY DEF IInv
<1> QED
  BY <1>1, Inductive, PTL

\* Allocator::allocate returns memory that nobody else has, for any alignment,
\* sizes of regions and requests.
THEOREM Sound == Spec => []BlocksSound
<1>1. BlocksApart /\ BlocksInRegion => BlocksSound
  BY DEF BlocksSound
<1> QED
  BY <1>1, BlocksNeverOverlap, BlocksStayInside, PTL

-----------------------------------------------------------------------------
(* ResetableAllocator *)

\* What the program's values satisfy: no request is above 4 MB - 128 bytes.
SmallRequests == \A r \in GroupSizes : r + Align + Align <= FirstChunk + FirstChunk

USE DEF Store!AlignAssumption, Store!SizeAssumption

\* All chunks but the first have twice its size.
ChunksLarge ==
  /\ storeAllocSize >= FirstChunk
  /\ chunks # <<>>
  /\ \A k \in DOMAIN chunks : chunks[k] < Word
  /\ \A k \in DOMAIN chunks : k > 1 => chunks[k] >= FirstChunk + FirstChunk

\* Blocks are in chunks up to the current one, and there before start.
BlocksBehind ==
  \A b \in groups : b.chunk <= current /\ (b.chunk = current => b.from + b.size <= storeStart)

StoreInv ==
  /\ Store!TypeOK
  /\ Header <= storeStart
  /\ ChunksLarge
  /\ BlocksBehind
  /\ Store!BlocksApart
  /\ Store!BlocksInChunk
  /\ Store!FreeExact

\* The padding leads to the next boundary.
LEMMA StorePadding ==
  ASSUME Store!AlignAssumption, NEW s \in Nat
  PROVE  Store!aligndiff(s) \in 1 .. Align /\ (s + Store!aligndiff(s)) % Align = 0
<1>1. s % Align \in 0 .. Align - 1
  BY Store!AlignAssumption, SMT
<1>2. (s + (Align - (s % Align))) % Align = 0
  BY Store!AlignAssumption, SMT
<1> QED
  BY <1>1, <1>2, Store!AlignAssumption, SMT DEF Store!aligndiff

\* What fits a word does not wrap.
LEMMA NoWrap ==
  ASSUME Store!SizeAssumption, NEW x \in Nat, x < Word
  PROVE  x % Word = x
  BY Store!SizeAssumption, SMT

LEMMA StoreInitInv == SmallRequests /\ Store!Init => StoreInv
<1> SUFFICES ASSUME Store!AlignAssumption, Store!SizeAssumption, Store!Init PROVE StoreInv
  BY StoreAssumption DEF SmallRequests
<1> USE DEF Store!Init
<1>1. FirstChunk \in Nat /\ Word \in Nat /\ FirstChunk < Word /\ Header \in Nat
  BY Store!SizeAssumption, Store!AlignAssumption, SMT
<1>2. DOMAIN chunks = {1} /\ chunks[1] = FirstChunk /\ chunks \in Seq(Nat)
  BY <1>1, SMT
<1>3. storeFree \in 0 .. Word - 1
  BY <1>1, SMT
<1>4. Store!TypeOK
  BY <1>1, <1>2, <1>3 DEF Store!TypeOK
<1>5. ChunksLarge
  BY <1>1, <1>2, SMT DEF ChunksLarge
<1>6. Store!FreeExact
  BY <1>1, <1>2, SMT DEF Store!FreeExact
<1>7. Header <= storeStart
  BY <1>1, SMT
<1> QED
  BY <1>4, <1>5, <1>6, <1>7 DEF StoreInv, BlocksBehind, Store!BlocksApart, Store!BlocksInChunk

LEMMA StoreBumpInv ==
  ASSUME Store!AlignAssumption, Store!SizeAssumption, NEW size \in GroupSizes, StoreInv, Store!Bump(size)
  PROVE  StoreInv'
<1> DEFINE d == Store!aligndiff(storeStart)
<1> DEFINE new == [chunk |-> current, from |-> storeStart + d, size |-> size]
<1>1. /\ size \in Nat /\ storeStart \in Nat /\ storeFree \in Nat /\ storeFree < Word /\ Header \in Nat /\ Header <= storeStart
      /\ current \in DOMAIN chunks /\ chunks[current] \in Nat
      /\ storeStart + storeFree = Header + chunks[current]
  <2>1. chunks[current] \in Nat
    BY SMT DEF StoreInv, Store!TypeOK
  <2> QED
    BY <2>1, Store!SizeAssumption, Store!AlignAssumption, SMT DEF StoreInv, Store!TypeOK, Store!FreeExact
<1>2. d \in 1 .. Align /\ (storeStart + d) % Align = 0
  BY <1>1, StorePadding
<1> HIDE DEF d
<1>3. /\ storeFree >= size + d
      /\ groups' = groups \cup {new}
      /\ storeStart' = storeStart + (size + d)
      /\ storeFree' = storeFree - (size + d)
      /\ storeAllocSize' = storeAllocSize /\ chunks' = chunks /\ current' = current
  BY DEF Store!Bump, Store!wanted, d
<1>4. /\ storeStart' \in Nat /\ storeFree' \in 0 .. Word - 1
      /\ storeStart' + storeFree' = Header + chunks[current]
      /\ new.from \in Nat /\ new.from >= storeStart /\ new.from + new.size = storeStart' /\ storeStart <= storeStart'
  <2>1. storeStart + d \in Nat /\ storeStart + d >= storeStart /\ storeStart <= storeStart' /\ (storeStart + d) + size = storeStart'
    BY <1>1, <1>2, <1>3, Store!AlignAssumption, SMT
  <2>2. new.from = storeStart + d /\ new.size = size
    OBVIOUS
  <2>3. storeStart' \in Nat /\ storeFree' \in 0 .. Word - 1
    BY <1>1, <1>2, <1>3, Store!AlignAssumption, Store!SizeAssumption, SMT
  <2>4. storeStart' + storeFree' = Header + chunks[current]
    BY <1>1, <1>2, <1>3, Store!AlignAssumption, SMT
  <2> QED
    BY <2>1, <2>2, <2>3, <2>4
<1>5. new.chunk = current /\ new.size = size /\ new.from % Align = 0
  BY <1>2
<1>6. Store!TypeOK'
  <2>1. new \in [chunk : DOMAIN chunks, from : Nat, size : Nat]
    BY <1>1, <1>4
  <2> QED
    BY <2>1, <1>3, <1>4 DEF StoreInv, Store!TypeOK
<1>7. ASSUME NEW x \in groups
      PROVE  /\ x.from \in Nat /\ x.size \in Nat /\ x.chunk <= current
             /\ x.chunk = current => x.from + x.size <= storeStart
             /\ x.from % Align = 0 /\ x.from + x.size <= Header + chunks[x.chunk]
  BY DEF StoreInv, Store!TypeOK, BlocksBehind, Store!BlocksInChunk
<1>8. BlocksBehind'
  <2> SUFFICES ASSUME NEW b \in groups'
               PROVE  b.chunk <= current' /\ (b.chunk = current' => b.from + b.size <= storeStart')
    BY DEF BlocksBehind
  <2>1. CASE b \in groups
    BY <2>1, <1>1, <1>3, <1>4, <1>7, SMT
  <2>2. CASE b = new
    <3>1. current <= current
      BY <1>1, SMT DEF StoreInv, Store!TypeOK
    <3> QED
      BY <2>2, <3>1, <1>1, <1>3, <1>4, SMT
  <2> QED
    BY <2>1, <2>2, <1>3
<1>9. Store!BlocksApart'
  <2> SUFFICES ASSUME NEW b \in groups', NEW c \in groups', b # c, b.chunk = c.chunk
               PROVE  b.from + b.size <= c.from \/ c.from + c.size <= b.from
    BY DEF Store!BlocksApart
  <2>1. CASE b \in groups /\ c \in groups
    BY <2>1 DEF StoreInv, Store!BlocksApart
  <2>2. ASSUME NEW x \in groups, x.chunk = new.chunk
        PROVE  x.from + x.size <= new.from
    BY <2>2, <1>1, <1>4, <1>5, <1>7, SMT
  <2> QED
    BY <2>1, <2>2, <1>3
<1>10. Store!BlocksInChunk'
  <2> SUFFICES ASSUME NEW b \in groups'
               PROVE  b.from % Align = 0 /\ b.from + b.size <= Header + chunks[b.chunk]
    BY <1>3 DEF Store!BlocksInChunk
  <2>1. CASE b \in groups
    BY <2>1, <1>7
  <2>2. CASE b = new
    BY <2>2, <1>1, <1>4, <1>5, SMT
  <2> QED
    BY <2>1, <2>2, <1>3
<1>11. ChunksLarge' /\ Store!FreeExact' /\ Header <= storeStart'
  <2>1. ChunksLarge' /\ Store!FreeExact'
    BY <1>3, <1>4 DEF StoreInv, ChunksLarge, Store!FreeExact
  <2> QED
    BY <2>1, <1>1, <1>4, SMT
<1> QED
  BY <1>6, <1>8, <1>9, <1>10, <1>11 DEF StoreInv

\* The step to another chunk, old or new, that no block is in yet.
LEMMA StoreEnterInv ==
  ASSUME SmallRequests, StoreInv,
         NEW size \in GroupSizes, NEW k \in DOMAIN chunks', k > current,
         chunks' \in Seq(Nat), storeAllocSize' \in Nat, ChunksLarge',
         \A j \in DOMAIN chunks : j \in DOMAIN chunks' /\ chunks'[j] = chunks[j],
         Store!EnterChunk(k, size)
  PROVE  StoreInv'
<1>0. Store!AlignAssumption /\ Store!SizeAssumption /\ size + Align + Align <= FirstChunk + FirstChunk
  BY Zenon, StoreAssumption DEF SmallRequests
<1> USE <1>0
<1> DEFINE d == Store!aligndiff(storeStart)
<1> DEFINE e == Store!aligndiff(Header)
<1> DEFINE new == [chunk |-> k, from |-> Header + e, size |-> size]
<1>1. /\ size \in Nat /\ storeStart \in Nat /\ Header \in Nat /\ Align \in Nat
      /\ size + Align + Align <= FirstChunk + FirstChunk
  BY Store!SizeAssumption, Store!AlignAssumption, SMT DEF StoreInv, Store!TypeOK
<1>2. /\ current \in Nat /\ current >= 1 /\ k \in Nat /\ k > current /\ k > 1
      /\ chunks'[k] \in Nat /\ chunks'[k] < Word /\ chunks'[k] >= FirstChunk + FirstChunk
  <2>1. current \in Nat /\ current >= 1 /\ k \in Nat /\ chunks'[k] \in Nat
    BY SMT DEF StoreInv, Store!TypeOK
  <2>2. k > 1
    BY <2>1, SMT
  <2> QED
    BY <2>1, <2>2 DEF ChunksLarge
<1>3. d \in 1 .. Align /\ e \in 1 .. Align /\ (Header + e) % Align = 0
  BY <1>1, StorePadding
<1> HIDE DEF d, e
<1>4. FirstChunk \in Nat /\ Word \in Nat
  BY Store!SizeAssumption, SMT
<1>5. /\ current' = k
      /\ groups' = groups \cup {new}
      /\ storeStart' = Header + ((size + d) + e)
      /\ storeFree' = (chunks'[k] - ((size + d) + e)) % Word
  BY DEF Store!EnterChunk, Store!wanted, d, e
<1>6. chunks'[k] - ((size + d) + e) \in Nat /\ chunks'[k] - ((size + d) + e) < Word
  BY <1>1, <1>2, <1>3, <1>4, SMT
<1>7. storeFree' = chunks'[k] - ((size + d) + e)
  BY <1>5, <1>6, NoWrap
<1>8. /\ storeStart' \in Nat /\ Header <= storeStart' /\ storeFree' \in 0 .. Word - 1
      /\ storeStart' + storeFree' = Header + chunks'[k]
      /\ new.from \in Nat /\ new.from + new.size \in Nat /\ new.from + new.size <= storeStart'
  <2>1. Header + e \in Nat /\ (Header + e) + size \in Nat /\ (Header + e) + size <= storeStart' /\ storeStart' \in Nat /\ Header <= storeStart'
    BY <1>1, <1>3, <1>5, SMT
  <2>2. new.from = Header + e /\ new.size = size
    OBVIOUS
  <2>3. storeFree' \in 0 .. Word - 1
    BY <1>4, <1>6, <1>7, SMT
  <2>4. storeStart' + storeFree' = Header + chunks'[k]
    BY <1>1, <1>2, <1>3, <1>5, <1>7, SMT
  <2> QED
    BY <2>1, <2>2, <2>3, <2>4
<1>9. new.chunk = k /\ new.size = size /\ new.from % Align = 0
  BY <1>3
<1>10. ASSUME NEW x \in groups
       PROVE  /\ x.from \in Nat /\ x.size \in Nat /\ x.chunk \in DOMAIN chunks' /\ x.chunk < k
              /\ x.from % Align = 0 /\ x.from + x.size <= Header + chunks'[x.chunk]
  <2>1. x.chunk \in DOMAIN chunks /\ x.from \in Nat /\ x.size \in Nat /\ x.chunk <= current
    BY DEF StoreInv, Store!TypeOK, BlocksBehind
  <2>2. x.chunk \in Nat
    BY <2>1, SMT DEF StoreInv, Store!TypeOK
  <2>3. x.chunk < k
    BY <2>1, <2>2, <1>2, SMT
  <2> QED
    BY <2>1, <2>3 DEF StoreInv, Store!BlocksInChunk
<1>11. Store!TypeOK'
  <2>1. new \in [chunk : DOMAIN chunks', from : Nat, size : Nat]
    BY <1>1, <1>8
  <2>2. groups' \in SUBSET [chunk : DOMAIN chunks', from : Nat, size : Nat]
    BY <2>1, <1>5, <1>10 DEF StoreInv, Store!TypeOK
  <2> QED
    BY <2>2, <1>5, <1>8 DEF Store!TypeOK
<1>12. BlocksBehind'
  <2> SUFFICES ASSUME NEW b \in groups'
               PROVE  b.chunk <= k /\ (b.chunk = k => b.from + b.size <= storeStart')
    BY <1>5 DEF BlocksBehind
  <2>1. CASE b \in groups
    <3>1. b.chunk \in Nat
      BY <2>1, SMT DEF StoreInv, Store!TypeOK
    <3> QED
      BY <2>1, <3>1, <1>2, <1>10, SMT
  <2>2. CASE b = new
    BY <2>2, <1>2, <1>8, <1>9, SMT
  <2> QED
    BY <2>1, <2>2, <1>5
<1>13. ASSUME NEW x \in groups
       PROVE  x.chunk # new.chunk
  BY <1>2, <1>9, <1>10, SMT DEF StoreInv, Store!TypeOK
<1>14. Store!BlocksApart'
  <2> SUFFICES ASSUME NEW b \in groups', NEW c \in groups', b # c, b.chunk = c.chunk
               PROVE  b.from + b.size <= c.from \/ c.from + c.size <= b.from
    BY DEF Store!BlocksApart
  <2>1. b \in groups /\ c \in groups
    BY <1>5, <1>13
  <2> QED
    BY <2>1 DEF StoreInv, Store!BlocksApart
<1>15. Store!BlocksInChunk'
  <2> SUFFICES ASSUME NEW b \in groups'
               PROVE  b.from % Align = 0 /\ b.from + b.size <= Header + chunks'[b.chunk]
    BY DEF Store!BlocksInChunk
  <2>1. CASE b \in groups
    BY <2>1, <1>10
  <2>2. CASE b = new
    <3>1. new.from + new.size <= Header + chunks'[k]
      <4>1. storeStart' <= Header + chunks'[k]
        <5>1. storeFree' \in Nat
          BY <1>6, <1>7
        <5>2. storeStart' + storeFree' = Header + chunks'[k] /\ storeStart' \in Nat
          BY <1>8
        <5> QED
          BY <5>1, <5>2, SMT
      <4>2. /\ new.from + new.size \in Nat /\ new.from + new.size <= storeStart' /\ storeStart' \in Nat
            /\ Header + chunks'[k] \in Nat
        <5>1. Header + chunks'[k] \in Nat
          BY <1>1, <1>2, SMT
        <5> QED
          BY <5>1, <1>8
      <4> HIDE DEF new
      <4> QED
        BY <4>1, <4>2, SMT
    <3> QED
      BY <2>2, <3>1, <1>9
  <2> QED
    BY <2>1, <2>2, <1>5
<1>16. Store!FreeExact'
  BY <1>5, <1>8 DEF Store!FreeExact
<1> QED
  BY <1>8, <1>11, <1>12, <1>14, <1>15, <1>16 DEF StoreInv

LEMMA StoreReuseInv ==
  ASSUME SmallRequests, StoreInv, NEW size \in GroupSizes, Store!Reuse(size)
  PROVE  StoreInv'
<1>1. PICK k \in Store!Fitting(size) : Store!EnterChunk(k, size)
  BY DEF Store!Reuse
<1>2. k \in DOMAIN chunks /\ k > current
  BY SMT DEF Store!Fitting, StoreInv, Store!TypeOK
<1>3. storeAllocSize' = storeAllocSize /\ chunks' = chunks
  BY DEF Store!Reuse
<1> QED
  BY <1>1, <1>2, <1>3, StoreEnterInv DEF StoreInv, Store!TypeOK, ChunksLarge

LEMMA StoreCreateInv ==
  ASSUME SmallRequests, StoreInv, NEW size \in GroupSizes, Store!Create(size)
  PROVE  StoreInv'
<1>0. Store!AlignAssumption /\ Store!SizeAssumption
  BY StoreAssumption DEF SmallRequests
<1> USE <1>0
<1>1. /\ storeAllocSize' = Store!larger(storeAllocSize * 2, Store!wanted(size)) /\ storeAllocSize' < Word
      /\ chunks' = Append(chunks, storeAllocSize')
      /\ Store!EnterChunk(Len(chunks'), size)
  BY DEF Store!Create
<1>2. FirstChunk \in Nat /\ size \in Nat /\ storeAllocSize \in Nat /\ storeAllocSize >= FirstChunk /\ storeStart \in Nat
  BY Store!SizeAssumption, SMT DEF StoreInv, Store!TypeOK, ChunksLarge
<1>3. Store!wanted(size) \in Nat
  <2>1. Store!aligndiff(storeStart) \in 1 .. Align
    BY <1>2, StorePadding
  <2> QED
    BY <2>1, <1>2, Store!AlignAssumption, SMT DEF Store!wanted
<1>4. storeAllocSize' \in Nat /\ storeAllocSize' >= FirstChunk + FirstChunk /\ storeAllocSize' >= FirstChunk
  BY <1>1, <1>2, <1>3, SMT DEF Store!larger
<1>5. /\ chunks' \in Seq(Nat) /\ Len(chunks') = Len(chunks) + 1 /\ chunks' # <<>>
      /\ Len(chunks') \in DOMAIN chunks' /\ Len(chunks') > current
      /\ \A j \in DOMAIN chunks : j \in DOMAIN chunks' /\ chunks'[j] = chunks[j]
      /\ \A j \in DOMAIN chunks' : j \in DOMAIN chunks \/ chunks'[j] = storeAllocSize'
  <2>1. chunks \in Seq(Nat) /\ current \in DOMAIN chunks
    BY DEF StoreInv, Store!TypeOK
  <2>2. chunks' \in Seq(Nat) /\ Len(chunks') = Len(chunks) + 1
    BY <1>1, <1>4, <2>1, SMT
  <2>3. DOMAIN chunks = 1 .. Len(chunks) /\ DOMAIN chunks' = 1 .. Len(chunks') /\ Len(chunks) \in Nat
    BY <2>1, <2>2, SMT
  <2>4. \A j \in 1 .. Len(chunks) : chunks'[j] = chunks[j]
    BY <1>1, <1>4, <2>1, SMT
  <2>5. chunks'[Len(chunks) + 1] = storeAllocSize'
    BY <1>1, <1>4, <2>1, SMT
  <2>6. /\ Len(chunks') \in DOMAIN chunks' /\ Len(chunks') > current /\ chunks' # <<>>
        /\ \A j \in DOMAIN chunks : j \in DOMAIN chunks'
        /\ \A j \in DOMAIN chunks' : j \in DOMAIN chunks \/ j = Len(chunks) + 1
    BY <2>1, <2>2, <2>3, SMT
  <2> QED
    BY <2>2, <2>3, <2>4, <2>5, <2>6
<1>6. ChunksLarge'
  <2>1. ASSUME NEW j \in DOMAIN chunks'
        PROVE  chunks'[j] < Word /\ (j > 1 => chunks'[j] >= FirstChunk + FirstChunk)
    BY <1>1, <1>4, <1>5 DEF StoreInv, ChunksLarge
  <2> QED
    BY <2>1, <1>4, <1>5 DEF ChunksLarge
<1> QED
  BY <1>1, <1>4, <1>5, <1>6, StoreEnterInv

LEMMA StoreResetInv == SmallRequests /\ StoreInv /\ Store!reset => StoreInv'
<1> SUFFICES ASSUME Store!AlignAssumption, Store!SizeAssumption, StoreInv, Store!reset PROVE StoreInv'
  BY StoreAssumption DEF SmallRequests
<1> USE DEF Store!reset
<1>1. 1 \in DOMAIN chunks /\ chunks[1] \in Nat /\ chunks[1] < Word
  BY SMT DEF StoreInv, Store!TypeOK, ChunksLarge
<1>2. Store!TypeOK'
  <2>1. storeFree' \in 0 .. Word - 1
    BY <1>1, Store!SizeAssumption, SMT
  <2>2. Header \in Nat
    BY Store!AlignAssumption
  <2> QED
    BY <2>1, <2>2, <1>1 DEF StoreInv, Store!TypeOK
<1>3. ChunksLarge' /\ Store!FreeExact'
  BY DEF StoreInv, ChunksLarge, Store!FreeExact
<1>4. Header <= storeStart'
  BY Store!AlignAssumption, SMT
<1> QED
  BY <1>2, <1>3, <1>4 DEF StoreInv, BlocksBehind, Store!BlocksApart, Store!BlocksInChunk

LEMMA StoreNextInv == SmallRequests /\ StoreInv /\ [Store!Next]_(Store!vars) => StoreInv'
<1> SUFFICES ASSUME SmallRequests, StoreInv, [Store!Next]_(Store!vars) PROVE StoreInv'
  OBVIOUS
<1>1. CASE Store!reset
  BY <1>1, StoreResetInv
<1>2. CASE \E size \in GroupSizes : Store!Bump(size) \/ Store!Reuse(size) \/ Store!Create(size)
  BY <1>2, StoreBumpInv, StoreReuseInv, StoreCreateInv, StoreAssumption
<1>3. CASE UNCHANGED Store!vars
  BY <1>3 DEF Store!vars, StoreInv, Store!TypeOK, ChunksLarge, BlocksBehind, Store!BlocksApart, Store!BlocksInChunk, Store!FreeExact
<1> QED
  BY <1>1, <1>2, <1>3 DEF Store!Next

\* In every behaviour with small requests the inductive invariant holds.
THEOREM StoreInductive == SmallRequests => (Store!Spec => []StoreInv)
<1> SUFFICES ASSUME SmallRequests PROVE Store!Spec => []StoreInv
  OBVIOUS
<1>1. StoreInv /\ [Store!Next]_(Store!vars) => StoreInv'
  BY StoreNextInv
<1> QED
  BY StoreInitInv, <1>1, PTL DEF Store!Spec

\* With small requests ResetableAllocator::allocate hands out no byte twice
\* between two resets.
THEOREM NoByteTwice == SmallRequests => (Store!Spec => []Store!BlocksApart)
<1>1. StoreInv => Store!BlocksApart
  BY DEF StoreInv
<1> QED
  BY <1>1, StoreInductive, PTL

\* With small requests every block ends inside its chunk.
THEOREM InsideChunks == SmallRequests => (Store!Spec => []Store!BlocksInChunk)
<1>1. StoreInv => Store!BlocksInChunk
  BY DEF StoreInv
<1> QED
  BY <1>1, StoreInductive, PTL

\* With small requests the free space never wraps below zero.
THEOREM FreeNeverWraps == SmallRequests => (Store!Spec => []Store!FreeExact)
<1>1. StoreInv => Store!FreeExact
  BY DEF StoreInv
<1> QED
  BY <1>1, StoreInductive, PTL

-----------------------------------------------------------------------------
(* The store in the memory of its worker *)

\* What allocate() returns is a new block of the size asked for.
LEMMA Allocated ==
  ASSUME IInv, NEW size \in Nat, Allocate(size)
  PROVE  /\ IInv' /\ NewBlock \notin blocks /\ NewBlock.size = size
         /\ blocks' = blocks \cup {NewBlock}
<1>1. IInv'
  BY BumpInv, FetchInv DEF Allocate
<1>2. \E new \in Block : new \notin blocks /\ new.size = size /\ blocks' = blocks \cup {new}
  <2>1. CASE Bump(size)
    <3> DEFINE d == aligndiff(base, start)
               new == [region |-> region, from |-> start + d, size |-> size]
    <3>1. base \in Nat /\ start \in Nat /\ region \in Nat
      BY AlignAssumption DEF IInv, TypeOK
    <3>2. d \in 1 .. Align
      BY <3>1, Padding
    <3>3. blocks' = blocks \cup {new}
      BY <2>1 DEF Bump
    <3> HIDE DEF d
    <3>4. start + d \in Nat /\ start + d > start
      BY <3>1, <3>2, AlignAssumption
    <3>5. new \in Block
      BY <3>1, <3>4 DEF Block
    <3>6. new \notin blocks
      <4> SUFFICES ASSUME new \in blocks PROVE FALSE
        OBVIOUS
      <4>1. new.from + new.size <= start
        BY DEF IInv, BlocksInRegion
      <4>2. (start + d) + size <= start
        BY <4>1
      <4> QED
        BY <3>1, <3>4, <4>2
    <3> QED
      BY <3>3, <3>5, <3>6
  <2>2. CASE Fetch(size)
    <3> DEFINE d == Align - ((base' + 0) % Align)
               new == [region |-> region', from |-> d, size |-> size]
    <3>1. base' \in 0 .. Align - 1 /\ base' \in Nat
      BY <2>2, AlignAssumption DEF Fetch
    <3>2. d \in 1 .. Align /\ d \in Nat
      <4>1. d \in 1 .. Align
        BY <3>1, Padding DEF aligndiff
      <4> QED
        BY <4>1, AlignAssumption
    <3>3. blocks' = blocks \cup {new} /\ region' = region + 1
      BY <2>2 DEF Fetch, aligndiff
    <3> HIDE DEF d
    <3>4. region \in Nat /\ \A b \in blocks : b.region \in Nat /\ b.region <= region
      BY DEF IInv, TypeOK, Block
    <3>5. new \in Block /\ new.region = region + 1
      BY <3>2, <3>3, <3>4 DEF Block
    <3>6. new \notin blocks
      <4> SUFFICES ASSUME new \in blocks PROVE FALSE
        OBVIOUS
      <4>1. new.region <= region
        BY <3>4
      <4> QED
        BY <3>4, <3>5, <4>1
    <3> QED
      BY <3>3, <3>5, <3>6
  <2> QED
    BY <2>1, <2>2 DEF Allocate
<1>3. PICK new \in Block : new \notin blocks /\ new.size = size /\ blocks' = blocks \cup {new}
  BY <1>2
<1>4. NewBlock = new
  BY <1>3 DEF NewBlock
<1> QED
  BY <1>1, <1>3, <1>4

\* Sizes of chunks are numbers of the machine, whatever is requested.
StoreTyped == Store!TypeOK /\ \A k \in DOMAIN chunks : chunks[k] < Word

LEMMA StoreTypes ==
  /\ Store!Init => StoreTyped
  /\ StoreTyped /\ [Store!Next]_(Store!vars) => StoreTyped'
<1> USE StoreAssumption
<1>0. /\ Header \in Nat /\ Align \in Nat /\ FirstChunk \in Nat /\ FirstChunk < Word /\ Word \in Nat \ {0}
      /\ \A m \in Int : m % Word \in 0 .. Word - 1
  OBVIOUS
<1>1. ASSUME Store!Init PROVE StoreTyped
  <2>1. DOMAIN chunks = {1} /\ chunks \in Seq(Nat) /\ chunks[1] < Word
    BY <1>0, <1>1 DEF Store!Init
  <2>2. storeFree \in 0 .. Word - 1 /\ storeAllocSize \in Nat /\ storeStart \in Nat
    BY <1>0, <1>1 DEF Store!Init
  <2> QED
    BY <1>1, <2>1, <2>2 DEF Store!Init, Store!TypeOK, StoreTyped
<1>2. ASSUME Store!TypeOK, NEW size \in GroupSizes
      PROVE  /\ size \in Nat /\ storeStart \in Nat /\ Store!aligndiff(storeStart) \in Nat
             /\ Store!aligndiff(Header) \in Nat /\ Store!wanted(size) \in Nat
  <2>1. size \in Nat /\ storeStart \in Nat
    BY <1>2 DEF Store!TypeOK
  <2>2. Store!aligndiff(storeStart) \in 1 .. Align /\ Store!aligndiff(Header) \in 1 .. Align
    BY <1>0, <2>1, StorePadding
  <2>3. Store!aligndiff(storeStart) \in Nat /\ Store!aligndiff(Header) \in Nat
    BY <1>0, <2>2
  <2>4. Store!wanted(size) \in Nat
    BY <2>1, <2>3 DEF Store!wanted
  <2> QED
    BY <2>1, <2>3, <2>4
<1>3. ASSUME StoreTyped, Store!reset PROVE StoreTyped'
  <2>1. chunks # <<>> /\ chunks \in Seq(Nat)
    BY <1>3 DEF Store!TypeOK, StoreTyped
  <2>2. 1 \in DOMAIN chunks /\ chunks[1] \in Nat
    BY <2>1
  <2>3. chunks[1] \in 0 .. Word - 1
    BY <1>0, <1>3, <2>2 DEF StoreTyped
  <2> QED
    BY <1>0, <1>3, <2>2, <2>3 DEF Store!reset, Store!TypeOK, StoreTyped
<1>4. ASSUME StoreTyped, NEW size \in GroupSizes, Store!Bump(size) PROVE StoreTyped'
  <2> DEFINE d == Store!aligndiff(storeStart)
             new == [chunk |-> current, from |-> storeStart + d, size |-> size]
  <2>1. /\ storeFree >= size + d /\ groups' = groups \cup {new}
        /\ storeStart' = storeStart + (size + d) /\ storeFree' = storeFree - (size + d)
        /\ UNCHANGED <<storeAllocSize, chunks, current>>
    BY <1>4 DEF Store!Bump, Store!wanted
  <2>2. size \in Nat /\ storeStart \in Nat /\ d \in Nat
    BY <1>2, <1>4 DEF StoreTyped
  <2> HIDE DEF d
  <2>3. storeStart' \in Nat /\ storeFree' \in 0 .. Word - 1 /\ storeStart + d \in Nat
    BY <1>0, <1>4, <2>1, <2>2 DEF StoreTyped, Store!TypeOK
  <2>4. new \in [chunk : DOMAIN chunks, from : Nat, size : Nat]
    BY <1>4, <2>2, <2>3 DEF StoreTyped, Store!TypeOK
  <2> QED
    BY <1>4, <2>1, <2>3, <2>4 DEF StoreTyped, Store!TypeOK
<1>5. ASSUME StoreTyped, NEW size \in GroupSizes, NEW k \in DOMAIN chunks', Store!EnterChunk(k, size),
             chunks' \in Seq(Nat), storeAllocSize' \in Nat, DOMAIN chunks \subseteq DOMAIN chunks',
             \A j \in DOMAIN chunks' : chunks'[j] < Word
      PROVE  StoreTyped'
  <2> DEFINE e == Store!aligndiff(Header)
             total == Store!wanted(size) + e
             new == [chunk |-> k, from |-> Header + e, size |-> size]
  <2>1. /\ current' = k /\ groups' = groups \cup {new}
        /\ storeStart' = Header + total /\ storeFree' = (chunks'[k] - total) % Word
    BY <1>5 DEF Store!EnterChunk
  <2>2. size \in Nat /\ e \in Nat /\ total \in Nat
    <3>1. size \in Nat /\ e \in Nat /\ Store!wanted(size) \in Nat
      BY <1>2, <1>5 DEF StoreTyped
    <3> QED
      BY <3>1
  <2> HIDE DEF e, total
  <2>3. chunks'[k] - total \in Int
    BY <1>5, <2>2
  <2>4. storeFree' \in 0 .. Word - 1 /\ storeStart' \in Nat /\ Header + e \in Nat
    BY <1>0, <2>1, <2>2, <2>3
  <2>5. new \in [chunk : DOMAIN chunks', from : Nat, size : Nat]
    BY <1>5, <2>2, <2>4
  <2>6. groups' \in SUBSET [chunk : DOMAIN chunks', from : Nat, size : Nat]
    BY <1>5, <2>1, <2>5 DEF StoreTyped, Store!TypeOK
  <2> QED
    BY <1>5, <2>1, <2>4, <2>6 DEF StoreTyped, Store!TypeOK
<1>6. ASSUME StoreTyped, NEW size \in GroupSizes, Store!Reuse(size) PROVE StoreTyped'
  <2>1. PICK k \in Store!Fitting(size) : Store!EnterChunk(k, size)
    BY <1>6 DEF Store!Reuse
  <2>2. k \in DOMAIN chunks
    BY <1>6 DEF Store!Fitting, StoreTyped, Store!TypeOK
  <2>3. chunks' = chunks /\ storeAllocSize' = storeAllocSize
    BY <1>6 DEF Store!Reuse
  <2> QED
    BY <1>5, <1>6, <2>1, <2>2, <2>3 DEF StoreTyped, Store!TypeOK
<1>7. ASSUME StoreTyped, NEW size \in GroupSizes, Store!Create(size) PROVE StoreTyped'
  <2>1. /\ storeAllocSize' = Store!larger(storeAllocSize * 2, Store!wanted(size))
        /\ storeAllocSize' < Word /\ chunks' = Append(chunks, storeAllocSize')
        /\ Store!EnterChunk(Len(chunks'), size)
    BY <1>7 DEF Store!Create
  <2>2. storeAllocSize' \in Nat /\ chunks \in Seq(Nat)
    BY <1>2, <1>7, <2>1 DEF StoreTyped, Store!TypeOK, Store!larger
  <2>3. /\ chunks' \in Seq(Nat) /\ Len(chunks') \in DOMAIN chunks' /\ DOMAIN chunks \subseteq DOMAIN chunks'
        /\ \A j \in DOMAIN chunks' : (j \in DOMAIN chunks /\ chunks'[j] = chunks[j]) \/ chunks'[j] = storeAllocSize'
    BY <2>1, <2>2
  <2>4. \A j \in DOMAIN chunks' : chunks'[j] < Word
    BY <1>7, <2>1, <2>3 DEF StoreTyped
  <2> QED
    BY <1>5, <1>7, <2>1, <2>2, <2>3, <2>4
<1>8. ASSUME StoreTyped, UNCHANGED Store!vars PROVE StoreTyped'
  BY <1>8 DEF StoreTyped, Store!TypeOK, Store!vars
<1> QED
  BY <1>1, <1>3, <1>4, <1>6, <1>7, <1>8 DEF Store!Next

\* Each chunk of the store is a block of its own, of its size with the header; a store
\* that is not attached is empty.
HomesInv ==
  /\ homes \in Seq(blocks)
  /\ homes = <<>> => Store!Init
  /\ homes # <<>> => Len(homes) = Len(chunks)
  /\ \A i \in DOMAIN homes : homes[i].size = chunks[i] + Header
  /\ \A i, j \in DOMAIN homes : i # j => homes[i] # homes[j]

\* The inductive invariant for any requests.
MemoryInv == IInv /\ StoreTyped /\ HomesInv

LEMMA MemoryInitInv == MemoryInit => MemoryInv
<1> SUFFICES ASSUME MemoryInit PROVE MemoryInv
  OBVIOUS
<1>1. Init /\ Store!Init /\ homes = <<>>
  BY DEF MemoryInit
<1>2. DOMAIN homes = {} /\ homes \in Seq(blocks)
  BY <1>1
<1> QED
  BY <1>1, <1>2, InitInv, StoreTypes DEF MemoryInv, HomesInv

\* More blocks of others do not touch the chunks.
LEMMA HomesKept ==
  ASSUME HomesInv, blocks \subseteq blocks', homes' = homes, UNCHANGED storeVars \/ (homes # <<>> /\ UNCHANGED chunks)
  PROVE  HomesInv'
<1>1. homes' \in Seq(blocks') /\ DOMAIN homes' = DOMAIN homes
  BY DEF HomesInv
<1>2. chunks' = chunks
  BY DEF storeVars
<1>3. homes' = <<>> => Store!Init'
  BY DEF HomesInv, storeVars, Store!Init
<1> QED
  BY <1>1, <1>2, <1>3 DEF HomesInv

LEMMA AttachStoreInv ==
  ASSUME MemoryInv, AttachStore
  PROVE  MemoryInv'
<1>0. /\ homes = <<>> /\ Allocate(FirstChunk + Header) /\ homes' = <<NewBlock>>
      /\ UNCHANGED storeVars
  BY DEF AttachStore
<1>1. FirstChunk + Header \in Nat /\ FirstChunk \in Nat /\ Header \in Nat
  BY StoreAssumption
<1>2. /\ IInv' /\ NewBlock.size = FirstChunk + Header /\ NewBlock \in blocks'
      /\ blocks' = blocks \cup {NewBlock}
  BY <1>0, <1>1, Allocated DEF MemoryInv
<1>3. chunks' = <<FirstChunk>>
  BY <1>0 DEF MemoryInv, HomesInv, Store!Init, storeVars
<1> HIDE DEF NewBlock
<1>4. homes' \in Seq(blocks') /\ DOMAIN homes' = {1} /\ Len(homes') = 1 /\ homes'[1] = NewBlock /\ homes' # <<>>
  BY <1>0, <1>2
<1>5. Len(chunks') = 1 /\ chunks'[1] = FirstChunk
  BY <1>3
<1>6. HomesInv'
  BY <1>2, <1>4, <1>5 DEF HomesInv
<1>7. StoreTyped'
  BY <1>0, StoreTypes DEF MemoryInv, storeVars, Store!vars
<1> QED
  BY <1>2, <1>6, <1>7 DEF MemoryInv

LEMMA GrowStoreInv ==
  ASSUME MemoryInv, GrowStore
  PROVE  MemoryInv'
<1>0. /\ homes # <<>> /\ Allocate(storeAllocSize' + Header) /\ homes' = Append(homes, NewBlock)
  BY DEF GrowStore
<1>1. PICK size \in GroupSizes : Store!Create(size)
  BY DEF GrowStore
<1>2. StoreTyped'
  BY <1>1, StoreTypes DEF MemoryInv, Store!Next
<1>3. storeAllocSize' \in Nat /\ storeAllocSize' + Header \in Nat
  <2>1. storeAllocSize' \in Nat
    BY <1>2 DEF StoreTyped, Store!TypeOK
  <2>2. \A n \in Nat : n + Header \in Nat
    BY StoreAssumption
  <2> QED
    BY <2>1, <2>2
<1>4. /\ IInv' /\ NewBlock.size = storeAllocSize' + Header /\ NewBlock \in blocks' /\ NewBlock \notin blocks
      /\ blocks' = blocks \cup {NewBlock}
  BY <1>0, <1>3, Allocated DEF MemoryInv
<1>5. chunks' = Append(chunks, storeAllocSize') /\ chunks \in Seq(Nat)
  BY <1>1 DEF Store!Create, MemoryInv, StoreTyped, Store!TypeOK
<1>6. /\ homes \in Seq(blocks) /\ Len(homes) = Len(chunks)
      /\ \A i \in DOMAIN homes : homes[i] \in blocks /\ homes[i].size = chunks[i] + Header
      /\ \A i, j \in DOMAIN homes : i # j => homes[i] # homes[j]
  BY <1>0 DEF MemoryInv, HomesInv
<1> HIDE DEF NewBlock
<1> DEFINE n == Len(homes)
<1>7. /\ homes' \in Seq(blocks') /\ Len(homes') = n + 1 /\ Len(chunks') = n + 1 /\ homes' # <<>>
      /\ DOMAIN homes' = DOMAIN homes \cup {n + 1} /\ n + 1 \notin DOMAIN homes
      /\ homes'[n + 1] = NewBlock /\ \A i \in DOMAIN homes : homes'[i] = homes[i]
      /\ chunks'[n + 1] = storeAllocSize' /\ \A i \in DOMAIN homes : chunks'[i] = chunks[i]
  <2>1. homes \in Seq(blocks') /\ NewBlock \in blocks'
    BY <1>4, <1>6
  <2>2. /\ homes' \in Seq(blocks') /\ Len(homes') = n + 1 /\ homes' # <<>>
        /\ homes'[n + 1] = NewBlock /\ \A i \in 1 .. n : homes'[i] = homes[i]
    BY <1>0, <2>1
  <2>3. /\ Len(chunks') = n + 1
        /\ chunks'[n + 1] = storeAllocSize' /\ \A i \in 1 .. n : chunks'[i] = chunks[i]
    BY <1>3, <1>5, <1>6
  <2>4. DOMAIN homes = 1 .. n /\ DOMAIN homes' = 1 .. n + 1 /\ n \in Nat
    BY <1>6, <2>2
  <2>5. 1 .. n + 1 = 1 .. n \cup {n + 1} /\ n + 1 \notin 1 .. n
    BY <2>4
  <2> QED
    BY <2>2, <2>3, <2>4, <2>5
<1> HIDE DEF n
<1>8. \A i \in DOMAIN homes' : homes'[i].size = chunks'[i] + Header
  BY <1>4, <1>6, <1>7
<1>9. \A i, j \in DOMAIN homes' : i # j => homes'[i] # homes'[j]
  BY <1>4, <1>6, <1>7
<1>10. HomesInv'
  BY <1>7, <1>8, <1>9 DEF HomesInv
<1> QED
  BY <1>2, <1>4, <1>10 DEF MemoryInv

LEMMA MemoryNextInv == MemoryInv /\ [MemoryNext]_<<vars, homes, storeVars>> => MemoryInv'
<1> SUFFICES ASSUME MemoryInv, [MemoryNext]_<<vars, homes, storeVars>>
             PROVE  MemoryInv'
  OBVIOUS
<1>0. IInv /\ StoreTyped /\ HomesInv
  BY DEF MemoryInv
<1>1. CASE JoinQuery
  <2>1. IInv' /\ blocks' = blocks
    BY <1>0, <1>1, SetSourceInv DEF JoinQuery, setSource
  <2>2. StoreTyped'
    BY <1>0, <1>1, StoreTypes DEF JoinQuery, storeVars, Store!vars
  <2> QED
    BY <1>0, <1>1, <2>1, <2>2, HomesKept DEF JoinQuery, MemoryInv
<1>2. CASE LeaveQuery
  <2>1. IInv'
    BY <1>0, <1>2, NextInv DEF LeaveQuery, Next
  <2>2. Store!Init' /\ homes' = <<>>
    BY <1>2 DEF LeaveQuery, Store!Init
  <2>3. StoreTyped'
    <3>1. /\ chunks' = <<FirstChunk>> /\ current' = 1 /\ storeAllocSize' = FirstChunk
          /\ storeStart' = Header /\ storeFree' = FirstChunk /\ groups' = {}
      BY <1>2 DEF LeaveQuery
    <3>2. FirstChunk \in Nat /\ FirstChunk \in 0 .. Word - 1 /\ FirstChunk < Word /\ Header \in Nat
      BY StoreAssumption
    <3>3. DOMAIN chunks' = {1} /\ chunks' \in Seq(Nat) /\ chunks'[1] = FirstChunk
      BY <3>1, <3>2
    <3> QED
      BY <3>1, <3>2, <3>3 DEF StoreTyped, Store!TypeOK
  <2>4. DOMAIN homes' = {} /\ homes' \in Seq(blocks')
    BY <2>2
  <2>5. HomesInv'
    BY <2>2, <2>4 DEF HomesInv
  <2> QED
    BY <2>1, <2>3, <2>5 DEF MemoryInv
<1>3. CASE UseAllocator
  <2>1. PICK size \in Requests : Allocate(size)
    BY <1>3 DEF UseAllocator
  <2>2. size \in Nat
    BY SizeAssumption
  <2>3. IInv' /\ blocks \subseteq blocks'
    BY <1>0, <2>1, <2>2, Allocated
  <2>4. StoreTyped'
    BY <1>0, <1>3, StoreTypes DEF UseAllocator, storeVars, Store!vars
  <2> QED
    BY <1>0, <1>3, <2>3, <2>4, HomesKept DEF UseAllocator, MemoryInv
<1>4. CASE AttachStore
  BY <1>4, AttachStoreInv
<1>5. CASE UseStore
  <2>1. Store!Next /\ homes # <<>> /\ UNCHANGED <<vars, homes>>
    BY <1>5 DEF UseStore, Store!Next
  <2>2. IInv' /\ blocks' = blocks
    BY <1>0, <2>1, NextInv DEF vars
  <2>3. StoreTyped'
    BY <1>0, <2>1, StoreTypes
  <2>4. chunks' = chunks
    BY <1>5 DEF UseStore, Store!reset, Store!Bump, Store!Reuse
  <2> QED
    BY <1>0, <2>1, <2>2, <2>3, <2>4, HomesKept DEF MemoryInv
<1>6. CASE GrowStore
  BY <1>6, GrowStoreInv
<1>7. CASE UNCHANGED <<vars, homes, storeVars>>
  <2>1. IInv' /\ blocks' = blocks
    BY <1>0, <1>7, NextInv DEF vars
  <2>2. StoreTyped'
    BY <1>0, <1>7, StoreTypes DEF storeVars, Store!vars
  <2> QED
    BY <1>0, <1>7, <2>1, <2>2, HomesKept DEF MemoryInv
<1> QED
  BY <1>1, <1>2, <1>3, <1>4, <1>5, <1>6, <1>7 DEF MemoryNext

LEMMA MemoryInvariance == MemorySpec => []MemoryInv
  BY MemoryInitInv, MemoryNextInv, PTL DEF MemorySpec

\* Allocator::allocate returns memory that nobody else has also when a store takes its
\* chunks from it, as large as they get.
THEOREM MemorySound == MemorySpec => []BlocksSound
<1>1. MemoryInv => BlocksSound
  BY DEF MemoryInv, IInv, BlocksSound
<1> QED
  BY <1>1, MemoryInvariance, PTL

\* The store keeps its own invariant in every step of the worker.
LEMMA StoreInvariance == SmallRequests => (MemorySpec => []StoreInv)
<1> SUFFICES ASSUME SmallRequests PROVE MemorySpec => []StoreInv
  OBVIOUS
<1>1. MemoryInit => StoreInv
  BY StoreInitInv DEF MemoryInit
<1>2. ASSUME StoreInv, [MemoryNext]_<<vars, homes, storeVars>>
      PROVE  StoreInv'
  <2>1. CASE LeaveQuery
    <3>1. /\ chunks' = <<FirstChunk>> /\ current' = 1 /\ storeAllocSize' = FirstChunk
          /\ storeStart' = Header /\ storeFree' = FirstChunk /\ groups' = {}
      BY <2>1 DEF LeaveQuery
    <3>2. FirstChunk \in Nat /\ FirstChunk \in 0 .. Word - 1 /\ FirstChunk < Word /\ Header \in Nat
      BY StoreAssumption
    <3>3. DOMAIN chunks' = {1} /\ chunks' \in Seq(Nat) /\ chunks'[1] = FirstChunk /\ chunks' # <<>>
      BY <3>1, <3>2
    <3>4. Store!TypeOK'
      BY <3>1, <3>2, <3>3 DEF Store!TypeOK
    <3>5. ChunksLarge' /\ Store!FreeExact' /\ Header <= storeStart'
      BY <3>1, <3>2, <3>3 DEF ChunksLarge, Store!FreeExact
    <3> QED
      BY <3>1, <3>4, <3>5 DEF StoreInv, BlocksBehind, Store!BlocksApart, Store!BlocksInChunk
  <2>2. CASE ~LeaveQuery
    <3>1. [Store!Next]_(Store!vars)
      BY <1>2, <2>2 DEF MemoryNext, JoinQuery, UseAllocator, AttachStore, UseStore, GrowStore,
         Store!Next, Store!vars, storeVars
    <3> QED
      BY <1>2, <3>1, StoreNextInv
  <2> QED
    BY <2>1, <2>2
<1> QED
  BY <1>1, <1>2, PTL DEF MemorySpec

\* With small requests no byte of a group of a HashGroup is shared with another group,
\* or with anything else that its worker has allocated, through any number of flushes,
\* queries and regions.
THEOREM NothingShared == SmallRequests => (MemorySpec => []NoByteShared)
<1> SUFFICES ASSUME SmallRequests PROVE MemorySpec => []NoByteShared
  OBVIOUS
<1>1. ASSUME MemoryInv, StoreInv
      PROVE  NoByteShared
  <2> DEFINE Apart(x, y) == x.from + x.size <= y.from \/ y.from + y.size <= x.from
             others == blocks \ ToSet(homes)
  <2>1. /\ \A b \in blocks : b.from \in Nat /\ b.size \in Nat
        /\ \A x, y \in blocks : x # y /\ x.region = y.region => Apart(x, y)
    BY <1>1 DEF MemoryInv, IInv, TypeOK, Block, BlocksApart
  <2>2. ASSUME NEW g \in groups
        PROVE  /\ g.chunk \in DOMAIN homes /\ homes[g.chunk] \in blocks
               /\ homes[g.chunk] \in ToSet(homes)
               /\ g.from \in Nat /\ g.size \in Nat
               /\ g.from + g.size <= homes[g.chunk].size
    <3>1. homes # <<>>
      BY <1>1 DEF MemoryInv, HomesInv, Store!Init
    <3>2. DOMAIN chunks = DOMAIN homes
      <4>1. homes \in Seq(blocks) /\ chunks \in Seq(Nat) /\ Len(homes) = Len(chunks)
        BY <1>1, <3>1 DEF MemoryInv, HomesInv, StoreTyped, Store!TypeOK
      <4> QED
        BY <4>1
    <3>3. g.chunk \in DOMAIN homes /\ g.from \in Nat /\ g.size \in Nat
      BY <1>1, <3>2 DEF StoreInv, Store!TypeOK
    <3>4. homes[g.chunk] \in blocks /\ homes[g.chunk].size = chunks[g.chunk] + Header
      BY <1>1, <3>3 DEF MemoryInv, HomesInv
    <3>5. g.from + g.size <= Header + chunks[g.chunk]
      BY <1>1 DEF StoreInv, Store!BlocksInChunk
    <3>6. chunks[g.chunk] \in Nat /\ Header \in Nat
      BY <1>1, <3>2, <3>3, StoreAssumption DEF StoreInv, Store!TypeOK
    <3>7. homes[g.chunk] \in ToSet(homes)
      BY <3>3 DEF ToSet
    <3> QED
      BY <3>3, <3>4, <3>5, <3>6, <3>7
  <2>3. ASSUME NEW g \in groups
        PROVE  /\ Place(g).region = homes[g.chunk].region
               /\ Place(g).from = homes[g.chunk].from + g.from /\ Place(g).size = g.size
               /\ Place(g).from \in Nat /\ Place(g).size \in Nat
               /\ homes[g.chunk].from <= Place(g).from
               /\ Place(g).from + Place(g).size <= homes[g.chunk].from + homes[g.chunk].size
    <3>1. /\ Place(g).region = homes[g.chunk].region
          /\ Place(g).from = homes[g.chunk].from + g.from /\ Place(g).size = g.size
      BY DEF Place
    <3>2. /\ homes[g.chunk].from \in Nat /\ homes[g.chunk].size \in Nat
          /\ g.from \in Nat /\ g.size \in Nat /\ g.from + g.size <= homes[g.chunk].size
      BY <2>1, <2>2
    <3> QED
      BY <3>1, <3>2
  <2>4. ASSUME NEW x \in others, NEW g \in groups, x.region = Place(g).region
        PROVE  Apart(x, Place(g)) /\ Apart(Place(g), x)
    <3> DEFINE h == homes[g.chunk]
    <3>1. h \in blocks /\ x \in blocks /\ x # h /\ x.region = h.region
      BY <2>2, <2>3, <2>4
    <3>2. Apart(x, h)
      BY <2>1, <3>1
    <3>3. /\ x.from \in Nat /\ x.size \in Nat /\ h.from \in Nat /\ h.size \in Nat
          /\ Place(g).from \in Nat /\ Place(g).size \in Nat
          /\ h.from <= Place(g).from /\ Place(g).from + Place(g).size <= h.from + h.size
      BY <2>1, <2>3, <3>1
    <3> HIDE DEF h
    <3> QED
      BY <3>2, <3>3
  <2>5. ASSUME NEW g \in groups, NEW k \in groups, Place(g) # Place(k), Place(g).region = Place(k).region
        PROVE  Apart(Place(g), Place(k))
    <3>1. g # k
      BY <2>5
    <3>2. CASE g.chunk = k.chunk
      <4>1. g.from + g.size <= k.from \/ k.from + k.size <= g.from
        BY <1>1, <3>1, <3>2 DEF StoreInv, Store!BlocksApart
      <4>2. /\ g.from \in Nat /\ g.size \in Nat /\ k.from \in Nat /\ k.size \in Nat
            /\ homes[g.chunk].from \in Nat
            /\ Place(g).from = homes[g.chunk].from + g.from /\ Place(g).size = g.size
            /\ Place(k).from = homes[g.chunk].from + k.from /\ Place(k).size = k.size
        BY <2>1, <2>2, <2>3, <3>2
      <4> QED
        BY <4>1, <4>2
    <3>3. CASE g.chunk # k.chunk
      <4> DEFINE h == homes[g.chunk]
                 m == homes[k.chunk]
      <4>1. h \in blocks /\ m \in blocks /\ h # m /\ h.region = m.region
        BY <1>1, <2>2, <2>3, <2>5, <3>3 DEF MemoryInv, HomesInv
      <4>2. Apart(h, m)
        BY <2>1, <4>1
      <4>3. /\ h.from \in Nat /\ h.size \in Nat /\ m.from \in Nat /\ m.size \in Nat
            /\ Place(g).from \in Nat /\ Place(g).size \in Nat
            /\ Place(k).from \in Nat /\ Place(k).size \in Nat
            /\ h.from <= Place(g).from /\ Place(g).from + Place(g).size <= h.from + h.size
            /\ m.from <= Place(k).from /\ Place(k).from + Place(k).size <= m.from + m.size
        BY <2>1, <2>3, <4>1
      <4> HIDE DEF h, m
      <4> QED
        BY <4>2, <4>3
    <3> QED
      BY <3>2, <3>3
  <2>6. ASSUME NEW x \in others \cup {Place(g) : g \in groups}, NEW y \in others \cup {Place(g) : g \in groups},
               x # y, x.region = y.region
        PROVE  Apart(x, y)
    <3> HIDE DEF Apart
    <3>1. CASE x \in others /\ y \in others
      BY <2>1, <2>6, <3>1
    <3>2. CASE x \in others /\ y \in {Place(g) : g \in groups}
      BY <2>4, <2>6, <3>2
    <3>3. CASE x \in {Place(g) : g \in groups} /\ y \in others
      BY <2>4, <2>6, <3>3
    <3>4. CASE x \in {Place(g) : g \in groups} /\ y \in {Place(g) : g \in groups}
      BY <2>5, <2>6, <3>4
    <3> QED
      BY <3>1, <3>2, <3>3, <3>4
  <2>7. Store!BlocksInChunk /\ Store!FreeExact
    BY <1>1 DEF StoreInv
  <2> QED
    BY <2>6, <2>7 DEF NoByteShared
<1>2. MemorySpec => []StoreInv
  BY StoreInvariance
<1> QED
  BY <1>1, <1>2, MemoryInvariance, PTL

-----------------------------------------------------------------------------
(* The memory of a worker and the pool, as MCSpec has them side by side.    *)

\* The pool, with the theorems about it.
PP == INSTANCE GlobalPoolProofs WITH
  Requests <- PoolRequests, Header <- PoolHeader, FirstSize <- PoolFirstSize,
  start <- poolStart, end <- poolEnd, current <- poolCurrent, allocSize <- poolAllocSize,
  chunks <- poolChunks, size <- poolSize

\* The pool that the theorems are about is the one that takes the steps.
LEMMA SamePool ==
  /\ PP!PoolAssumption
  /\ PP!Init = Pool!Init
  /\ \A t : PP!Step(t) = Pool!Step(t)
  /\ PP!Finished = Pool!Finished
  /\ PP!vars = poolVars
<1>1. PP!PoolAssumption
  BY PoolIsBuilt DEF PP!PoolAssumption, Pool!PoolAssumption
<1>2. /\ \A c : PP!Data(c) = Pool!Data(c) /\ PP!DataEnd(c) = Pool!DataEnd(c)
      /\ \A m, n : PP!Larger(m, n) = Pool!Larger(m, n)
  BY Zenon DEF PP!Data, Pool!Data, PP!DataEnd, Pool!DataEnd, PP!Larger, Pool!Larger
<1>3. PP!Init = Pool!Init
  BY <1>2, Zenon DEF PP!Init, Pool!Init
<1>4. PP!vars = poolVars /\ Pool!vars = poolVars
  BY Zenon DEF PP!vars, Pool!vars, poolVars
<1>5. PP!Finished = Pool!Finished
  BY Zenon DEF PP!Finished, Pool!Finished, PP!vars, Pool!vars
<1>6. ASSUME NEW t
      PROVE  PP!Step(t) = Pool!Step(t)
  <2>1. PP!Call(t) = Pool!Call(t)
    BY Zenon DEF PP!Call, Pool!Call, PP!Goto, Pool!Goto, PP!pool, Pool!pool
  <2>2. PP!LoadStart(t) = Pool!LoadStart(t)
    BY Zenon DEF PP!LoadStart, Pool!LoadStart, PP!Goto, Pool!Goto, PP!pool, Pool!pool
  <2>3. PP!LoadEnd(t) = Pool!LoadEnd(t)
    BY Zenon DEF PP!LoadEnd, Pool!LoadEnd, PP!Goto, Pool!Goto, PP!pool, Pool!pool
  <2>4. PP!Lock(t) = Pool!Lock(t)
    BY Zenon DEF PP!Lock, Pool!Lock, PP!Goto, Pool!Goto, PP!locals, Pool!locals
  <2>5. PP!Refill(t) = Pool!Refill(t)
    <3>1. PP!RecheckStart(t) = Pool!RecheckStart(t) /\ PP!RecheckEnd(t) = Pool!RecheckEnd(t)
      BY Zenon DEF PP!RecheckStart, Pool!RecheckStart, PP!RecheckEnd, Pool!RecheckEnd,
                   PP!Goto, Pool!Goto, PP!pool, Pool!pool
    <3>2. PP!Restart(t) = Pool!Restart(t) /\ PP!DrainLoad(t) = Pool!DrainLoad(t)
      BY Zenon DEF PP!Restart, Pool!Restart, PP!DrainLoad, Pool!DrainLoad,
                   PP!Goto, Pool!Goto, PP!pool, Pool!pool
    <3>3. PP!Drain(t) = Pool!Drain(t) /\ PP!DrainFails(t) = Pool!DrainFails(t)
      BY Zenon DEF PP!Drain, Pool!Drain, PP!DrainFails, Pool!DrainFails,
                   PP!Goto, Pool!Goto, PP!pool, Pool!pool, PP!locals, Pool!locals
    <3>4. \A n : PP!NewChunk(n) = Pool!NewChunk(n)
      BY DEF PP!NewChunk, Pool!NewChunk, PP!Apart, Pool!Apart, PP!DataEnd, Pool!DataEnd
    <3>5. PP!AllocChunk(t) = Pool!AllocChunk(t)
      BY <1>2, <3>4, Zenon DEF PP!AllocChunk, Pool!AllocChunk, PP!Goto, Pool!Goto
    <3>6. PP!PublishFirst(t) = Pool!PublishFirst(t) /\ PP!PublishRest(t) = Pool!PublishRest(t)
      BY Zenon DEF PP!PublishFirst, Pool!PublishFirst, PP!PublishRest, Pool!PublishRest,
                   PP!Goto, Pool!Goto, PP!locals, Pool!locals
    <3> QED
      BY <3>1, <3>2, <3>3, <3>5, <3>6, Zenon DEF PP!Refill, Pool!Refill
  <2>6. PP!Bump(t) = Pool!Bump(t)
    BY Zenon DEF PP!Bump, Pool!Bump, PP!Block, Pool!Block, PP!Goto, Pool!Goto
  <2>7. PP!BumpFails(t) = Pool!BumpFails(t)
    BY Zenon DEF PP!BumpFails, Pool!BumpFails, PP!Goto, Pool!Goto, PP!pool, Pool!pool
  <2> QED
    BY <2>1, <2>2, <2>3, <2>4, <2>5, <2>6, <2>7, Zenon DEF PP!Step, Pool!Step
<1> QED
  BY <1>1, <1>3, <1>4, <1>5, <1>6

\* What the theorems say of the pool is what is asked of it here.
LEMMA SamePoolProperties ==
  /\ PP!TypeOK => Pool!TypeOK
  /\ PP!GrantsSound => Pool!GrantsSound
<1>1. PP!TypeOK => Pool!TypeOK
  BY Zenon DEF PP!TypeOK, Pool!TypeOK, PP!Labels, Pool!Labels, PP!Chunk, Pool!Chunk
<1>2. \A c : PP!Data(c) = Pool!Data(c) /\ PP!DataEnd(c) = Pool!DataEnd(c)
  BY Zenon DEF PP!Data, Pool!Data, PP!DataEnd, Pool!DataEnd
<1>3. PP!BlocksDisjoint = Pool!BlocksDisjoint
  BY Zenon DEF PP!BlocksDisjoint, Pool!BlocksDisjoint
<1>4. PP!BlocksInChunks = Pool!BlocksInChunks
  BY <1>2 DEF PP!BlocksInChunks, Pool!BlocksInChunks
<1>5. PP!NoPhantomSpace = Pool!NoPhantomSpace
  BY <1>2 DEF PP!NoPhantomSpace, Pool!NoPhantomSpace
<1> QED
  BY <1>1, <1>3, <1>4, <1>5, Zenon DEF PP!GrantsSound, Pool!GrantsSound

\* A step of one part leaves the other as it is.
LEMMA EachSpec == MCSpec => MemorySpec /\ PP!Spec
<1>1. MCInit => MemoryInit /\ PP!Init
  BY SamePool DEF MCInit
<1>2. [MCNext]_allVars => [MemoryNext]_<<vars, homes, storeVars>>
  BY DEF MCNext, allVars, WorkerStep, PoolStep, PoolFinished
<1>3. ASSUME [MCNext]_allVars PROVE [PP!Next]_PP!vars
  <2>1. CASE \E t \in Threads : PoolStep(t)
    BY <2>1, SamePool DEF PoolStep, PP!Next
  <2>2. CASE PoolFinished
    BY <2>2, SamePool DEF PoolFinished, PP!Next
  <2>3. CASE WorkerStep \/ UNCHANGED allVars
    <3>1. UNCHANGED poolVars
      BY <2>3 DEF WorkerStep, allVars
    <3> QED
      BY <3>1, SamePool DEF PP!vars, poolVars
  <2> QED
    BY <1>3, <2>1, <2>2, <2>3 DEF MCNext
<1> QED
  BY <1>1, <1>2, <1>3, PTL DEF MCSpec, MemorySpec, PP!Spec

\* The counters of both allocators of a worker and of the pool keep their types, the
\* chunks of a store are blocks of its worker, one for each, and the pool never switches
\* to a chunk that it does not own.
THEOREM TypesRight == MCSpec => []TypesOK
<1>1. MemorySpec => []MemoryInv
  BY MemoryInvariance
<1>2. PP!Spec => []PP!TypeOK
  BY PP!TypeCorrect, SamePool
<1>3. MemoryInv /\ PP!TypeOK => TypesOK
  BY SamePoolProperties DEF MemoryInv, IInv, StoreTyped, HomesInv, TypesOK
<1> QED
  BY <1>1, <1>2, <1>3, EachSpec, PTL

\* GlobalPool::allocate hands out memory of one chunk that nobody else has, for any
\* number of workers, any sizes of requests and any placement of chunks.
THEOREM GrantsRight == MCSpec => []GrantsSound
<1>1. PP!Spec => []PP!GrantsSound
  BY PP!Sound, SamePool
<1>2. PP!GrantsSound => GrantsSound
  BY SamePoolProperties DEF GrantsSound
<1> QED
  BY <1>1, <1>2, EachSpec, PTL

\* What MemorySound and NothingShared say of a worker holds next to the pool.
THEOREM MemoryRight ==
  /\ MCSpec => []BlocksSound
  /\ SmallRequests => (MCSpec => []NoByteShared)
<1>1. MCSpec => []BlocksSound
  BY MemorySound, EachSpec, PTL
<1>2. SmallRequests => (MCSpec => []NoByteShared)
  BY NothingShared, EachSpec, PTL
<1> QED
  BY <1>1, <1>2

=============================================================================
