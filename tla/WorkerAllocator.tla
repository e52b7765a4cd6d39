-------------------------- MODULE WorkerAllocator ---------------------------
(***************************************************************************)
(* runtime::Allocator (include/common/runtime/MemoryPool.hpp): each worker *)
(* takes regions from the GlobalPool of the query and hands them out from  *)
(* the front, aligned to cache lines.  A region is never returned; what is *)
(* left of it when the next one is fetched is lost.                        *)
(*                                                                         *)
(* Addresses are counted from the start of the current region, whose own   *)
(* address is only known modulo the alignment: the pool does not align.    *)
(***************************************************************************)
EXTENDS Integers, FiniteSets

CONSTANTS
  Align,        \* 64
  FirstSize,    \* the first value of allocSize
  Requests,     \* the sizes requested
  MaxRegions,   \* bound: regions fetched from the pool
  MaxBlocks     \* bound: blocks allocated

ASSUME AlignAssumption == Align \in Nat \ {0}
ASSUME SizeAssumption == FirstSize \in Nat \ {0} /\ Requests \subseteq Nat
ASSUME BoundsAssumption == MaxRegions \in Nat /\ MaxBlocks \in Nat

VARIABLES
  hasSource,    \* memorySource is set
  allocSize,
  region,       \* how many regions were fetched; the last is the current one
  base,         \* its address modulo Align
  regionSize,   \* its size
  start,        \* the first byte not handed out, counted from its beginning
  free,
  blocks        \* every block allocated: region, first byte, size (history)

vars == <<hasSource, allocSize, region, base, regionSize, start, free, blocks>>

larger(x, y) == IF x >= y THEN x ELSE y

Init ==
  /\ hasSource = FALSE
  /\ allocSize = FirstSize
  /\ region = 0 /\ base = 0 /\ regionSize = 0 /\ start = 0 /\ free = 0
  /\ blocks = {}

\* setSource(source): the worker joins a query and starts a region of its pool.
setSource ==
  /\ region < MaxRegions
  /\ hasSource' = TRUE
  /\ region' = region + 1
  /\ base' \in 0 .. Align - 1
  /\ regionSize' = allocSize
  /\ start' = 0
  /\ free' = allocSize
  /\ UNCHANGED <<allocSize, blocks>>

\* setSource(nullptr): the worker leaves the query.  What is left of the region
\* stays behind, with the pool it came from about to go, and must not be used.
leaveSource ==
  /\ hasSource
  /\ hasSource' = FALSE
  /\ UNCHANGED <<allocSize, region, base, regionSize, start, free, blocks>>

\* The bytes up to the next boundary, a full line if start is on one.
aligndiff(b, s) == Align - ((b + s) % Align)

\* Mutant: the padding is not asked for.
Bump_PadsLate(size) ==
  LET diff == aligndiff(base, start)
  IN /\ Cardinality(blocks) < MaxBlocks
     /\ free >= size
     /\ blocks' = blocks \cup {[region |-> region, from |-> start + diff, size |-> size]}
     /\ start' = start + size + diff
     /\ free' = free - (size + diff)
     /\ UNCHANGED <<hasSource, allocSize, region, base, regionSize>>

\* allocate(size), when what is left of the region suffices.
Bump(size) ==
  LET diff == aligndiff(base, start)
  IN /\ Cardinality(blocks) < MaxBlocks
     /\ free >= size + diff
     /\ blocks' = blocks \cup {[region |-> region, from |-> start + diff, size |-> size]}
     /\ start' = start + size + diff
     /\ free' = free - (size + diff)
     /\ UNCHANGED <<hasSource, allocSize, region, base, regionSize>>

\* Mutant: the padding of the new region is not added to the size.
Fetch_PadsOnce(size) ==
  LET wanted == size + aligndiff(base, start)
      diff == aligndiff(base', 0)
  IN /\ hasSource
     /\ Cardinality(blocks) < MaxBlocks
     /\ free < wanted
     /\ region < MaxRegions
     /\ allocSize' = larger(allocSize * 2, wanted + Align)
     /\ region' = region + 1
     /\ base' \in 0 .. Align - 1
     /\ regionSize' = allocSize'
     /\ blocks' = blocks \cup {[region |-> region', from |-> diff, size |-> size]}
     /\ start' = wanted
     /\ free' = allocSize' - wanted
     /\ UNCHANGED hasSource

\* allocate(size), with a new region of twice the size or what is needed; the
\* padding of the old region stays part of the size.
Fetch(size) ==
  LET wanted == size + aligndiff(base, start)
      diff == aligndiff(base', 0)
  IN /\ hasSource
     /\ Cardinality(blocks) < MaxBlocks
     /\ free < wanted
     /\ region < MaxRegions
     /\ allocSize' = larger(allocSize * 2, wanted + Align)
     /\ region' = region + 1
     /\ base' \in 0 .. Align - 1
     /\ regionSize' = allocSize'
     /\ blocks' = blocks \cup {[region |-> region', from |-> diff, size |-> size]}
     /\ start' = wanted + diff
     /\ free' = allocSize' - (wanted + diff)
     /\ UNCHANGED hasSource

Next == setSource \/ leaveSource \/ \E size \in Requests : hasSource /\ (Bump(size) \/ Fetch(size))

Spec == Init /\ [][Next]_vars

-----------------------------------------------------------------------------

Block == [region : Nat, from : Nat, size : Nat]

TypeOK ==
  /\ hasSource \in BOOLEAN
  /\ allocSize \in Nat \ {0}
  /\ region \in Nat
  /\ base \in 0 .. Align - 1
  /\ regionSize \in Nat /\ start \in Nat /\ free \in Nat
  /\ blocks \in SUBSET Block

\* Two blocks never share a byte.
BlocksApart ==
  \A b, c \in blocks :
    b # c /\ b.region = c.region => b.from + b.size <= c.from \/ c.from + c.size <= b.from

\* The blocks of the current region lie inside it, on boundaries, before what
\* is still free, although the size is padded twice when a region is fetched.
BlocksInRegion ==
  /\ start + free = regionSize /\ start <= regionSize
  /\ \A b \in blocks :
       b.region = region =>
         /\ (base + b.from) % Align = 0
         /\ b.from + b.size <= start

\* Blocks are apart from each other and inside their region.
BlocksSound == BlocksApart /\ BlocksInRegion

=============================================================================
