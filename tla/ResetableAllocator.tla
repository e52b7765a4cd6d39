------------------------- MODULE ResetableAllocator -------------------------
(***************************************************************************)
(* runtime::ResetableAllocator (include/common/runtime/MemoryPool.hpp):    *)
(* the memory of a HashGroup's groups.  It keeps its chunks in a list,     *)
(* reset() begins again with the first one, and allocate() walks on to the *)
(* next chunk that is large enough or appends a new one.                   *)
(*                                                                         *)
(* The chunks come from WorkerAllocator and are aligned; addresses are     *)
(* counted from the start of the chunk, which is its header.               *)
(***************************************************************************)
EXTENDS Integers, Sequences, FiniteSets

CONSTANTS
  Align,       \* 64
  Header,      \* sizeof(Chunk)
  Word,        \* 2^64, the range of size_t; bound: the sizes of chunks
  FirstSize,   \* the first value of allocSize
  Requests,    \* the sizes requested
  MaxBlocks    \* bound: blocks between two resets

AlignAssumption == Align \in Nat \ {0} /\ Header \in Nat
SizeAssumption == Word \in Nat \ {0} /\ FirstSize \in 1 .. Word - 1 /\ Requests \subseteq Nat
BoundsAssumption == MaxBlocks \in Nat

VARIABLES
  allocSize,
  chunks,    \* the sizes of the chunks in the list, without their headers
  current,   \* the place of current in the list
  start,     \* the first byte not handed out, counted from current
  free,
  blocks     \* every block since the last reset: chunk, first byte, size

vars == <<allocSize, chunks, current, start, free, blocks>>

larger(x, y) == IF x >= y THEN x ELSE y

\* setSource(source) fetches the first chunk.
Init ==
  /\ allocSize = FirstSize
  /\ chunks = <<FirstSize>>
  /\ current = 1
  /\ start = Header
  /\ free = FirstSize
  /\ blocks = {}

aligndiff(s) == Align - (s % Align)

wanted(size) == size + aligndiff(start)

\* allocate(size), when what is left of the chunk suffices.
Bump(size) ==
  /\ Cardinality(blocks) < MaxBlocks
  /\ free >= wanted(size)
  /\ blocks' = blocks \cup {[chunk |-> current, from |-> start + aligndiff(start), size |-> size]}
  /\ start' = start + wanted(size)
  /\ free' = free - wanted(size)
  /\ UNCHANGED <<allocSize, chunks, current>>

\* The first byte and what is left, after the chunk was entered for a block
\* whose size still contains the padding of the chunk before.
EnterChunk(k, size) ==
  LET total == wanted(size) + aligndiff(Header)
  IN /\ current' = k
     /\ blocks' = blocks \cup {[chunk |-> k, from |-> Header + aligndiff(Header), size |-> size]}
     /\ start' = Header + total
     /\ free' = (chunks'[k] - total) % Word

\* The chunks after current that are large enough.
Fitting(size) == {k \in current + 1 .. Len(chunks) : chunks[k] >= wanted(size)}

\* allocate(size), with the next chunk that is not too small.
Reuse(size) ==
  /\ Cardinality(blocks) < MaxBlocks
  /\ free < wanted(size)
  /\ UNCHANGED <<allocSize, chunks>>
  /\ \E k \in Fitting(size) : /\ \A j \in Fitting(size) : k <= j
                              /\ EnterChunk(k, size)

\* allocate(size), when no chunk is left that is large enough: a new one, of
\* twice the size or what is needed, is appended to the list.
Create(size) ==
  /\ Cardinality(blocks) < MaxBlocks
  /\ free < wanted(size)
  /\ Fitting(size) = {}
  /\ allocSize' = larger(allocSize * 2, wanted(size))
  /\ allocSize' < Word
  /\ chunks' = Append(chunks, allocSize')
  /\ EnterChunk(Len(chunks'), size)

\* Mutant: the free space of the chunk that was current is kept.
reset_KeepsFree ==
  /\ current' = 1
  /\ start' = Header
  /\ blocks' = {}
  /\ UNCHANGED <<allocSize, chunks, free>>

\* reset(): the table was cleared, its groups are given up.
reset ==
  /\ current' = 1
  /\ start' = Header
  /\ free' = chunks[1]
  /\ blocks' = {}
  /\ UNCHANGED <<allocSize, chunks>>

Next == reset \/ \E size \in Requests : Bump(size) \/ Reuse(size) \/ Create(size)

Spec == Init /\ [][Next]_vars

-----------------------------------------------------------------------------

TypeOK ==
  /\ allocSize \in Nat
  /\ chunks \in Seq(Nat)
  /\ current \in DOMAIN chunks
  /\ start \in Nat
  /\ free \in 0 .. Word - 1
  /\ blocks \in SUBSET [chunk : DOMAIN chunks, from : Nat, size : Nat]

\* Since the last reset no byte was handed out twice, although chunks are used
\* again and again.
BlocksApart ==
  \A b, c \in blocks :
    b # c /\ b.chunk = c.chunk => b.from + b.size <= c.from \/ c.from + c.size <= b.from

\* Every block is aligned and ends inside its chunk.
BlocksInChunk ==
  \A b \in blocks : b.from % Align = 0 /\ b.from + b.size <= Header + chunks[b.chunk]

\* free is what is really left of the current chunk: it has not wrapped.
FreeExact == start + free = Header + chunks[current]

\* "skip chunks that are too small", "in case no chunk with enough space was
\* found: allocate new one" (include/common/runtime/MemoryPool.hpp): the chunk
\* that allocate() settles on has the space the block takes.
ChunkHasSpace == start <= Header + chunks[current]

=============================================================================
