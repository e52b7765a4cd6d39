---------------------------- MODULE ChunkedStack ----------------------------
(***************************************************************************)
(* runtime::Stack (include/common/runtime/Stack.hpp), which keeps the      *)
(* entries of the hash tables of the compiled plans: a list of chunks,     *)
(* each twice as large as the one before.  clear() keeps the chunks, and   *)
(* what was in them, for the elements to come.                             *)
(***************************************************************************)
EXTENDS Naturals, Sequences, SequencesExt

CONSTANTS
  Elements,
  initialSize,  \* the capacity of the first chunk
  MaxChunks     \* bound: the length of the list

SizeAssumption == initialSize \in Nat \ {0} /\ MaxChunks \in Nat \ {0}

VARIABLES
  chunks,      \* the list: what was written to each chunk, up to its capacity
  last,        \* the place of last in the list
  chunkSize,   \* the capacity of last
  fill,        \* the elements in last
  nrElements,  \* the elements in the chunks before
  latest       \* the element constructed last

vars == <<chunks, last, chunkSize, fill, nrElements, latest>>

Init ==
  /\ chunks = << <<>> >>
  /\ last = 1
  /\ chunkSize = initialSize
  /\ fill = 0
  /\ nrElements = 0
  /\ latest \in Elements

\* Mutant: what is left of an earlier element stays.
Written_Keeps(chunk, place, e) ==
  IF place <= Len(chunk) THEN chunk ELSE Append(chunk, e)

\* A chunk after an element was constructed at a place in it.
Written(chunk, place, e) ==
  IF place <= Len(chunk) THEN [chunk EXCEPT ![place] = e] ELSE Append(chunk, e)

\* emplace_back, with room in the last chunk.
emplace_back(e) ==
  /\ fill # chunkSize
  /\ chunks' = [chunks EXCEPT ![last] = Written(@, fill + 1, e)]
  /\ fill' = fill + 1
  /\ latest' = e
  /\ UNCHANGED <<last, chunkSize, nrElements>>

\* Mutant: the size of the next chunk is that of the last one.
newChunk_SameSize(e) ==
  /\ fill = chunkSize
  /\ last < MaxChunks
  /\ UNCHANGED chunkSize
  /\ last' = last + 1
  /\ chunks' = IF last < Len(chunks)
               THEN [chunks EXCEPT ![last + 1] = Written(@, 1, e)]
               ELSE Append(chunks, <<e>>)
  /\ nrElements' = nrElements + fill
  /\ fill' = 1
  /\ latest' = e

\* emplace_back, when the last chunk is full: newChunk() goes on to a chunk left
\* from before clear(), or allocates one.
newChunk(e) ==
  /\ fill = chunkSize
  /\ last < MaxChunks
  /\ chunkSize' = chunkSize * 2
  /\ last' = last + 1
  /\ chunks' = IF last < Len(chunks)
               THEN [chunks EXCEPT ![last + 1] = Written(@, 1, e)]
               ELSE Append(chunks, <<e>>)
  /\ nrElements' = nrElements + fill
  /\ fill' = 1
  /\ latest' = e

clear ==
  /\ last' = 1
  /\ chunkSize' = initialSize
  /\ fill' = 0
  /\ nrElements' = 0
  /\ UNCHANGED <<chunks, latest>>

Next == clear \/ \E e \in Elements : emplace_back(e) \/ newChunk(e)

Spec == Init /\ [][Next]_vars

size == nrElements + fill

empty == last = 1 /\ fill = 0

pow[n \in Nat] == IF n = 0 THEN 1 ELSE 2 * pow[n - 1]

\* The capacity a chunk of the list is allocated with.
CapacityOf(i) == initialSize * pow[i - 1]

\* What a StackIter passes: the chunks up to last; it takes each for full, with
\* a size it doubles itself, except the last one.
Iterated ==
  FlattenSeq([i \in 1 .. last |->
    SubSeq(chunks[i], 1, IF i = last THEN fill ELSE CapacityOf(i))])

-----------------------------------------------------------------------------

TypeOK ==
  /\ chunks \in Seq(Seq(Elements)) /\ Len(chunks) <= MaxChunks
  /\ last \in DOMAIN chunks
  /\ chunkSize \in Nat \ {0}
  /\ fill \in 0 .. chunkSize
  /\ nrElements \in Nat
  /\ latest \in Elements

\* No element is constructed behind the end of a chunk: the capacity that
\* chunkSize claims is that the chunk was allocated with, before or after a
\* clear().
InsideChunks ==
  /\ \A i \in DOMAIN chunks : Len(chunks[i]) <= CapacityOf(i)
  /\ chunkSize = CapacityOf(last)

\* The three ways to ask for the number of elements agree.
SizesAgree ==
  /\ size = Len(Iterated)
  /\ empty <=> Iterated = <<>>
  /\ size > 0 => fill > 0 /\ chunks[last][fill] = Iterated[size]

\* Who iterates the stack sees what was pushed since it was last cleared, and
\* nothing that is left in its chunks from before.
AppendOnly == INSTANCE AppendSequence WITH items <- Iterated
Implements == AppendOnly!Spec

=============================================================================
