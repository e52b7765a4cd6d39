-------------------------- MODULE SpillPartitions ---------------------------
(***************************************************************************)
(* runtime::PartitionedDeque (include/common/runtime/PartitionedDeque.hpp) *)
(* as QueryBuilder and GroupBy set it up for spilled groups: a list of     *)
(* chunks of equal size per partition, the partition of an element being   *)
(* given by the upper bits of its hash.                                    *)
(***************************************************************************)
EXTENDS Integers, FiniteSets, Sequences, SequencesExt

CONSTANTS
  Workers,    \* the number of workers of the group
  HashBits,   \* sizeof(hash_t) * 8
  chunkSize,  \* elements per chunk
  MaxLen      \* bound: elements of a deque

pow[n \in Nat] == IF n = 0 THEN 1 ELSE 2 * pow[n - 1]

\* QueryBuilder and GroupBy pass 4 * <workers> to postConstruct.
nrPartitions == Workers * 4

\* A hash, of 64 bits, has more values than there are partitions.
WorkersAssumption == Workers \in Nat \ {0}
SizeAssumption ==
  /\ HashBits \in Nat \ {0} /\ chunkSize \in Nat \ {0} /\ MaxLen \in Nat
  /\ pow[HashBits] > nrPartitions

\* The bits of nrPartitions (64 - clz)
exp == CHOOSE e \in 0 .. HashBits : pow[e] > nrPartitions /\ \A d \in 0 .. e - 1 : pow[d] <= nrPartitions

\* shift and capacity as postConstruct computes them; the bits of hash_t count.
shift == HashBits - exp
capacity == pow[exp]

Partitions == 0 .. capacity - 1
Hashes == 0 .. pow[HashBits] - 1

VARIABLES
  chunks,   \* chunks[p]: the list from first to last, each with what was copied to it
  current,  \* current[p]: elements before current in the last chunk
  pushed    \* what was pushed so far, in order

vars == <<chunks, current, pushed>>

Init ==
  /\ chunks = [p \in Partitions |-> <<>>]
  /\ current = [p \in Partitions |-> 0]
  /\ pushed = <<>>

PartitionOf(hash) == hash \div pow[shift]

\* The first element, or current == end
NeedsChunk(p) == chunks[p] = <<>> \/ current[p] = chunkSize

\* push_back(element, hash); the element is its hash.
push_back(hash) ==
  LET p == PartitionOf(hash)
  IN /\ Len(pushed) < MaxLen
     /\ IF NeedsChunk(p)
        THEN /\ chunks' = [chunks EXCEPT ![p] = Append(@, <<hash>>)]
             /\ current' = [current EXCEPT ![p] = 1]
        ELSE /\ chunks' = [chunks EXCEPT ![p][Len(chunks[p])] = Append(@, hash)]
             /\ current' = [current EXCEPT ![p] = @ + 1]
     /\ pushed' = Append(pushed, hash)

Next == \E hash \in Hashes : push_back(hash)

Spec == Init /\ [][Next]_vars

\* Partition::size(chunk)
size(p, i) == IF i = Len(chunks[p]) THEN current[p] ELSE chunkSize

\* What HashGroup and GroupBy read: the chunks from first to last, as many
\* elements of each as size() says; an element not written is none of them.
Read(p) ==
  FlattenSeq([i \in DOMAIN chunks[p] |->
    [j \in 1 .. size(p, i) |-> IF j <= Len(chunks[p][i]) THEN chunks[p][i][j] ELSE -1]])

-----------------------------------------------------------------------------

TypeOK ==
  /\ DOMAIN chunks = Partitions /\ DOMAIN current = Partitions
  /\ \A p \in Partitions : \A i \in DOMAIN chunks[p] : Len(chunks[p][i]) <= chunkSize
  /\ current \in [Partitions -> 0 .. chunkSize]
  /\ pushed \in Seq(Hashes)

\* What was pushed with the p-th of the ranges, of equal sizes, that the hashes
\* are divided into.
Pushed(p) ==
  LET of[i \in 0 .. Len(pushed)] ==
        IF i = 0 THEN <<>>
        ELSE IF pushed[i] \div (pow[HashBits] \div capacity) = p THEN Append(of[i - 1], pushed[i])
        ELSE of[i - 1]
  IN of[Len(pushed)]

\* Every partition is read exactly as it was filled, and equal hashes are in
\* one partition; the number of a partition is one the vector has.
ReadsAll == \A p \in Partitions : Read(p) = Pushed(p)

=============================================================================
