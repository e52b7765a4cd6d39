----------------------------- MODULE MorselScan -----------------------------
(***************************************************************************)
(* vectorwise::Scan (src/vectorwise/Operators.cpp): the scans of all       *)
(* workers over one relation share the atomic number of the next chunk; a  *)
(* worker delivers its chunk vector by vector.  Nothing is computed from   *)
(* scratch: the place of a vector, and the column pointers of the          *)
(* consumers, follow from the previous vector by relative steps.           *)
(***************************************************************************)
EXTENDS Integers, FiniteSets

CONSTANTS
  Workers,
  MaxTuples,     \* bound: the size of the relation
  ChunkSizes,    \* the vectors per chunk, scanChunkSize
  VecSizes       \* the tuples per vector, vecSize

WorkersAssumption == IsFiniteSet(Workers) /\ Workers # {}
SizesAssumption ==
  MaxTuples \in Nat /\ ChunkSizes \subseteq Nat \ {0} /\ VecSizes \subseteq Nat \ {0}

VARIABLES
  nrTuples, scanChunkSize, vecSize,  \* parameters of the scan
  chunkPos,       \* shared.pos: the next chunk nobody has claimed
  needsInit,      \* needsInit[w]: w has not claimed a chunk yet
  vecInChunk,     \* vecInChunk[w]: the vectors of w's chunk w has reached
  currentChunk,   \* currentChunk[w]: the chunk w claimed last
  lastOffset,     \* lastOffset[w]: the first tuple of w's last vector
  column,         \* column[w]: the tuple w's consumers point to
  running,        \* running[w]: w has not seen EndOfStream
  times           \* times[n]: how often tuple n was delivered (history)

params == <<nrTuples, scanChunkSize, vecSize>>
vars == <<nrTuples, scanChunkSize, vecSize, chunkPos, needsInit, vecInChunk, currentChunk,
          lastOffset, column, running, times>>

Tuples == 0 .. nrTuples - 1

Init ==
  /\ nrTuples \in 0 .. MaxTuples /\ scanChunkSize \in ChunkSizes /\ vecSize \in VecSizes
  /\ chunkPos = 0
  /\ needsInit = [w \in Workers |-> TRUE]
  /\ vecInChunk = [w \in Workers |-> scanChunkSize]
  /\ currentChunk = [w \in Workers |-> 0]
  /\ lastOffset = [w \in Workers |-> 0]
  /\ column = [w \in Workers |-> 0]
  /\ running = [w \in Workers |-> TRUE]
  /\ times = [n \in Tuples |-> 0]

\* The tuples of the vector at begin: min(nrTuples - begin, vecSize) of them.
Batch(begin) == {n \in Tuples : begin <= n /\ n < begin + vecSize}

\* Deliver the vector step vectors after the last one, or end the stream.
Advance(w, step, inChunk) ==
  LET nextBegin == lastOffset[w] + step * vecSize
  IN IF nextBegin >= nrTuples
     THEN /\ running' = [running EXCEPT ![w] = FALSE]
          /\ vecInChunk' = [vecInChunk EXCEPT ![w] = inChunk]
          /\ UNCHANGED <<lastOffset, column, times>>
     ELSE /\ column' = [column EXCEPT ![w] = @ + step * vecSize]
          /\ lastOffset' = [lastOffset EXCEPT ![w] = nextBegin]
          /\ vecInChunk' = [vecInChunk EXCEPT ![w] = inChunk + 1]
          /\ times' = [n \in Tuples |-> IF n \in Batch(nextBegin) THEN times[n] + 1 ELSE times[n]]
          /\ UNCHANGED running

\* next() within a chunk.
NextInChunk(w) ==
  /\ running[w]
  /\ vecInChunk[w] # scanChunkSize
  /\ Advance(w, 1, vecInChunk[w])
  /\ UNCHANGED <<params, chunkPos, needsInit, currentChunk>>

\* Mutant: the step to another chunk is counted from its first vector.
NextChunk_FromFirst(w) ==
  LET chunkSkip == chunkPos - currentChunk[w]
  IN /\ running[w]
     /\ vecInChunk[w] = scanChunkSize
     /\ chunkPos' = chunkPos + 1
     /\ currentChunk' = [currentChunk EXCEPT ![w] = chunkPos]
     /\ needsInit' = [needsInit EXCEPT ![w] = FALSE]
     /\ Advance(w, chunkSkip * scanChunkSize, 0)
     /\ UNCHANGED params

\* next() at the end of a chunk: currentChunk = shared.pos.fetch_add(1).  The
\* step leads to the first vector of that chunk: from the first tuple of the
\* relation in the beginning, later from the last vector of the chunk before.
NextChunk(w) ==
  LET chunkSkip == chunkPos - currentChunk[w]
  IN /\ running[w]
     /\ vecInChunk[w] = scanChunkSize
     /\ chunkPos' = chunkPos + 1
     /\ currentChunk' = [currentChunk EXCEPT ![w] = chunkPos]
     /\ needsInit' = [needsInit EXCEPT ![w] = FALSE]
     /\ Advance(w, IF needsInit[w] THEN chunkSkip * scanChunkSize
                   ELSE (chunkSkip - 1) * scanChunkSize + 1, 0)
     /\ UNCHANGED params

Step(w) == NextInChunk(w) \/ NextChunk(w)

\* Callers do not ask again after EndOfStream.
Finished == (\A w \in Workers : ~running[w]) /\ UNCHANGED vars

Next == (\E w \in Workers : Step(w)) \/ Finished

Spec == Init /\ [][Next]_vars

\* Each worker asks for the next vector until its stream ends.
FairSpec == Spec /\ \A w \in Workers : WF_vars(Step(w))

-----------------------------------------------------------------------------

TypeOK ==
  /\ nrTuples \in Nat /\ scanChunkSize \in ChunkSizes /\ vecSize \in VecSizes
  /\ chunkPos \in Nat
  /\ needsInit \in [Workers -> BOOLEAN]
  /\ vecInChunk \in [Workers -> 0 .. scanChunkSize]
  /\ currentChunk \in [Workers -> Nat]
  /\ lastOffset \in [Workers -> Nat]
  /\ column \in [Workers -> Nat]
  /\ running \in [Workers -> BOOLEAN]
  /\ times \in [Tuples -> Nat]

\* No tuple is delivered to two workers, or twice to one.
DeliveredOnce == \A n \in Tuples : times[n] <= 1

\* When all streams have ended every tuple has been delivered: no chunk is
\* skipped, and the last, incomplete vector is not forgotten.
AllDelivered == (\A w \in Workers : ~running[w]) => \A n \in Tuples : times[n] = 1

\* The column pointers of the consumers, which are moved by relative steps of
\* their own, stay on the first tuple of the vector the scan delivered.
ColumnsFollow == \A w \in Workers : column[w] = lastOffset[w] /\ (~needsInit[w] /\ running[w] => column[w] \in Tuples)

\* The other tuples of a chunk belong to the worker that claimed it: what is
\* not delivered yet is in a chunk nobody has claimed or in the rest of the
\* last chunk of a worker that has not seen the end of its stream.
Rest(w) == {n \in Tuples : /\ n >= lastOffset[w] + vecSize
                           /\ n < (currentChunk[w] + 1) * scanChunkSize * vecSize}

NothingOrphaned ==
  \A n \in Tuples :
    times[n] = 0 <=> \/ n >= chunkPos * scanChunkSize * vecSize
                     \/ \E w \in Workers : running[w] /\ ~needsInit[w] /\ n \in Rest(w)

\* Every worker's stream has ended.
AllEnded == \A w \in Workers : ~running[w]

=============================================================================
