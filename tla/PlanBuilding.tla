---------------------------- MODULE PlanBuilding ----------------------------
(***************************************************************************)
(* What each worker of a query does (WorkerGroup::run with the lambdas of  *)
(* src/benchmarks/tpch/queries): it builds its own copy of the plan, the   *)
(* copies finding their shared states by number (OperatorStates), the      *)
(* ResultWriter first; then all workers share one result: they add its     *)
(* attributes (ResultBuilder::addValue, src/vectorwise/QueryBuilder.cpp),  *)
(* each in the finalizer of a barrier, run the plan, and append the        *)
(* vectors to blocks of their own (ResultWriter::next,                     *)
(* src/vectorwise/Operators.cpp, and BlockRelation,                        *)
(* common/runtime/Database).  Behind a last barrier the leader takes the   *)
(* result out of the shared state of the plan.  A block is a header and    *)
(* one column per attribute, at a distance that depends on the attributes  *)
(* before it and on the capacity of the block.                             *)
(*                                                                         *)
(* The workers are in different phases at the same time.  The barrier      *)
(* keeps the contract of Rendezvous.  The relation's list of blocks is     *)
(* locked, the blocks are private: a vector is appended in one step.       *)
(* Memory is counted in bytes from the end of the header.                  *)
(***************************************************************************)
EXTENDS Naturals, FiniteSets, Sequences

CONSTANTS
  Workers,
  ElementSizes,   \* the sizes of the attributes, in the order of the plan
  minBlockSize,
  Batches,        \* the sizes of vectors
  MaxVectors      \* bound: vectors of one worker

WorkersAssumption == IsFiniteSet(Workers) /\ Workers # {}
SizesAssumption ==
  /\ ElementSizes \in Seq(Nat \ {0}) \ {<<>>}  \* every query adds values to its result
  /\ minBlockSize \in Nat
  /\ Batches \subseteq Nat \ {0} /\ MaxVectors \in Nat

Attrs == DOMAIN ElementSizes

VARIABLES
  stage,       \* stage[w]: "add" in the barrier of addValue, "get" behind it, "write",
               \* "end" in the last barrier, "lead" behind it, "done"
  inputs,      \* inputs[w]: the attribute of each value added so far
  attributes,  \* the relation's attributes: element size and offset in the block
  rowSize,     \* its currentAttributeSize
  blocks,      \* its blocks: capacity, size and bytes
  currentBlock,\* currentBlock[w]: a place in blocks, or 0
  cells,       \* what was copied: block, first byte, size, tuple and value
  vectors,     \* vectors[w]: the vectors w has written
  found,       \* found[w]: the rows w has written
  taken,       \* who moved the result out of shared.result
  entered, left, finals, leader, result  \* the barrier

buildVars == <<inputs, attributes, rowSize>>
writeVars == <<blocks, currentBlock, cells, vectors, found, taken>>
barrierVars == <<entered, left, finals, leader, result>>
vars == <<stage, inputs, attributes, rowSize, blocks, currentBlock, cells, vectors, found,
          taken, entered, left, finals, leader, result>>

B == INSTANCE Rendezvous WITH Threads <- Workers, Calls <- Len(ElementSizes) + 1

Init ==
  /\ stage = [w \in Workers |-> "add"]
  /\ inputs = [w \in Workers |-> <<>>]
  /\ attributes = <<>>
  /\ rowSize = 0
  /\ blocks = <<>>
  /\ currentBlock = [w \in Workers |-> 0]
  /\ cells = {}
  /\ vectors = [w \in Workers |-> 0]
  /\ found = [w \in Workers |-> 0]
  /\ taken = {}
  /\ B!Init

Goto(w, s) == stage' = [stage EXCEPT ![w] = s]

\* addValue: barrier(...)
Wait(w) ==
  /\ stage[w] = "add"
  /\ B!Enter(w)
  /\ UNCHANGED <<stage, buildVars, writeVars>>

\* The finalizer: relation->addAttribute(name, buffer.dataSize)
addAttribute(w) ==
  LET size == ElementSizes[Len(inputs[w]) + 1]
  IN /\ stage[w] = "add"
     /\ B!Finalize(w)
     /\ attributes' = Append(attributes, [size |-> size, offset |-> rowSize])
     /\ rowSize' = rowSize + size
     /\ UNCHANGED <<stage, inputs, writeVars>>

Resume(w) ==
  /\ stage[w] = "add"
  /\ B!Leave(w)
  /\ Goto(w, "get")
  /\ UNCHANGED <<buildVars, writeVars>>

\* getAttribute(name), after the barrier, for the value just added; then the
\* next value, or the plan is complete.
getAttribute(w) ==
  /\ stage[w] = "get"
  /\ inputs' = [inputs EXCEPT ![w] = Append(@, Len(@) + 1)]
  /\ Goto(w, IF Len(inputs'[w]) < Len(ElementSizes) THEN "add" ELSE "write")
  /\ UNCHANGED <<attributes, rowSize, writeVars, barrierVars>>

larger(x, y) == IF x >= y THEN x ELSE y

\* The list of blocks after createBlock(n)
createBlock(n) ==
  LET elements == larger(minBlockSize, n)
  IN Append(blocks, [max |-> elements, size |-> 0, bytes |-> elements * rowSize])

spaceRemaining(w) ==
  IF currentBlock[w] = 0 THEN 0
  ELSE blocks[currentBlock[w]].max - blocks[currentBlock[w]].size

\* Where the value of an attribute in a row of a block is: data(attr) and an
\* offset into the column.
Address(block, a, row) ==
  attributes[a].offset * block.max + attributes[a].size * row

\* The block at hand has room for the whole vector.
Fits(w, n) == spaceRemaining(w) >= n

\* A vector of n rows of w goes into block k of the list known, column by column.
Copy(w, n, known, k) ==
  LET first == known[k].size
  IN /\ currentBlock' = [currentBlock EXCEPT ![w] = k]
     /\ blocks' = [known EXCEPT ![k] = [known[k] EXCEPT !.size = first + n]]
     /\ cells' = cells \cup
          {[block |-> k, from |-> Address(known[k], inputs[w][i], first + r),
            size |-> ElementSizes[i], tuple |-> <<w, found[w] + r>>, value |-> i] :
            i \in Attrs, r \in 0 .. n - 1}
     /\ found' = [found EXCEPT ![w] = @ + n]
     /\ vectors' = [vectors EXCEPT ![w] = @ + 1]

\* ResultWriter::next, one vector: into the current block, or into a new one where it
\* does not fit.
Write(w) ==
  /\ stage[w] = "write"
  /\ vectors[w] < MaxVectors
  /\ \E n \in Batches :
       \/ Fits(w, n) /\ Copy(w, n, blocks, currentBlock[w])
       \/ ~Fits(w, n) /\ Copy(w, n, createBlock(n), Len(blocks) + 1)
  /\ UNCHANGED <<stage, buildVars, taken, barrierVars>>

\* Mutant: nobody waits for the last barrier, whoever ends takes the result.
EndOfStream_NoBarrier(w) ==
  /\ stage[w] = "write"
  /\ taken' = IF taken = {} THEN {w} ELSE taken
  /\ Goto(w, "done")
  /\ UNCHANGED <<buildVars, blocks, currentBlock, cells, vectors, found, barrierVars>>

\* child->next() is at its end, and so is rootOp->next().
EndOfStream(w) ==
  /\ stage[w] = "write"
  /\ Goto(w, "end")
  /\ UNCHANGED <<buildVars, writeVars, barrierVars>>

\* auto leader = barrier()
EndBarrier(w) ==
  /\ stage[w] = "end"
  /\ \/ B!Enter(w) /\ UNCHANGED stage
     \/ B!Finalize(w) /\ UNCHANGED stage
     \/ B!Leave(w) /\ Goto(w, "lead")
  /\ UNCHANGED <<buildVars, writeVars>>

\* if (leader) result = move(shared.result)
TakeResult(w) ==
  /\ stage[w] = "lead"
  /\ taken' = IF result[w] THEN taken \cup {w} ELSE taken
  /\ Goto(w, "done")
  /\ UNCHANGED <<buildVars, blocks, currentBlock, cells, vectors, found, barrierVars>>

Finished ==
  /\ \A w \in Workers : stage[w] = "done"
  /\ UNCHANGED vars

Step(w) == \/ Wait(w) \/ addAttribute(w) \/ Resume(w) \/ getAttribute(w)
           \/ Write(w) \/ EndOfStream(w) \/ EndBarrier(w) \/ TakeResult(w)

Next == (\E w \in Workers : Step(w)) \/ Finished

Spec == Init /\ [][Next]_vars

-----------------------------------------------------------------------------

TypeOK ==
  /\ stage \in [Workers -> {"add", "get", "write", "end", "lead", "done"}]
  /\ \A w \in Workers : inputs[w] \in Seq(Nat) /\ Len(inputs[w]) <= Len(ElementSizes)
  /\ attributes \in Seq([size : Nat, offset : Nat]) /\ Len(attributes) <= Len(ElementSizes)
  /\ rowSize \in Nat
  /\ blocks \in Seq([max : Nat, size : Nat, bytes : Nat])
  /\ currentBlock \in [Workers -> 0 .. Len(blocks)]
  /\ vectors \in [Workers -> 0 .. MaxVectors] /\ found \in [Workers -> Nat]

\* All workers know the attributes by the same numbers, and each value by the
\* attribute of its own size: no worker reads the list of attributes while
\* another one adds to it.
AttributesAgree ==
  \A w \in Workers :
    /\ \A i \in DOMAIN inputs[w] :
         inputs[w][i] \in DOMAIN attributes /\ attributes[inputs[w][i]].size = ElementSizes[i]
    /\ \A u \in Workers, i \in DOMAIN inputs[w] :
         i \in DOMAIN inputs[u] => inputs[u][i] = inputs[w][i]
    /\ stage[w] = "get" => Len(attributes) = Len(inputs[w]) + 1

\* No copy overwrites another one or ends outside the block, with whatever
\* vectors the block was filled: assert(header->size <= maxNrElements) in
\* Block::addedElements among them.
CellsApart ==
  /\ \A c \in cells : c.from + c.size <= blocks[c.block].bytes
  /\ \A c, d \in cells :
       c # d /\ c.block = d.block => c.from + c.size <= d.from \/ d.from + d.size <= c.from
  /\ \A k \in DOMAIN blocks : blocks[k].size <= blocks[k].max

\* The result is moved once, and no worker still has a vector to write to it:
\* it is complete when the query returns it.
TakenComplete ==
  /\ Cardinality(taken) <= 1
  /\ taken # {} => \A w \in Workers : stage[w] \in {"end", "lead", "done"}
  /\ (\A w \in Workers : stage[w] = "done") => taken # {}

\* Whoever iterates the blocks of a result reads rows: in each row the values of one
\* tuple, every attribute at its address, and all rows of all workers.
RowsWhole ==
  /\ \A k \in DOMAIN blocks : \A row \in 0 .. blocks[k].size - 1 :
       \E c \in cells : \A a \in Attrs :
         \E d \in cells : /\ d.block = k /\ d.tuple = c.tuple /\ d.value = a
                          /\ d.from = Address(blocks[k], a, row)
  /\ \A w \in Workers : \A r \in 0 .. found[w] - 1 :
       Cardinality({c \in cells : c.tuple = <<w, r>>}) = Len(ElementSizes)

\* Workers that find their place in the result without talking to each other
\* agree on its columns, overwrite nothing and leave whole rows.
ResultSound == AttributesAgree /\ CellsApart /\ RowsWhole

-----------------------------------------------------------------------------
(* The plan and its result *)

CONSTANT Plan  \* the operators and blocks of the plan

VARIABLES
  step, opNr, onceNr, state, got, place, onceMutex, oncesExecuted, started, ended, failed

planVars == <<step, opNr, onceNr, state, got, place, onceMutex, oncesExecuted,
              started, ended, failed>>
queryVars == <<vars, planVars>>

States == INSTANCE OperatorStates WITH stage <- place

QueryInit == Init /\ States!Init

\* w has got the shared states of all operators of its plan.
PlanBuilt(w) == step[w] > Len(Plan)

BuildStep(w) == States!Step(w) /\ UNCHANGED vars

\* result().addValue(...) and the run of the plan come after its operators.
ResultStep(w) == PlanBuilt(w) /\ Step(w) /\ UNCHANGED planVars

WorkerStep(w) == BuildStep(w) \/ ResultStep(w)

QueryFinished == Finished /\ UNCHANGED planVars

QueryNext == (\E w \in Workers : WorkerStep(w)) \/ QueryFinished

\* The workers are OS threads.
QuerySpec ==
  /\ QueryInit /\ [][QueryNext]_queryVars
  /\ \A w \in Workers : WF_queryVars(WorkerStep(w))

-----------------------------------------------------------------------------

\* The variables of the plan and of its result keep their types.
TypesOK == TypeOK /\ States!TypeOK

\* SharedStateManager::get: the copies of an operator share one state, whoever
\* comes first, although the workers reach their operators at different times.
StatesShared == States!StatesShared

\* SharedStateManager::once: a block runs once, and is complete for every
\* worker that is past it.
RunsOnce == States!RunsOnce

\* Every worker is past the last barrier of its query.
AllEnded == \A w \in Workers : stage[w] = "done"

=============================================================================
