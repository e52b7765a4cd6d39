------------------------ MODULE MCParallelOperators ------------------------
(***************************************************************************)
(* TLC instance of the operators whose copies in all workers share state:  *)
(* the scan, the build side of the hash join and the aggregation, of the   *)
(* plans that the workers build and of the result they fill, and of the    *)
(* change from query to query.  A behaviour shows one of them; the others  *)
(* stay idle.                                                              *)
(***************************************************************************)
EXTENDS HashJoinBuild, TLC

CONSTANTS
  MaxTuples, ChunkSizes, VecSizes,            \* the scan
  Groupers, nrPartitions, maxFill, MaxCount,  \* the aggregation and its workers, also the plan's
  Keys, partitionOf,                          \* its keys and their partitions
  a, b, c,                                    \* the keys here, a and b in one partition
  Plan, ElementSizes, minBlockSize, Batches,  \* the plan and its result
  Main, nrThreads, MaxQueries                 \* the queries and their threads, Workers

MCKeys == {a, b, c}
MCpartitionOf == a :> 0 @@ b :> 0 @@ c :> 1

\* Two blocks in a row and operators of two types around them; a numeric and a
\* character attribute.
MCPlan == <<"ResultWriter", "once", "once", "Scan">>
MCElementSizes == <<8, 1>>

VARIABLES
  operator,  \* the one that runs
  nrTuples, scanChunkSize, vecSize, chunkPos, needsInit, vecInChunk, currentChunk,
  lastOffset, column, running, times,
  tuples, todo, groupStage, groupHt, created, spill, nextPart, partition, merged,
  unsent, sent, groupEntered, groupReturned, groupFinals, groupLeader, groupResult,
  phase, query, worker, thisWorker, tasks, at, previous, team, before, foreign,
  planStage, inputs, attributes, rowSize, blocks, currentBlock, cells, vectors, rows, taken,
  planEntered, planLeft, planFinals, planLeader, planResult,
  step, opNr, onceNr, state, got, place, onceMutex, oncesExecuted, started, ended, failed

scanVars == <<nrTuples, scanChunkSize, vecSize, chunkPos, needsInit, vecInChunk,
              currentChunk, lastOffset, column, running, times>>
groupVars == <<tuples, todo, groupStage, groupHt, created, spill, nextPart, partition,
               merged, unsent, sent, groupEntered, groupReturned, groupFinals,
               groupLeader, groupResult>>

queriesVars == <<phase, query, worker, thisWorker, tasks, at, previous, team, before, foreign>>
planVars == <<planStage, inputs, attributes, rowSize, blocks, currentBlock, cells, vectors, rows, taken,
              planEntered, planLeft, planFinals, planLeader, planResult,
              step, opNr, onceNr, state, got, place, onceMutex, oncesExecuted, started, ended, failed>>

Scan == INSTANCE MorselScan
Queries == INSTANCE QueryWorkers WITH Threads <- Workers
Group == INSTANCE HashGroup WITH
  Workers <- Groupers, MaxTuples <- MaxCount,
  input <- tuples, stage <- groupStage, ht <- groupHt, entered <- groupEntered,
  returned <- groupReturned, finals <- groupFinals, leader <- groupLeader,
  result <- groupResult
Building == INSTANCE PlanBuilding WITH
  Workers <- Groupers, stage <- planStage, found <- rows, entered <- planEntered,
  left <- planLeft, finals <- planFinals, leader <- planLeader, result <- planResult

ASSUME ScanAssumption == Scan!WorkersAssumption /\ Scan!SizesAssumption
ASSUME QueriesAssumption == Queries!ThreadsAssumption
ASSUME GroupAssumption ==
  Groupers \subseteq Workers /\ Group!WorkersAssumption /\ Group!PartitionAssumption /\ Group!FillAssumption
ASSUME PlanAssumption ==
  /\ Building!SizesAssumption
  /\ Building!States!PlanAssumption /\ Building!States!WorkersAssumption

\* What an idle operator would find, and who led a barrier that was never
\* passed, does not matter.
MCInit ==
  /\ operator \in {"scan", "build", "group", "plan", "queries"}
  /\ Init /\ leader = CHOOSE w \in Workers : TRUE
  /\ operator # "build" => input = [j \in Joins |-> {}]
  /\ Scan!Init
  /\ operator # "scan" => /\ nrTuples = 0
                          /\ scanChunkSize = CHOOSE s \in ChunkSizes : TRUE
                          /\ vecSize = CHOOSE s \in VecSizes : TRUE
  /\ Group!Init /\ groupLeader = CHOOSE w \in Groupers : TRUE
  /\ operator # "group" => tuples = Group!NoGroups
  /\ Queries!Init
  /\ Building!QueryInit /\ planLeader = CHOOSE w \in Groupers : TRUE

ScanOnly(A) ==
  operator = "scan" /\ A /\ UNCHANGED <<operator, vars, groupVars, planVars, queriesVars>>
BuildOnly(A) ==
  operator = "build" /\ A /\ UNCHANGED <<operator, scanVars, groupVars, planVars, queriesVars>>
GroupOnly(A) ==
  operator = "group" /\ A /\ UNCHANGED <<operator, vars, scanVars, planVars, queriesVars>>
PlanOnly(A) ==
  operator = "plan" /\ A /\ UNCHANGED <<operator, vars, scanVars, groupVars, queriesVars>>
QueriesOnly(A) ==
  operator = "queries" /\ A /\ UNCHANGED <<operator, vars, scanVars, groupVars, planVars>>

WorkerStep(w) ==
  \/ ScanOnly(Scan!Step(w))
  \/ BuildOnly(Step(w))
  \/ QueriesOnly(Queries!Step(w))
  \/ w \in Groupers /\ (GroupOnly(Group!Step(w)) \/ PlanOnly(Building!WorkerStep(w)))

MCNext ==
  \/ \E w \in Workers : WorkerStep(w) \/ QueriesOnly(Queries!Morsel(w))
  \/ QueriesOnly(Queries!BeginCompiled \/ Queries!BeginRun \/ Queries!Finished)
  \/ ScanOnly(Scan!Finished) \/ BuildOnly(Finished) \/ GroupOnly(Group!Finished)
  \/ PlanOnly(Building!QueryFinished)

allVars == <<operator, vars, scanVars, groupVars, planVars, queriesVars>>

\* Workers are OS threads that are scheduled again and again, or take tasks while
\* there are any.
MCSpec == MCInit /\ [][MCNext]_allVars /\ \A w \in Workers : WF_allVars(WorkerStep(w))

-----------------------------------------------------------------------------

\* The variables of all keep their types.
TypesOK == TypeOK /\ Scan!TypeOK /\ Group!TypeOK /\ Queries!TypeOK /\ Building!TypesOK

\* No tuple of a scan is delivered to two workers, or twice to one; what is not
\* delivered yet is in a chunk nobody has claimed or in the rest of the last
\* chunk of a worker that has not seen the end of its stream, so that in the end
\* every tuple has been; and the column pointers of the scan's consumers, which
\* are moved by relative steps of their own, stay on the vector it delivered.
ScanExact ==
  Scan!DeliveredOnce /\ Scan!NothingOrphaned /\ Scan!AllDelivered /\ Scan!ColumnsFollow

\* A group is delivered once, by one worker, with all the tuples of its key,
\* whichever workers aggregated them and however often they flushed; when the
\* streams of all workers have ended, every key that occurred has been.
GroupsRight == Group!GroupsExact /\ Group!GroupsComplete

\* While a partition is merged nobody spills: phase 2 reads the other workers'
\* spill storage, which has no lock, after the last write to it; and two workers
\* never work on the same partition.
PhasesApart == Group!SpillFrozen /\ Group!PartitionsApart

\* Workers that build their copies of a plan at different times agree on its shared
\* states, and each block runs once and is complete for every worker that is past it.
WorkersAgree == Building!StatesShared /\ Building!RunsOnce

\* They find their places in the result without talking to each other, leave whole
\* rows, and the result is taken once, when all of them have written theirs.
ResultsComplete == Building!ResultSound /\ Building!TakenComplete

\* Whoever works for a query does so with a worker of its own that exists, takes
\* memory from the query's pool and waits at the query's barrier; when the query
\* has returned, the threads have the workers and pools they had before.
WorkersOwn == Queries!NothingForeign /\ Queries!Restored

\* Every worker's stream of every operator ends: no worker is left in a barrier
\* of a build or an aggregation, also when a build side is empty; no worker is left at
\* the mutex of once() or in a barrier of a plan, which all must enter equally often;
\* and every query returns, no thread is left in a barrier for want of another one.
EveryoneEnds ==
  []<>CASE operator = "scan" -> Scan!AllEnded
        [] operator = "build" -> AllFinished
        [] operator = "group" -> Group!AllEnded
        [] operator = "plan" -> Building!AllEnded
        [] operator = "queries" -> Queries!Returned
=============================================================================
