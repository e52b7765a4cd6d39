---------------------------- MODULE QueryWorkers ----------------------------
(***************************************************************************)
(* Which Worker object a thread works with, from which pool it takes       *)
(* memory and at which barrier it waits, while a driver runs one query     *)
(* after the other: compiled ones between initQuery and leaveQuery         *)
(* (src/include/hyper/ParallelHelper.hpp), vectorwise ones in              *)
(* WorkerGroup::run (src/include/common/runtime/Concurrency.hpp).          *)
(*                                                                         *)
(* A driver creates a scheduler for as many threads as a query is told to  *)
(* use.  TBB, which is external, lets any idle thread take any task; it is *)
(* assumed to keep the threads it has, and to give each iteration of the   *)
(* two loops a task of its own.                                            *)
(*                                                                         *)
(* Nobody passes a barrier before all have come (RuntimeBarrier,           *)
(* HierarchicBarrier); what a pool gives is named by the pool: that of a   *)
(* query, which lives as long as its result, or defaultPool, 0.            *)
(***************************************************************************)
EXTENDS Naturals, FiniteSets

CONSTANTS
  Threads,     \* the threads of the scheduler
  Main,        \* the one the driver runs on
  nrThreads,   \* how many a query is told to use
  MaxQueries   \* bound: queries a driver runs

\* task_scheduler_init scheduler(nrThreads)
ThreadsAssumption ==
  IsFiniteSet(Threads) /\ Main \in Threads /\ nrThreads = Cardinality(Threads) /\ MaxQueries \in Nat

VARIABLES
  phase,       \* what the driver is in: "driver" between two queries, "init",
               \* "compiled", "leave", or "run" in WorkerGroup::run
  query,       \* the number of the query, 0 before the first
  worker,      \* the Worker objects there are, with their members
  thisWorker,  \* this_worker of each thread
  tasks,       \* the tasks no thread has taken yet
  at,          \* at[t]: where t is in its task
  previous,    \* previous[t]: local variables: the source before participate
  team,        \* prevGroup, prevBarrierPtr of run
  before,      \* this_worker of each thread before the query (history)
  foreign      \* a thread took memory or waited with an object that is gone, or
               \* that is not its query's (history)

vars == <<phase, query, worker, thisWorker, tasks, at, previous, team, before, foreign>>

mainWorker == <<0, 0>>
NoWorker == <<0, 1>>   \* this_worker of a thread that never had one
None == MaxQueries + 1

\* The group and the barrier of a worker are set together: mainGroup and
\* mainBarrier are 0, those of a WorkerGroup the number of its query.
Worker(group, source) == [previousWorker |-> NoWorker, group |-> group, source |-> source]

Live == DOMAIN worker
Drop(gone) == worker' = [w \in Live \ gone |-> worker[w]]
OfQuery == {w \in Live : w[1] = query /\ w # mainWorker}

Init ==
  /\ phase = "driver" /\ query = 0
  /\ worker = [w \in {mainWorker} |-> Worker(0, 0)]
  /\ thisWorker = [t \in Threads |-> IF t = Main THEN mainWorker ELSE NoWorker]
  /\ tasks = {} /\ at = [t \in Threads |-> "idle"]
  /\ previous = [t \in Threads |-> None] /\ team = None
  /\ before = thisWorker /\ foreign = FALSE

Idle(t) == at[t] = "idle"
AllIdle == \A t \in Threads : Idle(t)
Goto(t, place) == at' = [at EXCEPT ![t] = place]

\* participate() and setSource: this_worker's allocator takes memory from the pool.
SetSource(t, pool) == worker' = [worker EXCEPT ![thisWorker[t]].source = pool]

\* What it means to use this_worker for the running query.
Uses(t) ==
  LET w == thisWorker[t] IN
  /\ w \in Live /\ worker[w].source = query
  /\ \A u \in Threads \ {t} : thisWorker[u] # w

\* The result of the query before and its pool are deleted; the next query begins.
Begin(style) ==
  /\ phase = "driver" /\ query < MaxQueries
  /\ query' = query + 1 /\ phase' = style
  /\ before' = thisWorker

-----------------------------------------------------------------------------
(* A compiled query *)

\* initQuery: the workers are created, then the loop starts.
BeginCompiled ==
  /\ Begin("init")
  /\ worker' = [w \in Live \cup {<<query + 1, i>> : i \in 0 .. nrThreads - 1} |->
                  IF w \in Live THEN worker[w] ELSE Worker(None, None)]
  /\ tasks' = 0 .. nrThreads - 1
  /\ UNCHANGED <<thisWorker, at, previous, team, foreign>>

\* Mutant: the iterations do not wait for each other, so a thread may run two.
InitIteration_NoBarrier(t) ==
  /\ phase = "init" /\ Idle(t)
  /\ \E i \in tasks :
       /\ tasks' = tasks \ {i}
       /\ worker' = [worker EXCEPT ![<<query, i>>].previousWorker = thisWorker[t],
                                   ![<<query, i>>].source = query]
       /\ thisWorker' = [thisWorker EXCEPT ![t] = <<query, i>>]
  /\ UNCHANGED <<phase, query, at, previous, team, before, foreign>>

InitIteration(t) ==
  /\ phase = "init" /\ Idle(t)
  /\ \E i \in tasks :
       /\ tasks' = tasks \ {i}
       /\ worker' = [worker EXCEPT ![<<query, i>>].previousWorker = thisWorker[t],
                                   ![<<query, i>>].source = query]
       /\ thisWorker' = [thisWorker EXCEPT ![t] = <<query, i>>]
  /\ Goto(t, "loop barrier")
  /\ UNCHANGED <<phase, query, previous, team, before, foreign>>

\* b.wait(): all iterations have come when none is left to be taken.
PassLoopBarrier(t) ==
  /\ at[t] = "loop barrier" /\ tasks = {}
  /\ Goto(t, "idle")
  /\ UNCHANGED <<phase, query, worker, thisWorker, tasks, previous, team, before, foreign>>

InitOver ==
  /\ phase = "init" /\ tasks = {} /\ AllIdle
  /\ phase' = "compiled"
  /\ UNCHANGED <<query, worker, thisWorker, tasks, at, previous, team, before, foreign>>

\* A task of the query, on any thread, takes memory.
Morsel(t) ==
  /\ phase = "compiled" /\ foreign' = (foreign \/ ~Uses(t))
  /\ UNCHANGED <<phase, query, worker, thisWorker, tasks, at, previous, team, before>>

BeginLeave ==
  /\ phase = "compiled"
  /\ phase' = "leave" /\ tasks' = 0 .. nrThreads - 1
  /\ UNCHANGED <<query, worker, thisWorker, at, previous, team, before, foreign>>

\* leaveQuery, where this_worker is dereferenced.
LeaveIteration(t) ==
  /\ phase = "leave" /\ Idle(t)
  /\ \E i \in tasks : tasks' = tasks \ {i}
  /\ foreign' = (foreign \/ thisWorker[t] \notin OfQuery)
  /\ thisWorker' = [thisWorker EXCEPT ![t] =
                      IF @ \in Live THEN worker[@].previousWorker ELSE NoWorker]
  /\ Goto(t, "loop barrier")
  /\ UNCHANGED <<phase, query, worker, previous, team, before>>

\* The query returns: its workers are destroyed, the result and its pool live on.
EndCompiled ==
  /\ phase = "leave" /\ tasks = {} /\ AllIdle
  /\ phase' = "driver" /\ Drop(OfQuery)
  /\ UNCHANGED <<query, thisWorker, tasks, at, previous, team, before, foreign>>

-----------------------------------------------------------------------------
(* A vectorwise query: WorkerGroup::run *)

BeginRun ==
  /\ Begin("run")
  /\ Goto(Main, "spawn")
  /\ UNCHANGED <<worker, thisWorker, tasks, previous, team, foreign>>

Spawned == Cardinality(OfQuery)

\* One round of the loop over the workers, all but the calling thread.
Spawn ==
  /\ at[Main] = "spawn" /\ Spawned < nrThreads - 1
  /\ worker' = [w \in Live \cup {<<query, Spawned>>} |->
                  IF w \in Live THEN worker[w] ELSE Worker(query, None)]
  /\ tasks' = tasks \cup {Spawned}
  /\ UNCHANGED <<phase, query, thisWorker, at, previous, team, before, foreign>>

\* Worker::start() in a task.
StartWorker(t) ==
  /\ phase = "run" /\ Idle(t)
  /\ \E i \in tasks :
       /\ tasks' = tasks \ {i}
       /\ thisWorker' = [thisWorker EXCEPT ![t] = <<query, i>>]
  /\ Goto(t, "participate")
  /\ UNCHANGED <<phase, query, worker, previous, team, before, foreign>>

\* The calling thread joins the group.
JoinGroup ==
  /\ at[Main] = "spawn" /\ Spawned = nrThreads - 1
  /\ team' = worker[thisWorker[Main]].group
  /\ worker' = [worker EXCEPT ![thisWorker[Main]].group = query]
  /\ Goto(Main, "participate")
  /\ UNCHANGED <<phase, query, thisWorker, tasks, previous, before, foreign>>

\* getQuery: previous = result->participate()
Participate(t) ==
  /\ at[t] = "participate"
  /\ previous' = [previous EXCEPT ![t] = worker[thisWorker[t]].source]
  /\ SetSource(t, query)
  /\ Goto(t, "plan")
  /\ UNCHANGED <<phase, query, thisWorker, tasks, team, before, foreign>>

\* The query takes memory; then all meet at the barrier of their workers.
RunPlan(t) ==
  /\ at[t] = "plan"
  /\ foreign' = (foreign \/ ~Uses(t) \/ worker[thisWorker[t]].group # query)
  /\ Goto(t, "last barrier")
  /\ UNCHANGED <<phase, query, worker, thisWorker, tasks, previous, team, before>>

PassLastBarrier(t) ==
  /\ at[t] = "last barrier"
  /\ tasks = {} /\ \A u \in Threads : at[u] \notin {"spawn", "participate", "plan"}
  /\ Goto(t, "leave")
  /\ UNCHANGED <<phase, query, worker, thisWorker, tasks, previous, team, before, foreign>>

\* ~QueryBuilder
Leave(t) ==
  /\ at[t] = "leave"
  /\ SetSource(t, previous[t])
  /\ previous' = [previous EXCEPT ![t] = None]
  /\ Goto(t, IF t = Main THEN "restore" ELSE "idle")
  /\ UNCHANGED <<phase, query, thisWorker, tasks, team, before, foreign>>

\* f() has returned to run: the calling thread leaves the group; g.wait() begins,
\* in which it may take tasks as any other thread.
LeaveGroup ==
  /\ at[Main] = "restore"
  /\ worker' = [worker EXCEPT ![thisWorker[Main]].group = team]
  /\ team' = None
  /\ Goto(Main, "idle")
  /\ UNCHANGED <<phase, query, thisWorker, tasks, previous, before, foreign>>

\* The query returns; this_worker of the other threads still points to workers
\* that are destroyed with the group.
EndRun ==
  /\ phase = "run" /\ tasks = {} /\ AllIdle
  /\ phase' = "driver" /\ Drop(OfQuery)
  /\ UNCHANGED <<query, thisWorker, tasks, at, previous, team, before, foreign>>

-----------------------------------------------------------------------------

CompiledStep(t) == InitIteration(t) \/ PassLoopBarrier(t) \/ LeaveIteration(t)
RunStep(t) ==
  StartWorker(t) \/ Participate(t) \/ RunPlan(t) \/ PassLastBarrier(t) \/ Leave(t)
MainStep ==
  \/ InitOver \/ BeginLeave \/ EndCompiled \/ Spawn \/ JoinGroup \/ LeaveGroup \/ EndRun
Step(t) == CompiledStep(t) \/ RunStep(t) \/ (t = Main /\ MainStep)

Finished == phase = "driver" /\ query = MaxQueries /\ UNCHANGED vars

Next == \/ \E t \in Threads : Step(t) \/ Morsel(t)
        \/ BeginCompiled \/ BeginRun \/ Finished
Spec == Init /\ [][Next]_vars

\* TBB's threads are OS threads that take tasks while there are any; the driver
\* need not go on.
FairSpec == Spec /\ \A t \in Threads : WF_vars(Step(t))

-----------------------------------------------------------------------------

WorkerNames == {mainWorker, NoWorker} \cup (1 .. MaxQueries) \X (0 .. nrThreads - 1)

TypeOK ==
  /\ phase \in {"driver", "init", "compiled", "leave", "run"} /\ query \in 0 .. MaxQueries
  /\ Live \subseteq WorkerNames
  /\ \A w \in Live : worker[w] \in [previousWorker : WorkerNames, group : 0 .. None, source : 0 .. None]
  /\ thisWorker \in [Threads -> WorkerNames] /\ before \in [Threads -> WorkerNames]
  /\ tasks \subseteq 0 .. nrThreads - 1
  /\ at \in [Threads -> {"idle", "loop barrier", "spawn", "participate", "plan", "last barrier",
                         "leave", "restore"}]
  /\ previous \in [Threads -> 0 .. None] /\ team \in 0 .. None
  /\ foreign \in BOOLEAN

\* Whoever works for a query does so with a worker of its own that exists, takes
\* memory from the pool that lives as long as the result, and waits at the barrier
\* of the query.  Pointers to workers that are gone remain, but nobody follows one.
NothingForeign == ~foreign

\* When leaveQuery has run, every thread has the worker it had before initQuery.
\* Between two queries the driver's thread has its own worker, which takes memory
\* from a pool that is never deleted and is in no group that is gone.
Restored ==
  /\ phase = "leave" /\ tasks = {} /\ AllIdle => thisWorker = before
  /\ phase = "driver" => /\ Live = {mainWorker} /\ thisWorker[Main] = mainWorker
                         /\ worker[mainWorker] = Worker(0, 0)

\* The driver is between two queries.
Returned == phase = "driver"
=============================================================================
