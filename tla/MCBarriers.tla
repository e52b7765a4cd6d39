----------------------------- MODULE MCBarriers -----------------------------
(***************************************************************************)
(* TLC instance of the two barriers, runtime::Barrier and                  *)
(* runtime::HierarchicBarrier.  A behaviour uses one of them; the other    *)
(* one stays as it was created.                                            *)
(***************************************************************************)
EXTENDS RuntimeBarrier

CONSTANTS
  nrThreads, threadsPerBarrier,  \* the shape of the tree
  TreeCalls                      \* how often each of its workers calls wait()

VARIABLES
  kind,  \* the barrier in use
  treeCntr, treeRound, treePc, at, treePrevRound, returns, treeWaits, treeResult,
  treeFinals, treeLeader

treeVars == <<treeCntr, treeRound, treePc, at, treePrevRound, returns, treeWaits,
              treeResult, treeFinals, treeLeader>>

Tree == INSTANCE HierarchicBarrier WITH
  Calls <- TreeCalls,
  cntr <- treeCntr, round <- treeRound, pc <- treePc, prevRound <- treePrevRound,
  waits <- treeWaits, result <- treeResult, finals <- treeFinals, leader <- treeLeader

ASSUME TreeIsBuilt == Tree!TreeAssumption

\* Who led last does not matter before anybody has led.
MCInit ==
  /\ kind \in {"one", "tree"}
  /\ Init /\ leader = CHOOSE t \in Threads : TRUE
  /\ Tree!Init /\ treeLeader = 0

OneStep(t) == kind = "one" /\ Step(t) /\ UNCHANGED <<kind, treeVars>>
TreeStep(t) == kind = "tree" /\ Tree!Step(t) /\ UNCHANGED <<kind, vars>>

OneFinished == kind = "one" /\ Finished /\ UNCHANGED <<kind, treeVars>>
TreeFinished == kind = "tree" /\ Tree!Finished /\ UNCHANGED <<kind, vars>>

MCNext ==
  \/ \E t \in Threads : OneStep(t)
  \/ \E t \in Tree!Workers : TreeStep(t)
  \/ OneFinished
  \/ TreeFinished

allVars == <<kind, vars, treeVars>>

\* Each thread is an OS thread that is scheduled again and again.
MCSpec ==
  /\ MCInit /\ [][MCNext]_allVars
  /\ \A t \in Threads : WF_allVars(OneStep(t))
  /\ \A t \in Tree!Workers : WF_allVars(TreeStep(t))

-----------------------------------------------------------------------------

\* The atomics and the positions of the threads, of both barriers.
TypesOK == TypeOK /\ Tree!TypeOK

\* HierarchicBarrier::wait: while a worker closes a barrier of the tree, all
\* others below it spin in the round being closed, so what goes up the tree
\* stands for the whole subtree, exactly once.
SubtreeWaits == Tree!SubtreeWaits

\* The tree as a whole keeps the contract of a single barrier: all workers
\* meet, the finalizer runs once per round, one worker is told to lead.
TreeKeepsContract == Tree!KeepsContract

\* Every thread completes every call of wait(): no wake-up is lost when the
\* last thread advances a round, and releasing the tree from the root down
\* strands nobody.
EveryoneReturns ==
  /\ kind = "one" => AllReturn
  /\ kind = "tree" => Tree!AllReturn
=============================================================================
