------------------------- MODULE HierarchicBarrier --------------------------
(***************************************************************************)
(* runtime::HierarchicBarrier (include/common/runtime/Barrier.hpp): a tree *)
(* of Barriers with at most threadsPerBarrier participants each.  The last *)
(* thread to arrive at a barrier of the tree enters the parent from within *)
(* its finalizer; at the root the caller's finalizer runs.  Then the       *)
(* barriers are released on the way back down.                             *)
(*                                                                         *)
(* The threads are numbered as WorkerGroup::run numbers its workers, the   *)
(* calling thread being the last; barrier <<l, i>> is the i-th one of the  *)
(* l-th level, level 1 holding the barriers the workers wait on.           *)
(***************************************************************************)
EXTENDS Naturals

CONSTANTS
  nrThreads,          \* the number of workers
  threadsPerBarrier,  \* the fan-in of the tree (8 in the code)
  Calls,              \* how often each worker calls wait()
  RoundMod            \* the round numbers wrap here (2^8)

TreeAssumption ==
  /\ nrThreads \in Nat \ {0}
  /\ threadsPerBarrier \in Nat \ {0, 1}
  /\ Calls \in Nat
  /\ RoundMod \in Nat \ {0, 1}

Workers == 0 .. nrThreads - 1

\* create(n) makes n / threadsPerBarrier full barriers and, if threads remain,
\* one more for the rest; the level above has one participant per barrier.
NrBarriers(n) == n \div threadsPerBarrier + (IF n % threadsPerBarrier > 0 THEN 1 ELSE 0)

\* The participants of level l: the threads, then the barriers below.
Participants[l \in 1 .. nrThreads] ==
  IF l = 1 THEN nrThreads ELSE NrBarriers(Participants[l - 1])

\* The root is the level that one barrier suffices for.
Levels == {l \in 1 .. nrThreads : l = 1 \/ Participants[l] > 1}

Barriers == {<<l, i>> : l \in Levels, i \in 0 .. nrThreads} \cap
            UNION {{l} \X (0 .. NrBarriers(Participants[l]) - 1) : l \in Levels}

IsRoot(b) == b[1] + 1 \notin Levels

parent(b) == <<b[1] + 1, b[2] \div threadsPerBarrier>>

\* The last barrier of a level is the one "which has too few threads".
threadCount(b) ==
  LET all == Participants[b[1]]
      full == all \div threadsPerBarrier
  IN IF b[2] < full THEN threadsPerBarrier ELSE all % threadsPerBarrier

\* The barrier worker t waits on: barriers[t / threadsPerBarrier], and
\* barriers.back() for the calling thread.
barrierOf(t) ==
  IF t = nrThreads - 1
    THEN <<1, NrBarriers(nrThreads) - 1>>
    ELSE <<1, t \div threadsPerBarrier>>

\* above[l][t]: the barrier of level l that stands above worker t, its own on
\* level 1 and from there on the parent of the one below.
above[l \in 1 .. nrThreads] ==
  IF l = 1 THEN [t \in Workers |-> barrierOf(t)]
           ELSE [t \in Workers |-> parent(above[l - 1][t])]

VARIABLES
  cntr, round,  \* cntr[b], round[b]: the two atomics of barrier b
  pc,           \* pc[t]: t's next statement in the innermost Barrier::wait
  at,           \* at[t]: the barrier of that call
  prevRound,    \* prevRound[t]: its local copy of the round
  returns,      \* returns[t]: what the innermost call returns
  waits,        \* waits[t]: calls of HierarchicBarrier::wait t has completed
  result,       \* result[t]: what the last of them returned
  finals,       \* how often a caller's finalizer ran (history)
  leader        \* who ran it last (history)

vars == <<cntr, round, pc, at, prevRound, returns, waits, result, finals, leader>>

Init ==
  /\ cntr = [b \in Barriers |-> threadCount(b)]
  /\ round = [b \in Barriers |-> 0]
  /\ pc = [t \in Workers |-> "out"]
  /\ at = [t \in Workers |-> barrierOf(t)]
  /\ prevRound = [t \in Workers |-> 0]
  /\ returns = [t \in Workers |-> FALSE]
  /\ waits = [t \in Workers |-> 0]
  /\ result = [t \in Workers |-> FALSE]
  /\ finals = 0
  /\ leader \in Workers

Goto(t, l) == pc' = [pc EXCEPT ![t] = l]

\* prevRound = round.load(), on entry to wait() or to the parent's wait().
LoadRound(t) ==
  /\ pc[t] \in {"out", "climb"}
  /\ waits[t] < Calls
  /\ prevRound' = [prevRound EXCEPT ![t] = round[at[t]]]
  /\ Goto(t, "arrive")
  /\ UNCHANGED <<cntr, round, at, returns, waits, result, finals, leader>>

\* prev = cntr.fetch_sub(1)
Arrive(t) ==
  /\ pc[t] = "arrive"
  /\ cntr' = [cntr EXCEPT ![at[t]] = @ - 1]
  /\ Goto(t, IF cntr[at[t]] = 1 THEN "reset" ELSE "spin")
  /\ UNCHANGED <<round, at, prevRound, returns, waits, result, finals, leader>>

\* cntr = threadCount
ResetCounter(t) ==
  /\ pc[t] = "reset"
  /\ cntr' = [cntr EXCEPT ![at[t]] = threadCount(at[t])]
  /\ Goto(t, "finalize")
  /\ UNCHANGED <<round, at, prevRound, returns, waits, result, finals, leader>>

\* Mutant: the barrier below is released before the parent has been passed.
Climb_ReleasesFirst(t) ==
  /\ pc[t] = "finalize"
  /\ ~ IsRoot(at[t])
  /\ round' = [round EXCEPT ![at[t]] = (@ + 1) % RoundMod]
  /\ at' = [at EXCEPT ![t] = parent(@)]
  /\ Goto(t, "climb")
  /\ UNCHANGED <<cntr, prevRound, returns, waits, result, finals, leader>>

\* The finalizer of a barrier below the root: p->wait(finalizer).
Climb(t) ==
  /\ pc[t] = "finalize"
  /\ ~ IsRoot(at[t])
  /\ at' = [at EXCEPT ![t] = parent(@)]
  /\ Goto(t, "climb")
  /\ UNCHANGED <<cntr, round, prevRound, returns, waits, result, finals, leader>>

\* The finalizer of the root: finalizer(); return true.
RunFinalizer(t) ==
  /\ pc[t] = "finalize"
  /\ IsRoot(at[t])
  /\ finals' = finals + 1
  /\ leader' = t
  /\ returns' = [returns EXCEPT ![t] = TRUE]
  /\ Goto(t, "advance")
  /\ UNCHANGED <<cntr, round, at, prevRound, waits, result>>

\* Mutant: a waiter is told to lead, and tells the barriers below so.
PassRound_Leads(t) ==
  /\ pc[t] = "spin"
  /\ round[at[t]] # prevRound[t]
  /\ returns' = [returns EXCEPT ![t] = TRUE]
  /\ Goto(t, "return")
  /\ UNCHANGED <<cntr, round, at, prevRound, waits, result, finals, leader>>

\* while (round == prevRound) pause; return false
PassRound(t) ==
  /\ pc[t] = "spin"
  /\ round[at[t]] # prevRound[t]
  /\ returns' = [returns EXCEPT ![t] = FALSE]
  /\ Goto(t, "return")
  /\ UNCHANGED <<cntr, round, at, prevRound, waits, result, finals, leader>>

\* round++; return r
AdvanceRound(t) ==
  /\ pc[t] = "advance"
  /\ round' = [round EXCEPT ![at[t]] = (@ + 1) % RoundMod]
  /\ Goto(t, "return")
  /\ UNCHANGED <<cntr, at, prevRound, returns, waits, result, finals, leader>>

\* Mutant: the barrier below is not released on the way down.
ReturnBelow_NoRelease(t) ==
  /\ pc[t] = "return"
  /\ at[t] # barrierOf(t)
  /\ at' = [at EXCEPT ![t] = above[@[1] - 1][t]]
  /\ Goto(t, "return")
  /\ UNCHANGED <<cntr, round, prevRound, returns, waits, result, finals, leader>>

\* A wait() in the parent returns into the finalizer of the barrier below...
ReturnBelow(t) ==
  /\ pc[t] = "return"
  /\ at[t] # barrierOf(t)
  /\ at' = [at EXCEPT ![t] = above[@[1] - 1][t]]
  /\ Goto(t, "advance")
  /\ UNCHANGED <<cntr, round, prevRound, returns, waits, result, finals, leader>>

\* ...and the outermost one to the worker.
Return(t) ==
  /\ pc[t] = "return"
  /\ at[t] = barrierOf(t)
  /\ waits' = [waits EXCEPT ![t] = @ + 1]
  /\ result' = [result EXCEPT ![t] = returns[t]]
  /\ Goto(t, "out")
  /\ UNCHANGED <<cntr, round, at, prevRound, returns, finals, leader>>

Step(t) == LoadRound(t) \/ Arrive(t) \/ ResetCounter(t) \/ Climb(t) \/ RunFinalizer(t)
             \/ PassRound(t) \/ AdvanceRound(t) \/ ReturnBelow(t) \/ Return(t)

Finished == (\A t \in Workers : waits[t] = Calls) /\ UNCHANGED vars

Next == (\E t \in Workers : Step(t)) \/ Finished

Spec == Init /\ [][Next]_vars

FairSpec == Spec /\ \A t \in Workers : WF_vars(Step(t))

-----------------------------------------------------------------------------

\* A worker has entered the round once it is counted in its own barrier.
Entered ==
  [t \in Workers |->
    IF pc[t] = "out" \/ (pc[t] = "arrive" /\ at[t] = barrierOf(t))
      THEN waits[t] ELSE waits[t] + 1]

Contract == INSTANCE Rendezvous WITH
  Threads <- Workers, entered <- Entered, left <- waits

\* The tree as a whole keeps the contract of a single barrier: all workers
\* meet, the finalizer runs once per round, one worker is told to lead.
KeepsContract == Contract!Spec

TypeOK ==
  /\ \A b \in Barriers : cntr[b] \in 0 .. threadCount(b)
  /\ round \in [Barriers -> 0 .. RoundMod - 1]
  /\ at \in [Workers -> Barriers]
  /\ pc \in [Workers -> {"out", "climb", "arrive", "reset", "finalize", "advance",
                         "spin", "return"}]

\* t was the last to arrive at barrier b and has not released it yet: it is
\* closing b, or has gone up the tree from b.
Closes(t, b) ==
  /\ b = above[b[1]][t]
  /\ \/ at[t] = b /\ pc[t] \in {"reset", "finalize", "advance"}
     \/ at[t][1] > b[1]

\* While a worker closes a barrier, on behalf of all workers below it, every
\* other worker below waits in the spin loop of the round being closed: what
\* goes up the tree stands for the whole subtree, exactly once.
SubtreeWaits ==
  \A b \in Barriers, t, u \in Workers :
    Closes(t, b) /\ u # t /\ b = above[b[1]][u] =>
      /\ pc[u] = "spin" /\ prevRound[u] = round[at[u]]
      /\ at[u][1] <= b[1]
      /\ waits[u] = waits[t]

\* Every worker completes every call: releasing the tree top-down strands
\* nobody.
AllReturn == <>(\A t \in Workers : waits[t] = Calls)

=============================================================================
