--------------------------- MODULE RuntimeBarrier ---------------------------
(***************************************************************************)
(* runtime::Barrier (include/common/runtime/Barrier.hpp): a reusable       *)
(* barrier made of a count-down counter and an 8-bit round number.  One    *)
(* action per atomic access of wait(finalizer); the threads interleave     *)
(* between any two of them.  Each thread calls wait() Calls times, as the  *)
(* workers of a query do, one call per pipeline breaker of the plan.       *)
(***************************************************************************)
EXTENDS Naturals, FiniteSets

CONSTANTS
  Threads,   \* the threads that share the barrier
  Calls,     \* how often each of them calls wait()
  RoundMod   \* the round number wraps here: 2^8 for the uint8_t of the code

ASSUME ThreadsAssumption == IsFiniteSet(Threads) /\ Threads # {}
ASSUME CallsAssumption == Calls \in Nat
ASSUME RoundModAssumption == RoundMod \in Nat /\ RoundMod >= 2

VARIABLES
  cntr,       \* threads still missing from the round
  round,      \* the round number all waiters spin on
  pc,         \* pc[t]: the next statement of t
  prevRound,  \* prevRound[t]: t's local copy of round
  waits,      \* waits[t]: how many calls t has completed
  result,     \* result[t]: what t's last completed call returned
  finals,     \* how often a finalizer has run (history)
  leader      \* who ran it last (history)

vars == <<cntr, round, pc, prevRound, waits, result, finals, leader>>

threadCount == Cardinality(Threads)

NextRound(r) == IF r + 1 = RoundMod THEN 0 ELSE r + 1

Init ==
  /\ cntr = threadCount
  /\ round = 0
  /\ pc = [t \in Threads |-> "out"]
  /\ prevRound = [t \in Threads |-> 0]
  /\ waits = [t \in Threads |-> 0]
  /\ result = [t \in Threads |-> FALSE]
  /\ finals = 0
  /\ leader \in Threads

\* Mutant: the round is not read at all, a stale copy is used.
LoadRound_Skipped(t) ==
  /\ pc[t] = "out"
  /\ waits[t] < Calls
  /\ pc' = [pc EXCEPT ![t] = "arrive"]
  /\ UNCHANGED <<cntr, round, prevRound, waits, result, finals, leader>>

\* auto prevRound = round.load(), before the counter is touched.
LoadRound(t) ==
  /\ pc[t] = "out"
  /\ waits[t] < Calls
  /\ prevRound' = [prevRound EXCEPT ![t] = round]
  /\ pc' = [pc EXCEPT ![t] = "arrive"]
  /\ UNCHANGED <<cntr, round, waits, result, finals, leader>>

\* auto prev = cntr.fetch_sub(1); if (prev == 1)
Arrive(t) ==
  /\ pc[t] = "arrive"
  /\ cntr' = cntr - 1
  /\ pc' = [pc EXCEPT ![t] = IF cntr = 1 THEN "reset" ELSE "spin"]
  /\ UNCHANGED <<round, prevRound, waits, result, finals, leader>>

\* Mutant: the counter is not restored for the next round.
ResetCounter_Missing(t) ==
  /\ pc[t] = "reset"
  /\ pc' = [pc EXCEPT ![t] = "finalize"]
  /\ UNCHANGED <<cntr, round, prevRound, waits, result, finals, leader>>

\* cntr = threadCount: the last thread prepares the next round.
ResetCounter(t) ==
  /\ pc[t] = "reset"
  /\ cntr' = threadCount
  /\ pc' = [pc EXCEPT ![t] = "finalize"]
  /\ UNCHANGED <<round, prevRound, waits, result, finals, leader>>

\* auto r = finalizer()
RunFinalizer(t) ==
  /\ pc[t] = "finalize"
  /\ finals' = finals + 1
  /\ leader' = t
  /\ pc' = [pc EXCEPT ![t] = "advance"]
  /\ UNCHANGED <<cntr, round, prevRound, waits, result>>

\* round++; return r
AdvanceRound(t) ==
  /\ pc[t] = "advance"
  /\ round' = NextRound(round)
  /\ waits' = [waits EXCEPT ![t] = @ + 1]
  /\ result' = [result EXCEPT ![t] = TRUE]
  /\ pc' = [pc EXCEPT ![t] = "out"]
  /\ UNCHANGED <<cntr, prevRound, finals, leader>>

\* Mutant: a waiter is told to lead as well.
PassRound_Leads(t) ==
  /\ pc[t] = "spin"
  /\ round # prevRound[t]
  /\ waits' = [waits EXCEPT ![t] = @ + 1]
  /\ result' = [result EXCEPT ![t] = TRUE]
  /\ pc' = [pc EXCEPT ![t] = "out"]
  /\ UNCHANGED <<cntr, round, prevRound, finals, leader>>

\* while (round == prevRound) pause; return false
PassRound(t) ==
  /\ pc[t] = "spin"
  /\ round # prevRound[t]
  /\ waits' = [waits EXCEPT ![t] = @ + 1]
  /\ result' = [result EXCEPT ![t] = FALSE]
  /\ pc' = [pc EXCEPT ![t] = "out"]
  /\ UNCHANGED <<cntr, round, prevRound, finals, leader>>

Step(t) == LoadRound(t) \/ Arrive(t) \/ ResetCounter(t) \/ RunFinalizer(t)
             \/ AdvanceRound(t) \/ PassRound(t)

\* The workers are done with their plans and stop.
Finished ==
  /\ \A t \in Threads : waits[t] = Calls
  /\ UNCHANGED vars

Next == (\E t \in Threads : Step(t)) \/ Finished

\* Each thread is an OS thread that is scheduled again and again.
Fairness == \A t \in Threads : WF_vars(Step(t))

Spec == Init /\ [][Next]_vars

FairSpec == Spec /\ Fairness

-----------------------------------------------------------------------------

\* A thread is inside the barrier from its fetch_sub to its return.
Inside(t) == pc[t] \in {"spin", "reset", "finalize", "advance"}

Entered == [t \in Threads |-> IF Inside(t) THEN waits[t] + 1 ELSE waits[t]]

Contract == INSTANCE Rendezvous WITH entered <- Entered, left <- waits

\* The barrier keeps the contract of Rendezvous: no thread returns from a
\* round of Barrier::wait before all have entered it, the finalizer runs once
\* per round with everyone inside, and the thread that ran it, and nobody
\* else, gets true.
KeepsContract == Contract!Spec

TypeOK ==
  /\ cntr \in 0 .. threadCount
  /\ round \in 0 .. RoundMod - 1
  /\ pc \in [Threads -> {"out", "arrive", "reset", "finalize", "advance", "spin"}]
  /\ prevRound \in [Threads -> 0 .. RoundMod - 1]
  /\ waits \in [Threads -> Nat]
  /\ result \in [Threads -> BOOLEAN]
  /\ finals \in Nat
  /\ leader \in Threads

\* From the moment the last thread sees prev == 1 until it bumps round it is
\* alone: every other thread is parked in the spin loop of this very round.
\* The reset of cntr and the finalizer therefore race with nobody.
LastIsAlone ==
  \A t, u \in Threads :
    pc[t] \in {"reset", "finalize", "advance"} /\ u # t =>
      pc[u] = "spin" /\ prevRound[u] = round /\ waits[u] = waits[t]

\* A waiter is at most one round behind, so the 8-bit round number can wrap
\* without a waiter ever mistaking a later round for its own.
AtMostOneBehind ==
  \A t \in Threads : pc[t] \in {"arrive", "spin"} =>
    \/ prevRound[t] = round
    \/ pc[t] = "spin" /\ NextRound(prevRound[t]) = round

\* Nobody returns from its k-th call of wait() before every thread has
\* decremented the counter in its own k-th call.
NoEarlyReturn == \A t, u \in Threads : waits[t] <= Entered[u]

\* A round of wait() is closed behind everybody: the thread that closes it races
\* with nobody, a waiter is never a full wrap of the 8-bit round behind, and
\* nobody is through before all are in.
WaitersInStep == LastIsAlone /\ AtMostOneBehind /\ NoEarlyReturn

\* Under fair scheduling every thread completes all its calls: no wake-up is
\* lost when the last thread resets and advances the barrier.
AllReturn == <>(\A t \in Threads : waits[t] = Calls)

=============================================================================
