----------------------------- MODULE Rendezvous -----------------------------
(***************************************************************************)
(* What a thread barrier of this code base promises, with no word on how:  *)
(* the contract shared by runtime::Barrier and runtime::HierarchicBarrier  *)
(* (include/common/runtime/Barrier.hpp).  Every thread calls wait() the    *)
(* same number of times; in each round all threads enter, one of them runs *)
(* the finalizer while the others are still inside, and that one alone is  *)
(* told to be the leader when it leaves.                                   *)
(***************************************************************************)
EXTENDS Naturals

CONSTANTS
  Threads,  \* the threads that share the barrier
  Calls     \* how often each of them calls wait()

VARIABLES
  entered,  \* entered[t]: calls of wait() in which t has announced itself
  left,     \* left[t]: calls of wait() from which t has returned
  finals,   \* how often the finalizer has run
  leader,   \* who ran it last
  result    \* result[t]: what t's last completed call returned

vars == <<entered, left, finals, leader, result>>

Init ==
  /\ entered = [t \in Threads |-> 0]
  /\ left = [t \in Threads |-> 0]
  /\ finals = 0
  /\ leader \in Threads
  /\ result = [t \in Threads |-> FALSE]

Enter(t) ==
  /\ entered[t] = left[t]
  /\ entered[t] < Calls
  /\ entered' = [entered EXCEPT ![t] = @ + 1]
  /\ UNCHANGED <<left, finals, leader, result>>

\* The finalizer runs when nobody is missing from the round.
Finalize(t) ==
  /\ \A u \in Threads : entered[u] = finals + 1
  /\ finals' = finals + 1
  /\ leader' = t
  /\ UNCHANGED <<entered, left, result>>

\* A thread may leave a round once its finalizer has run.
Leave(t) ==
  /\ left[t] < entered[t]
  /\ left[t] < finals
  /\ left' = [left EXCEPT ![t] = @ + 1]
  /\ result' = [result EXCEPT ![t] = (t = leader)]
  /\ UNCHANGED <<entered, finals, leader>>

Finished ==
  /\ \A t \in Threads : left[t] = Calls
  /\ UNCHANGED vars

Next == (\E t \in Threads : Enter(t) \/ Finalize(t) \/ Leave(t)) \/ Finished

Spec == Init /\ [][Next]_vars

=============================================================================
