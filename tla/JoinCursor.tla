----------------------------- MODULE JoinCursor -----------------------------
(***************************************************************************)
(* What the probe side of vectorwise::Hashjoin promises, whichever join    *)
(* function runs (include/vectorwise/Operators.hpp: "computes join result  *)
(* into buildMatches and probeMatches").  For each vector of probe tuples  *)
(* there is a set of pairs to be reported; calls of the join function      *)
(* report them in vectors that fit the output buffers, each pair once, and *)
(* the next probe vector is fetched when none is left.                     *)
(***************************************************************************)
EXTENDS Naturals, Sequences, FiniteSets

CONSTANTS
  Pairs,      \* every possible pair of a probe position and a build entry
  batchSize   \* how many pairs fit the output buffers

VARIABLES
  due,      \* the pairs of the current probe vector still to be reported
  matches   \* the vector the last call reported

vars == <<due, matches>>

Init == due = {} /\ matches = <<>>

\* The next vector of probe tuples; the last result has been consumed.
Fetch ==
  /\ due = {}
  /\ due' \in SUBSET Pairs
  /\ matches' = <<>>

\* A call returns some of the pairs that are due and owes them no longer.
Report ==
  /\ \E D \in SUBSET due :
       /\ Cardinality(D) <= batchSize
       /\ Len(matches') = Cardinality(D)
       /\ {matches'[k] : k \in DOMAIN matches'} = D
       /\ due' = due \ D

Next == Fetch \/ Report

Spec == Init /\ [][Next]_vars

=============================================================================
