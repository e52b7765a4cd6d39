--------------------------- MODULE HashJoinBuild ----------------------------
(***************************************************************************)
(* The build phase of vectorwise::Hashjoin::next                           *)
(* (src/vectorwise/Operators.cpp) as all workers run it together: each has *)
(* its own copy of the operator tree, the copies share per join a counter  *)
(* and a hash table, and the workers meet in one barrier, which keeps the  *)
(* contract of Rendezvous (HierarchicBarrier shows that it does).          *)
(* The plan is a chain of joins, the probe side of each being the next     *)
(* one: the first call of right->next() in a probe builds the next join.   *)
(*                                                                         *)
(* A vector of build tuples is one step and one unit of the counter.  The  *)
(* build side hands its vectors to whoever asks first; as a MorselScan, it *)
(* may end for one worker while another still works off its last morsel.   *)
(* Pushes to the table are atomic (TaggedHashmap).                         *)
(***************************************************************************)
EXTENDS Naturals, FiniteSets

CONSTANTS
  Workers,
  NrJoins,     \* the joins of the plan are 1 .. NrJoins
  MaxVectors   \* bound: vectors on the build side of a join

ASSUME WorkersAssumption == IsFiniteSet(Workers) /\ Workers # {}
ASSUME JoinsAssumption == NrJoins \in Nat \ {0} /\ MaxVectors \in Nat

Joins == 1 .. NrJoins
Vectors == 1 .. MaxVectors

VARIABLES
  left,      \* left[j]: the vectors the build side of j can still deliver
  stage,     \* stage[w]: where worker w is in Hashjoin::next
  join,      \* join[w]: of which join
  mine,      \* mine[w]: the vectors w has materialised (allocations)
  found,     \* shared.found of each join
  ht,        \* shared.ht of each join: its size and the vectors inserted
  input,     \* input[j]: the vectors of the build side (constant)
  entered, returned, finals, leader, result  \* the barrier

queryVars == <<left, stage, join, mine, found, ht, input>>
barrierVars == <<entered, returned, finals, leader, result>>
vars == <<left, stage, join, mine, found, ht, input,
          entered, returned, finals, leader, result>>

\* runtime::barrier() of this_worker
B == INSTANCE Rendezvous WITH Threads <- Workers, Calls <- 2 * NrJoins, left <- returned

\* The hash table before setSize has run.
Unsized == [size |-> 0, inserted |-> {}]

Init ==
  /\ input \in [Joins -> {1 .. n : n \in 0 .. MaxVectors}]
  /\ left = input
  /\ stage = [w \in Workers |-> "build"]
  /\ join = [w \in Workers |-> 1]
  /\ mine = [w \in Workers |-> {}]
  /\ found = [j \in Joins |-> 0]
  /\ ht = [j \in Joins |-> Unsized]
  /\ B!Init

\* left->next() may return EndOfStream to w: no vector is left, or another
\* worker has claimed what is.
Ended(w) == \/ left[join[w]] = {}
            \/ \E u \in Workers \ {w} : stage[u] = "build" /\ join[u] = join[w]

Goto(w, s) == stage' = [stage EXCEPT ![w] = s]

\* Mutant: a vector is counted when it arrives and again at the end.
Materialize_Counts(w) ==
  /\ stage[w] = "build"
  /\ \E v \in left[join[w]] :
       /\ left' = [left EXCEPT ![join[w]] = @ \ {v}]
       /\ mine' = [mine EXCEPT ![w] = @ \cup {v}]
  /\ found' = [found EXCEPT ![join[w]] = @ + 1]
  /\ UNCHANGED <<stage, join, ht, input, barrierVars>>

\* n = left->next(); scatter into fresh entries; allocations.push_back
Materialize(w) ==
  /\ stage[w] = "build"
  /\ \E v \in left[join[w]] :
       /\ left' = [left EXCEPT ![join[w]] = @ \ {v}]
       /\ mine' = [mine EXCEPT ![w] = @ \cup {v}]
  /\ UNCHANGED <<stage, join, found, ht, input, barrierVars>>

\* The build side is at its end: shared.found.fetch_add(found)
AddFound(w) ==
  /\ stage[w] = "build"
  /\ Ended(w)
  /\ found' = [found EXCEPT ![join[w]] = @ + Cardinality(mine[w])]
  /\ Goto(w, "size")
  /\ UNCHANGED <<left, join, mine, ht, input, barrierVars>>

\* barrier()
Wait(w) ==
  /\ stage[w] \in {"size", "built"}
  /\ B!Enter(w)
  /\ UNCHANGED queryVars

\* Mutant: the table is sized again in the second barrier.
Finalize_SizesTwice(w) ==
  /\ stage[w] \in {"size", "built"}
  /\ B!Finalize(w)
  /\ ht' = IF found[join[w]] # 0
           THEN [ht EXCEPT ![join[w]] = [size |-> found[join[w]], inserted |-> {}]] ELSE ht
  /\ UNCHANGED <<left, stage, join, mine, found, input>>

\* The finalizer of the first barrier: if (globalFound) ht.setSize(globalFound),
\* which allocates and clears the table.  The second barrier has none.
Finalize(w) ==
  /\ stage[w] \in {"size", "built"}
  /\ B!Finalize(w)
  /\ ht' = IF stage[w] = "size" /\ found[join[w]] # 0
           THEN [ht EXCEPT ![join[w]] = [size |-> found[join[w]], inserted |-> {}]] ELSE ht
  /\ UNCHANGED <<left, stage, join, mine, found, input>>

Resume(w) ==
  /\ stage[w] \in {"size", "built"}
  /\ B!Leave(w)
  /\ Goto(w, IF stage[w] = "size" THEN "check" ELSE "probe")
  /\ UNCHANGED <<left, join, mine, found, ht, input>>

\* globalFound = shared.found.load(); if it is 0 the stream ends here.
Check(w) ==
  /\ stage[w] = "check"
  /\ Goto(w, IF found[join[w]] = 0 THEN "eos" ELSE "insert")
  /\ UNCHANGED <<left, join, mine, found, ht, input, barrierVars>>

\* insertAllEntries, block by block
Insert(w) ==
  /\ stage[w] = "insert"
  /\ \E v \in mine[w] \ ht[join[w]].inserted :
       ht' = [ht EXCEPT ![join[w]].inserted = @ \cup {v}]
  /\ UNCHANGED <<left, stage, join, mine, found, input, barrierVars>>

\* All entries of w are in the table: barrier() until those of the others are.
InsertDone(w) ==
  /\ stage[w] = "insert"
  /\ mine[w] \subseteq ht[join[w]].inserted
  /\ Goto(w, "built")
  /\ UNCHANGED <<left, join, mine, found, ht, input, barrierVars>>

\* right->next(): the probe side is the next join, which is built first, or a
\* scan, whose tuples are looked up until it ends.
Probe(w) ==
  /\ stage[w] = "probe"
  /\ IF join[w] < NrJoins
     THEN /\ join' = [join EXCEPT ![w] = @ + 1]
          /\ Goto(w, "build")
          /\ mine' = [mine EXCEPT ![w] = {}]
     ELSE /\ Goto(w, "done")
          /\ UNCHANGED <<join, mine>>
  /\ UNCHANGED <<left, found, ht, input, barrierVars>>

Step(w) == \/ Materialize(w) \/ AddFound(w) \/ Wait(w) \/ Finalize(w) \/ Resume(w)
           \/ Check(w) \/ Insert(w) \/ InsertDone(w) \/ Probe(w)

Finished ==
  /\ \A w \in Workers : stage[w] \in {"eos", "done"}
  /\ UNCHANGED vars

Next == (\E w \in Workers : Step(w)) \/ Finished

Spec == Init /\ [][Next]_vars

\* Workers are OS threads that are scheduled again and again.
FairSpec == Spec /\ \A w \in Workers : WF_vars(Step(w))

-----------------------------------------------------------------------------

TypeOK ==
  /\ input \in [Joins -> SUBSET Vectors]
  /\ left \in [Joins -> SUBSET Vectors]
  /\ stage \in [Workers -> {"build", "size", "check", "insert", "built", "probe",
                            "eos", "done"}]
  /\ join \in [Workers -> Joins]
  /\ mine \in [Workers -> SUBSET Vectors]
  /\ found \in [Joins -> 0 .. MaxVectors]
  /\ ht \in [Joins -> [size : 0 .. MaxVectors, inserted : SUBSET Vectors]]
  /\ entered \in [Workers -> 0 .. 2 * NrJoins] /\ returned \in [Workers -> 0 .. 2 * NrJoins]
  /\ finals \in 0 .. 2 * NrJoins /\ leader \in Workers /\ result \in [Workers -> BOOLEAN]

\* w has left the build of join j behind and may look up its table.
Looks(w, j) == j < join[w] \/ (j = join[w] /\ stage[w] \in {"probe", "done"})

\* A worker that looks up a join's table finds all tuples of the build side in
\* it, whoever inserted them, and nobody resizes or clears the table any more.
ProbesComplete ==
  \A w \in Workers : \A j \in Joins :
    Looks(w, j) => ht[j].inserted = input[j] /\ ht[j].size = Cardinality(input[j])

\* An entry is only inserted into a table that was sized for all entries of
\* all workers: the count that setSize read was final.
SizedForAll ==
  \A w \in Workers : stage[w] \in {"insert", "built"} =>
    ht[join[w]].size = Cardinality(input[join[w]]) /\ ht[join[w]].size > 0

\* The decision to end the stream at an empty build side is unanimous: no
\* worker goes on to the second barrier, or to a later join, without the rest.
EmptyForAll ==
  \A w, u \in Workers :
    stage[w] = "eos" => ~Looks(u, join[w]) /\ stage[u] \notin {"insert", "built"}

\* w is in a call of barrier().
Waiting(w) == entered[w] > returned[w]

\* Workers that wait in the same round of the barrier wait for the same thing:
\* the same barrier of the same join, although all joins share one barrier.
SameBarrier ==
  \A w, u \in Workers :
    Waiting(w) /\ Waiting(u) /\ entered[w] = entered[u] =>
      join[w] = join[u] /\ stage[w] = stage[u]

\* The workers of a build agree, through one barrier for all joins, on what they
\* wait for, on the final size of the table and on whether there is any.
BuildAgrees == SizedForAll /\ EmptyForAll /\ SameBarrier

\* A worker probes a join only when the build vectors of all workers are in its
\* table, which was made for exactly that many, and all workers agree whether
\* there are any, so that none waits in a barrier the others have left out.
BuildRight == ProbesComplete /\ BuildAgrees

\* Every worker is at the end of its stream.
AllFinished == \A w \in Workers : stage[w] \in {"eos", "done"}

=============================================================================
