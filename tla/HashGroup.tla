----------------------------- MODULE HashGroup ------------------------------
(***************************************************************************)
(* HashGroup::next (src/vectorwise/Operators.cpp): parallel aggregation in *)
(* two phases.  In phase 1 each worker aggregates the tuples it gets into  *)
(* a small hash table of its own and spills its groups, by the hash of the *)
(* key, to partitions of its own.  When all are through the barrier, the   *)
(* workers take one partition after the other from a shared counter, merge *)
(* what all workers have spilled to it and deliver the groups.             *)
(*                                                                         *)
(* The aggregate is a count; a vector has one tuple.  The lookup of groups *)
(* is exact, as GroupLookup shows it to be for keys with different hashes. *)
(***************************************************************************)
EXTENDS Naturals, Sequences, FiniteSets

CONSTANTS
  Workers,
  Keys,
  partitionOf,   \* partitionOf[k]: the upper bits of the hash of key k
  nrPartitions,
  maxFill,       \* groups created before the local table is flushed
  MaxTuples      \* bound: tuples per key

WorkersAssumption == IsFiniteSet(Workers) /\ Workers # {}
PartitionAssumption ==
  nrPartitions \in Nat \ {0} /\ partitionOf \in [Keys -> 0 .. nrPartitions - 1]
FillAssumption == maxFill \in Nat \ {0} /\ MaxTuples \in Nat

VARIABLES
  input,      \* input[k]: the tuples of key k (constant)
  todo,       \* todo[k]: those the child has not delivered yet
  stage,      \* stage[w]: where w is in next()
  ht,         \* ht[w]: the groups in w's hash table, a count per key
  created,    \* created[w]: the counter "groups" of phase 1
  spill,      \* spill[w]: w's spillStorage, a count per key
  nextPart,   \* shared.partition
  partition,  \* partition[w]: cont.partition
  merged,     \* merged[w]: the workers whose spill w has merged
  unsent,     \* unsent[w]: the groups w still has to deliver (cont.iter)
  sent,       \* sent[k]: the counts delivered for key k (history)
  entered, returned, finals, leader, result  \* the barrier

groupVars == <<input, todo, stage, ht, created, spill, nextPart, partition, merged, unsent, sent>>
barrierVars == <<entered, returned, finals, leader, result>>
vars == <<input, todo, stage, ht, created, spill, nextPart, partition, merged, unsent, sent,
          entered, returned, finals, leader, result>>

B == INSTANCE Rendezvous WITH Threads <- Workers, Calls <- 1, left <- returned

NoGroups == [k \in Keys |-> 0]
Plus(f, g) == [k \in Keys |-> f[k] + g[k]]

Init ==
  /\ input \in [Keys -> 0 .. MaxTuples]
  /\ todo = input
  /\ stage = [w \in Workers |-> "aggregate"]
  /\ ht = [w \in Workers |-> NoGroups]
  /\ created = [w \in Workers |-> 0]
  /\ spill = [w \in Workers |-> NoGroups]
  /\ nextPart = 0
  /\ partition = [w \in Workers |-> 0]
  /\ merged = [w \in Workers |-> {}]
  /\ unsent = [w \in Workers |-> {}]
  /\ sent = [k \in Keys |-> <<>>]
  /\ B!Init

Goto(w, s) == stage' = [stage EXCEPT ![w] = s]

\* w's table after a tuple of key k; a count of groups is kept that is never
\* reset, so after the first flush every vector is flushed.
AggregateInto(w, k) == [ht[w] EXCEPT ![k] = @ + 1]
CreatedBy(w, k) == created[w] + IF ht[w][k] = 0 THEN 1 ELSE 0

\* Phase 1, one vector: find or create the group, update it, and flush the
\* table to the spill storage if groups >= maxFill.
Aggregate(w) ==
  /\ stage[w] = "aggregate"
  /\ \E k \in Keys :
       /\ todo[k] > 0
       /\ todo' = [todo EXCEPT ![k] = @ - 1]
       /\ created' = [created EXCEPT ![w] = CreatedBy(w, k)]
       /\ IF created'[w] >= maxFill
          THEN /\ spill' = [spill EXCEPT ![w] = Plus(@, AggregateInto(w, k))]
               /\ ht' = [ht EXCEPT ![w] = NoGroups]
          ELSE /\ ht' = [ht EXCEPT ![w] = AggregateInto(w, k)]
               /\ UNCHANGED spill
  /\ UNCHANGED <<input, stage, nextPart, partition, merged, unsent, sent, barrierVars>>

\* child->next() may return EndOfStream to w: no tuple is left, or another
\* worker has claimed what is.
Ended(w) == \/ \A k \in Keys : todo[k] = 0
            \/ \E u \in Workers \ {w} : stage[u] = "aggregate"

\* Mutant: phase 2 begins without waiting for the other workers.
FlushRest_NoBarrier(w) ==
  /\ stage[w] = "aggregate"
  /\ Ended(w)
  /\ spill' = [spill EXCEPT ![w] = Plus(@, ht[w])]
  /\ ht' = [ht EXCEPT ![w] = NoGroups]
  /\ Goto(w, "claim")
  /\ UNCHANGED <<input, todo, created, nextPart, partition, merged, unsent, sent, barrierVars>>

\* The end of phase 1: flush what is left, then barrier().
FlushRest(w) ==
  /\ stage[w] = "aggregate"
  /\ Ended(w)
  /\ spill' = [spill EXCEPT ![w] = Plus(@, ht[w])]
  /\ ht' = [ht EXCEPT ![w] = NoGroups]
  /\ Goto(w, "wait")
  /\ UNCHANGED <<input, todo, created, nextPart, partition, merged, unsent, sent, barrierVars>>

Wait(w) == stage[w] = "wait" /\ (B!Enter(w) \/ B!Finalize(w)) /\ UNCHANGED groupVars

Resume(w) ==
  /\ stage[w] = "wait"
  /\ B!Leave(w)
  /\ Goto(w, "claim")
  /\ UNCHANGED <<input, todo, ht, created, spill, nextPart, partition, merged, unsent, sent>>

\* Mutant: the counter is read, and written in the next step.
ClaimPartition_Stale(w) ==
  /\ stage[w] = "claim"
  /\ partition' = [partition EXCEPT ![w] = nextPart]
  /\ nextPart' \in {nextPart, nextPart + 1}
  /\ merged' = [merged EXCEPT ![w] = {}]
  /\ Goto(w, IF partition'[w] < nrPartitions THEN "merge" ELSE "eos")
  /\ UNCHANGED <<input, todo, ht, created, spill, unsent, sent, barrierVars>>

\* cont.partition = shared.partition.fetch_add(1); the stream ends when the
\* partitions are used up.
ClaimPartition(w) ==
  /\ stage[w] = "claim"
  /\ partition' = [partition EXCEPT ![w] = nextPart]
  /\ nextPart' = nextPart + 1
  /\ merged' = [merged EXCEPT ![w] = {}]
  /\ Goto(w, IF partition'[w] < nrPartitions THEN "merge" ELSE "eos")
  /\ UNCHANGED <<input, todo, ht, created, spill, unsent, sent, barrierVars>>

\* What u has spilled to partition p.
Spilled(u, p) == [k \in Keys |-> IF partitionOf[k] = p THEN spill[u][k] ELSE 0]

\* Merge one worker's spill for the partition into the table.
Merge(w) ==
  /\ stage[w] = "merge"
  /\ \E u \in Workers \ merged[w] :
       /\ ht' = [ht EXCEPT ![w] = Plus(@, Spilled(u, partition[w]))]
       /\ merged' = [merged EXCEPT ![w] = @ \cup {u}]
  /\ UNCHANGED <<input, todo, stage, created, spill, nextPart, partition, unsent, sent, barrierVars>>

\* Mutant: only what was spilled by the worker itself is merged.
MergeDone_Own(w) ==
  /\ stage[w] = "merge"
  /\ w \in merged[w]
  /\ unsent' = [unsent EXCEPT ![w] = {k \in Keys : ht[w][k] > 0}]
  /\ Goto(w, "send")
  /\ UNCHANGED <<input, todo, ht, created, spill, nextPart, partition, merged, sent, barrierVars>>

\* cont.partitionNeedsAggregation = false; cont.iter = allocations.begin()
MergeDone(w) ==
  /\ stage[w] = "merge"
  /\ merged[w] = Workers
  /\ unsent' = [unsent EXCEPT ![w] = {k \in Keys : ht[w][k] > 0}]
  /\ Goto(w, "send")
  /\ UNCHANGED <<input, todo, ht, created, spill, nextPart, partition, merged, sent, barrierVars>>

\* A call returns the groups of the next allocation: gatherGroups.
Send(w) ==
  /\ stage[w] = "send"
  /\ \E k \in unsent[w] :
       /\ sent' = [sent EXCEPT ![k] = Append(@, ht[w][k])]
       /\ unsent' = [unsent EXCEPT ![w] = @ \ {k}]
  /\ UNCHANGED <<input, todo, stage, ht, created, spill, nextPart, partition, merged, barrierVars>>

\* All were sent: clearHashtable, and on to the next partition.
SendDone(w) ==
  /\ stage[w] = "send"
  /\ unsent[w] = {}
  /\ ht' = [ht EXCEPT ![w] = NoGroups]
  /\ Goto(w, "claim")
  /\ UNCHANGED <<input, todo, created, spill, nextPart, partition, merged, unsent, sent,
                 barrierVars>>

Step(w) == \/ Aggregate(w) \/ FlushRest(w) \/ Wait(w) \/ Resume(w) \/ ClaimPartition(w)
           \/ Merge(w) \/ MergeDone(w) \/ Send(w) \/ SendDone(w)

Finished == (\A w \in Workers : stage[w] = "eos") /\ UNCHANGED vars

Next == (\E w \in Workers : Step(w)) \/ Finished

Spec == Init /\ [][Next]_vars

\* Workers are OS threads that are scheduled again and again.
FairSpec == Spec /\ \A w \in Workers : WF_vars(Step(w))

-----------------------------------------------------------------------------

Counts == [Keys -> Nat]

TypeOK ==
  /\ input \in Counts /\ todo \in Counts
  /\ stage \in [Workers -> {"aggregate", "wait", "claim", "merge", "send", "eos"}]
  /\ ht \in [Workers -> Counts] /\ spill \in [Workers -> Counts]
  /\ created \in [Workers -> Nat]
  /\ nextPart \in 0 .. nrPartitions + Cardinality(Workers)
  /\ partition \in [Workers -> 0 .. nrPartitions + Cardinality(Workers)]
  /\ merged \in [Workers -> SUBSET Workers]
  /\ unsent \in [Workers -> SUBSET Keys]
  /\ sent \in [Keys -> Seq(Nat)]
  /\ entered \in [Workers -> 0 .. 1] /\ returned \in [Workers -> 0 .. 1]
  /\ finals \in 0 .. 1 /\ leader \in Workers /\ result \in [Workers -> BOOLEAN]

\* A group is delivered once, by one worker, with all the tuples of its key,
\* whichever workers aggregated them and however often they flushed.
GroupsExact == \A k \in Keys : sent[k] \in {<<>>, <<input[k]>>}

\* When all streams have ended, every key that occurred has been delivered.
GroupsComplete ==
  (\A w \in Workers : stage[w] = "eos") =>
    \A k \in Keys : sent[k] = IF input[k] = 0 THEN <<>> ELSE <<input[k]>>

\* While a partition is merged nobody spills: phase 2 reads the other workers'
\* spill storage, which has no lock, after the last write to it.
SpillFrozen ==
  \A w, u \in Workers :
    stage[w] \in {"claim", "merge", "send", "eos"} =>
      /\ stage[u] # "aggregate"
      /\ stage[u] \notin {"merge", "send"} => ht[u] = NoGroups

\* Two workers never work on the same partition.
PartitionsApart ==
  \A w, u \in Workers :
    w # u /\ {stage[w], stage[u]} \subseteq {"merge", "send"} => partition[w] # partition[u]

\* Every worker's stream has ended.
AllEnded == \A w \in Workers : stage[w] = "eos"

=============================================================================
