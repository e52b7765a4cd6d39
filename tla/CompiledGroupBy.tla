-------------------------- MODULE CompiledGroupBy ---------------------------
(***************************************************************************)
(* The aggregation of the compiled queries (GroupBy of                     *)
(* src/include/hyper/GroupBy.hpp on Hashmapx of                            *)
(* src/include/common/runtime/Hashmap.hpp), with its tasks run by the      *)
(* threads of TBB.  Rows are aggregated into a table of the thread that    *)
(* happens to scan them, and spilled when it is full; at the end whatever  *)
(* is in the tables is spilled, each table by any thread; then each        *)
(* partition is merged by any thread, in a table that may be new or left   *)
(* from the scan.                                                          *)
(*                                                                         *)
(* The aggregate is a count; a morsel has one row.  A chain walk finds the *)
(* entry of a key that was pushed last (TaggedHashmap shows that it finds  *)
(* what was pushed).  A spill storage is the sequence of what was pushed   *)
(* to it; the entries of a partition are read from it in that order        *)
(* (SpillPartitions shows it).  Everything a task writes belongs to its    *)
(* thread until the tasks of the phase are over, so a task is one step,    *)
(* but for the merge, which has one for each entry it adds.                *)
(***************************************************************************)
EXTENDS Naturals, Sequences, FiniteSets

CONSTANTS
  Threads,       \* the threads of TBB
  Keys,
  partitionOf,   \* partitionOf[k]: the upper bits of the hash of key k
  nrPartitions,
  FirstSize,     \* the size tables are made for (1024)
  MaxRows        \* bound: rows of the relation, wanted or not

ThreadsAssumption == IsFiniteSet(Threads) /\ Threads # {}
PartitionAssumption ==
  nrPartitions \in Nat \ {0} /\ partitionOf \in [Keys -> 0 .. nrPartitions - 1]
SizeAssumption == FirstSize \in Nat \ {0} /\ MaxRows \in Nat \ {0}

VARIABLES
  phase,      \* the parallel loop that runs: "scan", "spill", "merge", or "over"
  rows,       \* rows not scanned yet
  consumed,   \* consumed[k]: the rows of key k consumed so far (history)
  locals,     \* locals[t]: the table (groups) and stack (entries) of t, if it has one
  deques,     \* deques[t]: the spill storage of t, if it has one
  tasks,      \* the tables not spilled yet; the partitions nobody has claimed
  partition,  \* partition[t]: the one t merges
  merged,     \* merged[t]: <<u, i>> if t has merged entry i of the spill storage of u
  sent        \* the entries delivered so far (history)

vars == <<phase, rows, consumed, locals, deques, tasks, partition, merged, sent>>

Partitions == 0 .. nrPartitions - 1
None == nrPartitions

Init ==
  /\ phase = "scan" /\ rows = MaxRows /\ consumed = [k \in Keys |-> 0]
  /\ locals = <<>> /\ deques = <<>>   \* no thread has any
  /\ tasks = {} /\ partition = [t \in Threads |-> None] /\ merged = [t \in Threads |-> {}]
  /\ sent = <<>>

-----------------------------------------------------------------------------
(* Hashmapx.  l.entries is the stack, l.found[k] the place there of the    *)
(* entry a lookup of k finds, l.size the counter of entries and l.maxFill  *)
(* what setSize returned, capacity * 0.7.                                  *)

pow[n \in Nat] == IF n = 0 THEN 1 ELSE 2 * pow[n - 1]

\* 2 ^ e is above n, and filled to 0.7 at most by n entries.
Holds(e, n) == pow[e] > n /\ 7 * pow[e] >= 10 * n
Capacity(n) == pow[CHOOSE e \in 1 .. n + 1 : Holds(e, n) /\ \A d \in 1 .. e - 1 : ~Holds(d, n)]
Fill(n) == (7 * Capacity(n)) \div 10

setSize(n) == [found |-> <<>>, size |-> 0, maxFill |-> Fill(n), entries |-> <<>>]

\* clear() of the table and of the stack
Cleared(l) == [l EXCEPT !.found = <<>>, !.size = 0, !.entries = <<>>]

With(f, k, v) == [x \in DOMAIN f \cup {k} |-> IF x = k THEN v ELSE f[x]]

\* The part of findOrCreate that makes an entry, with the initial value.
Create(l, k) ==
  [l EXCEPT !.entries = Append(@, [k |-> k, v |-> 0]),
            !.found = With(@, k, Len(l.entries) + 1), !.size = @ + 1]

update(l, k, v) ==
  LET i == l.found[k]
  IN  [l EXCEPT !.entries = [l.entries EXCEPT ![i] = [k |-> k, v |-> l.entries[i].v + v]]]

\* What a table finds after insertAll.
insertAll(entries) ==
  [k \in {entries[i].k : i \in DOMAIN entries} |->
     CHOOSE i \in DOMAIN entries :
       /\ entries[i].k = k
       /\ \A j \in DOMAIN entries : entries[j].k = k => j <= i]

\* A larger, empty table, and all entries are inserted again; the counter begins at 0.
grow(l) == [setSize(2 * l.size) EXCEPT
              !.entries = l.entries, !.found = insertAll(l.entries), !.size = Len(l.entries)]

-----------------------------------------------------------------------------
(* Locals: preAggLocals and consume *)

\* Every entry is pushed, with its hash, from which its partition follows.
Spill(deque, entries) == deque \o entries

\* groups.local() and partitionedDeques.local() make what a thread does not have.
LocalsOf(t) == IF t \in DOMAIN locals THEN locals[t] ELSE setSize(FirstSize)
DequeOf(t) == IF t \in DOMAIN deques THEN deques[t] ELSE <<>>

IsNew(l, k) == k \notin DOMAIN l.found
MustSpill(l, k) == IsNew(l, k) /\ l.size >= l.maxFill

\* Mutant: the stack is not cleared with the table.
Consume_KeepsEntries(l, k) ==
  LET l1 == IF MustSpill(l, k) THEN [l EXCEPT !.found = <<>>, !.size = 0] ELSE l
  IN  update(IF IsNew(l1, k) THEN Create(l1, k) ELSE l1, k, 1)

Consume(l, k) ==
  LET l1 == IF MustSpill(l, k) THEN Cleared(l) ELSE l
  IN  update(IF IsNew(l1, k) THEN Create(l1, k) ELSE l1, k, 1)

\* One row of the scan, with a key the query groups it by, or not wanted by it.
Aggregate(t) ==
  /\ phase = "scan" /\ rows > 0 /\ rows' = rows - 1
  /\ \/ \E k \in Keys :
          /\ consumed' = [consumed EXCEPT ![k] = @ + 1]
          /\ locals' = With(locals, t, Consume(LocalsOf(t), k))
          /\ deques' = With(deques, t, IF MustSpill(LocalsOf(t), k)
                                       THEN Spill(DequeOf(t), LocalsOf(t).entries) ELSE DequeOf(t))
     \/ /\ locals' = With(locals, t, LocalsOf(t))
        /\ deques' = With(deques, t, DequeOf(t))
        /\ UNCHANGED consumed
  /\ UNCHANGED <<phase, tasks, partition, merged, sent>>

\* parallel_for returns: forallGroups, its first loop.
ScanOver ==
  /\ phase = "scan" /\ rows = 0
  /\ phase' = "spill" /\ tasks' = DOMAIN locals
  /\ UNCHANGED <<rows, consumed, locals, deques, partition, merged, sent>>

-----------------------------------------------------------------------------
(* forallGroups *)

\* spillAll: t spills the entries of u to a storage of its own.
SpillRest(t) ==
  /\ phase = "spill"
  /\ \E u \in tasks :
       /\ tasks' = tasks \ {u}
       /\ deques' = With(deques, t, Spill(DequeOf(t), locals[u].entries))
  /\ UNCHANGED <<phase, rows, consumed, locals, partition, merged, sent>>

SpillOver ==
  /\ phase = "spill" /\ tasks = {}
  /\ phase' = "merge" /\ tasks' = Partitions
  /\ UNCHANGED <<rows, consumed, locals, deques, partition, merged, sent>>

\* t begins a partition with an empty table and an empty stack.
Claim(t) ==
  /\ phase = "merge" /\ partition[t] = None
  /\ \E p \in tasks : tasks' = tasks \ {p} /\ partition' = [partition EXCEPT ![t] = p]
  /\ locals' = With(locals, t, Cleared(LocalsOf(t)))
  /\ merged' = [merged EXCEPT ![t] = {}]
  /\ UNCHANGED <<phase, rows, consumed, deques, sent>>

\* An entry of a spill storage is added to its group.
Add(l, e) ==
  LET l1 == IF MustSpill(l, e.k) THEN grow(l) ELSE l
  IN  update(IF IsNew(l1, e.k) THEN Create(l1, e.k) ELSE l1, e.k, e.v)

\* The entries of u's storage that t has still to merge.
Left(t, u) ==
  {i \in DOMAIN deques[u] : partitionOf[deques[u][i].k] = partition[t] /\ <<u, i>> \notin merged[t]}

\* The next entry of the storage that t is in, or the first one of another.
Merge(t) ==
  /\ phase = "merge" /\ partition[t] # None
  /\ \E u \in DOMAIN deques : \E i \in Left(t, u) :
       /\ \A j \in Left(t, u) : i <= j
       /\ \A m \in merged[t] : m[1] # u => Left(t, m[1]) = {}
       /\ locals' = [locals EXCEPT ![t] = Add(@, deques[u][i])]
       /\ merged' = [merged EXCEPT ![t] = @ \cup {<<u, i>>}]
  /\ UNCHANGED <<phase, rows, consumed, deques, tasks, partition, sent>>

\* All are merged: the groups go to the rest of the query.
Deliver(t) ==
  /\ phase = "merge" /\ partition[t] # None /\ \A u \in DOMAIN deques : Left(t, u) = {}
  /\ sent' = sent \o locals[t].entries
  /\ partition' = [partition EXCEPT ![t] = None]
  /\ UNCHANGED <<phase, rows, consumed, locals, deques, tasks, merged>>

MergeOver ==
  /\ phase = "merge" /\ tasks = {} /\ \A t \in Threads : partition[t] = None
  /\ phase' = "over"
  /\ UNCHANGED <<rows, consumed, locals, deques, tasks, partition, merged, sent>>

Task(t) == Aggregate(t) \/ SpillRest(t) \/ Claim(t) \/ Merge(t) \/ Deliver(t)
LoopOver == ScanOver \/ SpillOver \/ MergeOver
Finished == phase = "over" /\ UNCHANGED vars

Next == (\E t \in Threads : Task(t)) \/ LoopOver \/ Finished
Spec == Init /\ [][Next]_vars

-----------------------------------------------------------------------------

Entries == [k : Keys, v : Nat]

TypeOK ==
  /\ phase \in {"scan", "spill", "merge", "over"} /\ rows \in 0 .. MaxRows
  /\ consumed \in [Keys -> Nat] /\ sent \in Seq(Entries)
  /\ DOMAIN locals \subseteq Threads /\ DOMAIN deques \subseteq Threads
  /\ \A t \in DOMAIN locals : locals[t].entries \in Seq(Entries) /\ locals[t].size \in Nat
  /\ \A t \in DOMAIN deques : deques[t] \in Seq(Entries)
  /\ tasks \subseteq Threads \cup Partitions
  /\ partition \in [Threads -> Partitions \cup {None}] /\ merged \in [Threads -> SUBSET (Threads \X Nat)]

\* A group is delivered once, with all the rows of its key, whichever threads
\* scanned, spilled and merged them; in the end every key that occurred has been.
GroupsExact ==
  /\ \A i \in DOMAIN sent :
       /\ sent[i].v = consumed[sent[i].k] /\ sent[i].v > 0
       /\ \A j \in DOMAIN sent : sent[j].k = sent[i].k => j = i
  /\ phase = "over" => \A k \in Keys : consumed[k] > 0 => \E i \in DOMAIN sent : sent[i].k = k

\* A table that is worked on finds each entry of the stack, and holds no more than
\* it was made for: a stack or table that was cleared, or enlarged, without the
\* other one loses groups or makes a second one of a key.
TablesWhole ==
  \A t \in DOMAIN locals :
    LET l == locals[t] IN
    /\ l.size = Len(l.entries) /\ l.size <= l.maxFill
    /\ \A i \in DOMAIN l.entries : l.found[l.entries[i].k] = i

\* Two threads never merge the same partition, nor one that was merged before.
PartitionsApart ==
  \A t \in Threads : partition[t] # None =>
    /\ \A u \in Threads \ {t} : partition[u] # partition[t]
    /\ \A i \in DOMAIN sent : partitionOf[sent[i].k] # partition[t]
=============================================================================
