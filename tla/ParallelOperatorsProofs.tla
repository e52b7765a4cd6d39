---------------------- MODULE ParallelOperatorsProofs ----------------------
(***************************************************************************)
(* Proofs about the operators that MCParallelOperators composes, for every *)
(* finite set of workers and every size of the inputs: the build side of   *)
(* the hash join (HashJoinBuild, which MCParallelOperators extends), the   *)
(* scan, the aggregation, the threads and their workers, the plan that the *)
(* workers build and the result that they fill.                            *)
(***************************************************************************)
EXTENDS MCParallelOperators, FiniteSetTheorems, TLAPS, Sequences

-----------------------------------------------------------------------------
(* The build side of the hash join, by itself: for every finite set of      *)
(* workers and every number of joins and of vectors on their build sides.   *)

\* The calls of barrier() that a worker has returned from, told from where it is.
Passed(w) ==
  2 * (join[w] - 1) +
    (IF stage[w] \in {"build", "size"} THEN 0
     ELSE IF stage[w] \in {"probe", "done"} THEN 2 ELSE 1)

\* All joins share one barrier; the round a worker is in tells the join and the
\* half of its build, and nobody is more than a round away.
Rounds ==
  \A w \in Workers :
    /\ returned[w] = Passed(w)
    /\ \/ entered[w] = returned[w]
       \/ entered[w] = returned[w] + 1 /\ stage[w] \in {"size", "built"}
    /\ returned[w] <= finals /\ finals <= entered[w]

\* The vectors of join j that the workers hold, and those that are in found.
Taken(j) == {v \in Vectors : \E w \in Workers : join[w] = j /\ v \in mine[w]}
Counted(j) ==
  {v \in Vectors : \E w \in Workers : join[w] = j /\ stage[w] # "build" /\ v \in mine[w]}

\* No vector is held twice, or held and still to be delivered.
Apart ==
  /\ \A w \in Workers : mine[w] \cap left[join[w]] = {}
  /\ \A w, u \in Workers : w # u /\ join[w] = join[u] => mine[w] \cap mine[u] = {}

\* w has not seen the end of the build side of j.
Builds(w, j) == join[w] < j \/ (join[w] = j /\ stage[w] = "build")

\* Until its table is sized, the vectors of a join are accounted for, and
\* somebody is there to fetch the rest.
Sizing ==
  \A j \in Joins : finals < 2 * j - 1 =>
    /\ ht[j] = Unsized
    /\ left[j] \cup Taken(j) = input[j]
    /\ found[j] = Cardinality(Counted(j))
    /\ left[j] # {} => \E w \in Workers : Builds(w, j)

\* Afterwards the count is final; the vectors are held by the workers until the
\* second barrier of the join, and in the table after it.
Sized ==
  \A j \in Joins : finals >= 2 * j - 1 =>
    /\ left[j] = {}
    /\ found[j] = Cardinality(input[j]) /\ ht[j].size = found[j]
    /\ ht[j].inserted \subseteq input[j]
    /\ finals = 2 * j - 1 => Taken(j) = input[j]
    /\ finals >= 2 * j => ht[j].inserted = input[j]

\* What a worker has decided at the count, and what it has inserted.
Decided ==
  \A w \in Workers :
    /\ stage[w] = "eos" => found[join[w]] = 0
    /\ stage[w] \in {"insert", "built"} => found[join[w]] # 0
    /\ stage[w] = "built" => mine[w] \subseteq ht[join[w]].inserted

\* The inductive invariant.
IInv == TypeOK /\ Rounds /\ Apart /\ Sizing /\ Sized /\ Decided

-----------------------------------------------------------------------------

\* The sets of vectors are finite, and disjoint ones add up.
LEMMA VectorSets ==
  /\ \A S \in SUBSET Vectors : IsFiniteSet(S) /\ Cardinality(S) \in 0 .. MaxVectors
  /\ \A S, T \in SUBSET Vectors :
       S \cap T = {} => Cardinality(S \cup T) = Cardinality(S) + Cardinality(T)
<1>1. IsFiniteSet(Vectors) /\ Cardinality(Vectors) = MaxVectors
  BY JoinsAssumption, FS_Interval DEF Vectors
<1>2. ASSUME NEW S \in SUBSET Vectors
      PROVE  IsFiniteSet(S) /\ Cardinality(S) \in 0 .. MaxVectors
  <2>1. IsFiniteSet(S) /\ Cardinality(S) <= MaxVectors
    BY <1>1, FS_Subset
  <2>2. Cardinality(S) \in Nat
    BY <2>1, FS_CardinalityType
  <2> QED
    BY <2>1, <2>2, JoinsAssumption
<1>3. ASSUME NEW S \in SUBSET Vectors, NEW T \in SUBSET Vectors, S \cap T = {}
      PROVE  Cardinality(S \cup T) = Cardinality(S) + Cardinality(T)
  <2>1. Cardinality(S \cup T) = Cardinality(S) + Cardinality(T) - Cardinality(S \cap T)
    BY <1>2, FS_Union
  <2>2. Cardinality(S \cap T) = 0
    BY <1>3, FS_EmptySet
  <2> QED
    BY <2>1, <2>2, <1>2
<1> QED
  BY <1>2, <1>3

\* The numbers of rounds are numbers, and the round of a worker is one of its join.
LEMMA RoundOfJoin ==
  ASSUME IInv, NEW w \in Workers
  PROVE  /\ join[w] \in Joins /\ join[w] \in Nat \ {0} /\ finals \in Nat
         /\ entered[w] \in Nat /\ returned[w] \in Nat
         /\ Passed(w) \in Nat /\ Passed(w) \in 2 * (join[w] - 1) .. 2 * join[w]
         /\ returned[w] = Passed(w) /\ returned[w] <= finals /\ finals <= entered[w]
         /\ \/ entered[w] = returned[w]
            \/ entered[w] = returned[w] + 1 /\ stage[w] \in {"size", "built"}
<1>1. join[w] \in Joins /\ join[w] \in Nat \ {0} /\ finals \in Nat
  BY SMTT(30), JoinsAssumption DEF IInv, TypeOK, Joins
<1>2. entered[w] \in Nat /\ returned[w] \in Nat
  BY JoinsAssumption DEF IInv, TypeOK
<1>3. Passed(w) \in Nat /\ Passed(w) \in 2 * (join[w] - 1) .. 2 * join[w]
  BY <1>1 DEF Passed
<1> QED
  BY <1>1, <1>2, <1>3 DEF IInv, Rounds

\* A worker that may still add to the count of its join has not been through the
\* barrier after it, nor has anybody.
LEMMA NotSized ==
  ASSUME IInv, NEW w \in Workers, stage[w] = "build"
  PROVE  /\ finals = 2 * (join[w] - 1) /\ finals < 2 * join[w] - 1
         /\ \A u \in Workers : join[u] <= join[w]
         /\ \A u \in Workers : join[u] = join[w] => stage[u] \in {"build", "size"}
         /\ \A j \in Joins : finals < 2 * j - 1 => join[w] <= j
<1>1. Passed(w) = 2 * (join[w] - 1) /\ entered[w] = Passed(w) /\ finals = Passed(w)
  BY RoundOfJoin DEF Passed
<1>2. ASSUME NEW u \in Workers
      PROVE  join[u] <= join[w] /\ (join[u] = join[w] => stage[u] \in {"build", "size"})
  <2>1. Passed(u) <= 2 * (join[w] - 1)
    BY <1>1, RoundOfJoin
  <2>2. /\ join[u] \in Nat /\ join[w] \in Nat /\ Passed(u) \in Nat
        /\ 2 * (join[u] - 1) <= Passed(u)
    BY RoundOfJoin
  <2>3. stage[u] \notin {"build", "size"} => Passed(u) >= 2 * (join[u] - 1) + 1
    BY <2>2 DEF Passed
  <2> QED
    BY <2>1, <2>2, <2>3
<1>3. join[w] \in Nat
  BY RoundOfJoin
<1> QED
  BY <1>1, <1>2, <1>3 DEF Joins

\* Once the finalizer of a round may run, all workers wait for the same thing.
LEMMA AllWait ==
  ASSUME IInv, NEW w \in Workers, stage[w] \in {"size", "built"},
         \A u \in Workers : entered[u] = finals + 1
  PROVE  /\ finals = Passed(w)
         /\ \A u \in Workers : join[u] = join[w] /\ stage[u] = stage[w]
<1>1. ASSUME NEW u \in Workers
      PROVE  finals = Passed(u) /\ stage[u] \in {"size", "built"}
  BY RoundOfJoin
<1>2. ASSUME NEW u \in Workers
      PROVE  join[u] = join[w] /\ stage[u] = stage[w]
  <2>1. Passed(u) = Passed(w) /\ {stage[u], stage[w]} \subseteq {"size", "built"}
    BY <1>1
  <2>2. join[u] \in Nat /\ join[w] \in Nat
    BY RoundOfJoin
  <2> QED
    BY <2>1, <2>2 DEF Passed
<1> QED
  BY <1>1, <1>2

-----------------------------------------------------------------------------

LEMMA InitIInv == Init => IInv
<1> SUFFICES ASSUME Init PROVE IInv
  OBVIOUS
<1> USE DEF Init
<1>1. input \in [Joins -> SUBSET Vectors]
  <2>1. ASSUME NEW n \in 0 .. MaxVectors PROVE 1 .. n \subseteq Vectors
    BY JoinsAssumption DEF Vectors
  <2> QED
    BY <2>1
<1>2. TypeOK
  BY <1>1, JoinsAssumption DEF TypeOK, B!Init, Joins, Unsized
<1>3. Rounds
  BY DEF Rounds, Passed, B!Init
<1>4. Apart
  BY DEF Apart
<1>5. Sizing
  <2> SUFFICES ASSUME NEW j \in Joins
               PROVE  /\ ht[j] = Unsized /\ left[j] \cup Taken(j) = input[j]
                      /\ found[j] = Cardinality(Counted(j))
                      /\ \E w \in Workers : Builds(w, j)
    BY DEF Sizing
  <2>1. Taken(j) = {} /\ Counted(j) = {}
    BY DEF Taken, Counted
  <2>2. \E w \in Workers : Builds(w, j)
    BY WorkersAssumption DEF Builds, Joins
  <2> QED
    BY <2>1, <2>2, FS_EmptySet
<1>6. Sized
  BY DEF Sized, B!Init, Joins
<1>7. Decided
  BY DEF Decided
<1> QED
  BY <1>2, <1>3, <1>4, <1>5, <1>6, <1>7 DEF IInv

LEMMA MaterializeIInv ==
  ASSUME IInv, NEW w \in Workers, Materialize(w)
  PROVE  IInv'
<1> PICK v \in left[join[w]] :
      /\ left' = [left EXCEPT ![join[w]] = @ \ {v}]
      /\ mine' = [mine EXCEPT ![w] = @ \cup {v}]
  BY DEF Materialize
<1>0. /\ stage[w] = "build"
      /\ UNCHANGED <<stage, join, found, ht, input, entered, returned, finals, leader, result>>
  BY DEF Materialize, barrierVars
<1>1. join[w] \in Joins /\ v \in Vectors
  BY DEF IInv, TypeOK
<1>2. TypeOK'
  BY <1>0, <1>1 DEF IInv, TypeOK
<1>3. Rounds'
  BY <1>0 DEF IInv, Rounds, Passed
<1>4. Apart'
  BY <1>0, <1>1 DEF IInv, TypeOK, Apart
<1>5. /\ finals < 2 * join[w] - 1
      /\ \A j \in Joins : finals >= 2 * j - 1 => j # join[w]
  BY <1>0, NotSized, RoundOfJoin
<1>6. ASSUME NEW j \in Joins, j # join[w]
      PROVE  left'[j] = left[j] /\ Taken(j)' = Taken(j)
  BY <1>0, <1>1, <1>6 DEF IInv, TypeOK, Taken
<1>7. ASSUME NEW j \in Joins
      PROVE  Counted(j)' = Counted(j)
  BY <1>0 DEF IInv, TypeOK, Counted
<1>8. left'[join[w]] \cup Taken(join[w])' = left[join[w]] \cup Taken(join[w])
  BY <1>0, <1>1 DEF IInv, TypeOK, Taken
<1>9. Sizing'
  <2> SUFFICES ASSUME NEW j \in Joins, finals < 2 * j - 1
               PROVE  /\ ht[j] = Unsized /\ left'[j] \cup Taken(j)' = input[j]
                      /\ found[j] = Cardinality(Counted(j)')
                      /\ left'[j] # {} => \E u \in Workers : Builds(u, j)
    BY <1>0 DEF Sizing, Builds, Unsized
  <2>1. left'[j] \cup Taken(j)' = left[j] \cup Taken(j)
    BY <1>0, <1>6, <1>8
  <2>2. left'[j] # {} => left[j] # {}
    BY <1>1 DEF IInv, TypeOK
  <2> QED
    BY <2>1, <2>2, <1>7 DEF IInv, Sizing
<1>10. Sized'
  <2> SUFFICES ASSUME NEW j \in Joins, finals >= 2 * j - 1
               PROVE  /\ left'[j] = {} /\ found[j] = Cardinality(input[j]) /\ ht[j].size = found[j]
                      /\ ht[j].inserted \subseteq input[j]
                      /\ finals = 2 * j - 1 => Taken(j)' = input[j]
                      /\ finals >= 2 * j => ht[j].inserted = input[j]
    BY <1>0 DEF Sized
  <2> QED
    BY <1>5, <1>6 DEF IInv, Sized
<1>11. Decided'
  BY <1>0 DEF IInv, TypeOK, Decided
<1> QED
  BY <1>2, <1>3, <1>4, <1>9, <1>10, <1>11 DEF IInv

LEMMA AddFoundIInv ==
  ASSUME IInv, NEW w \in Workers, AddFound(w)
  PROVE  IInv'
<1> DEFINE k == join[w]
<1>0. /\ stage[w] = "build" /\ Ended(w)
      /\ found' = [found EXCEPT ![k] = @ + Cardinality(mine[w])]
      /\ stage' = [stage EXCEPT ![w] = "size"]
      /\ UNCHANGED <<left, join, mine, ht, input, entered, returned, finals, leader, result>>
  BY DEF AddFound, barrierVars, Goto
<1>1. k \in Joins /\ mine[w] \in SUBSET Vectors
  BY DEF IInv, TypeOK
<1>2. /\ finals = 2 * (k - 1) /\ finals < 2 * k - 1
      /\ \A j \in Joins : finals >= 2 * j - 1 => j # k
      /\ found[k] = Cardinality(Counted(k))
  BY <1>0, <1>1, NotSized, RoundOfJoin DEF IInv, Sizing
<1>3. \A j \in Joins : Taken(j)' = Taken(j)
  BY <1>0 DEF Taken
<1>4. ASSUME NEW j \in Joins, j # k
      PROVE  Counted(j)' = Counted(j)
  BY <1>0, <1>4 DEF Counted, IInv, TypeOK
<1>5. Counted(k)' = Counted(k) \cup mine[w] /\ Counted(k) \cap mine[w] = {}
  BY <1>0, <1>1 DEF Counted, IInv, TypeOK, Apart
<1>6. /\ Cardinality(Counted(k)') = Cardinality(Counted(k)) + Cardinality(mine[w])
      /\ Cardinality(Counted(k)') \in 0 .. MaxVectors
  <2>1. Counted(k) \in SUBSET Vectors /\ Counted(k)' \in SUBSET Vectors
    BY DEF Counted, Vectors
  <2> QED
    BY <1>1, <1>5, <2>1, VectorSets
<1>7. found' = [found EXCEPT ![k] = Cardinality(Counted(k)')]
  BY <1>0, <1>2, <1>6
<1>8. TypeOK'
  BY <1>0, <1>1, <1>6, <1>7 DEF IInv, TypeOK
<1>9. Rounds'
  BY <1>0 DEF IInv, TypeOK, Rounds, Passed
<1>10. Apart'
  BY <1>0 DEF IInv, Apart
<1>11. Sizing'
  <2> SUFFICES ASSUME NEW j \in Joins, finals < 2 * j - 1
               PROVE  /\ ht[j] = Unsized /\ left[j] \cup Taken(j)' = input[j]
                      /\ found'[j] = Cardinality(Counted(j)')
                      /\ left[j] # {} => (\E u \in Workers : Builds(u, j))'
    BY <1>0 DEF Sizing, Unsized
  <2>1. ht[j] = Unsized /\ left[j] \cup Taken(j)' = input[j]
    BY <1>3 DEF IInv, Sizing
  <2>2. found'[j] = Cardinality(Counted(j)')
    <3>1. CASE j = k
      BY <3>1, <1>0, <1>1, <1>7 DEF IInv, TypeOK
    <3>2. CASE j # k
      BY <3>2, <1>4, <1>7 DEF IInv, TypeOK, Sizing
    <3> QED
      BY <3>1, <3>2
  <2>3. ASSUME left[j] # {}
        PROVE  \E u \in Workers : Builds(u, j)'
    <3>1. CASE j = k
      <4>1. PICK u \in Workers \ {w} : stage[u] = "build" /\ join[u] = k
        BY <2>3, <3>1, <1>0 DEF Ended
      <4> QED
        BY <4>1, <3>1, <1>0 DEF Builds, IInv, TypeOK
    <3>2. CASE j # k
      <4>1. k < j
        BY <3>2, <1>0, <1>2, NotSized, RoundOfJoin DEF Joins
      <4> QED
        BY <4>1, <1>0 DEF Builds
    <3> QED
      BY <3>1, <3>2
  <2> QED
    BY <2>1, <2>2, <2>3
<1>12. Sized'
  <2> SUFFICES ASSUME NEW j \in Joins, finals >= 2 * j - 1
               PROVE  /\ left[j] = {} /\ found'[j] = Cardinality(input[j]) /\ ht[j].size = found'[j]
                      /\ ht[j].inserted \subseteq input[j]
                      /\ finals = 2 * j - 1 => Taken(j)' = input[j]
                      /\ finals >= 2 * j => ht[j].inserted = input[j]
    BY <1>0 DEF Sized
  <2>1. found'[j] = found[j]
    BY <1>0, <1>2 DEF IInv, TypeOK
  <2> QED
    BY <2>1, <1>3 DEF IInv, Sized
<1>13. Decided'
  <2> SUFFICES ASSUME NEW u \in Workers
               PROVE  /\ stage'[u] = "eos" => found'[join[u]] = 0
                      /\ stage'[u] \in {"insert", "built"} => found'[join[u]] # 0
                      /\ stage'[u] = "built" => mine[u] \subseteq ht[join[u]].inserted
    BY <1>0 DEF Decided
  <2>1. stage'[u] \in {"eos", "insert", "built"} => u # w /\ join[u] # k
    BY <1>0, NotSized DEF IInv, TypeOK
  <2> QED
    BY <2>1, <1>0 DEF IInv, TypeOK, Decided
<1> QED
  BY <1>8, <1>9, <1>10, <1>11, <1>12, <1>13 DEF IInv

LEMMA WaitIInv ==
  ASSUME IInv, NEW w \in Workers, Wait(w)
  PROVE  IInv'
<1>0. /\ stage[w] \in {"size", "built"} /\ entered[w] = returned[w] /\ entered[w] < 2 * NrJoins
      /\ entered' = [entered EXCEPT ![w] = @ + 1]
      /\ UNCHANGED <<left, stage, join, mine, found, ht, input, returned, finals, leader, result>>
  BY DEF Wait, B!Enter, queryVars
<1>1. TypeOK'
  BY <1>0, JoinsAssumption DEF IInv, TypeOK
<1>2. Rounds'
  <2> SUFFICES ASSUME NEW u \in Workers
               PROVE  /\ returned[u] = Passed(u)
                      /\ \/ entered'[u] = returned[u]
                         \/ entered'[u] = returned[u] + 1 /\ stage[u] \in {"size", "built"}
                      /\ returned[u] <= finals /\ finals <= entered'[u]
    BY <1>0 DEF Rounds, Passed
  <2>1. u # w => entered'[u] = entered[u]
    BY <1>0 DEF IInv, TypeOK
  <2>2. entered'[w] = entered[w] + 1
    BY <1>0 DEF IInv, TypeOK
  <2> QED
    BY <2>1, <2>2, <1>0, RoundOfJoin
<1>3. Apart' /\ Decided'
  BY <1>0 DEF IInv, Apart, Decided
<1>4. (\A j \in Joins : Taken(j)' = Taken(j) /\ Counted(j)' = Counted(j))
      /\ \A u \in Workers, j \in Joins : Builds(u, j)' <=> Builds(u, j)
  BY <1>0 DEF Taken, Counted, Builds
<1>5. Sizing' /\ Sized'
  BY <1>0, <1>4 DEF IInv, Sizing, Sized, Unsized
<1> QED
  BY <1>1, <1>2, <1>3, <1>5 DEF IInv

LEMMA FinalizeIInv ==
  ASSUME IInv, NEW w \in Workers, Finalize(w)
  PROVE  IInv'
<1> DEFINE k == join[w]
<1>0. /\ stage[w] \in {"size", "built"}
      /\ \A u \in Workers : entered[u] = finals + 1
      /\ finals' = finals + 1 /\ leader' = w
      /\ ht' = IF stage[w] = "size" /\ found[k] # 0
               THEN [ht EXCEPT ![k] = [size |-> found[k], inserted |-> {}]] ELSE ht
      /\ UNCHANGED <<left, stage, join, mine, found, input, entered, returned, result>>
  BY DEF Finalize, B!Finalize
<1>1. /\ finals = Passed(w) /\ \A u \in Workers : join[u] = k /\ stage[u] = stage[w]
      /\ k \in Joins /\ k \in Nat /\ k >= 1 /\ finals \in Nat
  BY <1>0, AllWait, RoundOfJoin
<1>2. \/ finals = 2 * k - 2 /\ stage[w] = "size"
      \/ finals = 2 * k - 1 /\ stage[w] = "built"
  BY <1>0, <1>1 DEF Passed
<1>3. TypeOK'
  <2>1. finals' \in 0 .. 2 * NrJoins
    BY <1>0, <1>1, <1>2, JoinsAssumption DEF Joins
  <2>2. ht' \in [Joins -> [size : 0 .. MaxVectors, inserted : SUBSET Vectors]]
    BY <1>0, <1>1 DEF IInv, TypeOK
  <2> QED
    BY <1>0, <2>1, <2>2 DEF IInv, TypeOK
<1>4. Rounds'
  <2> SUFFICES ASSUME NEW u \in Workers
               PROVE  /\ returned[u] = Passed(u)
                      /\ \/ entered[u] = returned[u]
                         \/ entered[u] = returned[u] + 1 /\ stage[u] \in {"size", "built"}
                      /\ returned[u] <= finals' /\ finals' <= entered[u]
    BY <1>0 DEF Rounds, Passed
  <2> QED
    BY <1>0, RoundOfJoin
<1>5. Apart'
  BY <1>0 DEF IInv, Apart
<1>6. (\A j \in Joins : Taken(j)' = Taken(j) /\ Counted(j)' = Counted(j))
      /\ \A j \in Joins : j # k => ht'[j] = ht[j]
  BY <1>0, <1>1 DEF Taken, Counted, IInv, TypeOK
<1>7. \A j \in Joins : (finals' < 2 * j - 1 => j # k /\ finals < 2 * j - 1)
                       /\ (finals' >= 2 * j - 1 /\ j # k => finals >= 2 * j /\ finals >= 2 * j - 1 /\ finals' # 2 * j - 1)
  BY <1>0, <1>1, <1>2 DEF Joins
<1>8. Sizing'
  <2> SUFFICES ASSUME NEW j \in Joins, finals' < 2 * j - 1
               PROVE  /\ ht'[j] = Unsized /\ left[j] \cup Taken(j)' = input[j]
                      /\ found[j] = Cardinality(Counted(j)')
                      /\ left[j] # {} => (\E u \in Workers : Builds(u, j))'
    BY <1>0 DEF Sizing, Unsized
  <2> QED
    BY <1>0, <1>6, <1>7 DEF IInv, Sizing, Builds
<1>9. Sized'
  <2> SUFFICES ASSUME NEW j \in Joins, finals' >= 2 * j - 1
               PROVE  /\ left[j] = {} /\ found[j] = Cardinality(input[j]) /\ ht'[j].size = found[j]
                      /\ ht'[j].inserted \subseteq input[j]
                      /\ finals' = 2 * j - 1 => Taken(j)' = input[j]
                      /\ finals' >= 2 * j => ht'[j].inserted = input[j]
    BY <1>0 DEF Sized
  <2>1. CASE j # k
    BY <2>1, <1>6, <1>7 DEF IInv, Sized
  <2>2. CASE j = k /\ stage[w] = "size"
    <3>1. finals < 2 * k - 1 /\ finals' = 2 * k - 1 /\ finals' < 2 * k
      BY <2>2, <1>0, <1>1, <1>2
    <3>2. left[k] = {}
      BY <2>2, <3>1, <1>1 DEF IInv, Sizing, Builds
    <3>3. Counted(k) = Taken(k) /\ Taken(k) = input[k]
      <4>1. Counted(k) = Taken(k)
        BY <2>2, <1>1 DEF Counted, Taken
      <4>2. left[k] \cup Taken(k) = input[k]
        BY <3>1, <1>1 DEF IInv, Sizing
      <4> QED
        BY <4>1, <4>2, <3>2
    <3>4. found[k] = Cardinality(input[k]) /\ ht[k] = Unsized
      BY <3>1, <3>3, <1>1 DEF IInv, Sizing
    <3>5. ht'[k].size = found[k] /\ ht'[k].inserted = {}
      BY <2>2, <3>4, <1>0, <1>1 DEF IInv, TypeOK, Unsized
    <3> QED
      BY <2>2, <3>1, <3>2, <3>3, <3>4, <3>5, <1>0, <1>1, <1>6
  <2>3. CASE j = k /\ stage[w] = "built"
    <3>1. finals = 2 * k - 1 /\ finals' # 2 * k - 1 /\ finals >= 2 * k - 1
      BY <2>3, <1>0, <1>1, <1>2
    <3>2. /\ left[k] = {} /\ found[k] = Cardinality(input[k]) /\ ht[k].size = found[k]
          /\ ht[k].inserted \subseteq input[k] /\ Taken(k) = input[k] /\ ht' = ht
      BY <2>3, <3>1, <1>0, <1>1 DEF IInv, Sized
    <3>3. Taken(k) \subseteq ht[k].inserted
      BY <2>3, <1>1 DEF Taken, IInv, Decided
    <3> QED
      BY <2>3, <3>1, <3>2, <3>3
  <2> QED
    BY <2>1, <2>2, <2>3, <1>0
<1>10. Decided'
  BY <1>0, <1>1 DEF IInv, TypeOK, Decided
<1> QED
  BY <1>3, <1>4, <1>5, <1>8, <1>9, <1>10 DEF IInv

LEMMA ResumeIInv ==
  ASSUME IInv, NEW w \in Workers, Resume(w)
  PROVE  IInv'
<1>0. /\ stage[w] \in {"size", "built"} /\ returned[w] < entered[w] /\ returned[w] < finals
      /\ returned' = [returned EXCEPT ![w] = @ + 1]
      /\ result' = [result EXCEPT ![w] = (w = leader)]
      /\ stage' = [stage EXCEPT ![w] = IF stage[w] = "size" THEN "check" ELSE "probe"]
      /\ UNCHANGED <<left, join, mine, found, ht, input, entered, finals, leader>>
  BY DEF Resume, B!Leave, Goto
<1>1. TypeOK'
  <2>1. returned'[w] \in 0 .. 2 * NrJoins
    BY <1>0, JoinsAssumption DEF IInv, TypeOK
  <2>2. result' \in [Workers -> BOOLEAN]
    BY <1>0, Zenon DEF IInv, TypeOK
  <2> QED
    BY <1>0, <2>1, <2>2 DEF IInv, TypeOK
<1>2. Rounds'
  <2> SUFFICES ASSUME NEW u \in Workers
               PROVE  /\ returned'[u] = Passed(u)'
                      /\ \/ entered[u] = returned'[u]
                         \/ entered[u] = returned'[u] + 1 /\ stage'[u] \in {"size", "built"}
                      /\ returned'[u] <= finals /\ finals <= entered[u]
    BY <1>0 DEF Rounds
  <2>1. CASE u = w
    <3>1. returned'[w] = returned[w] + 1 /\ Passed(w)' = Passed(w) + 1
      BY <1>0, RoundOfJoin DEF IInv, TypeOK, Passed
    <3> QED
      BY <2>1, <3>1, <1>0, RoundOfJoin
  <2>2. CASE u # w
    <3>1. returned'[u] = returned[u] /\ stage'[u] = stage[u] /\ Passed(u)' = Passed(u)
      BY <2>2, <1>0 DEF IInv, TypeOK, Passed
    <3> QED
      BY <3>1, RoundOfJoin
  <2> QED
    BY <2>1, <2>2
<1>3. Apart'
  BY <1>0 DEF IInv, Apart
<1>4. /\ \A j \in Joins : Taken(j)' = Taken(j) /\ Counted(j)' = Counted(j)
      /\ \A u \in Workers, j \in Joins : Builds(u, j)' <=> Builds(u, j)
  BY <1>0 DEF IInv, TypeOK, Taken, Counted, Builds
<1>5. Sizing' /\ Sized'
  BY <1>0, <1>4 DEF IInv, Sizing, Sized, Unsized
<1>6. Decided'
  BY <1>0 DEF IInv, TypeOK, Decided
<1> QED
  BY <1>1, <1>2, <1>3, <1>5, <1>6 DEF IInv

\* A worker moves on inside a round: what the workers hold, count and wait for
\* stays as it is.
LEMMA MoveIInv ==
  ASSUME IInv, NEW w \in Workers, stage[w] \in {"check", "insert"},
         NEW s \in {"insert", "built", "eos"}, stage' = [stage EXCEPT ![w] = s],
         s = "eos" => found[join[w]] = 0,
         s \in {"insert", "built"} => found[join[w]] # 0,
         s = "built" => mine[w] \subseteq ht[join[w]].inserted,
         UNCHANGED <<left, join, mine, found, ht, input, barrierVars>>
  PROVE  IInv'
<1> USE DEF barrierVars
<1>1. TypeOK'
  BY DEF IInv, TypeOK
<1>2. Rounds'
  BY DEF IInv, TypeOK, Rounds, Passed
<1>3. Apart'
  BY DEF IInv, Apart
<1>4. /\ \A j \in Joins : Taken(j)' = Taken(j) /\ Counted(j)' = Counted(j)
      /\ \A u \in Workers, j \in Joins : Builds(u, j)' <=> Builds(u, j)
  BY DEF IInv, TypeOK, Taken, Counted, Builds
<1>5. Sizing' /\ Sized'
  BY <1>4 DEF IInv, Sizing, Sized, Unsized
<1>6. Decided'
  BY DEF IInv, TypeOK, Decided
<1> QED
  BY <1>1, <1>2, <1>3, <1>5, <1>6 DEF IInv

LEMMA InsertIInv ==
  ASSUME IInv, NEW w \in Workers, Insert(w)
  PROVE  IInv'
<1> DEFINE k == join[w]
<1> PICK v \in mine[w] \ ht[k].inserted :
      ht' = [ht EXCEPT ![k].inserted = @ \cup {v}]
  BY DEF Insert
<1>0. /\ stage[w] = "insert"
      /\ UNCHANGED <<left, stage, join, mine, found, input, entered, returned, finals, leader, result>>
  BY DEF Insert, barrierVars
<1>1. k \in Joins /\ v \in Vectors
  BY DEF IInv, TypeOK
<1>2. TypeOK'
  BY <1>0, <1>1 DEF IInv, TypeOK
<1>3. Rounds' /\ Apart'
  BY <1>0 DEF IInv, Rounds, Passed, Apart
<1>4. finals = 2 * k - 1 /\ finals >= 2 * k - 1 /\ ~(finals < 2 * k - 1) /\ ~(finals >= 2 * k)
  BY <1>0, RoundOfJoin DEF Passed
<1>5. /\ \A j \in Joins : Taken(j)' = Taken(j) /\ Counted(j)' = Counted(j)
      /\ \A u \in Workers, j \in Joins : Builds(u, j)' <=> Builds(u, j)
      /\ \A j \in Joins : j # k => ht'[j] = ht[j]
      /\ ht'[k].inserted = ht[k].inserted \cup {v} /\ ht'[k].size = ht[k].size
  BY <1>0, <1>1 DEF IInv, TypeOK, Taken, Counted, Builds
<1>6. v \in input[k]
  <2>1. v \in Taken(k)
    BY <1>1 DEF Taken
  <2> QED
    BY <2>1, <1>1, <1>4 DEF IInv, Sized
<1>7. Sizing'
  <2>1. \A j \in Joins : finals < 2 * j - 1 => ht'[j] = ht[j]
    BY <1>4, <1>5
  <2> QED
    BY <2>1, <1>0, <1>5 DEF IInv, Sizing, Unsized
<1>8. Sized'
  <2>1. \A j \in Joins : finals >= 2 * j => ht'[j] = ht[j]
    BY <1>4, <1>5
  <2>2. \A j \in Joins : ht'[j].size = ht[j].size
                         /\ (ht[j].inserted \subseteq input[j] => ht'[j].inserted \subseteq input[j])
    BY <1>5, <1>6
  <2> QED
    BY <2>1, <2>2, <1>0, <1>5 DEF IInv, Sized
<1>9. Decided'
  BY <1>0, <1>5 DEF IInv, TypeOK, Decided
<1> QED
  BY <1>2, <1>3, <1>7, <1>8, <1>9 DEF IInv

LEMMA ProbeIInv ==
  ASSUME IInv, NEW w \in Workers, Probe(w)
  PROVE  IInv'
<1> DEFINE k == join[w]
<1>0. /\ stage[w] = "probe"
      /\ UNCHANGED <<left, found, ht, input, entered, returned, finals, leader, result>>
  BY DEF Probe, barrierVars
<1>1. k \in Joins /\ k \in Nat /\ finals >= 2 * k /\ finals \in Nat /\ Passed(w) = 2 * k
  BY <1>0, RoundOfJoin DEF Passed
<1>2. \A j \in Joins : finals < 2 * j - 1 => j \in Nat /\ k < j
  BY <1>1 DEF Joins
<1>3. CASE k < NrJoins
  <2>0. join' = [join EXCEPT ![w] = @ + 1] /\ stage' = [stage EXCEPT ![w] = "build"]
        /\ mine' = [mine EXCEPT ![w] = {}]
    BY <1>3 DEF Probe, Goto
  <2>1. TypeOK'
    <3>0. k + 1 \in Joins
      BY <1>1, <1>3, JoinsAssumption DEF Joins
    <3>1. join'[w] \in Joins
      BY <2>0, <3>0 DEF IInv, TypeOK
    <3>2. join' \in [Workers -> Joins]
      BY <3>1, <2>0 DEF IInv, TypeOK
    <3> QED
      BY <1>0, <2>0, <3>2 DEF IInv, TypeOK
  <2>2. Rounds'
    <3> SUFFICES ASSUME NEW u \in Workers
                 PROVE  Passed(u)' = Passed(u) /\ (stage[u] \in {"size", "built"} => stage'[u] = stage[u])
      BY <1>0 DEF IInv, Rounds
    <3>1. CASE u = w
      <4>1. stage'[w] = "build" /\ join'[w] = k + 1
        BY <2>0 DEF IInv, TypeOK
      <4> QED
        BY <3>1, <4>1, <1>0, <1>1 DEF Passed
    <3>2. CASE u # w
      BY <3>2, <2>0 DEF IInv, TypeOK, Passed
    <3> QED
      BY <3>1, <3>2
  <2>3. Apart'
    BY <1>0, <2>0 DEF IInv, TypeOK, Apart
  <2>4. \A j \in Joins : j # k => Taken(j)' = Taken(j) /\ Counted(j)' = Counted(j)
    BY <2>0 DEF IInv, TypeOK, Taken, Counted
  <2>5. Sizing'
    <3>1. \A u \in Workers, j \in Joins : finals < 2 * j - 1 /\ Builds(u, j) => Builds(u, j)'
      BY <1>0, <1>1, <1>2, <2>0 DEF IInv, TypeOK, Builds
    <3> QED
      BY <3>1, <1>0, <1>2, <2>4 DEF IInv, Sizing, Unsized
  <2>6. Sized'
    <3>1. finals # 2 * k - 1
      BY <1>1
    <3> QED
      BY <3>1, <1>0, <2>4 DEF IInv, Sized
  <2>7. Decided'
    BY <1>0, <2>0 DEF IInv, TypeOK, Decided
  <2> QED
    BY <2>1, <2>2, <2>3, <2>5, <2>6, <2>7 DEF IInv
<1>4. CASE ~(k < NrJoins)
  <2>0. stage' = [stage EXCEPT ![w] = "done"] /\ UNCHANGED <<join, mine>>
    BY <1>4 DEF Probe, Goto
  <2>1. TypeOK'
    BY <1>0, <2>0 DEF IInv, TypeOK
  <2>2. Rounds'
    BY <1>0, <2>0 DEF IInv, TypeOK, Rounds, Passed
  <2>3. Apart'
    BY <1>0, <2>0 DEF IInv, Apart
  <2>4. /\ \A j \in Joins : Taken(j)' = Taken(j) /\ Counted(j)' = Counted(j)
        /\ \A u \in Workers, j \in Joins : Builds(u, j)' <=> Builds(u, j)
    BY <1>0, <2>0 DEF IInv, TypeOK, Taken, Counted, Builds
  <2>5. Sizing' /\ Sized'
    BY <1>0, <2>4 DEF IInv, Sizing, Sized, Unsized
  <2>6. Decided'
    BY <1>0, <2>0 DEF IInv, TypeOK, Decided
  <2> QED
    BY <2>1, <2>2, <2>3, <2>5, <2>6 DEF IInv
<1> QED
  BY <1>3, <1>4

LEMMA StepIInv == IInv /\ [Next]_vars => IInv'
<1> SUFFICES ASSUME IInv, [Next]_vars PROVE IInv'
  OBVIOUS
<1>1. ASSUME NEW w \in Workers, Step(w)
      PROVE  IInv'
  <2>1. CASE Check(w)
    <3>1. found[join[w]] \in Nat
      BY JoinsAssumption DEF IInv, TypeOK
    <3> QED
      BY <2>1, <3>1, MoveIInv DEF Check, Goto
  <2>2. CASE InsertDone(w)
    <3>1. found[join[w]] # 0
      BY <2>2 DEF IInv, Decided, InsertDone
    <3> QED
      BY <2>2, <3>1, MoveIInv DEF InsertDone, Goto
  <2> QED
    BY <1>1, <2>1, <2>2, MaterializeIInv, AddFoundIInv, WaitIInv, FinalizeIInv, ResumeIInv,
       InsertIInv, ProbeIInv DEF Step
<1>2. CASE UNCHANGED vars
  <2>1. \A w \in Workers : Passed(w)' = Passed(w)
    BY <1>2 DEF vars, Passed
  <2>2. /\ \A j \in Joins : Taken(j)' = Taken(j) /\ Counted(j)' = Counted(j)
        /\ \A u \in Workers, j \in Joins : Builds(u, j)' <=> Builds(u, j)
    BY <1>2 DEF vars, Taken, Counted, Builds
  <2>3. TypeOK' /\ Rounds' /\ Apart' /\ Decided'
    BY <1>2, <2>1 DEF vars, IInv, TypeOK, Rounds, Apart, Decided
  <2>4. Sizing' /\ Sized'
    BY <1>2, <2>2 DEF vars, IInv, Sizing, Sized, Unsized
  <2> QED
    BY <2>3, <2>4 DEF IInv
<1> QED
  BY <1>1, <1>2 DEF Next, Finished

LEMMA Invariance == Spec => []IInv
  BY InitIInv, StepIInv, PTL DEF Spec

-----------------------------------------------------------------------------

\* The variables of the build phase keep their types: no count of vectors or of
\* rounds leaves its range.
THEOREM TypeCorrect == Spec => []TypeOK
<1>1. IInv => TypeOK
  BY DEF IInv
<1> QED
  BY <1>1, Invariance, PTL

\* A worker that looks up a join's table has passed the second barrier of that
\* join, after whose finalizer all vectors of the build side are in it.
THEOREM Complete == Spec => []ProbesComplete
<1>1. IInv => ProbesComplete
  <2> SUFFICES ASSUME IInv, NEW w \in Workers, NEW j \in Joins, Looks(w, j)
               PROVE  ht[j].inserted = input[j] /\ ht[j].size = Cardinality(input[j])
    BY DEF ProbesComplete
  <2>1. finals >= 2 * j /\ finals >= 2 * j - 1
    <3>1. Passed(w) >= 2 * j
      BY RoundOfJoin DEF Looks, Passed, Joins
    <3> QED
      BY <3>1, RoundOfJoin DEF Joins
  <2> QED
    BY <2>1 DEF IInv, Sized
<1> QED
  BY <1>1, Invariance, PTL

\* An entry is only inserted into a table whose size is the number of entries of
\* all workers together.
LEMMA CountFinal == IInv => SizedForAll
<1> SUFFICES ASSUME IInv, NEW w \in Workers, stage[w] \in {"insert", "built"}
             PROVE  ht[join[w]].size = Cardinality(input[join[w]]) /\ ht[join[w]].size > 0
  BY DEF SizedForAll
<1>1. finals >= 2 * join[w] - 1 /\ join[w] \in Joins
  <2>1. Passed(w) = 2 * join[w] - 1
    BY RoundOfJoin DEF Passed
  <2> QED
    BY <2>1, RoundOfJoin
<1>2. /\ ht[join[w]].size = Cardinality(input[join[w]])
      /\ ht[join[w]].size = found[join[w]] /\ found[join[w]] # 0
  BY <1>1 DEF IInv, Sized, Decided
<1>3. found[join[w]] \in Nat
  BY <1>1, JoinsAssumption DEF IInv, TypeOK
<1> QED
  BY <1>2, <1>3

\* The end of the stream at an empty build side is a decision of all workers: the
\* barrier lets nobody be elsewhere than in the round of that join.
LEMMA EmptyUnanimous == IInv => EmptyForAll
<1> SUFFICES ASSUME IInv, NEW w \in Workers, NEW u \in Workers, stage[w] = "eos"
             PROVE  ~Looks(u, join[w]) /\ stage[u] \notin {"insert", "built"}
  BY DEF EmptyForAll
<1>1. finals = 2 * join[w] - 1 /\ found[join[w]] = 0
  BY RoundOfJoin DEF Passed, IInv, Decided
<1>2. Passed(u) <= 2 * join[w] - 1
  BY <1>1, RoundOfJoin
<1>3. ~Looks(u, join[w])
  BY <1>2, RoundOfJoin DEF Looks, Passed
<1>4. ASSUME stage[u] \in {"insert", "built"}
      PROVE  FALSE
  <2>1. Passed(u) = 2 * join[u] - 1 /\ entered[u] <= 2 * join[u]
    BY <1>4, RoundOfJoin DEF Passed
  <2>2. join[u] = join[w]
    BY <1>1, <1>2, <2>1, RoundOfJoin
  <2> QED
    BY <1>1, <1>4, <2>2 DEF IInv, Decided
<1> QED
  BY <1>3, <1>4

\* Workers that wait in one round wait at the same barrier of the same join.
LEMMA WaitTogether == IInv => SameBarrier
<1> SUFFICES ASSUME IInv, NEW w \in Workers, NEW u \in Workers,
                    Waiting(w), Waiting(u), entered[w] = entered[u]
             PROVE  join[w] = join[u] /\ stage[w] = stage[u]
  BY DEF SameBarrier
<1>1. /\ stage[w] \in {"size", "built"} /\ stage[u] \in {"size", "built"}
      /\ Passed(w) = Passed(u)
  BY RoundOfJoin DEF Waiting
<1> QED
  BY <1>1, RoundOfJoin DEF Passed

\* For every number of workers, joins and vectors: who probes a join finds the
\* build vectors of all workers in its table, which was made for exactly that
\* many, and all workers agree on what they wait for and whether there are any.
THEOREM RightBuild == Spec => []BuildRight
<1>1. IInv => BuildAgrees
  BY CountFinal, EmptyUnanimous, WaitTogether DEF BuildAgrees
<1> QED
  BY <1>1, Complete, Invariance, PTL DEF BuildRight

-----------------------------------------------------------------------------
(* The build side of the hash join, next to the other operators *)

\* The build keeps its invariant while other operators run.
LEMMA BuildInvariance == MCSpec => []IInv
<1>1. MCInit => IInv
  BY InitIInv DEF MCInit
<1>2. IInv /\ [MCNext]_allVars => IInv'
  <2> SUFFICES ASSUME IInv, [MCNext]_allVars
               PROVE  [Next]_vars
    BY StepIInv
  <2> QED
    BY DEF MCNext, WorkerStep, allVars, ScanOnly, BuildOnly, GroupOnly, PlanOnly, QueriesOnly, Next
<1> QED
  BY <1>1, <1>2, PTL DEF MCSpec

-----------------------------------------------------------------------------
(* The scan *)

\* The first tuple of chunk q.
ChunkBegin(q) == q * scanChunkSize * vecSize

\* Where a worker is in its chunk; a worker that saw the end of its stream was at
\* the end of the relation.
ScanPlaced ==
  \A w \in Workers :
    /\ column[w] = lastOffset[w]
    /\ needsInit[w] =>
         running[w] /\ vecInChunk[w] = scanChunkSize /\ currentChunk[w] = 0 /\ lastOffset[w] = 0
    /\ ~needsInit[w] /\ running[w] =>
         /\ vecInChunk[w] > 0
         /\ lastOffset[w] = ChunkBegin(currentChunk[w]) + (vecInChunk[w] - 1) * vecSize
         /\ lastOffset[w] < nrTuples
    /\ ~running[w] => nrTuples <= ChunkBegin(chunkPos)

\* Every chunk has been claimed by one worker.
ChunksClaimed ==
  /\ \A w \in Workers : ~needsInit[w] => currentChunk[w] < chunkPos
  /\ \A w, u \in Workers :
       w # u /\ ~needsInit[w] /\ ~needsInit[u] => currentChunk[w] # currentChunk[u]

\* The inductive invariant.
ScanInv ==
  Scan!TypeOK /\ ScanPlaced /\ ChunksClaimed /\ Scan!DeliveredOnce /\ Scan!NothingOrphaned

\* Of two different chunks one ends before the other begins.
LEMMA ChunksInOrder ==
  ASSUME NEW q \in Nat, NEW r \in Nat, q < r, NEW size \in Nat, NEW s \in Nat
  PROVE  /\ (q + 1) * size * s = q * size * s + size * s
         /\ (q + 1) * size * s <= r * size * s
         /\ q * size * s \in Nat /\ r * size * s \in Nat /\ size * s \in Nat
<1>1. PICK d \in Nat : r = (q + 1) + d
  <2>1. r - (q + 1) \in Nat /\ r = (q + 1) + (r - (q + 1))
    OBVIOUS
  <2> QED
    BY <2>1
<1>2. q * size * s \in Nat /\ r * size * s \in Nat /\ size * s \in Nat /\ d * size * s \in Nat
  <2>1. q * size \in Nat /\ r * size \in Nat /\ d * size \in Nat
    BY SMT
  <2> QED
    BY <2>1, SMT
<1>3. (q + 1) * size * s = q * size * s + size * s
  BY SMT
<1>4. r * size * s = (q + 1) * size * s + d * size * s
  BY <1>1, SMT
<1> QED
  BY <1>2, <1>3, <1>4, SMT

\* A vector lies in the chunk of size vectors it belongs to.
LEMMA VectorsInOrder ==
  ASSUME NEW v \in Nat, NEW size \in Nat, v < size, NEW s \in Nat
  PROVE  (v + 1) * s = v * s + s /\ (v + 1) * s <= size * s /\ v * s \in Nat /\ size * s \in Nat
<1>1. PICK d \in Nat : size = (v + 1) + d
  <2>1. size - (v + 1) \in Nat /\ size = (v + 1) + (size - (v + 1))
    OBVIOUS
  <2> QED
    BY <2>1
<1>2. v * s \in Nat /\ size * s \in Nat /\ d * s \in Nat
  BY SMT
<1>3. (v + 1) * s = v * s + s /\ size * s = (v + 1) * s + d * s
  BY <1>1, SMT
<1> QED
  BY <1>2, <1>3, SMT

\* The tuples of the chunk that w has claimed.
Chunk(w) ==
  {n \in Scan!Tuples : ChunkBegin(currentChunk[w]) <= n /\ n < ChunkBegin(currentChunk[w] + 1)}

LEMMA ScanTypes ==
  ASSUME ScanInv
  PROVE  /\ nrTuples \in Nat /\ scanChunkSize \in Nat \ {0} /\ vecSize \in Nat \ {0}
         /\ chunkPos \in Nat /\ ChunkBegin(chunkPos) \in Nat
         /\ scanChunkSize * vecSize \in Nat
         /\ \A w \in Workers : /\ currentChunk[w] \in Nat /\ lastOffset[w] \in Nat
                               /\ vecInChunk[w] \in 0 .. scanChunkSize
         /\ \A n \in Scan!Tuples : n \in Nat /\ n < nrTuples /\ times[n] \in Nat
<1>1. /\ nrTuples \in Nat /\ scanChunkSize \in Nat \ {0} /\ vecSize \in Nat \ {0}
      /\ chunkPos \in Nat
      /\ \A w \in Workers : /\ currentChunk[w] \in Nat /\ lastOffset[w] \in Nat
                            /\ vecInChunk[w] \in 0 .. scanChunkSize
      /\ times \in [Scan!Tuples -> Nat]
  BY ScanAssumption DEF ScanInv, Scan!TypeOK, Scan!SizesAssumption
<1>2. ChunkBegin(chunkPos) \in Nat /\ scanChunkSize * vecSize \in Nat
  BY <1>1, ChunksInOrder DEF ChunkBegin
<1> QED
  BY <1>1, <1>2 DEF Scan!Tuples

\* Chunks follow one after the other.
LEMMA ChunkBegins ==
  ASSUME ScanInv
  PROVE  /\ \A q \in Nat : /\ ChunkBegin(q) \in Nat
                           /\ ChunkBegin(q + 1) = ChunkBegin(q) + scanChunkSize * vecSize
         /\ \A q, r \in Nat : q < r => ChunkBegin(q + 1) <= ChunkBegin(r)
<1>1. scanChunkSize \in Nat /\ vecSize \in Nat
  BY ScanTypes
<1>2. ASSUME NEW q \in Nat
      PROVE  /\ ChunkBegin(q) \in Nat
             /\ ChunkBegin(q + 1) = ChunkBegin(q) + scanChunkSize * vecSize
  <2>1. q + 1 \in Nat /\ q < q + 1
    OBVIOUS
  <2> QED
    BY <1>1, <2>1, ChunksInOrder DEF ChunkBegin
<1>3. ASSUME NEW q \in Nat, NEW r \in Nat, q < r
      PROVE  ChunkBegin(q + 1) <= ChunkBegin(r)
  BY <1>1, <1>3, ChunksInOrder DEF ChunkBegin
<1> QED
  BY <1>2, <1>3

\* What a worker still has to deliver lies in its chunk, which is a claimed one and
\* nobody else's.
LEMMA RestInChunk ==
  ASSUME ScanInv, NEW w \in Workers, ~needsInit[w]
  PROVE  /\ Scan!Rest(w) = {n \in Scan!Tuples : /\ n >= lastOffset[w] + vecSize
                                              /\ n < ChunkBegin(currentChunk[w] + 1)}
         /\ running[w] => Scan!Rest(w) \subseteq Chunk(w)
         /\ \A n \in Chunk(w) : n < ChunkBegin(chunkPos)
         /\ \A u \in Workers : u # w /\ ~needsInit[u] => Chunk(u) \cap Chunk(w) = {}
<1>1. Scan!Rest(w) = {n \in Scan!Tuples : /\ n >= lastOffset[w] + vecSize
                                         /\ n < ChunkBegin(currentChunk[w] + 1)}
  BY DEF Scan!Rest, ChunkBegin
<1>2. ASSUME running[w]
      PROVE  Scan!Rest(w) \subseteq Chunk(w)
  <2>1. PICK v \in Nat : vecInChunk[w] = v + 1
    <3>1. vecInChunk[w] \in Nat /\ vecInChunk[w] > 0
      BY <1>2, ScanTypes DEF ScanInv, ScanPlaced
    <3>2. vecInChunk[w] - 1 \in Nat /\ vecInChunk[w] = (vecInChunk[w] - 1) + 1
      BY <3>1
    <3> QED
      BY <3>2
  <2>2. v < scanChunkSize /\ lastOffset[w] = ChunkBegin(currentChunk[w]) + v * vecSize
    BY <1>2, <2>1, ScanTypes DEF ScanInv, ScanPlaced
  <2>3. ChunkBegin(currentChunk[w]) \in Nat /\ v * vecSize \in Nat
    BY <2>2, ScanTypes, ChunkBegins, VectorsInOrder
  <2>4. lastOffset[w] >= ChunkBegin(currentChunk[w])
    BY <2>2, <2>3
  <2> QED
    BY <1>1, <2>3, <2>4, ScanTypes DEF Chunk
<1>3. \A n \in Chunk(w) : n < ChunkBegin(chunkPos)
  <2>1. currentChunk[w] < chunkPos /\ currentChunk[w] \in Nat
    BY ScanTypes DEF ScanInv, ChunksClaimed
  <2>2. /\ ChunkBegin(currentChunk[w] + 1) <= ChunkBegin(chunkPos)
        /\ ChunkBegin(currentChunk[w] + 1) \in Nat
    BY <2>1, ScanTypes, ChunkBegins
  <2> QED
    BY <2>2, ScanTypes DEF Chunk
<1>4. ASSUME NEW u \in Workers, u # w, ~needsInit[u]
      PROVE  Chunk(u) \cap Chunk(w) = {}
  <2>1. currentChunk[u] # currentChunk[w] /\ currentChunk[u] \in Nat /\ currentChunk[w] \in Nat
    BY <1>4, ScanTypes DEF ScanInv, ChunksClaimed
  <2>2. /\ currentChunk[u] < currentChunk[w] =>
             ChunkBegin(currentChunk[u] + 1) <= ChunkBegin(currentChunk[w])
        /\ currentChunk[w] < currentChunk[u] =>
             ChunkBegin(currentChunk[w] + 1) <= ChunkBegin(currentChunk[u])
        /\ ChunkBegin(currentChunk[u]) \in Nat /\ ChunkBegin(currentChunk[w]) \in Nat
        /\ ChunkBegin(currentChunk[u] + 1) \in Nat /\ ChunkBegin(currentChunk[w] + 1) \in Nat
    BY <2>1, ChunkBegins
  <2> QED
    BY <2>1, <2>2, ScanTypes DEF Chunk
<1> QED
  BY <1>1, <1>2, <1>3, <1>4

LEMMA ScanInitInv == Scan!Init => ScanInv
<1> SUFFICES ASSUME Scan!Init PROVE ScanInv
  OBVIOUS
<1> USE DEF Scan!Init
<1>1. Scan!TypeOK
  BY ScanAssumption DEF Scan!TypeOK, Scan!SizesAssumption
<1>2. ScanPlaced /\ ChunksClaimed
  BY DEF ScanPlaced, ChunksClaimed
<1>3. Scan!DeliveredOnce
  BY DEF Scan!DeliveredOnce
<1>4. Scan!NothingOrphaned
  BY ScanAssumption DEF Scan!NothingOrphaned, Scan!SizesAssumption, Scan!Tuples
<1> QED
  BY <1>1, <1>2, <1>3, <1>4 DEF ScanInv

\* A step within a chunk.
LEMMA NextInChunkInv ==
  ASSUME ScanInv, NEW w \in Workers, Scan!NextInChunk(w)
  PROVE  ScanInv'
<1> DEFINE base == ChunkBegin(currentChunk[w])
           next == lastOffset[w] + vecSize
<1>0. /\ running[w] /\ vecInChunk[w] # scanChunkSize /\ Scan!Advance(w, 1, vecInChunk[w])
      /\ UNCHANGED <<nrTuples, scanChunkSize, vecSize, chunkPos, needsInit, currentChunk>>
  BY DEF Scan!NextInChunk, Scan!params
<1>1. ~needsInit[w]
  BY <1>0 DEF ScanInv, ScanPlaced
<1>2. PICK v \in Nat : vecInChunk[w] = v + 1 /\ v + 1 < scanChunkSize
  <2>1. vecInChunk[w] > 0 /\ vecInChunk[w] # scanChunkSize
    BY <1>0, <1>1 DEF ScanInv, ScanPlaced
  <2>2. scanChunkSize \in Nat /\ vecInChunk[w] \in 0 .. scanChunkSize
    BY ScanTypes
  <2>3. vecInChunk[w] - 1 \in Nat /\ vecInChunk[w] = (vecInChunk[w] - 1) + 1
    BY <2>1, <2>2
  <2> QED
    BY <2>1, <2>2, <2>3
<1>3. /\ base \in Nat /\ lastOffset[w] = base + v * vecSize /\ lastOffset[w] \in Nat
      /\ next = base + (v + 1) * vecSize /\ next \in Nat
      /\ next + vecSize <= base + scanChunkSize * vecSize
      /\ ChunkBegin(currentChunk[w] + 1) = base + scanChunkSize * vecSize
      /\ base + scanChunkSize * vecSize <= ChunkBegin(chunkPos)
  <2>1. lastOffset[w] = base + v * vecSize
    BY <1>0, <1>1, <1>2 DEF ScanInv, ScanPlaced
  <2>2. /\ currentChunk[w] < chunkPos /\ currentChunk[w] \in Nat /\ chunkPos \in Nat
        /\ scanChunkSize \in Nat /\ vecSize \in Nat /\ lastOffset[w] \in Nat
    BY <1>1, ScanTypes DEF ScanInv, ChunksClaimed
  <2>3. /\ base \in Nat /\ ChunkBegin(currentChunk[w] + 1) = base + scanChunkSize * vecSize
        /\ ChunkBegin(currentChunk[w] + 1) <= ChunkBegin(chunkPos) /\ ChunkBegin(chunkPos) \in Nat
    BY <2>2, ChunkBegins
  <2>4. /\ (v + 1) * vecSize = v * vecSize + vecSize /\ v * vecSize \in Nat
        /\ ((v + 1) + 1) * vecSize = (v + 1) * vecSize + vecSize
        /\ ((v + 1) + 1) * vecSize <= scanChunkSize * vecSize
        /\ scanChunkSize * vecSize \in Nat
    BY <1>2, <2>2, VectorsInOrder
  <2> HIDE DEF base
  <2> QED
    BY <2>1, <2>2, <2>3, <2>4
<1> HIDE DEF base
<1>4. \A n \in Chunk(w) : n < ChunkBegin(chunkPos)
  BY <1>0, <1>1, RestInChunk
<1>5. CASE next >= nrTuples
  <2>0. /\ running' = [running EXCEPT ![w] = FALSE]
        /\ vecInChunk' = [vecInChunk EXCEPT ![w] = vecInChunk[w]]
        /\ UNCHANGED <<lastOffset, column, times>>
    BY <1>0, <1>5, ScanTypes DEF Scan!Advance
  <2>1. Scan!TypeOK'
    BY <1>0, <2>0 DEF ScanInv, Scan!TypeOK, Scan!Tuples
  <2>2. ScanPlaced' /\ ChunksClaimed'
    <3>1. nrTuples <= ChunkBegin(chunkPos)
      BY <1>3, <1>5, ScanTypes
    <3>2. \A q : ChunkBegin(q)' = ChunkBegin(q)
      BY <1>0 DEF ChunkBegin
    <3> QED
      BY <1>0, <1>1, <2>0, <3>1, <3>2 DEF ScanInv, ScanPlaced, ChunksClaimed, Scan!TypeOK
  <2>3. Scan!DeliveredOnce'
    BY <1>0, <2>0 DEF ScanInv, Scan!DeliveredOnce, Scan!Tuples
  <2>4. Scan!NothingOrphaned'
    <3>1. Scan!Rest(w) = {}
      BY <1>5, ScanTypes DEF Scan!Rest
    <3>2. \A u \in Workers : Scan!Rest(u)' = Scan!Rest(u)
      BY <1>0, <2>0 DEF Scan!Rest, Scan!Tuples
    <3> QED
      BY <1>0, <2>0, <3>1, <3>2 DEF ScanInv, Scan!NothingOrphaned, Scan!Tuples, Scan!TypeOK
  <2> QED
    BY <2>1, <2>2, <2>3, <2>4 DEF ScanInv
<1>6. CASE next < nrTuples
  <2>0. /\ column' = [column EXCEPT ![w] = @ + vecSize]
        /\ lastOffset' = [lastOffset EXCEPT ![w] = next]
        /\ vecInChunk' = [vecInChunk EXCEPT ![w] = vecInChunk[w] + 1]
        /\ times' = [n \in Scan!Tuples |->
                       IF n \in Scan!Batch(next) THEN times[n] + 1 ELSE times[n]]
        /\ UNCHANGED running
    BY <1>0, <1>3, <1>6, ScanTypes DEF Scan!Advance
  <2>1. column[w] = lastOffset[w] /\ column'[w] = next
    BY <1>3, <2>0 DEF ScanInv, ScanPlaced, Scan!TypeOK
  <2>2. Scan!TypeOK'
    <3>1. vecInChunk[w] + 1 \in 0 .. scanChunkSize
      BY <1>2, ScanTypes
    <3>2. times' \in [Scan!Tuples -> Nat]
      BY <2>0, ScanTypes
    <3> QED
      BY <1>0, <1>3, <2>0, <2>1, <3>1, <3>2 DEF ScanInv, Scan!TypeOK, Scan!Tuples
  <2>3. /\ vecInChunk'[w] > 0 /\ vecInChunk'[w] - 1 = v + 1
        /\ lastOffset'[w] = next /\ lastOffset'[w] < nrTuples
    BY <1>2, <1>6, <2>0 DEF ScanInv, Scan!TypeOK
  <2>4. ScanPlaced'
    <3>1. ASSUME NEW u \in Workers, u # w
          PROVE  UNCHANGED <<column[u], lastOffset[u], vecInChunk[u]>>
      BY <2>0, <3>1 DEF ScanInv, Scan!TypeOK
    <3>2. \A q : ChunkBegin(q)' = ChunkBegin(q)
      BY <1>0 DEF ChunkBegin
    <3>3. lastOffset'[w] = ChunkBegin(currentChunk[w]) + (vecInChunk'[w] - 1) * vecSize
      BY <1>3, <2>3 DEF base
    <3> QED
      BY <1>0, <1>1, <2>0, <2>1, <2>3, <3>1, <3>2, <3>3 DEF ScanInv, ScanPlaced
  <2>5. ChunksClaimed'
    BY <1>0 DEF ScanInv, ChunksClaimed
  <2>6. Scan!Batch(next) \subseteq Scan!Rest(w)
    BY <1>1, <1>3, ScanTypes, RestInChunk DEF Scan!Batch
  <2>7. \A n \in Scan!Batch(next) : times[n] = 0
    BY <1>0, <1>1, <2>6 DEF ScanInv, Scan!NothingOrphaned, Scan!Rest
  <2>8. Scan!DeliveredOnce'
    BY <1>0, <2>0, <2>7, ScanTypes DEF ScanInv, Scan!DeliveredOnce, Scan!Tuples
  <2>9. /\ Scan!Rest(w)' = Scan!Rest(w) \ Scan!Batch(next)
        /\ \A u \in Workers : u # w => Scan!Rest(u)' = Scan!Rest(u)
    <3>1. lastOffset'[w] = next /\ \A u \in Workers : u # w => lastOffset'[u] = lastOffset[u]
      BY <2>0 DEF ScanInv, Scan!TypeOK
    <3> QED
      BY <1>0, <1>3, <3>1, ScanTypes DEF Scan!Rest, Scan!Batch, Scan!Tuples
  <2>10. Scan!NothingOrphaned'
    <3> SUFFICES ASSUME NEW n \in Scan!Tuples
                 PROVE  times'[n] = 0 <=>
                          \/ n >= ChunkBegin(chunkPos)
                          \/ \E u \in Workers : running[u] /\ ~needsInit[u] /\ n \in Scan!Rest(u)'
      BY <1>0, <2>0 DEF Scan!NothingOrphaned, Scan!Tuples, ChunkBegin
    <3>1. CASE n \in Scan!Batch(next)
      <4>1. times'[n] # 0 /\ n \in Chunk(w) /\ ~(n >= ChunkBegin(chunkPos))
        BY <3>1, <1>0, <1>1, <1>4, <2>0, <2>6, ScanTypes, RestInChunk
      <4>2. ASSUME NEW u \in Workers, running[u], ~needsInit[u], n \in Scan!Rest(u)'
            PROVE  FALSE
        <5>1. u # w /\ n \in Scan!Rest(u)
          BY <3>1, <4>2, <2>9
        <5>2. n \in Chunk(u) /\ Chunk(u) \cap Chunk(w) = {}
          BY <4>2, <5>1, <1>0, <1>1, RestInChunk
        <5> QED
          BY <4>1, <5>2
      <4> QED
        BY <4>1, <4>2
    <3>2. CASE n \notin Scan!Batch(next)
      <4>1. times'[n] = times[n] /\ \A u \in Workers : n \in Scan!Rest(u)' <=> n \in Scan!Rest(u)
        BY <3>2, <2>0, <2>9
      <4> QED
        BY <4>1 DEF ScanInv, Scan!NothingOrphaned, ChunkBegin
    <3> QED
      BY <3>1, <3>2
  <2> QED
    BY <2>2, <2>4, <2>5, <2>8, <2>10 DEF ScanInv
<1> QED
  BY <1>3, <1>5, <1>6, ScanTypes

\* The step to another chunk leads to its first vector, wherever it is taken from.
LEMMA StepToChunk ==
  ASSUME ScanInv, NEW w \in Workers, running[w], vecInChunk[w] = scanChunkSize
  PROVE  lastOffset[w] + (IF needsInit[w] THEN (chunkPos - currentChunk[w]) * scanChunkSize
                          ELSE ((chunkPos - currentChunk[w]) - 1) * scanChunkSize + 1) * vecSize
           = ChunkBegin(chunkPos)
<1>0. /\ chunkPos \in Nat /\ currentChunk[w] \in Nat /\ scanChunkSize \in Nat /\ vecSize \in Nat
      /\ scanChunkSize > 0
  BY ScanTypes
<1>1. CASE needsInit[w]
  <2>1. lastOffset[w] = 0 /\ chunkPos - currentChunk[w] = chunkPos
    BY <1>0, <1>1 DEF ScanInv, ScanPlaced
  <2>2. chunkPos * scanChunkSize * vecSize \in Nat
    BY <1>0, ScanTypes DEF ChunkBegin
  <2> QED
    BY <1>1, <2>1, <2>2 DEF ChunkBegin
<1>2. CASE ~needsInit[w]
  <2>1. PICK d \in Nat : chunkPos = (currentChunk[w] + 1) + d
    <3>1. currentChunk[w] < chunkPos
      BY <1>2 DEF ScanInv, ChunksClaimed
    <3>2. chunkPos - (currentChunk[w] + 1) \in Nat
      BY <1>0, <3>1
    <3> QED
      BY <1>0, <3>2
  <2>2. PICK v \in Nat : scanChunkSize = v + 1
    <3>1. scanChunkSize - 1 \in Nat /\ scanChunkSize = (scanChunkSize - 1) + 1
      BY <1>0
    <3> QED
      BY <3>1
  <2>3. (chunkPos - currentChunk[w]) - 1 = d
    BY <1>0, <2>1
  <2>4. lastOffset[w] = ChunkBegin(currentChunk[w]) + v * vecSize
    BY <1>2, <2>2 DEF ScanInv, ScanPlaced
  <2>5. v * vecSize \in Nat /\ (v + 1) * vecSize = v * vecSize + vecSize
    BY <1>0, <2>2, VectorsInOrder
  <2>6. /\ d * scanChunkSize \in Nat /\ d * scanChunkSize * vecSize \in Nat
        /\ (d * scanChunkSize + 1) * vecSize = d * scanChunkSize * vecSize + vecSize
    <3>1. d * scanChunkSize \in Nat
      BY <1>0, SMT
    <3> HIDE DEF ChunkBegin
    <3>2. \A x \in Nat : x * vecSize \in Nat /\ (x + 1) * vecSize = x * vecSize + vecSize
      BY <1>0, SMT
    <3> QED
      BY <3>1, <3>2
  <2>7. ChunkBegin(chunkPos) = ChunkBegin(currentChunk[w] + 1) + d * scanChunkSize * vecSize
    BY <1>0, <2>1, SMT DEF ChunkBegin
  <2>8. /\ ChunkBegin(currentChunk[w] + 1) = ChunkBegin(currentChunk[w]) + scanChunkSize * vecSize
        /\ ChunkBegin(currentChunk[w]) \in Nat
    BY <1>0, ChunkBegins
  <2>9. scanChunkSize * vecSize = v * vecSize + vecSize
    BY <2>2, <2>5
  <2>10. ((chunkPos - currentChunk[w]) - 1) * scanChunkSize + 1 = d * scanChunkSize + 1
    BY <2>3
  <2>11. ChunkBegin(currentChunk[w]) + v * vecSize + (d * scanChunkSize * vecSize + vecSize)
           = ChunkBegin(chunkPos)
    <3> DEFINE x == v * vecSize
               y == d * scanChunkSize * vecSize
               z == scanChunkSize * vecSize
    <3>1. ChunkBegin(chunkPos) = (ChunkBegin(currentChunk[w]) + z) + y /\ z = x + vecSize
      BY <2>7, <2>8, <2>9
    <3>2. x \in Nat /\ y \in Nat /\ ChunkBegin(currentChunk[w]) \in Nat /\ vecSize \in Nat
      BY <1>0, <2>5, <2>6, <2>8
    <3> HIDE DEF x, y, z
    <3>3. ChunkBegin(currentChunk[w]) + x + (y + vecSize) = ChunkBegin(chunkPos)
      BY <3>1, <3>2
    <3> QED
      BY <3>3 DEF x, y
  <2> QED
    BY <1>2, <2>4, <2>6, <2>10, <2>11
<1> QED
  BY <1>1, <1>2

\* A step to another chunk.
LEMMA NextChunkInv ==
  ASSUME ScanInv, NEW w \in Workers, Scan!NextChunk(w)
  PROVE  ScanInv'
<1> DEFINE begin == ChunkBegin(chunkPos)
           jump == IF needsInit[w] THEN (chunkPos - currentChunk[w]) * scanChunkSize
                   ELSE ((chunkPos - currentChunk[w]) - 1) * scanChunkSize + 1
<1>0. /\ running[w] /\ vecInChunk[w] = scanChunkSize
      /\ chunkPos' = chunkPos + 1
      /\ currentChunk' = [currentChunk EXCEPT ![w] = chunkPos]
      /\ needsInit' = [needsInit EXCEPT ![w] = FALSE]
      /\ Scan!Advance(w, jump, 0)
      /\ UNCHANGED <<nrTuples, scanChunkSize, vecSize>>
  BY DEF Scan!NextChunk, Scan!params
<1>1. lastOffset[w] + jump * vecSize = begin
  BY <1>0, StepToChunk
<1> HIDE DEF jump
<1>2. /\ begin \in Nat /\ scanChunkSize * vecSize \in Nat /\ vecSize <= scanChunkSize * vecSize
      /\ ChunkBegin(chunkPos + 1) = begin + scanChunkSize * vecSize
      /\ \A q : ChunkBegin(q)' = ChunkBegin(q)
  <2>1. vecSize <= scanChunkSize * vecSize
    <3>1. 0 < scanChunkSize /\ scanChunkSize \in Nat /\ vecSize \in Nat
      BY ScanTypes
    <3>2. (0 + 1) * vecSize <= scanChunkSize * vecSize
      BY <3>1, VectorsInOrder
    <3> QED
      BY <3>1, <3>2
  <2> QED
    BY <1>0, <2>1, ScanTypes, ChunkBegins DEF ChunkBegin
<1>3. ChunkBegin(chunkPos + 1) \in Nat /\ begin < ChunkBegin(chunkPos + 1)
  BY <1>2, ScanTypes
<1>4. /\ needsInit'[w] = FALSE /\ currentChunk'[w] = chunkPos
      /\ \A u \in Workers : u # w => UNCHANGED <<needsInit[u], currentChunk[u]>>
  BY <1>0 DEF ScanInv, Scan!TypeOK
<1>5. ChunksClaimed'
  BY <1>0, <1>4, ScanTypes DEF ScanInv, ChunksClaimed
\* The last chunk of w is delivered.
<1>6. ~needsInit[w] => Scan!Rest(w) = {}
  <2> SUFFICES ASSUME ~needsInit[w] PROVE Scan!Rest(w) = {}
    OBVIOUS
  <2>1. /\ lastOffset[w] = ChunkBegin(currentChunk[w]) + (scanChunkSize - 1) * vecSize
        /\ ChunkBegin(currentChunk[w] + 1) = ChunkBegin(currentChunk[w]) + scanChunkSize * vecSize
        /\ ChunkBegin(currentChunk[w]) \in Nat
    BY <1>0, ScanTypes, ChunkBegins DEF ScanInv, ScanPlaced
  <2>2. /\ (scanChunkSize - 1) * vecSize + vecSize = scanChunkSize * vecSize
        /\ (scanChunkSize - 1) * vecSize \in Nat
    <3>1. scanChunkSize \in Nat /\ scanChunkSize - 1 \in Nat /\ scanChunkSize - 1 < scanChunkSize
          /\ vecSize \in Nat /\ (scanChunkSize - 1) + 1 = scanChunkSize
      BY ScanTypes
    <3>2. /\ ((scanChunkSize - 1) + 1) * vecSize = (scanChunkSize - 1) * vecSize + vecSize
          /\ (scanChunkSize - 1) * vecSize \in Nat
      BY <3>1, VectorsInOrder
    <3> QED
      BY <3>1, <3>2
  <2>3. lastOffset[w] + vecSize = ChunkBegin(currentChunk[w] + 1)
    BY <1>2, <2>1, <2>2, ScanTypes
  <2>4. Scan!Rest(w) = {n \in Scan!Tuples : /\ n >= lastOffset[w] + vecSize
                                           /\ n < ChunkBegin(currentChunk[w] + 1)}
    BY RestInChunk
  <2>5. ChunkBegin(currentChunk[w] + 1) \in Nat
    BY <1>2, <2>1
  <2> QED
    BY <2>3, <2>4, <2>5, ScanTypes
<1>7. \A n \in Scan!Tuples, u \in Workers :
        running[u] /\ ~needsInit[u] /\ n \in Scan!Rest(u) => u # w /\ n < begin
  BY <1>6, RestInChunk
\* Before and after it, the tuples that are not delivered.
<1>8. \A n \in Scan!Tuples :
        times[n] = 0 <=> \/ n >= begin
                         \/ \E u \in Workers : running[u] /\ ~needsInit[u] /\ n \in Scan!Rest(u)
  BY DEF ScanInv, Scan!NothingOrphaned, ChunkBegin
<1>9. CASE begin >= nrTuples
  <2>0. /\ running' = [running EXCEPT ![w] = FALSE]
        /\ vecInChunk' = [vecInChunk EXCEPT ![w] = 0]
        /\ UNCHANGED <<lastOffset, column, times>>
    BY <1>0, <1>1, <1>9 DEF Scan!Advance
  <2>1. Scan!TypeOK'
    BY SMTT(30), <1>0, <2>0, ScanTypes DEF ScanInv, Scan!TypeOK, Scan!Tuples
  <2>2. ScanPlaced'
    <3>1. nrTuples <= ChunkBegin(chunkPos + 1)
      BY <1>3, <1>9, ScanTypes
    <3>2. ASSUME NEW u \in Workers, u # w
          PROVE  UNCHANGED <<column[u], lastOffset[u], vecInChunk[u], running[u]>>
      BY <2>0, <3>2 DEF ScanInv, Scan!TypeOK
    <3>3. running'[w] = FALSE /\ UNCHANGED <<column[w], lastOffset[w]>>
      BY <2>0 DEF ScanInv, Scan!TypeOK
    <3> QED
      BY <1>0, <1>2, <1>4, <3>1, <3>2, <3>3 DEF ScanInv, ScanPlaced
  <2>3. Scan!DeliveredOnce'
    BY <1>0, <2>0 DEF ScanInv, Scan!DeliveredOnce, Scan!Tuples
  <2>4. Scan!NothingOrphaned'
    <3> SUFFICES ASSUME NEW n \in Scan!Tuples
                 PROVE  times'[n] = 0 <=>
                          \/ n >= ChunkBegin(chunkPos + 1)
                          \/ \E u \in Workers : running'[u] /\ ~needsInit'[u] /\ n \in Scan!Rest(u)'
      BY <1>0 DEF Scan!NothingOrphaned, Scan!Tuples, ChunkBegin
    <3>1. times'[n] = times[n] /\ ~(n >= begin) /\ ~(n >= ChunkBegin(chunkPos + 1))
      BY <1>3, <1>9, <2>0, ScanTypes
    <3>2. ASSUME NEW u \in Workers
          PROVE  running'[u] /\ ~needsInit'[u] /\ n \in Scan!Rest(u)' <=>
                   running[u] /\ ~needsInit[u] /\ n \in Scan!Rest(u)
      <4>1. CASE u = w
        <5>1. running'[w] = FALSE
          BY <2>0 DEF ScanInv, Scan!TypeOK
        <5> QED
          BY <1>7, <4>1, <5>1
      <4>2. CASE u # w
        <5>1. UNCHANGED <<running[u], needsInit[u], currentChunk[u], lastOffset[u]>>
          BY <1>4, <2>0, <4>2 DEF ScanInv, Scan!TypeOK
        <5>2. Scan!Rest(u)' = Scan!Rest(u)
          BY <1>0, <5>1 DEF Scan!Rest, Scan!Tuples
        <5> QED
          BY <5>1, <5>2
      <4> QED
        BY <4>1, <4>2
    <3> QED
      BY <1>8, <3>1, <3>2
  <2> QED
    BY <1>5, <2>1, <2>2, <2>3, <2>4 DEF ScanInv
<1>10. CASE begin < nrTuples
  <2>0. /\ column' = [column EXCEPT ![w] = @ + jump * vecSize]
        /\ lastOffset' = [lastOffset EXCEPT ![w] = begin]
        /\ vecInChunk' = [vecInChunk EXCEPT ![w] = 1]
        /\ times' = [n \in Scan!Tuples |->
                       IF n \in Scan!Batch(begin) THEN times[n] + 1 ELSE times[n]]
        /\ UNCHANGED running
    BY <1>0, <1>1, <1>2, <1>10, ScanTypes DEF Scan!Advance
  <2>1. column'[w] = begin /\ lastOffset'[w] = begin /\ vecInChunk'[w] = 1
    BY <1>1, <2>0 DEF ScanInv, ScanPlaced, Scan!TypeOK
  <2>2. ASSUME NEW u \in Workers, u # w
        PROVE  UNCHANGED <<column[u], lastOffset[u], vecInChunk[u], running[u]>>
    BY <2>0, <2>2 DEF ScanInv, Scan!TypeOK
  <2>3. Scan!TypeOK'
    <3>1. times' \in [Scan!Tuples -> Nat]
      BY <2>0, ScanTypes
    <3>2. 1 \in 0 .. scanChunkSize
      BY ScanTypes
    <3>3. column' = [column EXCEPT ![w] = begin]
      BY <1>1, <2>0 DEF ScanInv, ScanPlaced, Scan!TypeOK
    <3> HIDE DEF begin
    <3>4. /\ needsInit' \in [Workers -> BOOLEAN] /\ running' \in [Workers -> BOOLEAN]
          /\ vecInChunk' \in [Workers -> 0 .. scanChunkSize]
      BY <1>0, <2>0, <3>2 DEF ScanInv, Scan!TypeOK
    <3>5. /\ currentChunk' \in [Workers -> Nat] /\ lastOffset' \in [Workers -> Nat]
          /\ column' \in [Workers -> Nat] /\ chunkPos' \in Nat
      BY <1>0, <1>2, <2>0, <3>3, ScanTypes DEF ScanInv, Scan!TypeOK
    <3> QED
      BY <1>0, <3>1, <3>4, <3>5 DEF ScanInv, Scan!TypeOK, Scan!Tuples
  <2>4. ScanPlaced'
    <3>1. begin = ChunkBegin(chunkPos) + (1 - 1) * vecSize
      BY <1>2, ScanTypes
    <3>2. ASSUME NEW u \in Workers, ~running[u]
          PROVE  nrTuples <= ChunkBegin(chunkPos + 1)
      BY <1>3, <3>2, ScanTypes DEF ScanInv, ScanPlaced
    <3>3. running[w]
      BY <1>0
    <3> QED
      BY <1>0, <1>2, <1>4, <1>10, <2>0, <2>1, <2>2, <3>1, <3>2 DEF ScanInv, ScanPlaced
  <2>5. \A n \in Scan!Batch(begin) : times[n] = 0
    BY <1>2, <1>8, ScanTypes DEF Scan!Batch
  <2>6. Scan!DeliveredOnce'
    BY <1>0, <2>0, <2>5, ScanTypes DEF ScanInv, Scan!DeliveredOnce, Scan!Tuples
  <2>7. /\ Scan!Rest(w)' = {n \in Scan!Tuples : /\ n >= begin + vecSize
                                                /\ n < ChunkBegin(chunkPos + 1)}
        /\ \A u \in Workers : u # w => Scan!Rest(u)' = Scan!Rest(u)
    BY <1>0, <1>4, <2>1, <2>2 DEF Scan!Rest, Scan!Tuples, ChunkBegin
  <2>8. Scan!NothingOrphaned'
    <3> SUFFICES ASSUME NEW n \in Scan!Tuples
                 PROVE  times'[n] = 0 <=>
                          \/ n >= ChunkBegin(chunkPos + 1)
                          \/ \E u \in Workers : running[u] /\ ~needsInit'[u] /\ n \in Scan!Rest(u)'
      BY <1>0, <2>0 DEF Scan!NothingOrphaned, Scan!Tuples, ChunkBegin
    <3>1. (\E u \in Workers : running[u] /\ ~needsInit'[u] /\ n \in Scan!Rest(u)') <=>
            \/ n >= begin + vecSize /\ n < ChunkBegin(chunkPos + 1)
            \/ \E u \in Workers : running[u] /\ ~needsInit[u] /\ n \in Scan!Rest(u)
      <4>1. n \in Scan!Rest(w)' <=> n >= begin + vecSize /\ n < ChunkBegin(chunkPos + 1)
        BY <2>7
      <4>2. ~(running[w] /\ ~needsInit[w] /\ n \in Scan!Rest(w))
        BY <1>7
      <4>3. \A u \in Workers : u # w =>
              ((running[u] /\ ~needsInit'[u] /\ n \in Scan!Rest(u)') <=>
                 (running[u] /\ ~needsInit[u] /\ n \in Scan!Rest(u)))
        BY <1>4, <2>7
      <4> QED
        BY <1>0, <1>4, <4>1, <4>2, <4>3
    <3>2. CASE n \in Scan!Batch(begin)
      <4>1. times'[n] # 0 /\ n >= begin /\ n < begin + vecSize
        BY <2>0, <3>2, ScanTypes DEF Scan!Batch
      <4>2. n < ChunkBegin(chunkPos + 1)
        BY <1>2, <1>3, <4>1, ScanTypes
      <4>3. ~(n >= ChunkBegin(chunkPos + 1)) /\ ~(n >= begin + vecSize) /\ ~(n < begin)
        BY <1>2, <1>3, <4>1, <4>2, ScanTypes
      <4> QED
        BY <1>7, <3>1, <4>1, <4>3
    <3>3. CASE n \notin Scan!Batch(begin)
      <4>1. times'[n] = times[n] /\ (n >= begin <=> n >= begin + vecSize)
        BY <1>2, <2>0, <3>3, ScanTypes DEF Scan!Batch
      <4>2. n >= begin <=>
              \/ n >= ChunkBegin(chunkPos + 1)
              \/ n >= begin + vecSize /\ n < ChunkBegin(chunkPos + 1)
        BY <1>2, <1>3, <4>1, ScanTypes
      <4> QED
        BY <1>8, <3>1, <4>1, <4>2
    <3> QED
      BY <3>2, <3>3
  <2> QED
    BY <1>5, <2>3, <2>4, <2>6, <2>8 DEF ScanInv
<1> QED
  BY <1>2, <1>9, <1>10, ScanTypes

LEMMA ScanInvariance == MCSpec => []ScanInv
<1>1. MCInit => ScanInv
  BY ScanInitInv DEF MCInit
<1>2. ScanInv /\ [MCNext]_allVars => ScanInv'
  <2> SUFFICES ASSUME ScanInv, [MCNext]_allVars
               PROVE  ScanInv'
    OBVIOUS
  <2>1. CASE UNCHANGED scanVars
    <3>1. Scan!TypeOK' /\ Scan!DeliveredOnce'
      BY <2>1 DEF scanVars, ScanInv, Scan!TypeOK, Scan!DeliveredOnce, Scan!Tuples
    <3>2. ScanPlaced' /\ ChunksClaimed'
      BY <2>1 DEF scanVars, ScanInv, ScanPlaced, ChunksClaimed, ChunkBegin
    <3>3. Scan!NothingOrphaned'
      BY <2>1 DEF scanVars, ScanInv, Scan!NothingOrphaned, Scan!Rest, Scan!Tuples
    <3> QED
      BY <3>1, <3>2, <3>3 DEF ScanInv
  <2>2. ASSUME NEW w \in Workers, Scan!Step(w)
        PROVE  ScanInv'
    BY <2>2, NextInChunkInv, NextChunkInv DEF Scan!Step
  <2> QED
    BY <2>1, <2>2 DEF MCNext, WorkerStep, allVars, ScanOnly, BuildOnly, GroupOnly, PlanOnly, QueriesOnly,
                      Scan!Finished, Scan!vars, scanVars
<1> QED
  BY <1>1, <1>2, PTL DEF MCSpec

\* For every number of workers and every size of the relation, its chunks and its
\* vectors, no tuple is delivered twice and none is forgotten, although each
\* worker only counts its own steps.
THEOREM ScanRight == MCSpec => []ScanExact
<1>1. ASSUME ScanInv
      PROVE  ScanExact
  <2>1. Scan!AllDelivered
    <3> SUFFICES ASSUME \A w \in Workers : ~running[w], NEW n \in Scan!Tuples
                 PROVE  times[n] = 1
      BY DEF Scan!AllDelivered
    <3>1. nrTuples <= ChunkBegin(chunkPos)
      BY <1>1, ScanAssumption DEF ScanInv, ScanPlaced, Scan!WorkersAssumption
    <3>2. times[n] # 0
      BY <1>1, <3>1, ScanTypes DEF ScanInv, Scan!NothingOrphaned, ChunkBegin
    <3>3. times[n] \in Nat
      BY <1>1, ScanTypes
    <3>4. times[n] <= 1
      BY <1>1 DEF ScanInv, Scan!DeliveredOnce
    <3> QED
      BY <3>2, <3>3, <3>4
  <2>2. Scan!ColumnsFollow
    BY <1>1, ScanTypes DEF ScanInv, ScanPlaced, Scan!ColumnsFollow, Scan!Tuples
  <2> QED
    BY <1>1, <2>1, <2>2 DEF ScanExact, ScanInv
<1> QED
  BY <1>1, ScanInvariance, PTL

-----------------------------------------------------------------------------
(* The aggregation *)

\* The workers whose stream has ended.
Ends == {w \in Groupers : groupStage[w] = "eos"}

\* Where a worker is tells whether it has been through the barrier; until the
\* barrier opens nobody is beyond it, afterwards nobody is before it.
GroupPlaced ==
  /\ \A w \in Groupers :
       /\ groupStage[w] \in {"claim", "merge", "send", "eos"} => groupReturned[w] = 1
       /\ groupStage[w] \in {"aggregate", "wait"} => groupReturned[w] = 0
       /\ groupStage[w] = "aggregate" => groupEntered[w] = 0
       /\ groupReturned[w] <= groupFinals
       /\ groupStage[w] \in {"wait", "claim", "eos"} => groupHt[w] = Group!NoGroups
  /\ groupFinals = 1 => \A w \in Groupers : groupEntered[w] = 1

\* Partitions were taken from the counter, which passes their number once per
\* worker.
PartitionsTaken ==
  /\ \A w \in Groupers : groupStage[w] \in {"merge", "send"} => partition[w] < nextPart
  /\ nextPart <= nrPartitions + Cardinality(Ends)

\* The inductive invariant.
GroupInv == Group!TypeOK /\ GroupPlaced /\ PartitionsTaken /\ Group!PartitionsApart

\* Sums of counts are counts.
LEMMA GroupCounts ==
  /\ Group!NoGroups \in Group!Counts
  /\ \A f, g \in Group!Counts : Group!Plus(f, g) \in Group!Counts
  /\ \A f \in Group!Counts, k \in Keys : [f EXCEPT ![k] = @ + 1] \in Group!Counts
BY DEF Group!NoGroups, Group!Plus, Group!Counts

\* The aggregation counts its workers as we do.
LEMMA GroupSets ==
  \A S : (Group!IsFiniteSet(S) <=> IsFiniteSet(S)) /\ Group!Cardinality(S) = Cardinality(S)
<1>1. \A S : Group!IsFiniteSet(S) <=> IsFiniteSet(S)
  BY DEF Group!IsFiniteSet, IsFiniteSet
<1>2. \A S : Group!Cardinality(S) = Cardinality(S)
  BY DEF Group!Cardinality, Cardinality
<1> QED
  BY <1>1, <1>2

\* No worker ends twice.
LEMMA EndsCounted ==
  /\ Cardinality(Groupers) \in Nat /\ Group!Cardinality(Groupers) = Cardinality(Groupers)
  /\ \A S \in SUBSET Groupers : Cardinality(S) \in 0 .. Cardinality(Groupers)
  /\ \A S \in SUBSET Groupers, w \in Groupers :
       w \notin S => Cardinality(S \cup {w}) = Cardinality(S) + 1
<1>1. IsFiniteSet(Groupers)
  BY GroupAssumption, GroupSets DEF Group!WorkersAssumption
<1>2. ASSUME NEW S \in SUBSET Groupers
      PROVE  IsFiniteSet(S) /\ Cardinality(S) \in Nat /\ Cardinality(S) <= Cardinality(Groupers)
  <2>1. IsFiniteSet(S) /\ Cardinality(S) <= Cardinality(Groupers)
    BY <1>1, FS_Subset
  <2> QED
    BY <2>1, FS_CardinalityType
<1>3. Cardinality(Groupers) \in Nat
  BY <1>1, FS_CardinalityType
<1>4. ASSUME NEW S \in SUBSET Groupers, NEW w \in Groupers, w \notin S
      PROVE  Cardinality(S \cup {w}) = Cardinality(S) + 1
  BY <1>2, <1>4, FS_AddElement
<1> QED
  BY <1>2, <1>3, <1>4, GroupSets

LEMMA GroupTypes ==
  ASSUME GroupInv
  PROVE  /\ nrPartitions \in Nat /\ maxFill \in Nat /\ nextPart \in Nat
         /\ \A w \in Groupers : partition[w] \in Nat
         /\ Cardinality(Ends) \in Nat
<1>1. nrPartitions \in Nat /\ maxFill \in Nat
  BY GroupAssumption DEF Group!PartitionAssumption, Group!FillAssumption
<1>2. Cardinality(Groupers) \in Nat /\ Cardinality(Ends) \in 0 .. Cardinality(Groupers)
  BY EndsCounted DEF Ends
<1> QED
  BY <1>1, <1>2 DEF GroupInv, Group!TypeOK

LEMMA GroupInitInv == Group!Init => GroupInv
<1> SUFFICES ASSUME Group!Init PROVE GroupInv
  OBVIOUS
<1> USE DEF Group!Init
<1>1. nrPartitions \in Nat /\ maxFill \in Nat /\ MaxCount \in Nat
  BY GroupAssumption DEF Group!PartitionAssumption, Group!FillAssumption
<1>2. Cardinality(Groupers) \in Nat /\ Cardinality(Ends) \in Nat
  BY EndsCounted DEF Ends
<1>3. tuples \in Group!Counts
  BY <1>1 DEF Group!Counts
<1>4. Group!TypeOK
  BY <1>1, <1>2, <1>3, EndsCounted, GroupCounts DEF Group!TypeOK, Group!B!Init
<1>5. GroupPlaced
  BY DEF GroupPlaced, Group!B!Init
<1>6. PartitionsTaken /\ Group!PartitionsApart
  BY <1>1, <1>2 DEF PartitionsTaken, Group!PartitionsApart
<1> QED
  BY <1>4, <1>5, <1>6 DEF GroupInv

\* A step of the aggregation before the barrier.
LEMMA AggregateInv ==
  ASSUME GroupInv, NEW w \in Groupers, Group!Aggregate(w) \/ Group!FlushRest(w)
  PROVE  GroupInv'
<1>0. groupStage[w] = "aggregate"
  BY DEF Group!Aggregate, Group!FlushRest
<1>1. CASE Group!Aggregate(w)
  <2>0. UNCHANGED <<tuples, groupStage, nextPart, partition, merged, unsent, sent, groupEntered,
                    groupReturned, groupFinals, groupLeader, groupResult>>
    BY <1>1 DEF Group!Aggregate, Group!barrierVars
  <2>1. PICK k \in Keys :
          /\ todo[k] > 0
          /\ todo' = [todo EXCEPT ![k] = @ - 1]
          /\ created' = [created EXCEPT ![w] = Group!CreatedBy(w, k)]
          /\ \/ /\ spill' = [spill EXCEPT ![w] = Group!Plus(@, Group!AggregateInto(w, k))]
                /\ groupHt' = [groupHt EXCEPT ![w] = Group!NoGroups]
             \/ /\ groupHt' = [groupHt EXCEPT ![w] = Group!AggregateInto(w, k)]
                /\ UNCHANGED spill
    BY <1>1 DEF Group!Aggregate
  <2>2. /\ groupHt[w] \in Group!Counts /\ spill[w] \in Group!Counts
        /\ Group!AggregateInto(w, k) \in Group!Counts
        /\ Group!Plus(spill[w], Group!AggregateInto(w, k)) \in Group!Counts
    BY GroupCounts DEF GroupInv, Group!TypeOK, Group!AggregateInto
  <2>3. todo' \in Group!Counts
    BY <2>1 DEF GroupInv, Group!TypeOK, Group!Counts
  <2>4. Group!CreatedBy(w, k) \in Nat
    BY DEF GroupInv, Group!TypeOK, Group!CreatedBy
  <2>5. groupHt' \in [Groupers -> Group!Counts] /\ spill' \in [Groupers -> Group!Counts]
    BY ZenonT(60), <2>1, <2>2, GroupCounts DEF GroupInv, Group!TypeOK
  <2>6. Group!TypeOK'
    BY <2>0, <2>1, <2>3, <2>4, <2>5 DEF GroupInv, Group!TypeOK, Group!Counts
  <2>7. \A u \in Groupers : u # w => groupHt'[u] = groupHt[u]
    BY <2>1 DEF GroupInv, Group!TypeOK
  <2>8. GroupPlaced'
    BY <1>0, <2>0, <2>7 DEF GroupInv, GroupPlaced, Group!NoGroups
  <2>9. PartitionsTaken' /\ Group!PartitionsApart'
    BY <2>0 DEF GroupInv, PartitionsTaken, Ends, Group!PartitionsApart
  <2> QED
    BY <2>6, <2>8, <2>9 DEF GroupInv
<1>2. CASE Group!FlushRest(w)
  <2>0. /\ spill' = [spill EXCEPT ![w] = Group!Plus(@, groupHt[w])]
        /\ groupHt' = [groupHt EXCEPT ![w] = Group!NoGroups]
        /\ groupStage' = [groupStage EXCEPT ![w] = "wait"]
        /\ UNCHANGED <<tuples, todo, created, nextPart, partition, merged, unsent, sent,
                       groupEntered, groupReturned, groupFinals, groupLeader, groupResult>>
    BY <1>2 DEF Group!FlushRest, Group!barrierVars, Group!Goto
  <2>1. Group!Plus(spill[w], groupHt[w]) \in Group!Counts
    BY GroupCounts DEF GroupInv, Group!TypeOK
  <2>2. Group!TypeOK'
    BY <2>0, <2>1, GroupCounts DEF GroupInv, Group!TypeOK, Group!Counts
  <2>3. /\ groupStage'[w] = "wait" /\ groupHt'[w] = Group!NoGroups
        /\ \A u \in Groupers : u # w => UNCHANGED <<groupStage[u], groupHt[u]>>
    BY <2>0 DEF GroupInv, Group!TypeOK
  <2>4. GroupPlaced'
    BY <1>0, <2>0, <2>3 DEF GroupInv, GroupPlaced, Group!NoGroups
  <2>5. Ends' = Ends
    BY <1>0, <2>3 DEF Ends
  <2>6. PartitionsTaken' /\ Group!PartitionsApart'
    BY <2>0, <2>3, <2>5 DEF GroupInv, PartitionsTaken, Group!PartitionsApart
  <2> QED
    BY <2>2, <2>4, <2>6 DEF GroupInv
<1> QED
  BY <1>1, <1>2

\* A step at the barrier.
LEMMA GroupBarrierInv ==
  ASSUME GroupInv, NEW w \in Groupers, Group!Wait(w) \/ Group!Resume(w)
  PROVE  GroupInv'
<1>0. /\ groupStage[w] = "wait"
      /\ UNCHANGED <<tuples, todo, groupHt, created, spill, nextPart, partition, merged, unsent, sent>>
  BY DEF Group!Wait, Group!Resume, Group!groupVars
<1>1. CASE Group!Wait(w)
  <2>0. UNCHANGED groupStage
    BY <1>1 DEF Group!Wait, Group!groupVars
  <2>1. PartitionsTaken' /\ Group!PartitionsApart'
    BY <1>0, <2>0 DEF GroupInv, PartitionsTaken, Ends, Group!PartitionsApart
  <2>2. CASE Group!B!Enter(w)
    <3>1. /\ groupEntered[w] = 0 /\ groupEntered' = [groupEntered EXCEPT ![w] = 1]
          /\ UNCHANGED <<groupReturned, groupFinals, groupLeader, groupResult>>
      <4>1. /\ groupEntered' = [groupEntered EXCEPT ![w] = groupEntered[w] + 1]
            /\ groupEntered[w] < 1
            /\ UNCHANGED <<groupReturned, groupFinals, groupLeader, groupResult>>
        BY <2>2 DEF Group!B!Enter
      <4>2. groupEntered[w] \in 0 .. 1
        BY DEF GroupInv, Group!TypeOK
      <4>3. groupEntered[w] = 0 /\ groupEntered[w] + 1 = 1
        BY <4>1, <4>2
      <4> QED
        BY <4>1, <4>3
    <3>2. Group!TypeOK'
      BY <1>0, <2>0, <3>1 DEF GroupInv, Group!TypeOK, Group!Counts
    <3>3. GroupPlaced'
      BY <1>0, <2>0, <3>1 DEF GroupInv, GroupPlaced, Group!TypeOK, Group!NoGroups
    <3> QED
      BY <2>1, <3>2, <3>3 DEF GroupInv
  <2>3. CASE Group!B!Finalize(w)
    <3>1. /\ \A u \in Groupers : groupEntered[u] = groupFinals + 1
          /\ groupFinals' = groupFinals + 1 /\ groupLeader' = w
          /\ UNCHANGED <<groupEntered, groupReturned, groupResult>>
      BY <2>3 DEF Group!B!Finalize
    <3>2. groupFinals = 0 /\ groupFinals' = 1 /\ \A u \in Groupers : groupEntered[u] = 1
      BY <3>1 DEF GroupInv, Group!TypeOK
    <3>3. Group!TypeOK'
      BY <1>0, <2>0, <3>1, <3>2 DEF GroupInv, Group!TypeOK, Group!Counts
    <3>4. GroupPlaced'
      BY <1>0, <2>0, <3>1, <3>2 DEF GroupInv, GroupPlaced, Group!TypeOK, Group!NoGroups
    <3> QED
      BY <2>1, <3>3, <3>4 DEF GroupInv
  <2> QED
    BY <1>1, <2>2, <2>3 DEF Group!Wait
<1>2. CASE Group!Resume(w)
  <2>0. /\ groupStage' = [groupStage EXCEPT ![w] = "claim"]
        /\ groupReturned[w] < groupFinals
        /\ groupReturned' = [groupReturned EXCEPT ![w] = @ + 1]
        /\ groupResult' = [groupResult EXCEPT ![w] = (w = groupLeader)]
        /\ UNCHANGED <<groupEntered, groupFinals, groupLeader>>
    BY <1>2 DEF Group!Resume, Group!Goto, Group!B!Leave
  <2>1. groupReturned[w] = 0 /\ groupFinals = 1
    BY <2>0 DEF GroupInv, Group!TypeOK
  <2>2. /\ groupStage'[w] = "claim" /\ groupReturned'[w] = 1
        /\ \A u \in Groupers : u # w => UNCHANGED <<groupStage[u], groupReturned[u]>>
    BY <2>0, <2>1 DEF GroupInv, Group!TypeOK
  <2>3. /\ groupReturned' \in [Groupers -> 0 .. 1] /\ groupResult' \in [Groupers -> BOOLEAN]
    BY <2>0, <2>1 DEF GroupInv, Group!TypeOK
  <2>4. Group!TypeOK'
    BY <1>0, <2>0, <2>3 DEF GroupInv, Group!TypeOK, Group!Counts
  <2>5. GroupPlaced'
    BY <1>0, <2>0, <2>1, <2>2 DEF GroupInv, GroupPlaced, Group!NoGroups
  <2>6. Ends' = Ends
    BY <1>0, <2>2 DEF Ends
  <2>7. PartitionsTaken' /\ Group!PartitionsApart'
    BY <1>0, <2>2, <2>6 DEF GroupInv, PartitionsTaken, Group!PartitionsApart
  <2> QED
    BY <2>4, <2>5, <2>7 DEF GroupInv
<1> QED
  BY <1>1, <1>2

\* A partition is taken from the counter.
LEMMA ClaimPartitionInv ==
  ASSUME GroupInv, NEW w \in Groupers, Group!ClaimPartition(w)
  PROVE  GroupInv'
<1> DEFINE next == IF nextPart < nrPartitions THEN "merge" ELSE "eos"
<1>0. /\ groupStage[w] = "claim"
      /\ partition' = [partition EXCEPT ![w] = nextPart]
      /\ nextPart' = nextPart + 1
      /\ merged' = [merged EXCEPT ![w] = {}]
      /\ groupStage' = [groupStage EXCEPT ![w] = next]
      /\ UNCHANGED <<tuples, todo, groupHt, created, spill, unsent, sent, groupEntered,
                     groupReturned, groupFinals, groupLeader, groupResult>>
  BY DEF Group!ClaimPartition, Group!Goto, Group!barrierVars, GroupInv, Group!TypeOK
<1>1. /\ partition'[w] = nextPart /\ groupStage'[w] = next
      /\ \A u \in Groupers : u # w => UNCHANGED <<partition[u], groupStage[u]>>
  BY <1>0 DEF GroupInv, Group!TypeOK
<1>2. PartitionsTaken'
  <2>1. \A u \in Groupers : groupStage'[u] \in {"merge", "send"} => partition'[u] < nextPart'
    BY <1>0, <1>1, GroupTypes DEF GroupInv, PartitionsTaken
  <2>2. nextPart' <= nrPartitions + Cardinality(Ends')
    <3>1. CASE nextPart < nrPartitions
      <4>1. Ends' = Ends
        BY <1>0, <1>1, <3>1 DEF Ends
      <4> QED
        BY <1>0, <3>1, <4>1, GroupTypes
    <3>2. CASE ~(nextPart < nrPartitions)
      <4>1. Ends' = Ends \cup {w} /\ w \notin Ends
        BY <1>0, <1>1, <3>2 DEF Ends
      <4>2. Cardinality(Ends') = Cardinality(Ends) + 1
        BY <4>1, EndsCounted DEF Ends
      <4> QED
        BY <1>0, <4>2, GroupTypes DEF GroupInv, PartitionsTaken
    <3> QED
      BY <3>1, <3>2
  <2> QED
    BY <2>1, <2>2 DEF PartitionsTaken
<1>3. nextPart \in 0 .. nrPartitions + Cardinality(Groupers)
  BY EndsCounted DEF GroupInv, Group!TypeOK
<1>4. nextPart' \in 0 .. nrPartitions + Cardinality(Groupers)
  <2>1. Cardinality(Ends') \in 0 .. Cardinality(Groupers) /\ Cardinality(Groupers) \in Nat
    BY EndsCounted DEF Ends
  <2> QED
    BY <1>0, <1>2, <2>1, GroupTypes DEF PartitionsTaken
<1>5. Group!TypeOK'
  BY <1>0, <1>3, <1>4, EndsCounted DEF GroupInv, Group!TypeOK, Group!Counts
<1>6. GroupPlaced'
  BY <1>0, <1>1 DEF GroupInv, GroupPlaced, Group!NoGroups
<1>7. Group!PartitionsApart'
  <2> SUFFICES ASSUME NEW u \in Groupers, NEW v \in Groupers, u # v,
                      {groupStage'[u], groupStage'[v]} \subseteq {"merge", "send"}
               PROVE  partition'[u] # partition'[v]
    BY DEF Group!PartitionsApart
  <2>1. \A x \in Groupers : x # w /\ groupStage'[x] \in {"merge", "send"} =>
          partition'[x] = partition[x] /\ partition[x] # nextPart
    BY <1>1, GroupTypes DEF GroupInv, PartitionsTaken
  <2>2. CASE u # w /\ v # w
    BY <1>1, <2>2 DEF GroupInv, Group!PartitionsApart
  <2> QED
    BY <1>1, <2>1, <2>2
<1> QED
  BY <1>2, <1>5, <1>6, <1>7 DEF GroupInv

\* A step of the aggregation within a partition.
LEMMA PartitionInv ==
  ASSUME GroupInv, NEW w \in Groupers,
         Group!Merge(w) \/ Group!MergeDone(w) \/ Group!Send(w) \/ Group!SendDone(w)
  PROVE  GroupInv'
<1>0. /\ groupStage[w] \in {"merge", "send"}
      /\ UNCHANGED <<tuples, todo, created, spill, nextPart, partition, groupEntered,
                     groupReturned, groupFinals, groupLeader, groupResult>>
  BY DEF Group!Merge, Group!MergeDone, Group!Send, Group!SendDone, Group!barrierVars
\* Where a worker may be afterwards, and what becomes of the tables.
<1>1. ASSUME groupStage'[w] \in {"merge", "send", "claim"},
             groupStage'[w] = "claim" => groupHt'[w] = Group!NoGroups,
             \A u \in Groupers : u # w => UNCHANGED <<groupStage[u], groupHt[u]>>
      PROVE  GroupPlaced' /\ PartitionsTaken' /\ Group!PartitionsApart'
  <2>1. Ends' = Ends
    BY <1>0, <1>1 DEF Ends
  <2>2. GroupPlaced'
    BY <1>0, <1>1 DEF GroupInv, GroupPlaced, Group!NoGroups
  <2>3. \A u \in Groupers : groupStage'[u] \in {"merge", "send"} => groupStage[u] \in {"merge", "send"}
    BY <1>0, <1>1
  <2>4. PartitionsTaken'
    BY <1>0, <2>1, <2>3 DEF GroupInv, PartitionsTaken
  <2>5. Group!PartitionsApart'
    BY <1>0, <2>3 DEF GroupInv, Group!PartitionsApart
  <2> QED
    BY <2>2, <2>4, <2>5
<1>2. CASE Group!Merge(w)
  <2>0. UNCHANGED <<groupStage, unsent, sent>>
    BY <1>2 DEF Group!Merge
  <2>1. PICK u \in Groupers :
          /\ groupHt' = [groupHt EXCEPT ![w] = Group!Plus(@, Group!Spilled(u, partition[w]))]
          /\ merged' = [merged EXCEPT ![w] = @ \cup {u}]
    BY <1>2 DEF Group!Merge
  <2>2. Group!Spilled(u, partition[w]) \in Group!Counts
    BY DEF GroupInv, Group!TypeOK, Group!Spilled, Group!Counts
  <2>3. Group!Plus(groupHt[w], Group!Spilled(u, partition[w])) \in Group!Counts
    BY <2>2, GroupCounts DEF GroupInv, Group!TypeOK
  <2>4. Group!TypeOK'
    BY <1>0, <2>0, <2>1, <2>3 DEF GroupInv, Group!TypeOK, Group!Counts
  <2>5. \A v \in Groupers : v # w => UNCHANGED <<groupStage[v], groupHt[v]>>
    BY <2>0, <2>1 DEF GroupInv, Group!TypeOK
  <2> QED
    BY <1>0, <1>1, <2>0, <2>4, <2>5 DEF GroupInv
<1>3. CASE Group!MergeDone(w)
  <2>0. /\ unsent' = [unsent EXCEPT ![w] = {k \in Keys : groupHt[w][k] > 0}]
        /\ groupStage' = [groupStage EXCEPT ![w] = "send"]
        /\ UNCHANGED <<groupHt, merged, sent>>
    BY <1>3 DEF Group!MergeDone, Group!Goto
  <2>1. Group!TypeOK'
    BY <1>0, <2>0 DEF GroupInv, Group!TypeOK, Group!Counts
  <2>2. /\ groupStage'[w] = "send"
        /\ \A v \in Groupers : v # w => UNCHANGED <<groupStage[v], groupHt[v]>>
    BY <2>0 DEF GroupInv, Group!TypeOK
  <2> QED
    BY <1>1, <2>1, <2>2 DEF GroupInv
<1>4. CASE Group!Send(w)
  <2>0. UNCHANGED <<groupStage, groupHt, merged>>
    BY <1>4 DEF Group!Send
  <2>1. PICK k \in Keys : /\ sent' = [sent EXCEPT ![k] = Append(@, groupHt[w][k])]
                          /\ unsent' = [unsent EXCEPT ![w] = @ \ {k}]
    BY <1>4 DEF Group!Send, GroupInv, Group!TypeOK
  <2>2. Append(sent[k], groupHt[w][k]) \in Seq(Nat)
    BY DEF GroupInv, Group!TypeOK, Group!Counts
  <2>3. Group!TypeOK'
    BY <1>0, <2>0, <2>1, <2>2 DEF GroupInv, Group!TypeOK, Group!Counts
  <2> QED
    BY <1>0, <1>1, <2>0, <2>3 DEF GroupInv
<1>5. CASE Group!SendDone(w)
  <2>0. /\ groupHt' = [groupHt EXCEPT ![w] = Group!NoGroups]
        /\ groupStage' = [groupStage EXCEPT ![w] = "claim"]
        /\ UNCHANGED <<merged, unsent, sent>>
    BY <1>5 DEF Group!SendDone, Group!Goto
  <2>1. Group!TypeOK'
    BY <1>0, <2>0, GroupCounts DEF GroupInv, Group!TypeOK, Group!Counts
  <2>2. /\ groupStage'[w] = "claim" /\ groupHt'[w] = Group!NoGroups
        /\ \A v \in Groupers : v # w => UNCHANGED <<groupStage[v], groupHt[v]>>
    BY <2>0 DEF GroupInv, Group!TypeOK
  <2> QED
    BY <1>1, <2>1, <2>2 DEF GroupInv
<1> QED
  BY <1>2, <1>3, <1>4, <1>5

LEMMA GroupInvariance == MCSpec => []GroupInv
<1>1. MCInit => GroupInv
  BY GroupInitInv DEF MCInit
<1>2. GroupInv /\ [MCNext]_allVars => GroupInv'
  <2> SUFFICES ASSUME GroupInv, [MCNext]_allVars
               PROVE  GroupInv'
    OBVIOUS
  <2>1. CASE UNCHANGED groupVars
    <3>1. Group!TypeOK'
      BY <2>1 DEF groupVars, GroupInv, Group!TypeOK, Group!Counts
    <3>2. GroupPlaced' /\ PartitionsTaken' /\ Group!PartitionsApart'
      BY <2>1 DEF groupVars, GroupInv, GroupPlaced, PartitionsTaken, Ends, Group!NoGroups,
                  Group!PartitionsApart
    <3> QED
      BY <3>1, <3>2 DEF GroupInv
  <2>2. ASSUME NEW w \in Groupers, Group!Step(w)
        PROVE  GroupInv'
    BY <2>2, AggregateInv, GroupBarrierInv, ClaimPartitionInv, PartitionInv DEF Group!Step
  <2> QED
    BY <2>1, <2>2 DEF MCNext, WorkerStep, allVars, ScanOnly, BuildOnly, GroupOnly, PlanOnly, QueriesOnly,
                      Group!Finished, Group!vars, groupVars
<1> QED
  BY <1>1, <1>2, PTL DEF MCSpec

\* Phase 2 begins for all when the last worker has spilled the last of its groups.
LEMMA FrozenSpill == GroupInv => Group!SpillFrozen
<1> SUFFICES ASSUME GroupInv, NEW w \in Groupers, NEW u \in Groupers,
                    groupStage[w] \in {"claim", "merge", "send", "eos"}
             PROVE  /\ groupStage[u] # "aggregate"
                    /\ groupStage[u] \notin {"merge", "send"} => groupHt[u] = Group!NoGroups
  BY DEF Group!SpillFrozen
<1>1. groupFinals = 1
  BY DEF GroupInv, GroupPlaced, Group!TypeOK
<1>2. groupStage[u] # "aggregate"
  BY <1>1 DEF GroupInv, GroupPlaced
<1> QED
  BY <1>2 DEF GroupInv, GroupPlaced, Group!TypeOK

\* For every number of workers, keys and partitions: phase 2 of the aggregation,
\* which reads the spill storage of all workers without a lock, begins after the
\* last write to it, and a partition is merged by one worker.
THEOREM PhasesRight == MCSpec => []PhasesApart
<1>1. GroupInv => PhasesApart
  BY FrozenSpill DEF PhasesApart, GroupInv
<1> QED
  BY <1>1, GroupInvariance, PTL

-----------------------------------------------------------------------------
(* What the aggregation delivers *)

\* The sum of numbers up to MaxCount, one per worker: that of the tallies kept of
\* them.
Tallies(f) == {m \in Groupers \X (1 .. MaxCount) : m[2] <= f[m[1]]}
Total(f) == Cardinality(Tallies(f))

Numbers == [Groupers -> 0 .. MaxCount]
None0 == [w \in Groupers |-> 0]

\* What the workers have of key k in their tables in phase 1, what they have spilled
\* of it, and what w has merged of that.
Local(k) == [w \in Groupers |-> IF groupStage[w] = "aggregate" THEN groupHt[w][k] ELSE 0]
Spills(k) == [w \in Groupers |-> spill[w][k]]
MergedOf(w, k) == [u \in Groupers |-> IF u \in merged[w] THEN spill[u][k] ELSE 0]

\* No tuple is lost on the way to the spill storage.
Conserved ==
  \A k \in Keys : /\ tuples[k] \in 0 .. MaxCount
                  /\ Local(k) \in Numbers /\ Spills(k) \in Numbers
                  /\ todo[k] + Total(Local(k)) + Total(Spills(k)) = tuples[k]

\* The last worker to end phase 1 leaves no tuple behind.
AllTaken ==
  (\A w \in Groupers : groupStage[w] # "aggregate") => \A k \in Keys : todo[k] = 0

\* A worker in phase 2 has in its table what it has merged, of the keys of its
\* partition.
MergedSoFar ==
  \A w \in Groupers, k \in Keys :
    /\ groupStage[w] = "merge" =>
         groupHt[w][k] = IF partitionOf[k] = partition[w] THEN Total(MergedOf(w, k)) ELSE 0
    /\ groupStage[w] = "send" =>
         /\ groupHt[w][k] = IF partitionOf[k] = partition[w] THEN tuples[k] ELSE 0
         /\ k \in unsent[w] => partitionOf[k] = partition[w] /\ tuples[k] > 0

\* The groups that somebody still has to deliver, and those that have been.
Pending(k) ==
  \/ partitionOf[k] >= nextPart
  \/ \E w \in Groupers :
       /\ partition[w] = partitionOf[k]
       /\ \/ groupStage[w] = "merge"
          \/ groupStage[w] = "send" /\ k \in unsent[w]

SentOnce ==
  /\ \A k \in Keys : sent[k] = IF Pending(k) \/ tuples[k] = 0 THEN <<>> ELSE <<tuples[k]>>
  /\ \A w \in Groupers : groupStage[w] = "eos" => nrPartitions < nextPart

\* The inductive invariant.
GroupsInv == GroupInv /\ Conserved /\ AllTaken /\ MergedSoFar /\ SentOnce

\* To add n to one number of a sum is to add n to the sum.
LEMMA TotalPlus ==
  ASSUME NEW f \in Numbers, NEW w \in Groupers, NEW n \in Nat, f[w] + n <= MaxCount
  PROVE  /\ [f EXCEPT ![w] = f[w] + n] \in Numbers
         /\ Total(f) \in Nat
         /\ Total([f EXCEPT ![w] = f[w] + n]) = Total(f) + n
<1> DEFINE g == [f EXCEPT ![w] = f[w] + n]
           new == {w} \X ((f[w] + 1) .. (f[w] + n))
<1>0. MaxCount \in Nat /\ f[w] \in Nat /\ f[w] + n \in 0 .. MaxCount
  BY GroupAssumption DEF Group!FillAssumption, Numbers
<1>1. g \in Numbers
  BY <1>0 DEF Numbers
<1>2. IsFiniteSet(Tallies(f)) /\ Total(f) \in Nat
  <2>1. IsFiniteSet(Groupers) /\ IsFiniteSet(1 .. MaxCount)
    BY <1>0, GroupAssumption, GroupSets, FS_Interval DEF Group!WorkersAssumption
  <2>2. IsFiniteSet(Groupers \X (1 .. MaxCount))
    BY <2>1, FS_Product
  <2>3. IsFiniteSet(Tallies(f))
    BY <2>2, FS_Subset DEF Tallies
  <2> QED
    BY <2>3, FS_CardinalityType DEF Total
<1>3. IsFiniteSet(new) /\ Cardinality(new) = n
  <2>1. /\ IsFiniteSet((f[w] + 1) .. (f[w] + n))
        /\ Cardinality((f[w] + 1) .. (f[w] + n)) = n
    <3>1. /\ f[w] + 1 \in Int /\ f[w] + n \in Int /\ (f[w] + n) - (f[w] + 1) + 1 = n
          /\ f[w] + 1 > f[w] + n <=> n = 0
      BY <1>0
    <3> QED
      BY <3>1, FS_Interval
  <2>2. IsFiniteSet({w}) /\ Cardinality({w}) = 1
    BY FS_Singleton
  <2>3. IsFiniteSet(new) /\ Cardinality(new) = 1 * n
    BY ZenonT(60), <2>1, <2>2, FS_Product
  <2> QED
    BY <2>3
<1>4. Tallies(g) = Tallies(f) \cup new
  <2>1. g[w] = f[w] + n /\ \A u \in Groupers : u # w => g[u] = f[u]
    BY DEF Numbers
  <2>2. \A u \in Groupers, i \in 1 .. MaxCount :
          <<u, i>> \in Tallies(g) <=> <<u, i>> \in Tallies(f) \cup new
    BY <1>0, <2>1 DEF Tallies
  <2>3. Tallies(f) \cup new \subseteq Groupers \X (1 .. MaxCount)
    BY <1>0 DEF Tallies
  <2> QED
    BY <2>2, <2>3 DEF Tallies
<1>5. Tallies(f) \cap new = {}
  BY <1>0 DEF Tallies
<1>6. Cardinality(Tallies(g)) = Total(f) + n
  <2> HIDE DEF new, g
  <2>1. Cardinality(Tallies(f) \cap new) = 0
    BY <1>5, FS_EmptySet
  <2>2. Cardinality(Tallies(f) \cup new)
          = Cardinality(Tallies(f)) + Cardinality(new) - Cardinality(Tallies(f) \cap new)
    BY <1>2, <1>3, FS_Union
  <2> QED
    BY <1>2, <1>3, <1>4, <2>1, <2>2 DEF Total
<1> QED
  BY <1>1, <1>2, <1>6 DEF Total

\* The sum of zeros, and a number and the sum it is in.
LEMMA TotalBounds ==
  /\ None0 \in Numbers /\ Total(None0) = 0
  /\ \A f \in Numbers, w \in Groupers : Total(f) \in Nat /\ f[w] \in Nat /\ f[w] <= Total(f)
<1>0. MaxCount \in Nat
  BY GroupAssumption DEF Group!FillAssumption
<1>1. None0 \in Numbers
  BY <1>0 DEF None0, Numbers
<1>2. Total(None0) = 0
  <2>1. Tallies(None0) = {}
    BY <1>0 DEF Tallies, None0
  <2> QED
    BY <2>1, FS_EmptySet DEF Total
<1>3. ASSUME NEW f \in Numbers, NEW w \in Groupers
      PROVE  Total(f) \in Nat /\ f[w] \in Nat /\ f[w] <= Total(f)
  <2> DEFINE f0 == [f EXCEPT ![w] = 0]
  <2>1. f0 \in Numbers /\ f0[w] = 0 /\ f[w] \in 0 .. MaxCount
    BY <1>0 DEF Numbers
  <2>2. f0[w] + f[w] = f[w] /\ f0[w] + f[w] <= MaxCount /\ f[w] \in Nat
    BY <1>0, <2>1
  <2>3. [f0 EXCEPT ![w] = f0[w] + f[w]] = f
    BY <2>2 DEF Numbers
  <2> HIDE DEF f0
  <2>4. /\ Total(f0) \in Nat /\ Total([f0 EXCEPT ![w] = f0[w] + f[w]]) = Total(f0) + f[w]
    BY <2>1, <2>2, TotalPlus
  <2>5. Total(f) = Total(f0) + f[w]
    BY <2>3, <2>4
  <2> QED
    BY <2>2, <2>4, <2>5
<1> QED
  BY <1>1, <1>2, <1>3

\* To move a number from one sum to another.
LEMMA TotalMove ==
  ASSUME NEW f \in Numbers, NEW g \in Numbers, NEW w \in Groupers,
         Total(f) + Total(g) <= MaxCount
  PROVE  /\ [f EXCEPT ![w] = 0] \in Numbers /\ [g EXCEPT ![w] = g[w] + f[w]] \in Numbers
         /\ Total([f EXCEPT ![w] = 0]) + Total([g EXCEPT ![w] = g[w] + f[w]])
              = Total(f) + Total(g)
<1> DEFINE f0 == [f EXCEPT ![w] = 0]
<1>0. MaxCount \in Nat
  BY GroupAssumption DEF Group!FillAssumption
<1>1. /\ f[w] \in Nat /\ f[w] <= Total(f) /\ Total(f) \in Nat
      /\ g[w] \in Nat /\ g[w] <= Total(g) /\ Total(g) \in Nat
  BY TotalBounds
<1>2. f[w] <= MaxCount /\ g[w] + f[w] <= MaxCount
  BY <1>0, <1>1
<1>3. /\ [g EXCEPT ![w] = g[w] + f[w]] \in Numbers
      /\ Total([g EXCEPT ![w] = g[w] + f[w]]) = Total(g) + f[w]
  BY <1>1, <1>2, TotalPlus
<1>4. f0 \in Numbers /\ f0[w] = 0
  BY <1>0 DEF Numbers
<1>5. 0 + f[w] = f[w] /\ [f0 EXCEPT ![w] = f[w]] = f
  <2>1. [f0 EXCEPT ![w] = f[w]] = f
    BY DEF Numbers
  <2> QED
    BY <1>1, <2>1
<1> HIDE DEF f0
<1>6. Total(f0) \in Nat /\ Total([f0 EXCEPT ![w] = f0[w] + f[w]]) = Total(f0) + f[w]
  <2>1. f0[w] + f[w] <= MaxCount
    BY <1>2, <1>4, <1>5
  <2> QED
    BY <1>1, <1>4, <2>1, TotalPlus
<1>7. Total(f) = Total(f0) + f[w]
  BY <1>4, <1>5, <1>6
<1>8. Total(f0) + (Total(g) + f[w]) = Total(f) + Total(g)
  BY <1>1, <1>6, <1>7
<1> QED
  BY <1>3, <1>4, <1>8 DEF f0

LEMMA GroupsInitInv == Group!Init => GroupsInv
<1> SUFFICES ASSUME Group!Init PROVE GroupsInv
  OBVIOUS
<1>0. GroupInv
  BY GroupInitInv
<1> USE DEF Group!Init
<1>1. \A k \in Keys : tuples[k] \in 0 .. MaxCount /\ Local(k) = None0 /\ Spills(k) = None0
  BY DEF Local, Spills, None0, Group!NoGroups
<1>2. Conserved
  <2>1. \A k \in Keys : tuples[k] \in Nat /\ tuples[k] + 0 + 0 = tuples[k]
    BY <1>1, GroupAssumption DEF Group!FillAssumption
  <2> QED
    BY <1>1, <2>1, TotalBounds DEF Conserved
<1>3. AllTaken
  <2>1. PICK w \in Groupers : TRUE
    BY GroupAssumption DEF Group!WorkersAssumption
  <2> QED
    BY <2>1 DEF AllTaken
<1>4. MergedSoFar
  BY DEF MergedSoFar
<1>5. SentOnce
  <2>1. \A k \in Keys : Pending(k)
    BY GroupAssumption DEF Pending, Group!PartitionAssumption
  <2> QED
    BY <2>1 DEF SentOnce
<1> QED
  BY <1>0, <1>2, <1>3, <1>4, <1>5 DEF GroupsInv

\* In phase 2 every tuple has been spilled.
LEMMA SpillComplete ==
  ASSUME GroupsInv, NEW w \in Groupers, groupStage[w] \in {"claim", "merge", "send", "eos"}
  PROVE  /\ \A u \in Groupers : groupStage[u] # "aggregate"
         /\ \A k \in Keys : Total(Spills(k)) = tuples[k]
<1>1. \A u \in Groupers : groupStage[u] # "aggregate"
  BY FrozenSpill DEF GroupsInv, Group!SpillFrozen
<1>2. ASSUME NEW k \in Keys
      PROVE  Total(Spills(k)) = tuples[k]
  <2>1. Local(k) = None0
    BY <1>1 DEF Local, None0
  <2>2. /\ todo[k] = 0 /\ todo[k] + Total(Local(k)) + Total(Spills(k)) = tuples[k]
        /\ Spills(k) \in Numbers
    BY <1>1 DEF GroupsInv, AllTaken, Conserved
  <2>3. Total(Spills(k)) \in Nat
    BY <2>2, TotalBounds
  <2>4. 0 + 0 + Total(Spills(k)) = tuples[k]
    BY <2>1, <2>2, TotalBounds
  <2> QED
    BY <2>3, <2>4
<1> QED
  BY <1>1, <1>2

\* A step of phase 1.
LEMMA AggregateGroups ==
  ASSUME GroupsInv, NEW w \in Groupers, Group!Aggregate(w) \/ Group!FlushRest(w)
  PROVE  GroupsInv'
<1>0. /\ groupStage[w] = "aggregate"
      /\ UNCHANGED <<tuples, nextPart, partition, merged, unsent, sent>>
  BY DEF Group!Aggregate, Group!FlushRest
<1>1. \A u \in Groupers : groupStage[u] \in {"aggregate", "wait"}
  BY <1>0, SpillComplete DEF GroupsInv, GroupInv, Group!TypeOK
<1>2. GroupInv'
  BY AggregateInv DEF GroupsInv
\* What w has of each key after the vector, if there was one, and where it goes.
<1>3. ASSUME NEW d \in [Keys -> {0, 1}],
             \A k \in Keys : todo[k] = todo'[k] + d[k] /\ todo'[k] \in Nat,
             \/ /\ groupHt' = [groupHt EXCEPT ![w] = Group!NoGroups]
                /\ spill' = [spill EXCEPT ![w] = [k \in Keys |-> spill[w][k] + (groupHt[w][k] + d[k])]]
             \/ /\ groupHt' = [groupHt EXCEPT ![w] = [k \in Keys |-> groupHt[w][k] + d[k]]]
                /\ UNCHANGED <<spill, groupStage>>,
             \/ UNCHANGED groupStage
             \/ groupStage' = [groupStage EXCEPT ![w] = "wait"]
      PROVE  Conserved'
  <2> SUFFICES ASSUME NEW k \in Keys
               PROVE  /\ Local(k)' \in Numbers /\ Spills(k)' \in Numbers
                      /\ todo'[k] + Total(Local(k)') + Total(Spills(k)') = tuples[k]
    BY <1>0 DEF GroupsInv, Conserved, Total, Tallies, Numbers
  <2> DEFINE f == [Local(k) EXCEPT ![w] = Local(k)[w] + d[k]]
  <2>0. /\ tuples[k] \in 0 .. MaxCount /\ Local(k) \in Numbers /\ Spills(k) \in Numbers
        /\ todo[k] + Total(Local(k)) + Total(Spills(k)) = tuples[k]
        /\ todo[k] = todo'[k] + d[k] /\ todo'[k] \in Nat /\ d[k] \in Nat
    BY <1>3 DEF GroupsInv, Conserved
  <2>1. /\ MaxCount \in Nat /\ Total(Local(k)) \in Nat /\ Total(Spills(k)) \in Nat
        /\ Local(k)[w] \in Nat /\ Local(k)[w] <= Total(Local(k))
    BY <2>0, TotalBounds, GroupAssumption DEF Group!FillAssumption
  <2>2. Local(k)[w] + d[k] <= MaxCount
    BY <2>0, <2>1
  <2>3. f \in Numbers /\ Total(f) = Total(Local(k)) + d[k]
    BY <2>0, <2>2, TotalPlus
  <2>4. todo'[k] + Total(f) + Total(Spills(k)) = tuples[k] /\ Total(f) + Total(Spills(k)) <= MaxCount
    BY <2>0, <2>1, <2>3
  <2>5. Local(k)[w] = groupHt[w][k] /\ f[w] = groupHt[w][k] + d[k]
    BY <1>0 DEF Local
  <2>6. Spills(k)[w] = spill[w][k]
    BY DEF Spills
  <2>7. CASE /\ groupHt' = [groupHt EXCEPT ![w] = [i \in Keys |-> groupHt[w][i] + d[i]]]
             /\ UNCHANGED <<spill, groupStage>>
    <3>1. Local(k)' = f
      BY <1>0, <2>5, <2>7 DEF Local, GroupsInv, GroupInv, Group!TypeOK
    <3>2. Spills(k)' = Spills(k)
      BY <2>7 DEF Spills
    <3> QED
      BY <2>0, <2>3, <2>4, <3>1, <3>2
  <2>8. CASE /\ groupHt' = [groupHt EXCEPT ![w] = Group!NoGroups]
             /\ spill' = [spill EXCEPT ![w] = [i \in Keys |-> spill[w][i] + (groupHt[w][i] + d[i])]]
    <3>1. Local(k)' = [f EXCEPT ![w] = 0]
      <4>1. /\ groupHt'[w][k] = 0
            /\ \A u \in Groupers : u # w => UNCHANGED <<groupHt[u], groupStage[u]>>
        BY <1>3, <2>8 DEF GroupsInv, GroupInv, Group!TypeOK, Group!NoGroups
      <4> QED
        BY <4>1 DEF Local
    <3>2. Spills(k)' = [Spills(k) EXCEPT ![w] = Spills(k)[w] + f[w]]
      <4>1. /\ spill'[w][k] = spill[w][k] + (groupHt[w][k] + d[k])
            /\ \A u \in Groupers : u # w => UNCHANGED spill[u]
        BY <2>8 DEF GroupsInv, GroupInv, Group!TypeOK
      <4> QED
        BY <2>5, <4>1 DEF Spills
    <3> HIDE DEF f
    <3>3. /\ Local(k)' \in Numbers /\ Spills(k)' \in Numbers
          /\ Total(Local(k)') + Total(Spills(k)') = Total(f) + Total(Spills(k))
      <4>1. /\ [f EXCEPT ![w] = 0] \in Numbers
            /\ [Spills(k) EXCEPT ![w] = Spills(k)[w] + f[w]] \in Numbers
            /\ Total([f EXCEPT ![w] = 0]) + Total([Spills(k) EXCEPT ![w] = Spills(k)[w] + f[w]])
                 = Total(f) + Total(Spills(k))
        BY <2>0, <2>3, <2>4, TotalMove
      <4> QED
        BY <3>1, <3>2, <4>1
    <3>4. /\ Total(Local(k)') \in Nat /\ Total(Spills(k)') \in Nat /\ Total(f) \in Nat
      BY <2>3, <3>3, TotalBounds
    <3> QED
      BY <2>0, <2>1, <2>4, <3>3, <3>4
  <2> QED
    BY <1>3, <2>7, <2>8
<1>4. ASSUME \/ UNCHANGED groupStage
             \/ groupStage' = [groupStage EXCEPT ![w] = "wait"]
      PROVE  MergedSoFar' /\ SentOnce'
  <2>1. \A u \in Groupers : groupStage'[u] \in {"aggregate", "wait"}
    BY <1>1, <1>4 DEF GroupsInv, GroupInv, Group!TypeOK
  <2>2. MergedSoFar'
    BY <2>1 DEF MergedSoFar
  <2>3. \A k \in Keys : Pending(k)' <=> Pending(k)
    BY <1>0, <1>1, <2>1 DEF Pending
  <2>4. SentOnce'
    BY <1>0, <2>1, <2>3 DEF GroupsInv, SentOnce
  <2> QED
    BY <2>2, <2>4
<1>5. CASE Group!Aggregate(w)
  <2>0. UNCHANGED groupStage
    BY <1>5 DEF Group!Aggregate
  <2>1. PICK k \in Keys :
          /\ todo[k] > 0
          /\ todo' = [todo EXCEPT ![k] = @ - 1]
          /\ \/ /\ spill' = [spill EXCEPT ![w] = Group!Plus(@, Group!AggregateInto(w, k))]
                /\ groupHt' = [groupHt EXCEPT ![w] = Group!NoGroups]
             \/ /\ groupHt' = [groupHt EXCEPT ![w] = Group!AggregateInto(w, k)]
                /\ UNCHANGED spill
    BY <1>5 DEF Group!Aggregate
  <2> DEFINE d == [i \in Keys |-> IF i = k THEN 1 ELSE 0]
  <2>2. d \in [Keys -> {0, 1}]
    OBVIOUS
  <2>3. \A i \in Keys : todo[i] = todo'[i] + d[i] /\ todo'[i] \in Nat
    <3>1. todo \in [Keys -> Nat]
      BY DEF GroupsInv, GroupInv, Group!TypeOK, Group!Counts
    <3>2. todo'[k] = todo[k] - 1 /\ \A i \in Keys : i # k => todo'[i] = todo[i]
      BY <2>1, <3>1
    <3> QED
      BY <2>1, <3>1, <3>2
  <2>4. Group!AggregateInto(w, k) = [i \in Keys |-> groupHt[w][i] + d[i]]
    <3>1. groupHt[w] \in [Keys -> Nat]
      BY DEF GroupsInv, GroupInv, Group!TypeOK, Group!Counts
    <3>2. \A i \in Keys : groupHt[w][i] + 0 = groupHt[w][i]
      BY <3>1
    <3>3. \A i \in Keys : Group!AggregateInto(w, k)[i] = groupHt[w][i] + d[i]
      BY <3>1, <3>2 DEF Group!AggregateInto
    <3>4. Group!AggregateInto(w, k) = [i \in Keys |-> Group!AggregateInto(w, k)[i]]
      BY <3>1 DEF Group!AggregateInto
    <3> QED
      BY <3>3, <3>4
  <2>5. Group!Plus(spill[w], Group!AggregateInto(w, k))
          = [i \in Keys |-> spill[w][i] + (groupHt[w][i] + d[i])]
    BY <2>4 DEF Group!Plus
  <2>6. Conserved'
    <3> HIDE DEF d
    <3> QED
      BY <1>3, <2>0, <2>1, <2>2, <2>3, <2>4, <2>5
  <2>7. AllTaken'
    BY <1>0, <2>0 DEF AllTaken
  <2> QED
    BY <1>2, <1>4, <2>0, <2>6, <2>7 DEF GroupsInv
<1>6. CASE Group!FlushRest(w)
  <2>0. /\ Group!Ended(w)
        /\ spill' = [spill EXCEPT ![w] = Group!Plus(@, groupHt[w])]
        /\ groupHt' = [groupHt EXCEPT ![w] = Group!NoGroups]
        /\ groupStage' = [groupStage EXCEPT ![w] = "wait"]
        /\ UNCHANGED todo
    BY <1>6 DEF Group!FlushRest, Group!Goto
  <2> DEFINE d == [i \in Keys |-> 0]
  <2>1. d \in [Keys -> {0, 1}]
    OBVIOUS
  <2>2. \A i \in Keys : todo[i] = todo'[i] + d[i] /\ todo'[i] \in Nat
    BY <2>0 DEF GroupsInv, GroupInv, Group!TypeOK, Group!Counts
  <2>3. Group!Plus(spill[w], groupHt[w]) = [i \in Keys |-> spill[w][i] + (groupHt[w][i] + d[i])]
    BY DEF Group!Plus, GroupsInv, GroupInv, Group!TypeOK, Group!Counts
  <2>4. Conserved'
    <3> HIDE DEF d
    <3> QED
      BY <1>3, <2>0, <2>1, <2>2, <2>3
  <2>5. AllTaken'
    BY <2>0 DEF Group!Ended, AllTaken, GroupsInv, GroupInv, Group!TypeOK
  <2> QED
    BY <1>2, <1>4, <2>0, <2>4, <2>5 DEF GroupsInv
<1> QED
  BY <1>5, <1>6

\* In phase 2, and at the barrier, the tuples stay where they are.
LEMMA TuplesStay ==
  ASSUME GroupsInv, NEW w \in Groupers, groupStage[w] # "aggregate", groupStage'[w] # "aggregate",
         UNCHANGED <<tuples, todo, spill>>,
         \A u \in Groupers : u # w => UNCHANGED <<groupStage[u], groupHt[u]>>
  PROVE  Conserved' /\ AllTaken'
<1>1. \A k \in Keys : Local(k)' = Local(k) /\ Spills(k)' = Spills(k)
  BY DEF Local, Spills
<1>2. Conserved'
  <2> SUFFICES ASSUME NEW k \in Keys
               PROVE  /\ tuples[k] \in 0 .. MaxCount
                      /\ Local(k) \in Numbers /\ Spills(k) \in Numbers
                      /\ todo[k] + Total(Local(k)) + Total(Spills(k)) = tuples[k]
    BY <1>1 DEF Conserved, Total, Tallies, Numbers
  <2> QED
    BY DEF GroupsInv, Conserved
<1>3. AllTaken'
  BY DEF GroupsInv, AllTaken
<1> QED
  BY <1>2, <1>3

LEMMA BarrierGroups ==
  ASSUME GroupsInv, NEW w \in Groupers, Group!Wait(w) \/ Group!Resume(w)
  PROVE  GroupsInv'
<1>0. /\ groupStage[w] = "wait"
      /\ UNCHANGED <<tuples, todo, groupHt, spill, nextPart, partition, merged, unsent, sent>>
      /\ groupStage' = groupStage \/ groupStage' = [groupStage EXCEPT ![w] = "claim"]
  BY DEF Group!Wait, Group!Resume, Group!groupVars, Group!Goto
<1>1. /\ groupStage'[w] \in {"wait", "claim"}
      /\ \A u \in Groupers : u # w => UNCHANGED groupStage[u]
  BY <1>0 DEF GroupsInv, GroupInv, Group!TypeOK
<1>2. Conserved' /\ AllTaken'
  BY <1>0, <1>1, TuplesStay
<1>3. MergedSoFar'
  <2> SUFFICES ASSUME NEW u \in Groupers, groupStage'[u] \in {"merge", "send"}, NEW k \in Keys
               PROVE  /\ groupStage'[u] = "merge" =>
                           groupHt[u][k] = IF partitionOf[k] = partition[u]
                                           THEN Total(MergedOf(u, k)) ELSE 0
                      /\ groupStage'[u] = "send" =>
                           /\ groupHt[u][k] = IF partitionOf[k] = partition[u] THEN tuples[k] ELSE 0
                           /\ k \in unsent[u] => partitionOf[k] = partition[u] /\ tuples[k] > 0
    BY <1>0 DEF MergedSoFar, MergedOf, Total, Tallies
  <2> QED
    BY <1>1 DEF GroupsInv, MergedSoFar
<1>4. \A k \in Keys : Pending(k)' <=> Pending(k)
  BY <1>0, <1>1 DEF Pending
<1>5. SentOnce'
  BY <1>0, <1>1, <1>4 DEF GroupsInv, SentOnce
<1> QED
  BY <1>2, <1>3, <1>5, GroupBarrierInv DEF GroupsInv

LEMMA ClaimGroups ==
  ASSUME GroupsInv, NEW w \in Groupers, Group!ClaimPartition(w)
  PROVE  GroupsInv'
<1> DEFINE next == IF nextPart < nrPartitions THEN "merge" ELSE "eos"
<1>0. /\ groupStage[w] = "claim"
      /\ partition' = [partition EXCEPT ![w] = nextPart]
      /\ nextPart' = nextPart + 1
      /\ merged' = [merged EXCEPT ![w] = {}]
      /\ groupStage' = [groupStage EXCEPT ![w] = next]
      /\ UNCHANGED <<tuples, todo, groupHt, spill, unsent, sent>>
  BY DEF Group!ClaimPartition, Group!Goto, GroupsInv, GroupInv, Group!TypeOK
<1>1. /\ partition'[w] = nextPart /\ groupStage'[w] = next /\ merged'[w] = {}
      /\ \A u \in Groupers : u # w => UNCHANGED <<partition[u], groupStage[u], merged[u]>>
  BY <1>0 DEF GroupsInv, GroupInv, Group!TypeOK
<1>2. nextPart \in Nat /\ nrPartitions \in Nat /\ \A k \in Keys : partitionOf[k] \in 0 .. nrPartitions - 1
  BY GroupTypes, GroupAssumption DEF GroupsInv, Group!PartitionAssumption
<1>3. Conserved' /\ AllTaken'
  BY <1>0, <1>1, TuplesStay
<1>4. MergedSoFar'
  <2> SUFFICES ASSUME NEW u \in Groupers, groupStage'[u] \in {"merge", "send"}, NEW k \in Keys
               PROVE  /\ groupStage'[u] = "merge" =>
                           groupHt[u][k] = IF partitionOf[k] = partition'[u]
                                           THEN Total(MergedOf(u, k)') ELSE 0
                      /\ groupStage'[u] = "send" =>
                           /\ groupHt[u][k] = IF partitionOf[k] = partition'[u] THEN tuples[k] ELSE 0
                           /\ k \in unsent[u] => partitionOf[k] = partition'[u] /\ tuples[k] > 0
    BY <1>0 DEF MergedSoFar, Total, Tallies
  <2>1. CASE u = w
    <3>1. groupHt[w][k] = 0
      BY <1>0 DEF GroupsInv, GroupInv, GroupPlaced, Group!NoGroups
    <3>2. MergedOf(w, k)' = None0
      BY <1>0, <1>1 DEF MergedOf, None0
    <3>3. groupStage'[w] = "merge"
      BY <1>1, <2>1
    <3> QED
      BY <2>1, <3>1, <3>2, <3>3, TotalBounds
  <2>2. CASE u # w
    <3>1. MergedOf(u, k)' = MergedOf(u, k)
      BY <1>0, <1>1, <2>2 DEF MergedOf
    <3> QED
      BY <1>1, <2>2, <3>1 DEF GroupsInv, MergedSoFar
  <2> QED
    BY <2>1, <2>2
<1>5. SentOnce'
  <2>1. ASSUME NEW k \in Keys
        PROVE  Pending(k)' <=> Pending(k)
    <3>1. CASE partitionOf[k] = nextPart
      <4>1. groupStage'[w] = "merge" /\ partition'[w] = partitionOf[k]
        BY <1>1, <1>2, <3>1
      <4> QED
        BY <1>2, <3>1, <4>1 DEF Pending
    <3>2. CASE partitionOf[k] # nextPart
      <4>1. partitionOf[k] >= nextPart' <=> partitionOf[k] >= nextPart
        BY <1>0, <1>2, <3>2
      <4> QED
        BY <1>0, <1>1, <3>2, <4>1 DEF Pending
    <3> QED
      BY <3>1, <3>2
  <2>2. ASSUME NEW u \in Groupers, groupStage'[u] = "eos"
        PROVE  nrPartitions < nextPart'
    <3>1. CASE u = w
      BY <1>0, <1>1, <1>2, <2>2, <3>1
    <3>2. CASE u # w
      BY <1>0, <1>1, <1>2, <2>2, <3>2 DEF GroupsInv, SentOnce
    <3> QED
      BY <3>1, <3>2
  <2> QED
    BY <1>0, <2>1, <2>2 DEF GroupsInv, SentOnce
<1> QED
  BY <1>3, <1>4, <1>5, ClaimPartitionInv DEF GroupsInv

LEMMA MergeGroups ==
  ASSUME GroupsInv, NEW w \in Groupers, Group!Merge(w)
  PROVE  GroupsInv'
<1>0. /\ groupStage[w] = "merge"
      /\ UNCHANGED <<tuples, todo, groupStage, spill, nextPart, partition, unsent, sent>>
  BY DEF Group!Merge
<1>1. PICK v \in Groupers \ merged[w] :
        /\ groupHt' = [groupHt EXCEPT ![w] = Group!Plus(@, Group!Spilled(v, partition[w]))]
        /\ merged' = [merged EXCEPT ![w] = @ \cup {v}]
  BY DEF Group!Merge
<1>2. /\ groupHt'[w] = Group!Plus(groupHt[w], Group!Spilled(v, partition[w]))
      /\ merged'[w] = merged[w] \cup {v}
      /\ \A u \in Groupers : u # w => UNCHANGED <<groupHt[u], merged[u]>>
  BY <1>1 DEF GroupsInv, GroupInv, Group!TypeOK
<1>3. Conserved' /\ AllTaken'
  BY <1>0, <1>2, TuplesStay
<1>4. MergedSoFar'
  <2> SUFFICES ASSUME NEW u \in Groupers, groupStage[u] \in {"merge", "send"}, NEW k \in Keys
               PROVE  /\ groupStage[u] = "merge" =>
                           groupHt'[u][k] = IF partitionOf[k] = partition[u]
                                            THEN Total(MergedOf(u, k)') ELSE 0
                      /\ groupStage[u] = "send" =>
                           /\ groupHt'[u][k] = IF partitionOf[k] = partition[u] THEN tuples[k] ELSE 0
                           /\ k \in unsent[u] => partitionOf[k] = partition[u] /\ tuples[k] > 0
    BY <1>0 DEF MergedSoFar, Total, Tallies
  <2>1. CASE u # w
    <3>1. MergedOf(u, k)' = MergedOf(u, k)
      BY <1>0, <1>2, <2>1 DEF MergedOf
    <3> QED
      BY <1>2, <2>1, <3>1 DEF GroupsInv, MergedSoFar
  <2>2. CASE u = w
    <3>1. groupHt'[w][k] = groupHt[w][k] + (IF partitionOf[k] = partition[w] THEN spill[v][k] ELSE 0)
      BY <1>2 DEF Group!Plus, Group!Spilled
    <3>2. groupHt[w][k] = IF partitionOf[k] = partition[w] THEN Total(MergedOf(w, k)) ELSE 0
      BY <1>0 DEF GroupsInv, MergedSoFar
    <3>3. /\ MergedOf(w, k)' = [MergedOf(w, k) EXCEPT ![v] = MergedOf(w, k)[v] + spill[v][k]]
          /\ MergedOf(w, k) \in Numbers /\ MergedOf(w, k)[v] + spill[v][k] <= MaxCount
          /\ spill[v][k] \in Nat
      <4>1. Spills(k) \in Numbers /\ MaxCount \in Nat
        BY GroupAssumption DEF GroupsInv, Conserved, Group!FillAssumption
      <4>2. \A x \in Groupers : spill[x][k] \in 0 .. MaxCount
        BY <4>1 DEF Spills, Numbers
      <4>3. MergedOf(w, k)[v] = 0 /\ 0 + spill[v][k] = spill[v][k]
        BY <1>1, <4>1, <4>2 DEF MergedOf
      <4>4. MergedOf(w, k)' = [MergedOf(w, k) EXCEPT ![v] = spill[v][k]]
        BY <1>0, <1>1, <1>2 DEF MergedOf
      <4>5. MergedOf(w, k) \in Numbers
        BY <4>1, <4>2 DEF MergedOf, Numbers
      <4>6. spill[v][k] \in Nat /\ spill[v][k] <= MaxCount
        BY <4>1, <4>2
      <4>7. MergedOf(w, k)[v] + spill[v][k] = spill[v][k]
        BY <4>3
      <4> QED
        BY <4>4, <4>5, <4>6, <4>7
    <3>4. Total([MergedOf(w, k) EXCEPT ![v] = MergedOf(w, k)[v] + spill[v][k]])
            = Total(MergedOf(w, k)) + spill[v][k]
      BY <3>3, TotalPlus
    <3>5. Total(MergedOf(w, k)') = Total(MergedOf(w, k)) + spill[v][k]
      BY <3>3, <3>4
    <3> QED
      BY <1>0, <2>2, <3>1, <3>2, <3>5
  <2> QED
    BY <2>1, <2>2
<1>5. SentOnce'
  BY <1>0 DEF GroupsInv, SentOnce, Pending
<1>6. GroupInv'
  BY PartitionInv DEF GroupsInv
<1> QED
  BY <1>3, <1>4, <1>5, <1>6 DEF GroupsInv

LEMMA MergeDoneGroups ==
  ASSUME GroupsInv, NEW w \in Groupers, Group!MergeDone(w)
  PROVE  GroupsInv'
<1>0. /\ groupStage[w] = "merge" /\ merged[w] = Groupers
      /\ unsent' = [unsent EXCEPT ![w] = {k \in Keys : groupHt[w][k] > 0}]
      /\ groupStage' = [groupStage EXCEPT ![w] = "send"]
      /\ UNCHANGED <<tuples, todo, groupHt, spill, nextPart, partition, merged, sent>>
  BY DEF Group!MergeDone, Group!Goto
<1>1. /\ groupStage'[w] = "send" /\ unsent'[w] = {k \in Keys : groupHt[w][k] > 0}
      /\ \A u \in Groupers : u # w => UNCHANGED <<groupStage[u], unsent[u]>>
  BY <1>0 DEF GroupsInv, GroupInv, Group!TypeOK
<1>2. Conserved' /\ AllTaken'
  BY <1>0, <1>1, TuplesStay
<1>3. ASSUME NEW k \in Keys
      PROVE  /\ groupHt[w][k] = IF partitionOf[k] = partition[w] THEN tuples[k] ELSE 0
             /\ tuples[k] \in Nat
             /\ k \in unsent'[w] <=> partitionOf[k] = partition[w] /\ tuples[k] > 0
  <2>1. MergedOf(w, k) = Spills(k)
    BY <1>0 DEF MergedOf, Spills
  <2>2. Total(Spills(k)) = tuples[k] /\ tuples[k] \in Nat
    BY <1>0, SpillComplete DEF GroupsInv, Conserved
  <2>3. groupHt[w][k] = IF partitionOf[k] = partition[w] THEN tuples[k] ELSE 0
    BY <1>0, <2>1, <2>2 DEF GroupsInv, MergedSoFar
  <2> QED
    BY <1>1, <2>2, <2>3
<1>4. MergedSoFar'
  <2> SUFFICES ASSUME NEW u \in Groupers, NEW k \in Keys
               PROVE  /\ groupStage'[u] = "merge" =>
                           groupHt[u][k] = IF partitionOf[k] = partition[u]
                                           THEN Total(MergedOf(u, k)) ELSE 0
                      /\ groupStage'[u] = "send" =>
                           /\ groupHt[u][k] = IF partitionOf[k] = partition[u] THEN tuples[k] ELSE 0
                           /\ k \in unsent'[u] => partitionOf[k] = partition[u] /\ tuples[k] > 0
    BY <1>0 DEF MergedSoFar, MergedOf, Total, Tallies
  <2>1. CASE u = w
    BY <1>1, <1>3, <2>1
  <2>2. CASE u # w
    BY <1>1, <2>2 DEF GroupsInv, MergedSoFar
  <2> QED
    BY <2>1, <2>2
<1>5. SentOnce'
  <2>1. ASSUME NEW k \in Keys, tuples[k] # 0
        PROVE  Pending(k)' <=> Pending(k)
    <3>1. tuples[k] > 0
      BY <1>3, <2>1
    <3> QED
      BY <1>0, <1>1, <1>3, <3>1 DEF Pending
  <2>2. \A u \in Groupers : groupStage'[u] = "eos" => groupStage[u] = "eos"
    BY <1>1
  <2> QED
    BY <1>0, <2>1, <2>2 DEF GroupsInv, SentOnce
<1>6. GroupInv'
  BY PartitionInv DEF GroupsInv
<1> QED
  BY <1>2, <1>4, <1>5, <1>6 DEF GroupsInv

LEMMA SendGroups ==
  ASSUME GroupsInv, NEW w \in Groupers, Group!Send(w)
  PROVE  GroupsInv'
<1>0. /\ groupStage[w] = "send"
      /\ UNCHANGED <<tuples, todo, groupStage, groupHt, spill, nextPart, partition, merged>>
  BY DEF Group!Send
<1>1. PICK k \in unsent[w] : /\ sent' = [sent EXCEPT ![k] = Append(@, groupHt[w][k])]
                             /\ unsent' = [unsent EXCEPT ![w] = @ \ {k}]
  BY DEF Group!Send
<1>2. /\ k \in Keys /\ partitionOf[k] = partition[w] /\ tuples[k] > 0 /\ tuples[k] \in Nat
      /\ groupHt[w][k] = tuples[k]
  <2>1. k \in Keys
    BY DEF GroupsInv, GroupInv, Group!TypeOK
  <2> QED
    BY <1>0, <2>1 DEF GroupsInv, MergedSoFar, Conserved
<1>3. /\ unsent'[w] = unsent[w] \ {k}
      /\ \A u \in Groupers : u # w => UNCHANGED unsent[u]
      /\ sent'[k] = Append(sent[k], groupHt[w][k])
      /\ \A i \in Keys : i # k => UNCHANGED sent[i]
  BY <1>1, <1>2 DEF GroupsInv, GroupInv, Group!TypeOK
<1>4. Conserved' /\ AllTaken'
  BY <1>0, TuplesStay
<1>5. MergedSoFar'
  <2> SUFFICES ASSUME NEW u \in Groupers, NEW i \in Keys
               PROVE  /\ groupStage[u] = "merge" =>
                           groupHt[u][i] = IF partitionOf[i] = partition[u]
                                           THEN Total(MergedOf(u, i)) ELSE 0
                      /\ groupStage[u] = "send" =>
                           /\ groupHt[u][i] = IF partitionOf[i] = partition[u] THEN tuples[i] ELSE 0
                           /\ i \in unsent'[u] => partitionOf[i] = partition[u] /\ tuples[i] > 0
    BY <1>0 DEF MergedSoFar, MergedOf, Total, Tallies
  <2>1. unsent'[u] \subseteq unsent[u]
    BY <1>3
  <2> QED
    BY <2>1 DEF GroupsInv, MergedSoFar
<1>6. SentOnce'
  <2>1. sent[k] = <<>> /\ Pending(k)
    BY <1>0, <1>1, <1>2 DEF GroupsInv, SentOnce, Pending
  <2>2. sent'[k] = <<tuples[k]>>
    BY <1>2, <1>3, <2>1
  <2>3. ~Pending(k)'
    <3>1. ~(partitionOf[k] >= nextPart)
      BY <1>0, <1>2, GroupTypes DEF GroupsInv, GroupInv, PartitionsTaken
    <3>2. \A u \in Groupers : u # w /\ groupStage[u] \in {"merge", "send"} =>
            partition[u] # partition[w]
      BY <1>0 DEF GroupsInv, GroupInv, Group!PartitionsApart
    <3> QED
      BY <1>0, <1>2, <1>3, <3>1, <3>2 DEF Pending
  <2>4. ASSUME NEW i \in Keys, i # k
        PROVE  Pending(i)' <=> Pending(i)
    BY <1>0, <1>3, <2>4 DEF Pending
  <2> QED
    BY <1>0, <1>2, <1>3, <2>2, <2>3, <2>4 DEF GroupsInv, SentOnce
<1>7. GroupInv'
  BY PartitionInv DEF GroupsInv
<1> QED
  BY <1>4, <1>5, <1>6, <1>7 DEF GroupsInv

LEMMA SendDoneGroups ==
  ASSUME GroupsInv, NEW w \in Groupers, Group!SendDone(w)
  PROVE  GroupsInv'
<1>0. /\ groupStage[w] = "send" /\ unsent[w] = {}
      /\ groupHt' = [groupHt EXCEPT ![w] = Group!NoGroups]
      /\ groupStage' = [groupStage EXCEPT ![w] = "claim"]
      /\ UNCHANGED <<tuples, todo, spill, nextPart, partition, merged, unsent, sent>>
  BY DEF Group!SendDone, Group!Goto
<1>1. /\ groupStage'[w] = "claim"
      /\ \A u \in Groupers : u # w => UNCHANGED <<groupStage[u], groupHt[u]>>
  BY <1>0 DEF GroupsInv, GroupInv, Group!TypeOK
<1>2. Conserved' /\ AllTaken'
  BY <1>0, <1>1, TuplesStay
<1>3. MergedSoFar'
  <2> SUFFICES ASSUME NEW u \in Groupers, u # w, NEW k \in Keys
               PROVE  /\ groupStage[u] = "merge" =>
                           groupHt[u][k] = IF partitionOf[k] = partition[u]
                                           THEN Total(MergedOf(u, k)) ELSE 0
                      /\ groupStage[u] = "send" =>
                           /\ groupHt[u][k] = IF partitionOf[k] = partition[u] THEN tuples[k] ELSE 0
                           /\ k \in unsent[u] => partitionOf[k] = partition[u] /\ tuples[k] > 0
    BY <1>0, <1>1 DEF MergedSoFar, MergedOf, Total, Tallies
  <2> QED
    BY DEF GroupsInv, MergedSoFar
<1>4. \A k \in Keys : Pending(k)' <=> Pending(k)
  BY <1>0, <1>1 DEF Pending
<1>5. SentOnce'
  BY <1>0, <1>1, <1>4 DEF GroupsInv, SentOnce
<1>6. GroupInv'
  BY PartitionInv DEF GroupsInv
<1> QED
  BY <1>2, <1>3, <1>5, <1>6 DEF GroupsInv

LEMMA GroupsInvariance == MCSpec => []GroupsInv
<1>1. MCInit => GroupsInv
  BY GroupsInitInv DEF MCInit
<1>2. GroupsInv /\ [MCNext]_allVars => GroupsInv'
  <2> SUFFICES ASSUME GroupsInv, [MCNext]_allVars
               PROVE  GroupsInv'
    OBVIOUS
  <2>1. CASE UNCHANGED groupVars
    <3>1. GroupInv'
      BY <2>1 DEF groupVars, GroupsInv, GroupInv, Group!TypeOK, Group!Counts, GroupPlaced,
                  PartitionsTaken, Ends, Group!NoGroups, Group!PartitionsApart
    <3>2. Conserved' /\ AllTaken'
      BY <2>1 DEF groupVars, GroupsInv, Conserved, AllTaken, Local, Spills, Total, Tallies, Numbers
    <3>3. MergedSoFar'
      BY SMTT(30), <2>1 DEF groupVars, GroupsInv, MergedSoFar, MergedOf, Total, Tallies
    <3>4. SentOnce'
      BY <2>1 DEF groupVars, GroupsInv, SentOnce, Pending
    <3> QED
      BY <3>1, <3>2, <3>3, <3>4 DEF GroupsInv
  <2>2. ASSUME NEW w \in Groupers, Group!Step(w)
        PROVE  GroupsInv'
    BY <2>2, AggregateGroups, BarrierGroups, ClaimGroups, MergeGroups, MergeDoneGroups, SendGroups,
       SendDoneGroups DEF Group!Step
  <2> QED
    BY <2>1, <2>2 DEF MCNext, WorkerStep, allVars, ScanOnly, BuildOnly, GroupOnly, PlanOnly, QueriesOnly,
                      Group!Finished, Group!vars, groupVars
<1> QED
  BY <1>1, <1>2, PTL DEF MCSpec

\* For every number of workers, keys, partitions and tuples, and every size of the
\* local tables: a group is delivered once, with all the tuples of its key that
\* any worker has seen, and in the end every key that occurred has been.
THEOREM AggregationRight == MCSpec => []GroupsRight
<1>1. ASSUME GroupsInv
      PROVE  GroupsRight
  <2>1. Group!GroupsExact
    BY <1>1 DEF GroupsInv, SentOnce, Group!GroupsExact
  <2>2. Group!GroupsComplete
    <3> SUFFICES ASSUME \A w \in Groupers : groupStage[w] = "eos", NEW k \in Keys
                 PROVE  ~Pending(k)
      BY <1>1 DEF GroupsInv, SentOnce, Group!GroupsComplete
    <3>1. nrPartitions < nextPart
      BY <1>1, GroupAssumption DEF GroupsInv, SentOnce, Group!WorkersAssumption
    <3>2. partitionOf[k] \in 0 .. nrPartitions - 1 /\ nextPart \in Nat /\ nrPartitions \in Nat
      BY <1>1, GroupTypes, GroupAssumption DEF GroupsInv, Group!PartitionAssumption
    <3> QED
      BY <3>1, <3>2 DEF Pending
  <2> QED
    BY <2>1, <2>2 DEF GroupsRight
<1> QED
  BY <1>1, GroupsInvariance, PTL

-----------------------------------------------------------------------------
(* The threads and their workers *)

\* The threads that work with a worker of this query, and workers of it.
Owners == {t \in Workers : thisWorker[t][1] = query}
NamesOf(S) == {<<query, i>> : i \in S}

\* Between two queries only the first worker is left, as it was in the beginning; the
\* others' pointers are to workers of queries that are over, or of none.
AtDriver ==
  /\ Queries!Live = {Queries!mainWorker} /\ worker[Queries!mainWorker] = Queries!Worker(0, 0)
  /\ tasks = {} /\ Queries!AllIdle
  /\ \A t \in Workers : /\ thisWorker[t][1] <= query
                        /\ thisWorker[t] = Queries!mainWorker <=> t = Main

\* A thread that has run its iteration of initQuery, and not yet that of leaveQuery,
\* has a worker to itself that knows the one the thread had before.
InCompiled ==
  /\ query > 0
  /\ Queries!Live = {Queries!mainWorker} \cup NamesOf(0 .. nrThreads - 1)
  /\ worker[Queries!mainWorker] = Queries!Worker(0, 0)
  /\ \A t \in Workers :
       /\ before[t][1] < query
       /\ before[t] = Queries!mainWorker <=> t = Main
       /\ at[t] \in {"idle", "loop barrier"}
       /\ t \notin Owners => thisWorker[t] = before[t]
       /\ t \in Owners =>
            /\ worker[thisWorker[t]].previousWorker = before[t]
            /\ worker[thisWorker[t]].source = query
            /\ \A u \in Workers : u # t => thisWorker[u] # thisWorker[t]

\* While a loop has iterations left, a thread that has run one waits for the others:
\* that is why no thread runs two, and none goes without.
InInit ==
  /\ \A t \in Owners : thisWorker[t] \notin NamesOf(tasks)
  /\ tasks # {} => \A t \in Workers : at[t] = "loop barrier" <=> t \in Owners
  /\ Cardinality(tasks) + Cardinality(Owners) = nrThreads

InLeave ==
  /\ tasks # {} => \A t \in Workers : at[t] = "loop barrier" <=> t \notin Owners
  /\ Cardinality(tasks) = Cardinality(Owners)

\* All threads have passed the barrier at the end of a vectorwise query, or may.
Over ==
  tasks = {} /\ \A t \in Workers : at[t] \notin {"spawn", "participate", "plan"}

\* The group of a vectorwise query: the workers it has made so far, one task for each
\* until a thread takes it, and the first worker, which the driver's thread lends it.
Made(s) ==
  /\ Queries!Live = {Queries!mainWorker} \cup NamesOf(0 .. s - 1)
  /\ tasks \subseteq 0 .. s - 1

LentGroup == IF at[Main] \in {"spawn", "idle"} THEN 0 ELSE query
LentSource == IF at[Main] \in {"plan", "last barrier", "leave"} THEN query ELSE 0
MainLent ==
  /\ worker[Queries!mainWorker] =
       [previousWorker |-> Queries!NoWorker, group |-> LentGroup, source |-> LentSource]
  /\ at[Main] \notin {"spawn", "idle"} => team = 0
  /\ at[Main] \in {"plan", "last barrier", "leave"} => previous[Main] = 0

\* Where a thread is, it has a worker to itself for.
InPlace(t) ==
  /\ at[t] # "loop barrier"
  /\ at[t] \in {"spawn", "restore"} => t = Main
  /\ at[t] # "idle" /\ t # Main => t \in Owners
  /\ at[t] \in {"leave", "restore"} => Over
  /\ at[t] = "idle" /\ (t = Main \/ t \in Owners) => Over
  /\ at[t] \in {"plan", "last barrier", "leave"} => worker[thisWorker[t]].source = query

OwnWorker(t) ==
  /\ thisWorker[t][1] <= query
  /\ thisWorker[t] = Queries!mainWorker <=> t = Main
  /\ t \in Owners =>
       /\ thisWorker[t] \in Queries!Live \ NamesOf(tasks)
       /\ \A u \in Workers : u # t => thisWorker[u] # thisWorker[t]

InRun ==
  /\ query > 0
  /\ \E s \in 0 .. nrThreads - 1 : Made(s)
  /\ \A w \in Queries!Live : w # Queries!mainWorker => worker[w].group = query
  /\ \A t \in Workers : InPlace(t) /\ OwnWorker(t)
  /\ MainLent

\* The inductive invariant.
QueriesInv ==
  /\ Queries!TypeOK /\ ~foreign
  /\ phase = "driver" => AtDriver
  /\ phase \in {"init", "compiled", "leave"} => InCompiled
  /\ phase = "init" => InInit
  /\ phase = "compiled" => tasks = {} /\ Queries!AllIdle /\ Owners = Workers
  /\ phase = "leave" => InLeave
  /\ phase = "run" => InRun

LEMMA QueriesSets ==
  /\ nrThreads \in Nat \ {0} /\ MaxQueries \in Nat /\ Main \in Workers
  /\ Cardinality(Workers) = nrThreads /\ Cardinality(0 .. nrThreads - 1) = nrThreads
  /\ \A S \in SUBSET Workers :
       /\ IsFiniteSet(S) /\ Cardinality(S) \in Nat
       /\ Cardinality(S) = 0 <=> S = {}
       /\ Cardinality(S) = nrThreads => S = Workers
  /\ \A S \in SUBSET (0 .. nrThreads - 1) :
       /\ IsFiniteSet(S) /\ Cardinality(S) \in Nat
       /\ Cardinality(S) = 0 <=> S = {}
       /\ \A i \in S : Cardinality(S \ {i}) = Cardinality(S) - 1
<1>1. \A S : (Queries!IsFiniteSet(S) <=> IsFiniteSet(S)) /\ Queries!Cardinality(S) = Cardinality(S)
  <2>1. \A S : Queries!IsFiniteSet(S) <=> IsFiniteSet(S)
    BY DEF Queries!IsFiniteSet, IsFiniteSet
  <2>2. \A S : Queries!Cardinality(S) = Cardinality(S)
    BY DEF Queries!Cardinality, Cardinality
  <2> QED
    BY <2>1, <2>2
<1>2. /\ IsFiniteSet(Workers) /\ Main \in Workers /\ nrThreads = Cardinality(Workers)
      /\ MaxQueries \in Nat
  BY <1>1, QueriesAssumption DEF Queries!ThreadsAssumption
<1>3. nrThreads \in Nat \ {0}
  <2>1. Cardinality(Workers) \in Nat
    BY <1>2, FS_CardinalityType
  <2>2. Cardinality(Workers) # 0
    BY <1>2, FS_EmptySet
  <2> QED
    BY <1>2, <2>1, <2>2
<1>4. ASSUME NEW S, IsFiniteSet(S)
      PROVE  Cardinality(S) \in Nat /\ (Cardinality(S) = 0 <=> S = {})
  BY <1>4, FS_CardinalityType, FS_EmptySet
<1>5. ASSUME NEW S \in SUBSET Workers
      PROVE  IsFiniteSet(S) /\ (Cardinality(S) = nrThreads => S = Workers)
  BY <1>2, FS_Subset
<1>6. IsFiniteSet(0 .. nrThreads - 1) /\ Cardinality(0 .. nrThreads - 1) = nrThreads
  <2>1. 0 \in Int /\ nrThreads - 1 \in Int /\ ~(0 > nrThreads - 1) /\ (nrThreads - 1) - 0 + 1 = nrThreads
    BY <1>3
  <2> QED
    BY <2>1, FS_Interval
<1>7. ASSUME NEW S \in SUBSET (0 .. nrThreads - 1)
      PROVE  IsFiniteSet(S)
  BY <1>6, FS_Subset
<1>8. ASSUME NEW S \in SUBSET (0 .. nrThreads - 1), NEW i \in S
      PROVE  Cardinality(S \ {i}) = Cardinality(S) - 1
  BY <1>7, FS_RemoveElement
<1> QED
  BY <1>2, <1>3, <1>4, <1>5, <1>6, <1>7, <1>8

LEMMA QueriesNumbers ==
  nrThreads \in Nat \ {0} /\ MaxQueries \in Nat /\ Main \in Workers
BY QueriesSets

\* What the names of workers tell.
LEMMA NamesFacts ==
  /\ Queries!mainWorker \in Queries!WorkerNames /\ Queries!NoWorker \in Queries!WorkerNames
  /\ Queries!mainWorker # Queries!NoWorker
  /\ Queries!mainWorker[1] = 0 /\ Queries!NoWorker[1] = 0
  /\ \A x \in Queries!WorkerNames :
       x[1] \in Nat /\ (x[1] > 0 => \E i \in 0 .. nrThreads - 1 : x = <<x[1], i>>)
  /\ \A q \in 1 .. MaxQueries, i \in 0 .. nrThreads - 1 :
       <<q, i>> \in Queries!WorkerNames /\ <<q, i>> # Queries!mainWorker /\ <<q, i>>[1] = q
  /\ \A q, i, j : <<q, i>> = <<q, j>> => i = j
BY QueriesNumbers DEF Queries!WorkerNames, Queries!mainWorker, Queries!NoWorker

\* A thread that has a worker of the query has it by a name of the query.
LEMMA OwnersNames ==
  ASSUME Queries!TypeOK, query > 0
  PROVE  /\ query \in 1 .. MaxQueries
         /\ \A t \in Owners : thisWorker[t] \in NamesOf(0 .. nrThreads - 1)
         /\ \A t \in Workers : thisWorker[t] \in NamesOf(0 .. nrThreads - 1) => t \in Owners
         /\ NamesOf(0 .. nrThreads - 1) \subseteq Queries!WorkerNames
         /\ \A n \in NamesOf(0 .. nrThreads - 1) : n[1] = query /\ n # Queries!mainWorker
<1>1. query \in 1 .. MaxQueries
  <2>1. query \in 0 .. MaxQueries
    BY DEF Queries!TypeOK
  <2> QED
    BY <2>1, QueriesNumbers
<1>2. \A t \in Owners : thisWorker[t] \in NamesOf(0 .. nrThreads - 1)
  <2> SUFFICES ASSUME NEW t \in Owners
               PROVE  \E i \in 0 .. nrThreads - 1 : thisWorker[t] = <<query, i>>
    BY DEF NamesOf
  <2>1. thisWorker[t] \in Queries!WorkerNames /\ thisWorker[t][1] = query
    BY DEF Queries!TypeOK, Owners
  <2> QED
    BY <2>1, NamesFacts
<1>3. \A n \in NamesOf(0 .. nrThreads - 1) :
        n \in Queries!WorkerNames /\ n[1] = query /\ n # Queries!mainWorker
  BY <1>1, NamesFacts DEF NamesOf
<1> QED
  BY <1>1, <1>2, <1>3 DEF Owners

LEMMA QueriesInitInv == Queries!Init => QueriesInv
<1> SUFFICES ASSUME Queries!Init PROVE QueriesInv
  OBVIOUS
<1> USE DEF Queries!Init
<1>1. Queries!TypeOK
  <2>1. Queries!Worker(0, 0) \in [previousWorker : Queries!WorkerNames, group : 0 .. Queries!None,
                                  source : 0 .. Queries!None]
    BY QueriesNumbers, NamesFacts DEF Queries!Worker, Queries!None
  <2>2. Queries!Live = {Queries!mainWorker} /\ worker[Queries!mainWorker] = Queries!Worker(0, 0)
    BY DEF Queries!Live
  <2>3. thisWorker \in [Workers -> Queries!WorkerNames]
    BY NamesFacts
  <2>4. Queries!None \in 0 .. Queries!None
    BY QueriesNumbers DEF Queries!None
  <2> QED
    <3>1. Queries!Live \subseteq Queries!WorkerNames /\ query \in 0 .. MaxQueries
      BY <2>2, QueriesNumbers, NamesFacts
    <3>2. \A w \in Queries!Live :
            worker[w] \in [previousWorker : Queries!WorkerNames, group : 0 .. Queries!None,
                          source : 0 .. Queries!None]
      BY <2>1, <2>2
    <3>3. previous \in [Workers -> 0 .. Queries!None] /\ team \in 0 .. Queries!None
      BY <2>4
    <3> QED
      BY <2>3, <3>1, <3>2, <3>3 DEF Queries!TypeOK
<1>2. AtDriver
  BY QueriesNumbers, NamesFacts DEF AtDriver, Queries!Live, Queries!AllIdle, Queries!Idle
<1> QED
  BY <1>1, <1>2 DEF QueriesInv

\* The two halves of the type invariant.
Fields ==
  [previousWorker : Queries!WorkerNames, group : 0 .. Queries!None, source : 0 .. Queries!None]
WorkersTyped ==
  Queries!Live \subseteq Queries!WorkerNames /\ \A n \in Queries!Live : worker[n] \in Fields
ThreadsTyped ==
  /\ phase \in {"driver", "init", "compiled", "leave", "run"} /\ query \in 0 .. MaxQueries
  /\ thisWorker \in [Workers -> Queries!WorkerNames] /\ before \in [Workers -> Queries!WorkerNames]
  /\ tasks \subseteq 0 .. nrThreads - 1
  /\ at \in [Workers -> {"idle", "loop barrier", "spawn", "participate", "plan", "last barrier",
                         "leave", "restore"}]
  /\ previous \in [Workers -> 0 .. Queries!None] /\ team \in 0 .. Queries!None
  /\ foreign \in BOOLEAN

LEMMA QueriesTypes ==
  /\ Queries!TypeOK <=> WorkersTyped /\ ThreadsTyped
  /\ Queries!TypeOK' <=> WorkersTyped' /\ ThreadsTyped'
  /\ Queries!None \in Nat /\ MaxQueries \in 0 .. Queries!None /\ 0 \in 0 .. Queries!None
  /\ Queries!None \in 0 .. Queries!None
  /\ 0 .. MaxQueries \subseteq 0 .. Queries!None
<1>1. /\ Queries!TypeOK <=> WorkersTyped /\ ThreadsTyped
      /\ Queries!TypeOK' <=> WorkersTyped' /\ ThreadsTyped'
  BY Zenon DEF Queries!TypeOK, WorkersTyped, ThreadsTyped, Fields
<1> QED
  BY <1>1, QueriesNumbers DEF Queries!None

Places == {"idle", "loop barrier", "spawn", "participate", "plan", "last barrier", "leave", "restore"}

\* What a step does to the threads keeps their half of it.
LEMMA ThreadsKept ==
  ASSUME ThreadsTyped,
         phase' \in {"driver", "init", "compiled", "leave", "run"}, query' \in 0 .. MaxQueries,
         thisWorker' = thisWorker
           \/ \E t \in Workers, n \in Queries!WorkerNames : thisWorker' = [thisWorker EXCEPT ![t] = n],
         before' = before \/ before' = thisWorker,
         tasks' \subseteq 0 .. nrThreads - 1,
         at' = at \/ \E t \in Workers, p \in Places : at' = [at EXCEPT ![t] = p],
         previous' = previous
           \/ \E t \in Workers, p \in 0 .. Queries!None : previous' = [previous EXCEPT ![t] = p],
         team' \in 0 .. Queries!None, foreign' \in BOOLEAN
  PROVE  ThreadsTyped'
<1>0. /\ thisWorker \in [Workers -> Queries!WorkerNames] /\ before \in [Workers -> Queries!WorkerNames]
      /\ at \in [Workers -> Places] /\ previous \in [Workers -> 0 .. Queries!None]
  BY DEF ThreadsTyped, Places
<1>1. thisWorker' \in [Workers -> Queries!WorkerNames]
  <2>1. ASSUME NEW t \in Workers, NEW n \in Queries!WorkerNames
        PROVE  [thisWorker EXCEPT ![t] = n] \in [Workers -> Queries!WorkerNames]
    BY <1>0
  <2> QED
    BY <1>0, <2>1
<1>2. before' \in [Workers -> Queries!WorkerNames]
  BY <1>0
<1>3. at' \in [Workers -> Places]
  <2>1. ASSUME NEW t \in Workers, NEW p \in Places
        PROVE  [at EXCEPT ![t] = p] \in [Workers -> Places]
    BY <1>0
  <2> QED
    BY <1>0, <2>1
<1>4. previous' \in [Workers -> 0 .. Queries!None]
  <2>1. ASSUME NEW t \in Workers, NEW p \in 0 .. Queries!None
        PROVE  [previous EXCEPT ![t] = p] \in [Workers -> 0 .. Queries!None]
    BY <1>0
  <2> QED
    BY <1>0, <2>1
<1> QED
  <2>1. Queries!WorkerNames' = Queries!WorkerNames /\ Queries!None' = Queries!None
    BY DEF Queries!WorkerNames, Queries!None, Queries!mainWorker, Queries!NoWorker
  <2> QED
    BY Zenon, <1>1, <1>2, <1>3, <1>4, <2>1 DEF ThreadsTyped, Places

\* A query is compiled: its workers are made.
LEMMA BeginCompiledInv ==
  ASSUME QueriesInv, Queries!BeginCompiled
  PROVE  QueriesInv'
<1>0. /\ phase = "driver" /\ query < MaxQueries
      /\ query' = query + 1 /\ phase' = "init" /\ before' = thisWorker
      /\ worker' = [w \in Queries!Live \cup {<<query + 1, i>> : i \in 0 .. nrThreads - 1} |->
                      IF w \in Queries!Live THEN worker[w]
                      ELSE Queries!Worker(Queries!None, Queries!None)]
      /\ tasks' = 0 .. nrThreads - 1
      /\ UNCHANGED <<thisWorker, at, previous, team, foreign>>
  BY DEF Queries!BeginCompiled, Queries!Begin
<1>1. AtDriver /\ WorkersTyped /\ ThreadsTyped /\ ~foreign
  BY <1>0, QueriesTypes DEF QueriesInv
<1>2. query \in Nat /\ query' \in 1 .. MaxQueries /\ query' > 0
  <2>1. query \in 0 .. MaxQueries
    BY <1>1 DEF ThreadsTyped
  <2> QED
    BY <1>0, <2>1, QueriesNumbers
<1>3. NamesOf(0 .. nrThreads - 1)' = {<<query + 1, i>> : i \in 0 .. nrThreads - 1}
  BY <1>0 DEF NamesOf
<1>4. \A n \in NamesOf(0 .. nrThreads - 1)' :
        n \in Queries!WorkerNames /\ n # Queries!mainWorker /\ n[1] = query'
  BY <1>2, NamesFacts DEF NamesOf
<1>5. /\ Queries!Live' = {Queries!mainWorker} \cup NamesOf(0 .. nrThreads - 1)'
      /\ worker'[Queries!mainWorker] = Queries!Worker(0, 0)
      /\ \A n \in NamesOf(0 .. nrThreads - 1)' :
           worker'[n] = Queries!Worker(Queries!None, Queries!None)
  BY <1>0, <1>1, <1>3, <1>4 DEF Queries!Live, AtDriver
<1>6. WorkersTyped'
  <2>1. /\ Queries!Worker(0, 0) \in Fields
        /\ Queries!Worker(Queries!None, Queries!None) \in Fields
    BY QueriesTypes, NamesFacts DEF Queries!Worker, Fields
  <2> QED
    BY <1>4, <1>5, <2>1, NamesFacts DEF WorkersTyped
<1>7. ThreadsTyped'
  <2>1. query' \in 0 .. MaxQueries /\ tasks' \subseteq 0 .. nrThreads - 1
    BY <1>0, <1>2
  <2>2. team' \in 0 .. Queries!None /\ foreign' \in BOOLEAN
    BY <1>0, <1>1 DEF ThreadsTyped
  <2> QED
    BY <1>0, <1>1, <2>1, <2>2, ThreadsKept
<1>8. Owners' = {}
  <2>1. \A t \in Workers : thisWorker[t][1] <= query /\ thisWorker[t][1] \in Nat
    BY <1>1, NamesFacts DEF AtDriver, ThreadsTyped
  <2> QED
    BY <1>0, <1>2, <2>1 DEF Owners
<1>9. InCompiled'
  <2>1. ASSUME NEW t \in Workers PROVE before'[t][1] < query'
    <3>1. thisWorker[t][1] \in Nat /\ thisWorker[t][1] <= query
      BY <1>1, NamesFacts DEF AtDriver, ThreadsTyped
    <3>2. before'[t] = thisWorker[t]
      BY <1>0
    <3> QED
      BY <1>0, <1>2, <3>1, <3>2
  <2> QED
    BY <1>0, <1>1, <1>2, <1>5, <1>8, <2>1 DEF InCompiled, AtDriver, Queries!AllIdle, Queries!Idle
<1>10. InInit'
  <2>1. Cardinality(tasks') = nrThreads /\ Cardinality({}) = 0
    BY <1>0, QueriesSets
  <2>2. Cardinality(tasks') + Cardinality(Owners') = nrThreads
    BY <1>8, <2>1, QueriesNumbers
  <2> QED
    BY <1>0, <1>1, <1>8, <2>2 DEF InInit, AtDriver, Queries!AllIdle, Queries!Idle
<1> QED
  BY <1>0, <1>1, <1>6, <1>7, <1>9, <1>10, QueriesTypes DEF QueriesInv

\* An iteration of initQuery gives a thread that has none a worker of the query.
LEMMA InitIterationInv ==
  ASSUME QueriesInv, NEW t \in Workers, Queries!InitIteration(t)
  PROVE  QueriesInv'
<1>0. /\ phase = "init" /\ at[t] = "idle"
      /\ at' = [at EXCEPT ![t] = "loop barrier"]
      /\ UNCHANGED <<phase, query, previous, team, before, foreign>>
  BY DEF Queries!InitIteration, Queries!Idle, Queries!Goto
<1>1. PICK i \in tasks :
        /\ tasks' = tasks \ {i}
        /\ worker' = [worker EXCEPT ![<<query, i>>].previousWorker = thisWorker[t],
                                    ![<<query, i>>].source = query]
        /\ thisWorker' = [thisWorker EXCEPT ![t] = <<query, i>>]
  BY DEF Queries!InitIteration
<1>2. InCompiled /\ InInit /\ WorkersTyped /\ ThreadsTyped /\ ~foreign /\ Queries!TypeOK
  BY <1>0, QueriesTypes DEF QueriesInv
<1> DEFINE name == <<query, i>>
<1>3. /\ i \in 0 .. nrThreads - 1 /\ name \in NamesOf(0 .. nrThreads - 1) /\ name \in NamesOf(tasks)
      /\ name \in Queries!Live /\ name \in Queries!WorkerNames
      /\ name # Queries!mainWorker /\ name[1] = query
  BY <1>2, OwnersNames DEF ThreadsTyped, NamesOf, InCompiled
<1>4. t \notin Owners /\ thisWorker[t] = before[t] /\ \A u \in Owners : thisWorker[u] # name
  BY <1>0, <1>1, <1>2, <1>3 DEF InInit, InCompiled
<1> HIDE DEF name
<1>5. /\ worker' = [worker EXCEPT ![name].previousWorker = thisWorker[t], ![name].source = query]
      /\ thisWorker' = [thisWorker EXCEPT ![t] = name]
  BY <1>1 DEF name
<1>6. /\ Queries!Live' = Queries!Live
      /\ \A n \in Queries!Live : n # name => worker'[n] = worker[n]
      /\ worker'[name] = [worker[name] EXCEPT !.previousWorker = thisWorker[t], !.source = query]
  BY <1>3, <1>5 DEF Queries!Live
<1>7. /\ worker'[name] \in Fields
      /\ worker'[name].previousWorker = before[t] /\ worker'[name].source = query
  <2>1. worker[name] \in Fields /\ thisWorker[t] \in Queries!WorkerNames /\ query \in 0 .. Queries!None
    BY <1>2, <1>3, QueriesTypes DEF WorkersTyped, ThreadsTyped
  <2> QED
    BY <1>4, <1>6, <2>1 DEF Fields
<1>8. WorkersTyped'
  BY <1>2, <1>6, <1>7 DEF WorkersTyped
<1>9. ThreadsTyped'
  <2>1. /\ phase' \in {"driver", "init", "compiled", "leave", "run"} /\ query' \in 0 .. MaxQueries
        /\ tasks' \subseteq 0 .. nrThreads - 1
    BY <1>0, <1>1, <1>2 DEF ThreadsTyped
  <2>2. team' \in 0 .. Queries!None /\ foreign' \in BOOLEAN /\ "loop barrier" \in Places
    BY <1>0, <1>2 DEF ThreadsTyped, Places
  <2> QED
    BY <1>0, <1>2, <1>3, <1>5, <2>1, <2>2, ThreadsKept
<1>10. /\ thisWorker'[t] = name /\ at'[t] = "loop barrier"
       /\ \A u \in Workers : u # t => UNCHANGED <<thisWorker[u], at[u]>>
  BY <1>0, <1>2, <1>5 DEF ThreadsTyped
<1>11. Owners' = Owners \cup {t}
  BY <1>0, <1>3, <1>10 DEF Owners
<1>12. \A u \in Workers : u # t => thisWorker[u] # name
  BY <1>3, <1>4 DEF Owners
<1>13. InCompiled'
  <2>1. NamesOf(0 .. nrThreads - 1)' = NamesOf(0 .. nrThreads - 1)
    BY <1>0 DEF NamesOf
  <2>2. worker'[Queries!mainWorker] = worker[Queries!mainWorker]
    BY <1>2, <1>3, <1>6 DEF InCompiled
  <2>3. ASSUME NEW u \in Workers
        PROVE  /\ u \notin Owners' => thisWorker'[u] = before[u]
               /\ u \in Owners' =>
                    /\ worker'[thisWorker'[u]].previousWorker = before[u]
                    /\ worker'[thisWorker'[u]].source = query
                    /\ \A v \in Workers : v # u => thisWorker'[v] # thisWorker'[u]
    <3>1. CASE u = t
      BY <1>7, <1>10, <1>11, <1>12, <3>1
    <3>2. CASE u # t
      <4>1. u \in Owners => thisWorker[u] \in Queries!Live
        BY <1>2, OwnersNames DEF InCompiled
      <4>2. thisWorker'[u] = thisWorker[u] /\ thisWorker[u] # name
        BY <1>10, <1>12, <3>2
      <4>3. u \in Owners => worker'[thisWorker'[u]] = worker[thisWorker[u]]
        BY <1>6, <4>1, <4>2
      <4>4. ASSUME NEW v \in Workers, v # u, u \in Owners
            PROVE  thisWorker'[v] # thisWorker'[u]
        <5>1. CASE v = t
          BY <1>10, <4>2, <5>1
        <5>2. CASE v # t
          <6>1. thisWorker[v] # thisWorker[u]
            BY <1>2, <4>4 DEF InCompiled
          <6> QED
            BY <1>10, <4>2, <5>2, <6>1
        <5> QED
          BY <5>1, <5>2
      <4> QED
        BY <1>2, <1>11, <3>2, <4>2, <4>3, <4>4 DEF InCompiled
    <3> QED
      BY <3>1, <3>2
  <2> QED
    BY <1>0, <1>2, <1>6, <1>10, <2>1, <2>2, <2>3 DEF InCompiled
<1>14. InInit'
  <2>1. Cardinality(tasks') + Cardinality(Owners') = nrThreads
    <3>1. Cardinality(tasks') = Cardinality(tasks) - 1
      BY <1>1, <1>2, QueriesSets DEF ThreadsTyped
    <3>2. Cardinality(Owners') = Cardinality(Owners) + 1
      <4>1. IsFiniteSet(Owners)
        BY QueriesSets DEF Owners
      <4> QED
        BY <1>4, <1>11, <4>1, FS_AddElement
    <3>3. Cardinality(tasks) \in Nat /\ Cardinality(Owners) \in Nat
      BY <1>2, QueriesSets DEF ThreadsTyped, Owners
    <3>4. Cardinality(tasks) + Cardinality(Owners) = nrThreads
      BY <1>2 DEF InInit
    <3> QED
      BY <3>1, <3>2, <3>3, <3>4
  <2>2. \A u \in Owners' : thisWorker'[u] \notin NamesOf(tasks)'
    <3>1. NamesOf(tasks)' = NamesOf(tasks) \ {name}
      <4>1. NamesOf(tasks)' = {<<query, j>> : j \in tasks'}
        BY <1>0 DEF NamesOf
      <4> QED
        BY <1>1, <4>1 DEF NamesOf, name
    <3>2. ASSUME NEW u \in Owners' PROVE thisWorker'[u] \notin NamesOf(tasks)'
      <4>1. CASE u = t
        BY <1>10, <3>1, <4>1
      <4>2. CASE u # t
        BY <1>2, <1>10, <1>11, <3>1, <4>2 DEF InInit, Owners
      <4> QED
        BY <4>1, <4>2
    <3> QED
      BY <3>2
  <2>3. \A u \in Workers : at'[u] = "loop barrier" <=> u \in Owners'
    BY <1>1, <1>2, <1>10, <1>11 DEF InInit
  <2> QED
    BY <2>1, <2>2, <2>3 DEF InInit
<1> QED
  BY <1>0, <1>2, <1>8, <1>9, <1>13, <1>14, QueriesTypes DEF QueriesInv

\* A thread may go on when all iterations have been taken.
LEMMA PassLoopBarrierInv ==
  ASSUME QueriesInv, NEW t \in Workers, Queries!PassLoopBarrier(t)
  PROVE  QueriesInv'
<1>0. /\ at[t] = "loop barrier" /\ tasks = {} /\ at' = [at EXCEPT ![t] = "idle"]
      /\ UNCHANGED <<phase, query, worker, thisWorker, tasks, previous, team, before, foreign>>
  BY DEF Queries!PassLoopBarrier, Queries!Goto
<1>1. WorkersTyped /\ ThreadsTyped /\ ~foreign
  BY QueriesTypes DEF QueriesInv
<1>2. phase \in {"init", "leave"}
  BY <1>0, <1>1 DEF QueriesInv, ThreadsTyped, AtDriver, InRun, InPlace, Queries!AllIdle, Queries!Idle
<1>3. WorkersTyped' /\ ThreadsTyped'
  <2>1. WorkersTyped'
    BY <1>0, <1>1 DEF WorkersTyped, Queries!Live
  <2> QED
    BY <1>0, <1>1, <2>1 DEF ThreadsTyped
<1>4. \A u \in Workers : at'[u] \in {"idle", "loop barrier"}
  BY <1>0, <1>1, <1>2 DEF ThreadsTyped, QueriesInv, InCompiled
<1>5. InCompiled'
  <2>1. InCompiled
    BY <1>2 DEF QueriesInv
  <2>2. /\ NamesOf(0 .. nrThreads - 1)' = NamesOf(0 .. nrThreads - 1)
        /\ Owners' = Owners /\ Queries!Live' = Queries!Live
    BY <1>0 DEF NamesOf, Owners, Queries!Live
  <2> QED
    BY <1>0, <1>4, <2>1, <2>2 DEF InCompiled
<1>6. (phase = "init" => InInit') /\ (phase = "leave" => InLeave')
  BY <1>0 DEF QueriesInv, InInit, InLeave, Owners, NamesOf
<1> QED
  BY <1>0, <1>1, <1>2, <1>3, <1>5, <1>6, QueriesTypes DEF QueriesInv

LEMMA ThreadFacts ==
  ASSUME ThreadsTyped
  PROVE  /\ query \in Nat
         /\ \A t \in Workers : /\ thisWorker[t] \in Queries!WorkerNames /\ thisWorker[t][1] \in Nat
                               /\ before[t] \in Queries!WorkerNames /\ before[t][1] \in Nat
<1>1. query \in Nat
  <2>1. query \in 0 .. MaxQueries
    BY DEF ThreadsTyped
  <2> QED
    BY <2>1, QueriesNumbers
<1>2. \A t \in Workers : thisWorker[t] \in Queries!WorkerNames /\ before[t] \in Queries!WorkerNames
  BY DEF ThreadsTyped
<1> QED
  BY <1>1, <1>2, NamesFacts

\* What a step leaves alone.
LEMMA QueriesFrame ==
  /\ UNCHANGED query => \A i, j : NamesOf(i .. j)' = NamesOf(i .. j)
  /\ UNCHANGED <<query, tasks>> => NamesOf(tasks)' = NamesOf(tasks)
  /\ UNCHANGED <<query, thisWorker>> => Owners' = Owners
  /\ UNCHANGED worker => Queries!Live' = Queries!Live
  /\ UNCHANGED worker /\ WorkersTyped => WorkersTyped'
<1>1. UNCHANGED query => \A i, j : NamesOf(i .. j)' = NamesOf(i .. j)
  BY DEF NamesOf
<1>2. UNCHANGED <<query, tasks>> => NamesOf(tasks)' = NamesOf(tasks)
  BY DEF NamesOf
<1>3. UNCHANGED worker => Queries!Live' = Queries!Live /\ (WorkersTyped => WorkersTyped')
  BY DEF Queries!Live, WorkersTyped
<1>4. UNCHANGED <<query, thisWorker>> => Owners' = Owners
  BY DEF Owners
<1> QED
  BY <1>1, <1>2, <1>3, <1>4

\* All iterations of initQuery have run: each thread has a worker.
LEMMA InitOverInv ==
  ASSUME QueriesInv, Queries!InitOver
  PROVE  QueriesInv'
<1>0. /\ phase = "init" /\ tasks = {} /\ Queries!AllIdle /\ phase' = "compiled"
      /\ UNCHANGED <<query, worker, thisWorker, tasks, at, previous, team, before, foreign>>
  BY DEF Queries!InitOver
<1>1. InCompiled /\ InInit /\ WorkersTyped /\ ThreadsTyped /\ ~foreign
  BY <1>0, QueriesTypes DEF QueriesInv
<1>2. Owners = Workers
  <2>1. Cardinality(tasks) = 0 /\ Cardinality(Owners) \in Nat
    BY <1>0, QueriesSets DEF Owners
  <2>2. Cardinality(tasks) + Cardinality(Owners) = nrThreads
    BY <1>1 DEF InInit
  <2>3. Cardinality(Owners) = nrThreads
    BY <2>1, <2>2
  <2> QED
    BY <2>3, QueriesSets DEF Owners
<1>3. WorkersTyped' /\ ThreadsTyped'
  BY <1>0, <1>1, QueriesFrame, ThreadsKept DEF ThreadsTyped
<1>4. InCompiled'
  BY <1>0, <1>1, QueriesFrame DEF InCompiled
<1>5. tasks' = {} /\ Queries!AllIdle' /\ Owners' = Workers
  BY <1>0, <1>2, QueriesFrame DEF Queries!AllIdle, Queries!Idle
<1> QED
  BY <1>0, <1>1, <1>3, <1>4, <1>5, QueriesTypes DEF QueriesInv

LEMMA BeginLeaveInv ==
  ASSUME QueriesInv, Queries!BeginLeave
  PROVE  QueriesInv'
<1>0. /\ phase = "compiled" /\ phase' = "leave" /\ tasks' = 0 .. nrThreads - 1
      /\ UNCHANGED <<query, worker, thisWorker, at, previous, team, before, foreign>>
  BY DEF Queries!BeginLeave
<1>1. /\ InCompiled /\ Queries!AllIdle /\ Owners = Workers
      /\ WorkersTyped /\ ThreadsTyped /\ ~foreign
  BY <1>0, QueriesTypes DEF QueriesInv
<1>2. WorkersTyped' /\ ThreadsTyped'
  BY <1>0, <1>1, QueriesFrame, ThreadsKept DEF ThreadsTyped
<1>3. InCompiled'
  BY <1>0, <1>1, QueriesFrame DEF InCompiled
<1>4. InLeave'
  <2>1. Owners' = Workers /\ Cardinality(tasks') = Cardinality(Owners')
    BY <1>0, <1>1, QueriesSets, QueriesFrame
  <2> QED
    BY <1>0, <1>1, <2>1 DEF InLeave, Queries!AllIdle, Queries!Idle
<1> QED
  BY <1>0, <1>1, <1>2, <1>3, <1>4, QueriesTypes DEF QueriesInv

\* An iteration of leaveQuery gives the thread back the worker it had before.
LEMMA LeaveIterationInv ==
  ASSUME QueriesInv, NEW t \in Workers, Queries!LeaveIteration(t)
  PROVE  QueriesInv'
<1>0. /\ phase = "leave" /\ at[t] = "idle"
      /\ foreign' = (foreign \/ thisWorker[t] \notin Queries!OfQuery)
      /\ thisWorker' = [thisWorker EXCEPT ![t] =
           IF thisWorker[t] \in Queries!Live THEN worker[thisWorker[t]].previousWorker
           ELSE Queries!NoWorker]
      /\ at' = [at EXCEPT ![t] = "loop barrier"]
      /\ UNCHANGED <<phase, query, worker, previous, team, before>>
  BY DEF Queries!LeaveIteration, Queries!Idle, Queries!Goto
<1>1. PICK i \in tasks : tasks' = tasks \ {i}
  BY DEF Queries!LeaveIteration
<1>2. InCompiled /\ InLeave /\ WorkersTyped /\ ThreadsTyped /\ ~foreign /\ Queries!TypeOK
  BY <1>0, QueriesTypes DEF QueriesInv
<1>3. t \in Owners
  BY <1>0, <1>1, <1>2 DEF InLeave
<1>4. /\ thisWorker[t] \in Queries!Live /\ thisWorker[t] \in Queries!OfQuery
      /\ worker[thisWorker[t]].previousWorker = before[t]
  <2>1. thisWorker[t] \in NamesOf(0 .. nrThreads - 1)
    BY <1>2, <1>3, OwnersNames DEF InCompiled
  <2>2. thisWorker[t] \in Queries!Live /\ thisWorker[t][1] = query /\ thisWorker[t] # Queries!mainWorker
    BY <1>2, <2>1, OwnersNames DEF InCompiled
  <2> QED
    BY <1>2, <1>3, <2>2 DEF InCompiled, Queries!OfQuery
<1>5. /\ foreign' = FALSE /\ thisWorker' = [thisWorker EXCEPT ![t] = before[t]]
      /\ before[t] \in Queries!WorkerNames /\ before[t][1] < query
  BY <1>0, <1>2, <1>4 DEF InCompiled, ThreadsTyped
<1>6. /\ thisWorker'[t] = before[t] /\ at'[t] = "loop barrier"
      /\ \A u \in Workers : u # t => UNCHANGED <<thisWorker[u], at[u]>>
  BY <1>0, <1>2, <1>5 DEF ThreadsTyped
<1>7. Owners' = Owners \ {t}
  <2>1. query \in Nat /\ before[t][1] \in Nat
    BY <1>2, ThreadFacts
  <2>2. before[t][1] # query
    BY <1>5, <2>1
  <2> QED
    BY <1>0, <1>6, <2>2 DEF Owners
<1>8. WorkersTyped' /\ ThreadsTyped'
  <2>1. tasks' \subseteq 0 .. nrThreads - 1 /\ "loop barrier" \in Places /\ foreign' \in BOOLEAN
    BY <1>1, <1>2, <1>5 DEF ThreadsTyped, Places
  <2>2. /\ phase' \in {"driver", "init", "compiled", "leave", "run"} /\ query' \in 0 .. MaxQueries
        /\ team' \in 0 .. Queries!None
    BY <1>0, <1>2 DEF ThreadsTyped
  <2> QED
    BY <1>0, <1>2, <1>5, <2>1, <2>2, QueriesFrame, ThreadsKept
<1>9. InCompiled'
  <2>1. ASSUME NEW u \in Workers
        PROVE  /\ u \notin Owners' => thisWorker'[u] = before[u]
               /\ u \in Owners' => \A v \in Workers : v # u => thisWorker'[v] # thisWorker'[u]
    <3>1. CASE u = t
      BY <1>6, <1>7, <3>1
    <3>2. CASE u # t
      <4>1. u \notin Owners' => thisWorker'[u] = before[u]
        BY <1>2, <1>6, <1>7, <3>2 DEF InCompiled
      <4>2. ASSUME u \in Owners', NEW v \in Workers, v # u
            PROVE  thisWorker'[v] # thisWorker'[u]
        <5>1. u \in Owners /\ thisWorker'[u] = thisWorker[u] /\ thisWorker[u][1] = query
          BY <1>6, <1>7, <3>2, <4>2 DEF Owners
        <5>2. thisWorker[v] # thisWorker[u]
          BY <1>2, <4>2, <5>1 DEF InCompiled
        <5>3. query \in Nat /\ before[t][1] \in Nat
          BY <1>2, ThreadFacts
        <5>4. before[t] # thisWorker[u]
          BY <1>5, <5>1, <5>3
        <5> QED
          BY <1>6, <4>2, <5>1, <5>2, <5>4
      <4> QED
        BY <4>1, <4>2
    <3> QED
      BY <3>1, <3>2
  <2>2. ASSUME NEW u \in Workers, u \in Owners'
        PROVE  /\ worker'[thisWorker'[u]].previousWorker = before[u]
               /\ worker'[thisWorker'[u]].source = query
    BY ZenonT(60), <1>0, <1>2, <1>6, <1>7, <2>2 DEF InCompiled
  <2>3. \A u \in Workers : at'[u] \in {"idle", "loop barrier"}
    BY <1>2, <1>6 DEF InCompiled
  <2>4. /\ NamesOf(0 .. nrThreads - 1)' = NamesOf(0 .. nrThreads - 1)
        /\ Queries!Live' = Queries!Live
    BY <1>0, QueriesFrame
  <2> QED
    BY ZenonT(60), <1>0, <1>2, <2>1, <2>2, <2>3, <2>4 DEF InCompiled
<1>10. InLeave'
  <2>1. Cardinality(tasks') = Cardinality(tasks) - 1
    BY <1>1, <1>2, QueriesSets DEF ThreadsTyped
  <2>2. Cardinality(Owners') = Cardinality(Owners) - 1
    <3>1. IsFiniteSet(Owners)
      BY QueriesSets DEF Owners
    <3> QED
      BY <1>3, <1>7, <3>1, FS_RemoveElement
  <2>3. \A u \in Workers : at'[u] = "loop barrier" <=> u \notin Owners'
    BY <1>1, <1>2, <1>6, <1>7 DEF InLeave
  <2> QED
    BY <1>2, <2>1, <2>2, <2>3 DEF InLeave
<1> QED
  BY <1>0, <1>2, <1>5, <1>8, <1>9, <1>10, QueriesTypes DEF QueriesInv

\* When leaveQuery has run, each thread has the worker it had before.
LEMMA AllBack ==
  ASSUME QueriesInv, phase = "leave", tasks = {}
  PROVE  Owners = {} /\ thisWorker = before
<1>1. InCompiled /\ InLeave /\ ThreadsTyped
  BY QueriesTypes DEF QueriesInv
<1>2. Cardinality(Owners) = Cardinality(tasks) /\ Cardinality(tasks) = 0
  BY <1>1, QueriesSets DEF InLeave
<1>3. Owners = {}
  BY <1>2, QueriesSets DEF Owners
<1>4. \A t \in Workers : thisWorker[t] = before[t]
  BY <1>1, <1>3 DEF InCompiled
<1>5. thisWorker \in [Workers -> Queries!WorkerNames] /\ before \in [Workers -> Queries!WorkerNames]
  BY <1>1 DEF ThreadsTyped
<1> QED
  BY <1>3, <1>4, <1>5

LEMMA EndCompiledInv ==
  ASSUME QueriesInv, Queries!EndCompiled
  PROVE  QueriesInv'
<1>0. /\ phase = "leave" /\ tasks = {} /\ Queries!AllIdle /\ phase' = "driver"
      /\ worker' = [w \in Queries!Live \ Queries!OfQuery |-> worker[w]]
      /\ UNCHANGED <<query, thisWorker, tasks, at, previous, team, before, foreign>>
  BY DEF Queries!EndCompiled, Queries!Drop
<1>1. InCompiled /\ WorkersTyped /\ ThreadsTyped /\ ~foreign /\ Queries!TypeOK
  BY <1>0, QueriesTypes DEF QueriesInv
<1>2. /\ Queries!mainWorker \in Queries!Live \ Queries!OfQuery
      /\ Queries!Live \ Queries!OfQuery = {Queries!mainWorker}
  BY <1>1, OwnersNames DEF InCompiled, Queries!OfQuery
<1>3. Queries!Live' = {Queries!mainWorker} /\ worker'[Queries!mainWorker] = worker[Queries!mainWorker]
  BY <1>0, <1>2 DEF Queries!Live
<1>4. WorkersTyped' /\ ThreadsTyped'
  <2>1. WorkersTyped'
    BY <1>1, <1>2, <1>3 DEF WorkersTyped
  <2> QED
    BY <1>0, <1>1, <2>1, ThreadsKept DEF ThreadsTyped
<1>5. AtDriver'
  <2>1. \A t \in Workers :
          /\ thisWorker[t][1] <= query
          /\ thisWorker[t] = Queries!mainWorker <=> t = Main
    <3> SUFFICES ASSUME NEW t \in Workers
                 PROVE  thisWorker[t][1] <= query /\ (thisWorker[t] = Queries!mainWorker <=> t = Main)
      OBVIOUS
    <3>1. thisWorker[t] = before[t]
      BY <1>0, AllBack
    <3>2. query \in Nat /\ before[t][1] \in Nat
      BY <1>1, ThreadFacts
    <3>3. before[t][1] < query /\ (before[t] = Queries!mainWorker <=> t = Main)
      BY <1>1 DEF InCompiled
    <3> QED
      BY <3>1, <3>2, <3>3
  <2>2. worker'[Queries!mainWorker] = Queries!Worker(0, 0) /\ Queries!AllIdle'
    BY <1>0, <1>1, <1>3 DEF InCompiled, Queries!AllIdle, Queries!Idle
  <2> QED
    BY <1>0, <1>3, <2>1, <2>2 DEF AtDriver
<1> QED
  BY <1>0, <1>1, <1>4, <1>5, QueriesTypes DEF QueriesInv

\* A thread that works for a compiled query has a worker to itself.
LEMMA MorselInv ==
  ASSUME QueriesInv, NEW t \in Workers, Queries!Morsel(t)
  PROVE  QueriesInv'
<1>0. /\ phase = "compiled" /\ foreign' = (foreign \/ ~Queries!Uses(t))
      /\ UNCHANGED <<phase, query, worker, thisWorker, tasks, at, previous, team, before>>
  BY DEF Queries!Morsel
<1>1. /\ InCompiled /\ tasks = {} /\ Queries!AllIdle /\ Owners = Workers
      /\ WorkersTyped /\ ThreadsTyped /\ ~foreign /\ Queries!TypeOK
  BY <1>0, QueriesTypes DEF QueriesInv
<1>2. Queries!Uses(t)
  <2>1. thisWorker[t] \in NamesOf(0 .. nrThreads - 1)
    BY <1>1, OwnersNames DEF InCompiled
  <2>2. thisWorker[t] \in Queries!Live
    BY <1>1, <2>1 DEF InCompiled
  <2>3. /\ worker[thisWorker[t]].source = query
        /\ \A u \in Workers : u # t => thisWorker[u] # thisWorker[t]
    BY <1>1 DEF InCompiled
  <2> QED
    BY <2>2, <2>3 DEF Queries!Uses
<1>3. WorkersTyped' /\ ThreadsTyped'
  BY <1>0, <1>1, <1>2, QueriesFrame, ThreadsKept DEF ThreadsTyped
<1>4. InCompiled' /\ tasks' = {} /\ Queries!AllIdle' /\ Owners' = Workers
  BY ZenonT(60), <1>0, <1>1, QueriesFrame DEF InCompiled, Queries!AllIdle, Queries!Idle
<1> QED
  BY <1>0, <1>1, <1>2, <1>3, <1>4, QueriesTypes DEF QueriesInv

\* A vectorwise query begins with the first worker only.
LEMMA BeginRunInv ==
  ASSUME QueriesInv, Queries!BeginRun
  PROVE  QueriesInv'
<1>0. /\ phase = "driver" /\ query < MaxQueries
      /\ query' = query + 1 /\ phase' = "run" /\ before' = thisWorker
      /\ at' = [at EXCEPT ![Main] = "spawn"]
      /\ UNCHANGED <<worker, thisWorker, tasks, previous, team, foreign>>
  BY DEF Queries!BeginRun, Queries!Begin, Queries!Goto
<1>1. AtDriver /\ WorkersTyped /\ ThreadsTyped /\ ~foreign
  BY <1>0, QueriesTypes DEF QueriesInv
<1>2. query \in Nat /\ query' \in 0 .. MaxQueries /\ query' > 0
  BY <1>0, <1>1, ThreadFacts, QueriesNumbers
<1>3. WorkersTyped' /\ ThreadsTyped'
  <2>1. "spawn" \in Places /\ team' \in 0 .. Queries!None /\ foreign' \in BOOLEAN
    BY <1>0, <1>1 DEF Places, ThreadsTyped
  <2>2. tasks' \subseteq 0 .. nrThreads - 1
    BY <1>0, <1>1 DEF ThreadsTyped
  <2> QED
    BY <1>0, <1>1, <1>2, <2>1, <2>2, QueriesFrame, QueriesNumbers, ThreadsKept
<1>4. at'[Main] = "spawn" /\ \A t \in Workers : t # Main => at'[t] = "idle"
  BY <1>0, <1>1, QueriesNumbers DEF ThreadsTyped, AtDriver, Queries!AllIdle, Queries!Idle
<1>5. \A t \in Workers : /\ thisWorker'[t][1] < query' /\ thisWorker'[t][1] <= query'
                         /\ thisWorker'[t][1] # query'
                         /\ thisWorker'[t] = Queries!mainWorker <=> t = Main
  <2> SUFFICES ASSUME NEW t \in Workers
               PROVE  /\ thisWorker'[t][1] < query' /\ thisWorker'[t][1] <= query'
                      /\ thisWorker'[t][1] # query'
                      /\ thisWorker'[t] = Queries!mainWorker <=> t = Main
    OBVIOUS
  <2>1. thisWorker[t][1] \in Nat /\ thisWorker[t][1] <= query
    BY <1>1, ThreadFacts DEF AtDriver
  <2>2. thisWorker[t] = Queries!mainWorker <=> t = Main
    BY <1>1 DEF AtDriver
  <2> QED
    BY <1>0, <1>2, <2>1, <2>2
<1>6. Owners' = {}
  BY <1>5 DEF Owners
<1>7. Made(0)'
  <2>1. \A i, j : NamesOf(i .. j)' = {<<query', n>> : n \in i .. j}
    BY DEF NamesOf
  <2>2. NamesOf(0 .. 0 - 1)' = {} /\ 0 .. 0 - 1 = {}
    BY <2>1
  <2> QED
    BY <1>0, <1>1, <2>2, QueriesFrame DEF Made, AtDriver
<1>8. \A t \in Workers : InPlace(t)' /\ OwnWorker(t)'
  <2>1. \A t \in Workers : InPlace(t)'
    BY <1>4, <1>6 DEF InPlace
  <2>2. \A t \in Workers : OwnWorker(t)'
    BY <1>5, <1>6 DEF OwnWorker
  <2> QED
    BY <2>1, <2>2
<1>9. MainLent'
  BY <1>0, <1>1, <1>4 DEF MainLent, LentGroup, LentSource, AtDriver, Queries!Worker
<1>10. InRun'
  <2>1. 0 \in 0 .. nrThreads - 1
    BY QueriesNumbers
  <2>2. \A w \in Queries!Live' : w = Queries!mainWorker
    BY <1>0, <1>1, QueriesFrame DEF AtDriver
  <2> QED
    BY <1>2, <1>7, <1>8, <1>9, <2>1, <2>2 DEF InRun
<1> QED
  BY <1>0, <1>1, <1>3, <1>10, QueriesTypes DEF QueriesInv

\* Only in run does a thread stand where run, the plan or their ends put it.
LEMMA InRunNow ==
  ASSUME QueriesInv
  PROVE  /\ WorkersTyped /\ ThreadsTyped /\ ~foreign /\ Queries!TypeOK
         /\ \A t \in Workers :
              at[t] \in {"spawn", "participate", "plan", "last barrier", "leave", "restore"}
                => phase = "run" /\ InRun
         /\ phase = "run" => InRun
<1>1. WorkersTyped /\ ThreadsTyped /\ ~foreign /\ Queries!TypeOK /\ (phase = "run" => InRun)
  BY QueriesTypes DEF QueriesInv
<1>2. ASSUME NEW t \in Workers, phase # "run"
      PROVE  at[t] \in {"idle", "loop barrier"}
  <2>1. phase \in {"driver", "init", "compiled", "leave"}
    BY <1>1, <1>2 DEF ThreadsTyped
  <2>2. CASE phase = "driver"
    BY <2>2 DEF QueriesInv, AtDriver, Queries!AllIdle, Queries!Idle
  <2>3. CASE phase # "driver"
    BY <2>1, <2>3 DEF QueriesInv, InCompiled
  <2> QED
    BY <2>2, <2>3
<1> QED
  BY <1>1, <1>2

\* A thread at work in run has a worker that no other thread has.
LEMMA AtWork ==
  ASSUME QueriesInv, InRun, NEW t \in Workers, at[t] # "idle"
  PROVE  /\ thisWorker[t] \in Queries!Live /\ thisWorker[t] \in Queries!WorkerNames
         /\ \A u \in Workers : u # t => thisWorker[u] # thisWorker[t]
         /\ thisWorker[t] = Queries!mainWorker <=> t = Main
<1>1. Queries!mainWorker \in Queries!Live
  BY DEF InRun, Made
<1>2. \A u \in Workers : thisWorker[u] = Queries!mainWorker <=> u = Main
  BY DEF InRun, OwnWorker
<1>3. t = Main \/ t \in Owners
  BY DEF InRun, InPlace
<1>4. CASE t = Main
  BY <1>1, <1>2, <1>4, NamesFacts
<1>5. CASE t \in Owners
  <2>1. /\ thisWorker[t] \in Queries!Live
        /\ \A u \in Workers : u # t => thisWorker[u] # thisWorker[t]
    BY <1>5 DEF InRun, OwnWorker
  <2>2. thisWorker[t] \in Queries!WorkerNames
    BY <2>1, InRunNow DEF WorkersTyped
  <2> QED
    BY <1>2, <2>1, <2>2
<1> QED
  BY <1>3, <1>4, <1>5

\* The number of the workers made.
LEMMA SpawnedIs ==
  ASSUME QueriesInv, InRun, NEW s \in 0 .. nrThreads - 1, Made(s)
  PROVE  Queries!Spawned = s
<1>1. query \in 1 .. MaxQueries
  BY InRunNow, OwnersNames DEF InRun
<1>2. Queries!OfQuery = NamesOf(0 .. s - 1)
  <2>1. \A n \in NamesOf(0 .. s - 1) : n[1] = query /\ n # Queries!mainWorker
    <3>1. 0 .. s - 1 \subseteq 0 .. nrThreads - 1
      BY QueriesNumbers
    <3> QED
      BY <1>1, <3>1, NamesFacts DEF NamesOf
  <2> QED
    BY <2>1 DEF Made, Queries!OfQuery
<1>3. Cardinality(NamesOf(0 .. s - 1)) = Cardinality(0 .. s - 1)
  <2> DEFINE name == [i \in 0 .. s - 1 |-> <<query, i>>]
  <2>1. name \in Bijection(0 .. s - 1, NamesOf(0 .. s - 1))
    BY DEF Bijection, Injection, IsInjective, Surjection, NamesOf
  <2>2. IsFiniteSet(0 .. s - 1)
    BY FS_Interval, QueriesNumbers
  <2> HIDE DEF name
  <2>3. ExistsBijection(0 .. s - 1, NamesOf(0 .. s - 1))
    BY <2>1 DEF ExistsBijection
  <2> QED
    BY <2>2, <2>3, FS_Bijection
<1>4. Cardinality(0 .. s - 1) = s
  <2>1. s \in Nat
    BY QueriesNumbers
  <2>2. CASE s = 0
    <3>1. 0 .. s - 1 = {}
      BY <2>2
    <3> QED
      BY <2>2, <3>1, FS_EmptySet
  <2>3. CASE s # 0
    <3>1. 0 \in Int /\ s - 1 \in Int /\ ~(0 > s - 1) /\ (s - 1) - 0 + 1 = s
      BY <2>1, <2>3
    <3> QED
      BY <3>1, FS_Interval
  <2> QED
    BY <2>2, <2>3
<1>5. Queries!Cardinality(Queries!OfQuery) = Cardinality(Queries!OfQuery)
  BY DEF Queries!Cardinality, Cardinality
<1> QED
  BY <1>2, <1>3, <1>4, <1>5 DEF Queries!Spawned

\* While a thread has not come to the end of its plan, nobody passes the last barrier.
LEMMA NotOver ==
  ASSUME QueriesInv, InRun, ~Over
  PROVE  /\ \A t \in Workers : at[t] \notin {"leave", "restore", "idle"} \/ t \notin Owners \cup {Main}
         /\ \A t \in Workers : t \notin Owners \cup {Main} => at[t] = "idle"
BY DEF InRun, InPlace

LEMMA AllPlaces ==
  ASSUME ThreadsTyped, NEW t \in Workers, NEW p, at' = [at EXCEPT ![t] = p]
  PROVE  at'[t] = p /\ \A u \in Workers : u # t => at'[u] = at[u]
BY DEF ThreadsTyped

\* A step that changes a member of one worker.
LEMMA FieldSet ==
  ASSUME WorkersTyped, NEW n \in Queries!Live, NEW v \in 0 .. Queries!None,
         \/ worker' = [worker EXCEPT ![n].group = v]
         \/ worker' = [worker EXCEPT ![n].source = v]
  PROVE  /\ Queries!Live' = Queries!Live /\ WorkersTyped'
         /\ \A m \in Queries!Live : m # n => worker'[m] = worker[m]
         /\ worker' = [worker EXCEPT ![n].group = v] =>
              worker'[n] = [previousWorker |-> worker[n].previousWorker, group |-> v,
                            source |-> worker[n].source]
         /\ worker' = [worker EXCEPT ![n].source = v] =>
              worker'[n] = [previousWorker |-> worker[n].previousWorker, group |-> worker[n].group,
                            source |-> v]
<1>0. worker[n] \in Fields /\ worker[n] = [previousWorker |-> worker[n].previousWorker,
        group |-> worker[n].group, source |-> worker[n].source]
  BY DEF WorkersTyped, Fields
<1>1. Queries!Live' = Queries!Live /\ \A m \in Queries!Live : m # n => worker'[m] = worker[m]
  BY DEF Queries!Live
<1>2. ASSUME worker' = [worker EXCEPT ![n].group = v]
      PROVE  worker'[n] = [previousWorker |-> worker[n].previousWorker, group |-> v,
                            source |-> worker[n].source]
  <2>1. worker'[n] = [worker[n] EXCEPT !.group = v]
    BY <1>2 DEF Queries!Live
  <2> QED
    BY <1>0, <2>1 DEF Fields
<1>3. ASSUME worker' = [worker EXCEPT ![n].source = v]
      PROVE  worker'[n] = [previousWorker |-> worker[n].previousWorker, group |-> worker[n].group,
                            source |-> v]
  <2>1. worker'[n] = [worker[n] EXCEPT !.source = v]
    BY <1>3 DEF Queries!Live
  <2> QED
    BY <1>0, <2>1 DEF Fields
<1>4. worker'[n] \in Fields
  BY <1>0, <1>2, <1>3 DEF Fields
<1>5. WorkersTyped'
  BY <1>1, <1>4 DEF WorkersTyped, Fields
<1> QED
  BY <1>1, <1>2, <1>3, <1>5

\* One more worker and its task.
LEMMA SpawnInv ==
  ASSUME QueriesInv, Queries!Spawn
  PROVE  QueriesInv'
<1>0. /\ at[Main] = "spawn" /\ Queries!Spawned < nrThreads - 1
      /\ worker' = [w \in Queries!Live \cup {<<query, Queries!Spawned>>} |->
                      IF w \in Queries!Live THEN worker[w] ELSE Queries!Worker(query, Queries!None)]
      /\ tasks' = tasks \cup {Queries!Spawned}
      /\ UNCHANGED <<phase, query, thisWorker, at, previous, team, before, foreign>>
  BY DEF Queries!Spawn
<1>1. phase = "run" /\ InRun /\ WorkersTyped /\ ThreadsTyped /\ ~foreign /\ Queries!TypeOK
  BY <1>0, InRunNow, QueriesNumbers
<1>2. PICK s \in 0 .. nrThreads - 1 : Made(s) /\ Queries!Spawned = s
  BY <1>1, SpawnedIs DEF InRun
<1> DEFINE name == <<query, s>>
<1>3. s \in 0 .. nrThreads - 1 /\ s + 1 \in 0 .. nrThreads - 1 /\ 0 .. (s + 1) - 1 = (0 .. s - 1) \cup {s}
  BY <1>0, <1>2, QueriesNumbers
<1>4. name \in Queries!WorkerNames /\ name # Queries!mainWorker
  <2>1. query \in 1 .. MaxQueries
    BY <1>1, OwnersNames DEF InRun
  <2> QED
    BY <1>3, <2>1, NamesFacts
<1>5. name \notin Queries!Live /\ NamesOf(0 .. (s + 1) - 1) = NamesOf(0 .. s - 1) \cup {name}
      /\ NamesOf(tasks \cup {s}) = NamesOf(tasks) \cup {name}
  <2>1. NamesOf(0 .. (s + 1) - 1) = NamesOf(0 .. s - 1) \cup {name}
    BY <1>3 DEF NamesOf
  <2>2. NamesOf(tasks \cup {s}) = NamesOf(tasks) \cup {name}
    BY DEF NamesOf
  <2>3. name \notin NamesOf(0 .. s - 1)
    BY <1>3, QueriesNumbers DEF NamesOf
  <2> QED
    BY <1>2, <1>4, <2>1, <2>2, <2>3 DEF Made
<1>6. /\ worker' = [w \in Queries!Live \cup {name} |->
                      IF w \in Queries!Live THEN worker[w] ELSE Queries!Worker(query, Queries!None)]
      /\ tasks' = tasks \cup {s}
  BY <1>0, <1>2
<1> HIDE DEF name
<1>7. /\ Queries!Live' = Queries!Live \cup {name}
      /\ \A n \in Queries!Live : worker'[n] = worker[n]
      /\ worker'[name] = Queries!Worker(query, Queries!None)
  BY <1>5, <1>6 DEF Queries!Live
<1>8. WorkersTyped'
  <2>1. query \in 0 .. Queries!None /\ Queries!None \in 0 .. Queries!None
    BY <1>1, QueriesTypes DEF ThreadsTyped
  <2>2. Queries!Worker(query, Queries!None) \in Fields
    BY <2>1, NamesFacts DEF Queries!Worker, Fields
  <2> QED
    BY <1>1, <1>4, <1>7, <2>2 DEF WorkersTyped
<1>9. ThreadsTyped'
  <2>1. tasks' \subseteq 0 .. nrThreads - 1
    BY <1>1, <1>3, <1>6 DEF ThreadsTyped
  <2> QED
    BY <1>0, <1>1, <2>1, ThreadsKept DEF ThreadsTyped
<1>10. ~Over /\ ~Over'
  BY <1>0, QueriesNumbers DEF Over
<1>11. Made(s + 1)'
  <2>1. NamesOf(0 .. (s + 1) - 1)' = NamesOf(0 .. (s + 1) - 1)
    BY <1>0, QueriesFrame
  <2>2. tasks' \subseteq 0 .. (s + 1) - 1
    BY <1>2, <1>3, <1>6 DEF Made
  <2> QED
    BY <1>2, <1>5, <1>7, <2>1, <2>2 DEF Made
<1>12. Owners' = Owners
  BY <1>0, QueriesFrame
<1>13. \A t \in Workers : InPlace(t)'
  <2> SUFFICES ASSUME NEW t \in Workers PROVE InPlace(t)'
    OBVIOUS
  <2>1. InPlace(t) /\ (at[t] # "idle" => thisWorker[t] \in Queries!Live)
    BY <1>1, AtWork DEF InRun
  <2>2. at'[t] = at[t] /\ thisWorker'[t] = thisWorker[t]
    BY <1>0
  <2>3. at[t] # "idle" => worker'[thisWorker'[t]] = worker[thisWorker[t]]
    BY <1>7, <2>1, <2>2
  <2> QED
    BY <1>0, <1>10, <1>12, <2>1, <2>2, <2>3 DEF InPlace
<1>14. \A t \in Workers : OwnWorker(t)'
  <2> SUFFICES ASSUME NEW t \in Workers PROVE OwnWorker(t)'
    OBVIOUS
  <2>1. OwnWorker(t)
    BY <1>1 DEF InRun
  <2>2. NamesOf(tasks)' = NamesOf(tasks) \cup {name}
    <3>1. NamesOf(tasks)' = NamesOf(tasks \cup {s})
      BY <1>0, <1>6 DEF NamesOf
    <3> QED
      BY <1>5, <3>1
  <2> QED
    BY <1>0, <1>5, <1>7, <1>12, <2>1, <2>2 DEF OwnWorker
<1>15. MainLent'
  <2>1. worker'[Queries!mainWorker] = worker[Queries!mainWorker]
    BY <1>2, <1>7 DEF Made
  <2> QED
    BY <1>0, <1>1, <2>1 DEF InRun, MainLent, LentGroup, LentSource
<1>16. InRun'
  <2>1. \A w \in Queries!Live' : w # Queries!mainWorker => worker'[w].group = query
    BY <1>1, <1>7 DEF InRun, Queries!Worker
  <2> QED
    BY <1>0, <1>1, <1>3, <1>11, <1>13, <1>14, <1>15, <2>1 DEF InRun
<1> QED
  BY <1>0, <1>1, <1>8, <1>9, <1>16, QueriesTypes DEF QueriesInv

\* A thread that waits for work takes a task of the group, and the worker with it.
LEMMA StartWorkerInv ==
  ASSUME QueriesInv, NEW t \in Workers, Queries!StartWorker(t)
  PROVE  QueriesInv'
<1>0. /\ phase = "run" /\ at[t] = "idle" /\ at' = [at EXCEPT ![t] = "participate"]
      /\ UNCHANGED <<phase, query, worker, previous, team, before, foreign>>
  BY DEF Queries!StartWorker, Queries!Idle, Queries!Goto
<1>1. PICK i \in tasks :
        tasks' = tasks \ {i} /\ thisWorker' = [thisWorker EXCEPT ![t] = <<query, i>>]
  BY DEF Queries!StartWorker
<1>2. InRun /\ WorkersTyped /\ ThreadsTyped /\ ~foreign /\ Queries!TypeOK
  BY <1>0, InRunNow
<1>3. PICK s \in 0 .. nrThreads - 1 : Made(s)
  BY <1>2 DEF InRun
<1> DEFINE name == <<query, i>>
<1>4. /\ name \in Queries!Live /\ name \in NamesOf(tasks) /\ NamesOf(tasks \ {i}) = NamesOf(tasks) \ {name}
      /\ name[1] = query
  <2>1. name \in NamesOf(tasks) /\ name \in NamesOf(0 .. s - 1)
    BY <1>3 DEF NamesOf, Made
  <2>2. NamesOf(tasks \ {i}) = NamesOf(tasks) \ {name}
    BY NamesFacts DEF NamesOf
  <2> QED
    BY <1>3, <2>1, <2>2 DEF Made
<1>5. name \in Queries!WorkerNames /\ name # Queries!mainWorker
  <2>1. query \in 1 .. MaxQueries /\ i \in 0 .. nrThreads - 1
    BY <1>2, OwnersNames DEF InRun, ThreadsTyped
  <2> QED
    BY <2>1, NamesFacts
<1>6. thisWorker' = [thisWorker EXCEPT ![t] = name]
  BY <1>1
<1> HIDE DEF name
<1>7. ~Over /\ t \notin Owners \cup {Main}
  <2>1. ~Over
    BY <1>1 DEF Over
  <2> QED
    BY <1>0, <1>2, <2>1, NotOver
<1>8. /\ at'[t] = "participate" /\ thisWorker'[t] = name
      /\ \A u \in Workers : u # t => UNCHANGED <<thisWorker[u], at[u]>>
  BY <1>0, <1>2, <1>6, AllPlaces DEF ThreadsTyped
<1>9. Owners' = Owners \cup {t} /\ ~Over'
  BY <1>0, <1>4, <1>8 DEF Owners, Over
<1>10. WorkersTyped' /\ ThreadsTyped'
  <2>1. "participate" \in Places /\ tasks' \subseteq 0 .. nrThreads - 1
    BY <1>1, <1>2 DEF ThreadsTyped, Places
  <2>2. /\ phase' \in {"driver", "init", "compiled", "leave", "run"} /\ query' \in 0 .. MaxQueries
        /\ team' \in 0 .. Queries!None /\ foreign' \in BOOLEAN
    BY <1>0, <1>2 DEF ThreadsTyped
  <2> QED
    BY <1>0, <1>2, <1>5, <1>6, <2>1, <2>2, QueriesFrame, ThreadsKept
<1>11. Queries!Live' = Queries!Live /\ NamesOf(tasks)' = NamesOf(tasks) \ {name} /\ Made(s)'
  <2>1. NamesOf(tasks)' = NamesOf(tasks \ {i})
    BY <1>0, <1>1 DEF NamesOf
  <2>2. Queries!Live' = Queries!Live /\ NamesOf(0 .. s - 1)' = NamesOf(0 .. s - 1)
    BY <1>0, QueriesFrame
  <2> QED
    BY <1>1, <1>3, <1>4, <2>1, <2>2 DEF Made
<1>12. \A u \in Workers : InPlace(u)'
  <2> SUFFICES ASSUME NEW u \in Workers PROVE InPlace(u)'
    OBVIOUS
  <2>1. InPlace(u)
    BY <1>2 DEF InRun
  <2>2. CASE u = t
    BY <1>8, <1>9, <2>2 DEF InPlace
  <2>3. CASE u # t
    <3>1. at'[u] = at[u] /\ thisWorker'[u] = thisWorker[u] /\ (u \in Owners' <=> u \in Owners)
      BY <1>8, <1>9, <2>3
    <3> QED
      BY <1>0, <1>7, <1>9, <2>1, <3>1 DEF InPlace
  <2> QED
    BY <2>2, <2>3
<1>13. \A u \in Workers : OwnWorker(u)'
  <2> SUFFICES ASSUME NEW u \in Workers PROVE OwnWorker(u)'
    OBVIOUS
  <2>1. \A v \in Workers : OwnWorker(v)
    BY <1>2 DEF InRun
  <2>2. \A v \in Workers : v # t => thisWorker[v] # name
    BY <1>4, <2>1 DEF OwnWorker, Owners
  <2>3. CASE u = t
    <3>1. name[1] <= query /\ (thisWorker'[t] = Queries!mainWorker <=> t = Main)
      BY <1>2, <1>4, <1>5, <1>7, <1>8, ThreadFacts
    <3>2. \A v \in Workers : v # t => thisWorker'[v] # name
      BY <1>8, <2>2
    <3> QED
      BY <1>0, <1>4, <1>8, <1>11, <2>3, <3>1, <3>2 DEF OwnWorker
  <2>4. CASE u # t
    <3>1. thisWorker'[u] = thisWorker[u] /\ (u \in Owners' <=> u \in Owners) /\ OwnWorker(u)
      BY <1>8, <1>9, <2>1, <2>4
    <3>2. \A v \in Workers : v # u /\ u \in Owners => thisWorker'[v] # thisWorker[u]
      BY <1>8, <2>2, <2>4, <3>1 DEF OwnWorker
    <3> QED
      BY <1>0, <1>11, <3>1, <3>2 DEF OwnWorker
  <2> QED
    BY <2>3, <2>4
<1>14. InRun'
  <2>1. at'[Main] = at[Main]
    BY <1>7, <1>8, QueriesNumbers
  <2>2. MainLent'
    BY <1>0, <1>2, <2>1 DEF InRun, MainLent, LentGroup, LentSource
  <2> QED
    BY <1>0, <1>2, <1>11, <1>12, <1>13, <2>2 DEF InRun
<1> QED
  BY <1>0, <1>2, <1>10, <1>14, QueriesTypes DEF QueriesInv

\* The first worker's members, one by one.
LEMMA MainLentFacts ==
  ASSUME MainLent
  PROVE  /\ worker[Queries!mainWorker].previousWorker = Queries!NoWorker
         /\ worker[Queries!mainWorker].group = IF at[Main] \in {"spawn", "idle"} THEN 0 ELSE query
         /\ worker[Queries!mainWorker].source =
              IF at[Main] \in {"plan", "last barrier", "leave"} THEN query ELSE 0
         /\ at[Main] \notin {"spawn", "idle"} => team = 0
         /\ at[Main] \in {"plan", "last barrier", "leave"} => previous[Main] = 0
<1>1. /\ worker[Queries!mainWorker].previousWorker = Queries!NoWorker
      /\ worker[Queries!mainWorker].group = LentGroup
      /\ worker[Queries!mainWorker].source = LentSource
  <2>1. worker[Queries!mainWorker] =
          [previousWorker |-> Queries!NoWorker, group |-> LentGroup, source |-> LentSource]
    BY DEF MainLent
  <2>2. worker[Queries!mainWorker].previousWorker = Queries!NoWorker
    BY <2>1
  <2>3. worker[Queries!mainWorker].group = LentGroup
    BY <2>1
  <2>4. worker[Queries!mainWorker].source = LentSource
    BY <2>1
  <2> QED
    BY <2>2, <2>3, <2>4
<1> QED
  BY Zenon, <1>1 DEF MainLent, LentGroup, LentSource

LEMMA MainLentThen ==
  ASSUME NEW g, NEW v,
         worker'[Queries!mainWorker] =
           [previousWorker |-> Queries!NoWorker, group |-> g, source |-> v],
         g = IF at'[Main] \in {"spawn", "idle"} THEN 0 ELSE query',
         v = IF at'[Main] \in {"plan", "last barrier", "leave"} THEN query' ELSE 0,
         at'[Main] \notin {"spawn", "idle"} => team' = 0,
         at'[Main] \in {"plan", "last barrier", "leave"} => previous'[Main] = 0
  PROVE  MainLent'
BY Zenon DEF MainLent, LentGroup, LentSource, Queries!mainWorker, Queries!NoWorker

\* A step after which threads have the workers they had.
LEMMA RunKept ==
  ASSUME InRun, UNCHANGED <<query, thisWorker, tasks>>, Queries!Live' = Queries!Live,
         \A n \in Queries!Live : n # Queries!mainWorker => worker'[n].group = worker[n].group,
         \A t \in Workers : InPlace(t)', MainLent'
  PROVE  InRun'
<1>1. /\ Owners' = Owners /\ NamesOf(tasks)' = NamesOf(tasks)
      /\ \A i, j : NamesOf(i .. j)' = NamesOf(i .. j)
  BY QueriesFrame
<1>2. \A t \in Workers : OwnWorker(t)'
  BY <1>1 DEF InRun, OwnWorker
<1>3. \E s \in 0 .. nrThreads - 1 : Made(s)'
  BY <1>1 DEF InRun, Made
<1> QED
  BY <1>2, <1>3 DEF InRun

\* The place of a thread that does not move, when nobody leaves too early for it.
LEMMA PlaceKept ==
  ASSUME UNCHANGED <<query, thisWorker>>, NEW u \in Workers, InPlace(u), at'[u] = at[u],
         worker'[thisWorker[u]].source = worker[thisWorker[u]].source \/ at[u] = "idle",
         Over => Over'
  PROVE  InPlace(u)'
<1>1. Owners' = Owners
  BY QueriesFrame
<1> QED
  BY <1>1 DEF InPlace

\* The driver's thread joins the group with the first worker.
LEMMA JoinGroupInv ==
  ASSUME QueriesInv, Queries!JoinGroup
  PROVE  QueriesInv'
<1>0. /\ at[Main] = "spawn" /\ at' = [at EXCEPT ![Main] = "participate"]
      /\ team' = worker[thisWorker[Main]].group
      /\ worker' = [worker EXCEPT ![thisWorker[Main]].group = query]
      /\ UNCHANGED <<phase, query, thisWorker, tasks, previous, before, foreign>>
  BY DEF Queries!JoinGroup, Queries!Goto
<1>1. phase = "run" /\ InRun /\ WorkersTyped /\ ThreadsTyped /\ ~foreign /\ Queries!TypeOK
  BY <1>0, InRunNow, QueriesNumbers
<1>2. /\ thisWorker[Main] = Queries!mainWorker /\ Queries!mainWorker \in Queries!Live
      /\ \A u \in Workers : u # Main => thisWorker[u] # Queries!mainWorker
  BY <1>1, QueriesNumbers DEF InRun, OwnWorker, Made
<1>3. query \in 0 .. Queries!None
  BY <1>1, QueriesTypes DEF ThreadsTyped
<1>4. worker' = [worker EXCEPT ![Queries!mainWorker].group = query]
  BY <1>0, <1>2
<1>5. /\ Queries!Live' = Queries!Live /\ WorkersTyped'
      /\ \A m \in Queries!Live : m # Queries!mainWorker => worker'[m] = worker[m]
      /\ worker'[Queries!mainWorker] =
           [previousWorker |-> worker[Queries!mainWorker].previousWorker, group |-> query,
            source |-> worker[Queries!mainWorker].source]
  BY <1>1, <1>2, <1>3, <1>4, FieldSet
<1>6. at'[Main] = "participate" /\ \A u \in Workers : u # Main => at'[u] = at[u]
  BY <1>0, <1>1, QueriesNumbers, AllPlaces
<1>7. ~Over /\ ~Over'
  BY <1>0, <1>6, QueriesNumbers DEF Over
<1>8. /\ worker[Queries!mainWorker].previousWorker = Queries!NoWorker
      /\ worker[Queries!mainWorker].group = 0 /\ worker[Queries!mainWorker].source = 0
  BY <1>0, <1>1, MainLentFacts DEF InRun
<1>9. team' = 0
  BY <1>0, <1>2, <1>8
<1>13. MainLent'
  <2>1. worker'[Queries!mainWorker] =
          [previousWorker |-> Queries!NoWorker, group |-> query, source |-> 0]
    BY <1>5, <1>8
  <2> QED
    BY <1>0, <1>6, <1>9, <2>1, MainLentThen
<1>10. ThreadsTyped'
  <2>1. "participate" \in Places /\ team' \in 0 .. Queries!None
    BY <1>9, QueriesTypes DEF Places
  <2> QED
    BY <1>0, <1>1, <2>1, QueriesNumbers, ThreadsKept DEF ThreadsTyped
<1>11. \A u \in Workers : InPlace(u)'
  <2> SUFFICES ASSUME NEW u \in Workers PROVE InPlace(u)'
    OBVIOUS
  <2>1. CASE u = Main
    BY <1>6, <2>1 DEF InPlace
  <2>2. CASE u # Main
    <3>1. InPlace(u) /\ (at[u] # "idle" => thisWorker[u] \in Queries!Live)
      BY <1>1, AtWork DEF InRun
    <3>2. worker'[thisWorker[u]].source = worker[thisWorker[u]].source \/ at[u] = "idle"
      BY <1>2, <1>5, <2>2, <3>1
    <3> QED
      BY <1>0, <1>6, <1>7, <2>2, <3>1, <3>2, PlaceKept
  <2> QED
    BY <2>1, <2>2
<1>12. InRun'
  BY <1>0, <1>1, <1>5, <1>13, <1>11, RunKept
<1> QED
  BY <1>0, <1>1, <1>5, <1>10, <1>12, QueriesTypes DEF QueriesInv

\* A thread's worker takes memory from the pool of the query.
LEMMA ParticipateInv ==
  ASSUME QueriesInv, NEW t \in Workers, Queries!Participate(t)
  PROVE  QueriesInv'
<1>0. /\ at[t] = "participate" /\ at' = [at EXCEPT ![t] = "plan"]
      /\ previous' = [previous EXCEPT ![t] = worker[thisWorker[t]].source]
      /\ worker' = [worker EXCEPT ![thisWorker[t]].source = query]
      /\ UNCHANGED <<phase, query, thisWorker, tasks, team, before, foreign>>
  BY DEF Queries!Participate, Queries!SetSource, Queries!Goto
<1>1. phase = "run" /\ InRun /\ WorkersTyped /\ ThreadsTyped /\ ~foreign /\ Queries!TypeOK
  BY <1>0, InRunNow
<1>2. /\ thisWorker[t] \in Queries!Live /\ thisWorker[t] \in Queries!WorkerNames
      /\ \A u \in Workers : u # t => thisWorker[u] # thisWorker[t]
      /\ thisWorker[t] = Queries!mainWorker <=> t = Main
  BY <1>0, <1>1, AtWork
<1>3. query \in 0 .. Queries!None
  BY <1>1, QueriesTypes DEF ThreadsTyped
<1>4. /\ Queries!Live' = Queries!Live /\ WorkersTyped'
      /\ \A m \in Queries!Live : m # thisWorker[t] => worker'[m] = worker[m]
      /\ worker'[thisWorker[t]] =
           [previousWorker |-> worker[thisWorker[t]].previousWorker,
            group |-> worker[thisWorker[t]].group, source |-> query]
  BY <1>0, <1>1, <1>2, <1>3, FieldSet
<1>5. at'[t] = "plan" /\ \A u \in Workers : u # t => at'[u] = at[u]
  BY <1>0, <1>1, AllPlaces
<1>6. ~Over /\ ~Over'
  BY <1>0, <1>5 DEF Over
<1>7. worker[thisWorker[t]].source \in 0 .. Queries!None
  BY <1>1, <1>2 DEF WorkersTyped, Fields
<1>8. ThreadsTyped'
  <2>1. "plan" \in Places
    BY DEF Places
  <2> QED
    BY <1>0, <1>1, <1>7, <2>1, ThreadsKept DEF ThreadsTyped
<1>9. MainLent'
  <2>1. Queries!mainWorker \in Queries!Live
    BY <1>1 DEF InRun, Made
  <2>2. previous'[t] = worker[thisWorker[t]].source /\ \A u \in Workers : u # t => previous'[u] = previous[u]
    BY <1>0, <1>1 DEF ThreadsTyped
  <2>3. MainLent
    BY <1>1 DEF InRun
  <2>4. CASE t = Main
    <3>1. /\ worker[Queries!mainWorker].previousWorker = Queries!NoWorker
          /\ worker[Queries!mainWorker].group = query /\ worker[Queries!mainWorker].source = 0
          /\ team = 0
      BY <1>0, <2>3, <2>4, MainLentFacts
    <3>2. worker'[Queries!mainWorker] =
            [previousWorker |-> Queries!NoWorker, group |-> query, source |-> query]
      BY <1>2, <1>4, <2>4, <3>1
    <3>3. at'[Main] = "plan" /\ previous'[Main] = 0 /\ team' = 0
      BY <1>0, <1>2, <1>5, <2>2, <2>4, <3>1
    <3> QED
      BY <1>0, <3>2, <3>3, MainLentThen
  <2>5. CASE t # Main
    <3>1. at'[Main] = at[Main] /\ previous'[Main] = previous[Main]
          /\ worker'[Queries!mainWorker] = worker[Queries!mainWorker]
      BY <1>2, <1>4, <1>5, <2>1, <2>2, <2>5, QueriesNumbers
    <3> QED
      BY <1>0, <2>3, <3>1 DEF MainLent, LentGroup, LentSource
  <2> QED
    BY <2>4, <2>5
<1>10. \A u \in Workers : InPlace(u)'
  <2> SUFFICES ASSUME NEW u \in Workers PROVE InPlace(u)'
    OBVIOUS
  <2>1. InPlace(u) /\ (at[u] # "idle" => thisWorker[u] \in Queries!Live)
    BY <1>1, AtWork DEF InRun
  <2>2. CASE u = t
    <3>1. worker'[thisWorker'[t]].source = query' /\ Owners' = Owners
      BY <1>0, <1>4, QueriesFrame
    <3> QED
      BY <1>0, <1>5, <2>1, <2>2, <3>1 DEF InPlace
  <2>3. CASE u # t
    <3>1. worker'[thisWorker[u]].source = worker[thisWorker[u]].source \/ at[u] = "idle"
      BY <1>2, <1>4, <2>1, <2>3
    <3> QED
      BY <1>0, <1>5, <1>6, <2>1, <2>3, <3>1, PlaceKept
  <2> QED
    BY <2>2, <2>3
<1>11. \A n \in Queries!Live : n # Queries!mainWorker => worker'[n].group = worker[n].group
  BY <1>4
<1>12. InRun'
  BY <1>0, <1>1, <1>4, <1>9, <1>10, <1>11, RunKept
<1> QED
  BY <1>0, <1>1, <1>4, <1>8, <1>12, QueriesTypes DEF QueriesInv

\* A thread runs the plan: the worker it has is a worker of this query and no other
\* thread's, takes memory from the query's pool and waits at the query's barrier.
LEMMA RunPlanInv ==
  ASSUME QueriesInv, NEW t \in Workers, Queries!RunPlan(t)
  PROVE  QueriesInv'
<1>0. /\ at[t] = "plan" /\ at' = [at EXCEPT ![t] = "last barrier"]
      /\ foreign' = (foreign \/ ~Queries!Uses(t) \/ worker[thisWorker[t]].group # query)
      /\ UNCHANGED <<phase, query, worker, thisWorker, tasks, previous, team, before>>
  BY DEF Queries!RunPlan, Queries!Goto
<1>1. phase = "run" /\ InRun /\ WorkersTyped /\ ThreadsTyped /\ ~foreign /\ Queries!TypeOK
  BY <1>0, InRunNow
<1>2. /\ thisWorker[t] \in Queries!Live
      /\ \A u \in Workers : u # t => thisWorker[u] # thisWorker[t]
      /\ thisWorker[t] = Queries!mainWorker <=> t = Main
  BY <1>0, <1>1, AtWork
<1>3. worker[thisWorker[t]].source = query /\ worker[thisWorker[t]].group = query
  <2>1. worker[thisWorker[t]].source = query
    BY <1>0, <1>1 DEF InRun, InPlace
  <2>2. CASE t = Main
    BY <1>0, <1>1, <1>2, <2>1, <2>2, MainLentFacts DEF InRun
  <2>3. CASE t # Main
    BY <1>1, <1>2, <2>1, <2>3 DEF InRun
  <2> QED
    BY <2>2, <2>3
<1>4. Queries!Uses(t)
  BY <1>2, <1>3 DEF Queries!Uses
<1>5. foreign' = FALSE
  BY <1>0, <1>1, <1>3, <1>4
<1>6. at'[t] = "last barrier" /\ \A u \in Workers : u # t => at'[u] = at[u]
  BY <1>0, <1>1, AllPlaces
<1>7. WorkersTyped' /\ ThreadsTyped'
  <2>1. "last barrier" \in Places /\ foreign' \in BOOLEAN
    BY <1>5 DEF Places
  <2> QED
    BY <1>0, <1>1, <2>1, QueriesFrame, ThreadsKept DEF ThreadsTyped
<1>8. ~Over
  BY <1>0 DEF Over
<1>9. \A u \in Workers : InPlace(u)'
  <2> SUFFICES ASSUME NEW u \in Workers PROVE InPlace(u)'
    OBVIOUS
  <2>1. InPlace(u)
    BY <1>1 DEF InRun
  <2>2. CASE u = t
    <3>1. Owners' = Owners
      BY <1>0, QueriesFrame
    <3> QED
      BY <1>0, <1>3, <1>6, <2>1, <2>2, <3>1 DEF InPlace
  <2>3. CASE u # t
    BY <1>0, <1>6, <1>8, <2>1, <2>3, PlaceKept
  <2> QED
    BY <2>2, <2>3
<1>10. MainLent'
  <2>1. at'[Main] = at[Main] \/ (at[Main] = "plan" /\ at'[Main] = "last barrier")
    BY <1>0, <1>6, QueriesNumbers
  <2>2. MainLent
    BY <1>1 DEF InRun
  <2> QED
    BY <1>0, <2>1, <2>2 DEF MainLent, LentGroup, LentSource
<1>11. InRun'
  BY <1>0, <1>1, <1>9, <1>10, RunKept, QueriesFrame
<1> QED
  BY <1>0, <1>1, <1>5, <1>7, <1>11, QueriesTypes DEF QueriesInv

LEMMA PassLastBarrierInv ==
  ASSUME QueriesInv, NEW t \in Workers, Queries!PassLastBarrier(t)
  PROVE  QueriesInv'
<1>0. /\ at[t] = "last barrier" /\ at' = [at EXCEPT ![t] = "leave"] /\ Over
      /\ UNCHANGED <<phase, query, worker, thisWorker, tasks, previous, team, before, foreign>>
  BY DEF Queries!PassLastBarrier, Queries!Goto, Over
<1>1. phase = "run" /\ InRun /\ WorkersTyped /\ ThreadsTyped /\ ~foreign /\ Queries!TypeOK
  BY <1>0, InRunNow
<1>2. at'[t] = "leave" /\ \A u \in Workers : u # t => at'[u] = at[u]
  BY <1>0, <1>1, AllPlaces
<1>3. WorkersTyped' /\ ThreadsTyped'
  <2>1. "leave" \in Places
    BY DEF Places
  <2> QED
    BY <1>0, <1>1, <2>1, QueriesFrame, ThreadsKept DEF ThreadsTyped
<1>4. Over'
  BY <1>0, <1>2 DEF Over
<1>5. \A u \in Workers : InPlace(u)'
  <2> SUFFICES ASSUME NEW u \in Workers PROVE InPlace(u)'
    OBVIOUS
  <2>1. InPlace(u)
    BY <1>1 DEF InRun
  <2>2. CASE u = t
    <3>1. Owners' = Owners
      BY <1>0, QueriesFrame
    <3> QED
      BY <1>0, <1>2, <1>4, <2>1, <2>2, <3>1 DEF InPlace
  <2>3. CASE u # t
    BY <1>0, <1>2, <1>4, <2>1, <2>3, PlaceKept
  <2> QED
    BY <2>2, <2>3
<1>6. MainLent'
  <2>1. at'[Main] = at[Main] \/ (at[Main] = "last barrier" /\ at'[Main] = "leave")
    BY <1>0, <1>2, QueriesNumbers
  <2>2. MainLent
    BY <1>1 DEF InRun
  <2> QED
    BY <1>0, <2>1, <2>2 DEF MainLent, LentGroup, LentSource
<1>7. InRun'
  BY <1>0, <1>1, <1>5, <1>6, RunKept, QueriesFrame
<1> QED
  BY <1>0, <1>1, <1>3, <1>7, QueriesTypes DEF QueriesInv

\* The end of the plan: the worker takes memory from where it took it before.
LEMMA LeaveInv ==
  ASSUME QueriesInv, NEW t \in Workers, Queries!Leave(t)
  PROVE  QueriesInv'
<1> DEFINE spot == IF t = Main THEN "restore" ELSE "idle"
<1>0. /\ at[t] = "leave" /\ at' = [at EXCEPT ![t] = spot]
      /\ previous' = [previous EXCEPT ![t] = Queries!None]
      /\ worker' = [worker EXCEPT ![thisWorker[t]].source = previous[t]]
      /\ UNCHANGED <<phase, query, thisWorker, tasks, team, before, foreign>>
  BY DEF Queries!Leave, Queries!SetSource, Queries!Goto
<1>1. phase = "run" /\ InRun /\ WorkersTyped /\ ThreadsTyped /\ ~foreign /\ Queries!TypeOK
  BY <1>0, InRunNow
<1>2. /\ thisWorker[t] \in Queries!Live /\ thisWorker[t] \in Queries!WorkerNames
      /\ \A u \in Workers : u # t => thisWorker[u] # thisWorker[t]
      /\ thisWorker[t] = Queries!mainWorker <=> t = Main
  BY <1>0, <1>1, AtWork
<1>3. previous[t] \in 0 .. Queries!None
  BY <1>1 DEF ThreadsTyped
<1>4. /\ Queries!Live' = Queries!Live /\ WorkersTyped'
      /\ \A m \in Queries!Live : m # thisWorker[t] => worker'[m] = worker[m]
      /\ worker'[thisWorker[t]] =
           [previousWorker |-> worker[thisWorker[t]].previousWorker,
            group |-> worker[thisWorker[t]].group, source |-> previous[t]]
  BY <1>0, <1>1, <1>2, <1>3, FieldSet
<1>5. at'[t] = spot /\ \A u \in Workers : u # t => at'[u] = at[u]
  BY <1>0, <1>1, AllPlaces
<1>6. Over /\ Over'
  <2>1. Over
    BY <1>0, <1>1 DEF InRun, InPlace
  <2> QED
    BY <1>0, <1>5, <2>1 DEF Over
<1>7. ThreadsTyped'
  <2>1. spot \in Places /\ Queries!None \in 0 .. Queries!None
    BY QueriesTypes DEF Places
  <2> QED
    BY <1>0, <1>1, <2>1, ThreadsKept DEF ThreadsTyped
<1>8. MainLent'
  <2>1. Queries!mainWorker \in Queries!Live /\ MainLent
    BY <1>1 DEF InRun, Made
  <2>2. CASE t = Main
    <3>1. /\ worker[Queries!mainWorker].previousWorker = Queries!NoWorker
          /\ worker[Queries!mainWorker].group = query /\ previous[Main] = 0 /\ team = 0
      BY <1>0, <2>1, <2>2, MainLentFacts
    <3>2. worker'[Queries!mainWorker] =
            [previousWorker |-> Queries!NoWorker, group |-> query, source |-> 0]
      BY <1>2, <1>4, <2>2, <3>1
    <3>3. at'[Main] = "restore" /\ team' = 0
      BY <1>0, <1>5, <2>2, <3>1
    <3> QED
      BY <1>0, <3>2, <3>3, MainLentThen
  <2>3. CASE t # Main
    <3>1. at'[Main] = at[Main] /\ previous'[Main] = previous[Main]
          /\ worker'[Queries!mainWorker] = worker[Queries!mainWorker]
      BY <1>0, <1>1, <1>2, <1>4, <1>5, <2>1, <2>3, QueriesNumbers DEF ThreadsTyped
    <3> QED
      BY <1>0, <2>1, <3>1 DEF MainLent, LentGroup, LentSource
  <2> QED
    BY <2>2, <2>3
<1>9. \A u \in Workers : InPlace(u)'
  <2> SUFFICES ASSUME NEW u \in Workers PROVE InPlace(u)'
    OBVIOUS
  <2>1. InPlace(u) /\ (at[u] # "idle" => thisWorker[u] \in Queries!Live)
    BY <1>1, AtWork DEF InRun
  <2>2. CASE u = t
    BY <1>5, <1>6, <2>2 DEF InPlace
  <2>3. CASE u # t
    <3>1. worker'[thisWorker[u]].source = worker[thisWorker[u]].source \/ at[u] = "idle"
      BY <1>2, <1>4, <2>1, <2>3
    <3> QED
      BY <1>0, <1>5, <1>6, <2>1, <2>3, <3>1, PlaceKept
  <2> QED
    BY <2>2, <2>3
<1>10. \A n \in Queries!Live : n # Queries!mainWorker => worker'[n].group = worker[n].group
  BY <1>4
<1>11. InRun'
  BY <1>0, <1>1, <1>4, <1>8, <1>9, <1>10, RunKept
<1> QED
  BY <1>0, <1>1, <1>4, <1>7, <1>11, QueriesTypes DEF QueriesInv

\* The driver's thread takes the first worker out of the group again.
LEMMA LeaveGroupInv ==
  ASSUME QueriesInv, Queries!LeaveGroup
  PROVE  QueriesInv'
<1>0. /\ at[Main] = "restore" /\ at' = [at EXCEPT ![Main] = "idle"]
      /\ worker' = [worker EXCEPT ![thisWorker[Main]].group = team]
      /\ team' = Queries!None
      /\ UNCHANGED <<phase, query, thisWorker, tasks, previous, before, foreign>>
  BY DEF Queries!LeaveGroup, Queries!Goto
<1>1. phase = "run" /\ InRun /\ WorkersTyped /\ ThreadsTyped /\ ~foreign /\ Queries!TypeOK
  BY <1>0, InRunNow, QueriesNumbers
<1>2. /\ thisWorker[Main] = Queries!mainWorker /\ Queries!mainWorker \in Queries!Live
      /\ \A u \in Workers : u # Main => thisWorker[u] # Queries!mainWorker
  BY <1>1, QueriesNumbers DEF InRun, OwnWorker, Made
<1>3. team = 0 /\ team \in 0 .. Queries!None
  BY <1>0, <1>1, QueriesTypes DEF InRun, MainLent, LentGroup, LentSource
<1>4. worker' = [worker EXCEPT ![Queries!mainWorker].group = team]
  BY <1>0, <1>2
<1>5. /\ Queries!Live' = Queries!Live /\ WorkersTyped'
      /\ \A m \in Queries!Live : m # Queries!mainWorker => worker'[m] = worker[m]
      /\ worker'[Queries!mainWorker] =
           [previousWorker |-> worker[Queries!mainWorker].previousWorker, group |-> team,
            source |-> worker[Queries!mainWorker].source]
  BY <1>1, <1>2, <1>3, <1>4, FieldSet
<1>6. at'[Main] = "idle" /\ \A u \in Workers : u # Main => at'[u] = at[u]
  BY <1>0, <1>1, QueriesNumbers, AllPlaces
<1>7. Over /\ Over'
  <2>1. Over
    BY <1>0, <1>1, QueriesNumbers DEF InRun, InPlace
  <2> QED
    BY <1>0, <1>6, <2>1 DEF Over
<1>8. MainLent'
  <2>1. /\ worker[Queries!mainWorker].previousWorker = Queries!NoWorker
        /\ worker[Queries!mainWorker].source = 0
    BY <1>0, <1>1, MainLentFacts DEF InRun
  <2>2. worker'[Queries!mainWorker] =
          [previousWorker |-> Queries!NoWorker, group |-> 0, source |-> 0]
    BY <1>3, <1>5, <2>1
  <2> QED
    BY <1>6, <2>2, MainLentThen
<1>9. ThreadsTyped'
  <2>1. "idle" \in Places /\ team' \in 0 .. Queries!None
    BY <1>0, QueriesTypes DEF Places
  <2> QED
    BY <1>0, <1>1, <2>1, QueriesNumbers, ThreadsKept DEF ThreadsTyped
<1>10. \A u \in Workers : InPlace(u)'
  <2> SUFFICES ASSUME NEW u \in Workers PROVE InPlace(u)'
    OBVIOUS
  <2>1. CASE u = Main
    BY <1>6, <1>7, <2>1 DEF InPlace
  <2>2. CASE u # Main
    <3>1. InPlace(u) /\ (at[u] # "idle" => thisWorker[u] \in Queries!Live)
      BY <1>1, AtWork DEF InRun
    <3>2. worker'[thisWorker[u]].source = worker[thisWorker[u]].source \/ at[u] = "idle"
      BY <1>2, <1>5, <2>2, <3>1
    <3> QED
      BY <1>0, <1>6, <1>7, <2>2, <3>1, <3>2, PlaceKept
  <2> QED
    BY <2>1, <2>2
<1>11. InRun'
  BY <1>0, <1>1, <1>5, <1>8, <1>10, RunKept
<1> QED
  BY <1>0, <1>1, <1>5, <1>9, <1>11, QueriesTypes DEF QueriesInv

\* The query returns when all tasks have: its workers are gone, the first has its pool.
LEMMA EndRunInv ==
  ASSUME QueriesInv, Queries!EndRun
  PROVE  QueriesInv'
<1>0. /\ phase = "run" /\ tasks = {} /\ Queries!AllIdle /\ phase' = "driver"
      /\ worker' = [w \in Queries!Live \ Queries!OfQuery |-> worker[w]]
      /\ UNCHANGED <<query, thisWorker, tasks, at, previous, team, before, foreign>>
  BY DEF Queries!EndRun, Queries!Drop
<1>1. InRun /\ WorkersTyped /\ ThreadsTyped /\ ~foreign /\ Queries!TypeOK
  BY <1>0, InRunNow
<1>2. PICK s \in 0 .. nrThreads - 1 : Made(s)
  BY <1>1 DEF InRun
<1>3. /\ Queries!mainWorker \in Queries!Live \ Queries!OfQuery
      /\ Queries!Live \ Queries!OfQuery = {Queries!mainWorker}
  <2>1. \A n \in NamesOf(0 .. s - 1) : n \in NamesOf(0 .. nrThreads - 1)
    BY <1>2, QueriesNumbers DEF NamesOf
  <2>2. \A n \in NamesOf(0 .. s - 1) : n[1] = query /\ n # Queries!mainWorker
    BY <1>1, <2>1, OwnersNames DEF InRun
  <2> QED
    BY <1>2, <2>2 DEF Made, Queries!OfQuery
<1>4. Queries!Live' = {Queries!mainWorker} /\ worker'[Queries!mainWorker] = worker[Queries!mainWorker]
  BY <1>0, <1>3 DEF Queries!Live
<1>5. WorkersTyped' /\ ThreadsTyped'
  <2>1. WorkersTyped'
    BY <1>1, <1>3, <1>4 DEF WorkersTyped
  <2> QED
    BY <1>0, <1>1, <2>1, ThreadsKept DEF ThreadsTyped
<1>6. AtDriver'
  <2>1. at[Main] = "idle"
    BY <1>0, QueriesNumbers DEF Queries!AllIdle, Queries!Idle
  <2>2. worker'[Queries!mainWorker] = Queries!Worker(0, 0)
    BY <1>1, <1>4, <2>1 DEF InRun, MainLent, LentGroup, LentSource, Queries!Worker
  <2>3. Queries!AllIdle' /\ \A t \in Workers : OwnWorker(t)
    BY <1>0, <1>1 DEF InRun, Queries!AllIdle, Queries!Idle
  <2> QED
    BY <1>0, <1>4, <2>2, <2>3 DEF AtDriver, OwnWorker
<1> QED
  BY <1>0, <1>1, <1>5, <1>6, QueriesTypes DEF QueriesInv

LEMMA QueriesStepInv ==
  ASSUME QueriesInv, [Queries!Next]_queriesVars
  PROVE  QueriesInv'
<1>1. ASSUME NEW t \in Workers, Queries!CompiledStep(t)
      PROVE  QueriesInv'
  BY <1>1, InitIterationInv, PassLoopBarrierInv, LeaveIterationInv DEF Queries!CompiledStep
<1>2. ASSUME NEW t \in Workers, Queries!RunStep(t)
      PROVE  QueriesInv'
  BY <1>2, StartWorkerInv, ParticipateInv, RunPlanInv, PassLastBarrierInv, LeaveInv DEF Queries!RunStep
<1>3. ASSUME Queries!MainStep
      PROVE  QueriesInv'
  BY <1>3, InitOverInv, BeginLeaveInv, EndCompiledInv, SpawnInv, JoinGroupInv, LeaveGroupInv, EndRunInv
     DEF Queries!MainStep
<1>4. ASSUME UNCHANGED queriesVars
      PROVE  QueriesInv'
  <2>1. UNCHANGED <<phase, query, worker, thisWorker, tasks, at, previous, team, before, foreign>>
    BY <1>4 DEF queriesVars
  <2>2. /\ Owners' = Owners /\ NamesOf(tasks)' = NamesOf(tasks) /\ Queries!Live' = Queries!Live
        /\ \A i, j : NamesOf(i .. j)' = NamesOf(i .. j)
    BY <2>1, QueriesFrame
  <2>3. WorkersTyped' /\ ThreadsTyped'
    BY <2>1, QueriesTypes, QueriesFrame, ThreadsKept DEF QueriesInv, ThreadsTyped
  <2>4. Queries!AllIdle' <=> Queries!AllIdle
    BY <2>1 DEF Queries!AllIdle, Queries!Idle
  <2>5. (AtDriver => AtDriver') /\ (InCompiled => InCompiled')
    BY <2>1, <2>2, <2>4 DEF AtDriver, InCompiled
  <2>6. (InInit => InInit') /\ (InLeave => InLeave')
    BY <2>1, <2>2 DEF InInit, InLeave
  <2>7. InRun => InRun'
    <3>1. ASSUME InRun, NEW u \in Workers PROVE InPlace(u)'
      BY <2>1, <3>1, PlaceKept DEF InRun, Over
    <3>2. InRun => MainLent'
      BY <2>1 DEF InRun, MainLent, LentGroup, LentSource
    <3> QED
      BY <2>1, <2>2, <3>1, <3>2, RunKept
  <2> QED
    BY <2>1, <2>2, <2>3, <2>4, <2>5, <2>6, <2>7, QueriesTypes DEF QueriesInv
<1> QED
  BY <1>1, <1>2, <1>3, <1>4, MorselInv, BeginCompiledInv, BeginRunInv
     DEF Queries!Next, Queries!Step, Queries!Finished, Queries!vars, queriesVars

LEMMA QueriesInvariance == MCSpec => []QueriesInv
<1>1. MCInit => QueriesInv
  BY QueriesInitInv DEF MCInit
<1>2. QueriesInv /\ [MCNext]_allVars => QueriesInv'
  <2>1. ASSUME QueriesInv, [MCNext]_allVars
        PROVE  [Queries!Next]_queriesVars
    BY <2>1 DEF MCNext, WorkerStep, ScanOnly, BuildOnly, GroupOnly, PlanOnly, QueriesOnly, allVars, Queries!Next
  <2> QED
    BY <2>1, QueriesStepInv
<1> QED
  BY <1>1, <1>2, PTL DEF MCSpec

\* Whoever works for a query does so with a worker of its own, of the query's pool
\* and barrier; and when initQuery's changes have been undone by leaveQuery, or run
\* has returned, the threads have the workers they had, and the first worker its pool.
THEOREM WorkersRight == MCSpec => []WorkersOwn
<1>1. QueriesInv => WorkersOwn
  <2>1. QueriesInv => Queries!NothingForeign
    BY DEF QueriesInv, Queries!NothingForeign
  <2>2. QueriesInv => Queries!Restored
    <3>1. ASSUME QueriesInv, phase = "leave", tasks = {}
          PROVE  thisWorker = before
      BY <3>1, AllBack
    <3>2. ASSUME QueriesInv, phase = "driver"
          PROVE  /\ Queries!Live = {Queries!mainWorker} /\ thisWorker[Main] = Queries!mainWorker
                 /\ worker[Queries!mainWorker] = Queries!Worker(0, 0)
      BY <3>2, QueriesNumbers DEF QueriesInv, AtDriver
    <3> QED
      BY <3>1, <3>2 DEF Queries!Restored
  <2> QED
    BY <2>1, <2>2 DEF WorkersOwn
<1> QED
  BY <1>1, QueriesInvariance, PTL

-----------------------------------------------------------------------------
(* The plan: the shared states of its operators, and its blocks *)

\* The operators among the first s - 1 places of the plan; the next one has as many
\* before it as its number says.
Ops(s) == {j \in 1 .. s - 1 : Plan[j] # "once"}

State == [type : STRING, maker : Groupers]

PlanTyped ==
  /\ step \in [Groupers -> 1 .. Len(Plan) + 1]
  /\ opNr \in [Groupers -> Nat] /\ onceNr \in [Groupers -> Nat]
  /\ state \in Seq(State) /\ got \in [Groupers -> Seq(State)]
  /\ place \in [Groupers -> {"plan", "lock", "check", "callback", "mark"}]
  /\ onceMutex \in Groupers \cup {"none"} /\ oncesExecuted \in Nat
  /\ failed = FALSE

\* A worker's counter is the number of operators behind it; each state is of the type
\* of the operator with its number, whoever made it, and everybody was given that one.
Numbered ==
  /\ \A w \in Groupers :
       /\ opNr[w] = Cardinality(Ops(step[w]))
       /\ Len(got[w]) = opNr[w] /\ opNr[w] <= Len(state)
       /\ \A i \in 1 .. Len(got[w]) : got[w][i] = state[i]
  /\ \A i \in 1 .. Len(state), s \in 1 .. Len(Plan) :
       Plan[s] # "once" /\ Cardinality(Ops(s)) = i - 1 => state[i].type = Plan[s]

\* The mutex of once() is held by the worker behind it; the block that runs is the
\* next one, and all blocks before it have ended.
Blocks ==
  /\ \A w \in Groupers :
       /\ onceMutex = w <=> place[w] \in {"check", "callback", "mark"}
       /\ onceNr[w] <= oncesExecuted
       /\ place[w] \in {"callback", "mark"} => onceNr[w] = oncesExecuted
       /\ place[w] = "mark" => <<onceNr[w], w>> \in ended
  /\ \A i \in 0 .. oncesExecuted - 1 : \E u \in Groupers : <<i, u>> \in ended
  /\ started \subseteq (0 .. oncesExecuted) \X Groupers
  /\ \A u \in Groupers : <<oncesExecuted, u>> \in started => place[u] \in {"callback", "mark"}
  /\ \A c1, c2 \in started : c1[1] = c2[1] => c1 = c2

\* A worker in once() is at a block of its plan.
AtBlock ==
  \A w \in Groupers :
    place[w] # "plan" => step[w] \in 1 .. Len(Plan) /\ Plan[step[w]] = "once"

PlanInv == PlanTyped /\ Numbered /\ AtBlock /\ Blocks

LEMMA PlanFacts ==
  /\ Plan \in Seq(STRING) /\ Len(Plan) \in Nat
  /\ \A i \in 1 .. Len(Plan) : Plan[i] \in STRING
  /\ "none" \notin Groupers
  /\ IsFiniteSet(Groupers)
<1>1. Plan \in Seq(STRING) /\ "none" \notin Groupers
  BY PlanAssumption DEF Building!States!PlanAssumption, Building!States!WorkersAssumption,
                        Building!States!NoWorker
<1>2. IsFiniteSet(Groupers)
  BY WorkersAssumption, GroupAssumption, FS_Subset
<1> QED
  BY <1>1, <1>2

\* The numbers of operators: counted one by one, and no two operators have the same.
LEMMA OpsCounted ==
  ASSUME NEW s \in 1 .. Len(Plan)
  PROVE  /\ Cardinality(Ops(s)) \in Nat
         /\ Plan[s] # "once" => Cardinality(Ops(s + 1)) = Cardinality(Ops(s)) + 1
         /\ Plan[s] = "once" => Ops(s + 1) = Ops(s)
         /\ \A t \in 1 .. Len(Plan) :
              /\ Plan[s] # "once" /\ Plan[t] # "once"
              /\ Cardinality(Ops(s)) = Cardinality(Ops(t))
              => s = t
<1>1. \A t \in Nat : IsFiniteSet(Ops(t)) /\ Cardinality(Ops(t)) \in Nat
  <2> TAKE t \in Nat
  <2>1. IsFiniteSet(1 .. t - 1) /\ Ops(t) \subseteq 1 .. t - 1
    BY FS_Interval DEF Ops
  <2> QED
    BY <2>1, FS_Subset, FS_CardinalityType
<1>2. ASSUME NEW t \in 1 .. Len(Plan), Plan[t] # "once"
      PROVE  Cardinality(Ops(t + 1)) = Cardinality(Ops(t)) + 1
  <2>1. Ops(t + 1) = Ops(t) \cup {t} /\ t \notin Ops(t)
    BY <1>2, PlanFacts DEF Ops
  <2>2. IsFiniteSet(Ops(t))
    BY <1>1, PlanFacts
  <2> QED
    BY <2>1, <2>2, FS_AddElement
<1>3. ASSUME NEW t \in 1 .. Len(Plan), NEW u \in 1 .. Len(Plan), Plan[t] # "once", t < u
      PROVE  Cardinality(Ops(t)) < Cardinality(Ops(u))
  <2>1. Ops(t + 1) \subseteq Ops(u)
    BY <1>3, PlanFacts DEF Ops
  <2>2. IsFiniteSet(Ops(u)) /\ t \in Nat /\ u \in Nat /\ t + 1 \in Nat
    BY <1>1, PlanFacts
  <2>3. Cardinality(Ops(t + 1)) <= Cardinality(Ops(u))
    BY <2>1, <2>2, FS_Subset
  <2>4. Cardinality(Ops(t + 1)) = Cardinality(Ops(t)) + 1
    BY <1>2, <1>3
  <2>5. Cardinality(Ops(t)) \in Nat /\ Cardinality(Ops(u)) \in Nat
    BY <1>1, <2>2
  <2> QED
    BY <2>3, <2>4, <2>5
<1>4. Plan[s] = "once" => Ops(s + 1) = Ops(s)
  BY PlanFacts DEF Ops
<1>5. ASSUME NEW t \in 1 .. Len(Plan), Plan[s] # "once", Plan[t] # "once",
             Cardinality(Ops(s)) = Cardinality(Ops(t))
      PROVE  s = t
  <2>1. ~(s < t) /\ ~(t < s)
    <3>1. Cardinality(Ops(s)) \in Nat /\ Cardinality(Ops(t)) \in Nat
      BY <1>1, PlanFacts
    <3> QED
      BY <1>3, <1>5, <3>1
  <2> QED
    BY <2>1, PlanFacts
<1> QED
  BY <1>1, <1>2, <1>4, <1>5, PlanFacts

\* The types of what belongs to each worker, by themselves.
LEMMA PlanTypes ==
  ASSUME PlanInv
  PROVE  /\ step \in [Groupers -> 1 .. Len(Plan) + 1]
         /\ opNr \in [Groupers -> Nat] /\ onceNr \in [Groupers -> Nat]
         /\ got \in [Groupers -> Seq(State)] /\ oncesExecuted \in Nat
         /\ place \in [Groupers -> {"plan", "lock", "check", "callback", "mark"}]
BY DEF PlanInv, PlanTyped

LEMMA PlanInitInv == Building!States!Init => PlanInv
<1> SUFFICES ASSUME Building!States!Init PROVE PlanInv
  OBVIOUS
<1>1. /\ step = [w \in Groupers |-> 1] /\ opNr = [w \in Groupers |-> 0]
      /\ onceNr = [w \in Groupers |-> 0] /\ state = <<>> /\ got = [w \in Groupers |-> <<>>]
      /\ place = [w \in Groupers |-> "plan"] /\ onceMutex = "none" /\ oncesExecuted = 0
      /\ started = {} /\ ended = {} /\ failed = FALSE
  BY DEF Building!States!Init, Building!States!NoWorker
<1>2. PlanTyped
  BY <1>1, PlanFacts DEF PlanTyped
<1>3. Ops(1) = {} /\ Cardinality(Ops(1)) = 0
  BY FS_EmptySet DEF Ops
<1>4. Numbered
  BY <1>1, <1>3 DEF Numbered
<1>5. Blocks
  BY <1>1, PlanFacts DEF Blocks
<1> QED
  BY <1>1, <1>2, <1>4, <1>5 DEF PlanInv, AtBlock

\* w finds the state of its operator, or makes it.
LEMMA GetInv ==
  ASSUME PlanInv, NEW w \in Groupers, Building!States!get(w)
  PROVE  PlanInv'
<1> DEFINE nr == opNr[w]
           s == step[w]
           new == [type |-> Plan[s], maker |-> w]
           now == IF nr < Len(state) THEN state ELSE Append(state, new)
<1>0. /\ s \in 1 .. Len(Plan) /\ Plan[s] # "once" /\ Plan[s] \in STRING
      /\ opNr' = [opNr EXCEPT ![w] = @ + 1]
      /\ state' = now
      /\ got' = [got EXCEPT ![w] = Append(@, now[nr + 1])]
      /\ failed' = (failed \/ now[nr + 1].type # Plan[s])
      /\ step' = [step EXCEPT ![w] = @ + 1]
      /\ UNCHANGED <<place, onceNr, onceMutex, oncesExecuted, started, ended>>
      /\ place[w] = "plan"
  BY PlanFacts DEF Building!States!get, Building!States!Building, Building!States!Once, Building!States!Known,
     Building!States!onceVars, PlanInv, PlanTyped
<1> DEFINE n == Len(state)
<1>1. /\ nr \in Nat /\ n \in Nat /\ nr <= n /\ nr = Cardinality(Ops(s)) /\ new \in State
      /\ state \in Seq(State) /\ new.type = Plan[s]
  <2>1. opNr[w] \in Nat /\ opNr[w] = Cardinality(Ops(step[w])) /\ opNr[w] <= Len(state)
    BY PlanTypes DEF PlanInv, Numbered
  <2>2. state \in Seq(State)
    BY DEF PlanInv, PlanTyped
  <2>3. new \in State /\ new.type = Plan[s]
    BY <1>0 DEF State
  <2> QED
    BY <2>1, <2>2, <2>3
<1>2. /\ now \in Seq(State) /\ Len(now) \in {n, n + 1} /\ nr < Len(now)
      /\ \A i \in 1 .. n : now[i] = state[i]
      /\ Len(now) = n + 1 => nr = n /\ now[n + 1] = new
  <2>1. CASE nr < n
    BY <1>1, <2>1
  <2>2. CASE ~(nr < n)
    BY <1>1, <2>2
  <2> QED
    BY <2>1, <2>2
<1> HIDE DEF now
<1>3. now[nr + 1] \in State /\ now[nr + 1].type = Plan[s]
  <2>1. now[nr + 1] \in State
    BY <1>1, <1>2
  <2>2. CASE Len(now) = n
    <3>1. nr + 1 \in 1 .. n /\ Cardinality(Ops(s)) = (nr + 1) - 1
      BY <1>1, <1>2, <2>2
    <3>2. state[nr + 1].type = Plan[s]
      BY <1>0, <3>1 DEF PlanInv, Numbered
    <3> QED
      BY <1>2, <2>1, <3>1, <3>2
  <2>3. CASE Len(now) = n + 1
    BY <1>1, <1>2, <2>1, <2>3
  <2> QED
    BY <1>2, <2>2, <2>3, <2>1
<1>4. /\ step'[w] = s + 1 /\ opNr'[w] = nr + 1 /\ got'[w] = Append(got[w], now[nr + 1])
      /\ \A u \in Groupers : u # w => step'[u] = step[u] /\ opNr'[u] = opNr[u] /\ got'[u] = got[u]
  BY <1>0, PlanTypes
<1>5. PlanTyped'
  <2>1. step' \in [Groupers -> 1 .. Len(Plan) + 1]
    BY <1>0, PlanFacts, PlanTypes
  <2>2. opNr' \in [Groupers -> Nat] /\ onceNr' \in [Groupers -> Nat] /\ state' \in Seq(State)
    <3>1. opNr' \in [Groupers -> Nat]
      BY <1>0, PlanTypes
    <3>2. onceNr' \in [Groupers -> Nat]
      BY <1>0, PlanTypes
    <3>3. state' \in Seq(State)
      BY <1>0, <1>2
    <3> QED
      BY <3>1, <3>2, <3>3
  <2>3. got' \in [Groupers -> Seq(State)]
    <3>1. got[w] \in Seq(State) /\ Append(got[w], now[nr + 1]) \in Seq(State)
      BY <1>3 DEF PlanInv, PlanTyped
    <3> QED
      BY <1>0, <3>1 DEF PlanInv, PlanTyped
  <2>4. failed' = FALSE
    BY <1>0, <1>3 DEF PlanInv, PlanTyped
  <2> QED
    BY <1>0, <2>1, <2>2, <2>3, <2>4 DEF PlanInv, PlanTyped
<1>6. \A u \in Groupers :
       /\ opNr'[u] = Cardinality(Ops(step'[u]))
       /\ Len(got'[u]) = opNr'[u] /\ opNr'[u] <= Len(now)
       /\ \A i \in 1 .. Len(got'[u]) : got'[u][i] = now[i]
  <2> TAKE u \in Groupers
  <2>1. /\ opNr[u] = Cardinality(Ops(step[u])) /\ opNr[u] \in Nat
        /\ Len(got[u]) = opNr[u] /\ opNr[u] <= n /\ got[u] \in Seq(State)
        /\ \A i \in 1 .. Len(got[u]) : got[u][i] = state[i]
    BY DEF PlanInv, PlanTyped, Numbered
  <2>2. CASE u # w
    BY <1>1, <1>2, <1>4, <2>1, <2>2
  <2>3. CASE u = w
    <3>1. Cardinality(Ops(s + 1)) = nr + 1
      BY <1>0, <1>1, OpsCounted
    <3>2. Len(got'[w]) = nr + 1 /\ \A i \in 1 .. nr + 1 : got'[w][i] = now[i]
      BY <1>1, <1>2, <1>3, <1>4, <2>1, <2>3
    <3>3. nr + 1 <= Len(now)
      BY <1>1, <1>2
    <3>4. opNr'[w] = nr + 1 /\ step'[w] = s + 1
      BY <1>4
    <3> HIDE DEF nr, s
    <3> QED
      BY <2>3, <3>1, <3>2, <3>3, <3>4
  <2> QED
    BY <2>2, <2>3
<1>7. \A i \in 1 .. Len(now), t \in 1 .. Len(Plan) :
       Plan[t] # "once" /\ Cardinality(Ops(t)) = i - 1 => now[i].type = Plan[t]
  <2> TAKE i \in 1 .. Len(now), t \in 1 .. Len(Plan)
  <2> HAVE Plan[t] # "once" /\ Cardinality(Ops(t)) = i - 1
  <2>1. CASE i \in 1 .. n
    <3>1. state[i].type = Plan[t]
      BY <2>1 DEF PlanInv, Numbered
    <3> QED
      BY <1>2, <2>1, <3>1
  <2>2. CASE i \notin 1 .. n
    <3>1. i = n + 1 /\ Len(now) = n + 1 /\ nr = n
      BY <1>1, <1>2, <2>2
    <3>2. t = s
      <4>1. \A u \in 1 .. Len(Plan) : /\ Plan[s] # "once" /\ Plan[u] # "once"
                                       /\ Cardinality(Ops(s)) = Cardinality(Ops(u)) => s = u
        BY <1>0, OpsCounted
      <4>2. Cardinality(Ops(s)) = Cardinality(Ops(t))
        BY <1>1, <3>1
      <4> HIDE DEF s
      <4> QED
        BY <1>0, <4>1, <4>2
    <3> QED
      BY <1>1, <1>2, <3>1, <3>2
  <2> QED
    BY <2>1, <2>2
<1>8. Numbered'
  BY <1>0, <1>6, <1>7 DEF Numbered
<1>9. Blocks'
  BY <1>0 DEF PlanInv, Blocks
<1>10. AtBlock'
  BY <1>0, <1>4 DEF PlanInv, AtBlock
<1> QED
  BY <1>5, <1>8, <1>9, <1>10 DEF PlanInv

\* A step of once() leaves operators and their states alone.
LEMMA NumberedStays ==
  ASSUME PlanInv, NEW w \in Groupers, UNCHANGED <<opNr, state, got>>,
         \/ UNCHANGED step
         \/ step[w] \in 1 .. Len(Plan) /\ Plan[step[w]] = "once" /\ step' = [step EXCEPT ![w] = @ + 1]
  PROVE  Numbered'
<1>1. \A u \in Groupers : Cardinality(Ops(step'[u])) = Cardinality(Ops(step[u]))
  <2>1. CASE UNCHANGED step
    BY <2>1
  <2>2. CASE /\ step[w] \in 1 .. Len(Plan) /\ Plan[step[w]] = "once"
             /\ step' = [step EXCEPT ![w] = @ + 1]
    <3>1. Ops(step[w] + 1) = Ops(step[w])
      BY <2>2, OpsCounted
    <3>2. step'[w] = step[w] + 1 /\ \A u \in Groupers : u # w => step'[u] = step[u]
      BY <2>2 DEF PlanInv, PlanTyped
    <3> QED
      BY <3>1, <3>2
  <2> QED
    BY <2>1, <2>2
<1>2. /\ \A u \in Groupers :
            /\ opNr[u] = Cardinality(Ops(step[u]))
            /\ Len(got[u]) = opNr[u] /\ opNr[u] <= Len(state)
            /\ \A i \in 1 .. Len(got[u]) : got[u][i] = state[i]
      /\ \A i \in 1 .. Len(state), s \in 1 .. Len(Plan) :
            Plan[s] # "once" /\ Cardinality(Ops(s)) = i - 1 => state[i].type = Plan[s]
  BY DEF PlanInv, Numbered
<1> QED
  BY <1>1, <1>2 DEF Numbered

\* w comes to a block: somebody has run it, or w must wait for the mutex.
LEMMA OnceInv ==
  ASSUME PlanInv, NEW w \in Groupers, Building!States!once(w)
  PROVE  PlanInv'
<1>0. /\ place[w] = "plan" /\ step[w] \in 1 .. Len(Plan) /\ Plan[step[w]] = "once"
      /\ UNCHANGED <<opNr, state, got, onceMutex, oncesExecuted, started, ended, failed>>
      /\ \/ /\ oncesExecuted > onceNr[w]
            /\ place' = [place EXCEPT ![w] = "plan"]
            /\ step' = [step EXCEPT ![w] = @ + 1] /\ onceNr' = [onceNr EXCEPT ![w] = @ + 1]
         \/ /\ place' = [place EXCEPT ![w] = "lock"]
            /\ UNCHANGED <<step, onceNr>>
  BY PlanFacts DEF Building!States!once, Building!States!Building, Building!States!Once,
                   Building!States!Return, PlanInv, PlanTyped
<1>1. PlanTyped'
  <2>1. CASE step' = [step EXCEPT ![w] = @ + 1] /\ onceNr' = [onceNr EXCEPT ![w] = @ + 1]
    <3>1. step' \in [Groupers -> 1 .. Len(Plan) + 1]
      BY <1>0, <2>1, PlanFacts, PlanTypes
    <3>2. onceNr' \in [Groupers -> Nat]
      BY <2>1, PlanTypes
    <3>3. place' \in [Groupers -> {"plan", "lock", "check", "callback", "mark"}]
      BY <1>0, PlanTypes
    <3> QED
      BY <1>0, <3>1, <3>2, <3>3 DEF PlanInv, PlanTyped
  <2>2. CASE UNCHANGED <<step, onceNr>>
    BY <1>0, <2>2 DEF PlanInv, PlanTyped
  <2> QED
    BY <1>0, <2>1, <2>2 DEF PlanInv, PlanTyped
<1>2. Numbered'
  BY <1>0, NumberedStays
<1>3. onceNr[w] \in Nat /\ onceNr[w] <= oncesExecuted /\ oncesExecuted \in Nat
  BY PlanTypes DEF PlanInv, Blocks
<1>4. /\ place'[w] \in {"plan", "lock"} /\ onceNr'[w] \in Nat /\ onceNr'[w] <= oncesExecuted
      /\ place'[w] = "lock" => step'[w] = step[w]
      /\ \A u \in Groupers : u # w => place'[u] = place[u] /\ step'[u] = step[u] /\ onceNr'[u] = onceNr[u]
  BY <1>0, <1>3, PlanTypes
<1>5. AtBlock'
  BY <1>0, <1>4 DEF PlanInv, AtBlock
<1>6. Blocks'
  BY <1>0, <1>4 DEF PlanInv, Blocks
<1> QED
  BY <1>1, <1>2, <1>5, <1>6 DEF PlanInv

LEMMA LockInv ==
  ASSUME PlanInv, NEW w \in Groupers, Building!States!Lock(w)
  PROVE  PlanInv'
<1>0. /\ place[w] = "lock" /\ onceMutex = "none" /\ onceMutex' = w
      /\ place' = [place EXCEPT ![w] = "check"]
      /\ UNCHANGED <<step, opNr, onceNr, state, got, oncesExecuted, started, ended, failed>>
  BY DEF Building!States!Lock, Building!States!NoWorker
<1>1. PlanTyped'
  BY <1>0 DEF PlanInv, PlanTyped
<1>2. Numbered'
  BY <1>0, NumberedStays
<1>3. place'[w] = "check" /\ \A u \in Groupers : u # w => place'[u] = place[u]
  BY <1>0 DEF PlanInv, PlanTyped
<1>4. AtBlock'
  BY <1>0, <1>3 DEF PlanInv, AtBlock
<1>5. Blocks'
  BY <1>0, <1>3, PlanFacts DEF PlanInv, Blocks
<1> QED
  BY <1>1, <1>2, <1>4, <1>5 DEF PlanInv

\* Behind the mutex: the block has been run meanwhile, or w runs it as the first.
LEMMA CheckInv ==
  ASSUME PlanInv, NEW w \in Groupers, Building!States!Check(w)
  PROVE  PlanInv'
<1>0. /\ place[w] = "check"
      /\ UNCHANGED <<opNr, state, got, oncesExecuted, ended, failed>>
  BY DEF Building!States!Check
<1>1. /\ step[w] \in 1 .. Len(Plan) /\ Plan[step[w]] = "once" /\ onceMutex = w
      /\ onceNr[w] <= oncesExecuted /\ onceNr[w] \in Nat /\ oncesExecuted \in Nat
      /\ \A u \in Groupers : u # w => place[u] \in {"plan", "lock"}
  BY <1>0 DEF PlanInv, PlanTyped, AtBlock, Blocks
<1>2. CASE /\ oncesExecuted > onceNr[w] /\ onceMutex' = "none" /\ UNCHANGED started
           /\ place' = [place EXCEPT ![w] = "plan"]
           /\ step' = [step EXCEPT ![w] = @ + 1] /\ onceNr' = [onceNr EXCEPT ![w] = @ + 1]
  <2>1. PlanTyped'
    <3>1. step' \in [Groupers -> 1 .. Len(Plan) + 1] /\ onceNr' \in [Groupers -> Nat]
      BY <1>1, <1>2, PlanFacts, PlanTypes
    <3>2. place' \in [Groupers -> {"plan", "lock", "check", "callback", "mark"}]
      BY <1>2, PlanTypes
    <3> QED
      BY <1>0, <1>2, <3>1, <3>2 DEF PlanInv, PlanTyped
  <2>2. Numbered'
    BY <1>0, <1>1, <1>2, NumberedStays
  <2>3. /\ place'[w] = "plan" /\ onceNr'[w] = onceNr[w] + 1
        /\ \A u \in Groupers : u # w => place'[u] = place[u] /\ step'[u] = step[u] /\ onceNr'[u] = onceNr[u]
    BY <1>2, PlanTypes
  <2>4. AtBlock'
    BY <2>3 DEF PlanInv, AtBlock
  <2>5. Blocks'
    <3>1. Blocks
      BY DEF PlanInv
    <3>2. UNCHANGED <<started, ended, oncesExecuted>> /\ onceMutex' = "none" /\ onceMutex = w
      BY <1>0, <1>1, <1>2
    <3>3. \A u \in Groupers : u # w => place'[u] \notin {"check", "callback", "mark"}
      BY <1>1, <2>3
    <3>4. \A u \in Groupers : u # "none"
      BY PlanFacts
    <3>5. onceNr'[w] <= oncesExecuted
      BY <1>1, <1>2, <2>3
    <3>6. \A u \in Groupers :
            /\ onceMutex' = u <=> place'[u] \in {"check", "callback", "mark"}
            /\ onceNr'[u] <= oncesExecuted'
            /\ place'[u] \in {"callback", "mark"} => onceNr'[u] = oncesExecuted'
            /\ place'[u] = "mark" => <<onceNr'[u], u>> \in ended'
      <4> TAKE u \in Groupers
      <4>1. CASE u = w
        BY <2>3, <3>2, <3>4, <3>5, <4>1
      <4>2. CASE u # w
        BY <2>3, <3>1, <3>2, <3>3, <3>4, <4>2 DEF Blocks
      <4> QED
        BY <4>1, <4>2
    <3>7. \A u \in Groupers : <<oncesExecuted, u>> \notin started
      BY <1>0, <1>1, <3>1, <3>2 DEF Blocks
    <3> QED
      BY <3>1, <3>2, <3>6, <3>7 DEF Blocks
  <2> QED
    BY <2>1, <2>2, <2>4, <2>5 DEF PlanInv
<1>3. CASE /\ ~(oncesExecuted > onceNr[w]) /\ started' = started \cup {<<onceNr[w], w>>}
           /\ place' = [place EXCEPT ![w] = "callback"]
           /\ UNCHANGED <<step, onceNr, onceMutex>>
  <2>1. PlanTyped'
    BY <1>0, <1>3 DEF PlanInv, PlanTyped
  <2>2. Numbered'
    BY <1>0, <1>3, NumberedStays
  <2>3. /\ place'[w] = "callback" /\ onceNr[w] = oncesExecuted
        /\ \A u \in Groupers : u # w => place'[u] = place[u]
    BY <1>1, <1>3 DEF PlanInv, PlanTyped
  <2>4. AtBlock'
    BY <1>1, <1>3, <2>3 DEF PlanInv, AtBlock
  <2>5. \A u \in Groupers : <<oncesExecuted, u>> \notin started
    BY <1>0, <1>1 DEF PlanInv, Blocks
  <2>6. started' \subseteq (0 .. oncesExecuted) \X Groupers
    BY <1>1, <1>3, <2>3 DEF PlanInv, Blocks
  <2>7. \A c1, c2 \in started' : c1[1] = c2[1] => c1 = c2
    <3> SUFFICES ASSUME NEW c1 \in started', NEW c2 \in started', c1[1] = c2[1]
                 PROVE  c1 = c2
      OBVIOUS
    <3>1. \A x \in started : x \in (0 .. oncesExecuted) \X Groupers /\ x = <<x[1], x[2]>> /\ x[1] # oncesExecuted
      <4> TAKE x \in started
      <4>1. x \in (0 .. oncesExecuted) \X Groupers
        BY DEF PlanInv, Blocks
      <4> QED
        BY <4>1, <2>5
    <3> QED
      BY <1>3, <2>3, <3>1 DEF PlanInv, Blocks
  <2>8. Blocks'
    BY <1>0, <1>1, <1>3, <2>3, <2>5, <2>6, <2>7 DEF PlanInv, Blocks
  <2> QED
    BY <2>1, <2>2, <2>4, <2>8 DEF PlanInv
<1> QED
  BY <1>2, <1>3 DEF Building!States!Check, Building!States!Return, Building!States!NoWorker

LEMMA EndCallbackInv ==
  ASSUME PlanInv, NEW w \in Groupers, Building!States!EndCallback(w)
  PROVE  PlanInv'
<1>0. /\ place[w] = "callback" /\ place' = [place EXCEPT ![w] = "mark"]
      /\ ended' = ended \cup {<<onceNr[w], w>>}
      /\ UNCHANGED <<step, opNr, onceNr, state, got, onceMutex, oncesExecuted, started, failed>>
  BY DEF Building!States!EndCallback
<1>1. PlanTyped'
  BY <1>0 DEF PlanInv, PlanTyped
<1>2. Numbered'
  BY <1>0, NumberedStays
<1>3. place'[w] = "mark" /\ \A u \in Groupers : u # w => place'[u] = place[u]
  BY <1>0 DEF PlanInv, PlanTyped
<1>4. AtBlock'
  BY <1>0, <1>3 DEF PlanInv, AtBlock
<1>5. Blocks'
  BY <1>0, <1>3 DEF PlanInv, Blocks
<1> QED
  BY <1>1, <1>2, <1>4, <1>5 DEF PlanInv

\* The number of blocks that have run is the number of the block that w has run.
LEMMA MarkInv ==
  ASSUME PlanInv, NEW w \in Groupers, Building!States!Mark(w)
  PROVE  PlanInv'
<1>0. /\ place[w] = "mark" /\ oncesExecuted' = oncesExecuted + 1
      /\ failed' = (failed \/ oncesExecuted # onceNr[w])
      /\ onceMutex' = "none" /\ place' = [place EXCEPT ![w] = "plan"]
      /\ step' = [step EXCEPT ![w] = @ + 1] /\ onceNr' = [onceNr EXCEPT ![w] = @ + 1]
      /\ UNCHANGED <<opNr, state, got, started, ended>>
  BY DEF Building!States!Mark, Building!States!Return, Building!States!NoWorker
<1>1. /\ step[w] \in 1 .. Len(Plan) /\ Plan[step[w]] = "once" /\ onceMutex = w
      /\ onceNr[w] = oncesExecuted /\ onceNr[w] \in Nat /\ oncesExecuted \in Nat
      /\ <<oncesExecuted, w>> \in ended
      /\ \A u \in Groupers : u # w => place[u] \in {"plan", "lock"}
  BY <1>0 DEF PlanInv, PlanTyped, AtBlock, Blocks
<1>2. PlanTyped'
  <2>1. step' \in [Groupers -> 1 .. Len(Plan) + 1]
    BY <1>0, <1>1, PlanFacts, PlanTypes
  <2>2. onceNr' \in [Groupers -> Nat] /\ oncesExecuted' \in Nat
    BY <1>0, PlanTypes
  <2>3. failed' = FALSE
    BY <1>0, <1>1 DEF PlanInv, PlanTyped
  <2> QED
    BY <1>0, <2>1, <2>2, <2>3 DEF PlanInv, PlanTyped
<1>3. Numbered'
  BY <1>0, <1>1, NumberedStays
<1>4. /\ place'[w] = "plan" /\ onceNr'[w] = onceNr[w] + 1
      /\ \A u \in Groupers : u # w => place'[u] = place[u] /\ step'[u] = step[u] /\ onceNr'[u] = onceNr[u]
  BY <1>0 DEF PlanInv, PlanTyped
<1>5. AtBlock'
  BY <1>0, <1>4 DEF PlanInv, AtBlock
<1>6. \A i \in 0 .. (oncesExecuted + 1) - 1 : \E u \in Groupers : <<i, u>> \in ended
  <2> TAKE i \in 0 .. (oncesExecuted + 1) - 1
  <2>1. CASE i = oncesExecuted
    BY <1>1, <2>1
  <2>2. CASE i # oncesExecuted
    <3>1. i \in 0 .. oncesExecuted - 1
      BY <1>1, <2>2
    <3> QED
      BY <3>1 DEF PlanInv, Blocks
  <2> QED
    BY <2>1, <2>2
<1>7. /\ started \subseteq (0 .. oncesExecuted + 1) \X Groupers
      /\ \A u \in Groupers : <<oncesExecuted + 1, u>> \notin started
  BY <1>1 DEF PlanInv, Blocks
<1>8. \A u \in Groupers : /\ onceMutex' = u <=> place'[u] \in {"check", "callback", "mark"}
                          /\ onceNr'[u] <= oncesExecuted + 1
                          /\ place'[u] \in {"callback", "mark"} => onceNr'[u] = oncesExecuted + 1
                          /\ place'[u] = "mark" => <<onceNr'[u], u>> \in ended
  <2> TAKE u \in Groupers
  <2>1. onceMutex' = "none" /\ u # "none" /\ onceMutex = w
    BY <1>0, <1>1, PlanFacts DEF PlanInv, Blocks
  <2>2. onceNr[u] \in Nat /\ oncesExecuted \in Nat /\ onceNr[u] <= oncesExecuted
    BY PlanTypes DEF PlanInv, Blocks
  <2>3. CASE u = w
    BY <1>1, <1>4, <2>1, <2>2, <2>3
  <2>4. CASE u # w
    <3>1. place'[u] = place[u] /\ onceNr'[u] = onceNr[u]
      BY <1>4, <2>4
    <3>2. place[u] \notin {"check", "callback", "mark"}
      BY <2>1, <2>4 DEF PlanInv, Blocks
    <3> QED
      BY <2>1, <2>2, <3>1, <3>2
  <2> QED
    BY <2>3, <2>4
<1>9. Blocks'
  BY <1>0, <1>6, <1>7, <1>8 DEF PlanInv, Blocks
<1> QED
  BY <1>2, <1>3, <1>5, <1>9 DEF PlanInv

LEMMA PlanStepInv ==
  ASSUME PlanInv, UNCHANGED planVars \/ \E w \in Groupers : Building!WorkerStep(w)
  PROVE  PlanInv'
<1>1. ASSUME NEW w \in Groupers, Building!States!Step(w)
      PROVE  PlanInv'
  BY <1>1, GetInv, OnceInv, LockInv, CheckInv, EndCallbackInv, MarkInv DEF Building!States!Step
<1>2. ASSUME UNCHANGED Building!planVars
      PROVE  PlanInv'
  <2>1. UNCHANGED <<step, opNr, onceNr, state, got, place, onceMutex, oncesExecuted,
                    started, ended, failed>>
    BY <1>2 DEF Building!planVars
  <2>2. PlanTyped' /\ AtBlock'
    BY <2>1 DEF PlanInv, PlanTyped, AtBlock
  <2>3. Numbered'
    BY <2>1 DEF PlanInv, Numbered
  <2>4. Blocks'
    BY <2>1 DEF PlanInv, Blocks
  <2> QED
    BY <2>2, <2>3, <2>4 DEF PlanInv
<1>3. UNCHANGED planVars => UNCHANGED Building!planVars
  BY DEF planVars, Building!planVars
<1> QED
  BY <1>1, <1>2, <1>3 DEF Building!WorkerStep, Building!BuildStep, Building!ResultStep

\* What a step of the composition is for the plan and its result.
LEMMA PlanSteps ==
  ASSUME [MCNext]_allVars
  PROVE  UNCHANGED planVars \/ \E w \in Groupers : Building!WorkerStep(w)
<1>1. Building!QueryFinished => UNCHANGED planVars
  BY DEF Building!QueryFinished, Building!Finished, Building!vars, Building!planVars, planVars
<1> QED
  BY <1>1 DEF MCNext, WorkerStep, ScanOnly, BuildOnly, GroupOnly, PlanOnly, QueriesOnly, allVars

LEMMA PlanInvariance == MCSpec => []PlanInv
<1>1. MCInit => PlanInv
  BY PlanInitInv DEF MCInit, Building!QueryInit
<1>2. PlanInv /\ [MCNext]_allVars => PlanInv'
  BY PlanSteps, PlanStepInv
<1> QED
  BY <1>1, <1>2, PTL DEF MCSpec

\* For every plan and every number of workers, whenever they reach its operators and
\* blocks: a worker that asks for the state of an operator gets the one all others got,
\* and it has the type the operator expects; no block runs twice, and a worker behind a
\* block finds it completed.
THEOREM AgreementRight == MCSpec => []WorkersAgree
<1>1. PlanInv => Building!StatesShared
  <2> SUFFICES ASSUME PlanInv PROVE Building!StatesShared
    OBVIOUS
  <2>1. ~failed
    BY DEF PlanInv, PlanTyped
  <2>2. ASSUME NEW w \in Groupers, NEW u \in Groupers, NEW i \in DOMAIN got[w] \cap DOMAIN got[u]
        PROVE  got[w][i] = got[u][i]
    <3>1. got[w] \in Seq(State) /\ got[u] \in Seq(State)
      BY DEF PlanInv, PlanTyped
    <3>2. i \in 1 .. Len(got[w]) /\ i \in 1 .. Len(got[u])
      BY <2>2, <3>1
    <3> QED
      BY <3>2 DEF PlanInv, Numbered
  <2> QED
    BY <2>1, <2>2 DEF Building!StatesShared, Building!States!StatesShared
<1>2. PlanInv => Building!RunsOnce
  <2> SUFFICES ASSUME PlanInv PROVE Building!RunsOnce
    OBVIOUS
  <2>1. ASSUME NEW w \in Groupers, NEW i \in 0 .. onceNr[w] - 1
        PROVE  \E u \in Groupers : <<i, u>> \in ended
    <3>0. onceNr[w] \in Nat /\ oncesExecuted \in Nat /\ onceNr[w] <= oncesExecuted
      BY DEF PlanInv, PlanTyped, Blocks
    <3>1. i \in 0 .. oncesExecuted - 1
      BY <3>0
    <3> QED
      BY <3>1 DEF PlanInv, Blocks
  <2> QED
    BY <2>1 DEF PlanInv, Blocks, Building!RunsOnce, Building!States!RunsOnce
<1> QED
  BY <1>1, <1>2, PlanInvariance, PTL DEF WorkersAgree

-----------------------------------------------------------------------------
(* The result of a plan *)

NrAttrs == Len(ElementSizes)

Block == [max : Nat, size : Nat, bytes : Nat]

PlacesTyped ==
  /\ planStage \in [Groupers -> {"add", "get", "write", "end", "lead", "done"}]
  /\ planEntered \in [Groupers -> Nat] /\ planLeft \in [Groupers -> Nat]
  /\ planFinals \in Nat /\ planLeader \in Groupers /\ planResult \in [Groupers -> BOOLEAN]

ContentTyped ==
  /\ inputs \in [Groupers -> Seq(Nat)]
  /\ attributes \in Seq([size : Nat, offset : Nat]) /\ rowSize \in Nat
  /\ blocks \in Seq(Block) /\ currentBlock \in [Groupers -> 0 .. Len(blocks)]
  /\ vectors \in [Groupers -> 0 .. MaxVectors] /\ rows \in [Groupers -> Nat]

\* The calls of barrier() from which w has returned, told from where it is.
CallsMade(w) ==
  IF planStage[w] \in {"get", "lead", "done"} THEN Len(inputs[w]) + 1 ELSE Len(inputs[w])

\* Nobody is more than a round of the barrier away from the others, and the round tells
\* how many attributes a worker knows.
InRounds ==
  \A w \in Groupers :
    /\ Len(inputs[w]) <= NrAttrs
    /\ planStage[w] \in {"add", "get"} <=> Len(inputs[w]) < NrAttrs
    /\ \A i \in 1 .. Len(inputs[w]) : inputs[w][i] = i
    /\ planLeft[w] = CallsMade(w)
    /\ \/ planEntered[w] = planLeft[w]
       \/ planEntered[w] = planLeft[w] + 1 /\ planStage[w] \in {"add", "end"}
    /\ planLeft[w] <= planFinals /\ planFinals <= planEntered[w]

\* Each round but the last adds an attribute; the columns of a block lie one behind the
\* other.
Layout ==
  /\ planFinals <= NrAttrs => Len(attributes) = planFinals
  /\ planFinals > NrAttrs => Len(attributes) = NrAttrs
  /\ \A i \in 1 .. Len(attributes) :
       attributes[i].size = ElementSizes[i] /\ attributes[i].offset + attributes[i].size <= rowSize
  /\ \A i, j \in 1 .. Len(attributes) :
       i < j => attributes[i].offset + attributes[i].size <= attributes[j].offset

\* Only who led the last round takes the result, and it does before it is done.
Leading ==
  /\ taken \subseteq {planLeader}
  /\ taken # {} => planFinals = NrAttrs + 1
  /\ \A w \in Groupers : planStage[w] = "lead" => (planResult[w] <=> w = planLeader)
  /\ \A w \in Groupers : planStage[w] = "done" /\ w = planLeader => w \in taken

ResultInv == PlacesTyped /\ ContentTyped /\ InRounds /\ Layout /\ Leading

LEMMA SizeFacts ==
  /\ NrAttrs \in Nat \ {0} /\ Building!Attrs = 1 .. NrAttrs
  /\ \A i \in 1 .. NrAttrs : ElementSizes[i] \in Nat \ {0}
  /\ minBlockSize \in Nat /\ Batches \subseteq Nat \ {0} /\ MaxVectors \in Nat
<1>1. ElementSizes \in Seq(Nat \ {0}) /\ ElementSizes # <<>>
      /\ minBlockSize \in Nat /\ Batches \subseteq Nat \ {0} /\ MaxVectors \in Nat
  BY PlanAssumption DEF Building!SizesAssumption
<1> QED
  BY <1>1 DEF NrAttrs, Building!Attrs

LEMMA ResultInitInv == Building!Init /\ planLeader \in Groupers => ResultInv
<1> SUFFICES ASSUME Building!Init, planLeader \in Groupers PROVE ResultInv
  OBVIOUS
<1>1. /\ planStage = [w \in Groupers |-> "add"] /\ inputs = [w \in Groupers |-> <<>>]
      /\ attributes = <<>> /\ rowSize = 0 /\ blocks = <<>> /\ currentBlock = [w \in Groupers |-> 0]
      /\ vectors = [w \in Groupers |-> 0] /\ rows = [w \in Groupers |-> 0] /\ taken = {}
      /\ planEntered = [w \in Groupers |-> 0] /\ planLeft = [w \in Groupers |-> 0] /\ planFinals = 0
  BY DEF Building!Init, Building!B!Init
<1>2. PlacesTyped /\ ContentTyped
  BY <1>1, SizeFacts DEF PlacesTyped, ContentTyped, Building!Init, Building!B!Init
<1>3. InRounds
  BY <1>1, SizeFacts DEF InRounds, CallsMade
<1>4. Layout
  BY <1>1, SizeFacts DEF Layout
<1>5. Leading
  BY <1>1 DEF Leading
<1> QED
  BY <1>2, <1>3, <1>4, <1>5 DEF ResultInv

\* When a worker waits in a round that nobody is missing from, it is the round after the
\* last one that was completed, and its place in the plan tells which.
LEMMA RoundOfPlan ==
  ASSUME ResultInv, NEW w \in Groupers
  PROVE  /\ planFinals \in Nat /\ NrAttrs \in Nat \ {0} /\ Len(inputs[w]) \in Nat
         /\ planEntered[w] \in Nat /\ planLeft[w] \in Nat
         /\ planStage[w] = "add" => planLeft[w] = Len(inputs[w]) /\ Len(inputs[w]) < NrAttrs
         /\ planStage[w] = "get" => planLeft[w] = Len(inputs[w]) + 1 /\ Len(inputs[w]) < NrAttrs
                                    /\ planFinals = planLeft[w]
         /\ planStage[w] \in {"write", "end"} => planLeft[w] = NrAttrs /\ Len(inputs[w]) = NrAttrs
         /\ planStage[w] \in {"lead", "done"} => planLeft[w] = NrAttrs + 1 /\ Len(inputs[w]) = NrAttrs
                                                 /\ planFinals = NrAttrs + 1
         /\ planFinals <= NrAttrs + 1
         /\ planEntered[w] = planFinals + 1 => /\ planLeft[w] = planFinals
                                               /\ planStage[w] \in {"add", "end"}
<1>1. /\ planFinals \in Nat /\ Len(inputs[w]) \in Nat /\ planEntered[w] \in Nat /\ planLeft[w] \in Nat
      /\ planStage[w] \in {"add", "get", "write", "end", "lead", "done"}
  BY DEF ResultInv, PlacesTyped, ContentTyped
<1>2. /\ Len(inputs[w]) <= NrAttrs
      /\ planStage[w] \in {"add", "get"} <=> Len(inputs[w]) < NrAttrs
      /\ planStage[w] \in {"get", "lead", "done"} => planLeft[w] = Len(inputs[w]) + 1
      /\ planStage[w] \notin {"get", "lead", "done"} => planLeft[w] = Len(inputs[w])
      /\ \/ planEntered[w] = planLeft[w]
         \/ planEntered[w] = planLeft[w] + 1 /\ planStage[w] \in {"add", "end"}
      /\ planLeft[w] <= planFinals /\ planFinals <= planEntered[w]
  BY DEF ResultInv, InRounds, CallsMade
<1> QED
  BY <1>1, <1>2, SizeFacts

\* What a step at the barrier does to the result: nothing but the finalizer's own work.
LEMMA EnterInv ==
  ASSUME ResultInv, NEW w \in Groupers, Building!B!Enter(w), planStage[w] \in {"add", "end"},
         UNCHANGED <<planStage, inputs, attributes, rowSize, blocks, currentBlock, vectors, rows, taken>>
  PROVE  ResultInv'
<1>0. /\ planEntered[w] = planLeft[w] /\ planEntered' = [planEntered EXCEPT ![w] = @ + 1]
      /\ UNCHANGED <<planLeft, planFinals, planLeader, planResult>>
  BY DEF Building!B!Enter
<1>1. PlacesTyped' /\ ContentTyped'
  <2>1. PlacesTyped'
    BY <1>0 DEF ResultInv, PlacesTyped
  <2>2. ContentTyped'
    BY DEF ResultInv, ContentTyped
  <2> QED
    BY <2>1, <2>2
<1>2. /\ planEntered'[w] = planLeft[w] + 1 /\ planLeft[w] \in Nat /\ planFinals \in Nat
      /\ \A u \in Groupers : u # w => planEntered'[u] = planEntered[u]
      /\ \A u \in Groupers : CallsMade(u)' = CallsMade(u)
  BY <1>0 DEF ResultInv, PlacesTyped, CallsMade
<1>3. InRounds'
  BY <1>0, <1>2 DEF ResultInv, InRounds
<1>4. Layout' /\ Leading'
  BY <1>0 DEF ResultInv, Layout, Leading
<1> QED
  BY <1>1, <1>3, <1>4 DEF ResultInv

LEMMA LeaveRoundInv ==
  ASSUME ResultInv, NEW w \in Groupers, Building!B!Leave(w),
         \/ planStage[w] = "add" /\ planStage' = [planStage EXCEPT ![w] = "get"]
         \/ planStage[w] = "end" /\ planStage' = [planStage EXCEPT ![w] = "lead"],
         UNCHANGED <<inputs, attributes, rowSize, blocks, currentBlock, vectors, rows, taken>>
  PROVE  ResultInv'
<1>0. /\ planLeft[w] < planEntered[w] /\ planLeft[w] < planFinals
      /\ planLeft' = [planLeft EXCEPT ![w] = @ + 1]
      /\ planResult' = [planResult EXCEPT ![w] = (w = planLeader)]
      /\ UNCHANGED <<planEntered, planFinals, planLeader>>
  BY DEF Building!B!Leave
<1>1. PlacesTyped' /\ ContentTyped'
  <2>1. PlacesTyped'
    BY <1>0 DEF ResultInv, PlacesTyped
  <2>2. ContentTyped'
    BY DEF ResultInv, ContentTyped
  <2> QED
    BY <2>1, <2>2
<1>2. /\ planStage'[w] \in {"get", "lead"} /\ planLeft'[w] = planLeft[w] + 1
      /\ planStage'[w] = "get" <=> planStage[w] = "add"
      /\ \A u \in Groupers : u # w => planStage'[u] = planStage[u] /\ planLeft'[u] = planLeft[u]
  BY <1>0 DEF ResultInv, PlacesTyped
<1>3. /\ planStage[w] \in {"add", "end"} /\ planLeft[w] = Len(inputs[w]) /\ planEntered[w] = planLeft[w] + 1
      /\ planLeft[w] \in Nat /\ planFinals \in Nat
  BY <1>0, RoundOfPlan DEF ResultInv, InRounds
<1>4. InRounds'
  <2>1. \A u \in Groupers : u # w => CallsMade(u)' = CallsMade(u)
    BY <1>2 DEF CallsMade
  <2>2. CallsMade(w)' = planLeft[w] + 1
    BY <1>2, <1>3 DEF CallsMade
  <2> QED
    BY <1>0, <1>2, <1>3, <2>1, <2>2 DEF ResultInv, InRounds
<1>5. Layout'
  BY <1>0 DEF ResultInv, Layout
<1>6. \A u \in Groupers : planStage'[u] = "lead" => (planResult'[u] <=> u = planLeader)
  <2> TAKE u \in Groupers
  <2>1. CASE u # w
    <3>1. planResult'[u] = planResult[u]
      BY <1>0, <2>1
    <3> QED
      BY <1>2, <2>1, <3>1 DEF ResultInv, Leading
  <2>2. CASE u = w /\ planStage'[w] = "lead"
    BY <1>0, <2>2 DEF ResultInv, PlacesTyped
  <2>3. CASE u = w /\ planStage'[w] # "lead"
    BY <2>3
  <2> QED
    BY <2>1, <2>2, <2>3
<1>7. Leading'
  BY <1>0, <1>2, <1>6 DEF ResultInv, Leading
<1> QED
  BY <1>1, <1>4, <1>5, <1>7 DEF ResultInv

\* The finalizer of a round: all workers wait in it, at the same place of their plans.
LEMMA InFinalizer ==
  ASSUME ResultInv, NEW w \in Groupers, Building!B!Finalize(w)
  PROVE  /\ planFinals' = planFinals + 1 /\ planLeader' = w
         /\ UNCHANGED <<planEntered, planLeft, planResult>>
         /\ planFinals \in Nat /\ planFinals <= NrAttrs
         /\ \A u \in Groupers : /\ planStage[u] \in {"add", "end"}
                                /\ planEntered[u] = planFinals + 1 /\ planLeft[u] = planFinals
                                /\ Len(inputs[u]) = planFinals
                                /\ planStage[u] = "add" <=> planFinals < NrAttrs
<1>0. /\ \A u \in Groupers : planEntered[u] = planFinals + 1
      /\ planFinals' = planFinals + 1 /\ planLeader' = w
      /\ UNCHANGED <<planEntered, planLeft, planResult>>
  BY DEF Building!B!Finalize
<1>1. \A u \in Groupers : /\ planStage[u] \in {"add", "end"} /\ planLeft[u] = planFinals
                          /\ planFinals \in Nat /\ planFinals <= NrAttrs /\ Len(inputs[u]) = planFinals
                          /\ planStage[u] = "add" <=> planFinals < NrAttrs
  BY <1>0, RoundOfPlan
<1> QED
  BY <1>0, <1>1

LEMMA FinalizeInv ==
  ASSUME ResultInv, NEW w \in Groupers, Building!B!Finalize(w),
         UNCHANGED <<planStage, inputs, blocks, currentBlock, vectors, rows, taken>>
  PROVE  PlacesTyped' /\ InRounds' /\ Leading'
<1>1. PlacesTyped'
  BY InFinalizer DEF ResultInv, PlacesTyped
<1>2. InRounds'
  <2>1. \A u \in Groupers : CallsMade(u)' = CallsMade(u)
    BY DEF CallsMade
  <2> QED
    BY <2>1, InFinalizer DEF ResultInv, InRounds
<1>3. taken = {}
  BY InFinalizer, SizeFacts DEF ResultInv, Leading
<1>4. Leading'
  BY <1>3, InFinalizer DEF ResultInv, Leading
<1> QED
  BY <1>1, <1>2, <1>4

\* The attribute of a round gets the place behind those of the rounds before.
LEMMA AddAttributeInv ==
  ASSUME ResultInv, NEW w \in Groupers, Building!addAttribute(w)
  PROVE  ResultInv' /\ planFinals < NrAttrs
<1> DEFINE size == ElementSizes[Len(inputs[w]) + 1]
           new == [size |-> size, offset |-> rowSize]
           n == planFinals
<1>0. /\ planStage[w] = "add" /\ Building!B!Finalize(w)
      /\ attributes' = Append(attributes, new) /\ rowSize' = rowSize + size
      /\ UNCHANGED <<planStage, inputs, blocks, currentBlock, cells, vectors, rows, taken>>
  BY DEF Building!addAttribute, Building!writeVars
<1>1. /\ n \in Nat /\ n < NrAttrs /\ Len(inputs[w]) = n /\ planFinals' = n + 1
      /\ Len(attributes) = n /\ NrAttrs \in Nat
  BY <1>0, InFinalizer, SizeFacts DEF ResultInv, Layout
<1>2. size \in Nat /\ size = ElementSizes[n + 1]
  <2>1. n + 1 \in 1 .. NrAttrs
    BY <1>1
  <2> QED
    BY <1>1, <2>1, SizeFacts
<1>3. rowSize \in Nat /\ attributes \in Seq([size : Nat, offset : Nat]) /\ new \in [size : Nat, offset : Nat]
      /\ new.size = size /\ new.offset = rowSize
  BY <1>2 DEF ResultInv, ContentTyped
<1> HIDE DEF size, new
<1>4. /\ attributes' \in Seq([size : Nat, offset : Nat]) /\ Len(attributes') = n + 1
      /\ attributes'[n + 1] = new /\ \A i \in 1 .. n : attributes'[i] = attributes[i]
      /\ \A i \in 1 .. n : attributes[i].size \in Nat /\ attributes[i].offset \in Nat
  <2> DEFINE A == [size : Nat, offset : Nat]
  <2>1. new \in A /\ attributes \in Seq(A) /\ \A x \in A : x.size \in Nat /\ x.offset \in Nat
    BY <1>3
  <2> HIDE DEF A
  <2>2. /\ attributes' \in Seq(A) /\ Len(attributes') = n + 1
        /\ attributes'[n + 1] = new /\ \A i \in 1 .. n : attributes'[i] = attributes[i]
        /\ \A i \in 1 .. n : attributes[i] \in A
    BY <1>0, <1>1, <2>1
  <2> QED
    BY <2>1, <2>2 DEF A
<1>5. /\ \A i \in 1 .. n : /\ attributes[i].size = ElementSizes[i]
                           /\ attributes[i].offset + attributes[i].size <= rowSize
      /\ \A i, j \in 1 .. n :
           i < j => attributes[i].offset + attributes[i].size <= attributes[j].offset
  BY <1>1 DEF ResultInv, Layout
<1>6. \A i \in 1 .. n + 1 : /\ attributes'[i].size = ElementSizes[i]
                            /\ attributes'[i].offset + attributes'[i].size <= rowSize'
  <2> TAKE i \in 1 .. n + 1
  <2>1. CASE i = n + 1
    BY <1>0, <1>2, <1>3, <1>4, <2>1
  <2>2. CASE i \in 1 .. n
    <3>1. attributes[i].size \in Nat /\ attributes[i].offset \in Nat
          /\ attributes[i].size = ElementSizes[i] /\ attributes[i].offset + attributes[i].size <= rowSize
          /\ attributes'[i] = attributes[i]
      BY <1>4, <1>5, <2>2
    <3>2. rowSize' \in Nat /\ rowSize \in Nat /\ rowSize <= rowSize'
      BY <1>0, <1>2, <1>3
    <3>3. \A x, y, p, q \in Nat : x + y <= p /\ p <= q => x + y <= q
      OBVIOUS
    <3>4. attributes[i].offset + attributes[i].size <= rowSize'
      BY <3>1, <3>2, <3>3
    <3> QED
      BY <3>1, <3>4
  <2> QED
    BY <1>1, <2>1, <2>2
<1>7. \A i, j \in 1 .. n + 1 :
        i < j => attributes'[i].offset + attributes'[i].size <= attributes'[j].offset
  <2> TAKE i, j \in 1 .. n + 1
  <2> HAVE i < j
  <2>1. i \in 1 .. n /\ attributes'[i] = attributes[i]
    BY <1>1, <1>4
  <2>2. CASE j = n + 1
    BY <1>3, <1>4, <1>5, <2>1, <2>2
  <2>3. CASE j \in 1 .. n
    BY <1>4, <1>5, <2>1, <2>3
  <2> QED
    BY <1>1, <2>2, <2>3
<1>8. Layout'
  <2>1. NrAttrs' = NrAttrs /\ ElementSizes' = ElementSizes
    BY DEF NrAttrs
  <2> QED
    BY <1>1, <1>4, <1>6, <1>7 DEF Layout
<1>9. ContentTyped'
  <2>1. rowSize' \in Nat
    BY <1>0, <1>2, <1>3
  <2> QED
    BY <1>0, <1>4, <2>1 DEF ResultInv, ContentTyped
<1> QED
  BY <1>0, <1>1, <1>8, <1>9, FinalizeInv DEF ResultInv

LEMMA FinalizeEndInv ==
  ASSUME ResultInv, NEW w \in Groupers, planStage[w] = "end", Building!B!Finalize(w),
         UNCHANGED <<planStage, inputs, attributes, rowSize, blocks, currentBlock, vectors, rows, taken>>
  PROVE  ResultInv'
<1>1. planFinals = NrAttrs /\ planFinals' = NrAttrs + 1 /\ planFinals \in Nat
  BY InFinalizer, SizeFacts
<1>2. Layout'
  BY <1>1 DEF ResultInv, Layout
<1>3. ContentTyped'
  BY DEF ResultInv, ContentTyped
<1> QED
  BY <1>2, <1>3, FinalizeInv DEF ResultInv

LEMMA GetAttributeInv ==
  ASSUME ResultInv, NEW w \in Groupers, Building!getAttribute(w)
  PROVE  ResultInv'
<1> DEFINE n == Len(inputs[w])
<1>0. /\ planStage[w] = "get" /\ inputs' = [inputs EXCEPT ![w] = Append(@, n + 1)]
      /\ planStage' = [planStage EXCEPT ![w] = IF Len(inputs'[w]) < NrAttrs THEN "add" ELSE "write"]
      /\ UNCHANGED <<attributes, rowSize, blocks, currentBlock, cells, vectors, rows, taken,
                     planEntered, planLeft, planFinals, planLeader, planResult>>
  BY DEF Building!getAttribute, Building!Goto, Building!writeVars, Building!barrierVars, NrAttrs
<1>1. inputs[w] \in Seq(Nat) /\ n \in Nat /\ n < NrAttrs /\ NrAttrs \in Nat
      /\ planLeft[w] = n + 1 /\ planFinals = planLeft[w]
  BY <1>0, RoundOfPlan DEF ResultInv, ContentTyped
<1>2. /\ inputs'[w] = Append(inputs[w], n + 1) /\ Len(inputs'[w]) = n + 1
      /\ \A i \in 1 .. n : inputs'[w][i] = inputs[w][i]
      /\ inputs'[w][n + 1] = n + 1 /\ inputs'[w] \in Seq(Nat)
      /\ \A u \in Groupers : u # w => inputs'[u] = inputs[u] /\ planStage'[u] = planStage[u]
  BY <1>0, <1>1 DEF ResultInv, ContentTyped, PlacesTyped
<1>3. planStage'[w] \in {"add", "write"} /\ (planStage'[w] = "add" <=> n + 1 < NrAttrs)
  BY <1>0, <1>2 DEF ResultInv, PlacesTyped
<1>4. PlacesTyped'
  BY <1>0 DEF ResultInv, PlacesTyped
<1>5. ContentTyped'
  <2>1. inputs' \in [Groupers -> Seq(Nat)]
    BY <1>0, <1>1 DEF ResultInv, ContentTyped
  <2> QED
    BY <1>0, <2>1 DEF ResultInv, ContentTyped
<1>6. InRounds'
  <2>1. \A u \in Groupers : u # w => CallsMade(u)' = CallsMade(u)
    BY <1>2 DEF CallsMade
  <2>2. CallsMade(w)' = n + 1
    BY <1>2, <1>3 DEF CallsMade
  <2>3. \A i \in 1 .. n + 1 : inputs'[w][i] = i
    <3> TAKE i \in 1 .. n + 1
    <3>1. CASE i = n + 1
      BY <1>2, <3>1
    <3>2. CASE i # n + 1
      <4>1. i \in 1 .. n
        BY <1>1, <3>2
      <4> QED
        BY <1>2, <4>1 DEF ResultInv, InRounds
    <3> QED
      BY <3>1, <3>2
  <2>4. planEntered[w] = planLeft[w] /\ planLeft[w] <= planFinals /\ planFinals <= planEntered[w]
    BY <1>0 DEF ResultInv, InRounds
  <2>5. ASSUME NEW u \in Groupers
        PROVE  /\ Len(inputs'[u]) <= NrAttrs
               /\ planStage'[u] \in {"add", "get"} <=> Len(inputs'[u]) < NrAttrs
               /\ \A i \in 1 .. Len(inputs'[u]) : inputs'[u][i] = i
               /\ planLeft'[u] = CallsMade(u)'
               /\ \/ planEntered'[u] = planLeft'[u]
                  \/ planEntered'[u] = planLeft'[u] + 1 /\ planStage'[u] \in {"add", "end"}
               /\ planLeft'[u] <= planFinals' /\ planFinals' <= planEntered'[u]
    <3>1. CASE u = w
      <4> HIDE DEF n
      <4> QED
        BY <1>0, <1>1, <1>2, <1>3, <2>2, <2>3, <2>4, <3>1
    <3>2. CASE u # w
      BY <1>0, <1>2, <2>1, <3>2 DEF ResultInv, InRounds
    <3> QED
      BY <3>1, <3>2
  <2> QED
    BY <2>5 DEF InRounds, NrAttrs
<1>7. Layout'
  BY <1>0 DEF ResultInv, Layout
<1>8. Leading'
  BY <1>0, <1>2, <1>3 DEF ResultInv, Leading
<1> QED
  BY <1>4, <1>5, <1>6, <1>7, <1>8 DEF ResultInv

LEMMA EndOfStreamInv ==
  ASSUME ResultInv, NEW w \in Groupers, Building!EndOfStream(w)
  PROVE  ResultInv'
<1>0. /\ planStage[w] = "write" /\ planStage' = [planStage EXCEPT ![w] = "end"]
      /\ UNCHANGED <<inputs, attributes, rowSize, blocks, currentBlock, cells, vectors, rows, taken,
                     planEntered, planLeft, planFinals, planLeader, planResult>>
  BY DEF Building!EndOfStream, Building!Goto, Building!buildVars, Building!writeVars, Building!barrierVars
<1>1. PlacesTyped' /\ ContentTyped'
  BY <1>0 DEF ResultInv, PlacesTyped, ContentTyped
<1>2. planStage'[w] = "end" /\ \A u \in Groupers : u # w => planStage'[u] = planStage[u]
  BY <1>0 DEF ResultInv, PlacesTyped
<1>3. InRounds'
  <2>1. \A u \in Groupers : CallsMade(u)' = CallsMade(u)
    BY <1>0, <1>2 DEF CallsMade
  <2> QED
    BY <1>0, <1>2, <2>1 DEF ResultInv, InRounds
<1>4. Layout' /\ Leading'
  BY <1>0, <1>2 DEF ResultInv, Layout, Leading
<1> QED
  BY <1>1, <1>3, <1>4 DEF ResultInv

\* The leader takes the result.
LEMMA TakeResultInv ==
  ASSUME ResultInv, NEW w \in Groupers, Building!TakeResult(w)
  PROVE  ResultInv'
<1>0. /\ planStage[w] = "lead" /\ planStage' = [planStage EXCEPT ![w] = "done"]
      /\ taken' = IF planResult[w] THEN taken \cup {w} ELSE taken
      /\ UNCHANGED <<inputs, attributes, rowSize, blocks, currentBlock, cells, vectors, rows,
                     planEntered, planLeft, planFinals, planLeader, planResult>>
  BY DEF Building!TakeResult, Building!Goto, Building!buildVars, Building!barrierVars
<1>1. PlacesTyped' /\ ContentTyped'
  BY <1>0 DEF ResultInv, PlacesTyped, ContentTyped
<1>2. planStage'[w] = "done" /\ \A u \in Groupers : u # w => planStage'[u] = planStage[u]
  BY <1>0 DEF ResultInv, PlacesTyped
<1>3. InRounds'
  <2>1. \A u \in Groupers : CallsMade(u)' = CallsMade(u)
    BY <1>0, <1>2 DEF CallsMade
  <2> QED
    BY <1>0, <1>2, <2>1 DEF ResultInv, InRounds
<1>4. Layout'
  BY <1>0 DEF ResultInv, Layout
<1>5. (planResult[w] <=> w = planLeader) /\ planFinals = NrAttrs + 1
  BY <1>0, RoundOfPlan DEF ResultInv, Leading
<1>6. taken \subseteq taken' /\ (w = planLeader => w \in taken') /\ taken' \subseteq {planLeader}
  BY <1>0, <1>5 DEF ResultInv, Leading
<1>7. Leading'
  BY <1>0, <1>2, <1>5, <1>6 DEF ResultInv, Leading
<1> QED
  BY <1>1, <1>3, <1>4, <1>7 DEF ResultInv

\* The value i of the t-th tuple of w, in row r of block k.
CellOf(k, i, r, w, t) ==
  [block |-> k, from |-> Building!Address(blocks[k], i, r), size |-> ElementSizes[i],
   tuple |-> <<w, t>>, value |-> i]

RowsIn(k) == 0 .. blocks[k].size - 1
TuplesOf(w) == 0 .. rows[w] - 1

\* A block is made when all attributes are known, and never overfilled.
BlocksSized ==
  \A k \in 1 .. Len(blocks) :
    /\ planFinals >= NrAttrs
    /\ blocks[k].size <= blocks[k].max /\ blocks[k].bytes = blocks[k].max * rowSize

\* Whatever was copied is a value of a tuple in its column of a row.
CellsKnown ==
  \A c1 \in cells : \E k \in 1 .. Len(blocks), w \in Groupers, i \in 1 .. NrAttrs :
    \E r \in RowsIn(k), t \in TuplesOf(w) : c1 = CellOf(k, i, r, w, t)

CellsDisjoint ==
  \A c1, c2 \in cells :
    c1 # c2 /\ c1.block = c2.block =>
      c1.from + c1.size <= c2.from \/ c2.from + c2.size <= c1.from

\* Each row holds a tuple.
RowsFilled ==
  \A k \in 1 .. Len(blocks) : \A r \in RowsIn(k) :
    \E w \in Groupers : \E t \in TuplesOf(w) : \A i \in 1 .. NrAttrs : CellOf(k, i, r, w, t) \in cells

\* Each tuple is in one row.
TuplesWritten ==
  \A w \in Groupers : \A t \in TuplesOf(w) :
    \E k \in 1 .. Len(blocks) : \E r \in RowsIn(k) :
      /\ \A i \in 1 .. NrAttrs : CellOf(k, i, r, w, t) \in cells
      /\ \A c1 \in cells :
           c1.tuple = <<w, t>> => \E i \in 1 .. NrAttrs : c1 = CellOf(k, i, r, w, t)

Filled == BlocksSized /\ CellsKnown /\ CellsDisjoint /\ RowsFilled /\ TuplesWritten

\* A step that leaves the layout and what was written alone.
LEMMA FilledStays ==
  ASSUME ResultInv, Filled, UNCHANGED <<attributes, rowSize, blocks, cells, rows>>,
         planFinals' \in {planFinals, planFinals + 1}
  PROVE  Filled'
<1>0. planFinals \in Nat /\ NrAttrs \in Nat
  BY SizeFacts DEF ResultInv, PlacesTyped
<1>1. BlocksSized'
  BY <1>0 DEF Filled, BlocksSized
<1>2. /\ \A k, i, r, w, t : CellOf(k, i, r, w, t)' = CellOf(k, i, r, w, t)
      /\ \A k : RowsIn(k)' = RowsIn(k)
      /\ \A w : TuplesOf(w)' = TuplesOf(w)
  BY DEF CellOf, RowsIn, TuplesOf, Building!Address
<1>3. CellsKnown' /\ CellsDisjoint'
  BY <1>2 DEF Filled, CellsKnown, CellsDisjoint
<1>4. RowsFilled'
  BY <1>2 DEF Filled, RowsFilled
<1>5. TuplesWritten'
  <2>1. TuplesWritten /\ blocks' = blocks /\ cells' = cells
    BY DEF Filled
  <2> QED
    <3> SUFFICES ASSUME NEW w \in Groupers, NEW t \in TuplesOf(w)'
                 PROVE  (\E k \in 1 .. Len(blocks) : \E r \in RowsIn(k) :
                           /\ \A i \in 1 .. NrAttrs : CellOf(k, i, r, w, t) \in cells
                           /\ \A c1 \in cells :
                                c1.tuple = <<w, t>> => \E i \in 1 .. NrAttrs : c1 = CellOf(k, i, r, w, t))'
      BY DEF TuplesWritten
    <3>1. t \in TuplesOf(w)
      BY <1>2
    <3>0. PICK k \in 1 .. Len(blocks) : \E r \in RowsIn(k) :
            /\ \A i \in 1 .. NrAttrs : CellOf(k, i, r, w, t) \in cells
            /\ \A c1 \in cells : c1.tuple = <<w, t>> => \E i \in 1 .. NrAttrs : c1 = CellOf(k, i, r, w, t)
      BY <2>1, <3>1 DEF TuplesWritten
    <3>2. PICK r \in RowsIn(k) :
            /\ \A i \in 1 .. NrAttrs : CellOf(k, i, r, w, t) \in cells
            /\ \A c1 \in cells : c1.tuple = <<w, t>> => \E i \in 1 .. NrAttrs : c1 = CellOf(k, i, r, w, t)
      BY <3>0
    <3>3. r \in RowsIn(k)' /\ NrAttrs' = NrAttrs
      BY <1>2 DEF NrAttrs
    <3>4. \A i : CellOf(k, i, r, w, t)' = CellOf(k, i, r, w, t)
      BY <1>2
    <3>5. \A i \in 1 .. NrAttrs' : CellOf(k, i, r, w, t)' \in cells'
      BY <2>1, <3>2, <3>3, <3>4
    <3>6. ASSUME NEW c1 \in cells', c1.tuple = <<w, t>>
          PROVE  \E i \in 1 .. NrAttrs' : c1 = CellOf(k, i, r, w, t)'
      <4>1. PICK i \in 1 .. NrAttrs : c1 = CellOf(k, i, r, w, t)
        BY <2>1, <3>2, <3>6
      <4> QED
        BY <3>3, <3>4, <4>1
    <3>7. k \in 1 .. Len(blocks')
      BY <2>1
    <3> QED
      BY <3>3, <3>5, <3>6, <3>7
<1> QED
  BY <1>1, <1>3, <1>4, <1>5 DEF Filled

\* While attributes are added there is no block yet.
LEMMA NothingFilled ==
  ASSUME ResultInv, Filled, planFinals < NrAttrs
  PROVE  blocks = <<>> /\ cells = {} /\ \A w \in Groupers : rows[w] = 0
<1>1. Len(blocks) = 0 /\ blocks = <<>>
  <2>1. planFinals \in Nat /\ NrAttrs \in Nat /\ blocks \in Seq(Block) /\ Len(blocks) \in Nat
    BY SizeFacts DEF ResultInv, PlacesTyped, ContentTyped
  <2>2. 1 \notin 1 .. Len(blocks)
    BY <2>1 DEF Filled, BlocksSized
  <2> QED
    BY <2>1, <2>2
<1>2. cells = {}
  BY <1>1 DEF Filled, CellsKnown
<1>3. ASSUME NEW w \in Groupers PROVE rows[w] = 0
  <2>1. rows[w] \in Nat
    BY DEF ResultInv, ContentTyped
  <2>2. 0 \notin TuplesOf(w)
    BY <1>1 DEF Filled, TuplesWritten
  <2> QED
    BY <2>1, <2>2 DEF TuplesOf
<1> QED
  BY <1>1, <1>2, <1>3

LEMMA FilledAdd ==
  ASSUME ResultInv, Filled, NEW w \in Groupers, Building!addAttribute(w)
  PROVE  Filled'
<1>1. planFinals < NrAttrs /\ UNCHANGED <<blocks, cells, rows>>
  BY AddAttributeInv DEF Building!addAttribute, Building!writeVars
<1>2. blocks' = <<>> /\ cells' = {} /\ \A u \in Groupers : rows'[u] = 0
  BY <1>1, NothingFilled
<1>3. Len(blocks') = 0 /\ \A u \in Groupers : TuplesOf(u)' = {}
  BY <1>2 DEF TuplesOf
<1>4. BlocksSized' /\ CellsKnown' /\ CellsDisjoint' /\ RowsFilled' /\ TuplesWritten'
  BY <1>2, <1>3 DEF BlocksSized, CellsKnown, CellsDisjoint, RowsFilled, TuplesWritten
<1> QED
  BY <1>4 DEF Filled

\* Two places in a block do not overlap.
LEMMA ColumnInBlock ==
  ASSUME NEW offset \in Nat, NEW size \in Nat, NEW max \in Nat, NEW r \in Nat, r < max
  PROVE  /\ offset * max + size * r \in Nat
         /\ (offset * max + size * r) + size <= (offset + size) * max
<1>1. PICK d \in Nat : max = (r + 1) + d
  <2>1. max - (r + 1) \in Nat /\ max = (r + 1) + (max - (r + 1))
    OBVIOUS
  <2> QED
    BY <2>1
<1>2. offset * max \in Nat /\ size * r \in Nat /\ size * d \in Nat /\ size * max \in Nat
  BY SMT
<1>3. (offset + size) * max = offset * max + size * max
  BY SMT
<1>4. size * max = (size * r + size) + size * d
  BY <1>1, SMT
<1> QED
  BY <1>2, <1>3, <1>4, SMT

LEMMA ProductsInOrder ==
  ASSUME NEW x \in Nat, NEW y \in Nat, NEW z \in Nat, x <= y
  PROVE  x * z \in Nat /\ y * z \in Nat /\ z * x \in Nat /\ z * y \in Nat /\ x * z <= y * z /\ z * x <= z * y
<1>1. PICK d \in Nat : y = x + d
  <2>1. y - x \in Nat /\ y = x + (y - x)
    OBVIOUS
  <2> QED
    BY <2>1
<1>2. y * z = x * z + d * z /\ d * z \in Nat /\ x * z \in Nat /\ z * x = x * z /\ z * y = y * z
  BY <1>1, SMT
<1> QED
  BY <1>2, SMT

LEMMA RowsApart ==
  ASSUME NEW offset \in Nat, NEW size \in Nat, NEW max \in Nat, NEW r \in Nat, NEW q \in Nat, r < q
  PROVE  (offset * max + size * r) + size <= offset * max + size * q
<1>1. size * (r + 1) <= size * q /\ size * (r + 1) \in Nat /\ size * q \in Nat
  BY ProductsInOrder
<1>2. size * (r + 1) = size * r + size /\ size * r \in Nat /\ offset * max \in Nat
  BY SMT
<1> QED
  BY <1>1, <1>2, SMT

LEMMA LayoutFacts ==
  ASSUME ResultInv, planFinals >= NrAttrs
  PROVE  /\ \A i \in 1 .. NrAttrs : /\ attributes[i].offset \in Nat /\ attributes[i].size \in Nat
                                    /\ attributes[i].size = ElementSizes[i]
                                    /\ attributes[i].offset + attributes[i].size <= rowSize
         /\ \A i, j \in 1 .. NrAttrs :
              i < j => attributes[i].offset + attributes[i].size <= attributes[j].offset
         /\ rowSize \in Nat
<1>1. Len(attributes) = NrAttrs
  BY SizeFacts DEF ResultInv, PlacesTyped, Layout
<1>2. attributes \in Seq([size : Nat, offset : Nat]) /\ rowSize \in Nat
  BY DEF ResultInv, ContentTyped
<1>3. \A i \in 1 .. NrAttrs : attributes[i].offset \in Nat /\ attributes[i].size \in Nat
  <2> DEFINE A == [size : Nat, offset : Nat]
  <2>1. \A x \in A : x.size \in Nat /\ x.offset \in Nat
    OBVIOUS
  <2>2. attributes \in Seq(A)
    BY <1>2
  <2> HIDE DEF A
  <2> QED
    BY <1>1, <2>1, <2>2
<1> QED
  BY <1>1, <1>2, <1>3 DEF ResultInv, Layout

\* Two cells of a block that is not overfilled are the same place or apart, and in it.
LEMMA PlacesApart ==
  ASSUME ResultInv, planFinals >= NrAttrs, NEW block \in Block, block.bytes = block.max * rowSize,
         NEW i \in 1 .. NrAttrs, NEW j \in 1 .. NrAttrs,
         NEW r \in Nat, NEW q \in Nat, r < block.max, q < block.max
  PROVE  /\ Building!Address(block, i, r) \in Nat
         /\ Building!Address(block, i, r) + ElementSizes[i] <= block.bytes
         /\ i # j \/ r # q =>
              \/ Building!Address(block, i, r) + ElementSizes[i] <= Building!Address(block, j, q)
              \/ Building!Address(block, j, q) + ElementSizes[j] <= Building!Address(block, i, r)
<1> DEFINE M == block.max
           o(x) == attributes[x].offset
           s(x) == attributes[x].size
<1>0. M \in Nat /\ r < M /\ q < M /\ block.bytes = M * rowSize
  BY DEF Block
<1>1. \A x \in 1 .. NrAttrs : /\ o(x) \in Nat /\ s(x) \in Nat /\ s(x) = ElementSizes[x]
                              /\ o(x) + s(x) <= rowSize
  BY LayoutFacts
<1>2. \A x, y \in 1 .. NrAttrs : x < y => o(x) + s(x) <= o(y)
  BY LayoutFacts
<1>3. \A x, p : Building!Address(block, x, p) = o(x) * M + s(x) * p
  BY DEF Building!Address
<1>4. rowSize \in Nat /\ NrAttrs \in Nat
  BY LayoutFacts, SizeFacts
<1> HIDE DEF M, o, s
<1>5. ASSUME NEW x \in 1 .. NrAttrs, NEW p \in Nat, p < M
      PROVE  /\ o(x) * M + s(x) * p \in Nat
             /\ (o(x) * M + s(x) * p) + s(x) <= (o(x) + s(x)) * M
             /\ (o(x) + s(x)) * M \in Nat
  <2>1. o(x) \in Nat /\ s(x) \in Nat /\ o(x) + s(x) \in Nat
    BY <1>1
  <2>2. (o(x) + s(x)) * M \in Nat
    BY <1>0, <2>1, ProductsInOrder
  <2> QED
    BY <1>0, <1>5, <2>1, <2>2, ColumnInBlock
<1>6. ASSUME NEW x \in 1 .. NrAttrs, NEW y \in 1 .. NrAttrs, x < y,
             NEW p \in Nat, p < M, NEW z \in Nat, z < M
      PROVE  (o(x) * M + s(x) * p) + s(x) <= o(y) * M + s(y) * z
  <2>1. o(x) + s(x) \in Nat /\ o(y) \in Nat /\ s(y) \in Nat /\ o(x) + s(x) <= o(y)
    BY <1>1, <1>2, <1>6
  <2>2. (o(x) + s(x)) * M <= o(y) * M /\ o(y) * M \in Nat /\ (o(x) + s(x)) * M \in Nat
    BY <1>0, <2>1, ProductsInOrder
  <2>3. s(y) * z \in Nat
    BY <2>1, ProductsInOrder
  <2>4. /\ o(x) * M + s(x) * p \in Nat /\ (o(x) * M + s(x) * p) + s(x) <= (o(x) + s(x)) * M
    BY <1>5, <1>6
  <2>5. s(x) \in Nat
    BY <1>1
  <2> DEFINE u == o(x) * M + s(x) * p
             v == (o(x) + s(x)) * M
             e == o(y) * M
             f == s(y) * z
  <2>6. u \in Nat /\ v \in Nat /\ e \in Nat /\ f \in Nat /\ u + s(x) <= v /\ v <= e
    BY <2>2, <2>3, <2>4
  <2> HIDE DEF u, v, e, f
  <2>7. u + s(x) <= e + f
    BY <2>5, <2>6
  <2> QED
    BY <2>7 DEF u, e, f
<1>7. (o(i) * M + s(i) * r) + s(i) <= M * rowSize
  <2>1. o(i) + s(i) \in Nat /\ o(i) + s(i) <= rowSize /\ s(i) \in Nat
    BY <1>1
  <2>2. (o(i) + s(i)) * M <= rowSize * M /\ rowSize * M \in Nat /\ rowSize * M = M * rowSize
    BY <1>0, <1>4, <2>1, ProductsInOrder
  <2>3. /\ o(i) * M + s(i) * r \in Nat /\ (o(i) * M + s(i) * r) + s(i) <= (o(i) + s(i)) * M
        /\ (o(i) + s(i)) * M \in Nat
    BY <1>0, <1>5
  <2> DEFINE u == o(i) * M + s(i) * r
             v == (o(i) + s(i)) * M
             e == rowSize * M
  <2>4. u \in Nat /\ v \in Nat /\ e \in Nat /\ u + s(i) <= v /\ v <= e
    BY <2>2, <2>3
  <2> HIDE DEF u, v, e
  <2>5. u + s(i) <= e
    BY <2>1, <2>4
  <2> QED
    BY <2>2, <2>5 DEF u, e
<1>8. i # j \/ r # q =>
        \/ (o(i) * M + s(i) * r) + s(i) <= o(j) * M + s(j) * q
        \/ (o(j) * M + s(j) * q) + s(j) <= o(i) * M + s(i) * r
  <2>1. CASE i < j
    BY <1>0, <1>6, <2>1
  <2>2. CASE j < i
    BY <1>0, <1>6, <2>2
  <2>3. CASE i = j /\ r < q
    <3>1. o(i) \in Nat /\ s(i) \in Nat
      BY <1>1
    <3> QED
      BY <1>0, <2>3, <3>1, RowsApart
  <2>4. CASE i = j /\ q < r
    <3>1. o(i) \in Nat /\ s(i) \in Nat
      BY <1>1
    <3> QED
      BY <1>0, <2>4, <3>1, RowsApart
  <2>5. i < j \/ j < i \/ (i = j /\ (r < q \/ q < r \/ r = q))
    BY <1>4
  <2> QED
    BY <2>1, <2>2, <2>3, <2>4, <2>5
<1> QED
  BY <1>0, <1>1, <1>3, <1>5, <1>7, <1>8

\* What w has done when it has written n tuples, the next of its own after m, into block
\* k, whose first s rows were filled.
Written(w, n, m, k, s) ==
  /\ blocks' \in Seq(Block) /\ k \in 1 .. Len(blocks')
  /\ Len(blocks) <= Len(blocks')
  /\ \A j \in 1 .. Len(blocks) : blocks'[j].max = blocks[j].max
  /\ \A j \in 1 .. Len(blocks') : j # k => j \in 1 .. Len(blocks) /\ blocks'[j] = blocks[j]
  /\ blocks'[k].size = s + n /\ s + n <= blocks'[k].max
  /\ blocks'[k].bytes = blocks'[k].max * rowSize
  /\ k \in 1 .. Len(blocks) => s = blocks[k].size
  /\ k \notin 1 .. Len(blocks) => s = 0
  /\ cells \subseteq cells'
  /\ \A i \in 1 .. NrAttrs, r \in 0 .. n - 1 : CellOf(k, i, s + r, w, m + r)' \in cells'
  /\ \A c1 \in cells' : c1 \in cells \/ \E i \in 1 .. NrAttrs, r \in 0 .. n - 1 :
                                          c1 = CellOf(k, i, s + r, w, m + r)'
  /\ m = rows[w] /\ rows' = [rows EXCEPT ![w] = m + n]
  /\ currentBlock' = [currentBlock EXCEPT ![w] = k]
  /\ vectors[w] < MaxVectors /\ vectors' = [vectors EXCEPT ![w] = @ + 1]
  /\ UNCHANGED <<planStage, inputs, attributes, rowSize, taken,
                 planEntered, planLeft, planFinals, planLeader, planResult>>

LEMMA BlockFields == \A block \in Block : block.max \in Nat /\ block.size \in Nat /\ block.bytes \in Nat
BY DEF Block

LEMMA BlockFacts ==
  ASSUME ResultInv, NEW k \in 1 .. Len(blocks)
  PROVE  blocks[k] \in Block /\ blocks[k].max \in Nat /\ blocks[k].size \in Nat /\ blocks[k].bytes \in Nat
<1>1. blocks[k] \in Block
  BY DEF ResultInv, ContentTyped
<1> QED
  BY <1>1 DEF Block

LEMMA Resized ==
  ASSUME NEW block \in Block, NEW x \in Nat
  PROVE  LET b1 == [block EXCEPT !.size = x]
         IN  b1 \in Block /\ b1.max = block.max /\ b1.size = x /\ b1.bytes = block.bytes
BY DEF Block

\* A vector that is copied to a block with room for it.
LEMMA CopyFacts ==
  ASSUME ResultInv, planFinals >= NrAttrs, NEW w \in Groupers,
         Len(inputs[w]) = NrAttrs, \A i \in 1 .. NrAttrs : inputs[w][i] = i,
         NEW n \in Nat \ {0}, NEW known \in Seq(Block), NEW k \in 1 .. Len(known),
         Len(blocks) <= Len(known), \A j \in 1 .. Len(blocks) : known[j] = blocks[j],
         \A j \in 1 .. Len(known) : j # k => j \in 1 .. Len(blocks),
         known[k].size + n <= known[k].max, known[k].bytes = known[k].max * rowSize,
         k \notin 1 .. Len(blocks) => known[k].size = 0,
         Building!Copy(w, n, known, k), vectors[w] < MaxVectors,
         UNCHANGED <<planStage, inputs, attributes, rowSize, taken,
                     planEntered, planLeft, planFinals, planLeader, planResult>>
  PROVE  \E m \in Nat, s \in Nat : Written(w, n, m, k, s)
<1>1. PICK m \in Nat, s \in Nat : m = rows[w] /\ s = known[k].size
  <2>1. rows[w] \in Nat /\ known[k] \in Block
    BY DEF ResultInv, ContentTyped
  <2>2. known[k].size \in Nat
    BY <2>1 DEF Block
  <2> QED
    BY <2>1, <2>2
<1> DEFINE filled == [known[k] EXCEPT !.size = s + n]
           New(i, r) == [block |-> k, from |-> Building!Address(known[k], inputs[w][i], s + r),
                         size |-> ElementSizes[i], tuple |-> <<w, m + r>>, value |-> i]
<1>2. /\ currentBlock' = [currentBlock EXCEPT ![w] = k]
      /\ blocks' = [known EXCEPT ![k] = filled]
      /\ cells' = cells \cup {New(i, r) : i \in 1 .. NrAttrs, r \in 0 .. n - 1}
      /\ rows' = [rows EXCEPT ![w] = m + n]
      /\ vectors' = [vectors EXCEPT ![w] = @ + 1]
  BY <1>1, SizeFacts DEF Building!Copy
<1>3. filled \in Block /\ filled.max = known[k].max /\ filled.size = s + n /\ filled.bytes = known[k].bytes
  <2>1. known[k] \in Block /\ s + n \in Nat
    OBVIOUS
  <2> QED
    BY <2>1, Resized
<1>4. s + n <= filled.max /\ filled.bytes = filled.max * rowSize /\ (k \notin 1 .. Len(blocks) => s = 0)
  BY <1>1, <1>3
<1>5. k \in 1 .. Len(blocks) => s = blocks[k].size
  BY <1>1
<1> HIDE DEF filled
<1>6. /\ blocks' \in Seq(Block) /\ Len(blocks') = Len(known) /\ blocks'[k] = filled
      /\ \A j \in 1 .. Len(known) : j # k => blocks'[j] = known[j]
  BY <1>2, <1>3
<1>7. \A j \in 1 .. Len(blocks) : blocks'[j].max = blocks[j].max
  <2> TAKE j \in 1 .. Len(blocks)
  <2>1. j \in 1 .. Len(known) /\ known[j] = blocks[j]
    BY DEF ResultInv, ContentTyped
  <2> QED
    BY <1>3, <1>6, <2>1
<1>8. \A i \in 1 .. NrAttrs : \A r : CellOf(k, i, s + r, w, m + r)' = New(i, r)
  <2> TAKE i \in 1 .. NrAttrs
  <2> TAKE r
  <2>1. inputs[w][i] = i /\ blocks'[k].max = known[k].max /\ attributes' = attributes
    BY <1>3, <1>6
  <2>2. Building!Address(blocks[k], i, s + r)' = Building!Address(known[k], inputs[w][i], s + r)
    BY <2>1 DEF Building!Address
  <2> QED
    BY <2>2 DEF CellOf
<1> HIDE DEF New
<1>9. /\ cells \subseteq cells'
      /\ \A i \in 1 .. NrAttrs, r \in 0 .. n - 1 : CellOf(k, i, s + r, w, m + r)' \in cells'
      /\ \A c1 \in cells' : c1 \in cells \/ \E i \in 1 .. NrAttrs, r \in 0 .. n - 1 :
                                              c1 = CellOf(k, i, s + r, w, m + r)'
  BY <1>2, <1>8
<1>10. Written(w, n, m, k, s)
  BY <1>1, <1>2, <1>3, <1>4, <1>5, <1>6, <1>7, <1>9 DEF Written
<1> QED
  BY <1>10

LEMMA WriteFacts ==
  ASSUME ResultInv, Filled, NEW w \in Groupers, Building!Write(w)
  PROVE  /\ planFinals >= NrAttrs
         /\ \E n \in Nat \ {0}, k \in Nat, m \in Nat, s \in Nat : Written(w, n, m, k, s)
<1>0. planStage[w] = "write" /\ vectors[w] < MaxVectors
  BY DEF Building!Write
<1>1. /\ planFinals >= NrAttrs /\ Len(inputs[w]) = NrAttrs
      /\ \A i \in 1 .. NrAttrs : inputs[w][i] = i
  <2>1. Len(inputs[w]) = NrAttrs /\ planLeft[w] = NrAttrs
    BY <1>0, RoundOfPlan
  <2>2. planLeft[w] <= planFinals /\ \A i \in 1 .. Len(inputs[w]) : inputs[w][i] = i
    BY DEF ResultInv, InRounds
  <2>3. planFinals \in Nat /\ NrAttrs \in Nat
    BY SizeFacts DEF ResultInv, PlacesTyped
  <2> QED
    BY <2>1, <2>2, <2>3
<1>2. UNCHANGED <<planStage, inputs, attributes, rowSize, taken,
                  planEntered, planLeft, planFinals, planLeader, planResult>>
  BY DEF Building!Write, Building!buildVars, Building!barrierVars
<1>3. PICK n \in Batches :
        \/ Building!Fits(w, n) /\ Building!Copy(w, n, blocks, currentBlock[w])
        \/ ~Building!Fits(w, n) /\ Building!Copy(w, n, Building!createBlock(n), Len(blocks) + 1)
  BY DEF Building!Write
<1>4. n \in Nat \ {0} /\ rowSize \in Nat /\ blocks \in Seq(Block) /\ Len(blocks) \in Nat
  BY SizeFacts DEF ResultInv, ContentTyped
<1>5. ASSUME Building!Fits(w, n), Building!Copy(w, n, blocks, currentBlock[w])
      PROVE  \E k \in Nat, m \in Nat, s \in Nat : Written(w, n, m, k, s)
  <2>0. PICK k, known : k = currentBlock[w] /\ known = blocks
    OBVIOUS
  <2>1. k \in 0 .. Len(blocks)
    BY <2>0 DEF ResultInv, ContentTyped
  <2>2. k # 0
    BY <1>4, <1>5, <2>0 DEF Building!Fits, Building!spaceRemaining
  <2>3. k \in 1 .. Len(blocks)
    BY <1>4, <2>1, <2>2
  <2>4. blocks[k].max - blocks[k].size >= n
    BY <1>5, <2>0, <2>2 DEF Building!Fits, Building!spaceRemaining
  <2>5. blocks[k].max \in Nat /\ blocks[k].size \in Nat
    BY <2>3, BlockFacts
  <2>6. blocks[k].size + n <= blocks[k].max
    BY <1>4, <2>4, <2>5
  <2>7. blocks[k].bytes = blocks[k].max * rowSize
    BY <2>3 DEF Filled, BlocksSized
  <2>8. Building!Copy(w, n, known, k)
    BY <1>5, <2>0
  <2>9. \E m \in Nat, s \in Nat : Written(w, n, m, k, s)
    <3>1. /\ known \in Seq(Block) /\ k \in 1 .. Len(known) /\ Len(blocks) <= Len(known)
          /\ \A j \in 1 .. Len(blocks) : known[j] = blocks[j]
          /\ \A j \in 1 .. Len(known) : j # k => j \in 1 .. Len(blocks)
          /\ known[k].size + n <= known[k].max /\ known[k].bytes = known[k].max * rowSize
          /\ (k \notin 1 .. Len(blocks) => known[k].size = 0)
      BY <1>4, <2>0, <2>3, <2>6, <2>7
    <3> QED
      BY <1>0, <1>1, <1>2, <1>4, <2>8, <3>1, CopyFacts
  <2> QED
    BY <1>4, <2>3, <2>9
<1>6. ASSUME ~Building!Fits(w, n), Building!Copy(w, n, Building!createBlock(n), Len(blocks) + 1)
      PROVE  \E k \in Nat, m \in Nat, s \in Nat : Written(w, n, m, k, s)
  <2>0. PICK k, known : k = Len(blocks) + 1 /\ known = Building!createBlock(n)
    OBVIOUS
  <2> DEFINE elements == Building!larger(minBlockSize, n)
             new == [max |-> elements, size |-> 0, bytes |-> elements * rowSize]
  <2>1. elements \in Nat /\ n <= elements
    BY <1>4, SizeFacts DEF Building!larger
  <2>2. elements * rowSize \in Nat
    BY <1>4, <2>1, ProductsInOrder
  <2>3. known = Append(blocks, new)
    BY <2>0 DEF Building!createBlock
  <2>4. new \in Block /\ new.max = elements /\ new.size = 0 /\ new.bytes = elements * rowSize
    BY <2>1, <2>2 DEF Block
  <2>5. Building!Copy(w, n, known, k) /\ k \in Nat
    BY <1>4, <1>6, <2>0
  <2> HIDE DEF elements, new
  <2>6. /\ known \in Seq(Block) /\ k \in 1 .. Len(known) /\ Len(blocks) <= Len(known) /\ known[k] = new
        /\ \A j \in 1 .. Len(blocks) : known[j] = blocks[j]
        /\ \A j \in 1 .. Len(known) : j # k => j \in 1 .. Len(blocks)
    BY <1>4, <2>0, <2>3, <2>4
  <2>7. known[k].size + n <= known[k].max /\ known[k].bytes = known[k].max * rowSize /\ known[k].size = 0
    BY <1>4, <2>1, <2>4, <2>6
  <2>8. \E m \in Nat, s \in Nat : Written(w, n, m, k, s)
    BY <1>0, <1>1, <1>2, <1>4, <2>5, <2>6, <2>7, CopyFacts
  <2> QED
    BY <2>5, <2>8
<1> QED
  BY <1>1, <1>3, <1>4, <1>5, <1>6

\* What was written before a vector keeps its place; the new rows and tuples follow the
\* old ones.
Grown(w, n, m, k, s) ==
  /\ \A j \in 1 .. Len(blocks) :
       /\ \A i, r, u, t : CellOf(j, i, r, u, t)' = CellOf(j, i, r, u, t)
       /\ j \in 1 .. Len(blocks')
       /\ \A r \in RowsIn(j) : r \in RowsIn(j)'
  /\ \A j, r : j \in 1 .. Len(blocks') /\ r \in RowsIn(j)' =>
       \/ j \in 1 .. Len(blocks) /\ r \in RowsIn(j)
       \/ j = k /\ \E q \in 0 .. n - 1 : r = s + q
  /\ \A q \in 0 .. n - 1 : s + q \in RowsIn(k)' /\ m + q \in TuplesOf(w)'
  /\ k \in 1 .. Len(blocks) => \A r \in RowsIn(k) : r < s
  /\ \A u \in Groupers : \A t \in TuplesOf(u) : t \in TuplesOf(u)'
  /\ \A u, t : u \in Groupers /\ t \in TuplesOf(u)' =>
       t \in TuplesOf(u) \/ (u = w /\ \E q \in 0 .. n - 1 : t = m + q)
  /\ \A t \in TuplesOf(w) : t < m
  /\ \A j \in 1 .. Len(blocks) : RowsIn(j) \subseteq Nat
  /\ \A j \in 1 .. Len(blocks') : RowsIn(j)' \subseteq Nat /\ blocks'[j] \in Block

LEMMA WrittenFacts ==
  ASSUME ResultInv, NEW w \in Groupers, NEW n \in Nat \ {0}, NEW k \in Nat, NEW m \in Nat, NEW s \in Nat,
         Written(w, n, m, k, s)
  PROVE  Grown(w, n, m, k, s)
<1>1. /\ blocks \in Seq(Block) /\ Len(blocks) \in Nat /\ blocks' \in Seq(Block) /\ Len(blocks') \in Nat
      /\ rows \in [Groupers -> Nat] /\ Len(blocks) <= Len(blocks') /\ k \in 1 .. Len(blocks')
  <2>1. blocks \in Seq(Block) /\ rows \in [Groupers -> Nat]
    BY DEF ResultInv, ContentTyped
  <2>2. blocks' \in Seq(Block) /\ Len(blocks) <= Len(blocks') /\ k \in 1 .. Len(blocks')
    BY DEF Written
  <2> QED
    BY <2>1, <2>2
<1>2. \A j \in 1 .. Len(blocks') : blocks'[j] \in Block /\ blocks'[j].size \in Nat
  BY <1>1, BlockFields
<1>3. \A j \in 1 .. Len(blocks) : j \in 1 .. Len(blocks') /\ blocks[j].size \in Nat
  BY <1>1, BlockFields
<1>4. /\ blocks'[k].size = s + n /\ (k \in 1 .. Len(blocks) => s = blocks[k].size)
      /\ (k \notin 1 .. Len(blocks) => s = 0)
      /\ \A j \in 1 .. Len(blocks') : j # k => j \in 1 .. Len(blocks) /\ blocks'[j] = blocks[j]
      /\ \A j \in 1 .. Len(blocks) : blocks'[j].max = blocks[j].max
      /\ m = rows[w] /\ rows' = [rows EXCEPT ![w] = m + n] /\ attributes' = attributes
  BY DEF Written
<1>5. \A j \in 1 .. Len(blocks) : \A i, r, u, t : CellOf(j, i, r, u, t)' = CellOf(j, i, r, u, t)
  BY <1>4 DEF CellOf, Building!Address
<1>6. \A j \in 1 .. Len(blocks) : \A r \in RowsIn(j) : r \in RowsIn(j)'
  <2> TAKE j \in 1 .. Len(blocks)
  <2> TAKE r \in RowsIn(j)
  <2>1. CASE j = k
    BY <1>2, <1>3, <1>4, <2>1 DEF RowsIn
  <2>2. CASE j # k
    BY <1>3, <1>4, <2>2 DEF RowsIn
  <2> QED
    BY <2>1, <2>2
<1>7. \A j \in 1 .. Len(blocks') : \A r \in RowsIn(j)' :
        \/ j \in 1 .. Len(blocks) /\ r \in RowsIn(j)
        \/ j = k /\ \E q \in 0 .. n - 1 : r = s + q
  <2> TAKE j \in 1 .. Len(blocks')
  <2> TAKE r \in RowsIn(j)'
  <2>1. CASE j # k
    BY <1>4, <2>1 DEF RowsIn
  <2>2. CASE j = k
    <3>1. r \in 0 .. s + n - 1
      BY <1>4, <2>2 DEF RowsIn
    <3>2. CASE r < s
      BY <1>4, <2>2, <3>1, <3>2 DEF RowsIn
    <3>3. CASE r >= s
      <4>1. r - s \in 0 .. n - 1 /\ r = s + (r - s)
        BY <3>1, <3>3
      <4> QED
        BY <2>2, <4>1
    <3> QED
      BY <3>1, <3>2, <3>3
  <2> QED
    BY <2>1, <2>2
<1>8. \A q \in 0 .. n - 1 : s + q \in RowsIn(k)' /\ m + q \in TuplesOf(w)'
  <2>1. blocks'[k].size = s + n /\ rows'[w] = m + n
    BY <1>1, <1>4
  <2>2. RowsIn(k)' = 0 .. (s + n) - 1 /\ TuplesOf(w)' = 0 .. (m + n) - 1
    BY <2>1 DEF RowsIn, TuplesOf
  <2>3. \A q \in 0 .. n - 1 : s + q \in 0 .. (s + n) - 1 /\ m + q \in 0 .. (m + n) - 1
    OBVIOUS
  <2> QED
    BY <2>2, <2>3
<1>9. k \in 1 .. Len(blocks) => \A r \in RowsIn(k) : r < s
  BY <1>4 DEF RowsIn
<1>10. \A u \in Groupers : \A t \in TuplesOf(u) : t \in TuplesOf(u)'
  <2> TAKE u \in Groupers
  <2>1. rows'[u] \in Nat /\ rows[u] \in Nat /\ rows[u] <= rows'[u]
    BY <1>1, <1>4
  <2> QED
    BY <2>1 DEF TuplesOf
<1>11. \A u \in Groupers : \A t \in TuplesOf(u)' :
         t \in TuplesOf(u) \/ (u = w /\ \E q \in 0 .. n - 1 : t = m + q)
  <2> TAKE u \in Groupers
  <2> TAKE t \in TuplesOf(u)'
  <2>1. CASE u # w
    BY <1>1, <1>4, <2>1 DEF TuplesOf
  <2>2. CASE u = w
    <3>1. t \in 0 .. m + n - 1
      BY <1>1, <1>4, <2>2 DEF TuplesOf
    <3>2. CASE t < m
      BY <1>1, <1>4, <2>2, <3>1, <3>2 DEF TuplesOf
    <3>3. CASE t >= m
      <4>1. t - m \in 0 .. n - 1 /\ t = m + (t - m)
        BY <3>1, <3>3
      <4> QED
        BY <2>2, <4>1
    <3> QED
      BY <3>1, <3>2, <3>3
  <2> QED
    BY <2>1, <2>2
<1>12. \A t \in TuplesOf(w) : t < m
  BY <1>4 DEF TuplesOf
<1>13. \A j \in 1 .. Len(blocks) : RowsIn(j) \subseteq Nat
  BY <1>3 DEF RowsIn
<1>14. \A j \in 1 .. Len(blocks') : RowsIn(j)' \subseteq Nat
  BY <1>2 DEF RowsIn
<1> QED
  BY <1>2, <1>3, <1>5, <1>6, <1>7, <1>8, <1>9, <1>10, <1>11, <1>12, <1>13, <1>14 DEF Grown

LEMMA WriteResultInv ==
  ASSUME ResultInv, NEW w \in Groupers, NEW n \in Nat \ {0}, NEW k \in Nat, NEW m \in Nat, NEW s \in Nat,
         Written(w, n, m, k, s)
  PROVE  ResultInv'
<1>1. PlacesTyped'
  BY DEF ResultInv, PlacesTyped, Written
<1>2. ContentTyped'
  <2>1. /\ blocks' \in Seq(Block) /\ k \in 1 .. Len(blocks') /\ Len(blocks) <= Len(blocks')
        /\ currentBlock' = [currentBlock EXCEPT ![w] = k]
        /\ currentBlock \in [Groupers -> 0 .. Len(blocks)] /\ Len(blocks) \in Nat /\ Len(blocks') \in Nat
    <3>1. /\ blocks' \in Seq(Block) /\ k \in 1 .. Len(blocks') /\ Len(blocks) <= Len(blocks')
          /\ currentBlock' = [currentBlock EXCEPT ![w] = k]
      BY DEF Written
    <3>2. blocks \in Seq(Block) /\ currentBlock \in [Groupers -> 0 .. Len(blocks)]
      BY DEF ResultInv, ContentTyped
    <3> QED
      BY <3>1, <3>2
  <2>2. currentBlock' \in [Groupers -> 0 .. Len(blocks')]
    BY <2>1
  <2>3. vectors' \in [Groupers -> 0 .. MaxVectors] /\ rows' \in [Groupers -> Nat]
    <3>1. /\ vectors[w] < MaxVectors /\ vectors' = [vectors EXCEPT ![w] = @ + 1]
          /\ rows' = [rows EXCEPT ![w] = m + n]
      BY DEF Written
    <3>2. vectors \in [Groupers -> 0 .. MaxVectors] /\ rows \in [Groupers -> Nat]
      BY DEF ResultInv, ContentTyped
    <3> QED
      BY <3>1, <3>2, SizeFacts
  <2>4. UNCHANGED <<inputs, attributes, rowSize>>
    BY DEF Written
  <2> QED
    BY <2>1, <2>2, <2>3, <2>4 DEF ResultInv, ContentTyped
<1>3. UNCHANGED <<planStage, inputs, attributes, rowSize, taken,
                  planEntered, planLeft, planFinals, planLeader, planResult>>
  BY DEF Written
<1>4. InRounds'
  BY <1>3 DEF ResultInv, InRounds, CallsMade, NrAttrs
<1>5. Layout'
  BY <1>3 DEF ResultInv, Layout, NrAttrs
<1>6. Leading'
  BY <1>3 DEF ResultInv, Leading, NrAttrs
<1> QED
  BY <1>1, <1>2, <1>4, <1>5, <1>6 DEF ResultInv

\* The values of the rows of one block do not overlap, whoever wrote them.
LEMMA CellsApartInBlock ==
  ASSUME ResultInv, planFinals >= NrAttrs, NEW block \in Block,
         block.bytes = block.max * rowSize, block.size <= block.max,
         NEW i \in 1 .. NrAttrs, NEW j \in 1 .. NrAttrs,
         NEW r \in 0 .. block.size - 1, NEW q \in 0 .. block.size - 1, i # j \/ r # q
  PROVE  \/ Building!Address(block, i, r) + ElementSizes[i] <= Building!Address(block, j, q)
         \/ Building!Address(block, j, q) + ElementSizes[j] <= Building!Address(block, i, r)
<1>1. block.max \in Nat /\ block.size \in Nat
  BY BlockFields
<1>2. r \in Nat /\ q \in Nat /\ r < block.max /\ q < block.max
  BY <1>1
<1> QED
  BY <1>2, PlacesApart

LEMMA WriteFilled ==
  ASSUME ResultInv, Filled, planFinals >= NrAttrs, NEW w \in Groupers, NEW n \in Nat \ {0},
         NEW k \in Nat, NEW m \in Nat, NEW s \in Nat, Written(w, n, m, k, s)
  PROVE  Filled'
<1>1. Grown(w, n, m, k, s)
  BY WrittenFacts
<1>2. /\ k \in 1 .. Len(blocks') /\ cells \subseteq cells'
      /\ \A i \in 1 .. NrAttrs, r \in 0 .. n - 1 : CellOf(k, i, s + r, w, m + r)' \in cells'
      /\ \A c1 \in cells' : c1 \in cells \/ \E i \in 1 .. NrAttrs, r \in 0 .. n - 1 :
                                              c1 = CellOf(k, i, s + r, w, m + r)'
  BY DEF Written
<1>3. UNCHANGED <<attributes, rowSize, planFinals>>
  BY DEF Written
<1>4. /\ \A j \in 1 .. Len(blocks) :
           /\ \A i, r, u, t : CellOf(j, i, r, u, t)' = CellOf(j, i, r, u, t)
           /\ j \in 1 .. Len(blocks')
           /\ \A r \in RowsIn(j) : r \in RowsIn(j)'
      /\ \A u \in Groupers : \A t \in TuplesOf(u) : t \in TuplesOf(u)'
  BY <1>1 DEF Grown
<1>5. \A q \in 0 .. n - 1 : s + q \in RowsIn(k)' /\ m + q \in TuplesOf(w)'
  BY <1>1 DEF Grown
<1>6. /\ \A j \in 1 .. Len(blocks') : \A r \in RowsIn(j)' :
           \/ j \in 1 .. Len(blocks) /\ r \in RowsIn(j)
           \/ j = k /\ \E q \in 0 .. n - 1 : r = s + q
      /\ \A u \in Groupers : \A t \in TuplesOf(u)' :
           t \in TuplesOf(u) \/ (u = w /\ \E q \in 0 .. n - 1 : t = m + q)
  <2>1. ASSUME NEW j \in 1 .. Len(blocks'), NEW r \in RowsIn(j)'
        PROVE  \/ j \in 1 .. Len(blocks) /\ r \in RowsIn(j)
               \/ j = k /\ \E q \in 0 .. n - 1 : r = s + q
    BY <2>1, <1>1 DEF Grown
  <2>2. ASSUME NEW u \in Groupers, NEW t \in TuplesOf(u)'
        PROVE  t \in TuplesOf(u) \/ (u = w /\ \E q \in 0 .. n - 1 : t = m + q)
    BY <2>2, <1>1 DEF Grown
  <2> QED
    BY <2>1, <2>2
<1>7. BlocksSized'
  <2>1. ASSUME NEW j \in 1 .. Len(blocks')
        PROVE  blocks'[j].size <= blocks'[j].max /\ blocks'[j].bytes = blocks'[j].max * rowSize'
    <3>1. CASE j = k
      BY <1>3, <3>1 DEF Written
    <3>2. CASE j # k
      <4>1. j \in 1 .. Len(blocks) /\ blocks'[j] = blocks[j]
        BY <3>2 DEF Written
      <4> QED
        BY <1>3, <4>1 DEF Filled, BlocksSized
    <3> QED
      BY <3>1, <3>2
  <2> QED
    BY <1>3, <2>1 DEF BlocksSized, NrAttrs
<1>8. \A c1 \in cells : \E j \in 1 .. Len(blocks), u \in Groupers, i \in 1 .. NrAttrs :
        \E r \in RowsIn(j), t \in TuplesOf(u) : c1 = CellOf(j, i, r, u, t)
  BY DEF Filled, CellsKnown
<1>9. \A c1 \in cells' : \E j \in 1 .. Len(blocks'), u \in Groupers, i \in 1 .. NrAttrs :
        \E r \in RowsIn(j)', t \in TuplesOf(u)' : c1 = CellOf(j, i, r, u, t)'
  <2> TAKE c1 \in cells'
  <2>1. CASE c1 \in cells
    <3>1. PICK j \in 1 .. Len(blocks), u \in Groupers, i \in 1 .. NrAttrs :
            \E r \in RowsIn(j), t \in TuplesOf(u) : c1 = CellOf(j, i, r, u, t)
      BY <1>8, <2>1
    <3>2. PICK r \in RowsIn(j), t \in TuplesOf(u) : c1 = CellOf(j, i, r, u, t)
      BY <3>1
    <3>3. /\ j \in 1 .. Len(blocks') /\ r \in RowsIn(j)' /\ t \in TuplesOf(u)'
          /\ CellOf(j, i, r, u, t)' = CellOf(j, i, r, u, t)
      BY <1>4
    <3> QED
      BY <3>2, <3>3
  <2>2. CASE c1 \notin cells
    <3>1. PICK i \in 1 .. NrAttrs, q \in 0 .. n - 1 : c1 = CellOf(k, i, s + q, w, m + q)'
      BY <1>2, <2>2
    <3>2. s + q \in RowsIn(k)' /\ m + q \in TuplesOf(w)'
      BY <1>5
    <3> QED
      BY <1>2, <3>1, <3>2
  <2> QED
    BY <2>1, <2>2
<1>10. CellsKnown'
  BY <1>9 DEF CellsKnown, NrAttrs
<1>11. CellsDisjoint'
  <2> SUFFICES ASSUME NEW c1 \in cells', NEW c2 \in cells', c1 # c2, c1.block = c2.block
               PROVE  c1.from + c1.size <= c2.from \/ c2.from + c2.size <= c1.from
    BY DEF CellsDisjoint
  <2>1. CASE c1 \in cells /\ c2 \in cells
    BY <2>1 DEF Filled, CellsDisjoint
  <2>2. ASSUME NEW j \in 1 .. Len(blocks'), NEW g \in 1 .. Len(blocks'),
               NEW i \in 1 .. NrAttrs, NEW h \in 1 .. NrAttrs,
               NEW r \in RowsIn(j)', NEW q \in RowsIn(g)', NEW u \in Groupers, NEW v \in Groupers,
               NEW t, NEW x, i # h \/ r # q,
               c1 = CellOf(j, i, r, u, t)', c2 = CellOf(g, h, q, v, x)'
        PROVE  c1.from + c1.size <= c2.from \/ c2.from + c2.size <= c1.from
    <3>1. j = g
      BY <2>2 DEF CellOf
    <3>2. PICK block : block = blocks'[j]
      OBVIOUS
    <3>3. block \in Block /\ block.bytes = block.max * rowSize /\ block.size <= block.max
      BY <1>3, <1>7, <3>2, <1>1 DEF Grown, BlocksSized
    <3>4. r \in 0 .. block.size - 1 /\ q \in 0 .. block.size - 1
      BY <3>1, <3>2 DEF RowsIn
    <3>5. \/ Building!Address(block, i, r) + ElementSizes[i] <= Building!Address(block, h, q)
          \/ Building!Address(block, h, q) + ElementSizes[h] <= Building!Address(block, i, r)
      BY <2>2, <3>3, <3>4, CellsApartInBlock
    <3>6. /\ c1.from = Building!Address(block, i, r) /\ c1.size = ElementSizes[i]
          /\ c2.from = Building!Address(block, h, q) /\ c2.size = ElementSizes[h]
      BY <1>3, <2>2, <3>1, <3>2 DEF CellOf, Building!Address
    <3> QED
      BY <3>5, <3>6
  <2>3. ASSUME NEW x \in cells', NEW y \in cells', x \in cells, y \notin cells, x.block = y.block
        PROVE  \E j \in 1 .. Len(blocks'), g \in 1 .. Len(blocks'),
                  i \in 1 .. NrAttrs, h \in 1 .. NrAttrs, u \in Groupers, v \in Groupers :
                 \E r \in RowsIn(j)', q \in RowsIn(g)' : \E t, z :
                   /\ i # h \/ r # q
                   /\ x = CellOf(j, i, r, u, t)' /\ y = CellOf(g, h, q, v, z)'
    <3>1. PICK j \in 1 .. Len(blocks), u \in Groupers, i \in 1 .. NrAttrs :
            \E r \in RowsIn(j), t \in TuplesOf(u) : x = CellOf(j, i, r, u, t)
      BY <1>8, <2>3
    <3>2. PICK r \in RowsIn(j), t \in TuplesOf(u) : x = CellOf(j, i, r, u, t)
      BY <3>1
    <3>3. PICK h \in 1 .. NrAttrs, q \in 0 .. n - 1 : y = CellOf(k, h, s + q, w, m + q)'
      BY <1>2, <2>3
    <3>4. /\ j \in 1 .. Len(blocks') /\ r \in RowsIn(j)' /\ t \in TuplesOf(u)'
          /\ CellOf(j, i, r, u, t)' = CellOf(j, i, r, u, t)
      BY <1>4
    <3>5. s + q \in RowsIn(k)' /\ m + q \in TuplesOf(w)'
      BY <1>5
    <3>6. j = k
      BY <2>3, <3>2, <3>3 DEF CellOf
    <3>7. r < s
      BY <3>6, <1>1 DEF Grown
    <3>8. r # s + q
      <4>1. r \in Nat
        BY <1>1 DEF Grown
      <4> QED
        BY <3>7, <4>1
    <3>9. x = CellOf(j, i, r, u, t)'
      BY <3>2, <3>4
    <3> QED
      BY <1>2, <3>3, <3>4, <3>5, <3>8, <3>9
  <2>4. CASE c1 \in cells /\ c2 \notin cells
    <3>1. PICK j \in 1 .. Len(blocks'), g \in 1 .. Len(blocks'),
               i \in 1 .. NrAttrs, h \in 1 .. NrAttrs, u \in Groupers, v \in Groupers :
            \E r \in RowsIn(j)', q \in RowsIn(g)' : \E t, z :
              /\ i # h \/ r # q
              /\ c1 = CellOf(j, i, r, u, t)' /\ c2 = CellOf(g, h, q, v, z)'
      BY <2>3, <2>4
    <3> QED
      BY <2>2, <3>1
  <2>5. CASE c1 \notin cells /\ c2 \in cells
    <3>1. PICK j \in 1 .. Len(blocks'), g \in 1 .. Len(blocks'),
               i \in 1 .. NrAttrs, h \in 1 .. NrAttrs, u \in Groupers, v \in Groupers :
            \E r \in RowsIn(j)', q \in RowsIn(g)' : \E t, z :
              /\ i # h \/ r # q
              /\ c2 = CellOf(j, i, r, u, t)' /\ c1 = CellOf(g, h, q, v, z)'
      BY <2>3, <2>5
    <3> QED
      BY <2>2, <3>1
  <2>6. CASE c1 \notin cells /\ c2 \notin cells
    <3>1. PICK i \in 1 .. NrAttrs, q \in 0 .. n - 1 : c1 = CellOf(k, i, s + q, w, m + q)'
      BY <1>2, <2>6
    <3>2. PICK h \in 1 .. NrAttrs, r \in 0 .. n - 1 : c2 = CellOf(k, h, s + r, w, m + r)'
      BY <1>2, <2>6
    <3>3. s + q \in RowsIn(k)' /\ s + r \in RowsIn(k)'
      BY <1>5
    <3>4. i # h \/ q # r
      BY <3>1, <3>2
    <3>5. i # h \/ s + q # s + r
      BY <3>4
    <3> QED
      BY <1>2, <2>2, <3>1, <3>2, <3>3, <3>5
  <2> QED
    BY <2>1, <2>4, <2>5, <2>6
<1>12. RowsFilled'
  <2>1. ASSUME NEW j \in 1 .. Len(blocks'), NEW r \in RowsIn(j)'
        PROVE  \E u \in Groupers : \E t \in TuplesOf(u)' :
                 \A i \in 1 .. NrAttrs : CellOf(j, i, r, u, t)' \in cells'
    <3>1. \/ j \in 1 .. Len(blocks) /\ r \in RowsIn(j)
          \/ j = k /\ \E q \in 0 .. n - 1 : r = s + q
      BY <1>6, <2>1
    <3>2. CASE j \in 1 .. Len(blocks) /\ r \in RowsIn(j)
      <4>1. PICK u \in Groupers : \E t \in TuplesOf(u) :
                   \A i \in 1 .. NrAttrs : CellOf(j, i, r, u, t) \in cells
        BY <3>2 DEF Filled, RowsFilled
      <4>2. PICK t \in TuplesOf(u) : \A i \in 1 .. NrAttrs : CellOf(j, i, r, u, t) \in cells
        BY <4>1
      <4>3. t \in TuplesOf(u)' /\ \A i \in 1 .. NrAttrs : CellOf(j, i, r, u, t)' \in cells'
        BY <1>2, <1>4, <3>2, <4>2
      <4> QED
        BY <4>3
    <3>3. CASE j = k /\ \E q \in 0 .. n - 1 : r = s + q
      <4>1. PICK q \in 0 .. n - 1 : r = s + q
        BY <3>3
      <4>2. m + q \in TuplesOf(w)' /\ \A i \in 1 .. NrAttrs : CellOf(j, i, r, w, m + q)' \in cells'
        BY <1>2, <1>5, <3>3, <4>1
      <4> QED
        BY <4>2
    <3> QED
      BY <3>1, <3>2, <3>3
  <2> QED
    BY <2>1 DEF RowsFilled, NrAttrs
<1>13. TuplesWritten'
  <2>1. ASSUME NEW u \in Groupers, NEW t \in TuplesOf(u)'
        PROVE  \E j \in 1 .. Len(blocks') : \E r \in RowsIn(j)' :
                 /\ \A i \in 1 .. NrAttrs : CellOf(j, i, r, u, t)' \in cells'
                 /\ \A c1 \in cells' :
                      c1.tuple = <<u, t>> => \E i \in 1 .. NrAttrs : c1 = CellOf(j, i, r, u, t)'
    <3>1. t \in TuplesOf(u) \/ (u = w /\ \E q \in 0 .. n - 1 : t = m + q)
      BY <1>6, <2>1
    <3>2. \A x \in TuplesOf(w) : x \in Nat /\ x < m
      BY <1>1 DEF Grown, TuplesOf
    <3>3. CASE t \in TuplesOf(u)
      <4>1. PICK j \in 1 .. Len(blocks) : \E r \in RowsIn(j) :
              /\ \A i \in 1 .. NrAttrs : CellOf(j, i, r, u, t) \in cells
              /\ \A c1 \in cells :
                   c1.tuple = <<u, t>> => \E i \in 1 .. NrAttrs : c1 = CellOf(j, i, r, u, t)
        BY <3>3 DEF Filled, TuplesWritten
      <4>2. PICK r \in RowsIn(j) :
              /\ \A i \in 1 .. NrAttrs : CellOf(j, i, r, u, t) \in cells
              /\ \A c1 \in cells :
                   c1.tuple = <<u, t>> => \E i \in 1 .. NrAttrs : c1 = CellOf(j, i, r, u, t)
        BY <4>1
      <4>3. /\ j \in 1 .. Len(blocks') /\ r \in RowsIn(j)'
            /\ \A i : CellOf(j, i, r, u, t)' = CellOf(j, i, r, u, t)
        BY <1>4
      <4>4. ASSUME NEW c1 \in cells', c1.tuple = <<u, t>>
            PROVE  c1 \in cells
        <5> SUFFICES ASSUME c1 \notin cells PROVE FALSE
          OBVIOUS
        <5>1. PICK i \in 1 .. NrAttrs, q \in 0 .. n - 1 : c1 = CellOf(k, i, s + q, w, m + q)'
          BY <1>2
        <5>2. u = w /\ t = m + q
          BY <4>4, <5>1 DEF CellOf
        <5> QED
          BY <3>2, <3>3, <5>2
      <4>5. /\ \A i \in 1 .. NrAttrs : CellOf(j, i, r, u, t)' \in cells'
            /\ \A c1 \in cells' :
                 c1.tuple = <<u, t>> => \E i \in 1 .. NrAttrs : c1 = CellOf(j, i, r, u, t)'
        BY <1>2, <4>2, <4>3, <4>4
      <4> QED
        BY <4>3, <4>5
    <3>4. CASE u = w /\ \E q \in 0 .. n - 1 : t = m + q
      <4>1. PICK q \in 0 .. n - 1 : t = m + q
        BY <3>4
      <4>2. s + q \in RowsIn(k)' /\ \A i \in 1 .. NrAttrs : CellOf(k, i, s + q, u, t)' \in cells'
        BY <1>2, <1>5, <3>4, <4>1
      <4>3. ASSUME NEW c1 \in cells', c1.tuple = <<u, t>>
            PROVE  \E i \in 1 .. NrAttrs : c1 = CellOf(k, i, s + q, u, t)'
        <5>1. CASE c1 \in cells
          <6>1. PICK j \in 1 .. Len(blocks), v \in Groupers, i \in 1 .. NrAttrs :
                  \E r \in RowsIn(j), x \in TuplesOf(v) : c1 = CellOf(j, i, r, v, x)
            BY <1>8, <5>1
          <6>2. PICK r \in RowsIn(j), x \in TuplesOf(v) : c1 = CellOf(j, i, r, v, x)
            BY <6>1
          <6>3. v = w /\ x = m + q
            BY <3>4, <4>1, <4>3, <6>2 DEF CellOf
          <6> QED
            BY <3>2, <6>3
        <5>2. CASE c1 \notin cells
          <6>1. PICK i \in 1 .. NrAttrs, x \in 0 .. n - 1 : c1 = CellOf(k, i, s + x, w, m + x)'
            BY <1>2, <5>2
          <6>2. m + x = m + q
            BY <4>1, <4>3, <6>1 DEF CellOf
          <6>3. x = q
            BY <6>2
          <6> QED
            BY <3>4, <4>1, <6>1, <6>3
        <5> QED
          BY <5>1, <5>2
      <4> QED
        BY <1>2, <4>2, <4>3
    <3> QED
      BY <3>1, <3>3, <3>4
  <2> QED
    BY <2>1 DEF TuplesWritten, NrAttrs
<1> QED
  BY <1>7, <1>10, <1>11, <1>12, <1>13 DEF Filled

LEMMA WriteInv ==
  ASSUME ResultInv, Filled, NEW w \in Groupers, Building!Write(w)
  PROVE  ResultInv' /\ Filled'
<1>1. planFinals >= NrAttrs
  BY WriteFacts
<1>2. PICK n \in Nat \ {0}, k \in Nat, m \in Nat, s \in Nat : Written(w, n, m, k, s)
  BY WriteFacts
<1> QED
  BY <1>1, <1>2, WriteResultInv, WriteFilled

-----------------------------------------------------------------------------

LEMMA StepFilled ==
  ASSUME ResultInv, Filled, NEW w \in Groupers, Building!Step(w)
  PROVE  Filled'
<1>0. planFinals \in Nat
  BY DEF ResultInv, PlacesTyped
<1>1. ASSUME Building!Wait(w) \/ Building!Resume(w) \/ Building!getAttribute(w)
             \/ Building!EndOfStream(w) \/ Building!TakeResult(w)
      PROVE  Filled'
  <2>1. UNCHANGED <<attributes, rowSize, blocks, cells, rows>>
    BY <1>1 DEF Building!Wait, Building!Resume, Building!getAttribute, Building!EndOfStream,
                Building!TakeResult, Building!buildVars, Building!writeVars
  <2>2. planFinals' = planFinals
    BY <1>1 DEF Building!Wait, Building!Resume, Building!getAttribute, Building!EndOfStream,
                Building!TakeResult, Building!barrierVars, Building!B!Enter, Building!B!Leave
  <2> QED
    BY <1>0, <2>1, <2>2, FilledStays
<1>2. ASSUME Building!EndBarrier(w) PROVE Filled'
  <2>1. UNCHANGED <<attributes, rowSize, blocks, cells, rows>>
    BY <1>2 DEF Building!EndBarrier, Building!buildVars, Building!writeVars
  <2>2. planFinals' \in {planFinals, planFinals + 1}
    BY <1>2 DEF Building!EndBarrier, Building!B!Enter, Building!B!Leave, Building!B!Finalize
  <2> QED
    BY <1>0, <2>1, <2>2, FilledStays
<1> QED
  BY <1>1, <1>2, FilledAdd, WriteInv DEF Building!Step

LEMMA StepResultInv ==
  ASSUME ResultInv, Filled, NEW w \in Groupers, Building!Step(w)
  PROVE  ResultInv'
<1>1. ASSUME Building!Wait(w) PROVE ResultInv'
  BY <1>1, EnterInv DEF Building!Wait, Building!buildVars, Building!writeVars
<1>2. ASSUME Building!Resume(w) PROVE ResultInv'
  BY <1>2, LeaveRoundInv DEF Building!Resume, Building!Goto, Building!buildVars, Building!writeVars
<1>3. ASSUME Building!EndBarrier(w) PROVE ResultInv'
  <2>1. CASE Building!B!Enter(w) /\ UNCHANGED planStage
    BY <1>3, <2>1, EnterInv DEF Building!EndBarrier, Building!buildVars, Building!writeVars
  <2>2. CASE Building!B!Finalize(w) /\ UNCHANGED planStage
    BY <1>3, <2>2, FinalizeEndInv DEF Building!EndBarrier, Building!buildVars, Building!writeVars
  <2>3. CASE Building!B!Leave(w) /\ Building!Goto(w, "lead")
    BY <1>3, <2>3, LeaveRoundInv DEF Building!EndBarrier, Building!Goto, Building!buildVars, Building!writeVars
  <2> QED
    BY <1>3, <2>1, <2>2, <2>3 DEF Building!EndBarrier
<1> QED
  BY <1>1, <1>2, <1>3, AddAttributeInv, GetAttributeInv, WriteInv, EndOfStreamInv, TakeResultInv
  DEF Building!Step

LEMMA ResultStepInv ==
  ASSUME ResultInv, Filled, UNCHANGED planVars \/ \E w \in Groupers : Building!WorkerStep(w)
  PROVE  ResultInv' /\ Filled'
<1>1. ASSUME NEW w \in Groupers, Building!Step(w)
      PROVE  ResultInv' /\ Filled'
  BY <1>1, StepResultInv, StepFilled
<1>2. ASSUME UNCHANGED Building!vars
      PROVE  ResultInv' /\ Filled'
  <2>1. UNCHANGED <<planStage, inputs, attributes, rowSize, blocks, currentBlock, cells, vectors, rows,
                    taken, planEntered, planLeft, planFinals, planLeader, planResult>>
    BY <1>2 DEF Building!vars
  <2>2. PlacesTyped' /\ ContentTyped'
    BY <2>1 DEF ResultInv, PlacesTyped, ContentTyped
  <2>3. InRounds'
    BY <2>1 DEF ResultInv, InRounds, CallsMade
  <2>4. Layout'
    BY <2>1 DEF ResultInv, Layout
  <2>5. Leading'
    BY <2>1 DEF ResultInv, Leading
  <2>6. Filled'
    BY <2>1, FilledStays
  <2> QED
    BY <2>2, <2>3, <2>4, <2>5, <2>6 DEF ResultInv
<1>3. UNCHANGED planVars => UNCHANGED Building!vars
  BY DEF planVars, Building!vars
<1> QED
  BY <1>1, <1>2, <1>3 DEF Building!WorkerStep, Building!BuildStep, Building!ResultStep

LEMMA ResultInvariance == MCSpec => [](ResultInv /\ Filled)
<1>1. MCInit => ResultInv /\ Filled
  <2> SUFFICES ASSUME MCInit PROVE ResultInv /\ Filled
    OBVIOUS
  <2>1. planLeader \in Groupers
    BY GroupAssumption, WorkersAssumption DEF MCInit, Group!WorkersAssumption
  <2>2. Building!Init
    BY DEF MCInit, Building!QueryInit
  <2>3. blocks = <<>> /\ cells = {} /\ rows = [w \in Groupers |-> 0]
    BY <2>2 DEF Building!Init
  <2>4. Len(blocks) = 0 /\ \A u \in Groupers : TuplesOf(u) = {}
    BY <2>3 DEF TuplesOf
  <2>5. Filled
    BY <2>3, <2>4 DEF Filled, BlocksSized, CellsKnown, CellsDisjoint, RowsFilled, TuplesWritten
  <2> QED
    BY <2>1, <2>2, <2>5, ResultInitInv
<1>2. ResultInv /\ Filled /\ [MCNext]_allVars => (ResultInv /\ Filled)'
  BY PlanSteps, ResultStepInv
<1> QED
  BY <1>1, <1>2, PTL DEF MCSpec

\* For all sizes of attributes and vectors and every number of workers: the workers know
\* the attributes by the same numbers, no value is copied over another one or past the end
\* of its block, each row holds the values of one tuple and each tuple is in one row; and
\* one worker takes the result, when nobody writes to it any more.
THEOREM ResultsRight == MCSpec => []ResultsComplete
<1>1. ASSUME ResultInv, Filled
      PROVE  ResultsComplete
  <2>0. /\ NrAttrs \in Nat \ {0} /\ Building!Attrs = 1 .. NrAttrs /\ planFinals \in Nat
        /\ attributes \in Seq([size : Nat, offset : Nat]) /\ blocks \in Seq(Block)
        /\ Len(attributes) \in Nat /\ Len(blocks) \in Nat
    BY <1>1, SizeFacts DEF ResultInv, PlacesTyped, ContentTyped
  <2>1. \A S : Building!Cardinality(S) = Cardinality(S)
    BY DEF Building!Cardinality, Cardinality
  <2>2. Building!AttributesAgree
    <3> SUFFICES ASSUME NEW w \in Groupers
                 PROVE  /\ \A i \in DOMAIN inputs[w] :
                             /\ inputs[w][i] \in DOMAIN attributes
                             /\ attributes[inputs[w][i]].size = ElementSizes[i]
                        /\ \A u \in Groupers, i \in DOMAIN inputs[w] :
                             i \in DOMAIN inputs[u] => inputs[u][i] = inputs[w][i]
                        /\ planStage[w] = "get" => Len(attributes) = Len(inputs[w]) + 1
      BY DEF Building!AttributesAgree
    <3>1. \A u \in Groupers : /\ inputs[u] \in Seq(Nat) /\ DOMAIN inputs[u] = 1 .. Len(inputs[u])
                              /\ \A i \in 1 .. Len(inputs[u]) : inputs[u][i] = i
      BY <1>1 DEF ResultInv, ContentTyped, InRounds
    <3>2. Len(inputs[w]) <= Len(attributes) /\ (planStage[w] = "get" => Len(attributes) = Len(inputs[w]) + 1)
      <4>1. Len(inputs[w]) <= planFinals
        <5>1. planLeft[w] <= planFinals /\ planLeft[w] = CallsMade(w) /\ Len(inputs[w]) \in Nat
          BY <1>1, <3>1 DEF ResultInv, InRounds
        <5> QED
          BY <2>0, <5>1 DEF CallsMade
      <4>2. Len(inputs[w]) <= NrAttrs /\ Len(inputs[w]) \in Nat
        BY <1>1, <3>1 DEF ResultInv, InRounds
      <4>3. (planFinals <= NrAttrs => Len(attributes) = planFinals)
            /\ (planFinals > NrAttrs => Len(attributes) = NrAttrs)
        BY <1>1 DEF ResultInv, Layout
      <4>4. planStage[w] = "get" => planFinals = Len(inputs[w]) + 1 /\ Len(inputs[w]) < NrAttrs
        BY <1>1, RoundOfPlan
      <4> QED
        BY <2>0, <4>1, <4>2, <4>3, <4>4
    <3>3. ASSUME NEW i \in DOMAIN inputs[w]
          PROVE  inputs[w][i] \in DOMAIN attributes /\ attributes[inputs[w][i]].size = ElementSizes[i]
      <4>1. inputs[w][i] = i /\ i \in 1 .. Len(inputs[w]) /\ Len(inputs[w]) \in Nat
        BY <3>1
      <4>2. i \in 1 .. Len(attributes)
        BY <2>0, <3>2, <4>1
      <4>3. DOMAIN attributes = 1 .. Len(attributes)
        BY <2>0
      <4> QED
        BY <1>1, <4>1, <4>2, <4>3 DEF ResultInv, Layout
    <3> QED
      BY <3>1, <3>2, <3>3
  <2>3. Building!CellsApart
    <3>1. ASSUME NEW c1 \in cells PROVE c1.from + c1.size <= blocks[c1.block].bytes
      <4>1. PICK k \in 1 .. Len(blocks), w \in Groupers, i \in 1 .. NrAttrs :
              \E r \in RowsIn(k), t \in TuplesOf(w) : c1 = CellOf(k, i, r, w, t)
        BY <1>1 DEF Filled, CellsKnown
      <4>2. PICK r \in RowsIn(k), t \in TuplesOf(w) : c1 = CellOf(k, i, r, w, t)
        BY <4>1
      <4>3. /\ planFinals >= NrAttrs /\ blocks[k].size <= blocks[k].max
            /\ blocks[k].bytes = blocks[k].max * rowSize
        BY <1>1 DEF Filled, BlocksSized
      <4>4. blocks[k] \in Block /\ blocks[k].size \in Nat /\ blocks[k].max \in Nat
        BY <1>1, BlockFacts
      <4>5. r \in Nat /\ r < blocks[k].max
        BY <4>3, <4>4 DEF RowsIn
      <4>6. Building!Address(blocks[k], i, r) + ElementSizes[i] <= blocks[k].bytes
        BY <1>1, <4>3, <4>4, <4>5, PlacesApart
      <4> QED
        BY <4>2, <4>6 DEF CellOf
    <3>2. \A k \in DOMAIN blocks : blocks[k].size <= blocks[k].max
      <4>1. DOMAIN blocks = 1 .. Len(blocks)
        BY <2>0
      <4>2. BlocksSized
        BY <1>1 DEF Filled
      <4> QED
        BY <4>1, <4>2 DEF BlocksSized
    <3> QED
      BY <1>1, <3>1, <3>2 DEF Building!CellsApart, Filled, CellsDisjoint
  <2>4. Building!RowsWhole
    <3>1. ASSUME NEW k \in DOMAIN blocks, NEW row \in 0 .. blocks[k].size - 1
          PROVE  \E c1 \in cells : \A i \in Building!Attrs :
                   \E d \in cells : /\ d.block = k /\ d.tuple = c1.tuple /\ d.value = i
                                    /\ d.from = Building!Address(blocks[k], i, row)
      <4>1. k \in 1 .. Len(blocks) /\ row \in RowsIn(k)
        BY <2>0 DEF RowsIn
      <4>2. PICK w \in Groupers : \E t \in TuplesOf(w) :
              \A i \in 1 .. NrAttrs : CellOf(k, i, row, w, t) \in cells
        BY <1>1, <4>1 DEF Filled, RowsFilled
      <4>3. PICK t \in TuplesOf(w) : \A i \in 1 .. NrAttrs : CellOf(k, i, row, w, t) \in cells
        BY <4>2
      <4>4. CellOf(k, 1, row, w, t) \in cells
        BY <2>0, <4>3
      <4>5. \A i : /\ CellOf(k, i, row, w, t).block = k
                   /\ CellOf(k, i, row, w, t).tuple = CellOf(k, 1, row, w, t).tuple
                   /\ CellOf(k, i, row, w, t).value = i
                   /\ CellOf(k, i, row, w, t).from = Building!Address(blocks[k], i, row)
        BY DEF CellOf
      <4> QED
        BY <2>0, <4>3, <4>4, <4>5
    <3>2. ASSUME NEW w \in Groupers, NEW t \in 0 .. rows[w] - 1
          PROVE  Cardinality({c1 \in cells : c1.tuple = <<w, t>>}) = NrAttrs
      <4>0. t \in TuplesOf(w)
        BY DEF TuplesOf
      <4>1. PICK k \in 1 .. Len(blocks) : \E r \in RowsIn(k) :
              /\ \A i \in 1 .. NrAttrs : CellOf(k, i, r, w, t) \in cells
              /\ \A c1 \in cells :
                   c1.tuple = <<w, t>> => \E i \in 1 .. NrAttrs : c1 = CellOf(k, i, r, w, t)
        BY <1>1, <4>0 DEF Filled, TuplesWritten
      <4>2. PICK r \in RowsIn(k) :
              /\ \A i \in 1 .. NrAttrs : CellOf(k, i, r, w, t) \in cells
              /\ \A c1 \in cells :
                   c1.tuple = <<w, t>> => \E i \in 1 .. NrAttrs : c1 = CellOf(k, i, r, w, t)
        BY <4>1
      <4> DEFINE S == {c1 \in cells : c1.tuple = <<w, t>>}
                 f == [i \in 1 .. NrAttrs |-> CellOf(k, i, r, w, t)]
      <4>3. \A i : CellOf(k, i, r, w, t).tuple = <<w, t>> /\ CellOf(k, i, r, w, t).value = i
        BY DEF CellOf
      <4>4. f \in Bijection(1 .. NrAttrs, S)
        <5>1. \A i \in 1 .. NrAttrs : f[i] \in S
          BY <4>2, <4>3
        <5>2. \A i, j \in 1 .. NrAttrs : f[i] = f[j] => i = j
          BY <4>3
        <5>3. \A c1 \in S : \E i \in 1 .. NrAttrs : f[i] = c1
          BY <4>2
        <5>4. f \in [1 .. NrAttrs -> S]
          BY <5>1
        <5> QED
          BY <5>2, <5>3, <5>4 DEF Bijection, Injection, IsInjective, Surjection
      <4>5. IsFiniteSet(1 .. NrAttrs) /\ Cardinality(1 .. NrAttrs) = NrAttrs
        BY <2>0, FS_Interval
      <4> HIDE DEF S, f
      <4>6. Cardinality(S) = NrAttrs
        BY <4>4, <4>5, FS_Bijection DEF ExistsBijection
      <4> QED
        BY <4>6 DEF S
    <3> QED
      BY <2>1, <3>1, <3>2 DEF Building!RowsWhole, NrAttrs
  <2>5. Building!TakenComplete
    <3>1. Cardinality(taken) <= 1
      <4>1. taken \subseteq {planLeader}
        BY <1>1 DEF ResultInv, Leading
      <4>2. IsFiniteSet({planLeader}) /\ Cardinality({planLeader}) = 1
        BY FS_Singleton
      <4>3. Cardinality(taken) <= Cardinality({planLeader})
        BY <4>1, <4>2, FS_Subset
      <4> QED
        BY <4>2, <4>3
    <3>2. ASSUME taken # {}, NEW w \in Groupers PROVE planStage[w] \in {"end", "lead", "done"}
      <4>1. planFinals = NrAttrs + 1
        BY <1>1, <3>2 DEF ResultInv, Leading
      <4>2. planFinals <= planEntered[w] /\ planEntered[w] \in Nat /\ planLeft[w] \in Nat
            /\ (\/ planEntered[w] = planLeft[w]
                \/ planEntered[w] = planLeft[w] + 1 /\ planStage[w] \in {"add", "end"})
        BY <1>1 DEF ResultInv, InRounds, PlacesTyped
      <4>3. planStage[w] \in {"add", "get", "write", "end", "lead", "done"}
        BY <1>1 DEF ResultInv, PlacesTyped
      <4>4. /\ planStage[w] = "add" => planLeft[w] < NrAttrs
            /\ planStage[w] = "get" => planLeft[w] <= NrAttrs
            /\ planStage[w] = "write" => planLeft[w] = NrAttrs
        BY <1>1, <2>0, RoundOfPlan
      <4> QED
        BY <2>0, <4>1, <4>2, <4>3, <4>4
    <3>3. (\A w \in Groupers : planStage[w] = "done") => taken # {}
      BY <1>1 DEF ResultInv, Leading, PlacesTyped
    <3> QED
      BY <2>1, <3>1, <3>2, <3>3 DEF Building!TakenComplete
  <2> QED
    BY <2>2, <2>3, <2>4, <2>5 DEF ResultsComplete, Building!ResultSound
<1> QED
  BY <1>1, ResultInvariance, PTL

-----------------------------------------------------------------------------

\* The variables of all keep their types: no counter of tuples, partitions, chunks,
\* operators, attributes, rows or workers, and no pointer to a worker or place in a list
\* of blocks, leaves the range it was declared for.
THEOREM TypesRight == MCSpec => []TypesOK
<1>1. IInv /\ ScanInv /\ GroupInv /\ QueriesInv => TypeOK /\ Scan!TypeOK /\ Group!TypeOK /\ Queries!TypeOK
  BY DEF IInv, ScanInv, GroupInv, QueriesInv
<1>2. ASSUME PlanInv
      PROVE  Building!States!TypeOK
  <2>1. \A i \in DOMAIN state : state[i].maker \in Groupers
    <3>1. state \in Seq(State) /\ \A x \in State : x.maker \in Groupers
      BY <1>2 DEF PlanInv, PlanTyped, State
    <3> QED
      BY <3>1
  <2> QED
    BY <1>2, <2>1 DEF PlanInv, PlanTyped, Blocks, Building!States!TypeOK, Building!States!NoWorker
<1>3. ASSUME ResultInv
      PROVE  Building!TypeOK
  <2>1. Len(attributes) <= NrAttrs
    BY <1>3, SizeFacts DEF ResultInv, Layout, PlacesTyped
  <2> QED
    BY <1>3, <2>1 DEF ResultInv, PlacesTyped, ContentTyped, InRounds, Block, NrAttrs, Building!TypeOK
<1>4. IInv /\ ScanInv /\ GroupInv /\ QueriesInv /\ PlanInv /\ ResultInv => TypesOK
  BY <1>1, <1>2, <1>3 DEF TypesOK, Building!TypesOK
<1> QED
  BY <1>4, BuildInvariance, ScanInvariance, GroupInvariance, QueriesInvariance, PlanInvariance,
     ResultInvariance, PTL

=============================================================================
