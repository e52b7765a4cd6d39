--------------------------- MODULE BarriersProofs ---------------------------
(***************************************************************************)
(* Proofs about the two barriers.  The first part is about RuntimeBarrier, *)
(* for every finite set of threads, every number of calls and every width  *)
(* of the round number from one bit up.  The second part is about          *)
(* MCBarriers, the specification that TLC checks: it takes the results on  *)
(* the tree from HierarchicBarrierProofs.                                  *)
(***************************************************************************)
EXTENDS MCBarriers, FiniteSetTheorems, TLAPS

\* The threads that have been counted in the current round and wait for it.
Parked == {t \in Threads : pc[t] = "spin" /\ prevRound[t] = round}

\* t sees prev = 1 and has not yet released the others.
Closing(t) == pc[t] \in {"reset", "finalize", "advance"}

\* How many rounds have been released.
Released == IF \E t \in Threads : pc[t] = "advance" THEN finals - 1 ELSE finals

\* Where a thread stands relative to the rounds that have been released.
Placed(t) ==
  \/ /\ waits[t] = Released
     /\ pc[t] \in {"arrive", "spin"} => prevRound[t] = round
  \/ /\ waits[t] + 1 = Released
     /\ pc[t] = "spin"
     /\ NextRound(prevRound[t]) = round

\* While somebody closes the round all others are parked in it; cntr counts
\* the threads that are not parked.
Counted ==
  /\ \A t \in Threads : Closing(t) =>
       /\ waits[t] = Released
       /\ \A u \in Threads \ {t} : pc[u] = "spin" /\ waits[u] = Released
       /\ cntr = (IF pc[t] = "reset" THEN 0 ELSE threadCount)
  /\ (\A t \in Threads : ~ Closing(t)) =>
       cntr = threadCount - Cardinality(Parked) /\ cntr >= 1

\* Calls are bounded, and the history variable leader tells the thread that
\* closed a round from those it released.
Attributed ==
  \A t \in Threads :
    /\ waits[t] <= Calls
    /\ pc[t] # "out" => waits[t] < Calls
    /\ pc[t] = "advance" => leader = t
    /\ pc[t] = "spin" /\ waits[t] < finals => leader # t

\* The inductive invariant.
IInv ==
  /\ TypeOK
  /\ \A t \in Threads : Placed(t)
  /\ Counted
  /\ Attributed

-----------------------------------------------------------------------------

\* The round number changes whenever it advances, and stays in its range.
LEMMA NextRoundDiffers ==
  \A r \in 0 .. RoundMod - 1 : NextRound(r) \in 0 .. RoundMod - 1 /\ NextRound(r) # r
BY RoundModAssumption DEF NextRound

\* The number of parked threads, with and without one thread more.
LEMMA Counting ==
  /\ threadCount \in Nat /\ threadCount >= 1
  /\ \A S \in SUBSET Threads :
       /\ IsFiniteSet(S)
       /\ Cardinality(S) \in Nat
       /\ \A t \in Threads \ S :
            /\ Cardinality(S \cup {t}) = Cardinality(S) + 1
            /\ Cardinality(S) < threadCount
            /\ Cardinality(S) = threadCount - 1 => S = Threads \ {t}
<1>1. threadCount \in Nat /\ threadCount >= 1
  BY ThreadsAssumption, FS_CardinalityType, FS_EmptySet DEF threadCount
<1>2. ASSUME NEW S \in SUBSET Threads
      PROVE  IsFiniteSet(S) /\ Cardinality(S) \in Nat
  BY ThreadsAssumption, FS_Subset, FS_CardinalityType
<1>3. ASSUME NEW S \in SUBSET Threads, NEW t \in Threads \ S
      PROVE  /\ Cardinality(S \cup {t}) = Cardinality(S) + 1
             /\ Cardinality(S) < threadCount
             /\ Cardinality(S) = threadCount - 1 => S = Threads \ {t}
  <2>1. Cardinality(S \cup {t}) = Cardinality(S) + 1
    BY <1>2, FS_AddElement
  <2>2. IsFiniteSet(Threads \ {t}) /\ Cardinality(Threads \ {t}) = threadCount - 1
    BY ThreadsAssumption, FS_RemoveElement DEF threadCount
  <2>3. S \subseteq Threads \ {t}
    OBVIOUS
  <2>4. Cardinality(S) <= Cardinality(Threads \ {t})
    BY <2>2, <2>3, FS_Subset
  <2>5. Cardinality(S) = Cardinality(Threads \ {t}) => S = Threads \ {t}
    BY <2>2, <2>3, FS_Subset
  <2> QED
    BY <1>1, <1>2, <2>1, <2>2, <2>4, <2>5
<1> QED
  BY <1>1, <1>2, <1>3

-----------------------------------------------------------------------------

\* The constructor establishes the invariant.
LEMMA InitIInv == Init => IInv
<1> SUFFICES ASSUME Init PROVE IInv
  OBVIOUS
<1>1. TypeOK
  BY Counting, RoundModAssumption DEF Init, TypeOK
<1>2. \A t \in Threads : Placed(t)
  BY DEF Init, Placed, Released
<1>3. Parked = {}
  BY DEF Init, Parked
<1>4. Counted
  BY <1>3, Counting, FS_EmptySet DEF Init, Counted, Closing
<1>5. Attributed
  BY CallsAssumption DEF Init, Attributed
<1> QED
  BY <1>1, <1>2, <1>4, <1>5 DEF IInv

\* While one thread is outside its spin loop and not closing, nobody closes
\* the round, and that thread has taken part in every released round.
LEMMA NobodyCloses ==
  ASSUME IInv, NEW t \in Threads, pc[t] \in {"out", "arrive"}
  PROVE  /\ \A u \in Threads : ~ Closing(u)
         /\ Released = finals
         /\ waits[t] = finals
         /\ cntr = threadCount - Cardinality(Parked) /\ cntr >= 1
<1>1. \A u \in Threads : ~ Closing(u)
  BY DEF IInv, Counted, Closing
<1>2. Released = finals
  BY <1>1 DEF Released, Closing
<1>3. waits[t] = finals
  BY <1>2 DEF IInv, Placed
<1> QED
  BY <1>1, <1>2, <1>3 DEF IInv, Counted

LEMMA LoadRoundIInv ==
  ASSUME IInv, NEW t \in Threads, LoadRound(t)
  PROVE  IInv'
<1>1. /\ \A u \in Threads : ~ Closing(u)
      /\ Released = finals /\ waits[t] = finals
      /\ cntr = threadCount - Cardinality(Parked) /\ cntr >= 1
  BY NobodyCloses DEF LoadRound
<1>2. TypeOK'
  BY DEF IInv, TypeOK, LoadRound
<1>3. (\A u \in Threads : ~ Closing(u))' /\ Released' = finals
  BY <1>1 DEF IInv, TypeOK, LoadRound, Closing, Released
<1>4. Parked' = Parked
  BY DEF IInv, TypeOK, LoadRound, Parked
<1>5. (\A u \in Threads : Placed(u))'
  BY <1>1, <1>3 DEF IInv, TypeOK, LoadRound, Placed
<1>6. Counted'
  BY <1>1, <1>3, <1>4 DEF Counted, LoadRound, threadCount
<1>7. Attributed'
  BY DEF IInv, TypeOK, LoadRound, Attributed
<1> QED
  BY <1>2, <1>5, <1>6, <1>7 DEF IInv

LEMMA ArriveIInv ==
  ASSUME IInv, NEW t \in Threads, Arrive(t)
  PROVE  IInv'
<1>1. /\ \A u \in Threads : ~ Closing(u)
      /\ Released = finals /\ waits[t] = finals
      /\ cntr = threadCount - Cardinality(Parked) /\ cntr >= 1
  BY NobodyCloses DEF Arrive
<1>2. prevRound[t] = round /\ t \notin Parked /\ Parked \in SUBSET Threads
  BY <1>1 DEF IInv, Placed, Arrive, Parked
<1>3. TypeOK'
  BY <1>1, Counting DEF IInv, TypeOK, Arrive
<1>4. Released' = finals
  BY <1>1 DEF IInv, TypeOK, Arrive, Released, Closing
<1>5. (\A u \in Threads : Placed(u))'
  BY <1>1, <1>2, <1>4 DEF IInv, TypeOK, Arrive, Placed
<1>6. Attributed'
  BY <1>1 DEF IInv, TypeOK, Arrive, Attributed
<1>7. CASE cntr = 1
  <2>0. Cardinality(Parked) = threadCount - 1
    BY <1>1, <1>2, <1>7, Counting
  <2>1. Parked = Threads \ {t}
    BY <1>2, <2>0, Counting
  <2>2. \A u \in Threads \ {t} : pc[u] = "spin" /\ waits[u] = finals
    BY <1>1, <2>1, NextRoundDiffers DEF Parked, IInv, TypeOK, Placed
  <2>3. \A u \in Threads : Closing(u)' <=> u = t
    BY <1>1, <1>7 DEF IInv, TypeOK, Arrive, Closing
  <2>4. pc'[t] = "reset" /\ cntr' = 0 /\ waits' = waits
        /\ \A u \in Threads \ {t} : pc'[u] = "spin"
    BY <2>2, <1>7 DEF IInv, TypeOK, Arrive
  <2>5. Counted'
    BY <1>1, <1>4, <2>2, <2>3, <2>4 DEF Counted
  <2> QED
    BY <1>3, <1>5, <1>6, <2>5 DEF IInv
<1>8. CASE cntr # 1
  <2>1. Parked' = Parked \cup {t}
    BY <1>2, <1>8 DEF IInv, TypeOK, Arrive, Parked
  <2>2. Cardinality(Parked') = Cardinality(Parked) + 1
    BY <1>2, <2>1, Counting
  <2>3. \A u \in Threads : ~ Closing(u)'
    BY <1>1, <1>8 DEF IInv, TypeOK, Arrive, Closing
  <2>4. cntr' = threadCount - Cardinality(Parked') /\ cntr' >= 1
    BY <1>1, <1>2, <1>8, <2>2, Counting DEF Arrive
  <2>5. Counted'
    BY <2>3, <2>4 DEF Counted, threadCount
  <2> QED
    BY <1>3, <1>5, <1>6, <2>5 DEF IInv
<1> QED
  BY <1>7, <1>8

\* While t closes the round everybody else is parked in it.
LEMMA OthersParked ==
  ASSUME IInv, NEW t \in Threads, Closing(t)
  PROVE  /\ waits[t] = Released
         /\ \A u \in Threads \ {t} :
              pc[u] = "spin" /\ waits[u] = Released /\ prevRound[u] = round
         /\ cntr = (IF pc[t] = "reset" THEN 0 ELSE threadCount)
         /\ Released = (IF pc[t] = "advance" THEN finals - 1 ELSE finals)
<1>1. /\ waits[t] = Released
      /\ \A u \in Threads \ {t} : pc[u] = "spin" /\ waits[u] = Released
      /\ cntr = (IF pc[t] = "reset" THEN 0 ELSE threadCount)
  BY DEF IInv, Counted
<1>2. \A u \in Threads \ {t} : prevRound[u] = round
  BY <1>1 DEF IInv, TypeOK, Placed
<1>3. Released = (IF pc[t] = "advance" THEN finals - 1 ELSE finals)
  BY <1>1 DEF Released
<1> QED
  BY <1>1, <1>2, <1>3

LEMMA ResetCounterIInv ==
  ASSUME IInv, NEW t \in Threads, ResetCounter(t)
  PROVE  IInv'
<1>1. /\ waits[t] = finals /\ Released = finals
      /\ \A u \in Threads \ {t} :
           pc[u] = "spin" /\ waits[u] = finals /\ prevRound[u] = round
  BY OthersParked DEF ResetCounter, Closing
<1>2. TypeOK'
  BY Counting DEF IInv, TypeOK, ResetCounter
<1>3. pc'[t] = "finalize" /\ \A u \in Threads \ {t} : pc'[u] = "spin"
  BY <1>1 DEF IInv, TypeOK, ResetCounter
<1>4. Released' = finals
  BY <1>3 DEF Released, ResetCounter
<1>5. (\A u \in Threads : Placed(u))'
  BY <1>1, <1>3, <1>4 DEF Placed, ResetCounter
<1>6. Counted'
  BY <1>1, <1>3, <1>4 DEF Counted, Closing, ResetCounter, threadCount
<1>7. Attributed'
  BY <1>1, <1>3 DEF IInv, Attributed, ResetCounter
<1> QED
  BY <1>2, <1>5, <1>6, <1>7 DEF IInv

LEMMA RunFinalizerIInv ==
  ASSUME IInv, NEW t \in Threads, RunFinalizer(t)
  PROVE  IInv'
<1>1. /\ waits[t] = finals /\ Released = finals /\ cntr = threadCount
      /\ \A u \in Threads \ {t} :
           pc[u] = "spin" /\ waits[u] = finals /\ prevRound[u] = round
  BY OthersParked DEF RunFinalizer, Closing
<1>2. TypeOK'
  BY DEF IInv, TypeOK, RunFinalizer
<1>3. pc'[t] = "advance" /\ \A u \in Threads \ {t} : pc'[u] = "spin"
  BY <1>1 DEF IInv, TypeOK, RunFinalizer
<1>4. Released' = finals /\ finals' = finals + 1 /\ leader' = t
  BY <1>3 DEF IInv, TypeOK, Released, RunFinalizer
<1>5. (\A u \in Threads : Placed(u))'
  BY <1>1, <1>3, <1>4 DEF Placed, RunFinalizer
<1>6. Counted'
  BY <1>1, <1>3, <1>4 DEF Counted, Closing, RunFinalizer, threadCount
<1>7. Attributed'
  BY <1>1, <1>3, <1>4 DEF IInv, Attributed, RunFinalizer
<1> QED
  BY <1>2, <1>5, <1>6, <1>7 DEF IInv

LEMMA AdvanceRoundIInv ==
  ASSUME IInv, NEW t \in Threads, AdvanceRound(t)
  PROVE  IInv'
<1>1. /\ waits[t] = finals - 1 /\ cntr = threadCount /\ finals \in Nat
      /\ \A u \in Threads \ {t} :
           pc[u] = "spin" /\ waits[u] = finals - 1 /\ prevRound[u] = round
  BY OthersParked DEF AdvanceRound, Closing, IInv, TypeOK
<1>2. round' # round /\ round' \in 0 .. RoundMod - 1
  BY NextRoundDiffers DEF IInv, TypeOK, AdvanceRound
<1>3. TypeOK'
  BY <1>2 DEF IInv, TypeOK, AdvanceRound
<1>4. /\ pc'[t] = "out" /\ waits'[t] = finals
      /\ \A u \in Threads \ {t} : pc'[u] = "spin" /\ waits'[u] = finals - 1
  BY <1>1 DEF IInv, TypeOK, AdvanceRound
<1>5. Released' = finals /\ finals' = finals
  BY <1>4 DEF Released, AdvanceRound
<1>6. (\A u \in Threads : Placed(u))'
  BY <1>1, <1>4, <1>5 DEF Placed, AdvanceRound
<1>7. Parked' = {}
  BY <1>1, <1>2, <1>4 DEF Parked, AdvanceRound
<1>8. (\A u \in Threads : ~ Closing(u))'
  BY <1>4 DEF Closing
<1>9. Counted'
  BY <1>1, <1>7, <1>8, Counting, FS_EmptySet DEF Counted, AdvanceRound, threadCount
<1>10. Attributed'
  BY <1>1, <1>4, <1>5, CallsAssumption DEF IInv, TypeOK, Attributed, AdvanceRound
<1> QED
  BY <1>3, <1>6, <1>9, <1>10 DEF IInv

LEMMA PassRoundIInv ==
  ASSUME IInv, NEW t \in Threads, PassRound(t)
  PROVE  IInv'
<1>1. waits[t] + 1 = Released /\ pc[t] = "spin"
  BY DEF IInv, Placed, PassRound
<1>2. \A u \in Threads : ~ Closing(u)
  BY <1>1, OthersParked DEF IInv, TypeOK, Closing
<1>3. Released = finals
  BY <1>2 DEF Released, Closing
<1>4. TypeOK'
  BY DEF IInv, TypeOK, PassRound
<1>5. (\A u \in Threads : ~ Closing(u))' /\ Released' = finals
  BY <1>2 DEF IInv, TypeOK, PassRound, Closing, Released
<1>6. Parked' = Parked
  BY DEF IInv, TypeOK, PassRound, Parked
<1>7. (\A u \in Threads : Placed(u))'
  BY <1>1, <1>3, <1>5 DEF IInv, TypeOK, PassRound, Placed
<1>8. Counted'
  BY <1>2, <1>5, <1>6 DEF IInv, Counted, PassRound, threadCount
<1>9. Attributed'
  BY <1>1, <1>3, CallsAssumption DEF IInv, TypeOK, PassRound, Attributed
<1> QED
  BY <1>4, <1>7, <1>8, <1>9 DEF IInv

LEMMA StutterIInv ==
  ASSUME IInv, UNCHANGED vars
  PROVE  IInv'
BY DEF IInv, TypeOK, Placed, Released, Counted, Closing, Parked, Attributed, threadCount, vars

-----------------------------------------------------------------------------

\* The inductive invariant holds of every execution of the barrier.
THEOREM Invariance == Spec => []IInv
<1>1. Init => IInv
  BY InitIInv
<1>2. IInv /\ [Next]_vars => IInv'
  BY LoadRoundIInv, ArriveIInv, ResetCounterIInv, RunFinalizerIInv, AdvanceRoundIInv,
     PassRoundIInv, StutterIInv DEF Next, Step, Finished
<1> QED
  BY <1>1, <1>2, PTL DEF Spec

\* cntr never leaves 0 .. threadCount: fetch_sub never wraps the size_t below
\* zero, in any interleaving of any number of threads.
THEOREM TypeCorrect == Spec => []TypeOK
<1>1. IInv => TypeOK
  BY DEF IInv
<1> QED
  BY <1>1, Invariance, PTL

\* The last thread of a round resets the counter and runs the finalizer while
\* all others spin in that round.
THEOREM LastAlone == Spec => []LastIsAlone
<1>1. IInv => LastIsAlone
  BY OthersParked DEF LastIsAlone, Closing
<1> QED
  BY <1>1, Invariance, PTL

\* A waiter is never more than one round behind, for any width of the round.
THEOREM OneBehind == Spec => []AtMostOneBehind
<1>1. IInv => AtMostOneBehind
  BY DEF IInv, Placed, AtMostOneBehind
<1> QED
  BY <1>1, Invariance, PTL

\* Where the threads stand, in terms of the contract.
LEMMA Standing ==
  ASSUME IInv, NEW t \in Threads
  PROVE  waits[t] <= finals /\ finals <= Entered[t]
<1>1. \/ waits[t] = Released
      \/ waits[t] + 1 = Released /\ pc[t] = "spin"
  BY DEF IInv, Placed
<1>2. CASE \E u \in Threads : pc[u] = "advance"
  <2>1. PICK u \in Threads : pc[u] = "advance"
    BY <1>2
  <2>2. Released = finals - 1 /\ Inside(t)
    BY <2>1, OthersParked DEF Closing, Inside
  <2> QED
    BY <1>1, <2>1, <2>2, OthersParked DEF IInv, TypeOK, Entered, Closing
<1>3. CASE ~ \E u \in Threads : pc[u] = "advance"
  BY <1>1, <1>3 DEF IInv, TypeOK, Entered, Inside, Released
<1> QED
  BY <1>2, <1>3

\* No thread returns from wait() before all have entered the same round.
THEOREM NobodyReturnsEarly == Spec => []NoEarlyReturn
<1>1. ASSUME IInv PROVE NoEarlyReturn
  <2> SUFFICES ASSUME NEW t \in Threads, NEW u \in Threads
               PROVE  waits[t] <= Entered[u]
    BY DEF NoEarlyReturn
  <2>1. waits[t] <= finals /\ finals <= Entered[u]
    BY <1>1, Standing
  <2>2. waits[t] \in Nat /\ finals \in Nat /\ Entered[u] \in Nat
    BY <1>1 DEF IInv, TypeOK, Entered
  <2> QED
    BY <2>1, <2>2
<1> QED
  BY <1>1, Invariance, PTL

\* A round of Barrier::wait is closed behind everybody, for any number of
\* threads, any number of rounds and any width of the round number.
THEOREM InStep == Spec => []WaitersInStep
<1>1. LastIsAlone /\ AtMostOneBehind /\ NoEarlyReturn => WaitersInStep
  BY DEF WaitersInStep
<1> QED
  BY <1>1, LastAlone, OneBehind, NobodyReturnsEarly, PTL

-----------------------------------------------------------------------------

\* Every step of the barrier is a step of the contract or leaves it alone.
LEMMA StepKeepsContract ==
  ASSUME IInv, IInv', [Next]_vars
  PROVE  [Contract!Next]_Contract!vars
<1>1. ASSUME NEW t \in Threads, LoadRound(t)
      PROVE  UNCHANGED Contract!vars
  BY <1>1 DEF IInv, TypeOK, LoadRound, Contract!vars, Entered, Inside
<1>2. ASSUME NEW t \in Threads, Arrive(t)
      PROVE  Contract!Enter(t)
  <2>1. Entered[t] = waits[t] /\ waits[t] < Calls
    BY <1>2 DEF IInv, Attributed, Arrive, Entered, Inside
  <2>2. \A u \in Threads : Entered'[u] = IF u = t THEN waits[t] + 1 ELSE Entered[u]
    BY <1>2 DEF IInv, TypeOK, Arrive, Entered, Inside
  <2>3. Entered' = [Entered EXCEPT ![t] = @ + 1]
    BY <2>1, <2>2 DEF Entered
  <2> QED
    BY <1>2, <2>1, <2>3 DEF Contract!Enter, Arrive
<1>3. ASSUME NEW t \in Threads, ResetCounter(t)
      PROVE  UNCHANGED Contract!vars
  BY <1>3 DEF IInv, TypeOK, ResetCounter, Contract!vars, Entered, Inside
<1>4. ASSUME NEW t \in Threads, RunFinalizer(t)
      PROVE  Contract!Finalize(t)
  <2>1. /\ waits[t] = finals
        /\ \A u \in Threads \ {t} : pc[u] = "spin" /\ waits[u] = finals
    BY <1>4, OthersParked DEF RunFinalizer, Closing
  <2>2. \A u \in Threads : Entered[u] = finals + 1
    BY <1>4, <2>1 DEF RunFinalizer, Entered, Inside
  <2>3. Entered' = Entered
    BY <1>4 DEF IInv, TypeOK, RunFinalizer, Entered, Inside
  <2> QED
    BY <1>4, <2>2, <2>3 DEF Contract!Finalize, RunFinalizer
<1>5. ASSUME NEW t \in Threads, AdvanceRound(t)
      PROVE  Contract!Leave(t)
  <2>1. waits[t] = finals - 1 /\ leader = t /\ Entered[t] = waits[t] + 1
    BY <1>5, OthersParked DEF AdvanceRound, Closing, IInv, Attributed, Entered, Inside
  <2>2. Entered' = Entered
    BY <1>5 DEF IInv, TypeOK, AdvanceRound, Entered, Inside
  <2>3. waits[t] < Entered[t] /\ waits[t] < finals
    BY <2>1 DEF IInv, TypeOK
  <2>4. (t = leader) = TRUE
    BY <2>1
  <2>5. result' = [result EXCEPT ![t] = (t = leader)]
    BY <1>5, <2>4, Zenon DEF AdvanceRound
  <2> QED
    BY <1>5, <2>2, <2>3, <2>5, Zenon DEF Contract!Leave, AdvanceRound
<1>6. ASSUME NEW t \in Threads, PassRound(t)
      PROVE  Contract!Leave(t)
  <2>1. waits[t] + 1 = Released /\ pc[t] = "spin"
    BY <1>6 DEF IInv, Placed, PassRound
  <2>2. waits[t] < finals
    BY <2>1 DEF Released, IInv, TypeOK
  <2>3. leader # t /\ Entered[t] = waits[t] + 1
    BY <2>1, <2>2 DEF IInv, Attributed, Entered, Inside
  <2>4. Entered' = Entered
    BY <1>6 DEF IInv, TypeOK, PassRound, Entered, Inside
  <2>5. waits[t] < Entered[t]
    BY <2>3 DEF IInv, TypeOK
  <2>6. (t = leader) = FALSE
    BY <2>3
  <2>7. result' = [result EXCEPT ![t] = (t = leader)]
    BY <1>6, <2>6, Zenon DEF PassRound
  <2> QED
    BY <1>6, <2>2, <2>4, <2>5, <2>7, Zenon DEF Contract!Leave, PassRound
<1>7. ASSUME UNCHANGED vars
      PROVE  UNCHANGED Contract!vars
  BY <1>7 DEF vars, Contract!vars, Entered, Inside
<1> QED
  BY <1>1, <1>2, <1>3, <1>4, <1>5, <1>6, <1>7 DEF Next, Step, Finished, Contract!Next

\* Barrier::wait implements the contract Rendezvous, for any number of threads,
\* any number of rounds and any width of the round number.
THEOREM Implements == Spec => KeepsContract
<1>1. Init => Contract!Init
  BY DEF Init, Contract!Init, Entered, Inside
<1>2. IInv /\ IInv' /\ [Next]_vars => [Contract!Next]_Contract!vars
  BY StepKeepsContract
<1> QED
  BY <1>1, <1>2, Invariance, PTL DEF Spec, Contract!Spec, KeepsContract

-----------------------------------------------------------------------------
(* Both barriers together, as MCBarriers instantiates them.                 *)

\* The tree of MCBarriers, with the theorems about it.
TP == INSTANCE HierarchicBarrierProofs WITH
  Calls <- TreeCalls,
  cntr <- treeCntr, round <- treeRound, pc <- treePc, prevRound <- treePrevRound,
  waits <- treeWaits, result <- treeResult, finals <- treeFinals, leader <- treeLeader

\* The tree that the theorems are about is the one that the steps are about.
LEMMA SameShape ==
  /\ TP!TreeAssumption
  /\ TP!Workers = Tree!Workers /\ TP!Levels = Tree!Levels /\ TP!Barriers = Tree!Barriers
  /\ TP!above = Tree!above
  /\ \A t : TP!barrierOf(t) = Tree!barrierOf(t)
  /\ \A b : TP!threadCount(b) = Tree!threadCount(b) /\ TP!parent(b) = Tree!parent(b)
  /\ \A b : TP!IsRoot(b) = Tree!IsRoot(b)
<1>1. TP!TreeAssumption
  BY TreeIsBuilt DEF TP!TreeAssumption, Tree!TreeAssumption
<1>2. \A n : TP!NrBarriers(n) = Tree!NrBarriers(n)
  BY DEF TP!NrBarriers, Tree!NrBarriers
<1>3. TP!Participants = Tree!Participants
  BY DEF TP!Participants, Tree!Participants, TP!NrBarriers, Tree!NrBarriers
<1>4. TP!Workers = Tree!Workers
  BY DEF TP!Workers, Tree!Workers
<1>5. TP!Levels = Tree!Levels
  BY <1>3 DEF TP!Levels, Tree!Levels
<1>6. TP!Barriers = Tree!Barriers
  BY <1>2, <1>3, <1>5 DEF TP!Barriers, Tree!Barriers
<1>7. /\ \A b : TP!parent(b) = Tree!parent(b)
      /\ \A b : TP!threadCount(b) = Tree!threadCount(b)
      /\ \A b : TP!IsRoot(b) = Tree!IsRoot(b)
  BY <1>3, <1>5 DEF TP!parent, Tree!parent, TP!threadCount, Tree!threadCount,
                    TP!IsRoot, Tree!IsRoot
<1>8. \A t : TP!barrierOf(t) = Tree!barrierOf(t)
  BY <1>2 DEF TP!barrierOf, Tree!barrierOf
<1>9. TP!above = Tree!above
  BY DEF TP!above, Tree!above, TP!Workers, Tree!Workers, TP!barrierOf, Tree!barrierOf,
         TP!parent, Tree!parent, TP!NrBarriers, Tree!NrBarriers
<1> QED
  BY <1>1, <1>4, <1>5, <1>6, <1>7, <1>8, <1>9

LEMMA SameTree ==
  /\ TP!Init = Tree!Init
  /\ \A t : TP!Step(t) = Tree!Step(t)
  /\ TP!Finished = Tree!Finished
  /\ TP!vars = treeVars
<1>1. TP!Init = Tree!Init
  BY SameShape, Zenon DEF TP!Init, Tree!Init
<1>2. TP!vars = treeVars /\ Tree!vars = treeVars
  BY Zenon DEF TP!vars, Tree!vars, treeVars
<1>3. TP!Finished = Tree!Finished
  BY SameShape, Zenon DEF TP!Finished, Tree!Finished, TP!vars, Tree!vars
<1>4. ASSUME NEW t
      PROVE  TP!Step(t) = Tree!Step(t)
  <2>1. TP!LoadRound(t) = Tree!LoadRound(t)
    BY Zenon DEF TP!LoadRound, Tree!LoadRound, TP!Goto, Tree!Goto
  <2>2. TP!Arrive(t) = Tree!Arrive(t)
    BY Zenon DEF TP!Arrive, Tree!Arrive, TP!Goto, Tree!Goto
  <2>3. TP!ResetCounter(t) = Tree!ResetCounter(t)
    BY SameShape, Zenon DEF TP!ResetCounter, Tree!ResetCounter, TP!Goto, Tree!Goto
  <2>4. TP!Climb(t) = Tree!Climb(t)
    BY SameShape, Zenon DEF TP!Climb, Tree!Climb, TP!Goto, Tree!Goto, TP!parent, Tree!parent
  <2>5. TP!RunFinalizer(t) = Tree!RunFinalizer(t)
    BY SameShape, Zenon DEF TP!RunFinalizer, Tree!RunFinalizer, TP!Goto, Tree!Goto
  <2>6. TP!PassRound(t) = Tree!PassRound(t)
    BY Zenon DEF TP!PassRound, Tree!PassRound, TP!Goto, Tree!Goto
  <2>7. TP!AdvanceRound(t) = Tree!AdvanceRound(t)
    BY Zenon DEF TP!AdvanceRound, Tree!AdvanceRound, TP!Goto, Tree!Goto
  <2>8. TP!ReturnBelow(t) = Tree!ReturnBelow(t)
    BY SameShape, Zenon DEF TP!ReturnBelow, Tree!ReturnBelow, TP!Goto, Tree!Goto
  <2>9. TP!Return(t) = Tree!Return(t)
    BY SameShape, Zenon DEF TP!Return, Tree!Return, TP!Goto, Tree!Goto
  <2> QED
    BY <2>1, <2>2, <2>3, <2>4, <2>5, <2>6, <2>7, <2>8, <2>9, Zenon DEF TP!Step, Tree!Step
<1> QED
  BY <1>1, <1>2, <1>3, <1>4

\* What the theorems say of the tree is what MCBarriers asks of it.
LEMMA SameProperties ==
  /\ TP!TypeOK => Tree!TypeOK
  /\ TP!SubtreeWaits => Tree!SubtreeWaits
<1>1. TP!TypeOK => Tree!TypeOK
  BY SameShape DEF TP!TypeOK, Tree!TypeOK
<1>2. \A t, b : TP!Closes(t, b) = Tree!Closes(t, b)
  BY SameShape DEF TP!Closes, Tree!Closes
<1>3. TP!SubtreeWaits => Tree!SubtreeWaits
  BY <1>2, SameShape DEF TP!SubtreeWaits, Tree!SubtreeWaits
<1> QED
  BY <1>1, <1>3

LEMMA SameEntered == TP!Entered = Tree!Entered
BY SameShape DEF TP!Entered, Tree!Entered

LEMMA SameContract ==
  /\ TP!Contract!Init => Tree!Contract!Init
  /\ [TP!Contract!Next]_TP!Contract!vars => [Tree!Contract!Next]_Tree!Contract!vars
<1>1. TP!Contract!Init => Tree!Contract!Init
  BY SameEntered, SameShape DEF TP!Contract!Init, Tree!Contract!Init
<1>2. TP!Entered' = Tree!Entered'
  BY SameShape DEF TP!Entered, Tree!Entered
<1>3. TP!Contract!vars = Tree!Contract!vars /\ TP!Contract!vars' = Tree!Contract!vars'
  BY SameEntered, <1>2 DEF TP!Contract!vars, Tree!Contract!vars
<1>4. ASSUME NEW t
      PROVE  /\ TP!Contract!Enter(t) => Tree!Contract!Enter(t)
             /\ TP!Contract!Finalize(t) => Tree!Contract!Finalize(t)
             /\ TP!Contract!Leave(t) => Tree!Contract!Leave(t)
  BY SameEntered, <1>2, SameShape
     DEF TP!Contract!Enter, Tree!Contract!Enter, TP!Contract!Finalize, Tree!Contract!Finalize,
         TP!Contract!Leave, Tree!Contract!Leave
<1>5. TP!Contract!Finished => Tree!Contract!Finished
  BY <1>3, SameShape DEF TP!Contract!Finished, Tree!Contract!Finished
<1>6. TP!Contract!Next => Tree!Contract!Next
  BY <1>4, <1>5, SameShape DEF TP!Contract!Next, Tree!Contract!Next
<1> QED
  BY <1>1, <1>3, <1>6

\* A step of one barrier leaves the other one as it is.
LEMMA EachAlone ==
  /\ MCInit => Init /\ TP!Init
  /\ [MCNext]_allVars => [Next]_vars
  /\ [MCNext]_allVars => [TP!Next]_TP!vars
<1>1. MCInit => Init /\ TP!Init
  BY SameTree DEF MCInit
<1>2. [MCNext]_allVars => [Next]_vars
  BY DEF MCNext, allVars, OneStep, TreeStep, OneFinished, TreeFinished, Next
<1>3. ASSUME [MCNext]_allVars PROVE [TP!Next]_TP!vars
  <2>1. CASE \E t \in Tree!Workers : TreeStep(t)
    BY <2>1, SameTree, SameShape DEF TreeStep, TP!Next
  <2>2. CASE TreeFinished
    BY <2>2, SameTree DEF TreeFinished, TP!Next
  <2>3. CASE (\E t \in Threads : OneStep(t)) \/ OneFinished \/ UNCHANGED allVars
    <3>1. UNCHANGED treeVars
      BY <2>3 DEF OneStep, OneFinished, allVars
    <3> QED
      BY <3>1 DEF TP!vars, treeVars
  <2> QED
    BY <1>3, <2>1, <2>2, <2>3 DEF MCNext
<1> QED
  BY <1>1, <1>2, <1>3

LEMMA EachSpec == MCSpec => Spec /\ TP!Spec
<1>1. MCInit => Init /\ TP!Init
  BY EachAlone
<1>2. [MCNext]_allVars => [Next]_vars
  BY EachAlone
<1>3. [MCNext]_allVars => [TP!Next]_TP!vars
  BY EachAlone
<1> QED
  BY <1>1, <1>2, <1>3, PTL DEF MCSpec, Spec, TP!Spec

\* Barrier and HierarchicBarrier: the counters stay between 0 and the number of
\* participants and no thread leaves the barriers that were created.
THEOREM TypesRight == MCSpec => []TypesOK
<1>1. Spec => []TypeOK
  BY TypeCorrect
<1>2. TP!Spec => []TP!TypeOK
  BY TP!TypeCorrect, SameShape
<1>3. TypeOK /\ TP!TypeOK => TypesOK
  BY SameProperties DEF TypesOK
<1> QED
  BY <1>1, <1>2, <1>3, EachSpec, PTL

\* HierarchicBarrier::wait: what goes up the tree stands for the whole subtree,
\* for every number of workers and every fan-in.
THEOREM SubtreeRight == MCSpec => []SubtreeWaits
<1>1. TP!Spec => []TP!SubtreeWaits
  BY TP!Subtree, SameShape
<1>2. TP!SubtreeWaits => SubtreeWaits
  BY SameProperties DEF SubtreeWaits
<1> QED
  BY <1>1, <1>2, EachSpec, PTL

\* HierarchicBarrier::wait: the tree keeps the contract of a single barrier.
THEOREM TreeImplements == MCSpec => TreeKeepsContract
<1>1. TP!Spec => TP!KeepsContract
  BY TP!Implements, SameShape
<1>2. TP!Contract!Init => Tree!Contract!Init
  BY SameContract
<1>3. [TP!Contract!Next]_TP!Contract!vars => [Tree!Contract!Next]_Tree!Contract!vars
  BY SameContract
<1>4. TP!KeepsContract => TreeKeepsContract
  BY <1>2, <1>3, PTL DEF TP!KeepsContract, TP!Contract!Spec, Tree!Contract!Spec,
                         Tree!KeepsContract, TreeKeepsContract
<1> QED
  BY <1>1, <1>4, EachSpec, PTL

=============================================================================
