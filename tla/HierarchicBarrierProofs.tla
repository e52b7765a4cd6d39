---------------------- MODULE HierarchicBarrierProofs -----------------------
(***************************************************************************)
(* Proofs about HierarchicBarrier, for any number of workers, any fan-in   *)
(* of the tree from two up, any number of calls and any width of the round *)
(* numbers.                                                                *)
(***************************************************************************)
EXTENDS HierarchicBarrier, FiniteSetTheorems, WellFoundedInduction, TLAPS

-----------------------------------------------------------------------------
(* The shape of the tree.                                                   *)

\* A set of naturals has a least element.
LEMMA LeastNatural ==
  ASSUME NEW T \in SUBSET Nat, T # {}
  PROVE  \E m \in T : \A n \in T : ~(n < m)
<1> DEFINE R == {ss \in Nat \X Nat : ss[1] < ss[2]}
<1>1. IsWellFoundedOn(R, Nat)
  BY NatLessThanWellFounded DEF OpToRel
<1>2. \A n, m \in Nat : n < m => <<n, m>> \in R
  OBVIOUS
<1> HIDE DEF R
<1>3. PICK m \in T : \A n \in T : <<n, m>> \notin R
  BY <1>1, WFMin
<1> QED
  BY <1>2, <1>3

\* Integer division.
LEMMA Division ==
  ASSUME NEW k \in Nat \ {0}, NEW a \in Nat
  PROVE  /\ a \div k \in Nat /\ a % k \in Nat /\ a % k < k
         /\ a = k * (a \div k) + (a % k)
OBVIOUS

LEMMA Quotient ==
  ASSUME NEW k \in Nat \ {0}, NEW a \in Nat, NEW i \in Nat
  PROVE  a \div k = i <=> (k * i <= a /\ a < k * i + k)
<1>1. a \div k \in Nat /\ a % k \in Nat /\ a % k < k /\ a = k * (a \div k) + (a % k)
  BY Division
<1>2. ASSUME k * i <= a, a < k * i + k PROVE a \div k = i
  BY <1>1, <1>2
<1>3. ASSUME a \div k = i PROVE k * i <= a /\ a < k * i + k
  <2>1. a = k * i + (a % k) /\ k * i \in Nat
    BY <1>1, <1>3
  <2> QED
    BY <1>1, <2>1
<1> QED
  BY <1>2, <1>3

LEMMA DivisionMonotone ==
  ASSUME NEW k \in Nat \ {0}, NEW a \in Nat, NEW b \in Nat, a <= b
  PROVE  a \div k <= b \div k
<1> DEFINE p == a \div k
           q == b \div k
<1>1. p \in Nat /\ q \in Nat /\ k * p \in Nat /\ k * q \in Nat
  BY Division
<1>2. k * p <= a /\ b < k * q + k
  BY Quotient, <1>1
<1>3. k * p < k * q + k
  BY <1>1, <1>2
<1> HIDE DEF p, q
<1>4. ASSUME q < p PROVE FALSE
  <2>1. q + 1 <= p
    BY <1>1, <1>4
  <2>2. k * (q + 1) <= k * p /\ k * (q + 1) = k * q + k
    BY <1>1, <2>1
  <2> QED
    BY <1>1, <1>3, <2>2
<1>5. p <= q
  BY <1>1, <1>4
<1> QED
  BY <1>5 DEF p, q

\* A level has fewer participants than the one below, as long as there is more
\* than one; the last of m participants belongs to the last barrier.
LEMMA NrBarriersFacts ==
  ASSUME TreeAssumption, NEW m \in Nat \ {0}
  PROVE  /\ NrBarriers(m) \in Nat \ {0}
         /\ NrBarriers(m) = (m - 1) \div threadsPerBarrier + 1
         /\ m = 1 => NrBarriers(m) = 1
         /\ m > 1 => NrBarriers(m) < m
<1> DEFINE k == threadsPerBarrier
           q == m \div k
           r == m % k
<1>1. k \in Nat /\ k >= 2 /\ k \in Nat \ {0} /\ m - 1 \in Nat
  BY DEF TreeAssumption
<1>2. q \in Nat /\ r \in Nat /\ r < k /\ m = k * q + r
  BY <1>1, Division
<1>3. NrBarriers(m) = q + (IF r > 0 THEN 1 ELSE 0)
  BY DEF NrBarriers
<1> HIDE DEF k, q, r
<1>4. CASE r > 0
  <2>1. k * q <= m - 1 /\ m - 1 < k * q + k
    BY <1>1, <1>2, <1>4
  <2>2. (m - 1) \div k = q
    BY <1>1, <1>2, <2>1, Quotient
  <2>3. NrBarriers(m) = q + 1
    BY <1>3, <1>4
  <2>4. m > 1 => q + 1 < m
    <3>1. CASE q = 0
      BY <1>2, <3>1
    <3>2. CASE q >= 1
      <4>1. k * q >= q + q
        BY <1>1, <1>2, <3>2
      <4> QED
        BY <1>1, <1>2, <1>4, <3>2, <4>1
    <3> QED
      BY <1>2, <3>1, <3>2
  <2>5. m = 1 => q = 0
    <3>1. q >= 1 => k * q >= 2
      BY <1>1, <1>2
    <3> QED
      BY <1>1, <1>2, <1>4, <3>1
  <2> QED
    BY <1>2, <2>2, <2>3, <2>4, <2>5 DEF k
<1>5. CASE r = 0
  <2>1. q >= 1
    BY <1>1, <1>2, <1>5
  <2>2. k * (q - 1) <= m - 1 /\ m - 1 < k * (q - 1) + k /\ q - 1 \in Nat
    <3>1. k * (q - 1) = m - k /\ q - 1 \in Nat
      BY <1>1, <1>2, <1>5, <2>1
    <3>2. m - k <= m - 1 /\ m - 1 < m - k + k
      BY <1>1
    <3> QED
      BY <3>1, <3>2
  <2>3. (m - 1) \div k = q - 1
    BY <1>1, <2>2, Quotient
  <2>4. NrBarriers(m) = q
    BY <1>2, <1>3, <1>5
  <2>5. m >= q + q
    BY <1>1, <1>2, <1>5, <2>1
  <2> QED
    BY <1>2, <2>1, <2>3, <2>4, <2>5 DEF k
<1> QED
  BY <1>2, <1>4, <1>5

\* f is computed from c by F, along 1 .. n.
Computed(f, c, F, n) == \A l \in 1 .. n : f[l] = IF l = 1 THEN c ELSE F[f[l - 1]]

\* A recursion along 1 .. n defines a function.
LEMMA Recursion ==
  ASSUME NEW D, NEW c \in D, NEW F \in [D -> D], NEW n \in Nat
  PROVE  \E f \in [1 .. n -> D] : Computed(f, c, F, n)
<1> DEFINE Solves(f, m) == \A l \in 1 .. m : f[l] = IF l = 1 THEN c ELSE F[f[l - 1]]
           Solved(m) == \E f \in [1 .. m -> D] : Solves(f, m)
           T == {m \in Nat : ~ Solved(m)}
<1>1. Solved(0)
  <2> DEFINE e == [l \in 1 .. 0 |-> c]
  <2>1. e \in [1 .. 0 -> D] /\ Solves(e, 0)
    OBVIOUS
  <2> QED
    BY <2>1
<1>2. ASSUME NEW m \in Nat, Solved(m) PROVE Solved(m + 1)
  <2>1. PICK f \in [1 .. m -> D] : Solves(f, m)
    BY <1>2
  <2> DEFINE d == IF m = 0 THEN c ELSE F[f[m]]
             g == [l \in 1 .. m + 1 |-> IF l = m + 1 THEN d ELSE f[l]]
  <2>2. \A l \in 1 .. m : f[l] = IF l = 1 THEN c ELSE F[f[l - 1]]
    BY <2>1
  <2>3. d \in D
    BY <1>2
  <2>4. g \in [1 .. m + 1 -> D]
    BY <2>3
  <2>5. \A l \in 1 .. m + 1 : g[l] = IF l = 1 THEN c ELSE F[g[l - 1]]
    <3> SUFFICES ASSUME NEW l \in 1 .. m + 1
                 PROVE  g[l] = IF l = 1 THEN c ELSE F[g[l - 1]]
      OBVIOUS
    <3>1. CASE l = m + 1
      <4>1. m # 0 => m \in 1 .. m + 1 /\ g[m] = f[m]
        BY <1>2
      <4> QED
        BY <1>2, <3>1, <4>1
    <3>2. CASE l \in 1 .. m
      <4>1. l # 1 => l - 1 \in 1 .. m /\ g[l - 1] = f[l - 1]
        BY <1>2, <3>2
      <4>2. g[l] = f[l]
        BY <1>2, <3>2
      <4> QED
        BY <2>2, <3>2, <4>1, <4>2
    <3> QED
      BY <1>2, <3>1, <3>2
  <2>6. Solves(g, m + 1)
    BY <2>5
  <2> HIDE DEF g, Solves
  <2> QED
    BY <2>4, <2>6
<1>3. T = {}
  <2> SUFFICES ASSUME T # {} PROVE FALSE
    OBVIOUS
  <2> HIDE DEF Solved
  <2>1. PICK m \in T : \A i \in T : ~(i < m)
    BY LeastNatural
  <2>2. m \in Nat /\ m # 0 /\ ~ Solved(m)
    BY <1>1
  <2>3. m - 1 \in Nat /\ m - 1 < m /\ (m - 1) + 1 = m
    BY <2>2
  <2>4. Solved(m - 1)
    BY <2>1, <2>3
  <2> QED
    BY <1>2, <2>2, <2>3, <2>4
<1> QED
  BY <1>3 DEF Computed

\* The levels of the tree: each has one participant per barrier below.
LEMMA ParticipantsRecursion ==
  ASSUME TreeAssumption
  PROVE  Participants = [l \in 1 .. nrThreads |->
                           IF l = 1 THEN nrThreads ELSE NrBarriers(Participants[l - 1])]
<1> DEFINE N == Nat
           F == [m \in N |-> IF m = 0 THEN 0 ELSE NrBarriers(m)]
<1>1. F \in [N -> N] /\ nrThreads \in N
  BY NrBarriersFacts DEF TreeAssumption
<1>2. NrBarriers(0) = 0
  <2>1. 0 \div threadsPerBarrier = 0 /\ 0 % threadsPerBarrier = 0
    BY DEF TreeAssumption
  <2> QED
    BY <2>1 DEF NrBarriers
<1>3. \A m \in N : F[m] = NrBarriers(m)
  BY <1>2
<1>4. nrThreads \in Nat
  BY <1>1
<1> HIDE DEF F, N
<1>5. PICK f \in [1 .. nrThreads -> N] : Computed(f, nrThreads, F, nrThreads)
  BY <1>1, <1>4, Recursion
<1>6. \A l \in 1 .. nrThreads : f[l] = IF l = 1 THEN nrThreads ELSE NrBarriers(f[l - 1])
  <2> SUFFICES ASSUME NEW l \in 1 .. nrThreads, l # 1
               PROVE  F[f[l - 1]] = NrBarriers(f[l - 1])
    BY <1>5 DEF Computed
  <2>1. l - 1 \in 1 .. nrThreads
    BY <1>4
  <2> QED
    BY <1>3, <2>1
<1>7. f = [l \in 1 .. nrThreads |-> IF l = 1 THEN nrThreads ELSE NrBarriers(f[l - 1])]
  BY <1>6
<1> QED
  BY <1>7 DEF Participants

\* Every level has participants, and fewer than the one below until one is
\* left, so that the levels up to nrThreads suffice.
LEMMA ParticipantsFacts ==
  ASSUME TreeAssumption
  PROVE  \A l \in 1 .. nrThreads :
           /\ Participants[l] \in Nat \ {0}
           /\ Participants[l] <= (nrThreads - l) + 1
           /\ l = 1 => Participants[l] = nrThreads
           /\ l + 1 \in 1 .. nrThreads => Participants[l + 1] = NrBarriers(Participants[l])
<1> DEFINE n == nrThreads
           Good(l) == Participants[l] \in Nat \ {0} /\ Participants[l] <= (n - l) + 1
           T == {l \in 1 .. n : ~ Good(l)}
<1>1. n \in Nat \ {0}
  BY DEF TreeAssumption
<1>2. /\ Participants[1] = n
      /\ \A l \in 1 .. n : l + 1 \in 1 .. n => Participants[l + 1] = NrBarriers(Participants[l])
  <2>1. \A l \in 1 .. n :
          Participants[l] = IF l = 1 THEN n ELSE NrBarriers(Participants[l - 1])
    BY ParticipantsRecursion
  <2>2. 1 \in 1 .. n
    BY <1>1
  <2>3. \A l \in 1 .. n : l + 1 # 1 /\ (l + 1) - 1 = l
    OBVIOUS
  <2> QED
    BY <2>1, <2>2, <2>3
<1> HIDE DEF n
<1>3. Good(1)
  BY <1>1, <1>2
<1>4. ASSUME NEW l \in 1 .. n, l + 1 \in 1 .. n, Good(l) PROVE Good(l + 1)
  <2> DEFINE m == Participants[l]
  <2>1. m \in Nat \ {0} /\ m <= (n - l) + 1 /\ Participants[l + 1] = NrBarriers(m)
    BY <1>2, <1>4
  <2> HIDE DEF m
  <2>2. NrBarriers(m) \in Nat \ {0} /\ (m = 1 => NrBarriers(m) = 1) /\ (m > 1 => NrBarriers(m) < m)
    BY <2>1, NrBarriersFacts
  <2>3. NrBarriers(m) <= (n - (l + 1)) + 1
    BY <1>1, <1>4, <2>1, <2>2
  <2> QED
    BY <2>1, <2>2, <2>3
<1>5. T = {}
  <2> SUFFICES ASSUME T # {} PROVE FALSE
    OBVIOUS
  <2> HIDE DEF Good
  <2>1. T \in SUBSET Nat
    BY <1>1
  <2>2. PICK l \in T : \A i \in T : ~(i < l)
    BY <2>1, LeastNatural
  <2>3. l \in 1 .. n /\ ~ Good(l)
    BY <2>2
  <2>4. l # 1 /\ l - 1 \in 1 .. n /\ (l - 1) + 1 = l /\ l - 1 < l
    BY <1>1, <1>3, <2>3
  <2>5. Good(l - 1)
    BY <2>2, <2>4
  <2> QED
    BY <1>4, <2>3, <2>4, <2>5
<1> QED
  BY <1>2, <1>5 DEF n

\* The levels go from 1 to the root without a gap; one barrier is enough for
\* the participants of the root.
LEMMA LevelFacts ==
  ASSUME TreeAssumption
  PROVE  /\ 1 \in Levels /\ Levels \subseteq 1 .. nrThreads /\ Levels \subseteq Nat \ {0}
         /\ \A l \in Levels :
              /\ Participants[l] \in Nat \ {0}
              /\ l # 1 => l - 1 \in Levels
              /\ l + 1 \in Levels => Participants[l + 1] = NrBarriers(Participants[l])
              /\ l + 1 \notin Levels => NrBarriers(Participants[l]) = 1
<1>1. nrThreads \in Nat \ {0}
  BY DEF TreeAssumption
<1>2. 1 \in Levels /\ Levels \subseteq 1 .. nrThreads
  BY <1>1 DEF Levels
<1>3. ASSUME NEW l \in Levels
      PROVE  /\ Participants[l] \in Nat \ {0}
             /\ l # 1 => l - 1 \in Levels
             /\ l + 1 \in Levels => Participants[l + 1] = NrBarriers(Participants[l])
             /\ l + 1 \notin Levels => NrBarriers(Participants[l]) = 1
  <2>1. l \in 1 .. nrThreads /\ l \in Nat
    BY <1>1, <1>2
  <2>2. Participants[l] \in Nat \ {0}
    BY <2>1, ParticipantsFacts
  <2>3. ASSUME l # 1 PROVE l - 1 \in Levels
    <3> DEFINE m == Participants[l - 1]
    <3>1. l - 1 \in 1 .. nrThreads /\ (l - 1) + 1 = l
      BY <1>1, <2>1, <2>3
    <3>2. m \in Nat \ {0} /\ Participants[l] = NrBarriers(m)
      BY <2>1, <3>1, ParticipantsFacts
    <3>3. Participants[l] > 1
      BY <2>3 DEF Levels
    <3> HIDE DEF m
    <3>4. m # 1
      BY <3>2, <3>3, NrBarriersFacts
    <3>5. m > 1
      BY <3>2, <3>4
    <3> QED
      BY <3>1, <3>5 DEF Levels, m
  <2>4. ASSUME l + 1 \in Levels PROVE Participants[l + 1] = NrBarriers(Participants[l])
    BY <1>2, <2>1, <2>4, ParticipantsFacts
  <2>5. ASSUME l + 1 \notin Levels PROVE NrBarriers(Participants[l]) = 1
    <3> DEFINE m == Participants[l]
    <3>1. CASE l + 1 \in 1 .. nrThreads
      <4>1. ~(Participants[l + 1] > 1) /\ Participants[l + 1] = NrBarriers(m)
        BY <2>1, <2>5, <3>1, ParticipantsFacts DEF Levels
      <4>2. NrBarriers(m) \in Nat \ {0}
        BY <2>2, NrBarriersFacts
      <4> QED
        BY <4>1, <4>2
    <3>2. CASE l + 1 \notin 1 .. nrThreads
      <4>1. l = nrThreads
        BY <1>1, <2>1, <3>2
      <4>2. m <= (nrThreads - l) + 1
        BY <2>1, ParticipantsFacts
      <4>3. m = 1
        BY <1>1, <2>2, <4>1, <4>2
      <4> QED
        BY <4>3, NrBarriersFacts
    <3> QED
      BY <3>1, <3>2
  <2> QED
    BY <2>2, <2>3, <2>4, <2>5
<1> QED
  BY <1>1, <1>2, <1>3

\* above climbs from a worker's own barrier by parent.
LEMMA AboveRecursion ==
  ASSUME TreeAssumption
  PROVE  above = [l \in 1 .. nrThreads |->
                    IF l = 1 THEN [t \in Workers |-> barrierOf(t)]
                             ELSE [t \in Workers |-> parent(above[l - 1][t])]]
<1> DEFINE D == [Workers -> Nat \X Nat]
           c == [t \in Workers |-> barrierOf(t)]
           F == [g \in D |-> [t \in Workers |-> parent(g[t])]]
<1>1. nrThreads \in Nat /\ threadsPerBarrier \in Nat \ {0} /\ nrThreads \in Nat \ {0}
  BY DEF TreeAssumption
<1>2. c \in D
  <2>1. NrBarriers(nrThreads) - 1 \in Nat
    BY <1>1, NrBarriersFacts
  <2>2. \A t \in Workers : t \in Nat /\ t \div threadsPerBarrier \in Nat
    BY <1>1, Division DEF Workers
  <2>3. \A t \in Workers : barrierOf(t) \in Nat \X Nat
    BY <2>1, <2>2 DEF barrierOf
  <2> QED
    BY <2>3
<1>3. F \in [D -> D]
  <2>1. \A b \in Nat \X Nat : parent(b) \in Nat \X Nat
    BY <1>1, Division DEF parent
  <2> QED
    BY <2>1
<1>4. \A g \in D : F[g] = [t \in Workers |-> parent(g[t])]
  OBVIOUS
<1> HIDE DEF D, F, c
<1>5. PICK f \in [1 .. nrThreads -> D] : Computed(f, c, F, nrThreads)
  BY <1>1, <1>2, <1>3, Recursion
<1>6. \A l \in 1 .. nrThreads :
        f[l] = IF l = 1 THEN c ELSE [t \in Workers |-> parent(f[l - 1][t])]
  <2> SUFFICES ASSUME NEW l \in 1 .. nrThreads, l # 1
               PROVE  F[f[l - 1]] = [t \in Workers |-> parent(f[l - 1][t])]
    BY <1>5 DEF Computed
  <2>1. l - 1 \in 1 .. nrThreads
    BY <1>1
  <2>2. f[l - 1] \in D
    BY <2>1
  <2> QED
    BY <1>4, <2>2
<1>7. f = [l \in 1 .. nrThreads |-> IF l = 1 THEN [t \in Workers |-> barrierOf(t)]
                                    ELSE [t \in Workers |-> parent(f[l - 1][t])]]
  BY <1>6 DEF c
<1> QED
  BY <1>7 DEF above

\* The barriers, level by level.
LEMMA BarrierFacts ==
  ASSUME TreeAssumption
  PROVE  /\ \A b \in Barriers :
              b[1] \in Levels /\ b[2] \in 0 .. NrBarriers(Participants[b[1]]) - 1 /\ b = <<b[1], b[2]>>
         /\ \A l \in Levels : \A i \in 0 .. NrBarriers(Participants[l]) - 1 : <<l, i>> \in Barriers
<1>1. ASSUME NEW b \in Barriers
      PROVE  b[1] \in Levels /\ b[2] \in 0 .. NrBarriers(Participants[b[1]]) - 1 /\ b = <<b[1], b[2]>>
  <2>1. PICK l \in Levels : b \in {l} \X (0 .. NrBarriers(Participants[l]) - 1)
    BY DEF Barriers
  <2> QED
    BY <2>1
<1>2. ASSUME NEW l \in Levels, NEW i \in 0 .. NrBarriers(Participants[l]) - 1
      PROVE  <<l, i>> \in Barriers
  <2>1. nrThreads \in Nat /\ l \in 1 .. nrThreads /\ l \in Nat
    BY LevelFacts DEF TreeAssumption
  <2> DEFINE m == Participants[l]
  <2>2. m \in Nat \ {0} /\ m <= (nrThreads - l) + 1
    BY <2>1, ParticipantsFacts
  <2> HIDE DEF m
  <2>3. NrBarriers(m) \in Nat /\ NrBarriers(m) <= m
    <3>1. m = 1 => NrBarriers(m) <= m
      BY NrBarriersFacts
    <3>2. NrBarriers(m) \in Nat /\ (m > 1 => NrBarriers(m) < m)
      BY <2>2, NrBarriersFacts
    <3> QED
      BY <2>2, <3>1, <3>2
  <2>4. i \in 0 .. NrBarriers(m) - 1
    BY DEF m
  <2>5. i \in 0 .. nrThreads
    BY <2>1, <2>2, <2>3, <2>4
  <2> QED
    BY <2>5 DEF Barriers
<1> QED
  BY <1>1, <1>2

\* What stands for t among the participants of its barrier of level l: t, or
\* the number of its barrier below.
slot(t, l) == IF l = 1 THEN t ELSE above[l - 1][t][2]

LEMMA AboveFacts ==
  ASSUME TreeAssumption
  PROVE  \A l \in Levels : \A t \in Workers :
           /\ slot(t, l) \in 0 .. Participants[l] - 1
           /\ above[l][t] = <<l, slot(t, l) \div threadsPerBarrier>>
           /\ above[l][t] \in Barriers /\ above[l][t][1] = l
           /\ l = 1 => above[l][t] = barrierOf(t)
           /\ l + 1 \in Levels => above[l + 1][t] = parent(above[l][t])
<1> DEFINE k == threadsPerBarrier
           n == nrThreads
           Good(l) == \A t \in Workers : slot(t, l) \in 0 .. Participants[l] - 1
                                         /\ above[l][t] = <<l, slot(t, l) \div k>>
           T == {l \in Levels : ~ Good(l)}
<1>1. k \in Nat \ {0} /\ n \in Nat \ {0} /\ n - 1 \in Nat
  BY DEF TreeAssumption
<1>2. /\ \A t \in Workers : above[1][t] = barrierOf(t)
      /\ \A l \in 1 .. n : l # 1 => \A t \in Workers : above[l][t] = parent(above[l - 1][t])
  <2>1. 1 \in 1 .. n
    BY <1>1
  <2> QED
    BY <2>1, AboveRecursion
<1>3. /\ 1 \in Levels /\ Levels \subseteq 1 .. n /\ Levels \subseteq Nat
      /\ \A l \in Levels : Participants[l] \in Nat \ {0} /\ (l # 1 => l - 1 \in Levels)
  BY LevelFacts
<1>4. Participants[1] = n
  BY <1>3, ParticipantsFacts
<1>5. ASSUME NEW l \in Levels, NEW j \in 0 .. Participants[l] - 1
      PROVE  j \div k \in 0 .. NrBarriers(Participants[l]) - 1
  <2> DEFINE m == Participants[l]
  <2>1. m \in Nat \ {0} /\ m - 1 \in Nat /\ j \in Nat /\ j <= m - 1
    BY <1>3
  <2> HIDE DEF m
  <2>2. NrBarriers(m) = (m - 1) \div k + 1
    BY <2>1, NrBarriersFacts
  <2>3. j \div k <= (m - 1) \div k /\ j \div k \in Nat /\ (m - 1) \div k \in Nat
    BY <1>1, <2>1, Division, DivisionMonotone
  <2> HIDE DEF k
  <2>4. j \div k \in 0 .. NrBarriers(m) - 1
    BY <2>2, <2>3
  <2> QED
    BY <2>4 DEF m
<1>6. Good(1)
  <2> SUFFICES ASSUME NEW t \in Workers
               PROVE  slot(t, 1) \in 0 .. Participants[1] - 1 /\ above[1][t] = <<1, slot(t, 1) \div k>>
    OBVIOUS
  <2>1. slot(t, 1) = t /\ t \in 0 .. n - 1
    BY DEF slot, Workers
  <2>2. barrierOf(t) = <<1, t \div k>>
    <3>1. CASE t = n - 1
      <4>1. NrBarriers(n) = (n - 1) \div k + 1 /\ (n - 1) \div k \in Nat
        BY <1>1, NrBarriersFacts, Division
      <4>2. NrBarriers(n) - 1 = t \div k
        BY <3>1, <4>1
      <4> QED
        BY <3>1, <4>2 DEF barrierOf
    <3>2. CASE t # n - 1
      BY <3>2 DEF barrierOf
    <3> QED
      BY <3>1, <3>2
  <2> QED
    BY <1>2, <1>4, <2>1, <2>2
<1>7. ASSUME NEW l \in Levels, l + 1 \in Levels, Good(l) PROVE Good(l + 1)
  <2> SUFFICES ASSUME NEW t \in Workers
               PROVE  /\ slot(t, l + 1) \in 0 .. Participants[l + 1] - 1
                      /\ above[l + 1][t] = <<l + 1, slot(t, l + 1) \div k>>
    OBVIOUS
  <2>1. l \in Nat /\ l + 1 # 1 /\ (l + 1) - 1 = l /\ l + 1 \in 1 .. n
    BY <1>3, <1>7
  <2>2. slot(t, l + 1) = slot(t, l) \div k /\ above[l][t] = <<l, slot(t, l) \div k>>
    BY <1>7, <2>1 DEF slot
  <2>3. above[l + 1][t] = parent(above[l][t])
    BY <1>2, <2>1
  <2>4. slot(t, l + 1) \in 0 .. Participants[l + 1] - 1
    BY <1>5, <1>7, <2>2, LevelFacts
  <2>5. above[l + 1][t] = <<l + 1, slot(t, l + 1) \div k>>
    BY <2>2, <2>3 DEF parent
  <2> QED
    BY <2>4, <2>5
<1>8. T = {}
  <2> SUFFICES ASSUME T # {} PROVE FALSE
    OBVIOUS
  <2> HIDE DEF Good
  <2>1. T \in SUBSET Nat
    BY <1>3
  <2>2. PICK l \in T : \A i \in T : ~(i < l)
    BY <2>1, LeastNatural
  <2>3. l \in Levels /\ ~ Good(l) /\ l \in Nat
    BY <1>3, <2>2
  <2>4. l # 1 /\ l - 1 \in Levels /\ (l - 1) + 1 = l /\ l - 1 < l
    BY <1>3, <1>6, <2>3
  <2>5. Good(l - 1)
    BY <2>2, <2>4
  <2> QED
    BY <1>7, <2>3, <2>4, <2>5
<1> HIDE DEF k
<1>9. ASSUME NEW l \in Levels, NEW t \in Workers
      PROVE  /\ above[l][t] \in Barriers /\ above[l][t][1] = l
             /\ l = 1 => above[l][t] = barrierOf(t)
             /\ l + 1 \in Levels => above[l + 1][t] = parent(above[l][t])
  <2>1. slot(t, l) \in 0 .. Participants[l] - 1 /\ above[l][t] = <<l, slot(t, l) \div k>>
    BY <1>8
  <2>2. above[l][t] \in Barriers
    BY <1>5, <2>1, BarrierFacts
  <2>3. l + 1 \in Levels => l + 1 \in 1 .. n /\ l + 1 # 1 /\ (l + 1) - 1 = l
    BY <1>3
  <2> QED
    BY <1>2, <2>1, <2>2, <2>3
<1>10. ASSUME NEW l \in Levels, NEW t \in Workers
       PROVE  /\ slot(t, l) \in 0 .. Participants[l] - 1
              /\ above[l][t] = <<l, slot(t, l) \div threadsPerBarrier>>
  BY <1>8 DEF k
<1> QED
  BY <1>9, <1>10

\* The whole tree lies below the root.
LEMMA RootFacts ==
  ASSUME TreeAssumption, NEW l \in Levels, l + 1 \notin Levels, NEW t \in Workers, NEW u \in Workers
  PROVE  above[l][t] = above[l][u]
<1>1. NrBarriers(Participants[l]) = 1
  BY LevelFacts
<1>2. above[l][t] \in Barriers /\ above[l][u] \in Barriers /\ above[l][t][1] = l /\ above[l][u][1] = l
  BY AboveFacts
<1>3. above[l][t] = <<l, 0>> /\ above[l][u] = <<l, 0>>
  <2>1. ASSUME NEW b \in Barriers, b[1] = l PROVE b = <<l, 0>>
    BY <1>1, <2>1, BarrierFacts
  <2> QED
    BY <1>2, <2>1
<1> QED
  BY <1>3

\* The root is the highest level.
LEMMA RootIsTop ==
  ASSUME TreeAssumption, NEW k \in Levels, k + 1 \notin Levels, NEW l \in Levels
  PROVE  l <= k
<1> DEFINE T == {m \in Levels : m > k}
<1>1. Levels \subseteq Nat \ {0} /\ \A m \in Levels : m # 1 => m - 1 \in Levels
  BY LevelFacts
<1>2. T = {}
  <2> SUFFICES ASSUME T # {} PROVE FALSE
    OBVIOUS
  <2>1. PICK m \in T : \A i \in T : ~(i < m)
    BY <1>1, LeastNatural
  <2>2. m - 1 \in Levels /\ m - 1 < m /\ m \in Nat /\ m # k + 1
    BY <1>1, <2>1
  <2>3. m - 1 > k
    BY <1>1, <2>2
  <2> QED
    BY <2>1, <2>2, <2>3
<1> QED
  BY <1>1, <1>2

\* Workers that share a barrier share all barriers above it.
LEMMA AboveMeet ==
  ASSUME TreeAssumption, NEW t \in Workers, NEW u \in Workers,
         NEW k \in Levels, above[k][t] = above[k][u],
         NEW l \in Levels, k <= l
  PROVE  above[l][t] = above[l][u]
<1> DEFINE T == {m \in Levels : m >= k /\ above[m][t] # above[m][u]}
<1>1. Levels \subseteq Nat \ {0} /\ \A m \in Levels : m # 1 => m - 1 \in Levels
  BY LevelFacts
<1>2. T = {}
  <2> SUFFICES ASSUME T # {} PROVE FALSE
    OBVIOUS
  <2>1. PICK m \in T : \A i \in T : ~(i < m)
    BY <1>1, LeastNatural
  <2>2. m \in Levels /\ m > k /\ m \in Nat /\ k \in Nat \ {0}
    BY <1>1
  <2>3. m - 1 \in Levels /\ m - 1 < m /\ m - 1 >= k /\ (m - 1) + 1 = m
    BY <1>1, <2>2
  <2>4. above[m - 1][t] = above[m - 1][u]
    BY <2>1, <2>3
  <2>5. above[m][t] = parent(above[m - 1][t]) /\ above[m][u] = parent(above[m - 1][u])
    <3>1. (m - 1) + 1 \in Levels
      BY <2>2, <2>3
    <3> QED
      BY <2>3, <3>1, AboveFacts
  <2> QED
    BY <2>1, <2>4, <2>5
<1> QED
  BY <1>1, <1>2

\* threadCount counts the participants of a barrier.
slots(b) == {j \in 0 .. Participants[b[1]] - 1 : j \div threadsPerBarrier = b[2]}

LEMMA Capacity ==
  ASSUME TreeAssumption, NEW b \in Barriers
  PROVE  /\ IsFiniteSet(slots(b)) /\ Cardinality(slots(b)) = threadCount(b)
         /\ threadCount(b) \in Nat \ {0}
<1> DEFINE k == threadsPerBarrier
           m == Participants[b[1]]
           i == b[2]
           full == m \div k
           rest == m % k
<1>1. k \in Nat \ {0} /\ m \in Nat \ {0} /\ i \in Nat /\ i <= NrBarriers(m) - 1
  <2>1. b[1] \in Levels /\ b[2] \in 0 .. NrBarriers(m) - 1
    BY BarrierFacts
  <2>2. m \in Nat \ {0}
    BY <2>1, LevelFacts
  <2>3. NrBarriers(m) \in Nat
    BY <2>2, NrBarriersFacts
  <2> QED
    BY <2>1, <2>2, <2>3 DEF TreeAssumption
<1>2. full \in Nat /\ rest \in Nat /\ rest < k /\ m = k * full + rest
  BY <1>1, Division
<1>3. NrBarriers(m) = full + (IF rest > 0 THEN 1 ELSE 0)
  BY DEF NrBarriers
<1>4. threadCount(b) = IF i < full THEN k ELSE rest
  BY DEF threadCount
<1>5. ASSUME NEW j \in 0 .. m - 1
      PROVE  j \div k = i <=> (k * i <= j /\ j < k * i + k)
  <2>1. j \in Nat
    BY <1>1
  <2> HIDE DEF k, m, i
  <2> QED
    BY <1>1, <2>1, Quotient
<1>6. slots(b) = {j \in 0 .. m - 1 : k * i <= j /\ j < k * i + k}
  BY <1>5 DEF slots
<1> HIDE DEF k, m, i, full, rest
<1>7. k * i \in Nat /\ k * full \in Nat
  BY <1>1, <1>2
<1>8. CASE i < full
  <2>1. k * i + k <= k * full
    <3>1. k * (i + 1) <= k * full /\ k * (i + 1) = k * i + k
      BY <1>1, <1>2, <1>8
    <3> QED
      BY <3>1
  <2>2. k * i + k <= m
    BY <1>1, <1>2, <1>7, <2>1
  <2>3. slots(b) = (k * i) .. (k * i + k - 1)
    BY <1>1, <1>6, <1>7, <2>2
  <2>4. IsFiniteSet(slots(b)) /\ Cardinality(slots(b)) = k
    <3>1. k * i \in Int /\ k * i + k - 1 \in Int /\ ~(k * i > k * i + k - 1)
          /\ (k * i + k - 1) - (k * i) + 1 = k
      BY <1>1, <1>7
    <3> QED
      BY <2>3, <3>1, FS_Interval
  <2> QED
    BY <1>1, <1>4, <1>8, <2>4
<1>9. CASE ~(i < full)
  <2>1. i = full /\ rest > 0
    BY <1>1, <1>2, <1>3, <1>9
  <2>2. slots(b) = (k * i) .. (k * i + rest - 1)
    BY <1>1, <1>2, <1>6, <1>7, <2>1
  <2>3. IsFiniteSet(slots(b)) /\ Cardinality(slots(b)) = rest
    <3>1. k * i \in Int /\ k * i + rest - 1 \in Int /\ ~(k * i > k * i + rest - 1)
          /\ (k * i + rest - 1) - (k * i) + 1 = rest
      BY <1>2, <1>7, <2>1
    <3> QED
      BY <2>2, <3>1, FS_Interval
  <2> QED
    BY <1>2, <1>4, <1>9, <2>1, <2>3
<1> QED
  BY <1>8, <1>9

-----------------------------------------------------------------------------
(* The inductive invariant.                                                 *)

\* A round number that finals is level with, or one ahead of.
New(r) == r = finals % RoundMod
Old(r) == (r + 1) % RoundMod = finals % RoundMod

\* t has closed the barrier of level l above it and not released it yet.
Holds(t, l) ==
  \/ l < at[t][1]
  \/ l = at[t][1] /\ pc[t] \in {"reset", "finalize", "advance"}

\* The threads counted in the current round of b.
Parked(b) == {t \in Workers : at[t] = b /\ pc[t] = "spin" /\ prevRound[t] = round[b]}

Types ==
  /\ cntr \in [Barriers -> Int]
  /\ round \in [Barriers -> 0 .. RoundMod - 1]
  /\ pc \in [Workers -> {"out", "climb", "arrive", "reset", "finalize", "advance", "spin", "return"}]
  /\ at \in [Workers -> Barriers]
  /\ prevRound \in [Workers -> 0 .. RoundMod - 1]
  /\ returns \in [Workers -> BOOLEAN]
  /\ waits \in [Workers -> Nat]
  /\ result \in [Workers -> BOOLEAN]
  /\ finals \in Nat
  /\ leader \in Workers

\* A worker is on its way from its own barrier to the root.
OnItsWay(t) ==
  /\ at[t] = above[at[t][1]][t]
  /\ pc[t] = "out" => at[t][1] = 1
  /\ pc[t] = "climb" => at[t][1] # 1
  /\ pc[t] # "out" => waits[t] < Calls

\* The round that t takes part in has not been decided: nothing above t is ahead.
Gathering(t) ==
  /\ waits[t] = finals
  /\ pc[t] \notin {"advance", "return"}
  /\ pc[t] \in {"arrive", "spin"} => prevRound[t] = round[at[t]]
  /\ \A l \in Levels : New(round[above[l][t]])

\* The finalizer has run, the barriers above t are released from the root down;
\* t still holds those below the one it is at.
Releasing(t) ==
  /\ waits[t] + 1 = finals
  /\ pc[t] \in {"spin", "advance", "return"}
  /\ pc[t] = "spin" => Old(prevRound[t]) /\ leader # t
  /\ pc[t] # "spin" => (returns[t] <=> t = leader)
  /\ \A l \in Levels :
       /\ l < at[t][1] => Old(round[above[l][t]])
       /\ l = at[t][1] /\ pc[t] = "advance" => Old(round[above[l][t]])
       /\ l = at[t][1] /\ pc[t] = "return" => New(round[above[l][t]])
       /\ l > at[t][1] /\ pc[t] # "spin" => New(round[above[l][t]])

InRound(t) == Gathering(t) \/ Releasing(t)

\* No barrier is released before the ones above it.
TopDown ==
  \A t \in Workers : \A l, m \in Levels :
    /\ New(round[above[l][t]]) \/ Old(round[above[l][t]])
    /\ l < m /\ Old(round[above[m][t]]) => Old(round[above[l][t]])

\* While t holds a barrier, everybody else below it waits for t.
Alone ==
  \A t, u \in Workers : \A l \in Levels :
    Holds(t, l) /\ u # t /\ above[l][t] = above[l][u] =>
      /\ pc[u] = "spin" /\ prevRound[u] = round[at[u]]
      /\ at[u][1] <= l
      /\ waits[u] = waits[t]

\* cntr counts the participants that are missing.
Counted ==
  \A b \in Barriers :
    /\ \A t \in Workers : above[b[1]][t] = b /\ Holds(t, b[1]) =>
         cntr[b] = (IF at[t] = b /\ pc[t] = "reset" THEN 0 ELSE threadCount(b))
    /\ (\A t \in Workers : above[b[1]][t] = b => ~ Holds(t, b[1])) =>
         cntr[b] = threadCount(b) - Cardinality(Parked(b)) /\ cntr[b] >= 1

IInv ==
  /\ Types
  /\ \A t \in Workers : OnItsWay(t)
  /\ \A t \in Workers : InRound(t)
  /\ TopDown
  /\ Alone
  /\ Counted

\* Rounds that follow each other have different numbers.
LEMMA RoundFacts ==
  ASSUME TreeAssumption
  PROVE  /\ \A r \in 0 .. RoundMod - 1 : (r + 1) % RoundMod \in 0 .. RoundMod - 1 /\ (r + 1) % RoundMod # r
         /\ \A r, s \in 0 .. RoundMod - 1 : (r + 1) % RoundMod = (s + 1) % RoundMod => r = s
         /\ \A f \in Nat : f % RoundMod \in 0 .. RoundMod - 1
                          /\ (f + 1) % RoundMod = ((f % RoundMod) + 1) % RoundMod
<1> DEFINE R == RoundMod
<1>1. R \in Nat \ {0} /\ R >= 2
  BY DEF TreeAssumption
<1> HIDE DEF R
<1>2. \A r \in 0 .. R - 1 : (r + 1) % R = IF r + 1 = R THEN 0 ELSE r + 1
  <2> SUFFICES ASSUME NEW r \in 0 .. R - 1 PROVE (r + 1) % R = IF r + 1 = R THEN 0 ELSE r + 1
    OBVIOUS
  <2>1. r + 1 \in Nat /\ (r + 1 = R \/ r + 1 < R)
    BY <1>1
  <2> QED
    BY <1>1, <2>1
<1>3. \A f \in Nat : f % R \in 0 .. R - 1 /\ (f + 1) % R = ((f % R) + 1) % R
  <2> SUFFICES ASSUME NEW f \in Nat
               PROVE  f % R \in 0 .. R - 1 /\ (f + 1) % R = ((f % R) + 1) % R
    OBVIOUS
  <2> DEFINE q == f \div R
             r == f % R
  <2>1. q \in Nat /\ r \in Nat /\ r < R /\ f = R * q + r
    BY <1>1, Division
  <2> HIDE DEF q, r
  <2>2. r \in 0 .. R - 1 /\ R * q \in Nat /\ f + 1 \in Nat
    BY <1>1, <2>1
  <2>3. CASE r + 1 < R
    <3>1. R * q <= f + 1 /\ f + 1 < R * q + R
      BY <1>1, <2>1, <2>2, <2>3
    <3>2. (f + 1) \div R = q
      BY <1>1, <2>1, <2>2, <3>1, Quotient
    <3>3. f + 1 = R * q + ((f + 1) % R) /\ (f + 1) % R \in Nat
      BY <1>1, <2>2, <3>2, Division
    <3>4. (f + 1) % R = r + 1
      BY <2>1, <2>2, <3>3
    <3>5. (r + 1) % R = r + 1
      BY <1>2, <2>2, <2>3
    <3> QED
      BY <2>2, <3>4, <3>5 DEF r
  <2>4. CASE r + 1 = R
    <3>1. R * (q + 1) = f + 1 /\ q + 1 \in Nat
      BY <1>1, <2>1, <2>4
    <3>2. (f + 1) \div R = q + 1
      BY <1>1, <2>2, <3>1, Quotient
    <3>3. f + 1 = R * (q + 1) + ((f + 1) % R) /\ (f + 1) % R \in Nat
      BY <1>1, <2>2, <3>2, Division
    <3>4. (f + 1) % R = 0
      BY <2>2, <3>1, <3>3
    <3>5. (r + 1) % R = 0
      BY <1>2, <2>2, <2>4
    <3> QED
      BY <2>2, <3>4, <3>5 DEF r
  <2> QED
    BY <1>1, <2>1, <2>3, <2>4
<1>4. \A r \in 0 .. R - 1 : (r + 1) % R \in 0 .. R - 1 /\ (r + 1) % R # r
  BY <1>1, <1>2
<1>5. \A r, s \in 0 .. R - 1 : (r + 1) % R = (s + 1) % R => r = s
  BY <1>1, <1>2
<1> QED
  BY <1>3, <1>4, <1>5 DEF R

\* A round number is level with finals or one behind, never both; a release
\* brings it level, a finalizer leaves it behind.
LEMMA NewAndOld ==
  ASSUME TreeAssumption, Types, NEW r \in 0 .. RoundMod - 1
  PROVE  /\ ~(New(r) /\ Old(r))
         /\ Old(r) => New((r + 1) % RoundMod)
         /\ \A s \in 0 .. RoundMod - 1 : (New(r) /\ New(s) => r = s) /\ (Old(r) /\ Old(s) => r = s)
         /\ finals' = finals => New(r)' = New(r) /\ Old(r)' = Old(r)
         /\ finals' = finals + 1 => (Old(r)' <=> New(r))
<1>1. finals \in Nat
  BY DEF Types
<1>2. ~(New(r) /\ Old(r)) /\ (Old(r) => New((r + 1) % RoundMod))
  BY RoundFacts DEF New, Old
<1>3. \A s \in 0 .. RoundMod - 1 : (New(r) /\ New(s) => r = s) /\ (Old(r) /\ Old(s) => r = s)
  BY RoundFacts DEF New, Old
<1>4. finals' = finals => New(r)' = New(r) /\ Old(r)' = Old(r)
  BY DEF New, Old
<1>5. ASSUME finals' = finals + 1 PROVE Old(r)' <=> New(r)
  <2>1. Old(r)' <=> (r + 1) % RoundMod = (finals + 1) % RoundMod
    BY <1>5 DEF Old
  <2>2. finals % RoundMod \in 0 .. RoundMod - 1
        /\ (finals + 1) % RoundMod = ((finals % RoundMod) + 1) % RoundMod
    BY <1>1, RoundFacts
  <2> QED
    BY <2>1, <2>2, RoundFacts DEF New
<1> QED
  BY <1>2, <1>3, <1>4, <1>5

-----------------------------------------------------------------------------
(* Every step preserves the invariant.                                      *)

\* The tree as create leaves it, before anybody waits.
LEMMA InitIInv == TreeAssumption /\ Init => IInv
<1> SUFFICES ASSUME TreeAssumption, Init PROVE IInv
  OBVIOUS
<1>1. \A b \in Barriers : threadCount(b) \in Nat \ {0}
  BY Capacity
<1>2. \A t \in Workers : above[1][t] = barrierOf(t) /\ above[1][t] \in Barriers /\ above[1][t][1] = 1
  BY AboveFacts, LevelFacts
<1>3. 0 \in 0 .. RoundMod - 1 /\ 0 % RoundMod = 0
  BY DEF TreeAssumption
<1>4. Types
  BY <1>1, <1>2, <1>3 DEF Init, Types
<1>5. \A t \in Workers : OnItsWay(t)
  BY <1>2 DEF Init, OnItsWay
<1>6. \A t \in Workers : \A l \in Levels : round[above[l][t]] = 0
  BY AboveFacts DEF Init
<1>7. New(0) /\ ~ Old(0)
  BY <1>3, <1>4, NewAndOld DEF Init, New
<1>8. \A t \in Workers : InRound(t)
  BY <1>6, <1>7 DEF Init, InRound, Gathering
<1>9. TopDown
  BY <1>6, <1>7 DEF TopDown
<1>10. \A t \in Workers : \A l \in Levels : ~ Holds(t, l)
  <2>1. \A l \in Levels : ~(l < 1)
    BY LevelFacts
  <2> QED
    BY <1>2, <2>1 DEF Init, Holds
<1>11. Alone
  BY <1>10 DEF Alone
<1>12. Counted
  <2>1. \A b \in Barriers : Parked(b) = {}
    BY DEF Init, Parked
  <2>2. Cardinality({}) = 0
    BY FS_EmptySet
  <2> SUFFICES ASSUME NEW b \in Barriers
               PROVE  /\ \A t \in Workers : ~ Holds(t, b[1])
                      /\ cntr[b] = threadCount(b) - Cardinality(Parked(b)) /\ cntr[b] >= 1
    BY DEF Counted
  <2>3. b[1] \in Levels
    BY BarrierFacts
  <2>4. cntr[b] = threadCount(b) /\ Cardinality(Parked(b)) = 0
    BY <2>1, <2>2 DEF Init
  <2> QED
    BY <1>1, <1>10, <2>3, <2>4
<1> QED
  BY <1>4, <1>5, <1>8, <1>9, <1>11, <1>12 DEF IInv

\* Where a worker is.
LEMMA Here ==
  ASSUME TreeAssumption, IInv, NEW t \in Workers
  PROVE  /\ at[t] \in Barriers /\ at[t][1] \in Levels /\ at[t][1] \in Nat
         /\ above[at[t][1]][t] = at[t]
         /\ waits[t] \in Nat /\ finals \in Nat /\ round[at[t]] \in 0 .. RoundMod - 1
         /\ prevRound[t] \in 0 .. RoundMod - 1
<1>1. at[t] \in Barriers /\ waits[t] \in Nat /\ finals \in Nat
      /\ round[at[t]] \in 0 .. RoundMod - 1 /\ prevRound[t] \in 0 .. RoundMod - 1
  BY DEF IInv, Types
<1>2. at[t][1] \in Levels /\ at[t][1] \in Nat
  BY <1>1, BarrierFacts, LevelFacts
<1> QED
  BY <1>1, <1>2 DEF IInv, OnItsWay

\* A barrier above a worker that is not parked is held by nobody else.
LEMMA Unheld ==
  ASSUME IInv, NEW t \in Workers, pc[t] # "spin" \/ prevRound[t] # round[at[t]]
  PROVE  \A u \in Workers \ {t} : \A l \in Levels : above[l][u] = above[l][t] => ~ Holds(u, l)
BY DEF IInv, Alone

\* What a step that keeps the rounds leaves of the invariant.
LEMMA SameRounds ==
  ASSUME IInv, UNCHANGED <<round, finals>>
  PROVE  /\ \A r : New(r)' = New(r) /\ Old(r)' = Old(r)
         /\ TopDown'
<1>1. \A r : (r = finals' % RoundMod) = (r = finals % RoundMod)
             /\ ((r + 1) % RoundMod = finals' % RoundMod) = ((r + 1) % RoundMod = finals % RoundMod)
  OBVIOUS
<1>2. TopDown'
  BY DEF IInv, TopDown, New, Old
<1> QED
  BY <1>2 DEF New, Old

LEMMA LoadRoundIInv ==
  ASSUME TreeAssumption, IInv, NEW t \in Workers, LoadRound(t)
  PROVE  IInv'
<1>1. /\ pc[t] \in {"out", "climb"} /\ waits[t] < Calls
      /\ prevRound' = [prevRound EXCEPT ![t] = round[at[t]]]
      /\ pc' = [pc EXCEPT ![t] = "arrive"]
      /\ UNCHANGED <<cntr, round, at, returns, waits, result, finals, leader>>
  BY DEF LoadRound, Goto
<1>2. Types'
  BY <1>1, Here DEF IInv, Types
<1>3. /\ pc'[t] = "arrive" /\ prevRound'[t] = round[at[t]]
      /\ \A u \in Workers \ {t} : pc'[u] = pc[u] /\ prevRound'[u] = prevRound[u]
  BY <1>1 DEF IInv, Types
<1>4. (\A u \in Workers : OnItsWay(u))'
  BY <1>1, <1>3 DEF IInv, OnItsWay
<1>5. Gathering(t)
  BY <1>1 DEF IInv, InRound, Releasing
<1>6. (\A r : New(r)' = New(r) /\ Old(r)' = Old(r)) /\ TopDown'
  BY <1>1, SameRounds
<1>7. \A u \in Workers : InRound(u)'
  <2>1. Gathering(t)'
    BY <1>1, <1>3, <1>5 DEF Gathering, New
  <2>2. ASSUME NEW u \in Workers \ {t} PROVE InRound(u)'
    <3>1. InRound(u)
      BY DEF IInv
    <3> QED
      BY <1>1, <1>3, <3>1 DEF InRound, Gathering, Releasing, New, Old
  <2> QED
    BY <2>1, <2>2 DEF InRound
<1>8. \A u \in Workers : \A l \in Levels : Holds(u, l)' <=> Holds(u, l)
  BY <1>1, <1>3 DEF Holds
<1>9. Alone'
  <2> SUFFICES ASSUME NEW x \in Workers, NEW u \in Workers, NEW l \in Levels,
                      Holds(x, l), u # x, above[l][x] = above[l][u]
               PROVE  /\ pc'[u] = "spin" /\ prevRound'[u] = round[at[u]]
                      /\ at[u][1] <= l /\ waits[u] = waits[x]
    BY <1>1, <1>8 DEF Alone
  <2>1. u # t
    BY <1>1, Unheld
  <2> QED
    BY <1>3, <2>1 DEF IInv, Alone
<1>10. Counted'
  <2>1. \A b \in Barriers : Parked(b)' = Parked(b)
    BY <1>1, <1>3 DEF Parked
  <2>2. \A u \in Workers : pc'[u] = "reset" <=> pc[u] = "reset"
    BY <1>1, <1>3
  <2>3. \A b \in Barriers : b[1] \in Levels
    BY BarrierFacts
  <2> QED
    BY <1>1, <1>8, <2>1, <2>2, <2>3 DEF IInv, Counted
<1> QED
  BY <1>2, <1>4, <1>6, <1>7, <1>9, <1>10 DEF IInv

\* A worker parked in a round that has not been decided is in that round.
LEMMA ParkedGathers ==
  ASSUME TreeAssumption, IInv, NEW b \in Barriers, New(round[b]), NEW u \in Parked(b)
  PROVE  /\ u \in Workers /\ at[u] = b /\ pc[u] = "spin" /\ prevRound[u] = round[b]
         /\ waits[u] = finals
<1>1. u \in Workers /\ at[u] = b /\ pc[u] = "spin" /\ prevRound[u] = round[b]
  BY DEF Parked
<1>2. ~ Old(prevRound[u])
  BY <1>1, NewAndOld DEF IInv, Types
<1> QED
  BY <1>1, <1>2 DEF IInv, InRound, Gathering, Releasing

LEMMA ParkedFinite ==
  ASSUME TreeAssumption, NEW b
  PROVE  IsFiniteSet(Parked(b)) /\ Cardinality(Parked(b)) \in Nat
<1>1. IsFiniteSet(Workers)
  BY FS_Interval DEF Workers, TreeAssumption
<1>2. Parked(b) \subseteq Workers
  BY DEF Parked
<1> QED
  BY <1>1, <1>2, FS_Subset, FS_CardinalityType

\* When the counter says that t is the last participant of its barrier, every
\* worker below has arrived: the participants at the barrier are one for each
\* slot, and everybody behind a slot waits for the one who came up from there.
LEMMA LastArrives ==
  ASSUME TreeAssumption, IInv, NEW t \in Workers, Arrive(t), cntr[at[t]] = 1,
         NEW u \in Workers \ {t}, above[at[t][1]][u] = at[t]
  PROVE  /\ pc[u] = "spin" /\ prevRound[u] = round[at[u]]
         /\ at[u][1] <= at[t][1] /\ waits[u] = waits[t]
<1> DEFINE b == at[t]
           l == at[t][1]
           here == Parked(b) \cup {t}
           f == [v \in here |-> slot(v, l)]
<1>1. pc[t] = "arrive"
  BY DEF Arrive
<1>2. Gathering(t)
  BY <1>1 DEF IInv, InRound, Releasing
<1>3. /\ b \in Barriers /\ l \in Levels /\ l \in Nat /\ above[l][t] = b
      /\ waits[t] = finals /\ New(round[b])
  BY <1>2, Here DEF Gathering
<1>4. cntr[b] = threadCount(b) - Cardinality(Parked(b))
  <2>1. \A v \in Workers : above[l][v] = b => ~ Holds(v, l)
    <3>1. ~ Holds(t, l)
      BY <1>1, <1>3 DEF Holds
    <3>2. \A v \in Workers \ {t} : above[l][v] = b => ~ Holds(v, l)
      BY <1>1, <1>3, Unheld
    <3> QED
      BY <3>1, <3>2
  <2> QED
    BY <1>3, <2>1 DEF IInv, Counted
<1>5. \A v \in here : v \in Workers /\ at[v] = b /\ waits[v] = finals
  BY <1>3, ParkedGathers
<1>6. \A v \in Parked(b) : pc[v] = "spin" /\ prevRound[v] = round[at[v]]
  BY <1>3, ParkedGathers
<1>7. t \notin Parked(b)
  BY <1>1 DEF Parked
<1>8. \A v \in Workers : above[l][v] = b => slot(v, l) \in slots(b)
  <2> SUFFICES ASSUME NEW v \in Workers, above[l][v] = b PROVE slot(v, l) \in slots(b)
    OBVIOUS
  <2>1. slot(v, l) \in 0 .. Participants[l] - 1 /\ b = <<l, slot(v, l) \div threadsPerBarrier>>
    BY <1>3, AboveFacts
  <2>2. b[1] = l /\ b[2] = slot(v, l) \div threadsPerBarrier
    BY <2>1
  <2> HIDE DEF b, l
  <2> QED
    BY <2>1, <2>2 DEF slots
<1>9. \A v \in here : above[l][v] = b
  BY <1>5, Here
<1>10. ASSUME NEW v \in here, l # 1
       PROVE  Holds(v, l - 1) /\ l - 1 \in Levels /\ ~(at[v][1] <= l - 1)
  BY <1>3, <1>5, <1>10, LevelFacts DEF Holds
<1>11. ASSUME NEW v \in Workers, NEW w \in Workers, l # 1, slot(v, l) = slot(w, l)
       PROVE  above[l - 1][v] = above[l - 1][w]
  <2>1. l - 1 \in Levels
    BY <1>3, <1>11, LevelFacts
  <2>2. above[l - 1][v] \in Barriers /\ above[l - 1][v][1] = l - 1
        /\ above[l - 1][w] \in Barriers /\ above[l - 1][w][1] = l - 1
    BY <2>1, AboveFacts
  <2>3. above[l - 1][v][2] = above[l - 1][w][2]
    BY <1>11 DEF slot
  <2>4. above[l - 1][v] = <<l - 1, above[l - 1][v][2]>> /\ above[l - 1][w] = <<l - 1, above[l - 1][w][2]>>
    BY <2>2, BarrierFacts
  <2> QED
    BY <2>3, <2>4
<1>12. ASSUME NEW v \in here, NEW w \in here, slot(v, l) = slot(w, l) PROVE v = w
  <2>1. CASE l = 1
    BY <1>12, <2>1 DEF slot
  <2>2. CASE l # 1
    <3>1. above[l - 1][v] = above[l - 1][w]
      BY <1>5, <1>11, <1>12, <2>2
    <3> QED
      BY <1>5, <1>10, <2>2, <3>1 DEF IInv, Alone
  <2> QED
    BY <2>1, <2>2
<1>13. f \in Injection(here, slots(b))
  <2>1. f \in [here -> slots(b)]
    BY <1>5, <1>8, <1>9
  <2> QED
    BY <1>12, <2>1 DEF Injection, IsInjective
<1>14. Cardinality(here) = Cardinality(slots(b)) /\ IsFiniteSet(slots(b))
  <2>1. IsFiniteSet(Parked(b)) /\ Cardinality(Parked(b)) \in Nat
    BY ParkedFinite
  <2>2. Cardinality(here) = Cardinality(Parked(b)) + 1
    BY <1>7, <2>1, FS_AddElement
  <2>3. threadCount(b) \in Nat /\ IsFiniteSet(slots(b)) /\ Cardinality(slots(b)) = threadCount(b)
    BY <1>3, Capacity
  <2>4. threadCount(b) - Cardinality(Parked(b)) = 1
    BY <1>4
  <2>5. Cardinality(here) = threadCount(b)
    BY <2>1, <2>2, <2>3, <2>4
  <2> QED
    BY <2>3, <2>5
<1>15. f \in Surjection(here, slots(b))
  BY <1>13, <1>14, FS_Injection
<1>16. PICK v \in here : slot(v, l) = slot(u, l)
  <2>1. slot(u, l) \in slots(b)
    BY <1>8
  <2> QED
    BY <1>15, <2>1 DEF Surjection
<1>17. CASE v = u
  <2>1. u \in Parked(b)
    BY <1>17
  <2> QED
    BY <1>3, <1>5, <1>6, <2>1
<1>18. CASE v # u
  <2>1. v \in Workers /\ waits[v] = waits[t]
    BY <1>3, <1>5
  <2>2. l # 1
    BY <1>16, <1>18 DEF slot
  <2>3. above[l - 1][v] = above[l - 1][u] /\ Holds(v, l - 1) /\ l - 1 \in Levels
    BY <1>10, <1>11, <1>16, <2>1, <2>2
  <2>4. pc[u] = "spin" /\ prevRound[u] = round[at[u]] /\ at[u][1] <= l - 1 /\ waits[u] = waits[v]
    BY <1>18, <2>1, <2>3 DEF IInv, Alone
  <2>5. at[u][1] \in Nat
    BY Here
  <2> QED
    BY <1>3, <2>1, <2>4, <2>5
<1> QED
  BY <1>17, <1>18

LEMMA ArriveIInv ==
  ASSUME TreeAssumption, IInv, NEW t \in Workers, Arrive(t)
  PROVE  IInv'
<1>0. PICK b \in Barriers, k \in Levels :
        /\ b = at[t] /\ k = at[t][1]
        /\ k \in Nat /\ above[k][t] = b /\ b[1] = k /\ threadCount(b) \in Nat
  BY Here, Capacity
<1>1. /\ pc[t] = "arrive"
      /\ cntr' = [cntr EXCEPT ![b] = cntr[b] - 1]
      /\ pc' = [pc EXCEPT ![t] = IF cntr[b] = 1 THEN "reset" ELSE "spin"]
      /\ UNCHANGED <<round, at, prevRound, returns, waits, result, finals, leader>>
  BY <1>0 DEF Arrive, Goto
<1>2. b = at[t] /\ k = at[t][1] /\ k \in Nat /\ above[k][t] = b /\ b[1] = k
  BY <1>0
<1>3. Types'
  BY <1>1, <1>2 DEF IInv, Types
<1>4. /\ pc'[t] = (IF cntr[b] = 1 THEN "reset" ELSE "spin")
      /\ \A u \in Workers \ {t} : pc'[u] = pc[u]
      /\ cntr'[b] = cntr[b] - 1
      /\ \A c \in Barriers \ {b} : cntr'[c] = cntr[c]
  BY <1>1, <1>2 DEF IInv, Types
<1>5. (\A u \in Workers : OnItsWay(u))'
  BY <1>1, <1>4 DEF IInv, OnItsWay
<1>6. Gathering(t)
  BY <1>1 DEF IInv, InRound, Releasing
<1>7. (\A r : New(r)' = New(r) /\ Old(r)' = Old(r)) /\ TopDown'
  BY <1>1, SameRounds
<1>8. \A u \in Workers : InRound(u)'
  <2>1. Gathering(t)'
    BY <1>1, <1>4, <1>6 DEF Gathering, New
  <2>2. ASSUME NEW u \in Workers \ {t} PROVE InRound(u)'
    <3>1. InRound(u)
      BY DEF IInv
    <3> QED
      BY <1>1, <1>4, <3>1 DEF InRound, Gathering, Releasing, New, Old
  <2> QED
    BY <2>1, <2>2 DEF InRound
<1>9. \A u \in Workers : \A l \in Levels :
        Holds(u, l)' <=> (Holds(u, l) \/ (cntr[b] = 1 /\ u = t /\ l = k))
  BY <1>1, <1>2, <1>4 DEF Holds
<1>10. /\ \A u \in Workers \ {t} : \A l \in Levels : above[l][u] = above[l][t] => ~ Holds(u, l)
       /\ \A u \in Workers : above[k][u] = b => ~ Holds(u, k)
  <2>1. \A u \in Workers \ {t} : \A l \in Levels : above[l][u] = above[l][t] => ~ Holds(u, l)
    BY <1>1, Unheld
  <2>2. ~ Holds(t, k)
    BY <1>1, <1>2 DEF Holds
  <2> QED
    BY <1>2, <2>1, <2>2
<1>11. Alone'
  <2> SUFFICES ASSUME NEW x \in Workers, NEW u \in Workers, NEW l \in Levels,
                      Holds(x, l)', u # x, above[l][x] = above[l][u]
               PROVE  /\ pc'[u] = "spin" /\ prevRound[u] = round[at[u]]
                      /\ at[u][1] <= l /\ waits[u] = waits[x]
    BY <1>1 DEF Alone
  <2>1. CASE Holds(x, l)
    <3>1. u # t
      BY <1>10, <2>1
    <3> QED
      BY <1>4, <2>1, <3>1 DEF IInv, Alone
  <2>2. CASE cntr[b] = 1 /\ x = t /\ l = k
    BY <1>2, <1>4, <2>2, LastArrives
  <2> QED
    BY <1>9, <2>1, <2>2
<1>12. cntr[b] = threadCount(b) - Cardinality(Parked(b)) /\ cntr[b] >= 1
  BY <1>2, <1>10 DEF IInv, Counted
<1>13. Counted'
  <2> SUFFICES ASSUME NEW c \in Barriers
               PROVE  /\ \A u \in Workers : above[c[1]][u] = c /\ Holds(u, c[1])' =>
                           cntr'[c] = (IF at[u] = c /\ pc'[u] = "reset" THEN 0 ELSE threadCount(c))
                      /\ (\A u \in Workers : above[c[1]][u] = c => ~ Holds(u, c[1])') =>
                           cntr'[c] = threadCount(c) - Cardinality(Parked(c)') /\ cntr'[c] >= 1
    BY <1>1 DEF Counted
  <2>1. c[1] \in Levels
    BY BarrierFacts
  <2>2. CASE c # b
    <3>1. Parked(c)' = Parked(c)
      BY <1>1, <1>2, <1>4, <2>2 DEF Parked
    <3>2. \A u \in Workers : above[c[1]][u] = c => (Holds(u, c[1])' <=> Holds(u, c[1]))
      BY <1>2, <1>9, <2>1, <2>2
    <3>3. cntr'[c] = cntr[c]
      BY <1>4, <2>2
    <3>4. \A u \in Workers : (at[u] = c /\ pc'[u] = "reset") <=> (at[u] = c /\ pc[u] = "reset")
      BY <1>1, <1>2, <1>4, <2>2
    <3> QED
      BY <3>1, <3>2, <3>3, <3>4 DEF IInv, Counted
  <2>3. CASE c = b /\ cntr[b] = 1
    <3>1. \A u \in Workers : above[k][u] = b => (Holds(u, k)' <=> u = t)
      BY <1>2, <1>9, <1>10, <2>3
    <3> QED
      BY <1>2, <1>4, <2>3, <3>1
  <2>4. CASE c = b /\ cntr[b] # 1
    <3>1. Parked(b)' = Parked(b) \cup {t} /\ t \notin Parked(b)
      BY <1>1, <1>2, <1>4, <1>6, <2>4 DEF Parked, Gathering
    <3>2. Cardinality(Parked(b)') = Cardinality(Parked(b)) + 1
      BY <3>1, ParkedFinite, FS_AddElement
    <3>3. Cardinality(Parked(b)) \in Nat /\ threadCount(b) \in Nat
      BY <1>2, ParkedFinite, Capacity
    <3>4. cntr'[b] = threadCount(b) - Cardinality(Parked(b)') /\ cntr'[b] >= 1
      BY <1>4, <1>12, <2>4, <3>2, <3>3
    <3>5. \A u \in Workers : above[k][u] = b => ~ Holds(u, k)'
      BY <1>2, <1>9, <1>10, <2>4
    <3> QED
      BY <1>2, <2>4, <3>4, <3>5
  <2> QED
    BY <2>2, <2>3, <2>4
<1> QED
  BY <1>3, <1>5, <1>7, <1>8, <1>11, <1>13 DEF IInv

\* The last thread is the only one that holds the barrier it closes.
LEMMA OneHolder ==
  ASSUME TreeAssumption, IInv, NEW t \in Workers, NEW l \in Levels, Holds(t, l),
         NEW u \in Workers \ {t}, above[l][u] = above[l][t]
  PROVE  ~ Holds(u, l)
<1>1. at[u][1] <= l /\ pc[u] = "spin"
  BY DEF IInv, Alone
<1>2. at[u][1] \in Nat /\ l \in Nat
  BY Here, LevelFacts
<1> QED
  BY <1>1, <1>2 DEF Holds

LEMMA ResetCounterIInv ==
  ASSUME TreeAssumption, IInv, NEW t \in Workers, ResetCounter(t)
  PROVE  IInv'
<1>0. PICK b \in Barriers, k \in Levels :
        /\ b = at[t] /\ k = at[t][1]
        /\ k \in Nat /\ above[k][t] = b /\ b[1] = k /\ threadCount(b) \in Nat
  BY Here, Capacity
<1>1. /\ pc[t] = "reset"
      /\ cntr' = [cntr EXCEPT ![b] = threadCount(b)]
      /\ pc' = [pc EXCEPT ![t] = "finalize"]
      /\ UNCHANGED <<round, at, prevRound, returns, waits, result, finals, leader>>
  BY <1>0 DEF ResetCounter, Goto
<1>2. /\ b = at[t] /\ k = at[t][1] /\ k \in Nat /\ above[k][t] = b /\ b[1] = k
      /\ threadCount(b) \in Nat
  BY <1>0
<1>3. Types'
  BY <1>1, <1>2 DEF IInv, Types
<1>4. /\ pc'[t] = "finalize"
      /\ \A u \in Workers \ {t} : pc'[u] = pc[u]
      /\ cntr'[b] = threadCount(b)
      /\ \A c \in Barriers \ {b} : cntr'[c] = cntr[c]
  BY <1>1, <1>2 DEF IInv, Types
<1>5. (\A u \in Workers : OnItsWay(u))'
  BY <1>1, <1>4 DEF IInv, OnItsWay
<1>6. Gathering(t)
  BY <1>1 DEF IInv, InRound, Releasing
<1>7. TopDown'
  BY <1>1, SameRounds
<1>8. \A u \in Workers : InRound(u)'
  <2>1. Gathering(t)'
    BY <1>1, <1>4, <1>6 DEF Gathering, New
  <2>2. ASSUME NEW u \in Workers \ {t} PROVE InRound(u)'
    <3>1. InRound(u)
      BY DEF IInv
    <3> QED
      BY <1>1, <1>4, <3>1 DEF InRound, Gathering, Releasing, New, Old
  <2> QED
    BY <2>1, <2>2 DEF InRound
<1>9. (\A u \in Workers : \A l \in Levels : Holds(u, l)' <=> Holds(u, l)) /\ Holds(t, k)
  BY <1>1, <1>2, <1>4 DEF Holds
<1>10. Alone'
  <2> SUFFICES ASSUME NEW x \in Workers, NEW u \in Workers, NEW l \in Levels,
                      Holds(x, l), u # x, above[l][x] = above[l][u]
               PROVE  /\ pc'[u] = "spin" /\ prevRound[u] = round[at[u]]
                      /\ at[u][1] <= l /\ waits[u] = waits[x]
    BY <1>1, <1>9 DEF Alone
  <2>1. u # t
    BY <1>1, Unheld
  <2> QED
    BY <1>4, <2>1 DEF IInv, Alone
<1>11. Counted'
  <2> SUFFICES ASSUME NEW c \in Barriers
               PROVE  /\ \A u \in Workers : above[c[1]][u] = c /\ Holds(u, c[1]) =>
                           cntr'[c] = (IF at[u] = c /\ pc'[u] = "reset" THEN 0 ELSE threadCount(c))
                      /\ (\A u \in Workers : above[c[1]][u] = c => ~ Holds(u, c[1])) =>
                           cntr'[c] = threadCount(c) - Cardinality(Parked(c)') /\ cntr'[c] >= 1
    <3>1. \A c \in Barriers : c[1] \in Levels
      BY BarrierFacts
    <3> QED
      BY <1>1, <1>9, <3>1 DEF Counted
  <2>2. CASE c # b
    <3>1. Parked(c)' = Parked(c)
      BY <1>1, <1>4 DEF Parked
    <3>2. cntr'[c] = cntr[c]
      BY <1>4, <2>2
    <3>3. \A u \in Workers : (at[u] = c /\ pc'[u] = "reset") <=> (at[u] = c /\ pc[u] = "reset")
      BY <1>1, <1>2, <1>4, <2>2
    <3> QED
      BY <3>1, <3>2, <3>3 DEF IInv, Counted
  <2>3. CASE c = b
    <3>1. \A u \in Workers : above[k][u] = b /\ Holds(u, k) => u = t
      BY <1>2, <1>9, OneHolder
    <3> QED
      BY <1>2, <1>4, <1>9, <2>3, <3>1
  <2> QED
    BY <2>2, <2>3
<1> QED
  BY <1>3, <1>5, <1>7, <1>8, <1>10, <1>11 DEF IInv

LEMMA ClimbIInv ==
  ASSUME TreeAssumption, IInv, NEW t \in Workers, Climb(t)
  PROVE  IInv'
<1>0. PICK b \in Barriers, k \in Levels :
        /\ b = at[t] /\ k = at[t][1]
        /\ k \in Nat \ {0} /\ above[k][t] = b /\ b[1] = k
  BY Here, LevelFacts
<1>1. /\ pc[t] = "finalize" /\ k + 1 \in Levels
      /\ at' = [at EXCEPT ![t] = above[k + 1][t]]
      /\ pc' = [pc EXCEPT ![t] = "climb"]
      /\ UNCHANGED <<cntr, round, prevRound, returns, waits, result, finals, leader>>
  <2>1. k + 1 \in Levels
    BY <1>0 DEF Climb, IsRoot
  <2>2. above[k + 1][t] = parent(b)
    BY <1>0, <2>1, AboveFacts
  <2> QED
    BY <1>0, <2>1, <2>2 DEF Climb, Goto
<1>2. above[k + 1][t] \in Barriers /\ above[k + 1][t][1] = k + 1
  BY <1>1, AboveFacts
<1>3. Types'
  BY <1>1, <1>2 DEF IInv, Types
<1>4. /\ pc'[t] = "climb" /\ at'[t] = above[k + 1][t] /\ at'[t][1] = k + 1
      /\ \A u \in Workers \ {t} : pc'[u] = pc[u] /\ at'[u] = at[u]
  BY <1>1, <1>2 DEF IInv, Types
<1>5. \A u \in Workers : OnItsWay(u)'
  <2>1. OnItsWay(t)'
    BY <1>0, <1>1, <1>4 DEF IInv, OnItsWay
  <2>2. ASSUME NEW u \in Workers \ {t} PROVE OnItsWay(u)'
    BY <1>1, <1>4 DEF IInv, OnItsWay
  <2> QED
    BY <2>1, <2>2
<1>6. Gathering(t)
  BY <1>1 DEF IInv, InRound, Releasing
<1>7. TopDown'
  BY <1>1, SameRounds
<1>8. \A u \in Workers : InRound(u)'
  <2>1. Gathering(t)'
    BY <1>1, <1>4, <1>6 DEF Gathering, New
  <2>2. ASSUME NEW u \in Workers \ {t} PROVE InRound(u)'
    <3>1. InRound(u)
      BY DEF IInv
    <3> QED
      BY <1>1, <1>4, <3>1 DEF InRound, Gathering, Releasing, New, Old
  <2> QED
    BY <2>1, <2>2 DEF InRound
<1>9. \A u \in Workers : \A l \in Levels : Holds(u, l)' <=> Holds(u, l)
  <2>1. \A l \in Levels : l < k + 1 <=> (l < k \/ l = k)
    BY <1>0, LevelFacts
  <2>2. \A l \in Levels : l # k + 1 \/ ~(l < k + 1)
    BY <1>0, LevelFacts
  <2>3. \A l \in Levels : Holds(t, l)' <=> Holds(t, l)
    BY <1>0, <1>1, <1>4, <2>1 DEF Holds
  <2>4. \A u \in Workers \ {t} : \A l \in Levels : Holds(u, l)' <=> Holds(u, l)
    BY <1>4 DEF Holds
  <2> QED
    BY <2>3, <2>4
<1>10. Alone'
  <2> SUFFICES ASSUME NEW x \in Workers, NEW u \in Workers, NEW l \in Levels,
                      Holds(x, l), u # x, above[l][x] = above[l][u]
               PROVE  /\ pc'[u] = "spin" /\ prevRound[u] = round[at'[u]]
                      /\ at'[u][1] <= l /\ waits[u] = waits[x]
    BY <1>1, <1>9 DEF Alone
  <2>1. u # t
    BY <1>1, Unheld
  <2> QED
    BY <1>4, <2>1 DEF IInv, Alone
<1>11. Counted'
  <2>1. \A c \in Barriers : Parked(c)' = Parked(c)
    BY <1>1, <1>4 DEF Parked
  <2>2. \A c : \A u \in Workers : (at'[u] = c /\ pc'[u] = "reset") <=> (at[u] = c /\ pc[u] = "reset")
    BY <1>1, <1>4
  <2>3. \A c \in Barriers : c[1] \in Levels
    BY BarrierFacts
  <2> QED
    BY <1>1, <1>9, <2>1, <2>2, <2>3 DEF IInv, Counted
<1> QED
  BY <1>3, <1>5, <1>7, <1>8, <1>10, <1>11 DEF IInv

LEMMA PassRoundIInv ==
  ASSUME TreeAssumption, IInv, NEW t \in Workers, PassRound(t)
  PROVE  IInv'
<1>0. PICK b \in Barriers, k \in Levels :
        /\ b = at[t] /\ k = at[t][1]
        /\ k \in Nat \ {0} /\ above[k][t] = b /\ b[1] = k
  BY Here, LevelFacts
<1>1. /\ pc[t] = "spin" /\ round[b] # prevRound[t]
      /\ returns' = [returns EXCEPT ![t] = FALSE]
      /\ pc' = [pc EXCEPT ![t] = "return"]
      /\ UNCHANGED <<cntr, round, at, prevRound, waits, result, finals, leader>>
  BY <1>0 DEF PassRound, Goto
<1>2. Types'
  BY <1>1 DEF IInv, Types
<1>3. /\ pc'[t] = "return" /\ returns'[t] = FALSE
      /\ \A u \in Workers \ {t} : pc'[u] = pc[u] /\ returns'[u] = returns[u]
  BY <1>1 DEF IInv, Types
<1>4. \A u \in Workers : OnItsWay(u)'
  BY <1>1, <1>3 DEF IInv, OnItsWay
<1>5. Releasing(t)
  BY <1>0, <1>1 DEF IInv, InRound, Gathering
<1>6. (\A r : New(r)' = New(r) /\ Old(r)' = Old(r)) /\ TopDown'
  BY <1>1, SameRounds
<1>7. New(round[b]) /\ ~ Old(round[b])
  <2>1. round[b] \in 0 .. RoundMod - 1 /\ prevRound[t] \in 0 .. RoundMod - 1
    BY <1>0, Here
  <2>2. Old(prevRound[t])
    BY <1>1, <1>5 DEF Releasing
  <2>3. ~ Old(round[b])
    BY <1>1, <2>1, <2>2, NewAndOld DEF IInv
  <2> QED
    BY <1>0, <2>3 DEF IInv, TopDown
<1>8. \A l \in Levels : l > k => New(round[above[l][t]])
  BY <1>0, <1>7 DEF IInv, TopDown
<1>9. \A u \in Workers : InRound(u)'
  <2>1. Releasing(t)'
    <3>1. \A l \in Levels :
            /\ l < k => Old(round[above[l][t]])
            /\ l = k => New(round[above[l][t]])
            /\ l > k => New(round[above[l][t]])
      BY <1>0, <1>5, <1>7, <1>8 DEF Releasing
    <3>2. returns'[t] <=> t = leader
      BY <1>1, <1>3, <1>5 DEF Releasing
    <3>3. waits'[t] + 1 = finals' /\ pc'[t] \in {"spin", "advance", "return"}
      BY <1>1, <1>3, <1>5 DEF Releasing
    <3> QED
      BY <1>0, <1>1, <1>3, <1>6, <3>1, <3>2, <3>3 DEF Releasing
  <2>2. ASSUME NEW u \in Workers \ {t} PROVE InRound(u)'
    <3>1. InRound(u)
      BY DEF IInv
    <3> QED
      BY <1>1, <1>3, <3>1 DEF InRound, Gathering, Releasing, New, Old
  <2> QED
    BY <2>1, <2>2 DEF InRound
<1>10. \A u \in Workers : \A l \in Levels : Holds(u, l)' <=> Holds(u, l)
  BY <1>1, <1>3 DEF Holds
<1>11. Alone'
  <2> SUFFICES ASSUME NEW x \in Workers, NEW u \in Workers, NEW l \in Levels,
                      Holds(x, l), u # x, above[l][x] = above[l][u]
               PROVE  /\ pc'[u] = "spin" /\ prevRound[u] = round[at[u]]
                      /\ at[u][1] <= l /\ waits[u] = waits[x]
    BY <1>1, <1>10 DEF Alone
  <2>1. u # t
    BY <1>0, <1>1, Unheld
  <2> QED
    BY <1>3, <2>1 DEF IInv, Alone
<1>12. Counted'
  <2>1. \A c \in Barriers : Parked(c)' = Parked(c)
    BY <1>0, <1>1, <1>3 DEF Parked
  <2>2. \A u \in Workers : pc'[u] = "reset" <=> pc[u] = "reset"
    BY <1>1, <1>3
  <2>3. \A c \in Barriers : c[1] \in Levels
    BY BarrierFacts
  <2> QED
    BY <1>1, <1>10, <2>1, <2>2, <2>3 DEF IInv, Counted
<1> QED
  BY <1>2, <1>4, <1>6, <1>9, <1>11, <1>12 DEF IInv

\* At the root the last thread is alone: all others wait in the round.
LEMMA EveryoneWaits ==
  ASSUME TreeAssumption, IInv, NEW t \in Workers, RunFinalizer(t)
  PROVE  /\ Gathering(t) /\ pc[t] = "finalize"
         /\ at[t][1] \in Levels /\ at[t][1] + 1 \notin Levels
         /\ \A u \in Workers \ {t} :
              pc[u] = "spin" /\ prevRound[u] = round[at[u]] /\ waits[u] = finals /\ Gathering(u)
<1>1. pc[t] = "finalize" /\ at[t][1] \in Levels /\ at[t][1] + 1 \notin Levels
  BY Here DEF RunFinalizer, IsRoot
<1>2. Gathering(t)
  BY <1>1 DEF IInv, InRound, Releasing
<1>3. Holds(t, at[t][1])
  BY <1>1 DEF Holds
<1>4. ASSUME NEW u \in Workers \ {t}
      PROVE  pc[u] = "spin" /\ prevRound[u] = round[at[u]] /\ waits[u] = finals /\ Gathering(u)
  <2>1. above[at[t][1]][t] = above[at[t][1]][u]
    BY <1>1, RootFacts
  <2>2. pc[u] = "spin" /\ prevRound[u] = round[at[u]] /\ waits[u] = finals
    BY <1>1, <1>2, <1>3, <2>1 DEF IInv, Alone, Gathering
  <2>3. finals \in Nat
    BY Here
  <2>4. Gathering(u)
    BY <2>2, <2>3 DEF IInv, InRound, Releasing
  <2> QED
    BY <2>2, <2>4
<1> QED
  BY <1>1, <1>2, <1>4

LEMMA RunFinalizerIInv ==
  ASSUME TreeAssumption, IInv, NEW t \in Workers, RunFinalizer(t)
  PROVE  IInv'
<1>0. PICK b \in Barriers, k \in Levels :
        /\ b = at[t] /\ k = at[t][1]
        /\ k \in Nat \ {0} /\ above[k][t] = b /\ b[1] = k
  BY Here, LevelFacts
<1>1. /\ pc[t] = "finalize"
      /\ finals' = finals + 1 /\ leader' = t
      /\ returns' = [returns EXCEPT ![t] = TRUE]
      /\ pc' = [pc EXCEPT ![t] = "advance"]
      /\ UNCHANGED <<cntr, round, at, prevRound, waits, result>>
  BY DEF RunFinalizer, Goto
<1>2. Types'
  BY <1>1 DEF IInv, Types
<1>3. /\ pc'[t] = "advance" /\ returns'[t] = TRUE
      /\ \A u \in Workers \ {t} : pc'[u] = pc[u] /\ returns'[u] = returns[u]
  BY <1>1 DEF IInv, Types
<1>4. \A u \in Workers : OnItsWay(u)'
  BY <1>1, <1>3 DEF IInv, OnItsWay
<1>5. /\ Gathering(t) /\ k + 1 \notin Levels
      /\ \A u \in Workers \ {t} :
           pc[u] = "spin" /\ prevRound[u] = round[at[u]] /\ waits[u] = finals /\ Gathering(u)
  BY <1>0, EveryoneWaits
<1>6. \A r \in 0 .. RoundMod - 1 : Old(r)' <=> New(r)
  BY <1>1, NewAndOld DEF IInv
<1>7. \A u \in Workers : \A l \in Levels : Old(round[above[l][u]])'
  <2> SUFFICES ASSUME NEW u \in Workers, NEW l \in Levels PROVE Old(round[above[l][u]])'
    OBVIOUS
  <2>1. New(round[above[l][u]])
    BY <1>5 DEF Gathering
  <2>2. above[l][u] \in Barriers
    BY AboveFacts
  <2>3. round[above[l][u]] \in 0 .. RoundMod - 1
    BY <2>2 DEF IInv, Types
  <2> QED
    BY <1>1, <1>6, <2>1, <2>3 DEF Old
<1>8. TopDown'
  BY <1>7 DEF TopDown
<1>9. \A u \in Workers : InRound(u)'
  <2>1. Releasing(t)'
    <3>1. waits'[t] + 1 = finals' /\ (returns'[t] <=> t = leader')
      BY <1>1, <1>3, <1>5 DEF Gathering
    <3>2. \A l \in Levels : ~(l > k)
      BY <1>0, <1>5, RootIsTop, LevelFacts
    <3> QED
      BY <1>0, <1>1, <1>3, <1>7, <3>1, <3>2 DEF Releasing
  <2>2. ASSUME NEW u \in Workers \ {t} PROVE Releasing(u)'
    <3>1. prevRound[u] = round[above[at[u][1]][u]] /\ at[u][1] \in Levels
      BY <1>5, Here
    <3>2. Old(prevRound[u])'
      BY <1>1, <1>7, <3>1 DEF Old
    <3>3. pc'[u] = "spin" /\ leader' # u /\ waits'[u] + 1 = finals'
      BY <1>1, <1>3, <1>5
    <3> QED
      BY <1>1, <1>7, <3>2, <3>3 DEF Releasing
  <2> QED
    BY <2>1, <2>2 DEF InRound
<1>10. \A u \in Workers : \A l \in Levels : Holds(u, l)' <=> Holds(u, l)
  BY <1>1, <1>3 DEF Holds
<1>11. Alone'
  <2> SUFFICES ASSUME NEW x \in Workers, NEW u \in Workers, NEW l \in Levels,
                      Holds(x, l), u # x, above[l][x] = above[l][u]
               PROVE  /\ pc'[u] = "spin" /\ prevRound[u] = round[at[u]]
                      /\ at[u][1] <= l /\ waits[u] = waits[x]
    BY <1>1, <1>10 DEF Alone
  <2>1. u # t
    BY <1>1, Unheld
  <2> QED
    BY <1>3, <2>1 DEF IInv, Alone
<1>12. Counted'
  <2>1. \A c \in Barriers : Parked(c)' = Parked(c)
    BY <1>1, <1>3 DEF Parked
  <2>2. \A u \in Workers : pc'[u] = "reset" <=> pc[u] = "reset"
    BY <1>1, <1>3
  <2>3. \A c \in Barriers : c[1] \in Levels
    BY BarrierFacts
  <2> QED
    BY <1>1, <1>10, <2>1, <2>2, <2>3 DEF IInv, Counted
<1> QED
  BY <1>2, <1>4, <1>8, <1>9, <1>11, <1>12 DEF IInv

\* A barrier is released: t, who held it, lets everybody go who is parked there.
LEMMA AdvanceRoundIInv ==
  ASSUME TreeAssumption, IInv, NEW t \in Workers, AdvanceRound(t)
  PROVE  IInv'
<1>0. PICK b \in Barriers, k \in Levels :
        /\ b = at[t] /\ k = at[t][1]
        /\ k \in Nat \ {0} /\ above[k][t] = b /\ b[1] = k
        /\ round[b] \in 0 .. RoundMod - 1 /\ threadCount(b) \in Nat \ {0}
  BY Here, LevelFacts, Capacity
<1>1. PICK r \in 0 .. RoundMod - 1 :
        /\ r = round[b]
        /\ (r + 1) % RoundMod \in 0 .. RoundMod - 1 /\ (r + 1) % RoundMod # r
        /\ pc[t] = "advance"
        /\ round' = [round EXCEPT ![b] = (r + 1) % RoundMod]
        /\ pc' = [pc EXCEPT ![t] = "return"]
        /\ UNCHANGED <<cntr, at, prevRound, returns, waits, result, finals, leader>>
  BY <1>0, RoundFacts DEF AdvanceRound, Goto
<1>2. Types'
  BY <1>1 DEF IInv, Types
<1>3. /\ pc'[t] = "return" /\ round'[b] = (r + 1) % RoundMod
      /\ \A u \in Workers \ {t} : pc'[u] = pc[u]
      /\ \A c \in Barriers \ {b} : round'[c] = round[c]
  BY <1>1 DEF IInv, Types
<1>4. \A u \in Workers : OnItsWay(u)'
  BY <1>1, <1>3 DEF IInv, OnItsWay
<1>5. Releasing(t) /\ Old(r)
  <2>1. Releasing(t)
    BY <1>1 DEF IInv, InRound, Gathering
  <2> QED
    BY <1>0, <1>1, <2>1 DEF Releasing
<1>6. \A s : New(s)' = New(s) /\ Old(s)' = Old(s)
  BY <1>1 DEF New, Old
<1>7. New(round'[b]) /\ ~ Old(round'[b])
  BY <1>1, <1>3, <1>5, NewAndOld DEF IInv
<1>8. Holds(t, k)
  BY <1>0, <1>1 DEF Holds
<1>9. \A u \in Workers \ {t} : above[k][u] = b =>
        /\ pc[u] = "spin" /\ prevRound[u] = round[at[u]] /\ at[u][1] <= k
        /\ waits[u] = waits[t] /\ ~ Holds(u, k) /\ Releasing(u)
  <2> SUFFICES ASSUME NEW u \in Workers \ {t}, above[k][u] = b
               PROVE  /\ pc[u] = "spin" /\ prevRound[u] = round[at[u]] /\ at[u][1] <= k
                      /\ waits[u] = waits[t] /\ ~ Holds(u, k) /\ Releasing(u)
    OBVIOUS
  <2>1. /\ pc[u] = "spin" /\ prevRound[u] = round[at[u]] /\ at[u][1] <= k
        /\ waits[u] = waits[t]
    BY <1>0, <1>8 DEF IInv, Alone
  <2>2. ~ Holds(u, k)
    BY <1>0, <1>8, OneHolder
  <2>3. waits[u] # finals
    BY <1>5, <2>1, Here DEF Releasing
  <2>4. Releasing(u)
    BY <2>3 DEF IInv, InRound, Gathering
  <2> QED
    BY <2>1, <2>2, <2>4
<1>10. \A u \in Workers : \A l \in Levels :
         /\ above[l][u] \in Barriers
         /\ above[l][u] = b => l = k
         /\ above[l][u] # b => round'[above[l][u]] = round[above[l][u]]
  BY <1>0, <1>3, AboveFacts
<1>11. TopDown'
  <2> SUFFICES ASSUME NEW u \in Workers, NEW l \in Levels, NEW m \in Levels
               PROVE  /\ New(round'[above[l][u]]) \/ Old(round'[above[l][u]])
                      /\ l < m /\ Old(round'[above[m][u]]) => Old(round'[above[l][u]])
    BY <1>6 DEF TopDown, New, Old
  <2>1. New(round'[above[l][u]]) \/ Old(round'[above[l][u]])
    BY <1>7, <1>10 DEF IInv, TopDown
  <2>2. ASSUME l < m, Old(round'[above[m][u]]) PROVE Old(round'[above[l][u]])
    <3>1. above[m][u] # b
      BY <1>7, <2>2
    <3>2. Old(round[above[m][u]]) /\ Old(round[above[l][u]])
      BY <1>10, <2>2, <3>1 DEF IInv, TopDown
    <3>3. CASE above[l][u] = b
      <4>1. l = k /\ above[k][u] = above[k][t] /\ k <= m
        BY <1>0, <1>10, <2>2, <3>3, LevelFacts
      <4>2. above[m][u] = above[m][t]
        BY <4>1, AboveMeet
      <4>3. New(round[above[m][t]])
        BY <1>0, <1>1, <1>5, <2>2, <4>1 DEF Releasing
      <4>4. round[above[m][t]] \in 0 .. RoundMod - 1
        BY <1>10 DEF IInv, Types
      <4> QED
        BY <3>2, <4>2, <4>3, <4>4, NewAndOld DEF IInv
    <3>4. CASE above[l][u] # b
      BY <1>10, <3>2, <3>4
    <3> QED
      BY <3>3, <3>4
  <2> QED
    BY <2>1, <2>2
<1>12. \A u \in Workers : InRound(u)'
  <2>1. Releasing(t)'
    <3>1. ASSUME NEW l \in Levels
          PROVE  /\ l < k => Old(round'[above[l][t]])
                 /\ l = k => New(round'[above[l][t]])
                 /\ l > k => New(round'[above[l][t]])
      <4>1. l # k => above[l][t] # b
        BY <1>10
      <4>2. k \in Nat /\ l \in Nat
        BY <1>0, LevelFacts
      <4> QED
        BY <1>0, <1>1, <1>5, <1>7, <1>10, <4>1, <4>2 DEF Releasing
    <3>2. waits'[t] + 1 = finals' /\ (returns'[t] <=> t = leader')
      BY <1>1, <1>5 DEF Releasing
    <3> QED
      BY <1>0, <1>1, <1>3, <1>6, <3>1, <3>2 DEF Releasing
  <2>2. ASSUME NEW u \in Workers \ {t}, above[k][u] = b PROVE Releasing(u)'
    <3>1. pc[u] = "spin" /\ at[u][1] <= k /\ Releasing(u)
      BY <1>9, <2>2
    <3>2. at[u][1] \in Nat /\ k \in Nat
      BY <1>0, Here
    <3>3. ASSUME NEW l \in Levels, l < at[u][1] PROVE Old(round'[above[l][u]])
      <4>1. l # k
        BY <3>1, <3>2, <3>3, LevelFacts
      <4> QED
        BY <1>10, <3>1, <3>3, <4>1 DEF Releasing
    <3>4. /\ pc'[u] = "spin" /\ waits'[u] + 1 = finals' /\ leader' # u
          /\ Old(prevRound'[u])
      BY <1>1, <1>3, <3>1 DEF Releasing
    <3> QED
      BY <1>1, <1>6, <3>3, <3>4 DEF Releasing
  <2>3. ASSUME NEW u \in Workers \ {t}, above[k][u] # b PROVE InRound(u)'
    <3>1. InRound(u)
      BY DEF IInv
    <3>2. \A l \in Levels : round'[above[l][u]] = round[above[l][u]]
      BY <1>10, <2>3
    <3>3. round'[at[u]] = round[at[u]]
      BY <3>2, Here
    <3>4. pc'[u] = pc[u]
      BY <1>3
    <3>5. Gathering(u) => Gathering(u)'
      BY <1>1, <3>2, <3>3, <3>4 DEF Gathering, New
    <3>6. Releasing(u) => Releasing(u)'
      BY <1>1, <3>2, <3>3, <3>4 DEF Releasing, New, Old
    <3> QED
      BY <3>1, <3>5, <3>6 DEF InRound
  <2> QED
    BY <2>1, <2>2, <2>3 DEF InRound
<1>13. /\ \A u \in Workers \ {t} : \A l \in Levels : Holds(u, l)' <=> Holds(u, l)
       /\ \A l \in Levels : Holds(t, l)' <=> l < k
       /\ \A l \in Levels : Holds(t, l) <=> (l < k \/ l = k)
  BY <1>0, <1>1, <1>3 DEF Holds
<1>14. Alone'
  <2> SUFFICES ASSUME NEW x \in Workers, NEW u \in Workers, NEW l \in Levels,
                      Holds(x, l)', u # x, above[l][x] = above[l][u]
               PROVE  /\ pc'[u] = "spin" /\ prevRound[u] = round'[at[u]]
                      /\ at[u][1] <= l /\ waits[u] = waits[x]
    BY <1>1 DEF Alone
  <2>1. Holds(x, l)
    BY <1>13
  <2>2. /\ pc[u] = "spin" /\ prevRound[u] = round[at[u]]
        /\ at[u][1] <= l /\ waits[u] = waits[x]
    BY <2>1 DEF IInv, Alone
  <2>3. u # t
    BY <1>1, <2>2
  <2>4. at[u] # b
    <3> SUFFICES ASSUME at[u] = b PROVE FALSE
      OBVIOUS
    <3>1. above[k][u] = above[k][t] /\ k <= l
      BY <1>0, <2>2, Here
    <3>2. above[l][t] = above[l][u]
      BY <3>1, AboveMeet
    <3>3. CASE x = t
      BY <1>0, <1>13, <3>1, <3>3, LevelFacts
    <3>4. CASE x # t
      BY <1>1, <2>1, <3>2, <3>4, Unheld
    <3> QED
      BY <3>3, <3>4
  <2>5. at[u] \in Barriers
    BY Here
  <2> QED
    BY <1>3, <2>2, <2>3, <2>4, <2>5
<1>15. Counted'
  <2> SUFFICES ASSUME NEW c \in Barriers
               PROVE  /\ \A u \in Workers : above[c[1]][u] = c /\ Holds(u, c[1])' =>
                           cntr[c] = (IF at[u] = c /\ pc'[u] = "reset" THEN 0 ELSE threadCount(c))
                      /\ (\A u \in Workers : above[c[1]][u] = c => ~ Holds(u, c[1])') =>
                           cntr[c] = threadCount(c) - Cardinality(Parked(c)') /\ cntr[c] >= 1
    BY <1>1 DEF Counted
  <2>1. c[1] \in Levels
    BY BarrierFacts
  <2>2. CASE c # b
    <3>1. Parked(c)' = Parked(c)
      <4>1. round'[c] = round[c]
        BY <1>3, <2>2
      <4> QED
        BY <1>1, <1>3, <4>1 DEF Parked
    <3>2. \A u \in Workers : above[c[1]][u] = c => (Holds(u, c[1])' <=> Holds(u, c[1]))
      BY <1>0, <1>13, <2>1, <2>2
    <3>3. \A u \in Workers : pc'[u] = "reset" <=> pc[u] = "reset"
      BY <1>1, <1>3
    <3> QED
      BY <3>1, <3>2, <3>3 DEF IInv, Counted
  <2>3. CASE c = b
    <3>1. \A u \in Workers : above[k][u] = b => ~ Holds(u, k)'
      BY <1>0, <1>9, <1>13
    <3>2. Parked(b)' = {}
      <4> SUFFICES ASSUME NEW u \in Workers, at[u] = b, pc'[u] = "spin", prevRound[u] = round'[b]
                   PROVE  FALSE
        BY <1>1 DEF Parked
      <4>1. u # t /\ above[k][u] = b
        BY <1>0, <1>3, Here
      <4>2. prevRound[u] = round[b]
        BY <1>9, <4>1
      <4> QED
        BY <1>1, <1>3, <4>2
    <3>3. Cardinality(Parked(b)') = 0
      BY <3>2, FS_EmptySet
    <3>4. cntr[b] = threadCount(b)
      BY <1>0, <1>1, <1>8 DEF IInv, Counted
    <3> QED
      BY <1>0, <2>3, <3>1, <3>3, <3>4
  <2> QED
    BY <2>2, <2>3
<1> QED
  BY <1>2, <1>4, <1>11, <1>12, <1>14, <1>15 DEF IInv

LEMMA ReturnBelowIInv ==
  ASSUME TreeAssumption, IInv, NEW t \in Workers, ReturnBelow(t)
  PROVE  IInv'
<1>0. PICK b \in Barriers, k \in Levels :
        /\ b = at[t] /\ k = at[t][1]
        /\ k \in Nat \ {0} /\ above[k][t] = b /\ b[1] = k
  BY Here, LevelFacts
<1>1. /\ pc[t] = "return" /\ k # 1 /\ k - 1 \in Levels
      /\ at' = [at EXCEPT ![t] = above[k - 1][t]]
      /\ pc' = [pc EXCEPT ![t] = "advance"]
      /\ UNCHANGED <<cntr, round, prevRound, returns, waits, result, finals, leader>>
  <2>1. above[1][t] = barrierOf(t)
    BY AboveFacts, LevelFacts
  <2>2. k # 1
    BY <1>0, <2>1 DEF ReturnBelow
  <2>3. k - 1 \in Levels
    BY <2>2, LevelFacts
  <2> QED
    BY <1>0, <2>2, <2>3 DEF ReturnBelow, Goto
<1>2. above[k - 1][t] \in Barriers /\ above[k - 1][t][1] = k - 1
  BY <1>1, AboveFacts
<1>3. Types'
  BY <1>1, <1>2 DEF IInv, Types
<1>4. /\ pc'[t] = "advance" /\ at'[t] = above[k - 1][t] /\ at'[t][1] = k - 1
      /\ \A u \in Workers \ {t} : pc'[u] = pc[u] /\ at'[u] = at[u]
  BY <1>1, <1>2 DEF IInv, Types
<1>5. \A u \in Workers : OnItsWay(u)'
  <2>1. OnItsWay(t)'
    BY <1>0, <1>1, <1>4 DEF IInv, OnItsWay
  <2>2. ASSUME NEW u \in Workers \ {t} PROVE OnItsWay(u)'
    BY <1>1, <1>4 DEF IInv, OnItsWay
  <2> QED
    BY <2>1, <2>2
<1>6. Releasing(t)
  BY <1>1 DEF IInv, InRound, Gathering
<1>7. TopDown'
  BY <1>1, SameRounds
<1>8. \A u \in Workers : InRound(u)'
  <2>1. Releasing(t)'
    <3>1. \A l \in Levels :
            /\ l < k - 1 => Old(round[above[l][t]])
            /\ l = k - 1 => Old(round[above[l][t]])
            /\ l > k - 1 => New(round[above[l][t]])
      <4>1. \A l \in Levels : /\ l < k - 1 => l < k
                              /\ l = k - 1 => l < k
                              /\ l > k - 1 => l = k \/ l > k
        <5>1. \A l \in Levels : l \in Nat
          BY LevelFacts
        <5> QED
          BY <1>0, <5>1
      <4> QED
        BY <1>0, <1>1, <1>6, <4>1 DEF Releasing
    <3>2. waits'[t] + 1 = finals' /\ (returns'[t] <=> t = leader')
      BY <1>1, <1>6 DEF Releasing
    <3> QED
      BY <1>1, <1>4, <3>1, <3>2 DEF Releasing, New, Old
  <2>2. ASSUME NEW u \in Workers \ {t} PROVE InRound(u)'
    <3>1. InRound(u)
      BY DEF IInv
    <3> QED
      BY <1>1, <1>4, <3>1 DEF InRound, Gathering, Releasing, New, Old
  <2> QED
    BY <2>1, <2>2 DEF InRound
<1>9. \A u \in Workers : \A l \in Levels : Holds(u, l)' <=> Holds(u, l)
  <2>1. \A l \in Levels : (l < k - 1 \/ l = k - 1) <=> l < k
    <3> SUFFICES ASSUME NEW l \in Levels PROVE (l < k - 1 \/ l = k - 1) <=> l < k
      OBVIOUS
    <3>1. l \in Nat /\ k \in Nat
      BY <1>0, LevelFacts
    <3> QED
      BY <3>1
  <2>2. \A l \in Levels : Holds(t, l)' <=> Holds(t, l)
    BY <1>0, <1>1, <1>4, <2>1 DEF Holds
  <2>3. \A u \in Workers \ {t} : \A l \in Levels : Holds(u, l)' <=> Holds(u, l)
    BY <1>4 DEF Holds
  <2> QED
    BY <2>2, <2>3
<1>10. Alone'
  <2> SUFFICES ASSUME NEW x \in Workers, NEW u \in Workers, NEW l \in Levels,
                      Holds(x, l), u # x, above[l][x] = above[l][u]
               PROVE  /\ pc'[u] = "spin" /\ prevRound[u] = round[at'[u]]
                      /\ at'[u][1] <= l /\ waits[u] = waits[x]
    BY <1>1, <1>9 DEF Alone
  <2>1. u # t
    BY <1>1, Unheld
  <2> QED
    BY <1>4, <2>1 DEF IInv, Alone
<1>11. Counted'
  <2>1. \A c \in Barriers : Parked(c)' = Parked(c)
    BY <1>1, <1>4 DEF Parked
  <2>2. \A c : \A u \in Workers : (at'[u] = c /\ pc'[u] = "reset") <=> (at[u] = c /\ pc[u] = "reset")
    BY <1>1, <1>4
  <2>3. \A c \in Barriers : c[1] \in Levels
    BY BarrierFacts
  <2> QED
    BY <1>1, <1>9, <2>1, <2>2, <2>3 DEF IInv, Counted
<1> QED
  BY <1>3, <1>5, <1>7, <1>8, <1>10, <1>11 DEF IInv

\* The outermost call returns when everything above the worker is released.
LEMMA ReturnFacts ==
  ASSUME TreeAssumption, IInv, NEW t \in Workers, Return(t)
  PROVE  /\ pc[t] = "return" /\ at[t][1] = 1 /\ Releasing(t)
         /\ \A l \in Levels : New(round[above[l][t]]) /\ ~ Holds(t, l)
<1>1. pc[t] = "return" /\ at[t] = barrierOf(t)
  BY DEF Return
<1>2. at[t][1] = 1
  BY <1>1, AboveFacts, LevelFacts
<1>3. Releasing(t)
  BY <1>1 DEF IInv, InRound, Gathering
<1>4. \A l \in Levels : ~(l < 1) /\ (l = 1 \/ l > 1)
  BY LevelFacts
<1>5. \A l \in Levels : New(round[above[l][t]])
  BY <1>1, <1>2, <1>3, <1>4 DEF Releasing
<1>6. \A l \in Levels : ~ Holds(t, l)
  BY <1>1, <1>2, <1>4 DEF Holds
<1> QED
  BY <1>1, <1>2, <1>3, <1>5, <1>6

LEMMA ReturnIInv ==
  ASSUME TreeAssumption, IInv, NEW t \in Workers, Return(t)
  PROVE  IInv'
<1>1. /\ pc[t] = "return"
      /\ waits' = [waits EXCEPT ![t] = waits[t] + 1]
      /\ result' = [result EXCEPT ![t] = returns[t]]
      /\ pc' = [pc EXCEPT ![t] = "out"]
      /\ UNCHANGED <<cntr, round, at, prevRound, returns, finals, leader>>
  BY DEF Return, Goto
<1>2. /\ at[t][1] = 1 /\ Releasing(t)
      /\ \A l \in Levels : New(round[above[l][t]]) /\ ~ Holds(t, l)
  BY ReturnFacts
<1>3. Types'
  <2>1. waits[t] + 1 \in Nat /\ returns[t] \in BOOLEAN
    BY DEF IInv, Types
  <2> QED
    BY <1>1, <2>1 DEF IInv, Types
<1>4. /\ pc'[t] = "out" /\ waits'[t] = waits[t] + 1
      /\ \A u \in Workers \ {t} : pc'[u] = pc[u] /\ waits'[u] = waits[u]
  BY <1>1 DEF IInv, Types
<1>5. \A u \in Workers : OnItsWay(u)'
  BY <1>1, <1>2, <1>4 DEF IInv, OnItsWay
<1>6. TopDown'
  BY <1>1, SameRounds
<1>7. \A u \in Workers : InRound(u)'
  <2>1. Gathering(t)'
    BY <1>1, <1>2, <1>4 DEF Gathering, Releasing, New
  <2>2. ASSUME NEW u \in Workers \ {t} PROVE InRound(u)'
    <3>1. InRound(u)
      BY DEF IInv
    <3> QED
      BY <1>1, <1>4, <3>1 DEF InRound, Gathering, Releasing, New, Old
  <2> QED
    BY <2>1, <2>2 DEF InRound
<1>8. \A u \in Workers : \A l \in Levels : Holds(u, l)' <=> Holds(u, l)
  BY <1>1, <1>4 DEF Holds
<1>9. Alone'
  <2> SUFFICES ASSUME NEW x \in Workers, NEW u \in Workers, NEW l \in Levels,
                      Holds(x, l), u # x, above[l][x] = above[l][u]
               PROVE  /\ pc'[u] = "spin" /\ prevRound[u] = round[at[u]]
                      /\ at[u][1] <= l /\ waits'[u] = waits'[x]
    BY <1>1, <1>8 DEF Alone
  <2>1. u # t /\ x # t
    BY <1>1, <1>2, Unheld
  <2> QED
    BY <1>4, <2>1 DEF IInv, Alone
<1>10. Counted'
  <2>1. \A c \in Barriers : Parked(c)' = Parked(c)
    BY <1>1, <1>4 DEF Parked
  <2>2. \A u \in Workers : pc'[u] = "reset" <=> pc[u] = "reset"
    BY <1>1, <1>4
  <2>3. \A c \in Barriers : c[1] \in Levels
    BY BarrierFacts
  <2> QED
    BY <1>1, <1>8, <2>1, <2>2, <2>3 DEF IInv, Counted
<1> QED
  BY <1>3, <1>5, <1>6, <1>7, <1>9, <1>10 DEF IInv

LEMMA StutterIInv == IInv /\ UNCHANGED vars => IInv'
<1> SUFFICES ASSUME IInv, UNCHANGED vars PROVE IInv'
  OBVIOUS
<1>1. /\ cntr' = cntr /\ round' = round /\ pc' = pc /\ at' = at /\ prevRound' = prevRound
      /\ returns' = returns /\ waits' = waits /\ result' = result
      /\ finals' = finals /\ leader' = leader
  BY DEF vars
<1>2. Types'
  BY <1>1 DEF IInv, Types
<1>3. (\A t \in Workers : OnItsWay(t))'
  BY <1>1 DEF IInv, OnItsWay
<1>4. (\A t \in Workers : InRound(t))'
  BY <1>1 DEF IInv, InRound, Gathering, Releasing, New, Old
<1>5. TopDown'
  BY <1>1, SameRounds
<1>6. \A t \in Workers : \A l : Holds(t, l)' <=> Holds(t, l)
  BY <1>1 DEF Holds
<1>7. Alone'
  BY <1>1, <1>6 DEF IInv, Alone
<1>8. \A b : Parked(b)' = Parked(b)
  BY <1>1 DEF Parked
<1>9. Counted'
  BY <1>1, <1>6, <1>8 DEF IInv, Counted
<1> QED
  BY <1>2, <1>3, <1>4, <1>5, <1>7, <1>9 DEF IInv

LEMMA NextIInv ==
  ASSUME TreeAssumption, IInv, [Next]_vars
  PROVE  IInv'
<1>1. ASSUME NEW t \in Workers, Step(t) PROVE IInv'
  BY <1>1, LoadRoundIInv, ArriveIInv, ResetCounterIInv, ClimbIInv, RunFinalizerIInv,
     PassRoundIInv, AdvanceRoundIInv, ReturnBelowIInv, ReturnIInv DEF Step
<1>2. CASE Finished \/ UNCHANGED vars
  BY <1>2, StutterIInv DEF Finished
<1> QED
  BY <1>1, <1>2 DEF Next

\* The inductive invariant holds in every reachable state.
THEOREM Invariance ==
  ASSUME TreeAssumption
  PROVE  Spec => []IInv
<1>1. Init => IInv
  BY InitIInv
<1>2. IInv /\ [Next]_vars => IInv'
  BY NextIInv
<1> QED
  BY <1>1, <1>2, PTL DEF Spec

-----------------------------------------------------------------------------
(* What follows from it.                                                    *)

\* cntr of every barrier of the tree stays between 0 and its thread count, and
\* no wait() of HierarchicBarrier leaves the barriers of the tree.
LEMMA IInvTypeOK ==
  ASSUME TreeAssumption, IInv
  PROVE  TypeOK
<1>1. ASSUME NEW b \in Barriers PROVE cntr[b] \in 0 .. threadCount(b)
  <2>1. threadCount(b) \in Nat \ {0}
    BY Capacity
  <2>2. CASE \E t \in Workers : above[b[1]][t] = b /\ Holds(t, b[1])
    <3>1. cntr[b] = 0 \/ cntr[b] = threadCount(b)
      BY <2>2 DEF IInv, Counted
    <3> QED
      BY <2>1, <3>1
  <2>3. CASE \A t \in Workers : above[b[1]][t] = b => ~ Holds(t, b[1])
    <3>1. cntr[b] = threadCount(b) - Cardinality(Parked(b)) /\ cntr[b] >= 1
      BY <2>3 DEF IInv, Counted
    <3>2. Cardinality(Parked(b)) \in Nat
      BY ParkedFinite, FS_CardinalityType
    <3>3. cntr[b] \in Int
      BY DEF IInv, Types
    <3> QED
      BY <2>1, <3>1, <3>2, <3>3
  <2> QED
    BY <2>2, <2>3
<1> QED
  BY <1>1 DEF IInv, Types, TypeOK

LEMMA IInvSubtreeWaits ==
  ASSUME TreeAssumption, IInv
  PROVE  SubtreeWaits
<1> SUFFICES ASSUME NEW b \in Barriers, NEW t \in Workers, NEW u \in Workers,
                    Closes(t, b), u # t, b = above[b[1]][u]
             PROVE  /\ pc[u] = "spin" /\ prevRound[u] = round[at[u]]
                    /\ at[u][1] <= b[1]
                    /\ waits[u] = waits[t]
  BY DEF SubtreeWaits
<1>1. b[1] \in Levels /\ b[1] \in Nat /\ at[t][1] \in Nat
  BY BarrierFacts, LevelFacts, Here
<1>2. Holds(t, b[1]) /\ b = above[b[1]][t]
  BY <1>1 DEF Closes, Holds
<1> QED
  BY <1>1, <1>2 DEF IInv, Alone

\* A worker is in its own barrier when it is on level 1.
LEMMA AtHome ==
  ASSUME TreeAssumption, IInv, NEW t \in Workers
  PROVE  at[t] = barrierOf(t) <=> at[t][1] = 1
<1>1. above[1][t] = barrierOf(t) /\ above[1][t][1] = 1
  BY AboveFacts, LevelFacts
<1> QED
  BY <1>1, Here

\* A worker is counted in the round from its decrement in its own barrier on:
\* the steps that climb, wait and release change nothing of that.
LEMMA InitialRendezvous ==
  ASSUME Init
  PROVE  Contract!Init
BY DEF Init, Entered, Contract!Init

LEMMA ArriveRendezvous ==
  ASSUME TreeAssumption, IInv, NEW t \in Workers, Arrive(t)
  PROVE  Contract!Enter(t) \/ UNCHANGED Contract!vars
<1>1. /\ pc[t] = "arrive" /\ waits[t] < Calls /\ t \in DOMAIN pc
      /\ pc'[t] \in {"reset", "spin"}
      /\ \A u \in Workers \ {t} : pc'[u] = pc[u]
      /\ UNCHANGED <<at, waits, result, finals, leader>>
  BY DEF IInv, OnItsWay, Types, Arrive, Goto
<1>2. CASE at[t] = barrierOf(t)
  <2>1. Entered[t] = waits[t]
    BY <1>1, <1>2 DEF Entered
  <2>2. \A u \in Workers : Entered'[u] = IF u = t THEN waits[t] + 1 ELSE Entered[u]
    BY <1>1, <1>2 DEF Entered
  <2>3. Entered' = [Entered EXCEPT ![t] = @ + 1]
    BY <2>1, <2>2 DEF Entered
  <2>4. Contract!Enter(t)
    BY <1>1, <2>1, <2>3 DEF Contract!Enter
  <2> QED
    BY <2>4
<1>3. CASE at[t] # barrierOf(t)
  <2>1. Entered' = Entered
    BY <1>1, <1>3 DEF Entered
  <2> QED
    BY <1>1, <2>1 DEF Contract!vars
<1> QED
  BY <1>2, <1>3

LEMMA FinalizeRendezvous ==
  ASSUME TreeAssumption, IInv, NEW t \in Workers, RunFinalizer(t)
  PROVE  Contract!Finalize(t)
<1>1. /\ finals' = finals + 1 /\ leader' = t
      /\ pc'[t] = "advance"
      /\ \A u \in Workers \ {t} : pc'[u] = pc[u]
      /\ UNCHANGED <<at, waits, result>>
  BY DEF IInv, Types, RunFinalizer, Goto
<1>2. \A u \in Workers : waits[u] = finals /\ pc[u] \in {"spin", "finalize"}
  BY EveryoneWaits DEF Gathering
<1>3. \A u \in Workers : Entered[u] = finals + 1
  BY <1>2 DEF Entered
<1>4. Entered' = Entered
  BY <1>1, <1>2, EveryoneWaits DEF Entered
<1> QED
  BY <1>1, <1>3, <1>4 DEF Contract!Finalize

LEMMA ReturnRendezvous ==
  ASSUME TreeAssumption, IInv, NEW t \in Workers, Return(t)
  PROVE  Contract!Leave(t)
<1>1. /\ pc[t] = "return"
      /\ waits' = [waits EXCEPT ![t] = @ + 1]
      /\ result' = [result EXCEPT ![t] = returns[t]]
      /\ pc'[t] = "out" /\ waits'[t] = waits[t] + 1
      /\ \A u \in Workers \ {t} : pc'[u] = pc[u] /\ waits'[u] = waits[u]
      /\ UNCHANGED <<at, finals, leader>>
  BY DEF IInv, Types, Return, Goto
<1>2. waits[t] + 1 = finals /\ (returns[t] <=> t = leader)
  BY <1>1, ReturnFacts DEF Releasing
<1>3. returns[t] = (t = leader)
  <2>1. returns[t] \in BOOLEAN
    BY DEF IInv, Types
  <2> QED
    BY <1>2, <2>1, Zenon
<1>4. Entered[t] = waits[t] + 1 /\ waits[t] \in Nat
  BY <1>1, Here DEF Entered
<1>5. Entered' = Entered
  BY <1>1, <1>4 DEF Entered
<1>6. waits[t] < Entered[t] /\ waits[t] < finals
  BY <1>2, <1>4
<1>7. result' = [result EXCEPT ![t] = (t = leader)]
  BY <1>1, <1>3, Zenon
<1> QED
  BY <1>1, <1>5, <1>6, <1>7, Zenon DEF Contract!Leave

LEMMA OtherRendezvous ==
  ASSUME TreeAssumption, IInv, NEW t \in Workers,
         \/ LoadRound(t) \/ ResetCounter(t) \/ Climb(t)
         \/ PassRound(t) \/ AdvanceRound(t) \/ ReturnBelow(t)
  PROVE  UNCHANGED Contract!vars
<1>1. CASE LoadRound(t)
  <2>1. /\ pc[t] \in {"out", "climb"} /\ pc'[t] = "arrive"
        /\ \A u \in Workers \ {t} : pc'[u] = pc[u]
        /\ UNCHANGED <<at, waits, result, finals, leader>>
    BY <1>1 DEF IInv, Types, LoadRound, Goto
  <2>2. at[t] = barrierOf(t) <=> pc[t] = "out"
    BY <2>1, AtHome DEF IInv, OnItsWay
  <2>3. Entered' = Entered
    BY <2>1, <2>2 DEF Entered
  <2> QED
    BY <2>1, <2>3 DEF Contract!vars
<1>2. CASE ResetCounter(t) \/ PassRound(t) \/ AdvanceRound(t)
  <2>1. /\ pc[t] \in {"reset", "spin", "advance"} /\ pc'[t] \in {"finalize", "return"}
        /\ \A u \in Workers \ {t} : pc'[u] = pc[u]
        /\ UNCHANGED <<at, waits, result, finals, leader>>
    BY <1>2 DEF IInv, Types, ResetCounter, PassRound, AdvanceRound, Goto
  <2>2. Entered' = Entered
    BY <2>1 DEF Entered
  <2> QED
    BY <2>1, <2>2 DEF Contract!vars
<1>3. CASE Climb(t) \/ ReturnBelow(t)
  <2>1. /\ pc[t] \in {"finalize", "return"} /\ pc'[t] \in {"climb", "advance"}
        /\ \A u \in Workers \ {t} : pc'[u] = pc[u] /\ at'[u] = at[u]
        /\ UNCHANGED <<waits, result, finals, leader>>
    BY <1>3 DEF IInv, Types, Climb, ReturnBelow, Goto
  <2>2. Entered' = Entered
    BY <2>1 DEF Entered
  <2> QED
    BY <2>1, <2>2 DEF Contract!vars
<1> QED
  BY <1>1, <1>2, <1>3

LEMMA StepRendezvous ==
  ASSUME TreeAssumption, IInv, [Next]_vars
  PROVE  [Contract!Next]_Contract!vars
<1>1. ASSUME NEW t \in Workers, Step(t) PROVE [Contract!Next]_Contract!vars
  BY <1>1, ArriveRendezvous, FinalizeRendezvous, ReturnRendezvous, OtherRendezvous
     DEF Step, Contract!Next
<1>2. CASE Finished \/ UNCHANGED vars
  <2>1. UNCHANGED <<pc, at, waits, result, finals, leader>>
    BY <1>2 DEF Finished, vars
  <2>2. Entered' = Entered
    BY <2>1 DEF Entered
  <2> QED
    BY <2>1, <2>2 DEF Contract!vars
<1> QED
  BY <1>1, <1>2 DEF Next

\* HierarchicBarrier::wait: the atomics and positions stay in their types.
THEOREM TypeCorrect ==
  ASSUME TreeAssumption
  PROVE  Spec => []TypeOK
<1>1. IInv => TypeOK
  BY IInvTypeOK
<1> QED
  BY <1>1, Invariance, PTL

\* HierarchicBarrier::wait: whoever closes a barrier of the tree stands for all
\* workers below it, who wait in the round being closed.
THEOREM Subtree ==
  ASSUME TreeAssumption
  PROVE  Spec => []SubtreeWaits
<1>1. IInv => SubtreeWaits
  BY IInvSubtreeWaits
<1> QED
  BY <1>1, Invariance, PTL

\* HierarchicBarrier implements the contract of a single barrier: workers that
\* meet in a tree, of any size and fan-in, meet as if in one place.
THEOREM Implements ==
  ASSUME TreeAssumption
  PROVE  Spec => KeepsContract
<1>1. Init => Contract!Init
  BY InitialRendezvous
<1>2. IInv /\ [Next]_vars => [Contract!Next]_Contract!vars
  BY StepRendezvous
<1> QED
  BY <1>1, <1>2, Invariance, PTL DEF Spec, Contract!Spec, KeepsContract

=============================================================================
