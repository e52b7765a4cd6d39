---------------------------- MODULE GroupsProofs ----------------------------
(***************************************************************************)
(* Proofs about the structures groups are found with and kept in           *)
(* (MCGroups): the layout of the entries of a HashGroup (EntryLayout), the *)
(* runtime::Stack that the entries of compiled plans are kept in           *)
(* (ChunkedStack), which implements AppendSequence, the                    *)
(* runtime::PartitionedDeque they are spilled to (SpillPartitions), the    *)
(* aggregation of compiled plans (CompiledGroupBy), and the lookup of      *)
(* groups in the table of a worker (GroupLookup).                          *)
(*                                                                         *)
(* A behaviour of MCGroups uses one structure, the others stay as they     *)
(* were created; so each proof has one step for the structure it is about, *)
(* and the steps of the others leave its variables alone.                  *)
(***************************************************************************)
EXTENDS MCGroups, SequencesExt, WellFoundedInduction, FiniteSetTheorems, FunctionTheorems, TLAPS

\* An element of a sequence.
LEMMA ElementOf ==
  ASSUME NEW S, NEW seq \in Seq(S), NEW i \in 1 .. Len(seq)
  PROVE  seq[i] \in S
OBVIOUS

\* A set of numbers has a least one.
LEMMA LeastElement ==
  ASSUME NEW T \in SUBSET Nat, T # {}
  PROVE  \E m \in T : \A n \in T : ~(n < m)
<1> DEFINE R == {ss \in Nat \X Nat : ss[1] < ss[2]}
<1>1. IsWellFoundedOn(R, Nat)
  BY NatLessThanWellFounded DEF OpToRel
<1>2. \A n, m \in Nat : n < m => <<n, m>> \in R
  OBVIOUS
<1> HIDE DEF R
<1>3. PICK m \in T : \A n \in T : <<n, m>> \notin R
  BY <1>1, WFMin
<1> QED
  BY <1>2, <1>3

-----------------------------------------------------------------------------
(* Powers of two, and the concatenation of sequences: what is computed by  *)
(* the recursive functions the models use.                                 *)

\* f lists the first powers of two, up to that of n.
PowersTo(f, n) == f \in [0 .. n -> Nat] /\ f[0] = 1 /\ \A i \in 1 .. n : f[i] = 2 * f[i - 1]

LEMMA PowersAgree ==
  ASSUME NEW n \in Nat, NEW m \in Nat, NEW f, NEW g, NEW i \in 0 .. n,
         PowersTo(f, n), PowersTo(g, m), i \in 0 .. m
  PROVE  f[i] = g[i]
<1> DEFINE T == {j \in 0 .. n : j \in 0 .. m /\ f[j] # g[j]}
<1>1. SUFFICES ASSUME T # {} PROVE FALSE
  OBVIOUS
<1>2. PICK j \in T : \A k \in T : ~(k < j)
  <2>1. T \in SUBSET Nat
    OBVIOUS
  <2> QED BY <1>1, <2>1, LeastElement
<1>3. j # 0
  BY <1>2 DEF PowersTo
<1>4. j - 1 \in 0 .. n /\ j - 1 \in 0 .. m /\ j - 1 \notin T
  BY <1>2, <1>3
<1>5. f[j - 1] = g[j - 1]
  BY <1>4
<1> QED BY <1>2, <1>3, <1>5 DEF PowersTo

LEMMA PowersExist == \A n \in Nat : \E f : PowersTo(f, n)
<1> DEFINE T == {n \in Nat : ~ \E f : PowersTo(f, n)}
<1>1. SUFFICES ASSUME T # {} PROVE FALSE
  OBVIOUS
<1>2. PICK n \in T : \A k \in T : ~(k < n)
  BY <1>1, LeastElement
<1>3. CASE n = 0
  <2>1. PowersTo([i \in 0 .. 0 |-> 1], 0)
    BY DEF PowersTo
  <2> QED BY <2>1, <1>2, <1>3
<1>4. CASE n # 0
  <2>1. n - 1 \in Nat /\ n - 1 \notin T
    BY <1>2, <1>4
  <2>2. PICK f : PowersTo(f, n - 1)
    BY <2>1
  <2> DEFINE g == [i \in 0 .. n |-> IF i = n THEN 2 * f[n - 1] ELSE f[i]]
  <2>3. f \in [0 .. n - 1 -> Nat] /\ f[0] = 1 /\ \A i \in 1 .. n - 1 : f[i] = 2 * f[i - 1]
    BY <2>2 DEF PowersTo
  <2>4. g \in [0 .. n -> Nat]
    BY <2>3, <1>4
  <2>5. g[0] = 1
    BY <2>3, <1>4
  <2>6. ASSUME NEW i \in 1 .. n PROVE g[i] = 2 * g[i - 1]
    BY <2>3, <1>4
  <2>7. PowersTo(g, n)
    <3> HIDE DEF g
    <3> QED BY <2>4, <2>5, <2>6 DEF PowersTo
  <2> QED BY <2>7, <1>2
<1> QED BY <1>3, <1>4

\* The powers of two; the models define them by the same recursion.
power[n \in Nat] == IF n = 0 THEN 1 ELSE 2 * power[n - 1]

\* The recursion has a solution, in the natural numbers.
LEMMA PowerFacts ==
  /\ power = [n \in Nat |-> IF n = 0 THEN 1 ELSE 2 * power[n - 1]]
  /\ power[0] = 1
  /\ \A n \in Nat : power[n + 1] = 2 * power[n] /\ power[n] \in Nat \ {0}
<1> DEFINE to(n) == CHOOSE f : PowersTo(f, n)
           f == [n \in Nat |-> to(n)[n]]
<1>1. \A n \in Nat : PowersTo(to(n), n)
  BY PowersExist
<1>2. \A n \in Nat : f[n] = to(n)[n]
  OBVIOUS
<1> HIDE DEF to, f
<1>3. f[0] = 1
  BY <1>1, <1>2 DEF PowersTo
<1>4. ASSUME NEW n \in Nat, n # 0 PROVE f[n] = 2 * f[n - 1]
  <2>1. n - 1 \in Nat /\ n \in 1 .. n
    BY <1>4
  <2>2. PowersTo(to(n), n) /\ PowersTo(to(n - 1), n - 1)
    BY <2>1, <1>1
  <2>3. to(n)[n] = 2 * to(n)[n - 1]
    BY <2>1, <2>2 DEF PowersTo
  <2>4. to(n)[n - 1] = to(n - 1)[n - 1]
    BY <2>1, <2>2, PowersAgree
  <2> QED BY <2>1, <2>3, <2>4, <1>2
<1>5. f = [n \in Nat |-> IF n = 0 THEN 1 ELSE 2 * f[n - 1]]
  <2>1. f = [n \in Nat |-> f[n]]
    BY DEF f
  <2>2. \A n \in Nat : f[n] = IF n = 0 THEN 1 ELSE 2 * f[n - 1]
    BY <1>3, <1>4
  <2> QED BY <2>1, <2>2
<1>6. power = [n \in Nat |-> IF n = 0 THEN 1 ELSE 2 * power[n - 1]]
  <2>1. power = CHOOSE g : g = [n \in Nat |-> IF n = 0 THEN 1 ELSE 2 * g[n - 1]]
    BY DEF power
  <2> QED BY <2>1, <1>5
<1>7. power[0] = 1
  BY <1>6
<1>8. \A n \in Nat : power[n + 1] = 2 * power[n]
  BY <1>6
<1>9. \A n \in Nat : power[n] \in Nat \ {0}
  <2> DEFINE T == {n \in Nat : power[n] \notin Nat \ {0}}
  <2>1. SUFFICES ASSUME T # {} PROVE FALSE
    OBVIOUS
  <2>2. PICK n \in T : \A k \in T : ~(k < n)
    BY <2>1, LeastElement
  <2>3. n # 0 /\ n - 1 \in Nat /\ n - 1 \notin T
    BY <2>2, <1>7
  <2>4. power[n] = 2 * power[n - 1]
    <3>1. (n - 1) + 1 = n
      BY <2>2
    <3> QED BY <3>1, <2>3, <1>8
  <2> QED BY <2>2, <2>3, <2>4
<1> QED BY <1>6, <1>7, <1>8, <1>9

\* f lists the concatenations of the first sequences of ss, up to n of them.
JoinsTo(f, ss, n) == f = [i \in 1 .. n |-> IF i = 1 THEN ss[i] ELSE f[i - 1] \o ss[i]]

LEMMA JoinsExist ==
  ASSUME NEW S, NEW ss \in Seq(Seq(S)), NEW n \in Nat, n <= Len(ss)
  PROVE  \E f \in [1 .. n -> Seq(S)] : JoinsTo(f, ss, n)
<1> DEFINE P(k) == \E f \in [1 .. k -> Seq(S)] : JoinsTo(f, ss, k)
           T == {k \in 0 .. Len(ss) : ~P(k)}
<1>0. Len(ss) \in Nat /\ n \in 0 .. Len(ss)
  OBVIOUS
<1> HIDE DEF P
<1>1. SUFFICES ASSUME T # {} PROVE FALSE
  <2>1. T = {} => P(n)
    BY <1>0
  <2> QED BY <2>1 DEF P
<1>2. PICK k \in T : \A j \in T : ~(j < k)
  <2>1. T \in SUBSET Nat
    BY <1>0
  <2> QED BY <2>1, <1>1, LeastElement
<1>3. CASE k = 0
  <2> DEFINE f == [i \in 1 .. 0 |-> IF i = 1 THEN ss[i] ELSE <<>>]
  <2>1. f \in [1 .. 0 -> Seq(S)]
    OBVIOUS
  <2>2. JoinsTo(f, ss, 0)
    BY DEF JoinsTo
  <2> QED BY <2>1, <2>2, <1>2, <1>3 DEF P
<1>4. CASE k # 0
  <2>1. k - 1 \in 0 .. Len(ss) /\ k - 1 \notin T /\ k \in 1 .. Len(ss)
    BY <1>0, <1>2, <1>4
  <2>2. PICK f \in [1 .. k - 1 -> Seq(S)] : JoinsTo(f, ss, k - 1)
    BY <2>1 DEF P
  <2>3. \A i \in 1 .. k : ss[i] \in Seq(S)
    BY <2>1, ElementOf
  <2> DEFINE g == [i \in 1 .. k |-> IF i = k THEN IF k = 1 THEN ss[1] ELSE f[k - 1] \o ss[k]
                                    ELSE f[i]]
  <2>4. g \in [1 .. k -> Seq(S)]
    <3>1. k # 1 => k - 1 \in 1 .. k - 1
      BY <2>1
    <3>2. k # 1 => f[k - 1] \o ss[k] \in Seq(S)
      BY <3>1, <2>3, <2>1
    <3>3. ss[1] \in Seq(S)
      BY <2>1, <2>3
    <3> QED BY <3>2, <3>3, <2>1
  <2>5. \A i \in 1 .. k - 1 : f[i] = IF i = 1 THEN ss[i] ELSE f[i - 1] \o ss[i]
    BY <2>2 DEF JoinsTo
  <2>6. ASSUME NEW i \in 1 .. k PROVE g[i] = IF i = 1 THEN ss[i] ELSE g[i - 1] \o ss[i]
    <3>1. CASE i = k
      BY <3>1, <2>1
    <3>2. CASE i # k
      <4>1. i \in 1 .. k - 1 /\ g[i] = f[i]
        BY <3>2, <2>1
      <4>2. i # 1 => i - 1 \in 1 .. k /\ i - 1 # k /\ g[i - 1] = f[i - 1]
        BY <4>1, <2>1
      <4> QED BY <4>1, <4>2, <2>5
    <3> QED BY <3>1, <3>2
  <2>7. JoinsTo(g, ss, k)
    <3>1. g = [i \in 1 .. k |-> g[i]]
      OBVIOUS
    <3> HIDE DEF g
    <3> QED BY <3>1, <2>6 DEF JoinsTo
  <2> HIDE DEF g
  <2> QED BY <2>4, <2>7, <1>2 DEF P
<1> QED BY <1>3, <1>4

SameUpTo(n, ss, tt) == \A i \in 1 .. n : ss[i] = tt[i]

LEMMA JoinsAgree ==
  ASSUME NEW ss, NEW tt, NEW n \in Nat, NEW m \in Nat, NEW f, NEW g,
         JoinsTo(f, ss, n), JoinsTo(g, tt, m),
         n <= m, SameUpTo(n, ss, tt)
  PROVE  SameUpTo(n, f, g)
<1> DEFINE T == {j \in 1 .. n : f[j] # g[j]}
<1>1. SUFFICES ASSUME T # {} PROVE FALSE
  BY DEF SameUpTo
<1>2. PICK j \in T : \A k \in T : ~(k < j)
  <2>1. T \in SUBSET Nat
    OBVIOUS
  <2> QED BY <1>1, <2>1, LeastElement
<1>3. j \in 1 .. n /\ j \in 1 .. m
  BY <1>2
<1>4. f[j] = IF j = 1 THEN ss[j] ELSE f[j - 1] \o ss[j]
  BY <1>3 DEF JoinsTo
<1>5. g[j] = IF j = 1 THEN tt[j] ELSE g[j - 1] \o tt[j]
  BY <1>3 DEF JoinsTo
<1>6. j # 1 => j - 1 \in 1 .. n /\ j - 1 \notin T
  BY <1>2
<1>7. j # 1 => f[j - 1] = g[j - 1]
  BY <1>6
<1> QED BY <1>2, <1>3, <1>4, <1>5, <1>7 DEF SameUpTo

LEMMA FlattenIs ==
  ASSUME NEW S, NEW ss \in Seq(Seq(S)), Len(ss) # 0
  PROVE  \E f \in [1 .. Len(ss) -> Seq(S)] : JoinsTo(f, ss, Len(ss)) /\ FlattenSeq(ss) = f[Len(ss)]
<1> DEFINE flatten[i \in 1 .. Len(ss)] == IF i = 1 THEN ss[i] ELSE flatten[i - 1] \o ss[i]
<1>0. Len(ss) \in Nat /\ Len(ss) \in 1 .. Len(ss) /\ Len(ss) <= Len(ss)
  OBVIOUS
<1> HIDE DEF flatten
<1>1. PICK f \in [1 .. Len(ss) -> Seq(S)] : JoinsTo(f, ss, Len(ss))
  BY <1>0, JoinsExist
<1>2. flatten = CHOOSE g : g = [i \in 1 .. Len(ss) |-> IF i = 1 THEN ss[i] ELSE g[i - 1] \o ss[i]]
  BY DEF flatten
<1>3. FlattenSeq(ss) = flatten[Len(ss)]
  BY DEF FlattenSeq, flatten
<1>4. JoinsTo(flatten, ss, Len(ss))
  BY <1>1, <1>2 DEF JoinsTo
<1>5. SameUpTo(Len(ss), flatten, f)
  <2>1. SameUpTo(Len(ss), ss, ss)
    BY DEF SameUpTo
  <2> QED BY <2>1, <1>0, <1>1, <1>4, JoinsAgree
<1>6. FlattenSeq(ss) = f[Len(ss)]
  BY <1>0, <1>3, <1>5 DEF SameUpTo
<1> QED BY <1>1, <1>6

\* FlattenSeq concatenates, from the left.
LEMMA FlattenFacts ==
  ASSUME NEW S
  PROVE  /\ FlattenSeq(<<>>) = <<>>
         /\ \A ss \in Seq(Seq(S)) : FlattenSeq(ss) \in Seq(S)
         /\ \A ss \in Seq(Seq(S)), t \in Seq(S) : FlattenSeq(Append(ss, t)) = FlattenSeq(ss) \o t
<1>1. FlattenSeq(<<>>) = <<>>
  BY DEF FlattenSeq
<1>2. ASSUME NEW ss \in Seq(Seq(S)) PROVE FlattenSeq(ss) \in Seq(S)
  <2>1. CASE Len(ss) = 0
    <3>1. ss = <<>>
      BY <2>1
    <3>2. <<>> \in Seq(S)
      OBVIOUS
    <3> QED BY <3>1, <3>2, <1>1
  <2>2. CASE Len(ss) # 0
    <3>1. PICK f \in [1 .. Len(ss) -> Seq(S)] : FlattenSeq(ss) = f[Len(ss)]
      BY <2>2, FlattenIs
    <3>2. Len(ss) \in 1 .. Len(ss)
      BY <2>2
    <3> QED BY <3>1, <3>2
  <2> QED BY <2>1, <2>2
<1>3. ASSUME NEW ss \in Seq(Seq(S)), NEW t \in Seq(S)
      PROVE  FlattenSeq(Append(ss, t)) = FlattenSeq(ss) \o t
  <2> DEFINE tt == Append(ss, t)
             n == Len(ss)
  <2>1. /\ tt \in Seq(Seq(S)) /\ n \in Nat /\ Len(tt) = n + 1
        /\ (\A i \in 1 .. n : tt[i] = ss[i]) /\ tt[n + 1] = t
    OBVIOUS
  <2> HIDE DEF tt
  <2>2. PICK g \in [1 .. n + 1 -> Seq(S)] : JoinsTo(g, tt, n + 1) /\ FlattenSeq(tt) = g[n + 1]
    BY <2>1, FlattenIs
  <2>3. g[n + 1] = IF n + 1 = 1 THEN tt[n + 1] ELSE g[(n + 1) - 1] \o tt[n + 1]
    <3>1. n + 1 \in 1 .. n + 1
      BY <2>1
    <3> QED BY <3>1, <2>2 DEF JoinsTo
  <2>4. CASE n = 0
    <3>1. ss = <<>>
      BY <2>4
    <3>2. FlattenSeq(ss) \o t = t
      BY <3>1, <1>1
    <3> QED BY <3>2, <2>1, <2>2, <2>3, <2>4 DEF tt
  <2>5. CASE n # 0
    <3>1. PICK f \in [1 .. n -> Seq(S)] : JoinsTo(f, ss, n) /\ FlattenSeq(ss) = f[n]
      BY <2>5, FlattenIs
    <3>2. SameUpTo(n, f, g)
      <4>1. n \in Nat /\ n + 1 \in Nat /\ n <= n + 1
        BY <2>1
      <4>2. JoinsTo(f, ss, n) /\ JoinsTo(g, tt, n + 1)
        BY <3>1, <2>2
      <4>3. SameUpTo(n, ss, tt)
        BY <2>1 DEF SameUpTo
      <4> HIDE DEF n
      <4> QED BY <4>1, <4>2, <4>3, JoinsAgree
    <3>3. f[n] = g[n] /\ (n + 1) - 1 = n /\ n + 1 # 1
      BY <3>2, <2>1, <2>5 DEF SameUpTo
    <3> QED BY <3>1, <3>3, <2>1, <2>2, <2>3 DEF tt
  <2> QED BY <2>4, <2>5
<1> QED BY <1>1, <1>2, <1>3

-----------------------------------------------------------------------------
(* The layout of entries *)

\* What is added to a size to align it is a number below the alignment, and
\* nothing if the size is aligned.
LEMMA PaddingNat ==
  ASSUME NEW size \in Nat, NEW align \in Nat \ {0}
  PROVE  /\ padding(size, align) \in Nat
         /\ size + padding(size, align) \in Nat
         /\ size + padding(size, align) >= size
<1>1. size % align \in 0 .. align - 1
  OBVIOUS
<1> QED BY <1>1 DEF padding

\* The types of the layout that its proof uses.
LayoutTypes ==
  /\ fields \in Seq([offset : Nat, size : Nat])
  /\ localSize \in Nat /\ globalSize \in Nat /\ rowSize \in Nat
  /\ passes \in Seq([from : {NotFound, Spare}, to : {NotFound, Spare}])
  /\ input \in {NotFound, Spare} /\ output \in {NotFound, Spare}
  /\ last \in {NotFound, Spare}
  /\ built \in BOOLEAN

\* Until the builder is destroyed the entries of both phases are as large as
\* each other and as what has been laid out; a header is never overwritten.
SizesGrow ==
  /\ localSize >= HeaderSize
  /\ ~built => globalSize = localSize /\ rowSize = 0
  /\ built => rowSize >= localSize - NextSize

\* The next pass would read what the last one has written.
InputIsLast ==
  /\ input = (IF passes = <<>> THEN NotFound ELSE passes[Len(passes)].to)
  /\ output # input
  /\ \A i \in DOMAIN passes :
       /\ passes[i].from = (IF i = 1 THEN NotFound ELSE passes[i - 1].to)
       /\ passes[i].to # passes[i].from
  /\ built => last = input

LayoutInv == LayoutTypes /\ SizesGrow /\ FieldsFit /\ InputIsLast

LEMMA LayoutInit == Init => LayoutInv
<1> SUFFICES ASSUME Init PROVE LayoutInv
  OBVIOUS
<1> USE SizesAssumption
<1>1. LayoutTypes
  <2>1. fields = <<>> /\ passes = <<>>
    BY DEF Init
  <2>2. fields \in Seq([offset : Nat, size : Nat])
    BY <2>1
  <2>3. passes \in Seq([from : {NotFound, Spare}, to : {NotFound, Spare}])
    BY <2>1
  <2>4. /\ localSize \in Nat /\ globalSize \in Nat /\ rowSize \in Nat
        /\ input \in {NotFound, Spare} /\ output \in {NotFound, Spare}
        /\ last \in {NotFound, Spare} /\ built \in BOOLEAN
    BY DEF Init
  <2> QED BY <2>2, <2>3, <2>4 DEF LayoutTypes
<1>2. SizesGrow
  BY DEF Init, SizesGrow
<1>3. FieldsFit
  BY DEF Init, FieldsFit
<1>4. InputIsLast
  BY DEF Init, InputIsLast, NotFound, Spare
<1> QED BY <1>1, <1>2, <1>3, <1>4 DEF LayoutInv

\* What FieldsFit says of one field.
LEMMA FieldTypes ==
  ASSUME LayoutInv
  PROVE  /\ DOMAIN fields = 1 .. Len(fields) /\ Len(fields) \in Nat
         /\ \A i \in 1 .. Len(fields) :
              /\ fields[i].offset \in Nat /\ fields[i].size \in Nat
              /\ fields[i].offset >= (IF i = 1 THEN HeaderSize
                                      ELSE fields[i - 1].offset + fields[i - 1].size)
              /\ fields[i].offset + fields[i].size <= localSize
              /\ fields[i].offset + fields[i].size <= globalSize
<1>1. fields \in Seq([offset : Nat, size : Nat])
  BY DEF LayoutInv, LayoutTypes
<1>2. DOMAIN fields = 1 .. Len(fields) /\ Len(fields) \in Nat
  BY <1>1
<1>3. ASSUME NEW i \in 1 .. Len(fields)
      PROVE  fields[i].offset \in Nat /\ fields[i].size \in Nat
  <2>1. fields[i] \in [offset : Nat, size : Nat]
    BY <1>1, ElementOf
  <2> QED BY <2>1
<1>4. ASSUME NEW i \in 1 .. Len(fields)
      PROVE  /\ fields[i].offset >= (IF i = 1 THEN HeaderSize
                                     ELSE fields[i - 1].offset + fields[i - 1].size)
             /\ fields[i].offset + fields[i].size <= localSize
             /\ fields[i].offset + fields[i].size <= globalSize
  <2>1. i \in DOMAIN fields
    BY <1>2
  <2> QED BY <2>1 DEF LayoutInv, FieldsFit
<1> QED BY <1>2, <1>3, <1>4

\* A field is laid out behind the others, which stay where they are.
LEMMA AddFieldKeeps ==
  ASSUME LayoutInv, NEW size \in Sizes, AddField(size), rowSize' = rowSize, built' = built
  PROVE  /\ fields' \in Seq([offset : Nat, size : Nat])
         /\ localSize' \in Nat /\ globalSize' \in Nat
         /\ SizesGrow' /\ FieldsFit'
<1> USE SizesAssumption
<1>1. size \in Nat /\ size > 0
  OBVIOUS
<1>2. /\ localSize' = localSize + size /\ globalSize' = globalSize + size
      /\ fields' = Append(fields, [offset |-> localSize, size |-> size])
      /\ ~built
  BY DEF AddField
<1>3. /\ fields \in Seq([offset : Nat, size : Nat]) /\ localSize \in Nat /\ globalSize \in Nat
      /\ globalSize = localSize /\ rowSize = 0 /\ localSize >= HeaderSize
  BY <1>2 DEF LayoutInv, LayoutTypes, SizesGrow
<1>4. fields' \in Seq([offset : Nat, size : Nat])
  BY <1>1, <1>2, <1>3
<1>5. SizesGrow'
  BY <1>1, <1>2, <1>3 DEF SizesGrow
<1>6. ASSUME NEW i \in DOMAIN fields'
      PROVE  /\ fields'[i].offset >= (IF i = 1 THEN HeaderSize
                                      ELSE fields'[i - 1].offset + fields'[i - 1].size)
             /\ fields'[i].offset + fields'[i].size <= localSize'
             /\ fields'[i].offset + fields'[i].size <= globalSize'
  <2>1. DOMAIN fields' = 1 .. Len(fields) + 1 /\ Len(fields) \in Nat
    BY <1>2, <1>3
  <2>2. \A j \in 1 .. Len(fields) :
          /\ fields'[j] = fields[j] /\ fields[j].offset \in Nat /\ fields[j].size \in Nat
          /\ fields[j].offset >= (IF j = 1 THEN HeaderSize
                                  ELSE fields[j - 1].offset + fields[j - 1].size)
          /\ fields[j].offset + fields[j].size <= localSize
    <3>1. \A j \in 1 .. Len(fields) : fields'[j] = fields[j]
      BY <1>2, <1>3, <2>1
    <3> QED BY <3>1, FieldTypes
  <2>3. CASE i = Len(fields) + 1
    <3>1. fields'[i] = [offset |-> localSize, size |-> size]
      BY <1>2, <1>3, <2>3
    <3>2. fields'[i].offset = localSize /\ fields'[i].size = size
      BY <3>1
    <3>3. CASE i = 1
      BY <3>2, <3>3, <1>1, <1>2, <1>3
    <3>4. CASE i # 1
      <4>1. i - 1 \in 1 .. Len(fields)
        BY <2>1, <2>3, <3>4
      <4>2. fields'[i - 1].offset + fields'[i - 1].size <= localSize
        BY <4>1, <2>2
      <4>3. fields'[i].offset >= fields'[i - 1].offset + fields'[i - 1].size
        BY <4>2, <3>2
      <4>4. fields'[i].offset + fields'[i].size = localSize' /\ globalSize' = localSize' /\ localSize' \in Nat
        BY <3>2, <1>1, <1>2, <1>3
      <4> QED BY <4>3, <4>4, <3>4
    <3> QED BY <3>3, <3>4
  <2>4. CASE i # Len(fields) + 1
    <3>1. i \in 1 .. Len(fields) /\ (i # 1 => i - 1 \in 1 .. Len(fields))
      BY <2>1, <2>4
    <3>2. /\ fields'[i] = fields[i] /\ fields[i].offset \in Nat /\ fields[i].size \in Nat
          /\ fields[i].offset >= (IF i = 1 THEN HeaderSize
                                  ELSE fields[i - 1].offset + fields[i - 1].size)
          /\ fields[i].offset + fields[i].size <= localSize
      BY <3>1, <2>2
    <3>3. i # 1 => fields'[i - 1] = fields[i - 1]
      BY <3>1, <2>2
    <3>4. localSize \in Nat /\ localSize <= localSize' /\ localSize <= globalSize'
          /\ localSize' \in Nat /\ globalSize' \in Nat
      BY <1>1, <1>2, <1>3
    <3> QED BY <3>2, <3>3, <3>4
  <2> QED BY <2>3, <2>4
<1>7. FieldsFit'
  BY <1>6, <1>2 DEF FieldsFit
<1> QED BY <1>1, <1>2, <1>3, <1>4, <1>5, <1>7

\* Larger entries hold the same fields.
LEMMA PaddingKeeps ==
  ASSUME LayoutInv, ~built, UNCHANGED fields,
         localSize' \in Nat, localSize' >= localSize,
         globalSize' \in Nat, globalSize' >= globalSize,
         built' => rowSize' = localSize' - NextSize
  PROVE  FieldsFit'
<1>1. \A i \in DOMAIN fields :
        /\ fields[i].offset \in Nat /\ fields[i].size \in Nat
        /\ fields[i].offset >= (IF i = 1 THEN HeaderSize
                                ELSE fields[i - 1].offset + fields[i - 1].size)
        /\ fields[i].offset + fields[i].size <= localSize
        /\ fields[i].offset + fields[i].size <= globalSize
  BY FieldTypes
<1>2. localSize \in Nat /\ globalSize \in Nat /\ NextSize \in Nat
  BY SizesAssumption DEF LayoutInv, LayoutTypes
<1>3. SUFFICES ASSUME NEW i \in DOMAIN fields
      PROVE  /\ fields[i].offset >= (IF i = 1 THEN HeaderSize
                                     ELSE fields[i - 1].offset + fields[i - 1].size)
             /\ fields[i].offset + fields[i].size <= localSize'
             /\ fields[i].offset + fields[i].size <= globalSize'
             /\ built' => (fields[i].offset + fields[i].size) - NextSize <= rowSize'
  BY DEF FieldsFit
<1>4. /\ fields[i].offset \in Nat /\ fields[i].size \in Nat
      /\ fields[i].offset + fields[i].size <= localSize
      /\ fields[i].offset + fields[i].size <= globalSize
  BY <1>1
<1> QED BY <1>1, <1>2, <1>4

LEMMA LayoutStep == LayoutInv /\ [Next]_vars => LayoutInv'
<1> SUFFICES ASSUME LayoutInv, [Next]_vars PROVE LayoutInv'
  OBVIOUS
<1> USE SizesAssumption
<1>0. LayoutTypes /\ SizesGrow /\ FieldsFit /\ InputIsLast
  BY DEF LayoutInv
<1>1. ASSUME NEW size \in Sizes, addKey(size) PROVE LayoutInv'
  <2>1. /\ AddField(size) /\ rowSize' = rowSize /\ built' = built /\ last' = last
        /\ passes' = Append(passes, [from |-> input, to |-> output])
        /\ input' = output /\ output' = input
    BY <1>1 DEF addKey
  <2>2. /\ fields' \in Seq([offset : Nat, size : Nat])
        /\ localSize' \in Nat /\ globalSize' \in Nat
        /\ SizesGrow' /\ FieldsFit'
    BY <2>1, AddFieldKeeps
  <2>3. LayoutTypes'
    BY <1>0, <2>1, <2>2 DEF LayoutTypes
  <2>4. ~built /\ passes \in Seq([from : {NotFound, Spare}, to : {NotFound, Spare}])
        /\ Len(passes) \in Nat
    BY <1>0, <2>1 DEF AddField, LayoutTypes
  <2>5. /\ DOMAIN passes' = 1 .. Len(passes) + 1 /\ Len(passes') = Len(passes) + 1
        /\ \A i \in 1 .. Len(passes) : passes'[i] = passes[i]
        /\ passes'[Len(passes) + 1] = [from |-> input, to |-> output]
    BY <2>1, <2>4
  <2>6. input' = passes'[Len(passes')].to /\ passes' # <<>> /\ output' # input'
    BY <2>1, <2>5, <1>0 DEF InputIsLast
  <2>7. ASSUME NEW i \in DOMAIN passes'
        PROVE  /\ passes'[i].from = (IF i = 1 THEN NotFound ELSE passes'[i - 1].to)
               /\ passes'[i].to # passes'[i].from
    <3>1. CASE i = Len(passes) + 1
      <4>1. passes'[i].from = input /\ passes'[i].to = output
        BY <2>5, <3>1
      <4>2. CASE i = 1
        <5>1. passes = <<>>
          BY <4>2, <3>1, <2>4
        <5> QED BY <5>1, <4>1, <4>2, <1>0 DEF InputIsLast
      <4>3. CASE i # 1
        <5>1. i - 1 = Len(passes) /\ i - 1 \in 1 .. Len(passes) /\ passes # <<>>
          BY <4>3, <3>1, <2>4
        <5> QED BY <5>1, <4>1, <4>3, <2>5, <1>0 DEF InputIsLast
      <4> QED BY <4>2, <4>3
    <3>2. CASE i # Len(passes) + 1
      <4>1. i \in 1 .. Len(passes) /\ i \in DOMAIN passes
            /\ (i # 1 => i - 1 \in 1 .. Len(passes))
        BY <3>2, <2>5, <2>4
      <4> QED BY <4>1, <2>5, <1>0 DEF InputIsLast
    <3> QED BY <3>1, <3>2
  <2>8. InputIsLast'
    BY <2>6, <2>7, <2>4, <2>1 DEF InputIsLast
  <2> QED BY <2>2, <2>3, <2>8 DEF LayoutInv
<1>2. ASSUME NEW size \in Sizes, addValue(size) PROVE LayoutInv'
  <2>1. /\ AddField(size) /\ rowSize' = rowSize /\ built' = built
        /\ UNCHANGED <<passes, input, output, last>>
    BY <1>2 DEF addValue
  <2>2. /\ fields' \in Seq([offset : Nat, size : Nat])
        /\ localSize' \in Nat /\ globalSize' \in Nat
        /\ SizesGrow' /\ FieldsFit'
    BY <2>1, AddFieldKeeps
  <2>3. LayoutTypes'
    BY <1>0, <2>1, <2>2 DEF LayoutTypes
  <2>4. InputIsLast'
    BY <2>1, <1>0 DEF InputIsLast
  <2> QED BY <2>2, <2>3, <2>4 DEF LayoutInv
<1>3. ASSUME NEW align \in Aligns, padToAlign(align) PROVE LayoutInv'
  <2>1. /\ ~built /\ built' = built /\ rowSize' = rowSize /\ fields' = fields
        /\ UNCHANGED <<passes, input, output, last>>
        /\ localSize' = localSize + padding(localSize, align)
        /\ globalSize' = globalSize + padding(globalSize, align)
    BY <1>3 DEF padToAlign
  <2>2. align \in Nat \ {0} /\ localSize \in Nat /\ globalSize \in Nat /\ globalSize = localSize
    BY <1>0, <2>1 DEF LayoutTypes, SizesGrow
  <2>3. /\ localSize' \in Nat /\ localSize' >= localSize
        /\ globalSize' \in Nat /\ globalSize' >= globalSize /\ globalSize' = localSize'
    BY <2>1, <2>2, PaddingNat
  <2>4. FieldsFit'
    BY <2>1, <2>3, PaddingKeeps
  <2>5. LayoutTypes' /\ InputIsLast'
    BY <1>0, <2>1, <2>3 DEF LayoutTypes, InputIsLast
  <2>6. SizesGrow'
    BY <1>0, <2>1, <2>2, <2>3 DEF SizesGrow
  <2> QED BY <2>4, <2>5, <2>6 DEF LayoutInv
<1>4. ASSUME Destroy PROVE LayoutInv'
  <2>1. /\ ~built /\ built' = TRUE /\ last' = input /\ fields' = fields
        /\ UNCHANGED <<passes, input, output>>
        /\ localSize' = localSize + padding(localSize, Round)
        /\ globalSize' = globalSize + padding(localSize', Round)
        /\ rowSize' = localSize' - NextSize
    BY <1>4 DEF Destroy
  <2>2. localSize \in Nat /\ globalSize \in Nat /\ localSize >= HeaderSize
    BY <1>0, <2>1 DEF LayoutTypes, SizesGrow
  <2>3. localSize' \in Nat /\ localSize' >= localSize
    BY <2>1, <2>2, PaddingNat
  <2>4. padding(localSize', Round) \in Nat
    BY <2>3, PaddingNat
  <2>5. globalSize' \in Nat /\ globalSize' >= globalSize
    BY <2>1, <2>2, <2>4
  <2>6. FieldsFit'
    BY <2>1, <2>3, <2>5, PaddingKeeps
  <2>7. rowSize' \in Nat
    BY <2>1, <2>2, <2>3
  <2>8. LayoutTypes'
    BY <1>0, <2>1, <2>3, <2>5, <2>7 DEF LayoutTypes
  <2>9. InputIsLast'
    BY <1>0, <2>1 DEF InputIsLast
  <2>10. SizesGrow'
    BY <2>1, <2>2, <2>3, <2>7 DEF SizesGrow
  <2> QED BY <2>6, <2>8, <2>9, <2>10 DEF LayoutInv
<1>5. CASE UNCHANGED vars
  BY <1>0, <1>5 DEF LayoutInv, vars, LayoutTypes, SizesGrow, FieldsFit, InputIsLast
<1> QED BY <1>1, <1>2, <1>3, <1>4, <1>5 DEF Next

LEMMA LayoutImplied == LayoutInv => LayoutSound
<1> SUFFICES ASSUME LayoutInv PROVE LayoutSound
  OBVIOUS
<1>1. FieldsFit /\ InputIsLast /\ LayoutTypes
  BY DEF LayoutInv
<1> DEFINE reads == [i \in 1 .. Len(passes) + 1 |-> IF i <= Len(passes) THEN passes[i].from ELSE last]
           writes == [i \in 1 .. Len(passes) + 1 |-> IF i = 1 THEN NotFound ELSE passes[i - 1].to]
<1>2. DOMAIN passes = 1 .. Len(passes) /\ Len(passes) \in Nat
  BY <1>1 DEF LayoutTypes
<1>3. \A i \in DOMAIN passes : reads[i] = writes[i] /\ passes[i].to # passes[i].from
  BY <1>1, <1>2 DEF InputIsLast
<1>4. ASSUME built PROVE reads[Len(passes) + 1] = writes[Len(passes) + 1]
  <2>1. reads[Len(passes) + 1] = last /\ last = input
    BY <1>1, <1>2, <1>4 DEF InputIsLast
  <2>2. CASE passes = <<>>
    <3>1. Len(passes) + 1 = 1
      BY <2>2
    <3> QED BY <3>1, <2>1, <2>2, <1>1 DEF InputIsLast
  <2>3. CASE passes # <<>>
    <3>1. Len(passes) + 1 # 1 /\ (Len(passes) + 1) - 1 = Len(passes)
      BY <2>3, <1>1, <1>2 DEF LayoutTypes
    <3> QED BY <3>1, <2>1, <2>3, <1>1, <1>2 DEF InputIsLast
  <2> QED BY <2>2, <2>3
<1>5. PassesChained
  BY <1>3, <1>4 DEF PassesChained
<1> QED BY <1>1, <1>5 DEF LayoutSound

\* A step of MCGroups is one of the layout or leaves it alone.
LEMMA LayoutOnly == [MCNext /\ UNCHANGED kind]_allVars => [Next]_vars
BY DEF MCNext, allVars, vars

\* The offsets of the columns of a group fit the entries of both phases and the
\* rows spilled between them, and the partitioning passes hand every row on:
\* whatever sizes, alignments and numbers of columns a query asks for.
THEOREM LayoutRight == MCSpec => []LayoutSound
<1>1. MCInit => LayoutInv
  BY LayoutInit DEF MCInit
<1>2. LayoutInv /\ [MCNext /\ UNCHANGED kind]_allVars => LayoutInv'
  BY LayoutStep, LayoutOnly
<1>3. MCSpec => []LayoutInv
  BY <1>1, <1>2, PTL DEF MCSpec
<1> QED BY <1>3, LayoutImplied, PTL
-----------------------------------------------------------------------------
(* runtime::Stack *)

LEMMA StackPower == Stack!pow = power
BY DEF Stack!pow, power

LEMMA StackFlatten == \A ss : Stack!FlattenSeq(ss) = FlattenSeq(ss)
BY DEF Stack!FlattenSeq, FlattenSeq

\* The capacity the chunks of the list are allocated with.
StackCap(i) == initialSize * power[i - 1]

\* The first n chunks, each of them full.
FullChunks(cs, n) == [j \in 1 .. n |-> SubSeq(cs[j], 1, StackCap(j))]

\* The elements in the chunks before the last one.
Before == FlattenSeq(FullChunks(chunks, lastChunk - 1))

\* The chunks of the list are as large as newChunk() makes them, those before the
\* last one are full, and the last one is not empty, unless the stack is.
StackInv ==
  /\ chunks \in Seq(Seq(Elements)) /\ Len(chunks) <= MaxChunks
  /\ lastChunk \in 1 .. Len(chunks) /\ latest \in Elements
  /\ capacity = StackCap(lastChunk) /\ fill \in 0 .. capacity /\ nrElements \in Nat
  /\ \A i \in 1 .. Len(chunks) : Len(chunks[i]) <= StackCap(i)
  /\ \A i \in 1 .. lastChunk - 1 : Len(chunks[i]) = StackCap(i)
  /\ fill <= Len(chunks[lastChunk])
  /\ lastChunk > 1 => fill > 0
  /\ nrElements = Len(Before)

LEMMA StackCaps ==
  /\ StackCap(1) = initialSize
  /\ \A i \in Nat \ {0} : StackCap(i) \in Nat \ {0} /\ StackCap(i + 1) = StackCap(i) * 2
<1>1. initialSize \in Nat \ {0}
  BY StackAssumption DEF Stack!SizeAssumption
<1>2. 1 - 1 = 0 /\ power[0] = 1
  BY PowerFacts
<1>3. ASSUME NEW i \in Nat \ {0}
      PROVE  StackCap(i) \in Nat \ {0} /\ StackCap(i + 1) = StackCap(i) * 2
  <2>1. i - 1 \in Nat /\ (i + 1) - 1 = (i - 1) + 1
    OBVIOUS
  <2> DEFINE p == power[i - 1]
  <2>2. p \in Nat \ {0} /\ power[(i + 1) - 1] = 2 * p
    BY <2>1, PowerFacts
  <2>3. StackCap(i) = initialSize * p /\ StackCap(i + 1) = initialSize * (2 * p)
    BY <2>2 DEF StackCap
  <2> HIDE DEF p
  <2>4. initialSize * p \in Nat /\ initialSize * p > 0
    BY <1>1, <2>2
  <2>5. initialSize * (2 * p) = (initialSize * p) * 2
    BY <1>1, <2>2
  <2> QED BY <2>3, <2>4, <2>5
<1> QED BY <1>1, <1>2, <1>3 DEF StackCap

LEMMA StackCapacity == \A i : Stack!CapacityOf(i) = StackCap(i)
BY StackPower DEF Stack!CapacityOf, StackCap

\* Chunks are full as far as lists of chunks agree; the next one is behind them.
LEMMA FullChunksFacts ==
  ASSUME NEW cs \in Seq(Seq(Elements)), NEW n \in Nat, n < Len(cs),
         \A i \in 1 .. n : Len(cs[i]) = StackCap(i)
  PROVE  /\ FullChunks(cs, n) \in Seq(Seq(Elements))
         /\ FullChunks(cs, 0) = <<>>
         /\ \A m \in 0 .. StackCap(n + 1) : \A t :
              t = [i \in 1 .. n + 1 |-> SubSeq(cs[i], 1, IF i = n + 1 THEN m ELSE StackCap(i))]
                => t = Append(FullChunks(cs, n), SubSeq(cs[n + 1], 1, m))
<1>1. \A i \in 1 .. n : cs[i] \in Seq(Elements) /\ StackCap(i) = Len(cs[i])
  BY ElementOf
<1>2. \A i \in 1 .. n : SubSeq(cs[i], 1, StackCap(i)) \in Seq(Elements)
  BY <1>1
<1>3. FullChunks(cs, n) \in [1 .. n -> Seq(Elements)]
  BY <1>2 DEF FullChunks
<1>4. FullChunks(cs, n) \in Seq(Seq(Elements)) /\ Len(FullChunks(cs, n)) = n
  BY <1>3
<1>5. FullChunks(cs, 0) = <<>>
  BY DEF FullChunks
<1>6. ASSUME NEW m \in 0 .. StackCap(n + 1), NEW t,
             t = [i \in 1 .. n + 1 |-> SubSeq(cs[i], 1, IF i = n + 1 THEN m ELSE StackCap(i))]
      PROVE  t = Append(FullChunks(cs, n), SubSeq(cs[n + 1], 1, m))
  <2> DEFINE u == Append(FullChunks(cs, n), SubSeq(cs[n + 1], 1, m))
  <2>1. u = [i \in 1 .. n + 1 |-> u[i]]
    BY <1>4
  <2>2. u[n + 1] = SubSeq(cs[n + 1], 1, m)
    BY <1>4
  <2>3. \A i \in 1 .. n : u[i] = FullChunks(cs, n)[i]
    BY <1>4
  <2>4. \A i \in 1 .. n : u[i] = SubSeq(cs[i], 1, StackCap(i))
    BY <2>3 DEF FullChunks
  <2> HIDE DEF u
  <2>5. \A i \in 1 .. n + 1 : u[i] = SubSeq(cs[i], 1, IF i = n + 1 THEN m ELSE StackCap(i))
    <3>1. ASSUME NEW i \in 1 .. n + 1
          PROVE  u[i] = SubSeq(cs[i], 1, IF i = n + 1 THEN m ELSE StackCap(i))
      <4>1. CASE i = n + 1
        BY <2>2, <4>1
      <4>2. CASE i # n + 1
        <5>1. i \in 1 .. n
          BY <4>2
        <5> QED BY <5>1, <4>2, <2>4
      <4> QED BY <4>1, <4>2
    <3> QED BY <3>1
  <2>6. t = u
    BY <2>1, <2>5, <1>6
  <2> QED BY <2>6 DEF u
<1> QED BY <1>4, <1>5, <1>6

\* What an iterator sees: the full chunks, and what is filled of the last one.
LEMMA IteratedIs ==
  ASSUME StackInv
  PROVE  /\ Before \in Seq(Elements)
         /\ chunks[lastChunk] \in Seq(Elements)
         /\ SubSeq(chunks[lastChunk], 1, fill) \in Seq(Elements)
         /\ Len(SubSeq(chunks[lastChunk], 1, fill)) = fill
         /\ Stack!Iterated = Before \o SubSeq(chunks[lastChunk], 1, fill)
<1> DEFINE n == lastChunk - 1
           filled == SubSeq(chunks[lastChunk], 1, fill)
<1>1. /\ chunks \in Seq(Seq(Elements)) /\ n \in Nat /\ n < Len(chunks) /\ lastChunk = n + 1
      /\ \A i \in 1 .. n : Len(chunks[i]) = StackCap(i)
  BY DEF StackInv
<1>2. fill \in 0 .. StackCap(n + 1) /\ fill \in Nat /\ fill <= Len(chunks[lastChunk])
  BY <1>1, StackCaps DEF StackInv
<1>3. chunks[lastChunk] \in Seq(Elements)
  BY <1>1, ElementOf
<1>4. filled \in Seq(Elements) /\ Len(filled) = fill
  BY <1>2, <1>3
<1>5. FullChunks(chunks, n) \in Seq(Seq(Elements))
  BY <1>1, FullChunksFacts
<1>6. Before \in Seq(Elements)
  BY <1>5, FlattenFacts DEF Before
<1> DEFINE t == [i \in 1 .. n + 1 |-> SubSeq(chunks[i], 1, IF i = n + 1 THEN fill ELSE StackCap(i))]
<1>7. t = Append(FullChunks(chunks, n), SubSeq(chunks[n + 1], 1, fill))
  <2> HIDE DEF n
  <2>1. \A m \in 0 .. StackCap(n + 1) : \A u :
          u = [i \in 1 .. n + 1 |-> SubSeq(chunks[i], 1, IF i = n + 1 THEN m ELSE StackCap(i))]
            => u = Append(FullChunks(chunks, n), SubSeq(chunks[n + 1], 1, m))
    BY <1>1, FullChunksFacts
  <2> QED BY <2>1, <1>2
<1>8. Stack!Iterated = FlattenSeq(t)
  <2>1. Stack!Iterated = FlattenSeq([i \in 1 .. lastChunk |->
          SubSeq(chunks[i], 1, IF i = lastChunk THEN fill ELSE StackCap(i))])
    BY StackFlatten, StackCapacity DEF Stack!Iterated
  <2> QED BY <2>1, <1>1
<1> HIDE DEF t
<1>9. Stack!Iterated = FlattenSeq(FullChunks(chunks, n)) \o filled
  BY <1>1, <1>4, <1>5, <1>7, <1>8, FlattenFacts
<1> QED BY <1>3, <1>4, <1>6, <1>9 DEF Before

IteratedSplits == Stack!Iterated = Before \o SubSeq(chunks[lastChunk], 1, fill)

LEMMA IteratedNext ==
  StackInv' => (Stack!Iterated)' = Before' \o SubSeq(chunks'[lastChunk'], 1, fill')
<1>1. StackInv => IteratedSplits
  BY IteratedIs DEF IteratedSplits
<1>2. StackInv' => IteratedSplits'
  BY <1>1, PTL
<1> QED BY <1>2 DEF IteratedSplits

LEMMA StackInit == Stack!Init => StackInv /\ Stack!Iterated = <<>>
<1> SUFFICES ASSUME Stack!Init PROVE StackInv /\ Stack!Iterated = <<>>
  OBVIOUS
<1>1. /\ chunks = << <<>> >> /\ lastChunk = 1 /\ capacity = initialSize /\ fill = 0
      /\ nrElements = 0 /\ latest \in Elements
  BY DEF Stack!Init
<1>2. initialSize \in Nat \ {0} /\ MaxChunks \in Nat \ {0}
  BY StackAssumption DEF Stack!SizeAssumption
<1>3. chunks \in Seq(Seq(Elements)) /\ Len(chunks) = 1 /\ Len(chunks[1]) = 0 /\ chunks[1] = <<>>
  <2>1. <<>> \in Seq(Elements)
    OBVIOUS
  <2> QED BY <1>1, <2>1
<1>4. Before = <<>>
  <2>1. FullChunks(chunks, 0) = <<>>
    BY DEF FullChunks
  <2>2. lastChunk - 1 = 0
    BY <1>1
  <2> QED BY <2>1, <2>2, FlattenFacts DEF Before
<1>5. StackInv
  BY <1>1, <1>2, <1>3, <1>4, StackCaps DEF StackInv
<1>6. Stack!Iterated = <<>>
  <2>1. SubSeq(chunks[lastChunk], 1, fill) = <<>>
    BY <1>1, <1>3
  <2>2. Stack!Iterated = Before \o SubSeq(chunks[lastChunk], 1, fill)
    BY <1>5, IteratedIs
  <2> QED BY <2>1, <2>2, <1>4
<1> QED BY <1>5, <1>6

LEMMA JoinFacts ==
  ASSUME NEW S, NEW s \in Seq(S), NEW t \in Seq(S)
  PROVE  /\ s \o t \in Seq(S) /\ Len(s \o t) = Len(s) + Len(t)
         /\ \A i \in 1 .. Len(t) : (s \o t)[Len(s) + i] = t[i]
OBVIOUS

LEMMA SingleFacts ==
  ASSUME NEW S, NEW e \in S
  PROVE  /\ <<e>> \in Seq(S) /\ Len(<<e>>) = 1 /\ Append(<<>>, e) = <<e>>
         /\ SubSeq(<<e>>, 1, 1) = <<e>>
         /\ \A s \in Seq(S) : s \o <<e>> = Append(s, e)
<1>1. <<e>> \in Seq(S) /\ Len(<<e>>) = 1
  OBVIOUS
<1>2. Append(<<>>, e) = <<e>>
  OBVIOUS
<1>3. SubSeq(<<e>>, 1, 1) = <<e>>
  <2> DEFINE s == <<e>>
  <2>1. s \in Seq(S) /\ Len(s) = 1
    OBVIOUS
  <2> HIDE DEF s
  <2>2. SubSeq(s, 1, 1) = s
    BY <2>1
  <2> QED BY <2>2 DEF s
<1>4. \A s \in Seq(S) : s \o <<e>> = Append(s, e)
  OBVIOUS
<1> QED BY <1>1, <1>2, <1>3, <1>4

LEMMA AppendJoins ==
  ASSUME NEW S, NEW s \in Seq(S), NEW t \in Seq(S), NEW e \in S
  PROVE  s \o Append(t, e) = Append(s \o t, e)
OBVIOUS

\* A chunk with an element written behind the first ones.
LEMMA WrittenIs ==
  ASSUME NEW c \in Seq(Elements), NEW m \in Nat, m <= Len(c), NEW e \in Elements
  PROVE  /\ Stack!Written(c, m + 1, e) \in Seq(Elements)
         /\ Len(Stack!Written(c, m + 1, e)) = (IF m = Len(c) THEN m + 1 ELSE Len(c))
         /\ SubSeq(Stack!Written(c, m + 1, e), 1, m + 1) = Append(SubSeq(c, 1, m), e)
<1> DEFINE d == Stack!Written(c, m + 1, e)
<1>1. CASE m = Len(c)
  <2>1. d = Append(c, e)
    BY <1>1 DEF Stack!Written
  <2>2. SubSeq(c, 1, m) = c
    BY <1>1
  <2>3. d \in Seq(Elements) /\ Len(d) = m + 1
    BY <2>1, <1>1
  <2>4. SubSeq(d, 1, m + 1) = d
    <3> HIDE DEF d
    <3> QED BY <2>3
  <2> QED BY <2>1, <2>2, <2>3, <2>4, <1>1
<1>2. CASE m # Len(c)
  <2>1. d = [c EXCEPT ![m + 1] = e] /\ m + 1 \in 1 .. Len(c)
    BY <1>2 DEF Stack!Written
  <2> HIDE DEF d
  <2>2. d \in Seq(Elements) /\ Len(d) = Len(c)
    BY <2>1
  <2>3. d[m + 1] = e /\ \A j \in 1 .. m : d[j] = c[j]
    BY <2>1
  <2>4. SubSeq(d, 1, m + 1) = Append(SubSeq(d, 1, m), e)
    BY <2>1, <2>2, <2>3
  <2>5. SubSeq(d, 1, m) = SubSeq(c, 1, m)
    BY <2>1, <2>2, <2>3
  <2> QED BY <1>2, <2>2, <2>4, <2>5 DEF d
<1> QED BY <1>1, <1>2

\* The chunks before the last one do not depend on the others.
LEMMA FullChunksSame ==
  ASSUME NEW cs, NEW ds, NEW n \in Nat, \A i \in 1 .. n : cs[i] = ds[i]
  PROVE  FullChunks(cs, n) = FullChunks(ds, n)
BY DEF FullChunks

LEMMA emplaceStep ==
  ASSUME StackInv, NEW e \in Elements, Stack!emplace_back(e)
  PROVE  StackInv' /\ (Stack!Iterated)' = Append(Stack!Iterated, e) /\ latest' = e
<1> DEFINE c == chunks[lastChunk]
           d == Stack!Written(c, fill + 1, e)
<1>1. /\ fill # capacity /\ chunks' = [chunks EXCEPT ![lastChunk] = d]
      /\ fill' = fill + 1 /\ latest' = e
      /\ UNCHANGED <<lastChunk, capacity, nrElements>>
  BY DEF Stack!emplace_back
<1>2. /\ chunks \in Seq(Seq(Elements)) /\ Len(chunks) <= MaxChunks
      /\ lastChunk \in 1 .. Len(chunks) /\ Len(chunks) \in Nat
      /\ capacity = StackCap(lastChunk) /\ fill \in 0 .. capacity /\ fill \in Nat
      /\ capacity \in Nat
  <2>1. lastChunk \in Nat \ {0}
    BY DEF StackInv
  <2>2. StackCap(lastChunk) \in Nat
    BY <2>1, StackCaps
  <2> QED BY <2>2 DEF StackInv
<1>3. c \in Seq(Elements) /\ fill <= Len(c) /\ Len(c) <= capacity /\ Len(c) \in Nat
  BY <1>2, ElementOf DEF StackInv
<1>4. /\ d \in Seq(Elements)
      /\ Len(d) = (IF fill = Len(c) THEN fill + 1 ELSE Len(c))
      /\ SubSeq(d, 1, fill + 1) = Append(SubSeq(c, 1, fill), e)
  BY <1>2, <1>3, WrittenIs
<1>5. Len(d) <= capacity /\ fill + 1 <= Len(d) /\ fill + 1 \in 0 .. capacity
  BY <1>1, <1>2, <1>3, <1>4
<1> HIDE DEF c, d
<1>6. /\ chunks' \in Seq(Seq(Elements)) /\ Len(chunks') = Len(chunks)
      /\ chunks'[lastChunk] = d
      /\ \A i \in 1 .. Len(chunks) : i # lastChunk => chunks'[i] = chunks[i]
  BY <1>1, <1>2, <1>4
<1>7. Before' = Before
  <2>1. ASSUME NEW i \in 1 .. lastChunk - 1 PROVE chunks'[i] = chunks[i]
    <3>1. i \in 1 .. Len(chunks) /\ i # lastChunk
      BY <1>2
    <3> QED BY <3>1, <1>6
  <2>2. FullChunks(chunks', lastChunk - 1) = FullChunks(chunks, lastChunk - 1)
    BY <2>1, <1>2, FullChunksSame
  <2> QED BY <2>2, <1>1 DEF Before
<1>8. StackInv'
  <2>1. ASSUME NEW i \in 1 .. Len(chunks) PROVE Len(chunks'[i]) <= StackCap(i)
    <3>1. CASE i = lastChunk
      BY <3>1, <1>2, <1>5, <1>6
    <3>2. CASE i # lastChunk
      BY <3>2, <1>6 DEF StackInv
    <3> QED BY <3>1, <3>2
  <2>2. ASSUME NEW i \in 1 .. lastChunk - 1 PROVE Len(chunks'[i]) = StackCap(i)
    <3>1. i \in 1 .. Len(chunks) /\ i # lastChunk
      BY <1>2
    <3>2. Len(chunks[i]) = StackCap(i)
      BY DEF StackInv
    <3> QED BY <3>1, <3>2, <1>6
  <2>3. nrElements' = Len(Before') /\ nrElements' \in Nat
    BY <1>1, <1>7 DEF StackInv
  <2>4. fill' <= Len(chunks'[lastChunk'])
    BY <1>1, <1>5, <1>6
  <2>5. lastChunk' \in 1 .. Len(chunks') /\ capacity' = StackCap(lastChunk')
        /\ fill' \in 0 .. capacity' /\ fill' > 0 /\ latest' \in Elements
    BY <1>1, <1>2, <1>5, <1>6
  <2> QED BY <2>1, <2>2, <2>3, <2>4, <2>5, <1>1, <1>2, <1>6 DEF StackInv
<1>9. (Stack!Iterated)' = Append(Stack!Iterated, e)
  <2>1. /\ Before \in Seq(Elements) /\ SubSeq(c, 1, fill) \in Seq(Elements)
        /\ Stack!Iterated = Before \o SubSeq(c, 1, fill)
    BY IteratedIs DEF c
  <2>2. (Stack!Iterated)' = Before' \o SubSeq(chunks'[lastChunk'], 1, fill')
    BY <1>8, IteratedNext
  <2>3. (Stack!Iterated)' = Before \o Append(SubSeq(c, 1, fill), e)
    BY <2>2, <1>1, <1>4, <1>6, <1>7
  <2>4. Before \o Append(SubSeq(c, 1, fill), e) = Append(Before \o SubSeq(c, 1, fill), e)
    <3> DEFINE t == SubSeq(c, 1, fill)
    <3>1. t \in Seq(Elements) /\ Before \in Seq(Elements)
      BY <2>1
    <3> HIDE DEF t
    <3>2. Before \o Append(t, e) = Append(Before \o t, e)
      BY <3>1, AppendJoins
    <3> QED BY <3>2 DEF t
  <2> QED BY <2>1, <2>3, <2>4
<1> QED BY <1>1, <1>8, <1>9

\* All elements are in full chunks when the last one is full.
LEMMA BeforeFull ==
  ASSUME StackInv, fill = capacity
  PROVE  FlattenSeq(FullChunks(chunks, lastChunk)) = Stack!Iterated
<1> DEFINE n == lastChunk - 1
           t == [i \in 1 .. n + 1 |-> SubSeq(chunks[i], 1, IF i = n + 1 THEN fill ELSE StackCap(i))]
<1>1. /\ chunks \in Seq(Seq(Elements)) /\ n \in Nat /\ n < Len(chunks) /\ lastChunk = n + 1
      /\ \A i \in 1 .. n : Len(chunks[i]) = StackCap(i)
  BY DEF StackInv
<1>2. fill = StackCap(n + 1) /\ fill \in 0 .. StackCap(n + 1)
  BY <1>1 DEF StackInv
<1>3. FullChunks(chunks, lastChunk) = t
  BY <1>1, <1>2 DEF FullChunks
<1>4. t = Append(FullChunks(chunks, n), SubSeq(chunks[n + 1], 1, fill))
        /\ FullChunks(chunks, n) \in Seq(Seq(Elements))
  <2> HIDE DEF n
  <2>1. FullChunks(chunks, n) \in Seq(Seq(Elements))
    BY <1>1, FullChunksFacts
  <2>2. \A m \in 0 .. StackCap(n + 1) : \A u :
          u = [i \in 1 .. n + 1 |-> SubSeq(chunks[i], 1, IF i = n + 1 THEN m ELSE StackCap(i))]
            => u = Append(FullChunks(chunks, n), SubSeq(chunks[n + 1], 1, m))
    BY <1>1, FullChunksFacts
  <2>3. t = Append(FullChunks(chunks, n), SubSeq(chunks[n + 1], 1, fill))
    BY <2>2, <1>2
  <2> QED BY <2>1, <2>3
<1> HIDE DEF t
<1>5. /\ SubSeq(chunks[n + 1], 1, fill) \in Seq(Elements)
      /\ Stack!Iterated = FlattenSeq(FullChunks(chunks, n)) \o SubSeq(chunks[n + 1], 1, fill)
  BY <1>1, IteratedIs DEF Before
<1>6. FlattenSeq(t) = FlattenSeq(FullChunks(chunks, n)) \o SubSeq(chunks[n + 1], 1, fill)
  <2> DEFINE u == FullChunks(chunks, n)
             v == SubSeq(chunks[n + 1], 1, fill)
  <2>1. u \in Seq(Seq(Elements)) /\ v \in Seq(Elements) /\ t = Append(u, v)
    BY <1>4, <1>5
  <2> HIDE DEF u, v
  <2>2. FlattenSeq(t) = FlattenSeq(u) \o v
    BY <2>1, FlattenFacts
  <2> QED BY <2>2 DEF u, v
<1> QED BY <1>3, <1>5, <1>6

LEMMA newChunkStep ==
  ASSUME StackInv, NEW e \in Elements, Stack!newChunk(e)
  PROVE  StackInv' /\ (Stack!Iterated)' = Append(Stack!Iterated, e) /\ latest' = e
<1> DEFINE k == lastChunk + 1
<1>1. /\ fill = capacity /\ lastChunk < MaxChunks /\ capacity' = capacity * 2
      /\ lastChunk' = k /\ nrElements' = nrElements + fill /\ fill' = 1 /\ latest' = e
      /\ chunks' = IF lastChunk < Len(chunks)
                   THEN [chunks EXCEPT ![k] = Stack!Written(chunks[k], 1, e)]
                   ELSE Append(chunks, <<e>>)
  BY DEF Stack!newChunk
<1>2. /\ chunks \in Seq(Seq(Elements)) /\ Len(chunks) <= MaxChunks
      /\ lastChunk \in 1 .. Len(chunks) /\ Len(chunks) \in Nat /\ lastChunk \in Nat \ {0}
      /\ capacity = StackCap(lastChunk) /\ MaxChunks \in Nat
  BY StackAssumption DEF StackInv, Stack!SizeAssumption
<1>3. /\ k \in Nat \ {0} /\ StackCap(lastChunk) \in Nat \ {0} /\ StackCap(k) \in Nat \ {0}
      /\ StackCap(k) = StackCap(lastChunk) * 2
  <2>1. \A i \in Nat \ {0} : StackCap(i) \in Nat \ {0} /\ StackCap(i + 1) = StackCap(i) * 2
    BY StackCaps
  <2>2. lastChunk \in Nat \ {0} /\ k \in Nat \ {0}
    BY <1>2
  <2> QED BY <2>1, <2>2
\* The chunk the element goes to, new or left from before a clear().
<1> DEFINE d == chunks'[k]
<1>4. /\ chunks' \in Seq(Seq(Elements)) /\ Len(chunks') \in Nat /\ k \in 1 .. Len(chunks')
      /\ Len(chunks') <= MaxChunks /\ Len(chunks') >= Len(chunks)
      /\ Len(chunks') = (IF lastChunk < Len(chunks) THEN Len(chunks) ELSE k)
      /\ \A i \in 1 .. Len(chunks) : i # k => chunks'[i] = chunks[i]
      /\ d \in Seq(Elements) /\ Len(d) <= StackCap(k) /\ Len(d) >= 1
      /\ SubSeq(d, 1, 1) = <<e>>
  <2>1. CASE lastChunk < Len(chunks)
    <3> DEFINE c == chunks[k]
               w == Stack!Written(c, 1, e)
    <3>1. chunks' = [chunks EXCEPT ![k] = w] /\ k \in 1 .. Len(chunks)
      BY <1>1, <1>2, <2>1
    <3>2. c \in Seq(Elements) /\ Len(c) <= StackCap(k) /\ Len(c) \in Nat
      BY <1>2, <3>1, ElementOf DEF StackInv
    <3> HIDE DEF c
    <3>3. /\ w \in Seq(Elements) /\ Len(w) = (IF 0 = Len(c) THEN 1 ELSE Len(c))
          /\ SubSeq(w, 1, 1) = Append(SubSeq(c, 1, 0), e)
      <4>1. PICK m \in Nat : m = 0
        OBVIOUS
      <4>2. m <= Len(c) /\ m + 1 = 1
        BY <4>1, <3>2
      <4>3. /\ Stack!Written(c, m + 1, e) \in Seq(Elements)
            /\ Len(Stack!Written(c, m + 1, e)) = (IF m = Len(c) THEN m + 1 ELSE Len(c))
            /\ SubSeq(Stack!Written(c, m + 1, e), 1, m + 1) = Append(SubSeq(c, 1, m), e)
        BY <4>2, <3>2, WrittenIs
      <4> QED BY <4>1, <4>2, <4>3
    <3>4. SubSeq(c, 1, 0) = <<>>
      BY <3>2
    <3>5. Append(SubSeq(c, 1, 0), e) = <<e>>
      BY <3>4, SingleFacts
    <3> HIDE DEF w
    <3>6. d = w /\ Len(chunks') = Len(chunks) /\ chunks' \in Seq(Seq(Elements))
          /\ \A i \in 1 .. Len(chunks) : i # k => chunks'[i] = chunks[i]
      BY <3>1, <3>3, <1>2
    <3> HIDE DEF d
    <3>7. Len(d) <= StackCap(k) /\ Len(d) >= 1
      <4>1. StackCap(k) \in Nat /\ StackCap(k) >= 1
        BY <1>3
      <4>2. CASE 0 = Len(c)
        <5>1. Len(w) = 1
          BY <4>2, <3>3
        <5>2. d = w
          BY <3>6
        <5>3. Len(d) = 1
          BY <5>1, <5>2
        <5> HIDE DEF k
        <5> QED BY <5>3, <4>1
      <4>3. CASE 0 # Len(c)
        BY <4>1, <4>3, <3>2, <3>3, <3>6
      <4> QED BY <4>2, <4>3
    <3>8. SubSeq(d, 1, 1) = <<e>>
      BY <3>3, <3>5, <3>6
    <3> QED BY <3>1, <3>3, <3>6, <3>7, <3>8, <1>2, <2>1
  <2>2. CASE ~(lastChunk < Len(chunks))
    <3>1. chunks' = Append(chunks, <<e>>) /\ k = Len(chunks) + 1
      BY <1>1, <1>2, <2>2
    <3>2. <<e>> \in Seq(Elements) /\ Len(<<e>>) = 1 /\ SubSeq(<<e>>, 1, 1) = <<e>>
      BY SingleFacts
    <3>3. d = <<e>> /\ Len(chunks') = k /\ chunks' \in Seq(Seq(Elements))
          /\ \A i \in 1 .. Len(chunks) : chunks'[i] = chunks[i]
      BY <3>1, <3>2, <1>2
    <3> HIDE DEF d
    <3> QED BY <3>1, <3>2, <3>3, <1>1, <1>2, <1>3, <2>2
  <2> QED BY <2>1, <2>2
<1>5. \A i \in 1 .. lastChunk : chunks'[i] = chunks[i]
  BY <1>2, <1>4
<1>6. Before' = Stack!Iterated
  <2>1. FullChunks(chunks', lastChunk) = FullChunks(chunks, lastChunk)
    BY <1>2, <1>5, FullChunksSame
  <2>2. Before' = FlattenSeq(FullChunks(chunks', lastChunk))
    <3>1. lastChunk' - 1 = lastChunk
      BY <1>1, <1>2
    <3> QED BY <3>1 DEF Before
  <2> QED BY <2>1, <2>2, <1>1, BeforeFull
<1>7. Stack!Iterated \in Seq(Elements) /\ Len(Stack!Iterated) = nrElements + fill
  <2> DEFINE b == Before
             t == SubSeq(chunks[lastChunk], 1, fill)
  <2>1. /\ b \in Seq(Elements) /\ t \in Seq(Elements) /\ Len(t) = fill
        /\ Stack!Iterated = b \o t /\ nrElements = Len(b)
    BY IteratedIs DEF StackInv
  <2> HIDE DEF b, t
  <2>2. b \o t \in Seq(Elements) /\ Len(b \o t) = Len(b) + Len(t)
    BY <2>1, JoinFacts
  <2> QED BY <2>1, <2>2
<1>8. StackInv'
  <2>1. ASSUME NEW i \in 1 .. Len(chunks') PROVE Len(chunks'[i]) <= StackCap(i)
    <3>1. CASE i = k
      BY <3>1, <1>4
    <3>2. CASE i # k
      <4>1. i \in 1 .. Len(chunks) /\ chunks'[i] = chunks[i]
        BY <3>2, <1>2, <1>4
      <4> QED BY <4>1 DEF StackInv
    <3> QED BY <3>1, <3>2
  <2>2. ASSUME NEW i \in 1 .. lastChunk PROVE Len(chunks'[i]) = StackCap(i)
    <3>1. CASE i = lastChunk
      <4>1. /\ Len(chunks[lastChunk]) <= StackCap(lastChunk)
            /\ fill <= Len(chunks[lastChunk]) /\ fill = StackCap(lastChunk)
        BY <1>1 DEF StackInv
      <4>2. Len(chunks[lastChunk]) \in Nat
        BY <1>2, ElementOf
      <4> QED BY <3>1, <4>1, <4>2, <1>3, <1>5
    <3>2. CASE i # lastChunk
      <4>1. i \in 1 .. lastChunk - 1
        BY <3>2, <1>2
      <4>2. Len(chunks[i]) = StackCap(i)
        BY <4>1 DEF StackInv
      <4> QED BY <4>2, <1>5
    <3> QED BY <3>1, <3>2
  <2>3. nrElements' = Len(Before') /\ nrElements' \in Nat
    BY <1>1, <1>6, <1>7
  <2>4. fill' <= Len(chunks'[lastChunk'])
    BY <1>1, <1>4
  <2>5. /\ lastChunk' \in 1 .. Len(chunks') /\ capacity' = StackCap(lastChunk')
        /\ fill' \in 0 .. capacity' /\ fill' > 0 /\ latest' \in Elements
        /\ lastChunk' - 1 = lastChunk
    <3>1. fill' \in 0 .. StackCap(k)
      BY <1>1, <1>3
    <3> QED BY <3>1, <1>1, <1>2, <1>3, <1>4
  <2> QED BY <2>1, <2>2, <2>3, <2>4, <2>5, <1>1, <1>4 DEF StackInv
<1>9. (Stack!Iterated)' = Append(Stack!Iterated, e)
  <2>1. (Stack!Iterated)' = Before' \o SubSeq(chunks'[lastChunk'], 1, fill')
    BY <1>8, IteratedNext
  <2>2. (Stack!Iterated)' = Stack!Iterated \o <<e>>
    BY <2>1, <1>1, <1>4, <1>6
  <2>3. \A s \in Seq(Elements) : s \o <<e>> = Append(s, e)
    BY SingleFacts
  <2> QED BY <2>2, <2>3, <1>7
<1> QED BY <1>1, <1>8, <1>9

LEMMA clearStep ==
  ASSUME StackInv, Stack!clear
  PROVE  StackInv' /\ (Stack!Iterated)' = <<>> /\ latest' = latest
<1>1. /\ lastChunk' = 1 /\ capacity' = initialSize /\ fill' = 0 /\ nrElements' = 0
      /\ chunks' = chunks /\ latest' = latest
  BY DEF Stack!clear
<1>2. /\ chunks \in Seq(Seq(Elements)) /\ Len(chunks) \in Nat /\ 1 \in 1 .. Len(chunks)
      /\ initialSize \in Nat \ {0}
  BY StackAssumption DEF StackInv, Stack!SizeAssumption
<1>3. chunks[1] \in Seq(Elements)
  BY <1>2, ElementOf
<1>4. Before' = <<>>
  <2>1. FullChunks(chunks', 0) = <<>>
    BY DEF FullChunks
  <2>2. lastChunk' - 1 = 0
    BY <1>1
  <2> QED BY <2>1, <2>2, FlattenFacts DEF Before
<1>5. StackInv'
  <2>1. \A i \in 1 .. Len(chunks') : Len(chunks'[i]) <= StackCap(i)
    BY <1>1 DEF StackInv
  <2>2. nrElements' = Len(Before') /\ nrElements' \in Nat
    BY <1>1, <1>4
  <2>3. fill' <= Len(chunks'[lastChunk']) /\ ~(lastChunk' > 1) /\ 1 .. lastChunk' - 1 = {}
    BY <1>1, <1>3
  <2>4. lastChunk' \in 1 .. Len(chunks') /\ capacity' = StackCap(lastChunk') /\ fill' \in 0 .. capacity'
    BY <1>1, <1>2, StackCaps
  <2> QED BY <2>1, <2>2, <2>3, <2>4, <1>1 DEF StackInv
<1>6. (Stack!Iterated)' = <<>>
  <2>1. (Stack!Iterated)' = Before' \o SubSeq(chunks'[lastChunk'], 1, fill')
    BY <1>5, IteratedNext
  <2>2. SubSeq(chunks'[lastChunk'], 1, fill') = <<>>
    BY <1>1, <1>3
  <2> QED BY <2>1, <2>2, <1>4
<1> QED BY <1>1, <1>5, <1>6

LEMMA StackSame ==
  ASSUME StackInv, UNCHANGED stackVars
  PROVE  StackInv' /\ (Stack!Iterated)' = Stack!Iterated /\ latest' = latest
<1>1. UNCHANGED <<chunks, lastChunk, capacity, fill, nrElements, latest>>
  BY DEF stackVars
<1>2. Before' = Before
  BY <1>1 DEF Before
<1>3. StackInv'
  BY <1>1, <1>2 DEF StackInv
<1> QED BY <1>1, <1>2, <1>3, IteratedNext, IteratedIs

StackStep == Stack!Next \/ UNCHANGED stackVars

\* What a step of the stack does, and what an iterator sees of it.
LEMMA StackSteps ==
  ASSUME StackInv, StackStep
  PROVE  /\ StackInv'
         /\ \/ (Stack!Iterated)' = <<>> /\ latest' = latest
            \/ \E e \in Elements : (Stack!Iterated)' = Append(Stack!Iterated, e) /\ latest' = e
            \/ (Stack!Iterated)' = Stack!Iterated /\ latest' = latest
<1>1. CASE Stack!clear
  BY <1>1, clearStep
<1>2. ASSUME NEW e \in Elements, Stack!emplace_back(e)
      PROVE  StackInv' /\ (Stack!Iterated)' = Append(Stack!Iterated, e) /\ latest' = e
  BY <1>2, emplaceStep
<1>3. ASSUME NEW e \in Elements, Stack!newChunk(e)
      PROVE  StackInv' /\ (Stack!Iterated)' = Append(Stack!Iterated, e) /\ latest' = e
  BY <1>3, newChunkStep
<1>4. CASE UNCHANGED stackVars
  BY <1>4, StackSame
<1>5. Stack!clear \/ (\E e \in Elements : Stack!emplace_back(e) \/ Stack!newChunk(e)) \/ UNCHANGED stackVars
  BY DEF StackStep, Stack!Next
<1> QED BY <1>1, <1>2, <1>3, <1>4, <1>5

LEMMA StackOnly == [MCNext /\ UNCHANGED kind]_allVars => StackStep
BY DEF MCNext, allVars, StackStep

LEMMA StackInvariant == MCSpec => []StackInv
<1>1. MCInit => StackInv
  BY StackInit DEF MCInit
<1>2. StackInv /\ [MCNext /\ UNCHANGED kind]_allVars => StackInv'
  BY StackSteps, StackOnly
<1> QED BY <1>1, <1>2, PTL DEF MCSpec

LEMMA StackSound ==
  ASSUME StackInv
  PROVE  Stack!InsideChunks /\ Stack!SizesAgree /\ Stack!TypeOK
<1> DEFINE b == Before
           t == SubSeq(chunks[lastChunk], 1, fill)
<1>1. /\ b \in Seq(Elements) /\ t \in Seq(Elements) /\ Len(t) = fill
      /\ Stack!Iterated = b \o t /\ nrElements = Len(b) /\ fill \in Nat
      /\ chunks[lastChunk] \in Seq(Elements) /\ fill <= Len(chunks[lastChunk])
      /\ lastChunk > 1 => fill > 0
      /\ lastChunk \in Nat \ {0}
  <2>1. fill \in Nat /\ lastChunk \in Nat \ {0}
    BY StackCaps DEF StackInv
  <2> QED BY <2>1, IteratedIs DEF StackInv
<1>2. fill = 0 => t = <<>> /\ (lastChunk = 1 => b = <<>>)
  <2>1. FullChunks(chunks, 0) = <<>>
    BY DEF FullChunks
  <2>2. lastChunk = 1 => Before = <<>>
    BY <2>1, FlattenFacts DEF Before
  <2> QED BY <2>2, <1>1
<1>3. fill > 0 => t[fill] = chunks[lastChunk][fill]
  BY <1>1
<1> HIDE DEF b, t
<1>4. Len(Stack!Iterated) = nrElements + fill
  <2>1. Len(b \o t) = Len(b) + Len(t)
    BY <1>1, JoinFacts
  <2> QED BY <2>1, <1>1
<1>5. (lastChunk = 1 /\ fill = 0) <=> Stack!Iterated = <<>>
  <2>1. ASSUME lastChunk = 1, fill = 0 PROVE Stack!Iterated = <<>>
    BY <2>1, <1>1, <1>2
  <2>2. ASSUME Stack!Iterated = <<>> PROVE lastChunk = 1 /\ fill = 0
    <3>1. Len(Stack!Iterated) = 0
      BY <2>2
    <3> QED BY <3>1, <1>1, <1>4
  <2> QED BY <2>1, <2>2
<1>6. ASSUME nrElements + fill > 0
      PROVE  fill > 0 /\ chunks[lastChunk][fill] = Stack!Iterated[nrElements + fill]
  <2>1. fill > 0
    <3>1. SUFFICES ASSUME fill = 0 PROVE FALSE
      BY <1>1
    <3>2. lastChunk = 1
      BY <3>1, <1>1
    <3>3. Len(b) = 0
      BY <3>1, <3>2, <1>2
    <3> QED BY <3>1, <3>3, <1>1, <1>6
  <2>2. (b \o t)[Len(b) + fill] = t[fill]
    BY <2>1, <1>1, JoinFacts
  <2> QED BY <2>1, <2>2, <1>1, <1>3
<1>7. Stack!SizesAgree
  BY <1>4, <1>5, <1>6 DEF Stack!SizesAgree, Stack!size, Stack!empty
<1>8. Stack!InsideChunks
  BY StackCapacity DEF StackInv, Stack!InsideChunks
<1>9. capacity \in Nat \ {0}
  BY <1>1, StackCaps DEF StackInv
<1>10. Stack!TypeOK
  BY <1>9 DEF StackInv, Stack!TypeOK
<1> QED BY <1>7, <1>8, <1>10

\* Who iterates a runtime::Stack sees the elements pushed since it was last
\* cleared, in that order, and nothing that is left in its chunks from before: the
\* list of chunks implements a sequence that is appended to and emptied.
THEOREM StackRefines == MCSpec => StackAppends
<1>1. MCInit => Stack!AppendOnly!Init
  <2> SUFFICES ASSUME MCInit PROVE Stack!AppendOnly!Init
    OBVIOUS
  <2>1. StackInv /\ Stack!Iterated = <<>>
    BY StackInit DEF MCInit
  <2> QED BY <2>1 DEF StackInv, Stack!AppendOnly!Init
<1>2. StackInv /\ [MCNext /\ UNCHANGED kind]_allVars => [Stack!AppendOnly!Next]_(Stack!AppendOnly!vars)
  <2> SUFFICES ASSUME StackInv, [MCNext /\ UNCHANGED kind]_allVars
               PROVE  [Stack!AppendOnly!Next]_(Stack!AppendOnly!vars)
    OBVIOUS
  <2>1. StackStep
    BY StackOnly
  <2> QED BY <2>1, StackSteps
       DEF Stack!AppendOnly!Next, Stack!AppendOnly!vars, Stack!AppendOnly!Clear, Stack!AppendOnly!Appended
<1> QED BY <1>1, <1>2, StackInvariant, PTL
     DEF MCSpec, StackAppends, Stack!Implements, Stack!AppendOnly!Spec
-----------------------------------------------------------------------------
(* The elements of a sequence that are in a set, in their order. *)

\* f lists what is kept of the first elements of s, up to n of them.
KeptTo(f, s, A, n) ==
  f = [i \in 0 .. n |-> IF i = 0 THEN <<>>
                        ELSE IF s[i] \in A THEN Append(f[i - 1], s[i]) ELSE f[i - 1]]

KeptSeq(s, A) == (CHOOSE f : KeptTo(f, s, A, Len(s)))[Len(s)]

LEMMA KeptExist ==
  ASSUME NEW S, NEW s \in Seq(S), NEW A, NEW n \in Nat, n <= Len(s)
  PROVE  \E f \in [0 .. n -> Seq(S)] : KeptTo(f, s, A, n)
<1> DEFINE P(k) == \E f \in [0 .. k -> Seq(S)] : KeptTo(f, s, A, k)
           T == {k \in 0 .. Len(s) : ~P(k)}
<1>0. Len(s) \in Nat /\ n \in 0 .. Len(s)
  OBVIOUS
<1> HIDE DEF P
<1>1. SUFFICES ASSUME T # {} PROVE FALSE
  <2>1. T = {} => P(n)
    BY <1>0
  <2> QED BY <2>1 DEF P
<1>2. PICK k \in T : \A j \in T : ~(j < k)
  <2>1. T \in SUBSET Nat
    BY <1>0
  <2> QED BY <2>1, <1>1, LeastElement
<1>3. CASE k = 0
  <2> DEFINE f == [i \in 0 .. 0 |-> <<>>]
  <2>1. f \in [0 .. 0 -> Seq(S)]
    OBVIOUS
  <2>2. KeptTo(f, s, A, 0)
    BY DEF KeptTo
  <2> HIDE DEF f
  <2> QED BY <2>1, <2>2, <1>2, <1>3 DEF P
<1>4. CASE k # 0
  <2>1. k - 1 \in 0 .. Len(s) /\ k - 1 \notin T /\ k \in 1 .. Len(s)
    BY <1>0, <1>2, <1>4
  <2>2. PICK f \in [0 .. k - 1 -> Seq(S)] : KeptTo(f, s, A, k - 1)
    BY <2>1 DEF P
  <2>3. s[k] \in S /\ f[k - 1] \in Seq(S)
    BY <2>1, <2>2, ElementOf
  <2> DEFINE v == IF s[k] \in A THEN Append(f[k - 1], s[k]) ELSE f[k - 1]
             g == [i \in 0 .. k |-> IF i = k THEN v ELSE f[i]]
  <2>4. v \in Seq(S)
    BY <2>3
  <2> HIDE DEF v
  <2>5. g \in [0 .. k -> Seq(S)]
    BY <2>2, <2>4, <2>1
  <2>6. \A i \in 0 .. k - 1 : f[i] = IF i = 0 THEN <<>>
                        ELSE IF s[i] \in A THEN Append(f[i - 1], s[i]) ELSE f[i - 1]
    BY <2>2 DEF KeptTo
  <2>7. ASSUME NEW i \in 0 .. k
        PROVE  g[i] = IF i = 0 THEN <<>>
                      ELSE IF s[i] \in A THEN Append(g[i - 1], s[i]) ELSE g[i - 1]
    <3>1. CASE i = k
      <4>1. g[i] = v /\ i # 0 /\ g[i - 1] = f[k - 1]
        BY <3>1, <2>1
      <4> QED BY <4>1, <3>1 DEF v
    <3>2. CASE i # k
      <4>1. i \in 0 .. k - 1 /\ g[i] = f[i]
        BY <3>2, <2>1
      <4>2. i # 0 => i - 1 \in 0 .. k /\ i - 1 # k /\ g[i - 1] = f[i - 1]
        BY <4>1, <2>1
      <4> QED BY <4>1, <4>2, <2>6
    <3> QED BY <3>1, <3>2
  <2>8. KeptTo(g, s, A, k)
    <3>1. g = [i \in 0 .. k |-> g[i]]
      OBVIOUS
    <3> HIDE DEF g
    <3> QED BY <3>1, <2>7 DEF KeptTo
  <2> HIDE DEF g
  <2> QED BY <2>5, <2>8, <1>2 DEF P
<1> QED BY <1>3, <1>4

LEMMA KeptAgree ==
  ASSUME NEW s, NEW t, NEW A, NEW n \in Nat, NEW m \in Nat, NEW f, NEW g,
         KeptTo(f, s, A, n), KeptTo(g, t, A, m), n <= m, SameUpTo(n, s, t)
  PROVE  f[n] = g[n]
<1> DEFINE T == {j \in 0 .. n : f[j] # g[j]}
<1>1. SUFFICES ASSUME T # {} PROVE FALSE
  <2>1. n \in 0 .. n
    OBVIOUS
  <2> QED BY <2>1
<1>2. PICK j \in T : \A k \in T : ~(k < j)
  <2>1. T \in SUBSET Nat
    OBVIOUS
  <2> QED BY <1>1, <2>1, LeastElement
<1>3. j \in 0 .. n /\ j \in 0 .. m
  BY <1>2
<1>4. f[j] = IF j = 0 THEN <<>> ELSE IF s[j] \in A THEN Append(f[j - 1], s[j]) ELSE f[j - 1]
  BY <1>3 DEF KeptTo
<1>5. g[j] = IF j = 0 THEN <<>> ELSE IF t[j] \in A THEN Append(g[j - 1], t[j]) ELSE g[j - 1]
  BY <1>3 DEF KeptTo
<1>6. j # 0 => j - 1 \in 0 .. n /\ j - 1 \notin T /\ s[j] = t[j]
  BY <1>2, <1>3 DEF SameUpTo
<1>7. j # 0 => f[j - 1] = g[j - 1]
  BY <1>6
<1> QED BY <1>2, <1>3, <1>4, <1>5, <1>6, <1>7

LEMMA KeptIs ==
  ASSUME NEW S, NEW s \in Seq(S), NEW A
  PROVE  \E f \in [0 .. Len(s) -> Seq(S)] : KeptTo(f, s, A, Len(s)) /\ KeptSeq(s, A) = f[Len(s)]
<1> DEFINE c == CHOOSE f : KeptTo(f, s, A, Len(s))
<1>0. Len(s) \in Nat /\ Len(s) <= Len(s)
  OBVIOUS
<1>1. PICK f \in [0 .. Len(s) -> Seq(S)] : KeptTo(f, s, A, Len(s))
  BY <1>0, KeptExist
<1>2. KeptTo(c, s, A, Len(s)) /\ KeptSeq(s, A) = c[Len(s)]
  BY <1>1 DEF KeptSeq
<1> HIDE DEF c
<1>3. SameUpTo(Len(s), s, s)
  BY DEF SameUpTo
<1>4. c[Len(s)] = f[Len(s)]
  BY <1>0, <1>1, <1>2, <1>3, KeptAgree
<1> QED BY <1>1, <1>2, <1>4

LEMMA KeptFacts ==
  ASSUME NEW S, NEW A
  PROVE  /\ KeptSeq(<<>>, A) = <<>>
         /\ \A s \in Seq(S) : KeptSeq(s, A) \in Seq(S)
         /\ \A s \in Seq(S), e \in S :
              /\ e \in A => KeptSeq(Append(s, e), A) = Append(KeptSeq(s, A), e)
              /\ e \notin A => KeptSeq(Append(s, e), A) = KeptSeq(s, A)
<1>1. KeptSeq(<<>>, A) = <<>>
  <2>1. <<>> \in Seq(S) /\ Len(<<>>) = 0
    OBVIOUS
  <2>2. PICK f : KeptTo(f, <<>>, A, 0) /\ KeptSeq(<<>>, A) = f[0]
    BY <2>1, KeptIs
  <2> QED BY <2>2 DEF KeptTo
<1>2. ASSUME NEW s \in Seq(S) PROVE KeptSeq(s, A) \in Seq(S)
  <2>1. PICK f \in [0 .. Len(s) -> Seq(S)] : KeptSeq(s, A) = f[Len(s)]
    BY KeptIs
  <2>2. Len(s) \in 0 .. Len(s)
    OBVIOUS
  <2> QED BY <2>1, <2>2
<1>3. ASSUME NEW s \in Seq(S), NEW e \in S
      PROVE  /\ e \in A => KeptSeq(Append(s, e), A) = Append(KeptSeq(s, A), e)
             /\ e \notin A => KeptSeq(Append(s, e), A) = KeptSeq(s, A)
  <2> DEFINE t == Append(s, e)
             n == Len(s)
  <2>1. /\ t \in Seq(S) /\ n \in Nat /\ Len(t) = n + 1
        /\ (\A i \in 1 .. n : t[i] = s[i]) /\ t[n + 1] = e
    OBVIOUS
  <2> HIDE DEF t
  <2>2. PICK g \in [0 .. n + 1 -> Seq(S)] : KeptTo(g, t, A, n + 1) /\ KeptSeq(t, A) = g[n + 1]
    <3>1. \E g \in [0 .. Len(t) -> Seq(S)] : KeptTo(g, t, A, Len(t)) /\ KeptSeq(t, A) = g[Len(t)]
      BY <2>1, KeptIs
    <3> QED BY <3>1, <2>1
  <2>3. PICK f \in [0 .. n -> Seq(S)] : KeptTo(f, s, A, n) /\ KeptSeq(s, A) = f[n]
    BY KeptIs
  <2>4. g[n + 1] = IF t[n + 1] \in A THEN Append(g[n], t[n + 1]) ELSE g[n]
    <3>1. n + 1 \in 0 .. n + 1 /\ n + 1 # 0 /\ (n + 1) - 1 = n
      BY <2>1
    <3> QED BY <3>1, <2>2 DEF KeptTo
  <2>5. f[n] = g[n]
    <3>1. SameUpTo(n, s, t) /\ n <= n + 1 /\ n + 1 \in Nat
      BY <2>1 DEF SameUpTo
    <3> HIDE DEF n
    <3> QED BY <3>1, <2>1, <2>2, <2>3, KeptAgree
  <2> QED BY <2>1, <2>2, <2>3, <2>4, <2>5 DEF t
<1> QED BY <1>1, <1>2, <1>3

LEMMA KeptAppend ==
  ASSUME NEW S, NEW A, NEW s \in Seq(S), NEW e \in S
  PROVE  /\ e \in A => KeptSeq(Append(s, e), A) = Append(KeptSeq(s, A), e)
         /\ e \notin A => KeptSeq(Append(s, e), A) = KeptSeq(s, A)
<1>1. \A t \in Seq(S), d \in S :
        /\ d \in A => KeptSeq(Append(t, d), A) = Append(KeptSeq(t, A), d)
        /\ d \notin A => KeptSeq(Append(t, d), A) = KeptSeq(t, A)
  BY KeptFacts
<1> QED BY <1>1

FrontOf(s) == [i \in 1 .. Len(s) - 1 |-> s[i]]
WithLast(s, d) == [s EXCEPT ![Len(s)] = d]

\* A sequence and what it becomes with another last element.
LEMMA LastSplit ==
  ASSUME NEW S, NEW s \in Seq(S), NEW d \in S, s # <<>>
  PROVE  /\ FrontOf(s) \in Seq(S) /\ Append(FrontOf(s), s[Len(s)]) = s
         /\ WithLast(s, d) = Append(FrontOf(s), d)
<1> DEFINE n == Len(s)
           front == FrontOf(s)
           t == [s EXCEPT ![n] = d]
<1>1. n \in Nat /\ n # 0 /\ n - 1 \in Nat
  OBVIOUS
<1>2. front \in Seq(S) /\ Len(front) = n - 1
  <2>1. \A i \in 1 .. n - 1 : s[i] \in S
    BY <1>1
  <2>2. front \in [1 .. n - 1 -> S]
    BY <2>1 DEF FrontOf
  <2> QED BY <2>2, <1>1
<1>3. \A i \in 1 .. n - 1 : front[i] = s[i]
  BY DEF FrontOf
<1> HIDE DEF front
<1>4. s[n] \in S
  BY <1>1
<1>5. Append(front, s[n]) = s
  BY <1>1, <1>2, <1>3, <1>4
<1>6. t \in Seq(S) /\ Len(t) = n /\ t[n] = d /\ \A i \in 1 .. n - 1 : t[i] = s[i]
  BY <1>1
<1> HIDE DEF t
<1>7. t = Append(front, d)
  BY <1>1, <1>2, <1>3, <1>6
<1> QED BY <1>2, <1>5, <1>7 DEF t, front, WithLast

\* An element that is appended to the last sequence.
LEMMA FlattenLast ==
  ASSUME NEW S, NEW ss \in Seq(Seq(S)), NEW e \in S, ss # <<>>
  PROVE  /\ [ss EXCEPT ![Len(ss)] = Append(@, e)] \in Seq(Seq(S))
         /\ FlattenSeq([ss EXCEPT ![Len(ss)] = Append(@, e)]) = Append(FlattenSeq(ss), e)
<1> DEFINE n == Len(ss)
           c == ss[n]
           d == Append(c, e)
           tt == [ss EXCEPT ![n] = d]
<1>1. n \in 1 .. Len(ss)
  OBVIOUS
<1>2. c \in Seq(S)
  BY <1>1, ElementOf
<1>3. d \in Seq(S)
  BY <1>2
<1> DEFINE front == FrontOf(ss)
<1>4. front \in Seq(Seq(S)) /\ Append(front, c) = ss /\ tt = Append(front, d)
  <2> HIDE DEF d
  <2>1. /\ FrontOf(ss) \in Seq(Seq(S)) /\ Append(FrontOf(ss), ss[Len(ss)]) = ss
        /\ WithLast(ss, d) = Append(FrontOf(ss), d)
    BY <1>3, LastSplit
  <2> QED BY <2>1 DEF WithLast
<1> HIDE DEF c, d, tt, front
<1>6. tt \in Seq(Seq(S))
  BY <1>3, <1>4
<1> DEFINE u == FlattenSeq(front)
<1>7. FlattenSeq(ss) = u \o c /\ FlattenSeq(tt) = u \o d /\ u \in Seq(S)
  <2>1. FlattenSeq(Append(front, c)) = FlattenSeq(front) \o c
    BY <1>2, <1>4, FlattenFacts
  <2>2. FlattenSeq(Append(front, d)) = FlattenSeq(front) \o d /\ FlattenSeq(front) \in Seq(S)
    BY <1>3, <1>4, FlattenFacts
  <2> QED BY <2>1, <2>2, <1>4
<1> HIDE DEF u
<1>8. u \o d = Append(u \o c, e)
  BY <1>7, <1>2, AppendJoins DEF d
<1> QED BY <1>6, <1>7, <1>8 DEF tt, d, c

-----------------------------------------------------------------------------
(* runtime::PartitionedDeque *)

\* Powers multiply.
LEMMA PowerSum == \A a, b \in Nat : power[a + b] = power[a] * power[b]
<1> SUFFICES ASSUME NEW a \in Nat PROVE \A b \in Nat : power[a + b] = power[a] * power[b]
  OBVIOUS
<1> DEFINE T == {b \in Nat : power[a + b] # power[a] * power[b]}
<1>1. SUFFICES ASSUME T # {} PROVE FALSE
  OBVIOUS
<1>2. PICK b \in T : \A c \in T : ~(c < b)
  BY <1>1, LeastElement
<1>3. CASE b = 0
  <2>1. a + b = a /\ power[b] = 1 /\ power[a] \in Nat
    BY <1>3, PowerFacts
  <2> QED BY <2>1, <1>2
<1>4. CASE b # 0
  <2> DEFINE c == b - 1
             x == power[a]
             y == power[c]
  <2>1. c \in Nat /\ c \notin T /\ b = c + 1 /\ a + b = (a + c) + 1 /\ a + c \in Nat
    BY <1>2, <1>4
  <2>2. x \in Nat /\ y \in Nat /\ power[a + c] = x * y
    BY <2>1, PowerFacts
  <2>3. power[b] = 2 * y /\ power[a + b] = 2 * power[a + c]
    BY <2>1, PowerFacts
  <2> HIDE DEF x, y
  <2>4. power[a + b] = 2 * (x * y)
    BY <2>2, <2>3
  <2>5. 2 * (x * y) = x * (2 * y)
    BY <2>2
  <2> QED BY <2>3, <2>4, <2>5, <1>2 DEF x
<1> QED BY <1>3, <1>4

\* Dividing a product.
LEMMA Quotient ==
  ASSUME NEW k \in Nat \ {0}, NEW c \in Nat
  PROVE  /\ (k * c) \div k = c
         /\ \A a \in Nat : a < k * c => a \div k \in 0 .. c - 1
<1>1. (k * c) \div k = c
  OBVIOUS
<1>2. ASSUME NEW a \in Nat, a < k * c PROVE a \div k \in 0 .. c - 1
  <2>1. a \div k \in Nat /\ a = k * (a \div k) + (a % k) /\ (a % k) \in 0 .. k - 1
    OBVIOUS
  <2>2. k * (a \div k) < k * c
    BY <2>1, <1>2
  <2>3. a \div k < c
    BY <2>1, <2>2
  <2> QED BY <2>1, <2>3
<1> QED BY <1>1, <1>2

LEMMA DequePower == Deque!pow = power
BY DEF Deque!pow, power

LEMMA DequeFlatten == \A ss : Deque!FlattenSeq(ss) = FlattenSeq(ss)
BY DEF Deque!FlattenSeq, FlattenSeq

\* The number of partitions is the power of two above the number asked for; the
\* upper bits of a hash, as many as it has, are the number of one of them.
LEMMA DequeSizes ==
  /\ Deque!exp \in 0 .. HashBits
  /\ Deque!capacity \in Nat \ {0}
  /\ power[Deque!shift] \in Nat \ {0}
  /\ power[HashBits] \div Deque!capacity = power[Deque!shift]
  /\ \A h \in Deque!Hashes : h \div power[Deque!shift] \in Deque!Partitions
<1> DEFINE n == Deque!nrPartitions
           T == {e \in 0 .. HashBits : power[e] > n}
<1>1. HashBits \in Nat \ {0} /\ power[HashBits] > n
  BY DequeAssumption, DequePower DEF Deque!SizeAssumption
<1>2. n \in Nat
  BY DequeAssumption DEF Deque!nrPartitions, Deque!WorkersAssumption
<1> HIDE DEF n
<1>3. PICK e \in T : \A d \in T : ~(d < e)
  <2>1. T \in SUBSET Nat /\ HashBits \in T
    BY <1>1
  <2> QED BY <2>1, LeastElement
<1>4. power[e] > n /\ \A d \in 0 .. e - 1 : power[d] <= n
  <2>1. ASSUME NEW d \in 0 .. e - 1 PROVE power[d] <= n
    <3>1. d \in 0 .. HashBits /\ d \notin T /\ d \in Nat
      BY <1>1, <1>3
    <3>2. ~(power[d] > n) /\ power[d] \in Nat
      BY <3>1, PowerFacts
    <3> QED BY <3>2, <1>2
  <2> QED BY <2>1, <1>3
<1>5. Deque!exp \in 0 .. HashBits
  BY <1>3, <1>4, DequePower DEF Deque!exp, n
<1> DEFINE x == Deque!exp
           s == HashBits - x
<1>6. x \in Nat /\ s \in Nat /\ s + x = HashBits
  BY <1>1, <1>5
<1>7. Deque!shift = s /\ Deque!capacity = power[x]
  BY DequePower DEF Deque!shift, Deque!capacity
<1> HIDE DEF x, s
<1>8. power[HashBits] = power[s] * power[x] /\ power[s] \in Nat \ {0} /\ power[x] \in Nat \ {0}
  BY <1>6, PowerSum, PowerFacts
<1>9. power[HashBits] = power[x] * power[s]
  BY <1>8
<1>10. power[HashBits] \div power[x] = power[s]
  BY <1>8, <1>9, Quotient
<1>11. ASSUME NEW h \in Deque!Hashes PROVE h \div power[s] \in 0 .. power[x] - 1
  <2>1. h \in Nat /\ h < power[s] * power[x]
    BY <1>8, DequePower DEF Deque!Hashes
  <2> QED BY <2>1, <1>8, Quotient
<1> QED BY <1>5, <1>7, <1>8, <1>10, <1>11 DEF Deque!Partitions

\* The hashes of partition p.
HashesOf(p) == {h \in Deque!Hashes : h \div power[Deque!shift] = p}

\* The chunks of a partition before its last one are full, current is the fill of
\* the last one; together they hold what was pushed with a hash of the partition.
PartitionInv(p) ==
  /\ partitions[p] \in Seq(Seq(Deque!Hashes))
  /\ current[p] \in 0 .. chunkSize
  /\ \A i \in 1 .. Len(partitions[p]) :
       Len(partitions[p][i]) = IF i = Len(partitions[p]) THEN current[p] ELSE chunkSize
  /\ FlattenSeq(partitions[p]) = KeptSeq(pushed, HashesOf(p))

DequeInv ==
  /\ DOMAIN partitions = Deque!Partitions /\ partitions = [p \in DOMAIN partitions |-> partitions[p]]
  /\ DOMAIN current = Deque!Partitions /\ current = [p \in DOMAIN current |-> current[p]]
  /\ pushed \in Seq(Deque!Hashes)
  /\ \A p \in Deque!Partitions : PartitionInv(p)

LEMMA DequeInit == Deque!Init => DequeInv
<1> SUFFICES ASSUME Deque!Init PROVE DequeInv
  OBVIOUS
<1>1. /\ partitions = [p \in Deque!Partitions |-> <<>>]
      /\ current = [p \in Deque!Partitions |-> 0] /\ pushed = <<>>
  BY DEF Deque!Init
<1>2. chunkSize \in Nat
  BY DequeAssumption DEF Deque!SizeAssumption
<1>3. ASSUME NEW p \in Deque!Partitions PROVE PartitionInv(p)
  <2>1. partitions[p] = <<>> /\ current[p] = 0
    BY <1>1, <1>3
  <2>2. FlattenSeq(<<>>) = KeptSeq(<<>>, HashesOf(p))
    BY FlattenFacts, KeptFacts
  <2>3. <<>> \in Seq(Seq(Deque!Hashes)) /\ Len(<<>>) = 0 /\ 1 .. 0 = {}
    OBVIOUS
  <2> QED BY <2>1, <2>2, <2>3, <1>1, <1>2 DEF PartitionInv
<1>4. pushed \in Seq(Deque!Hashes)
  BY <1>1
<1> QED BY <1>1, <1>3, <1>4 DEF DequeInv

LEMMA PushStep ==
  ASSUME DequeInv, NEW h \in Deque!Hashes, Deque!push_back(h)
  PROVE  DequeInv'
<1> DEFINE q == Deque!PartitionOf(h)
           cs == partitions[q]
<1>1. q \in Deque!Partitions /\ q = h \div power[Deque!shift]
  BY DequeSizes, DequePower DEF Deque!PartitionOf
<1>2. /\ pushed' = Append(pushed, h)
      /\ IF Deque!NeedsChunk(q)
         THEN /\ partitions' = [partitions EXCEPT ![q] = Append(@, <<h>>)]
              /\ current' = [current EXCEPT ![q] = 1]
         ELSE /\ partitions' = [partitions EXCEPT ![q][Len(cs)] = Append(@, h)]
              /\ current' = [current EXCEPT ![q] = @ + 1]
  BY DEF Deque!push_back
<1>3. chunkSize \in Nat \ {0}
  BY DequeAssumption DEF Deque!SizeAssumption
<1>4. /\ DOMAIN partitions = Deque!Partitions /\ DOMAIN current = Deque!Partitions
      /\ pushed \in Seq(Deque!Hashes) /\ PartitionInv(q)
  BY <1>1 DEF DequeInv
<1> HIDE DEF q
<1>5. /\ cs \in Seq(Seq(Deque!Hashes)) /\ current[q] \in 0 .. chunkSize /\ Len(cs) \in Nat
      /\ \A i \in 1 .. Len(cs) : Len(cs[i]) = IF i = Len(cs) THEN current[q] ELSE chunkSize
      /\ FlattenSeq(cs) = KeptSeq(pushed, HashesOf(q))
  <2>1. cs \in Seq(Seq(Deque!Hashes)) /\ current[q] \in 0 .. chunkSize
    BY <1>4, Zenon DEF PartitionInv
  <2>2. \A i \in 1 .. Len(cs) : Len(cs[i]) = IF i = Len(cs) THEN current[q] ELSE chunkSize
    BY <1>4, Zenon DEF PartitionInv
  <2>3. FlattenSeq(cs) = KeptSeq(pushed, HashesOf(q))
    BY <1>4, Zenon DEF PartitionInv
  <2> HIDE DEF cs
  <2>4. Len(cs) \in Nat
    BY <2>1
  <2> QED BY <2>1, <2>2, <2>3, <2>4, Zenon
<1>6. pushed' \in Seq(Deque!Hashes)
  <2>1. pushed' = Append(pushed, h)
    BY <1>2
  <2>2. pushed \in Seq(Deque!Hashes)
    BY <1>4
  <2> QED
    BY <2>1, <2>2
<1>7. h \in HashesOf(q) /\ \A p \in Deque!Partitions \ {q} : h \notin HashesOf(p)
  BY <1>1 DEF HashesOf
<1>8. KeptSeq(pushed', HashesOf(q)) = Append(FlattenSeq(cs), h)
  <2> DEFINE A == HashesOf(q)
  <2>1. h \in A /\ KeptSeq(pushed, A) = FlattenSeq(cs)
    BY <1>5, <1>7
  <2> HIDE DEF A
  <2>0. pushed \in Seq(Deque!Hashes) /\ h \in Deque!Hashes
    BY <1>4
  <2>2. KeptSeq(Append(pushed, h), A) = Append(KeptSeq(pushed, A), h)
    BY <2>0, <2>1, KeptAppend
  <2>3. KeptSeq(Append(pushed, h), A) = Append(FlattenSeq(cs), h)
    BY <2>1, <2>2
  <2>4. KeptSeq(pushed', A) = KeptSeq(Append(pushed, h), A)
    BY <1>2
  <2> QED BY <2>3, <2>4 DEF A
<1>9. ASSUME NEW p \in Deque!Partitions \ {q}
      PROVE  KeptSeq(pushed', HashesOf(p)) = KeptSeq(pushed, HashesOf(p))
  <2> DEFINE A == HashesOf(p)
  <2>1. h \notin A
    BY <1>7
  <2> HIDE DEF A
  <2>0. pushed \in Seq(Deque!Hashes) /\ h \in Deque!Hashes
    BY <1>4
  <2>2. KeptSeq(Append(pushed, h), A) = KeptSeq(pushed, A)
    BY <2>0, <2>1, KeptAppend
  <2>3. KeptSeq(pushed', A) = KeptSeq(Append(pushed, h), A)
    BY <1>2
  <2> QED BY <2>2, <2>3 DEF A
<1>10. /\ DOMAIN partitions' = Deque!Partitions /\ DOMAIN current' = Deque!Partitions
       /\ partitions' = [p \in DOMAIN partitions' |-> partitions'[p]]
       /\ current' = [p \in DOMAIN current' |-> current'[p]]
       /\ \A p \in Deque!Partitions \ {q} : partitions'[p] = partitions[p] /\ current'[p] = current[p]
  BY <1>2, <1>4
<1>11. ASSUME NEW p \in Deque!Partitions \ {q} PROVE PartitionInv(p)'
  <2>1. PartitionInv(p)
    BY DEF DequeInv
  <2> QED BY <2>1, <1>9, <1>10 DEF PartitionInv
<1>12. PartitionInv(q)'
  <2>1. FlattenSeq(cs) \in Seq(Deque!Hashes)
    BY <1>5, FlattenFacts
  <2>2. CASE Deque!NeedsChunk(q)
    <3>1. partitions'[q] = Append(cs, <<h>>) /\ current'[q] = 1
      BY <1>1, <1>2, <1>4, <2>2
    <3>2. <<h>> \in Seq(Deque!Hashes) /\ Len(<<h>>) = 1
      BY SingleFacts
    <3> DEFINE ds == Append(cs, <<h>>)
    <3>3. /\ ds \in Seq(Seq(Deque!Hashes)) /\ Len(ds) = Len(cs) + 1 /\ ds[Len(cs) + 1] = <<h>>
          /\ \A i \in 1 .. Len(cs) : ds[i] = cs[i]
      BY <1>5, <3>2
    <3>4. FlattenSeq(ds) = FlattenSeq(cs) \o <<h>>
      BY <1>5, <3>2, FlattenFacts
    <3>5. FlattenSeq(ds) = Append(FlattenSeq(cs), h)
      BY <2>1, <3>4, SingleFacts
    <3> HIDE DEF ds
    <3>6. cs # <<>> => current[q] = chunkSize
      BY <2>2 DEF Deque!NeedsChunk
    <3>7. ASSUME NEW i \in 1 .. Len(ds)
          PROVE  Len(ds[i]) = IF i = Len(ds) THEN 1 ELSE chunkSize
      <4>1. CASE i = Len(ds)
        BY <4>1, <3>2, <3>3
      <4>2. CASE i # Len(ds)
        <5>1. i \in 1 .. Len(cs) /\ cs # <<>>
          BY <4>2, <3>3, <1>5
        <5> QED BY <5>1, <4>2, <3>3, <3>6, <1>5
      <4> QED BY <4>1, <4>2
    <3>8. partitions'[q] = ds
      BY <3>1 DEF ds
    <3>9. partitions'[q] \in Seq(Seq(Deque!Hashes)) /\ current'[q] \in 0 .. chunkSize
      <4>1. 1 \in 0 .. chunkSize
        BY <1>3
      <4>2. partitions'[q] \in Seq(Seq(Deque!Hashes))
        BY <3>3, <3>8, Zenon
      <4> QED BY <4>1, <4>2, <3>1
    <3>10. \A i \in 1 .. Len(partitions'[q]) :
             Len(partitions'[q][i]) = IF i = Len(partitions'[q]) THEN current'[q] ELSE chunkSize
      BY <3>1, <3>7, <3>8
    <3>11. FlattenSeq(partitions'[q]) = KeptSeq(pushed', HashesOf(q))
      BY <3>5, <3>8, <1>8
    <3> QED BY <3>9, <3>10, <3>11 DEF PartitionInv, HashesOf
  <2>3. CASE ~Deque!NeedsChunk(q)
    <3> DEFINE ds == [cs EXCEPT ![Len(cs)] = Append(@, h)]
    <3>1. cs # <<>> /\ current[q] # chunkSize
      BY <2>3 DEF Deque!NeedsChunk
    <3>2. partitions'[q] = ds /\ current'[q] = current[q] + 1
      BY <1>1, <1>2, <1>4, <2>3
    <3>3. ds \in Seq(Seq(Deque!Hashes)) /\ FlattenSeq(ds) = Append(FlattenSeq(cs), h)
      BY <3>1, <1>5, FlattenLast
    <3>4. Len(cs) \in 1 .. Len(cs) /\ cs[Len(cs)] \in Seq(Deque!Hashes)
      <4>1. Len(cs) \in 1 .. Len(cs)
        BY <3>1, <1>5
      <4> QED BY <4>1, <1>5, ElementOf
    <3>5. Len(ds) = Len(cs)
      BY <1>5, <3>4
    <3>6. ASSUME NEW i \in 1 .. Len(ds)
          PROVE  Len(ds[i]) = IF i = Len(ds) THEN current[q] + 1 ELSE chunkSize
      <4>1. CASE i = Len(ds)
        <5>1. ds[i] = Append(cs[Len(cs)], h)
          BY <4>1, <3>4, <3>5
        <5>2. Len(cs[Len(cs)]) = current[q]
          BY <3>4, <1>5
        <5> QED BY <5>1, <5>2, <3>4, <4>1
      <4>2. CASE i # Len(ds)
        <5>1. ds[i] = cs[i] /\ i \in 1 .. Len(cs) /\ i # Len(cs)
          BY <4>2, <3>5, <3>4
        <5> QED BY <5>1, <4>2, <1>5
      <4> QED BY <4>1, <4>2
    <3>7. current[q] + 1 \in 0 .. chunkSize
      BY <3>1, <1>5, <1>3
    <3> HIDE DEF ds
    <3> QED BY <3>2, <3>3, <3>6, <3>7, <1>8 DEF PartitionInv
  <2> QED BY <2>2, <2>3
<1>13. \A p \in Deque!Partitions : PartitionInv(p)'
  BY <1>11, <1>12
<1> QED BY <1>6, <1>10, <1>13 DEF DequeInv

DequeStep == Deque!Next \/ UNCHANGED dequeVars

LEMMA DequeSteps == DequeInv /\ DequeStep => DequeInv'
<1>1. ASSUME DequeInv, UNCHANGED dequeVars PROVE DequeInv'
  BY <1>1 DEF DequeInv, PartitionInv, dequeVars
<1> QED BY <1>1, PushStep DEF DequeStep, Deque!Next

LEMMA DequeOnly == [MCNext /\ UNCHANGED kind]_allVars => DequeStep
BY DEF MCNext, allVars, DequeStep

LEMMA DequeInvariant == MCSpec => []DequeInv
<1>1. MCInit => DequeInv
  BY DequeInit DEF MCInit
<1>2. DequeInv /\ [MCNext /\ UNCHANGED kind]_allVars => DequeInv'
  BY DequeSteps, DequeOnly
<1> QED BY <1>1, <1>2, PTL DEF MCSpec

LEMMA DequeSound ==
  ASSUME DequeInv
  PROVE  Deque!ReadsAll /\ Deque!TypeOK
<1> SUFFICES /\ \A p \in Deque!Partitions : Deque!Read(p) = Deque!Pushed(p)
             /\ Deque!TypeOK
  BY DEF Deque!ReadsAll
<1>1. ASSUME NEW p \in Deque!Partitions PROVE Deque!Read(p) = Deque!Pushed(p)
  <2> DEFINE cs == partitions[p]
  <2>1. /\ cs \in Seq(Seq(Deque!Hashes)) /\ pushed \in Seq(Deque!Hashes)
        /\ \A i \in 1 .. Len(cs) : Len(cs[i]) = IF i = Len(cs) THEN current[p] ELSE chunkSize
        /\ FlattenSeq(cs) = KeptSeq(pushed, HashesOf(p))
    BY DEF DequeInv, PartitionInv
  <2> DEFINE read == [i \in DOMAIN cs |->
                 [j \in 1 .. Deque!size(p, i) |-> IF j <= Len(cs[i]) THEN cs[i][j] ELSE -1]]
  <2>2. \A i \in DOMAIN cs : cs[i] \in Seq(Deque!Hashes) /\ Deque!size(p, i) = Len(cs[i])
    <3>1. DOMAIN cs = 1 .. Len(cs)
      BY <2>1
    <3> QED BY <3>1, <2>1, ElementOf DEF Deque!size
  <2>3. ASSUME NEW i \in DOMAIN cs PROVE read[i] = cs[i]
    <3>1. cs[i] = [j \in 1 .. Len(cs[i]) |-> cs[i][j]]
      BY <2>2
    <3>2. read[i] = [j \in 1 .. Len(cs[i]) |-> IF j <= Len(cs[i]) THEN cs[i][j] ELSE -1]
      BY <2>2
    <3> QED BY <3>1, <3>2, <2>2
  <2>4. read = cs
    <3>1. cs = [i \in DOMAIN cs |-> cs[i]]
      BY <2>1
    <3> QED BY <3>1, <2>3
  <2>5. Deque!Read(p) = FlattenSeq(cs)
    <3>1. Deque!Read(p) = FlattenSeq(read)
      BY DequeFlatten DEF Deque!Read
    <3> HIDE DEF read
    <3> QED BY <3>1, <2>4
  <2>6. Deque!Pushed(p) = KeptSeq(pushed, HashesOf(p))
    <3> DEFINE A == HashesOf(p)
               d == power[HashBits] \div Deque!capacity
               F(f) == [i \in 0 .. Len(pushed) |->
                          IF i = 0 THEN <<>>
                          ELSE IF pushed[i] \div d = p THEN Append(f[i - 1], pushed[i]) ELSE f[i - 1]]
    <3>1. \A i \in 1 .. Len(pushed) : pushed[i] \div d = p <=> pushed[i] \in A
      BY <2>1, ElementOf, DequeSizes DEF HashesOf
    <3>2. \A f : F(f) = [i \in 0 .. Len(pushed) |->
                          IF i = 0 THEN <<>>
                          ELSE IF pushed[i] \in A THEN Append(f[i - 1], pushed[i]) ELSE f[i - 1]]
      <4>1. Len(pushed) \in Nat
        BY <2>1
      <4> HIDE DEF A, d
      <4> QED BY <3>1, <4>1
    <3>3. Deque!Pushed(p) = (CHOOSE f : f = F(f))[Len(pushed)]
      BY DequePower DEF Deque!Pushed
    <3> HIDE DEF A, F
    <3>4. \A f : f = F(f) <=> KeptTo(f, pushed, A, Len(pushed))
      BY <3>2 DEF KeptTo
    <3>5. (CHOOSE f : f = F(f)) = CHOOSE f : KeptTo(f, pushed, A, Len(pushed))
      BY <3>4
    <3> QED BY <3>3, <3>5 DEF KeptSeq, A
  <2> QED BY <2>1, <2>5, <2>6
<1>2. Deque!TypeOK
  <2>1. ASSUME NEW p \in Deque!Partitions, NEW i \in DOMAIN partitions[p]
        PROVE  Len(partitions[p][i]) <= chunkSize
    <3>1. /\ partitions[p] \in Seq(Seq(Deque!Hashes)) /\ current[p] \in 0 .. chunkSize
          /\ \A k \in 1 .. Len(partitions[p]) :
               Len(partitions[p][k]) = IF k = Len(partitions[p]) THEN current[p] ELSE chunkSize
      BY DEF DequeInv, PartitionInv
    <3>2. DOMAIN partitions[p] = 1 .. Len(partitions[p])
      BY <3>1
    <3>3. chunkSize \in Nat
      BY DequeAssumption DEF Deque!SizeAssumption
    <3> QED BY <3>1, <3>2, <3>3
  <2>2. current \in [Deque!Partitions -> 0 .. chunkSize]
    BY DEF DequeInv, PartitionInv
  <2> QED BY <2>1, <2>2 DEF Deque!TypeOK, DequeInv
<1> QED BY <1>1, <1>2

\* A Stack constructs nothing behind a chunk and agrees on its number of elements;
\* a PartitionedDeque is read, partition by partition, as it was filled.
THEOREM ContainersRight == MCSpec => []ContainersExact
<1>1. StackInv => Stack!InsideChunks /\ Stack!SizesAgree
  BY StackSound
<1>2. DequeInv => Deque!ReadsAll
  BY DequeSound
<1> QED BY <1>1, <1>2, StackInvariant, DequeInvariant, PTL DEF ContainersExact

-----------------------------------------------------------------------------
(* The aggregation of a compiled query: what its tables hold               *)

LEMMA GroupSizes ==
  /\ GroupPartitions \in Nat \ {0}
  /\ partitionOf \in [GroupKeys -> 0 .. GroupPartitions - 1]
  /\ FirstSize \in Nat \ {0} /\ MaxScanned \in Nat \ {0}
<1>1. Compiled!PartitionAssumption /\ Compiled!SizeAssumption
  BY CompiledAssumption
<1> QED
  BY <1>1 DEF Compiled!PartitionAssumption, Compiled!SizeAssumption

LEMMA CompiledPower == Compiled!pow = power
BY DEF Compiled!pow, power

LEMMA PowerExceeds == \A n \in Nat : power[n] > n
<1> DEFINE T == {n \in Nat : ~(power[n] > n)}
<1>1. SUFFICES ASSUME T # {} PROVE FALSE
  OBVIOUS
<1>2. PICK n \in T : \A m \in T : ~(m < n)
  BY <1>1, LeastElement
<1>3. n \in Nat /\ ~(power[n] > n) /\ power[n] \in Nat \ {0}
  BY <1>2, PowerFacts
<1>4. n # 0
  BY <1>3
<1>5. n - 1 \in Nat /\ n - 1 < n
  BY <1>3, <1>4
<1>6. power[n - 1] > n - 1 /\ power[n - 1] \in Nat
  BY <1>2, <1>5, PowerFacts
<1>7. power[n] = 2 * power[n - 1]
  <2>1. power[(n - 1) + 1] = 2 * power[n - 1] /\ (n - 1) + 1 = n
    BY <1>3, <1>5, PowerFacts
  <2> QED BY <2>1
<1> QED
  BY <1>3, <1>5, <1>6, <1>7

\* A table is made for at least the entries it is asked to hold.
LEMMA FillHolds ==
  ASSUME NEW n \in Nat
  PROVE  Compiled!Fill(n) \in Nat /\ Compiled!Fill(n) >= n
<1> DEFINE T == {e \in 1 .. n + 1 : Compiled!Holds(e, n)}
           Least(e) == e \in 1 .. n + 1 /\ Compiled!Holds(e, n) /\ \A d \in 1 .. e - 1 : ~Compiled!Holds(d, n)
<1>1. n + 1 \in T
  <2>1. n + 1 \in Nat /\ power[n + 1] = 2 * power[n] /\ power[n] > n /\ power[n] \in Nat
    BY PowerFacts, PowerExceeds
  <2>2. power[n + 1] > n /\ 7 * power[n + 1] >= 10 * n
    BY <2>1
  <2> QED
    BY <2>1, <2>2, CompiledPower DEF Compiled!Holds
<1>2. PICK e \in T : \A d \in T : ~(d < e)
  <2>1. T \in SUBSET Nat
    OBVIOUS
  <2> QED
    BY <1>1, <2>1, LeastElement
<1>3. \A d \in 1 .. e - 1 : d \in 1 .. n + 1 /\ d < e
  BY <1>2
<1>4. Least(e)
  BY <1>2, <1>3
<1> DEFINE c == CHOOSE d \in 1 .. n + 1 : Compiled!Holds(d, n) /\ \A x \in 1 .. d - 1 : ~Compiled!Holds(x, n)
<1>5. c \in 1 .. n + 1 /\ Compiled!Holds(c, n)
  BY <1>4
<1>6. Compiled!Fill(n) = (7 * Compiled!pow[c]) \div 10
  BY DEF Compiled!Fill, Compiled!Capacity
<1> HIDE DEF c
<1>7. power[c] \in Nat /\ 7 * power[c] >= 10 * n
  BY <1>5, PowerFacts, CompiledPower DEF Compiled!Holds
<1> QED
  BY <1>6, <1>7, CompiledPower

\* An entry is a record with a key and a count.
LEMMA EntryFields ==
  /\ \A e \in Compiled!Entries : e.k \in GroupKeys /\ e.v \in Nat
  /\ \A k \in GroupKeys, v \in Nat :
       [k |-> k, v |-> v] \in Compiled!Entries /\ [k |-> k, v |-> v].k = k /\ [k |-> k, v |-> v].v = v
BY DEF Compiled!Entries

\* A table with its stack: each entry is found, once, and what is found is an entry.
TableFields == {"found", "size", "maxFill", "entries"}
Whole(l) ==
  /\ DOMAIN l = TableFields
  /\ l.entries \in Seq(Compiled!Entries) /\ l.maxFill \in Nat \ {0}
  /\ l.size = Len(l.entries) /\ l.size <= l.maxFill
  /\ DOMAIN l.found \subseteq GroupKeys
  /\ \A k \in DOMAIN l.found : l.found[k] \in DOMAIN l.entries /\ l.entries[l.found[k]].k = k
  /\ \A i \in DOMAIN l.entries : l.entries[i].k \in DOMAIN l.found /\ l.found[l.entries[i].k] = i

\* No entry counts nothing.
Counting(s) == \A i \in DOMAIN s : s[i].v > 0

\* What a table counts for a key
Held(l, k) == IF k \in DOMAIN l.found THEN l.entries[l.found[k]].v ELSE 0

LEMMA HeldNat ==
  ASSUME NEW l, NEW k, Whole(l) PROVE Held(l, k) \in Nat
BY EntryFields, ElementOf DEF Whole, Held

LEMMA SetSizeWhole ==
  ASSUME NEW n \in Nat \ {0}
  PROVE  /\ Whole(Compiled!setSize(n))
         /\ Compiled!setSize(n).maxFill >= n
         /\ Compiled!setSize(n).entries = <<>>
         /\ Compiled!setSize(n).found = <<>>
         /\ Compiled!setSize(n).size = 0
         /\ DOMAIN Compiled!setSize(n) = TableFields
<1> DEFINE l == Compiled!setSize(n)
<1>1. Compiled!Fill(n) \in Nat /\ Compiled!Fill(n) >= n
  BY FillHolds
<1>2. /\ DOMAIN l = TableFields
      /\ l.found = <<>> /\ l.size = 0 /\ l.maxFill = Compiled!Fill(n) /\ l.entries = <<>>
  BY DEF Compiled!setSize, TableFields
<1> HIDE DEF l
<1>3. /\ l.entries \in Seq(Compiled!Entries) /\ Len(l.entries) = 0
      /\ DOMAIN l.entries = {} /\ DOMAIN l.found = {}
  BY <1>2
<1>4. Whole(l) /\ l.maxFill >= n
  BY <1>1, <1>2, <1>3 DEF Whole
<1> QED
  BY <1>2, <1>4 DEF l

LEMMA ClearedWhole ==
  ASSUME NEW l, Whole(l)
  PROVE  /\ Whole(Compiled!Cleared(l))
         /\ Compiled!Cleared(l).entries = <<>>
         /\ Compiled!Cleared(l).size = 0
         /\ \A k : Held(Compiled!Cleared(l), k) = 0
         /\ DOMAIN Compiled!Cleared(l).found = {}
<1> DEFINE c == Compiled!Cleared(l)
<1>1. /\ DOMAIN c = TableFields
      /\ c.found = <<>> /\ c.size = 0 /\ c.maxFill = l.maxFill /\ c.entries = <<>>
  BY DEF Compiled!Cleared, TableFields, Whole
<1> HIDE DEF c
<1>2. /\ c.entries \in Seq(Compiled!Entries) /\ Len(c.entries) = 0
      /\ DOMAIN c.entries = {} /\ DOMAIN c.found = {}
  BY <1>1
<1>3. l.maxFill \in Nat \ {0}
  BY DEF Whole
<1>4. Whole(c)
  BY <1>1, <1>2, <1>3 DEF Whole
<1>5. \A k : Held(c, k) = 0
  BY <1>2 DEF Held
<1> QED
  BY <1>1, <1>2, <1>4, <1>5 DEF c

\* An entry is made for a key that has none.
LEMMA CreateWhole ==
  ASSUME NEW l, NEW k \in GroupKeys, Whole(l), Compiled!IsNew(l, k), l.size < l.maxFill
  PROVE  /\ Whole(Compiled!Create(l, k))
         /\ DOMAIN Compiled!Create(l, k).found = DOMAIN l.found \cup {k}
         /\ Compiled!Create(l, k).entries = Append(l.entries, [k |-> k, v |-> 0])
         /\ \A x : Held(Compiled!Create(l, k), x) = Held(l, x)
<1> DEFINE c == Compiled!Create(l, k)
           n == Len(l.entries) + 1
<1>1. /\ DOMAIN l = TableFields
      /\ l.entries \in Seq(Compiled!Entries) /\ l.maxFill \in Nat \ {0}
      /\ l.size = Len(l.entries)
      /\ DOMAIN l.found \subseteq GroupKeys
      /\ \A x \in DOMAIN l.found : l.found[x] \in DOMAIN l.entries /\ l.entries[l.found[x]].k = x
      /\ \A i \in DOMAIN l.entries : l.entries[i].k \in DOMAIN l.found /\ l.found[l.entries[i].k] = i
  BY DEF Whole
<1>2. k \notin DOMAIN l.found
  BY DEF Compiled!IsNew
<1>3. /\ DOMAIN c = TableFields
      /\ c.found = Compiled!With(l.found, k, n) /\ c.size = l.size + 1 /\ c.maxFill = l.maxFill
      /\ c.entries = Append(l.entries, [k |-> k, v |-> 0])
  BY <1>1 DEF Compiled!Create, TableFields
<1>4. /\ DOMAIN c.found = DOMAIN l.found \cup {k}
      /\ c.found[k] = n
      /\ \A x \in DOMAIN l.found : c.found[x] = l.found[x]
  BY <1>2, <1>3 DEF Compiled!With
<1> HIDE DEF c
<1>5. [k |-> k, v |-> 0] \in Compiled!Entries /\ [k |-> k, v |-> 0].k = k /\ [k |-> k, v |-> 0].v = 0
  BY EntryFields
<1>6. /\ c.entries \in Seq(Compiled!Entries) /\ Len(c.entries) = n /\ n \in Nat
      /\ DOMAIN l.entries = 1 .. n - 1 /\ DOMAIN c.entries = 1 .. n
      /\ c.entries[n] = [k |-> k, v |-> 0]
      /\ \A i \in 1 .. n - 1 : c.entries[i] = l.entries[i]
  BY <1>1, <1>3, <1>5
<1>7. ASSUME NEW x \in DOMAIN c.found
      PROVE  c.found[x] \in DOMAIN c.entries /\ c.entries[c.found[x]].k = x
  <2>1. CASE x = k
    <3>1. c.found[x] = n /\ n \in DOMAIN c.entries
      BY <2>1, <1>4, <1>6
    <3> QED BY <2>1, <3>1, <1>5, <1>6
  <2>2. CASE x # k
    <3>1. x \in DOMAIN l.found /\ c.found[x] = l.found[x]
      BY <2>2, <1>4
    <3>2. l.found[x] \in 1 .. n - 1 /\ l.entries[l.found[x]].k = x
      BY <3>1, <1>1, <1>6
    <3>3. l.found[x] \in 1 .. n
      BY <3>2, <1>6
    <3> QED BY <3>1, <3>2, <3>3, <1>6
  <2> QED BY <2>1, <2>2
<1>8. ASSUME NEW i \in DOMAIN c.entries
      PROVE  c.entries[i].k \in DOMAIN c.found /\ c.found[c.entries[i].k] = i
  <2>1. CASE i = n
    BY <2>1, <1>4, <1>5, <1>6
  <2>2. CASE i # n
    <3>1. i \in DOMAIN l.entries /\ c.entries[i] = l.entries[i]
      BY <2>2, <1>6
    <3> QED BY <3>1, <1>1, <1>4
  <2> QED BY <2>1, <2>2
<1>9. c.size = Len(c.entries) /\ c.size <= c.maxFill
  BY <1>1, <1>3, <1>6
<1>10. Whole(c)
  BY <1>1, <1>3, <1>4, <1>6, <1>7, <1>8, <1>9 DEF Whole
<1>11. ASSUME NEW x PROVE Held(c, x) = Held(l, x)
  <2>1. CASE x = k
    BY <2>1, <1>2, <1>4, <1>5, <1>6 DEF Held
  <2>2. CASE x # k
    BY <2>2, <1>1, <1>4, <1>6 DEF Held
  <2> QED BY <2>1, <2>2
<1> QED
  BY <1>3, <1>4, <1>10, <1>11 DEF c

\* An entry that is there is updated.
LEMMA UpdateWhole ==
  ASSUME NEW l, NEW k \in DOMAIN l.found, NEW v \in Nat, Whole(l)
  PROVE  /\ Whole(Compiled!update(l, k, v))
         /\ DOMAIN Compiled!update(l, k, v).found = DOMAIN l.found
         /\ Compiled!update(l, k, v).size = l.size
         /\ \A x : Held(Compiled!update(l, k, v), x) = IF x = k THEN Held(l, k) + v ELSE Held(l, x)
         /\ (\A i \in DOMAIN l.entries : l.entries[i].v > 0 \/ l.entries[i].k = k) /\ v > 0 =>
              Counting(Compiled!update(l, k, v).entries)
<1> DEFINE c == Compiled!update(l, k, v)
           p == l.found[k]
           e == [k |-> k, v |-> l.entries[p].v + v]
<1>1. /\ DOMAIN l = TableFields
      /\ l.entries \in Seq(Compiled!Entries) /\ l.maxFill \in Nat \ {0}
      /\ l.size = Len(l.entries) /\ l.size <= l.maxFill
      /\ DOMAIN l.found \subseteq GroupKeys
      /\ \A x \in DOMAIN l.found : l.found[x] \in DOMAIN l.entries /\ l.entries[l.found[x]].k = x
      /\ \A i \in DOMAIN l.entries : l.entries[i].k \in DOMAIN l.found /\ l.found[l.entries[i].k] = i
  BY DEF Whole
<1>2. p \in DOMAIN l.entries /\ l.entries[p].k = k /\ l.entries[p] \in Compiled!Entries
  BY <1>1
<1>3. l.entries[p].v \in Nat
  BY <1>2, EntryFields
<1>4. c = [l EXCEPT !.entries = [l.entries EXCEPT ![p] = e]]
  BY DEF Compiled!update
<1>6. e \in Compiled!Entries /\ e.k = k /\ e.v = l.entries[p].v + v
  <2>1. k \in GroupKeys /\ l.entries[p].v + v \in Nat
    BY <1>1, <1>3
  <2> QED
    BY <2>1, EntryFields
<1> HIDE DEF e
<1>5. /\ DOMAIN c = TableFields
      /\ c.found = l.found /\ c.size = l.size /\ c.maxFill = l.maxFill
      /\ c.entries = [l.entries EXCEPT ![p] = e]
  BY <1>1, <1>4 DEF TableFields
<1> HIDE DEF c
<1>7. /\ c.entries \in Seq(Compiled!Entries) /\ Len(c.entries) = Len(l.entries)
      /\ DOMAIN c.entries = DOMAIN l.entries
      /\ c.entries[p] = e
      /\ \A i \in DOMAIN l.entries : i # p => c.entries[i] = l.entries[i]
  BY <1>1, <1>2, <1>5, <1>6
<1>8. \A i \in DOMAIN l.entries : c.entries[i].k = l.entries[i].k
  BY <1>2, <1>6, <1>7
<1>9. Whole(c)
  <2>1. /\ c.size = Len(c.entries) /\ c.size <= c.maxFill /\ c.maxFill \in Nat \ {0}
        /\ DOMAIN c.found \subseteq GroupKeys
    BY <1>1, <1>5, <1>7
  <2>2. \A x \in DOMAIN c.found : c.found[x] \in DOMAIN c.entries /\ c.entries[c.found[x]].k = x
    BY <1>1, <1>5, <1>7, <1>8
  <2>3. \A i \in DOMAIN c.entries : c.entries[i].k \in DOMAIN c.found /\ c.found[c.entries[i].k] = i
    BY <1>1, <1>5, <1>7, <1>8
  <2> QED
    BY <1>5, <1>7, <2>1, <2>2, <2>3 DEF Whole
<1>10. ASSUME NEW x PROVE Held(c, x) = IF x = k THEN Held(l, k) + v ELSE Held(l, x)
  <2>1. CASE x = k
    BY <2>1, <1>5, <1>6, <1>7 DEF Held
  <2>2. CASE x # k /\ x \in DOMAIN l.found
    <3>1. l.found[x] # p /\ l.found[x] \in DOMAIN l.entries
      BY <2>2, <1>1, <1>2
    <3> QED BY <2>2, <3>1, <1>5, <1>7 DEF Held
  <2>3. CASE x # k /\ x \notin DOMAIN l.found
    BY <2>3, <1>5 DEF Held
  <2> QED BY <2>1, <2>2, <2>3
<1>11. ASSUME \A i \in DOMAIN l.entries : l.entries[i].v > 0 \/ l.entries[i].k = k, v > 0
       PROVE  Counting(c.entries)
  <2>1. ASSUME NEW i \in DOMAIN c.entries PROVE c.entries[i].v > 0
    <3>1. CASE i = p
      BY <3>1, <1>3, <1>6, <1>7, <1>11
    <3>2. CASE i # p
      <4>1. i \in DOMAIN l.entries /\ c.entries[i] = l.entries[i]
        BY <3>2, <1>7
      <4>2. l.entries[i].k # k
        BY <3>2, <4>1, <1>1
      <4> QED BY <4>1, <4>2, <1>11
    <3> QED BY <3>1, <3>2
  <2> QED BY <2>1 DEF Counting
<1> QED
  BY <1>5, <1>9, <1>10, <1>11 DEF c

\* A table is enlarged: it holds the same groups.
LEMMA GrowWhole ==
  ASSUME NEW l, Whole(l), l.size > 0
  PROVE  /\ Whole(Compiled!grow(l))
         /\ DOMAIN Compiled!grow(l).found = DOMAIN l.found
         /\ Compiled!grow(l).entries = l.entries
         /\ Compiled!grow(l).size < Compiled!grow(l).maxFill
         /\ \A x : Held(Compiled!grow(l), x) = Held(l, x)
<1> DEFINE c == Compiled!grow(l)
           n == 2 * l.size
<1>1. /\ DOMAIN l = TableFields
      /\ l.entries \in Seq(Compiled!Entries)
      /\ l.size = Len(l.entries)
      /\ DOMAIN l.found \subseteq GroupKeys
      /\ \A x \in DOMAIN l.found : l.found[x] \in DOMAIN l.entries /\ l.entries[l.found[x]].k = x
      /\ \A i \in DOMAIN l.entries : l.entries[i].k \in DOMAIN l.found /\ l.found[l.entries[i].k] = i
  BY DEF Whole
<1>2. n \in Nat \ {0} /\ l.size \in Nat /\ l.size < n
  BY <1>1
<1>3. /\ Compiled!setSize(n).maxFill >= n /\ Compiled!setSize(n).maxFill \in Nat \ {0}
      /\ DOMAIN Compiled!setSize(n) = TableFields
  BY <1>2, SetSizeWhole DEF Whole
<1>4. /\ DOMAIN c = TableFields
      /\ c.found = Compiled!insertAll(l.entries) /\ c.size = Len(l.entries)
      /\ c.maxFill = Compiled!setSize(n).maxFill /\ c.entries = l.entries
  <2> DEFINE s == Compiled!setSize(n)
  <2>1. c = [s EXCEPT !.entries = l.entries, !.found = Compiled!insertAll(l.entries), !.size = Len(l.entries)]
    BY DEF Compiled!grow
  <2>2. DOMAIN s = TableFields
    BY <1>3
  <2> HIDE DEF s, c
  <2>3. /\ DOMAIN c = TableFields
        /\ c.found = Compiled!insertAll(l.entries) /\ c.size = Len(l.entries)
        /\ c.maxFill = s.maxFill /\ c.entries = l.entries
    BY <2>1, <2>2 DEF TableFields
  <2> QED BY <2>3 DEF s
<1> HIDE DEF c, n
<1>5. DOMAIN c.found = DOMAIN l.found
  <2>1. DOMAIN c.found = {l.entries[i].k : i \in DOMAIN l.entries}
    BY <1>4 DEF Compiled!insertAll
  <2>2. ASSUME NEW x \in DOMAIN l.found PROVE x \in {l.entries[i].k : i \in DOMAIN l.entries}
    <3>1. l.found[x] \in DOMAIN l.entries /\ l.entries[l.found[x]].k = x
      BY <1>1
    <3> QED BY <3>1, Zenon
  <2>3. \A i \in DOMAIN l.entries : l.entries[i].k \in DOMAIN l.found
    BY <1>1
  <2> QED BY <2>1, <2>2, <2>3, Zenon
<1>6. ASSUME NEW x \in DOMAIN l.found PROVE c.found[x] = l.found[x]
  <2> DEFINE Latest(i) == /\ l.entries[i].k = x
                        /\ \A j \in DOMAIN l.entries : l.entries[j].k = x => j <= i
  <2>1. c.found[x] = CHOOSE i \in DOMAIN l.entries : Latest(i)
    BY <1>4, <1>5 DEF Compiled!insertAll
  <2>2. l.found[x] \in DOMAIN l.entries /\ l.entries[l.found[x]].k = x
    BY <1>1
  <2>3. \A j \in DOMAIN l.entries : l.entries[j].k = x => j = l.found[x]
    BY <1>1
  <2>4. l.found[x] <= l.found[x]
    BY <2>2, <1>1
  <2>5. Latest(l.found[x])
    BY <2>2, <2>3, <2>4
  <2>6. \A i \in DOMAIN l.entries : Latest(i) => i = l.found[x]
    BY <2>3
  <2> HIDE DEF Latest
  <2> QED
    BY <2>1, <2>2, <2>5, <2>6
<1>7. c.size <= c.maxFill /\ c.size < c.maxFill /\ c.maxFill \in Nat \ {0}
  BY <1>1, <1>2, <1>3, <1>4
<1>8. Whole(c)
  BY <1>1, <1>4, <1>5, <1>6, <1>7 DEF Whole
<1>9. \A x : Held(c, x) = Held(l, x)
  BY <1>4, <1>5, <1>6 DEF Held
<1> QED
  BY <1>4, <1>5, <1>7, <1>8, <1>9 DEF c
\* What consume and the merge add to the table: the count of the key, and no other.
LEMMA AddedWhole ==
  ASSUME NEW l, NEW k \in GroupKeys, NEW v \in Nat \ {0}, NEW l2, Whole(l), Counting(l.entries),
         Compiled!IsNew(l, k) => l.size < l.maxFill,
         l2 = Compiled!update(IF Compiled!IsNew(l, k) THEN Compiled!Create(l, k) ELSE l, k, v)
  PROVE  /\ Whole(l2) /\ Counting(l2.entries)
         /\ DOMAIN l2.found = DOMAIN l.found \cup {k}
         /\ Held(l2, k) = Held(l, k) + v
         /\ \A x : x # k => Held(l2, x) = Held(l, x)
<1> DEFINE l1 == IF Compiled!IsNew(l, k) THEN Compiled!Create(l, k) ELSE l
<1>1. /\ Whole(l1) /\ DOMAIN l1.found = DOMAIN l.found \cup {k}
      /\ \A x : Held(l1, x) = Held(l, x)
  <2>1. CASE Compiled!IsNew(l, k)
    BY <2>1, CreateWhole
  <2>2. CASE ~Compiled!IsNew(l, k)
    BY <2>2 DEF Compiled!IsNew
  <2> QED BY <2>1, <2>2
<1>2. \A i \in DOMAIN l1.entries : l1.entries[i].v > 0 \/ l1.entries[i].k = k
  <2>1. CASE Compiled!IsNew(l, k)
    <3>1. l1.entries = Append(l.entries, [k |-> k, v |-> 0])
      BY <2>1, CreateWhole
    <3>2. l.entries \in Seq(Compiled!Entries) /\ [k |-> k, v |-> 0].k = k
      BY DEF Whole
    <3>3. \A i \in DOMAIN l.entries : l.entries[i].v > 0
      BY DEF Counting
    <3> DEFINE e == [k |-> k, v |-> 0]
    <3>4. e.k = k
      OBVIOUS
    <3> HIDE DEF l1, e
    <3> QED
      BY <3>1, <3>2, <3>3, <3>4 DEF e
  <2>2. CASE ~Compiled!IsNew(l, k)
    BY <2>2 DEF Counting
  <2> QED BY <2>1, <2>2
<1>3. l2 = Compiled!update(l1, k, v)
  OBVIOUS
<1>4. k \in DOMAIN l1.found /\ v \in Nat /\ v > 0
  BY <1>1
<1> HIDE DEF l1
<1>5. Whole(l2) /\ DOMAIN l2.found = DOMAIN l1.found
  <2>1. Whole(Compiled!update(l1, k, v))
    BY <1>1, <1>4, UpdateWhole
  <2>2. DOMAIN Compiled!update(l1, k, v).found = DOMAIN l1.found
    BY <1>1, <1>4, UpdateWhole
  <2> QED
    BY <1>3, <2>1, <2>2
<1>6. \A x : Held(l2, x) = IF x = k THEN Held(l1, k) + v ELSE Held(l1, x)
  BY <1>1, <1>3, <1>4, UpdateWhole
<1>7. Counting(l2.entries)
  BY <1>1, <1>2, <1>3, <1>4, UpdateWhole
<1> QED
  BY <1>1, <1>5, <1>6, <1>7

\* A row is consumed, in a table with room or in the cleared one.
LEMMA ConsumeWhole ==
  ASSUME NEW l, NEW k \in GroupKeys, NEW b, NEW l2, Whole(l), Counting(l.entries),
         b = IF Compiled!MustSpill(l, k) THEN Compiled!Cleared(l) ELSE l,
         l2 = Compiled!Consume(l, k)
  PROVE  /\ Whole(l2) /\ Counting(l2.entries)
         /\ Held(l2, k) = Held(b, k) + 1
         /\ \A x : x # k => Held(l2, x) = Held(b, x)
<1>1. l2 = Compiled!update(IF Compiled!IsNew(b, k) THEN Compiled!Create(b, k) ELSE b, k, 1)
  BY DEF Compiled!Consume
<1>2. Whole(b) /\ Counting(b.entries) /\ (Compiled!IsNew(b, k) => b.size < b.maxFill)
  <2>1. CASE Compiled!MustSpill(l, k)
    <3>1. Whole(b) /\ b.entries = <<>> /\ b.size = 0
      BY <2>1, ClearedWhole
    <3>2. Counting(b.entries)
      BY <3>1 DEF Counting
    <3> QED
      BY <3>1, <3>2 DEF Whole
  <2>2. CASE ~Compiled!MustSpill(l, k)
    BY <2>2 DEF Compiled!MustSpill, Whole
  <2> QED BY <2>1, <2>2
<1> QED
  BY <1>1, <1>2, AddedWhole

\* An entry is merged, in a table that is enlarged when it is full.
LEMMA AddWhole ==
  ASSUME NEW l, NEW e \in Compiled!Entries, NEW l2, Whole(l), Counting(l.entries),
         e.v > 0, l2 = Compiled!Add(l, e)
  PROVE  /\ Whole(l2) /\ Counting(l2.entries)
         /\ DOMAIN l2.found = DOMAIN l.found \cup {e.k}
         /\ Held(l2, e.k) = Held(l, e.k) + e.v
         /\ \A x : x # e.k => Held(l2, x) = Held(l, x)
<1> DEFINE g == IF Compiled!MustSpill(l, e.k) THEN Compiled!grow(l) ELSE l
<1>1. l2 = Compiled!update(IF Compiled!IsNew(g, e.k) THEN Compiled!Create(g, e.k) ELSE g, e.k, e.v)
  BY DEF Compiled!Add
<1>2. /\ Whole(g) /\ Counting(g.entries) /\ (Compiled!IsNew(g, e.k) => g.size < g.maxFill)
      /\ DOMAIN g.found = DOMAIN l.found
      /\ \A x : Held(g, x) = Held(l, x)
  <2>1. CASE Compiled!MustSpill(l, e.k)
    <3>1. l.size > 0
      BY <2>1 DEF Compiled!MustSpill, Whole
    <3> QED
      BY <2>1, <3>1, GrowWhole
  <2>2. CASE ~Compiled!MustSpill(l, e.k)
    BY <2>2 DEF Compiled!MustSpill, Whole
  <2> QED BY <2>1, <2>2
<1>3. e.k \in GroupKeys /\ e.v \in Nat \ {0}
  BY EntryFields
<1> HIDE DEF g
<1>4. /\ Whole(l2) /\ Counting(l2.entries)
      /\ DOMAIN l2.found = DOMAIN g.found \cup {e.k}
      /\ Held(l2, e.k) = Held(g, e.k) + e.v
      /\ \A x : x # e.k => Held(l2, x) = Held(g, x)
  BY <1>1, <1>2, <1>3, AddedWhole
<1> QED
  BY <1>2, <1>4

-----------------------------------------------------------------------------
(* The rows a family of counts stands for                                  *)

Units(h) == {w \in (DOMAIN h) \X Nat : w[2] \in 1 .. h[w[1]]}

\* One count of the family is raised.
LEMMA UnitsRaised ==
  ASSUME NEW D, NEW h \in [D -> Nat], IsFiniteSet(Units(h)), NEW x \in D, NEW d \in Nat,
         NEW h2 \in [D -> Nat], h2[x] = h[x] + d, \A y \in D : y # x => h2[y] = h[y]
  PROVE  IsFiniteSet(Units(h2)) /\ Cardinality(Units(h2)) = Cardinality(Units(h)) + d
<1> DEFINE a == h[x]
           I == a + 1 .. a + d
           B == {<<x, n>> : n \in I}
           f == [n \in I |-> <<x, n>>]
<1>1. a \in Nat /\ h2 \in [D -> Nat] /\ h2[x] = a + d /\ \A y \in D : y # x => h2[y] = h[y]
  OBVIOUS
<1>2. Units(h2) = Units(h) \cup B
  <2>1. ASSUME NEW w \in Units(h2) PROVE w \in Units(h) \cup B
    <3>1. w = <<w[1], w[2]>> /\ w[1] \in D /\ w[2] \in Nat /\ w[2] \in 1 .. h2[w[1]]
      BY <1>1 DEF Units
    <3>2. CASE w[1] = x /\ w[2] > a
      <4>1. w[2] \in I
        BY <1>1, <3>1, <3>2
      <4> QED BY <3>1, <3>2, <4>1
    <3>3. CASE ~(w[1] = x /\ w[2] > a)
      <4>1. w[2] \in 1 .. h[w[1]]
        BY <1>1, <3>1, <3>3
      <4> QED BY <3>1, <4>1 DEF Units
    <3> QED BY <3>2, <3>3
  <2>2. ASSUME NEW w \in Units(h) PROVE w \in Units(h2)
    <3>1. w = <<w[1], w[2]>> /\ w[1] \in D /\ w[2] \in Nat /\ w[2] \in 1 .. h[w[1]]
      BY DEF Units
    <3>2. w[2] \in 1 .. h2[w[1]]
      BY <1>1, <3>1
    <3> QED BY <1>1, <3>1, <3>2 DEF Units
  <2>3. ASSUME NEW n \in I PROVE <<x, n>> \in Units(h2)
    <3>1. n \in Nat /\ n \in 1 .. h2[x]
      BY <1>1, <2>3
    <3> QED BY <1>1, <3>1 DEF Units
  <2> QED BY <2>1, <2>2, <2>3
<1>3. Units(h) \cap B = {}
  BY <1>1 DEF Units
<1>4. IsFiniteSet(B) /\ Cardinality(B) = d
  <2>1. IsFiniteSet(I) /\ Cardinality(I) = d
    <3>1. a + 1 \in Int /\ a + d \in Int /\ (a + 1 > a + d => d = 0) /\ (a + d) - (a + 1) + 1 = d
      BY <1>1
    <3> QED BY <3>1, FS_Interval
  <2>2. f \in [I -> B] /\ \A b \in B : \E n \in I : f[n] = b
    OBVIOUS
  <2>3. \A n, m \in I : f[n] = f[m] => n = m
    OBVIOUS
  <2> HIDE DEF I, B, f
  <2>4. ExistsBijection(I, B)
    BY <2>2, <2>3, Fun_IsBij DEF ExistsBijection
  <2> QED
    BY <2>1, <2>4, FS_Bijection
<1> HIDE DEF B
<1>5. Cardinality(Units(h)) \in Nat
  BY FS_CardinalityType
<1> QED
  <2>1. /\ IsFiniteSet(Units(h) \cup B)
        /\ Cardinality(Units(h) \cup B) =
             Cardinality(Units(h)) + Cardinality(B) - Cardinality(Units(h) \cap B)
    BY <1>4, FS_Union
  <2>2. Cardinality(Units(h) \cap B) = 0
    BY <1>3, FS_EmptySet
  <2>3. Cardinality(Units(h)) + Cardinality(B) - Cardinality(Units(h) \cap B) = Cardinality(Units(h)) + d
    BY <1>4, <1>5, <2>2
  <2> QED
    BY <1>2, <2>1, <2>3

\* A count goes from one member of the family to another, which had none.
LEMMA UnitsMoved ==
  ASSUME NEW D, NEW h \in [D -> Nat], IsFiniteSet(Units(h)),
         NEW x \in D, NEW y \in D, x # y, h[y] = 0,
         NEW h2 \in [D -> Nat], h2[x] = 0, h2[y] = h[x], \A z \in D : z # x /\ z # y => h2[z] = h[z]
  PROVE  IsFiniteSet(Units(h2)) /\ Cardinality(Units(h2)) = Cardinality(Units(h))
<1> DEFINE h0 == [h EXCEPT ![x] = 0]
<1>1. h0 \in [D -> Nat] /\ h0[x] = 0 /\ h0[y] = 0 /\ \A z \in D : z # x => h0[z] = h[z]
  OBVIOUS
<1> HIDE DEF h0
<1>2. IsFiniteSet(Units(h0))
  <2>1. Units(h0) \subseteq Units(h)
    BY <1>1 DEF Units
  <2> QED BY <2>1, FS_Subset
<1>3. PICK d \in Nat : d = h[x]
  OBVIOUS
<1>4. h[x] = h0[x] + d /\ \A z \in D : z # x => h[z] = h0[z]
  BY <1>1, <1>3
<1>5. h2[y] = h0[y] + d /\ \A z \in D : z # y => h2[z] = h0[z]
  BY <1>1, <1>3
<1>6. Cardinality(Units(h)) = Cardinality(Units(h0)) + d
  BY <1>1, <1>2, <1>4, UnitsRaised
<1>7. IsFiniteSet(Units(h2)) /\ Cardinality(Units(h2)) = Cardinality(Units(h0)) + d
  BY <1>1, <1>2, <1>5, UnitsRaised
<1> QED
  BY <1>6, <1>7

\* Families with the same counts
LEMMA UnitsSame ==
  ASSUME NEW D, NEW h \in [D -> Nat], IsFiniteSet(Units(h)),
         NEW h2 \in [D -> Nat], \A x \in D : h2[x] = h[x]
  PROVE  IsFiniteSet(Units(h2)) /\ Cardinality(Units(h2)) = Cardinality(Units(h))
<1>1. h2 = h
  OBVIOUS
<1> QED
  BY <1>1

LEMMA UnitsNone ==
  ASSUME NEW D, NEW h \in [D -> Nat], \A x \in D : h[x] = 0
  PROVE  IsFiniteSet(Units(h)) /\ Cardinality(Units(h)) = 0
<1>1. Units(h) = {}
  BY DEF Units
<1> QED
  BY <1>1, FS_EmptySet

\* g is f, with v for x.
Replaces(g, f, x, v) ==
  DOMAIN g = DOMAIN f \cup {x} /\ g[x] = v /\ \A y \in DOMAIN f : y # x => g[y] = f[y]

LEMMA WithReplaces == \A f, x, v : Replaces(Compiled!With(f, x, v), f, x, v)
BY DEF Compiled!With, Replaces

\* What entry i of the storage of t counts for a key
StoredAt(deq, k, t, i) ==
  IF t \in DOMAIN deq /\ i \in DOMAIN deq[t] /\ deq[t][i].k = k THEN deq[t][i].v ELSE 0

\* What the table of t counts for a key, if it is not spilled yet
CountOf(k, unspilled, loc, t) == IF t \in unspilled THEN Held(loc[t], k) ELSE 0

\* Where the rows of a key are: in the tables that are not spilled yet, one at the place
\* 0 of each thread, and in the entries of the storages.
Weight(k, unspilled, loc, deq) ==
  [x \in Threads \X Nat |->
     IF x[2] = 0 THEN CountOf(k, unspilled, loc, x[1]) ELSE StoredAt(deq, k, x[1], x[2])]

\* What was merged of them
MergedWeight(k, deq, done) ==
  [x \in Threads \X Nat |-> IF x \in done THEN StoredAt(deq, k, x[1], x[2]) ELSE 0]

Tables(loc) ==
  DOMAIN loc \subseteq Threads /\ \A t \in DOMAIN loc : Whole(loc[t]) /\ Counting(loc[t].entries)
Storages(deq) ==
  DOMAIN deq \subseteq Threads /\ \A t \in DOMAIN deq : deq[t] \in Seq(Compiled!Entries) /\ Counting(deq[t])

LEMMA StoredNat ==
  ASSUME NEW deq, NEW k, NEW t, NEW i, Storages(deq)
  PROVE  StoredAt(deq, k, t, i) \in Nat /\ StoredAt(deq, k, t, 0) = 0
<1>1. ASSUME NEW j, t \in DOMAIN deq, j \in DOMAIN deq[t]
      PROVE  deq[t][j].v \in Nat /\ j # 0
  <2>1. deq[t] \in Seq(Compiled!Entries)
    BY <1>1 DEF Storages
  <2>2. j \in 1 .. Len(deq[t])
    BY <1>1, <2>1
  <2>3. deq[t][j] \in Compiled!Entries
    BY <2>1, <2>2, ElementOf
  <2> QED
    BY <2>2, <2>3, EntryFields
<1> QED
  BY <1>1 DEF StoredAt

\* h is such a family of counts.
Weighs(h, k, un, loc, deq) ==
  /\ h \in [Threads \X Nat -> Nat]
  /\ \A t \in Threads : h[<<t, 0>>] = CountOf(k, un, loc, t)
  /\ \A t \in Threads : \A i \in Nat \ {0} : h[<<t, i>>] = StoredAt(deq, k, t, i)

LEMMA WeightFacts ==
  ASSUME NEW k, NEW loc, NEW deq, NEW un, Tables(loc), Storages(deq), un \subseteq DOMAIN loc
  PROVE  Weighs(Weight(k, un, loc, deq), k, un, loc, deq)
<1>1. \A t : CountOf(k, un, loc, t) \in Nat
  BY HeldNat DEF Tables, CountOf
<1>2. \A t, i : StoredAt(deq, k, t, i) \in Nat
  BY StoredNat
<1> DEFINE h == Weight(k, un, loc, deq)
<1>3. h \in [Threads \X Nat -> Nat]
  BY <1>1, <1>2 DEF Weight
<1>4. \A t \in Threads : h[<<t, 0>>] = CountOf(k, un, loc, t)
  BY DEF Weight
<1>5. \A t \in Threads : \A i \in Nat \ {0} : h[<<t, i>>] = StoredAt(deq, k, t, i)
  BY DEF Weight
<1> HIDE DEF h
<1>6. Weighs(h, k, un, loc, deq)
  BY <1>3, <1>4, <1>5 DEF Weighs
<1> QED
  BY <1>6 DEF h

LEMMA MergedWeightFacts ==
  ASSUME NEW k, NEW deq, NEW done, Storages(deq)
  PROVE  /\ MergedWeight(k, deq, done) \in [Threads \X Nat -> Nat]
         /\ \A t \in Threads, i \in Nat :
              MergedWeight(k, deq, done)[<<t, i>>] = IF <<t, i>> \in done THEN StoredAt(deq, k, t, i) ELSE 0
<1>1. \A t, i : StoredAt(deq, k, t, i) \in Nat
  BY StoredNat
<1> QED
  BY <1>1 DEF MergedWeight

\* Two families agree where neither the table nor the entry of a place differs.
LEMMA WeighsSame ==
  ASSUME NEW h, NEW k, NEW un, NEW loc, NEW deq, NEW h2, NEW un2, NEW loc2, NEW deq2,
         NEW y \in Threads \X Nat,
         Weighs(h, k, un, loc, deq), Weighs(h2, k, un2, loc2, deq2),
         \A t \in Threads : y = <<t, 0>> => CountOf(k, un2, loc2, t) = CountOf(k, un, loc, t),
         \A t \in Threads : \A i \in Nat \ {0} :
           y = <<t, i>> => StoredAt(deq2, k, t, i) = StoredAt(deq, k, t, i)
  PROVE  h2[y] = h[y]
<1>1. PICK t \in Threads, i \in Nat : y = <<t, i>>
  OBVIOUS
<1>2. CASE i = 0
  <2>1. h2[<<t, 0>>] = CountOf(k, un2, loc2, t) /\ h[<<t, 0>>] = CountOf(k, un, loc, t)
    BY DEF Weighs
  <2> QED
    BY <1>1, <1>2, <2>1
<1>3. CASE i # 0
  <2>1. h2[<<t, i>>] = StoredAt(deq2, k, t, i) /\ h[<<t, i>>] = StoredAt(deq, k, t, i)
    BY <1>3 DEF Weighs
  <2> QED
    BY <1>1, <1>3, <2>1
<1> QED
  BY <1>2, <1>3

\* A table counts more rows, or is made.
LEMMA TableRaises ==
  ASSUME NEW k, NEW loc, NEW deq, NEW un, NEW t \in Threads, NEW l2, NEW d \in Nat, NEW loc2,
         Tables(loc), Storages(deq), un \subseteq DOMAIN loc, Whole(l2), Counting(l2.entries),
         Held(l2, k) = CountOf(k, un, loc, t) + d, Replaces(loc2, loc, t, l2),
         IsFiniteSet(Units(Weight(k, un, loc, deq)))
  PROVE  /\ Tables(loc2) /\ un \cup {t} \subseteq DOMAIN loc2
         /\ IsFiniteSet(Units(Weight(k, un \cup {t}, loc2, deq)))
         /\ Cardinality(Units(Weight(k, un \cup {t}, loc2, deq)))
              = Cardinality(Units(Weight(k, un, loc, deq))) + d
<1>1. Tables(loc2) /\ un \cup {t} \subseteq DOMAIN loc2
  BY DEF Tables, Replaces
<1>2. PICK un2 : un2 = un \cup {t}
  OBVIOUS
<1>3. PICK h, h2 : h = Weight(k, un, loc, deq) /\ h2 = Weight(k, un2, loc2, deq)
  OBVIOUS
<1>4. Weighs(h, k, un, loc, deq)
  BY <1>3, WeightFacts
<1>5. Weighs(h2, k, un2, loc2, deq)
  BY <1>1, <1>2, <1>3, WeightFacts
<1>6. CountOf(k, un2, loc2, t) = CountOf(k, un, loc, t) + d
  BY <1>2 DEF CountOf, Replaces
<1>7. ASSUME NEW u, u # t PROVE CountOf(k, un2, loc2, u) = CountOf(k, un, loc, u)
  <2>1. u \in un2 <=> u \in un
    BY <1>2, <1>7
  <2>2. u \in un => loc2[u] = loc[u]
    BY <1>7 DEF Replaces
  <2> QED
    BY <2>1, <2>2 DEF CountOf
<1>8. PICK x \in Threads \X Nat : x = <<t, 0>>
  OBVIOUS
<1>9. h2[x] = h[x] + d
  <2>1. h2[<<t, 0>>] = CountOf(k, un2, loc2, t) /\ h[<<t, 0>>] = CountOf(k, un, loc, t)
    BY <1>4, <1>5 DEF Weighs
  <2> QED
    BY <1>6, <1>8, <2>1
<1>10. ASSUME NEW y \in Threads \X Nat, y # x PROVE h2[y] = h[y]
  <2>1. \A u \in Threads : y = <<u, 0>> => CountOf(k, un2, loc2, u) = CountOf(k, un, loc, u)
    BY <1>7, <1>8, <1>10
  <2> QED
    BY <1>4, <1>5, <2>1, WeighsSame
<1>11. h \in [Threads \X Nat -> Nat] /\ h2 \in [Threads \X Nat -> Nat]
  BY <1>4, <1>5 DEF Weighs
<1>12. IsFiniteSet(Units(h2)) /\ Cardinality(Units(h2)) = Cardinality(Units(h)) + d
  BY <1>3, <1>9, <1>10, <1>11, UnitsRaised
<1> QED
  BY <1>1, <1>2, <1>3, <1>12

\* What is in the storage of t, if it has one
StorageOf(deq, t) == IF t \in DOMAIN deq THEN deq[t] ELSE <<>>

LEMMA StorageOfTyped ==
  ASSUME NEW deq, NEW t, Storages(deq)
  PROVE  StorageOf(deq, t) \in Seq(Compiled!Entries) /\ Counting(StorageOf(deq, t))
BY DEF Storages, Counting, StorageOf

\* A storage is read as it was, however it is come by.
LEMMA StoredFrom ==
  ASSUME NEW deq, NEW k, NEW t, NEW i
  PROVE  StoredAt(deq, k, t, i) =
           IF i \in DOMAIN StorageOf(deq, t) /\ StorageOf(deq, t)[i].k = k
           THEN StorageOf(deq, t)[i].v ELSE 0
BY DEF StoredAt, StorageOf

\* A storage is made, or is there.
LEMMA StorageMade ==
  ASSUME NEW deq, NEW t \in Threads, NEW deq2, Storages(deq), Replaces(deq2, deq, t, StorageOf(deq, t))
  PROVE  Storages(deq2) /\ \A k, u, i : StoredAt(deq2, k, u, i) = StoredAt(deq, k, u, i)
<1>1. Storages(deq2)
  <2>1. StorageOf(deq, t) \in Seq(Compiled!Entries) /\ Counting(StorageOf(deq, t))
    BY StorageOfTyped
  <2> QED
    BY <2>1 DEF Storages, Replaces
<1>2. ASSUME NEW u PROVE StorageOf(deq2, u) = StorageOf(deq, u)
  BY DEF StorageOf, Replaces
<1>3. \A k, u, i : StoredAt(deq2, k, u, i) = StoredAt(deq, k, u, i)
  BY <1>2, StoredFrom
<1> QED
  BY <1>1, <1>3

LEMMA ConcatFacts ==
  ASSUME NEW S, NEW s1 \in Seq(S), NEW s2 \in Seq(S)
  PROVE  /\ s1 \o s2 \in Seq(S)
         /\ DOMAIN s1 = 1 .. Len(s1) /\ DOMAIN s2 = 1 .. Len(s2)
         /\ DOMAIN (s1 \o s2) = 1 .. Len(s1) + Len(s2) /\ Len(s1) \in Nat /\ Len(s2) \in Nat
         /\ \A i \in 1 .. Len(s1) : (s1 \o s2)[i] = s1[i]
         /\ \A i \in 1 .. Len(s2) : (s1 \o s2)[Len(s1) + i] = s2[i]
         /\ \A i \in 1 .. Len(s1) + Len(s2) :
              i \in 1 .. Len(s1) \/ (i - Len(s1) \in 1 .. Len(s2) /\ Len(s1) + (i - Len(s1)) = i)
OBVIOUS

LEMMA CountingJoin ==
  ASSUME NEW s1 \in Seq(Compiled!Entries), NEW s2 \in Seq(Compiled!Entries), Counting(s1), Counting(s2)
  PROVE  Counting(s1 \o s2)
<1>1. ASSUME NEW i \in 1 .. Len(s1) + Len(s2) PROVE (s1 \o s2)[i].v > 0
  <2>1. CASE i \in 1 .. Len(s1)
    BY <2>1, ConcatFacts DEF Counting
  <2>2. CASE i - Len(s1) \in 1 .. Len(s2) /\ Len(s1) + (i - Len(s1)) = i
    <3>1. (s1 \o s2)[i] = s2[i - Len(s1)]
      BY <2>2, ConcatFacts
    <3> QED
      BY <2>2, <3>1, ConcatFacts DEF Counting
  <2> QED
    BY <2>1, <2>2, ConcatFacts
<1> QED
  BY <1>1, ConcatFacts DEF Counting

\* A table that is spilled: what it counts is in the storage.
LEMMA SpillMoves ==
  ASSUME NEW k, NEW loc, NEW deq, NEW un, NEW t \in un, NEW u \in Threads, NEW deq2,
         Tables(loc), Storages(deq), un \subseteq DOMAIN loc,
         Replaces(deq2, deq, u, StorageOf(deq, u) \o loc[t].entries),
         IsFiniteSet(Units(Weight(k, un, loc, deq)))
  PROVE  /\ Storages(deq2)
         /\ IsFiniteSet(Units(Weight(k, un \ {t}, loc, deq2)))
         /\ Cardinality(Units(Weight(k, un \ {t}, loc, deq2))) = Cardinality(Units(Weight(k, un, loc, deq)))
<1>1. PICK d, es : d = StorageOf(deq, u) /\ es = loc[t].entries
  OBVIOUS
<1>2. Whole(loc[t]) /\ Counting(es) /\ es \in Seq(Compiled!Entries) /\ t \in Threads
  BY <1>1 DEF Tables, Whole
<1>3. d \in Seq(Compiled!Entries) /\ Counting(d)
  BY <1>1, StorageOfTyped
<1>4. PICK n, m : n = Len(d) /\ m = Len(es)
  OBVIOUS
<1>5. /\ d \o es \in Seq(Compiled!Entries)
      /\ n \in Nat /\ m \in Nat
      /\ DOMAIN d = 1 .. n /\ DOMAIN es = 1 .. m
      /\ DOMAIN (d \o es) = 1 .. n + m
      /\ \A i \in 1 .. n : (d \o es)[i] = d[i]
      /\ \A i \in 1 .. m : (d \o es)[n + i] = es[i]
  BY <1>2, <1>3, <1>4, ConcatFacts
<1>6. /\ u \in DOMAIN deq2 /\ deq2[u] = d \o es
      /\ \A v : v # u => StorageOf(deq2, v) = StorageOf(deq, v)
      /\ StorageOf(deq2, u) = d \o es
  BY <1>1 DEF Replaces, StorageOf
<1>7. Storages(deq2)
  <2>1. Counting(d \o es)
    BY <1>2, <1>3, CountingJoin
  <2>2. DOMAIN deq2 = DOMAIN deq \cup {u} /\ \A v \in DOMAIN deq : v # u => deq2[v] = deq[v]
    BY DEF Replaces
  <2> QED
    BY <1>5, <1>6, <2>1, <2>2 DEF Storages
<1>8. ASSUME NEW v, NEW i \in Nat, ~(v = u /\ i \in n + 1 .. n + m)
      PROVE  StoredAt(deq2, k, v, i) = StoredAt(deq, k, v, i)
  <2>1. CASE v # u
    BY <1>6, <2>1, StoredFrom
  <2>2. CASE v = u
    <3>1. i \in 1 .. n \/ i \notin 1 .. n + m
      BY <1>5, <1>8, <2>2
    <3>2. i \in DOMAIN (d \o es) <=> i \in DOMAIN d
      BY <1>5, <3>1
    <3>3. i \in DOMAIN d => (d \o es)[i] = d[i]
      BY <1>5
    <3> QED
      BY <1>1, <1>6, <2>2, <3>2, <3>3, StoredFrom
  <2> QED
    BY <2>1, <2>2
<1>9. ASSUME NEW i \in 1 .. m
      PROVE  /\ n + i \in Nat \ {0} /\ StoredAt(deq, k, u, n + i) = 0
             /\ StoredAt(deq2, k, u, n + i) = IF es[i].k = k THEN es[i].v ELSE 0
  <2>1. n + i \in Nat \ {0} /\ n + i \notin 1 .. n /\ n + i \in 1 .. n + m
    BY <1>5
  <2>2. StoredAt(deq, k, u, n + i) = 0
    BY <1>1, <1>5, <2>1, StoredFrom
  <2>3. n + i \in DOMAIN (d \o es) /\ (d \o es)[n + i] = es[i]
    BY <1>5, <2>1
  <2>4. StoredAt(deq2, k, u, n + i) = IF es[i].k = k THEN es[i].v ELSE 0
    BY <1>6, <2>3, StoredFrom
  <2> QED
    BY <2>1, <2>2, <2>4
<1>10. PICK un2 : un2 = un \ {t}
  OBVIOUS
<1>11. PICK h, h2 : h = Weight(k, un, loc, deq) /\ h2 = Weight(k, un2, loc, deq2)
  OBVIOUS
<1>12. Weighs(h, k, un, loc, deq)
  BY <1>11, WeightFacts
<1>13. Weighs(h2, k, un2, loc, deq2)
  <2>1. un2 \subseteq DOMAIN loc
    BY <1>10
  <2> QED
    BY <1>7, <1>11, <2>1, WeightFacts
<1>14. h \in [Threads \X Nat -> Nat] /\ h2 \in [Threads \X Nat -> Nat]
  BY <1>12, <1>13 DEF Weighs
<1>15. \A v : v # t => CountOf(k, un2, loc, v) = CountOf(k, un, loc, v)
  BY <1>10 DEF CountOf
<1>16. PICK x \in Threads \X Nat : x = <<t, 0>>
  BY <1>2
<1>17. h[x] = Held(loc[t], k) /\ h2[x] = 0
  <2>1. h[<<t, 0>>] = CountOf(k, un, loc, t) /\ h2[<<t, 0>>] = CountOf(k, un2, loc, t)
    BY <1>2, <1>12, <1>13 DEF Weighs
  <2>2. CountOf(k, un, loc, t) = Held(loc[t], k) /\ CountOf(k, un2, loc, t) = 0
    BY <1>10 DEF CountOf
  <2> QED
    BY <1>16, <2>1, <2>2
<1>18. CASE k \in DOMAIN loc[t].found
  <2>1. PICK p \in 1 .. m : /\ es[p].k = k /\ Held(loc[t], k) = es[p].v
                            /\ \A i \in 1 .. m : es[i].k = k => i = p
    <3>1. /\ loc[t].found[k] \in DOMAIN es /\ es[loc[t].found[k]].k = k
          /\ Held(loc[t], k) = es[loc[t].found[k]].v
          /\ \A i \in DOMAIN es : es[i].k = k => i = loc[t].found[k]
      BY <1>1, <1>2, <1>18 DEF Whole, Held
    <3> QED
      BY <1>5, <3>1
  <2>2. n + p \in Nat \ {0} /\ StoredAt(deq, k, u, n + p) = 0 /\ StoredAt(deq2, k, u, n + p) = es[p].v
    BY <1>9, <2>1
  <2>3. PICK y \in Threads \X Nat : y = <<u, n + p>>
    BY <2>2
  <2>4. h[y] = 0 /\ h2[y] = h[x]
    <3>1. h[<<u, n + p>>] = StoredAt(deq, k, u, n + p) /\ h2[<<u, n + p>>] = StoredAt(deq2, k, u, n + p)
      BY <1>12, <1>13, <2>2 DEF Weighs
    <3> QED
      BY <1>17, <2>1, <2>2, <2>3, <3>1
  <2>5. x # y
    BY <1>16, <2>2, <2>3
  <2>6. ASSUME NEW z \in Threads \X Nat, z # x, z # y PROVE h2[z] = h[z]
    <3>1. \A v \in Threads : z = <<v, 0>> => CountOf(k, un2, loc, v) = CountOf(k, un, loc, v)
      BY <1>15, <1>16, <2>6
    <3>2. ASSUME NEW v \in Threads, NEW i \in Nat \ {0}, z = <<v, i>>
          PROVE  StoredAt(deq2, k, v, i) = StoredAt(deq, k, v, i)
      <4>1. CASE v = u /\ i \in n + 1 .. n + m
        <5>1. PICK j \in 1 .. m : i = n + j
          <6>1. i - n \in 1 .. m /\ i = n + (i - n)
            BY <1>5, <4>1
          <6> QED
            BY <6>1
        <5>2. j # p
          BY <2>3, <2>6, <3>2, <4>1, <5>1
        <5>3. es[j].k # k
          BY <2>1, <5>2
        <5> QED
          BY <1>9, <4>1, <5>1, <5>3
      <4>2. CASE ~(v = u /\ i \in n + 1 .. n + m)
        BY <1>8, <4>2
      <4> QED
        BY <4>1, <4>2
    <3> QED
      BY <1>12, <1>13, <3>1, <3>2, WeighsSame
  <2>7. IsFiniteSet(Units(h2)) /\ Cardinality(Units(h2)) = Cardinality(Units(h))
    BY <1>11, <1>14, <1>17, <2>4, <2>5, <2>6, UnitsMoved
  <2> QED
    BY <1>7, <1>10, <1>11, <2>7
<1>19. CASE k \notin DOMAIN loc[t].found
  <2>1. ASSUME NEW i \in 1 .. m PROVE es[i].k # k
    <3>1. es[i].k \in DOMAIN loc[t].found
      BY <1>1, <1>2, <1>5 DEF Whole
    <3> QED
      BY <1>19, <3>1
  <2>2. \A v : CountOf(k, un2, loc, v) = CountOf(k, un, loc, v)
    BY <1>10, <1>15, <1>19 DEF CountOf, Held
  <2>3. ASSUME NEW v \in Threads, NEW i \in Nat \ {0}
        PROVE  StoredAt(deq2, k, v, i) = StoredAt(deq, k, v, i)
    <3>1. CASE v = u /\ i \in n + 1 .. n + m
      <4>1. PICK j \in 1 .. m : i = n + j
        <5>1. i - n \in 1 .. m /\ i = n + (i - n)
          BY <1>5, <3>1
        <5> QED
          BY <5>1
      <4> QED
        BY <1>9, <2>1, <3>1, <4>1
    <3>2. CASE ~(v = u /\ i \in n + 1 .. n + m)
      BY <1>8, <3>2
    <3> QED
      BY <3>1, <3>2
  <2>4. ASSUME NEW z \in Threads \X Nat PROVE h2[z] = h[z]
    BY <1>12, <1>13, <2>2, <2>3, WeighsSame
  <2>5. IsFiniteSet(Units(h2)) /\ Cardinality(Units(h2)) = Cardinality(Units(h))
    BY <1>11, <1>14, <2>4, UnitsSame
  <2> QED
    BY <1>7, <1>10, <1>11, <2>5
<1> QED
  BY <1>18, <1>19
\* The rows of k are n, and each is in one place.
RowsIn(k, un, loc, deq, n) ==
  IsFiniteSet(Units(Weight(k, un, loc, deq))) /\ Cardinality(Units(Weight(k, un, loc, deq))) = n

\* When all is spilled, the tables do not matter.
LEMMA RowsSpilled ==
  ASSUME NEW k, NEW loc, NEW deq, NEW n, NEW loc2, RowsIn(k, {}, loc, deq, n)
  PROVE  RowsIn(k, {}, loc2, deq, n)
<1>1. \A t : CountOf(k, {}, loc, t) = 0 /\ CountOf(k, {}, loc2, t) = 0
  BY DEF CountOf
<1>2. Weight(k, {}, loc2, deq) = Weight(k, {}, loc, deq)
  BY <1>1 DEF Weight
<1> QED
  BY <1>2 DEF RowsIn

\* A storage that is made holds no rows.
LEMMA RowsStorageMade ==
  ASSUME NEW k, NEW un, NEW loc, NEW deq, NEW n, NEW t \in Threads, NEW deq2,
         RowsIn(k, un, loc, deq, n), Storages(deq), Replaces(deq2, deq, t, StorageOf(deq, t))
  PROVE  RowsIn(k, un, loc, deq2, n)
<1>1. \A u, i : StoredAt(deq2, k, u, i) = StoredAt(deq, k, u, i)
  BY StorageMade
<1>2. Weight(k, un, loc, deq2) = Weight(k, un, loc, deq)
  BY <1>1 DEF Weight
<1> QED
  BY <1>2 DEF RowsIn

LEMMA RowsRaised ==
  ASSUME NEW k, NEW loc, NEW deq, NEW un, NEW t \in Threads, NEW l2, NEW d \in Nat, NEW loc2, NEW n,
         Tables(loc), Storages(deq), un \subseteq DOMAIN loc, Whole(l2), Counting(l2.entries),
         Held(l2, k) = CountOf(k, un, loc, t) + d, Replaces(loc2, loc, t, l2), RowsIn(k, un, loc, deq, n)
  PROVE  RowsIn(k, un \cup {t}, loc2, deq, n + d)
<1>1. /\ IsFiniteSet(Units(Weight(k, un, loc, deq)))
      /\ Cardinality(Units(Weight(k, un, loc, deq))) = n
  BY DEF RowsIn
<1>2. /\ IsFiniteSet(Units(Weight(k, un \cup {t}, loc2, deq)))
      /\ Cardinality(Units(Weight(k, un \cup {t}, loc2, deq)))
           = Cardinality(Units(Weight(k, un, loc, deq))) + d
  BY <1>1, TableRaises
<1> QED
  BY <1>1, <1>2 DEF RowsIn

LEMMA TableReplaced ==
  ASSUME NEW loc, NEW t \in Threads, NEW l2, NEW loc2, Tables(loc), Whole(l2), Counting(l2.entries),
         Replaces(loc2, loc, t, l2)
  PROVE  Tables(loc2)
BY DEF Tables, Replaces

LEMMA RowsMoved ==
  ASSUME NEW k, NEW loc, NEW deq, NEW un, NEW t \in un, NEW u \in Threads, NEW deq2, NEW n,
         Tables(loc), Storages(deq), un \subseteq DOMAIN loc, RowsIn(k, un, loc, deq, n),
         Replaces(deq2, deq, u, StorageOf(deq, u) \o loc[t].entries)
  PROVE  Storages(deq2) /\ RowsIn(k, un \ {t}, loc, deq2, n)
<1>1. /\ IsFiniteSet(Units(Weight(k, un, loc, deq)))
      /\ Cardinality(Units(Weight(k, un, loc, deq))) = n
  BY DEF RowsIn
<1>2. /\ Storages(deq2)
      /\ IsFiniteSet(Units(Weight(k, un \ {t}, loc, deq2)))
      /\ Cardinality(Units(Weight(k, un \ {t}, loc, deq2))) = Cardinality(Units(Weight(k, un, loc, deq)))
  BY <1>1, SpillMoves
<1> QED
  BY <1>1, <1>2 DEF RowsIn

\* A storage that is spilled to is one still, whatever is asked of it.
LEMMA StorageSpilled ==
  ASSUME NEW loc, NEW deq, NEW t \in DOMAIN loc, NEW u \in Threads, NEW deq2, Tables(loc), Storages(deq),
         Replaces(deq2, deq, u, StorageOf(deq, u) \o loc[t].entries)
  PROVE  Storages(deq2)
<1>1. PICK d, es : d = StorageOf(deq, u) /\ es = loc[t].entries
  OBVIOUS
<1>2. Counting(es) /\ es \in Seq(Compiled!Entries)
  BY <1>1 DEF Tables, Whole
<1>3. d \in Seq(Compiled!Entries) /\ Counting(d)
  BY <1>1, StorageOfTyped
<1>4. d \o es \in Seq(Compiled!Entries) /\ Counting(d \o es)
  BY <1>2, <1>3, CountingJoin, ConcatFacts
<1>5. DOMAIN deq2 = DOMAIN deq \cup {u} /\ deq2[u] = d \o es /\ \A v \in DOMAIN deq : v # u => deq2[v] = deq[v]
  BY <1>1 DEF Replaces
<1> QED
  BY <1>4, <1>5 DEF Storages

-----------------------------------------------------------------------------
(* The inductive invariant of the compiled aggregation                     *)

\* The tables that are not spilled yet
Unspilled == IF phase = "scan" THEN DOMAIN locals ELSE IF phase = "spill" THEN tasks ELSE {}

CompiledTyped ==
  /\ phase \in {"scan", "spill", "merge", "over"} /\ rows \in 0 .. MaxScanned
  /\ consumed \in [GroupKeys -> Nat] /\ sent \in Seq(Compiled!Entries)
  /\ Tables(locals) /\ Storages(deques)
  /\ partition \in [Threads -> Compiled!Partitions \cup {Compiled!None}]
  /\ merged \in [Threads -> SUBSET (Threads \X Nat)]
  /\ phase = "scan" => tasks = {}
  /\ phase = "spill" => tasks \subseteq DOMAIN locals
  /\ phase \in {"merge", "over"} => tasks \subseteq Compiled!Partitions

\* No row is lost, nor counted twice: in a table or in a storage.
RowsKept == \A k \in GroupKeys : RowsIn(k, Unspilled, locals, deques, consumed[k])

\* A partition is claimed once.
Claimed ==
  /\ phase \in {"scan", "spill"} => sent = <<>>
  /\ phase # "merge" => \A t \in Threads : partition[t] = Compiled!None
  /\ phase = "over" => tasks = {}
  /\ \A t \in Threads : partition[t] # Compiled!None =>
       partition[t] \notin tasks /\ \A u \in Threads \ {t} : partition[u] # partition[t]

\* The partitions that are not delivered
Pending == tasks \cup {partition[t] : t \in Threads}

\* The groups that were delivered are those of the other partitions.
SentExact ==
  /\ \A i \in DOMAIN sent :
       /\ sent[i].v = consumed[sent[i].k] /\ sent[i].v > 0
       /\ partitionOf[sent[i].k] \notin Pending
       /\ \A j \in DOMAIN sent : sent[j].k = sent[i].k => j = i
  /\ phase \in {"merge", "over"} =>
       \A k \in GroupKeys : consumed[k] > 0 /\ partitionOf[k] \notin Pending =>
         \E i \in DOMAIN sent : sent[i].k = k

\* n rows of k were merged.
MergedIn(k, deq, done, n) ==
  IsFiniteSet(Units(MergedWeight(k, deq, done))) /\ Cardinality(Units(MergedWeight(k, deq, done))) = n

\* Who merges a partition has a table of its keys that counts what was merged.
MergesWell(t) ==
  /\ t \in DOMAIN locals
  /\ \A k \in DOMAIN locals[t].found : partitionOf[k] = partition[t]
  /\ \A k \in GroupKeys : MergedIn(k, deques, merged[t], Held(locals[t], k))
Merging == \A t \in Threads : partition[t] # Compiled!None => MergesWell(t)

CompiledInv == CompiledTyped /\ RowsKept /\ Claimed /\ SentExact /\ Merging

LEMMA LocalsWhole ==
  ASSUME CompiledTyped, NEW t \in Threads
  PROVE  /\ Whole(Compiled!LocalsOf(t)) /\ Counting(Compiled!LocalsOf(t).entries)
         /\ \A k : CountOf(k, DOMAIN locals, locals, t) = Held(Compiled!LocalsOf(t), k)
<1>1. CASE t \in DOMAIN locals
  BY <1>1 DEF CompiledTyped, Tables, Compiled!LocalsOf, CountOf
<1>2. CASE t \notin DOMAIN locals
  <2>1. Compiled!LocalsOf(t) = Compiled!setSize(FirstSize)
    BY <1>2 DEF Compiled!LocalsOf
  <2>2. PICK l : l = Compiled!LocalsOf(t)
    OBVIOUS
  <2>3. Whole(l) /\ l.entries = <<>> /\ l.found = <<>>
    BY <2>1, <2>2, GroupSizes, SetSizeWhole
  <2>4. Counting(l.entries)
    BY <2>3 DEF Counting
  <2>5. \A k : CountOf(k, DOMAIN locals, locals, t) = 0 /\ Held(l, k) = 0
    BY <1>2, <2>3 DEF CountOf, Held
  <2> QED
    BY <2>2, <2>3, <2>4, <2>5
<1> QED
  BY <1>1, <1>2

LEMMA StorageIs == \A t : Compiled!DequeOf(t) = StorageOf(deques, t)
BY DEF Compiled!DequeOf, StorageOf

\* Only a table with groups must be spilled.
LEMMA SpilledIsThere ==
  ASSUME CompiledTyped, NEW t \in Threads, NEW k, Compiled!MustSpill(Compiled!LocalsOf(t), k)
  PROVE  t \in DOMAIN locals /\ Compiled!LocalsOf(t) = locals[t]
<1>1. CASE t \in DOMAIN locals
  BY <1>1 DEF Compiled!LocalsOf
<1>2. CASE t \notin DOMAIN locals
  <2>1. Compiled!LocalsOf(t) = Compiled!setSize(FirstSize)
    BY <1>2 DEF Compiled!LocalsOf
  <2>2. PICK l : l = Compiled!LocalsOf(t)
    OBVIOUS
  <2>3. l.size = 0 /\ l.maxFill >= FirstSize /\ Whole(l)
    BY <2>1, <2>2, GroupSizes, SetSizeWhole
  <2>4. l.maxFill \in Nat \ {0}
    BY <2>3 DEF Whole
  <2>5. ~(l.size >= l.maxFill)
    BY <2>3, <2>4
  <2> QED
    BY <2>2, <2>5 DEF Compiled!MustSpill
<1> QED
  BY <1>1, <1>2

\* A row that is wanted: what its thread does to its table and its storage.
LEMMA ConsumeKeeps ==
  ASSUME CompiledTyped, RowsKept, phase = "scan", NEW t \in Threads, NEW c \in GroupKeys, NEW loc2, NEW deq2,
         Replaces(loc2, locals, t, Compiled!Consume(Compiled!LocalsOf(t), c)),
         Replaces(deq2, deques, t,
           IF Compiled!MustSpill(Compiled!LocalsOf(t), c)
           THEN Compiled!Spill(Compiled!DequeOf(t), Compiled!LocalsOf(t).entries) ELSE Compiled!DequeOf(t))
  PROVE  /\ Tables(loc2) /\ Storages(deq2) /\ DOMAIN loc2 = DOMAIN locals \cup {t}
         /\ \A k \in GroupKeys : RowsIn(k, DOMAIN loc2, loc2, deq2, IF k = c THEN consumed[k] + 1 ELSE consumed[k])
<1>1. PICK l, l2, ms : l = Compiled!LocalsOf(t) /\ l2 = Compiled!Consume(l, c) /\ ms = Compiled!MustSpill(l, c)
  OBVIOUS
<1>2. /\ Whole(l) /\ Counting(l.entries)
      /\ \A k : CountOf(k, DOMAIN locals, locals, t) = Held(l, k)
  BY <1>1, LocalsWhole
<1>3. PICK b : b = IF Compiled!MustSpill(l, c) THEN Compiled!Cleared(l) ELSE l
  OBVIOUS
<1>4. /\ Whole(l2) /\ Counting(l2.entries)
      /\ Held(l2, c) = Held(b, c) + 1 /\ \A x : x # c => Held(l2, x) = Held(b, x)
  BY <1>1, <1>2, <1>3, ConsumeWhole
<1>5. Replaces(loc2, locals, t, l2)
  BY <1>1
<1>6. Tables(locals) /\ Storages(deques) /\ consumed \in [GroupKeys -> Nat]
  BY DEF CompiledTyped
<1>7. Tables(loc2)
  BY <1>4, <1>5, <1>6, TableReplaced
<1>8. DOMAIN loc2 = DOMAIN locals \cup {t}
  BY DEF Replaces
<1>9. \A k \in GroupKeys : RowsIn(k, DOMAIN locals, locals, deques, consumed[k])
  BY DEF RowsKept, Unspilled
<1>10. CASE ~Compiled!MustSpill(l, c)
  <2>1. Replaces(deq2, deques, t, StorageOf(deques, t))
    BY <1>1, <1>10, StorageIs
  <2>2. Storages(deq2)
    BY <1>6, <2>1, StorageMade
  <2>3. ASSUME NEW k \in GroupKeys, NEW d \in Nat, Held(l2, k) = Held(l, k) + d
        PROVE  RowsIn(k, DOMAIN loc2, loc2, deq2, consumed[k] + d)
    <3>1. RowsIn(k, DOMAIN locals, locals, deq2, consumed[k])
      BY <1>6, <1>9, <2>1, RowsStorageMade
    <3>2. Held(l2, k) = CountOf(k, DOMAIN locals, locals, t) + d
      BY <1>2, <2>3
    <3>3. PICK un : un = DOMAIN locals
      OBVIOUS
    <3>4. RowsIn(k, un \cup {t}, loc2, deq2, consumed[k] + d)
      BY <1>4, <1>5, <1>6, <2>2, <2>3, <3>1, <3>2, <3>3, RowsRaised
    <3> QED
      BY <1>8, <3>3, <3>4
  <2>4. RowsIn(c, DOMAIN loc2, loc2, deq2, consumed[c] + 1)
    <3>1. Held(l2, c) = Held(l, c) + 1
      BY <1>3, <1>4, <1>10
    <3> QED
      BY <2>3, <3>1
  <2>5. ASSUME NEW k \in GroupKeys, k # c PROVE RowsIn(k, DOMAIN loc2, loc2, deq2, consumed[k])
    <3>1. Held(l2, k) = Held(l, k) + 0 /\ consumed[k] + 0 = consumed[k]
      <4>1. Held(l2, k) = Held(l, k) /\ Held(l, k) \in Nat
        BY <1>2, <1>3, <1>4, <1>10, <2>5, HeldNat
      <4> QED
        BY <1>6, <4>1
    <3> QED
      BY <2>3, <3>1
  <2> QED
    BY <1>7, <1>8, <2>2, <2>4, <2>5
<1>11. CASE Compiled!MustSpill(l, c)
  <2>1. t \in DOMAIN locals /\ l = locals[t]
    BY <1>1, <1>11, SpilledIsThere
  <2>2. Replaces(deq2, deques, t, StorageOf(deques, t) \o locals[t].entries)
    BY <1>1, <1>11, <2>1, StorageIs DEF Compiled!Spill
  <2>3. Storages(deq2)
    BY <1>6, <2>1, <2>2, StorageSpilled
  <2>4. \A k : Held(b, k) = 0
    BY <1>2, <1>3, <1>11, ClearedWhole
  <2>5. ASSUME NEW k \in GroupKeys, NEW d \in Nat, Held(l2, k) = d
        PROVE  RowsIn(k, DOMAIN loc2, loc2, deq2, consumed[k] + d)
    <3>1. PICK un, un2 : un = DOMAIN locals /\ un2 = un \ {t}
      OBVIOUS
    <3>2. RowsIn(k, un2, locals, deq2, consumed[k])
      BY <1>6, <1>9, <2>1, <2>2, <3>1, RowsMoved
    <3>3. CountOf(k, un2, locals, t) = 0
      BY <3>1 DEF CountOf
    <3>4. Held(l2, k) = CountOf(k, un2, locals, t) + d /\ un2 \subseteq DOMAIN locals
      BY <2>5, <3>1, <3>3
    <3>5. RowsIn(k, un2 \cup {t}, loc2, deq2, consumed[k] + d)
      BY <1>4, <1>5, <1>6, <2>3, <3>2, <3>4, RowsRaised
    <3>6. un2 \cup {t} = DOMAIN loc2
      BY <1>8, <3>1
    <3> QED
      BY <3>5, <3>6
  <2>6. RowsIn(c, DOMAIN loc2, loc2, deq2, consumed[c] + 1)
    BY <1>4, <2>4, <2>5
  <2>7. ASSUME NEW k \in GroupKeys, k # c PROVE RowsIn(k, DOMAIN loc2, loc2, deq2, consumed[k])
    <3>1. Held(l2, k) = 0 /\ consumed[k] + 0 = consumed[k]
      BY <1>4, <1>6, <2>4, <2>7
    <3> QED
      BY <2>5, <3>1
  <2> QED
    BY <1>7, <1>8, <2>3, <2>6, <2>7
<1> QED
  BY <1>10, <1>11

\* While the rows are scanned nothing is delivered and no partition claimed.
LEMMA ScanQuiet ==
  ASSUME CompiledInv, phase = "scan", CompiledTyped', phase' = "scan", UNCHANGED <<tasks, partition, sent>>
  PROVE  Claimed' /\ SentExact' /\ Merging'
<1>1. sent = <<>> /\ \A t \in Threads : partition[t] = Compiled!None
  BY DEF CompiledInv, Claimed
<1>2. Claimed'
  BY <1>1 DEF Claimed
<1>3. SentExact'
  BY <1>1 DEF SentExact
<1>4. Merging'
  BY <1>1 DEF Merging
<1> QED
  BY <1>2, <1>3, <1>4

\* A row that is not wanted: its thread may get a table and a storage.
LEMMA SkipKeeps ==
  ASSUME CompiledTyped, RowsKept, phase = "scan", NEW t \in Threads, NEW loc2, NEW deq2,
         Replaces(loc2, locals, t, Compiled!LocalsOf(t)), Replaces(deq2, deques, t, Compiled!DequeOf(t))
  PROVE  /\ Tables(loc2) /\ Storages(deq2) /\ DOMAIN loc2 = DOMAIN locals \cup {t}
         /\ \A k \in GroupKeys : RowsIn(k, DOMAIN loc2, loc2, deq2, consumed[k])
<1>1. PICK l : l = Compiled!LocalsOf(t)
  OBVIOUS
<1>2. /\ Whole(l) /\ Counting(l.entries)
      /\ \A k : CountOf(k, DOMAIN locals, locals, t) = Held(l, k)
  BY <1>1, LocalsWhole
<1>3. Tables(locals) /\ Storages(deques) /\ consumed \in [GroupKeys -> Nat]
  BY DEF CompiledTyped
<1>4. Replaces(loc2, locals, t, l) /\ Replaces(deq2, deques, t, StorageOf(deques, t))
  BY <1>1, StorageIs
<1>5. Tables(loc2) /\ Storages(deq2)
  BY <1>2, <1>3, <1>4, TableReplaced, StorageMade
<1>6. DOMAIN loc2 = DOMAIN locals \cup {t}
  BY DEF Replaces
<1>7. ASSUME NEW k \in GroupKeys PROVE RowsIn(k, DOMAIN loc2, loc2, deq2, consumed[k])
  <2>1. RowsIn(k, DOMAIN locals, locals, deques, consumed[k])
    BY DEF RowsKept, Unspilled
  <2>2. RowsIn(k, DOMAIN locals, locals, deq2, consumed[k])
    BY <1>3, <1>4, <2>1, RowsStorageMade
  <2>3. PICK un : un = DOMAIN locals
    OBVIOUS
  <2>4. Held(l, k) = CountOf(k, un, locals, t) + 0 /\ consumed[k] + 0 = consumed[k]
    <3>1. Held(l, k) \in Nat /\ consumed[k] \in Nat
      BY <1>2, <1>3, HeldNat
    <3> QED
      BY <1>2, <2>3, <3>1
  <2>5. RowsIn(k, un \cup {t}, loc2, deq2, consumed[k] + 0)
    BY <1>2, <1>3, <1>4, <1>5, <2>2, <2>3, <2>4, RowsRaised
  <2> QED
    BY <1>6, <2>3, <2>4, <2>5
<1> QED
  BY <1>5, <1>6, <1>7

LEMMA AggregateKeeps ==
  ASSUME CompiledInv, NEW t \in Threads, Compiled!Aggregate(t) PROVE CompiledInv'
<1>1. /\ phase = "scan" /\ rows > 0 /\ rows' = rows - 1
      /\ phase' = phase /\ tasks' = tasks /\ partition' = partition /\ merged' = merged /\ sent' = sent
  BY DEF Compiled!Aggregate
<1>2. CompiledTyped /\ RowsKept
  BY DEF CompiledInv
<1>3. Unspilled' = DOMAIN locals'
  BY <1>1 DEF Unspilled
<1>6. rows' \in 0 .. MaxScanned
  BY <1>1, <1>2, GroupSizes DEF CompiledTyped
<1>4. CASE \E k \in GroupKeys :
             /\ consumed' = [consumed EXCEPT ![k] = @ + 1]
             /\ locals' = Compiled!With(locals, t, Compiled!Consume(Compiled!LocalsOf(t), k))
             /\ deques' = Compiled!With(deques, t,
                            IF Compiled!MustSpill(Compiled!LocalsOf(t), k)
                            THEN Compiled!Spill(Compiled!DequeOf(t), Compiled!LocalsOf(t).entries)
                            ELSE Compiled!DequeOf(t))
  <2>1. PICK k \in GroupKeys :
             /\ consumed' = [consumed EXCEPT ![k] = @ + 1]
             /\ locals' = Compiled!With(locals, t, Compiled!Consume(Compiled!LocalsOf(t), k))
             /\ deques' = Compiled!With(deques, t,
                            IF Compiled!MustSpill(Compiled!LocalsOf(t), k)
                            THEN Compiled!Spill(Compiled!DequeOf(t), Compiled!LocalsOf(t).entries)
                            ELSE Compiled!DequeOf(t))
    BY <1>4
  <2>2. /\ Replaces(locals', locals, t, Compiled!Consume(Compiled!LocalsOf(t), k))
        /\ Replaces(deques', deques, t,
             IF Compiled!MustSpill(Compiled!LocalsOf(t), k)
             THEN Compiled!Spill(Compiled!DequeOf(t), Compiled!LocalsOf(t).entries) ELSE Compiled!DequeOf(t))
    BY <2>1, WithReplaces
  <2>3. /\ Tables(locals') /\ Storages(deques')
        /\ \A x \in GroupKeys :
             RowsIn(x, DOMAIN locals', locals', deques', IF x = k THEN consumed[k] + 1 ELSE consumed[x])
    BY <1>1, <1>2, <2>2, ConsumeKeeps
  <2>4. consumed' \in [GroupKeys -> Nat] /\ \A x \in GroupKeys : consumed'[x] = IF x = k THEN consumed[k] + 1 ELSE consumed[x]
    BY <1>2, <2>1 DEF CompiledTyped
  <2>5. RowsKept'
    BY <1>3, <2>3, <2>4 DEF RowsKept
  <2>6. CompiledTyped'
    BY <1>1, <1>2, <1>6, <2>3, <2>4 DEF CompiledTyped
  <2> QED
    BY <1>1, <2>5, <2>6, ScanQuiet DEF CompiledInv
<1>5. CASE /\ locals' = Compiled!With(locals, t, Compiled!LocalsOf(t))
           /\ deques' = Compiled!With(deques, t, Compiled!DequeOf(t))
           /\ consumed' = consumed
  <2>1. Replaces(locals', locals, t, Compiled!LocalsOf(t)) /\ Replaces(deques', deques, t, Compiled!DequeOf(t))
    BY <1>5, WithReplaces
  <2>2. /\ Tables(locals') /\ Storages(deques')
        /\ \A k \in GroupKeys : RowsIn(k, DOMAIN locals', locals', deques', consumed[k])
    BY <1>1, <1>2, <2>1, SkipKeeps
  <2>3. RowsKept'
    BY <1>3, <1>5, <2>2 DEF RowsKept
  <2>4. CompiledTyped'
    BY <1>1, <1>2, <1>5, <1>6, <2>2 DEF CompiledTyped
  <2> QED
    BY <1>1, <2>3, <2>4, ScanQuiet DEF CompiledInv
<1> QED
  BY <1>4, <1>5 DEF Compiled!Aggregate

LEMMA ScanOverKeeps == ASSUME CompiledInv, Compiled!ScanOver PROVE CompiledInv'
<1>1. /\ phase = "scan" /\ phase' = "spill" /\ tasks' = DOMAIN locals
      /\ rows' = rows /\ consumed' = consumed /\ locals' = locals /\ deques' = deques
      /\ partition' = partition /\ merged' = merged /\ sent' = sent
  BY DEF Compiled!ScanOver
<1>2. CompiledTyped'
  BY <1>1 DEF CompiledInv, CompiledTyped
<1>3. RowsKept'
  <2>1. Unspilled' = Unspilled
    BY <1>1 DEF Unspilled
  <2> QED
    BY <1>1, <2>1 DEF CompiledInv, RowsKept
<1>4. sent = <<>> /\ \A t \in Threads : partition[t] = Compiled!None
  BY <1>1 DEF CompiledInv, Claimed
<1>5. Claimed' /\ SentExact' /\ Merging'
  BY <1>1, <1>4 DEF Claimed, SentExact, Merging
<1> QED
  BY <1>2, <1>3, <1>5 DEF CompiledInv

LEMMA SpillRestKeeps == ASSUME CompiledInv, NEW t \in Threads, Compiled!SpillRest(t) PROVE CompiledInv'
<1>1. PICK u \in tasks :
        /\ tasks' = tasks \ {u}
        /\ deques' = Compiled!With(deques, t, Compiled!Spill(Compiled!DequeOf(t), locals[u].entries))
  BY DEF Compiled!SpillRest
<1>2. /\ phase = "spill" /\ phase' = "spill"
      /\ rows' = rows /\ consumed' = consumed /\ locals' = locals
      /\ partition' = partition /\ merged' = merged /\ sent' = sent
  BY DEF Compiled!SpillRest
<1>3. CompiledTyped /\ RowsKept
  BY DEF CompiledInv
<1>4. Tables(locals) /\ Storages(deques) /\ tasks \subseteq DOMAIN locals
  BY <1>2, <1>3 DEF CompiledTyped
<1>5. Replaces(deques', deques, t, StorageOf(deques, t) \o locals[u].entries)
  BY <1>1, StorageIs, WithReplaces DEF Compiled!Spill
<1>6. Storages(deques')
  BY <1>1, <1>4, <1>5, StorageSpilled
<1>7. CompiledTyped'
  BY <1>1, <1>2, <1>3, <1>4, <1>6 DEF CompiledTyped
<1>8. RowsKept'
  <2>1. ASSUME NEW k \in GroupKeys PROVE RowsIn(k, tasks \ {u}, locals, deques', consumed[k])
    <3>1. RowsIn(k, tasks, locals, deques, consumed[k])
      BY <1>2, <1>3 DEF RowsKept, Unspilled
    <3> QED
      BY <1>4, <1>5, <3>1, RowsMoved
  <2>2. Unspilled' = tasks \ {u}
    BY <1>1, <1>2 DEF Unspilled
  <2> QED
    BY <1>2, <2>1, <2>2 DEF RowsKept
<1>9. sent = <<>> /\ \A v \in Threads : partition[v] = Compiled!None
  BY <1>2 DEF CompiledInv, Claimed
<1>10. Claimed' /\ SentExact' /\ Merging'
  BY <1>2, <1>9 DEF Claimed, SentExact, Merging
<1> QED
  BY <1>7, <1>8, <1>10 DEF CompiledInv

LEMMA SpillOverKeeps == ASSUME CompiledInv, Compiled!SpillOver PROVE CompiledInv'
<1>1. /\ phase = "spill" /\ tasks = {} /\ phase' = "merge" /\ tasks' = Compiled!Partitions
      /\ rows' = rows /\ consumed' = consumed /\ locals' = locals /\ deques' = deques
      /\ partition' = partition /\ merged' = merged /\ sent' = sent
  BY DEF Compiled!SpillOver
<1>2. CompiledTyped'
  BY <1>1 DEF CompiledInv, CompiledTyped
<1>3. RowsKept'
  <2>1. Unspilled' = Unspilled
    BY <1>1 DEF Unspilled
  <2> QED
    BY <1>1, <2>1 DEF CompiledInv, RowsKept
<1>4. sent = <<>> /\ \A t \in Threads : partition[t] = Compiled!None
  BY <1>1 DEF CompiledInv, Claimed
<1>5. \A k \in GroupKeys : partitionOf[k] \in Pending'
  BY <1>1, GroupSizes DEF Pending, Compiled!Partitions
<1>6. Claimed' /\ SentExact' /\ Merging'
  BY <1>1, <1>4, <1>5 DEF Claimed, SentExact, Merging
<1> QED
  BY <1>2, <1>3, <1>6 DEF CompiledInv

LEMMA MergeOverKeeps == ASSUME CompiledInv, Compiled!MergeOver PROVE CompiledInv'
<1>1. /\ phase = "merge" /\ tasks = {} /\ phase' = "over"
      /\ \A t \in Threads : partition[t] = Compiled!None
      /\ rows' = rows /\ consumed' = consumed /\ locals' = locals /\ deques' = deques /\ tasks' = tasks
      /\ partition' = partition /\ merged' = merged /\ sent' = sent
  BY DEF Compiled!MergeOver
<1>2. CompiledTyped'
  BY <1>1 DEF CompiledInv, CompiledTyped
<1>3. RowsKept'
  <2>1. Unspilled' = Unspilled
    BY <1>1 DEF Unspilled
  <2> QED
    BY <1>1, <2>1 DEF CompiledInv, RowsKept
<1>4. Claimed' /\ Merging'
  BY <1>1 DEF CompiledInv, Claimed, Merging
<1>5. SentExact'
  <2>1. Pending' = Pending
    BY <1>1 DEF Pending
  <2> QED
    BY <1>1, <2>1 DEF CompiledInv, SentExact
<1> QED
  BY <1>2, <1>3, <1>4, <1>5 DEF CompiledInv

\* What is counted once all the entries of a key were merged, or none.
LEMMA MergedNone ==
  ASSUME NEW k, NEW deq, Storages(deq) PROVE MergedIn(k, deq, {}, 0)
<1>1. PICK h : h = MergedWeight(k, deq, {})
  OBVIOUS
<1>2. h \in [Threads \X Nat -> Nat] /\ \A x \in Threads \X Nat : h[x] = 0
  BY <1>1 DEF MergedWeight
<1>3. IsFiniteSet(Units(h)) /\ Cardinality(Units(h)) = 0
  BY <1>2, UnitsNone
<1> QED
  BY <1>1, <1>3 DEF MergedIn

LEMMA MergedRaised ==
  ASSUME NEW k, NEW deq, NEW done, NEW n, NEW u \in DOMAIN deq, NEW i \in DOMAIN deq[u], NEW done2,
         Storages(deq), <<u, i>> \notin done, done2 = done \cup {<<u, i>>}, MergedIn(k, deq, done, n)
  PROVE  MergedIn(k, deq, done2, n + StoredAt(deq, k, u, i))
<1>1. u \in Threads /\ deq[u] \in Seq(Compiled!Entries)
  BY DEF Storages
<1>2. i \in Nat
  BY <1>1
<1>3. PICK x \in Threads \X Nat : x = <<u, i>>
  BY <1>1, <1>2
<1>4. PICK h, h2 : h = MergedWeight(k, deq, done) /\ h2 = MergedWeight(k, deq, done2)
  OBVIOUS
<1>5. h \in [Threads \X Nat -> Nat] /\ h2 \in [Threads \X Nat -> Nat]
  BY <1>4, MergedWeightFacts
<1>6. PICK d \in Nat : d = StoredAt(deq, k, u, i)
  BY StoredNat
<1>7. h[x] = 0 /\ h2[x] = StoredAt(deq, k, u, i)
  BY <1>1, <1>2, <1>3, <1>4 DEF MergedWeight
<1>8. ASSUME NEW y \in Threads \X Nat, y # x PROVE h2[y] = h[y]
  <2>1. y \in done2 <=> y \in done
    BY <1>3, <1>8
  <2> QED
    BY <1>4, <2>1 DEF MergedWeight
<1>9. h2[x] = h[x] + d
  BY <1>6, <1>7
<1>10. IsFiniteSet(Units(h)) /\ Cardinality(Units(h)) = n
  BY <1>4 DEF MergedIn
<1>11. IsFiniteSet(Units(h2)) /\ Cardinality(Units(h2)) = Cardinality(Units(h)) + d
  BY <1>5, <1>8, <1>9, <1>10, UnitsRaised
<1> QED
  BY <1>4, <1>6, <1>10, <1>11 DEF MergedIn

LEMMA MergedAll ==
  ASSUME NEW k, NEW loc, NEW deq, NEW done, NEW n, NEW m, Tables(loc), Storages(deq),
         RowsIn(k, {}, loc, deq, n), MergedIn(k, deq, done, m),
         \A u \in DOMAIN deq : \A i \in DOMAIN deq[u] : deq[u][i].k = k => <<u, i>> \in done
  PROVE  m = n
<1>1. PICK h, h2 : h = Weight(k, {}, loc, deq) /\ h2 = MergedWeight(k, deq, done)
  OBVIOUS
<1>2. h \in [Threads \X Nat -> Nat] /\ h2 \in [Threads \X Nat -> Nat]
  <2>1. Weighs(h, k, {}, loc, deq)
    BY <1>1, WeightFacts
  <2> QED
    BY <1>1, <2>1, MergedWeightFacts DEF Weighs
<1>3. ASSUME NEW t \in Threads, NEW i \in Nat PROVE h2[<<t, i>>] = h[<<t, i>>]
  <2>1. h2[<<t, i>>] = IF <<t, i>> \in done THEN StoredAt(deq, k, t, i) ELSE 0
    BY <1>1, MergedWeightFacts
  <2>2. <<t, i>> \notin done => StoredAt(deq, k, t, i) = 0
    BY DEF StoredAt
  <2>3. h2[<<t, i>>] = StoredAt(deq, k, t, i)
    BY <2>1, <2>2
  <2>4. h[<<t, i>>] = IF i = 0 THEN CountOf(k, {}, loc, t) ELSE StoredAt(deq, k, t, i)
    BY <1>1 DEF Weight
  <2>5. CountOf(k, {}, loc, t) = 0 /\ StoredAt(deq, k, t, 0) = 0
    BY StoredNat DEF CountOf
  <2> QED
    BY <2>3, <2>4, <2>5
<1>4. \A y \in Threads \X Nat : h2[y] = h[y]
  BY <1>3
<1>5. IsFiniteSet(Units(h)) /\ Cardinality(Units(h)) = n
  BY <1>1 DEF RowsIn
<1>6. Cardinality(Units(h2)) = Cardinality(Units(h))
  BY <1>2, <1>4, <1>5, UnitsSame
<1> QED
  BY <1>1, <1>5, <1>6 DEF MergedIn

\* Tables that change while partitions are merged do not matter for the rows.
LEMMA MergeRows ==
  ASSUME RowsKept, phase = "merge", phase' = "merge", UNCHANGED <<consumed, deques>> PROVE RowsKept'
<1>1. Unspilled = {} /\ Unspilled' = {}
  BY DEF Unspilled
<1>2. ASSUME NEW k \in GroupKeys PROVE RowsIn(k, {}, locals', deques, consumed[k])
  BY <1>1, RowsSpilled DEF RowsKept
<1> QED
  BY <1>1, <1>2 DEF RowsKept

LEMMA ClaimKeeps == ASSUME CompiledInv, NEW t \in Threads, Compiled!Claim(t) PROVE CompiledInv'
<1>1. /\ phase = "merge" /\ phase' = "merge" /\ partition[t] = Compiled!None
      /\ locals' = Compiled!With(locals, t, Compiled!Cleared(Compiled!LocalsOf(t)))
      /\ merged' = [merged EXCEPT ![t] = {}]
      /\ rows' = rows /\ consumed' = consumed /\ deques' = deques /\ sent' = sent
  BY DEF Compiled!Claim
<1>2. PICK p \in tasks : tasks' = tasks \ {p} /\ partition' = [partition EXCEPT ![t] = p]
  BY DEF Compiled!Claim
<1>3. CompiledTyped /\ RowsKept /\ Claimed /\ SentExact /\ Merging
  BY DEF CompiledInv
<1>4. /\ Tables(locals) /\ Storages(deques) /\ tasks \subseteq Compiled!Partitions
      /\ partition \in [Threads -> Compiled!Partitions \cup {Compiled!None}]
      /\ merged \in [Threads -> SUBSET (Threads \X Nat)]
  BY <1>1, <1>3 DEF CompiledTyped
<1>5. /\ partition' \in [Threads -> Compiled!Partitions \cup {Compiled!None}]
      /\ partition'[t] = p /\ \A u \in Threads \ {t} : partition'[u] = partition[u]
  BY <1>2, <1>4
<1>6. /\ merged' \in [Threads -> SUBSET (Threads \X Nat)]
      /\ merged'[t] = {} /\ \A u \in Threads \ {t} : merged'[u] = merged[u]
  BY <1>1, <1>4
<1>7. PICK l : l = Compiled!Cleared(Compiled!LocalsOf(t))
  OBVIOUS
<1>8. Whole(l) /\ l.entries = <<>> /\ (\A k : Held(l, k) = 0) /\ DOMAIN l.found = {}
  BY <1>3, <1>7, LocalsWhole, ClearedWhole
<1>9. Counting(l.entries)
  BY <1>8 DEF Counting
<1>10. Replaces(locals', locals, t, l)
  BY <1>1, <1>7, WithReplaces
<1>11. Tables(locals')
  BY <1>4, <1>8, <1>9, <1>10, TableReplaced
<1>12. CompiledTyped'
  BY <1>1, <1>2, <1>3, <1>5, <1>6, <1>11 DEF CompiledTyped
<1>13. RowsKept'
  BY <1>1, <1>3, MergeRows
<1>14. p # Compiled!None
  BY <1>4, GroupSizes DEF Compiled!Partitions, Compiled!None
<1>15. Claimed'
  <2>1. \A u \in Threads : partition[u] # p
    BY <1>3, <1>14 DEF Claimed
  <2>2. ASSUME NEW v \in Threads, partition'[v] # Compiled!None
        PROVE  partition'[v] \notin tasks' /\ \A u \in Threads \ {v} : partition'[u] # partition'[v]
    <3>1. CASE v = t
      BY <1>2, <1>5, <2>1, <3>1
    <3>2. CASE v # t
      <4>1. partition[v] \notin tasks /\ \A u \in Threads \ {v} : partition[u] # partition[v]
        BY <1>3, <1>5, <2>2, <3>2 DEF Claimed
      <4> QED
        BY <1>2, <1>5, <2>1, <3>2, <4>1
    <3> QED
      BY <3>1, <3>2
  <2> QED
    BY <1>1, <2>2 DEF Claimed
<1>16. SentExact'
  <2>1. ASSUME NEW q \in Compiled!Partitions PROVE q \in Pending' <=> q \in Pending
    <3>1. q # Compiled!None
      BY GroupSizes DEF Compiled!Partitions, Compiled!None
    <3> QED
      BY <1>1, <1>2, <1>5, <3>1 DEF Pending
  <2>2. \A k \in GroupKeys : partitionOf[k] \in Compiled!Partitions
    BY GroupSizes DEF Compiled!Partitions
  <2>3. \A i \in DOMAIN sent : sent[i].k \in GroupKeys
    BY <1>3, ElementOf, EntryFields DEF CompiledTyped
  <2> QED
    BY <1>1, <1>3, <2>1, <2>2, <2>3 DEF SentExact
<1>17. Merging'
  <2>1. MergesWell(t)'
    <3>1. locals'[t] = l /\ t \in DOMAIN locals'
      BY <1>10 DEF Replaces
    <3>2. \A k \in GroupKeys : MergedIn(k, deques, {}, 0)
      BY <1>4, MergedNone
    <3> QED
      BY <1>1, <1>6, <1>8, <3>1, <3>2 DEF MergesWell
  <2>2. ASSUME NEW u \in Threads, u # t, partition'[u] # Compiled!None PROVE MergesWell(u)'
    <3>1. MergesWell(u)
      BY <1>3, <1>5, <2>2 DEF Merging
    <3>2. u \in DOMAIN locals' /\ locals'[u] = locals[u]
      BY <1>10, <2>2, <3>1 DEF Replaces, MergesWell
    <3> QED
      BY <1>1, <1>5, <1>6, <2>2, <3>1, <3>2 DEF MergesWell
  <2> QED
    BY <2>1, <2>2 DEF Merging
<1> QED
  BY <1>12, <1>13, <1>15, <1>16, <1>17 DEF CompiledInv

LEMMA MergeKeeps == ASSUME CompiledInv, NEW t \in Threads, Compiled!Merge(t) PROVE CompiledInv'
<1>1. /\ phase = "merge" /\ phase' = "merge" /\ partition[t] # Compiled!None
      /\ rows' = rows /\ consumed' = consumed /\ deques' = deques /\ tasks' = tasks
      /\ partition' = partition /\ sent' = sent
  BY DEF Compiled!Merge
<1>2. PICK u \in DOMAIN deques : \E i \in Compiled!Left(t, u) :
        /\ locals' = [locals EXCEPT ![t] = Compiled!Add(@, deques[u][i])]
        /\ merged' = [merged EXCEPT ![t] = @ \cup {<<u, i>>}]
  BY DEF Compiled!Merge
<1>3. PICK i \in Compiled!Left(t, u) :
        /\ locals' = [locals EXCEPT ![t] = Compiled!Add(@, deques[u][i])]
        /\ merged' = [merged EXCEPT ![t] = @ \cup {<<u, i>>}]
  BY <1>2
<1>4. CompiledTyped /\ RowsKept /\ Claimed /\ SentExact /\ MergesWell(t)
  BY <1>1 DEF CompiledInv, Merging
<1>5. Tables(locals) /\ Storages(deques) /\ merged \in [Threads -> SUBSET (Threads \X Nat)]
  BY <1>4 DEF CompiledTyped
<1>6. PICK e : e = deques[u][i]
  OBVIOUS
<1>7. i \in DOMAIN deques[u] /\ partitionOf[e.k] = partition[t] /\ <<u, i>> \notin merged[t]
  BY <1>6 DEF Compiled!Left
<1>8. u \in Threads /\ deques[u] \in Seq(Compiled!Entries) /\ Counting(deques[u])
  BY <1>5 DEF Storages
<1>9. i \in Nat /\ e \in Compiled!Entries /\ e.v > 0
  <2>1. i \in 1 .. Len(deques[u])
    BY <1>7, <1>8
  <2> QED
    BY <1>6, <1>7, <1>8, <2>1, ElementOf DEF Counting
<1>10. e.k \in GroupKeys /\ e.v \in Nat
  BY <1>9, EntryFields
<1>11. PICK l, l2 : l = locals[t] /\ l2 = Compiled!Add(l, e)
  OBVIOUS
<1>12. t \in DOMAIN locals /\ Whole(l) /\ Counting(l.entries) /\ \A k \in DOMAIN l.found : partitionOf[k] = partition[t]
  BY <1>4, <1>5, <1>11 DEF MergesWell, Tables
<1>13. /\ Whole(l2) /\ Counting(l2.entries) /\ DOMAIN l2.found = DOMAIN l.found \cup {e.k}
       /\ Held(l2, e.k) = Held(l, e.k) + e.v
       /\ \A x : x # e.k => Held(l2, x) = Held(l, x)
  BY <1>9, <1>11, <1>12, AddWhole
<1>14. DOMAIN locals' = DOMAIN locals /\ locals'[t] = l2 /\ \A v \in DOMAIN locals : v # t => locals'[v] = locals[v]
  BY <1>3, <1>6, <1>11, <1>12
<1>15. Tables(locals')
  BY <1>5, <1>13, <1>14 DEF Tables
<1>16. PICK done2 : done2 = merged[t] \cup {<<u, i>>}
  OBVIOUS
<1>17. /\ merged' \in [Threads -> SUBSET (Threads \X Nat)]
       /\ merged'[t] = done2 /\ \A v \in Threads \ {t} : merged'[v] = merged[v]
  <2>1. done2 \subseteq Threads \X Nat
    BY <1>5, <1>8, <1>9, <1>16
  <2>2. merged' = [merged EXCEPT ![t] = done2]
    BY <1>3, <1>16
  <2> QED
    BY <1>5, <2>1, <2>2
<1>18. CompiledTyped'
  BY <1>1, <1>4, <1>15, <1>17 DEF CompiledTyped
<1>19. RowsKept'
  BY <1>1, <1>4, MergeRows
<1>20. Claimed'
  BY <1>1, <1>4 DEF Claimed
<1>21. SentExact'
  <2>1. Pending' = Pending
    BY <1>1 DEF Pending
  <2> QED
    BY <1>1, <1>4, <2>1 DEF SentExact
<1>22. ASSUME NEW k \in GroupKeys PROVE MergedIn(k, deques, done2, Held(l2, k))
  <2>1. MergedIn(k, deques, merged[t], Held(l, k))
    BY <1>4, <1>11 DEF MergesWell
  <2>2. MergedIn(k, deques, done2, Held(l, k) + StoredAt(deques, k, u, i))
    BY <1>5, <1>7, <1>16, <2>1, MergedRaised
  <2>3. CASE k = e.k
    <3>1. StoredAt(deques, k, u, i) = e.v
      BY <1>6, <1>7, <2>3 DEF StoredAt
    <3> QED
      BY <1>13, <2>2, <2>3, <3>1
  <2>4. CASE k # e.k
    <3>1. StoredAt(deques, k, u, i) = 0
      BY <1>6, <2>4 DEF StoredAt
    <3>2. Held(l, k) \in Nat /\ Held(l2, k) = Held(l, k)
      BY <1>12, <1>13, <2>4, HeldNat
    <3>3. Held(l, k) + 0 = Held(l2, k)
      BY <3>2
    <3> QED
      BY <2>2, <3>1, <3>3
  <2> QED
    BY <2>3, <2>4
<1>23. Merging'
  <2>1. MergesWell(t)'
    <3>1. \A k \in DOMAIN l2.found : partitionOf[k] = partition[t]
      BY <1>7, <1>12, <1>13
    <3> QED
      BY <1>1, <1>12, <1>14, <1>17, <1>22, <3>1 DEF MergesWell
  <2>2. ASSUME NEW v \in Threads, v # t, partition'[v] # Compiled!None PROVE MergesWell(v)'
    <3>1. MergesWell(v)
      BY <1>1, <2>2 DEF CompiledInv, Merging
    <3>2. v \in DOMAIN locals' /\ locals'[v] = locals[v]
      BY <1>14, <2>2, <3>1 DEF MergesWell
    <3> QED
      BY <1>1, <1>17, <2>2, <3>1, <3>2 DEF MergesWell
  <2> QED
    BY <2>1, <2>2 DEF Merging
<1> QED
  BY <1>18, <1>19, <1>20, <1>21, <1>23 DEF CompiledInv

\* What the table of a partition holds when all is merged
LEMMA MergedExact ==
  ASSUME CompiledInv, NEW t \in Threads, phase = "merge", partition[t] # Compiled!None,
         \A u \in DOMAIN deques : Compiled!Left(t, u) = {}, NEW k \in GroupKeys, partitionOf[k] = partition[t]
  PROVE  Held(locals[t], k) = consumed[k]
<1>1. RowsIn(k, {}, locals, deques, consumed[k])
  BY DEF CompiledInv, RowsKept, Unspilled
<1>2. MergedIn(k, deques, merged[t], Held(locals[t], k))
  BY DEF CompiledInv, Merging, MergesWell
<1>3. Tables(locals) /\ Storages(deques)
  BY DEF CompiledInv, CompiledTyped
<1>4. \A u \in DOMAIN deques : \A i \in DOMAIN deques[u] : deques[u][i].k = k => <<u, i>> \in merged[t]
  BY DEF Compiled!Left
<1> QED
  BY <1>1, <1>2, <1>3, <1>4, MergedAll

LEMMA DeliverKeeps == ASSUME CompiledInv, NEW t \in Threads, Compiled!Deliver(t) PROVE CompiledInv'
<1>1. /\ phase = "merge" /\ phase' = "merge" /\ partition[t] # Compiled!None
      /\ \A u \in DOMAIN deques : Compiled!Left(t, u) = {}
      /\ sent' = sent \o locals[t].entries
      /\ partition' = [partition EXCEPT ![t] = Compiled!None]
      /\ rows' = rows /\ consumed' = consumed /\ locals' = locals /\ deques' = deques /\ tasks' = tasks
      /\ merged' = merged
  BY DEF Compiled!Deliver
<1>2. CompiledTyped /\ RowsKept /\ Claimed /\ SentExact /\ Merging /\ MergesWell(t)
  BY <1>1 DEF CompiledInv, Merging
<1>3. /\ Tables(locals) /\ sent \in Seq(Compiled!Entries) /\ tasks \subseteq Compiled!Partitions
      /\ partition \in [Threads -> Compiled!Partitions \cup {Compiled!None}]
  BY <1>1, <1>2 DEF CompiledTyped
<1>4. /\ partition' \in [Threads -> Compiled!Partitions \cup {Compiled!None}]
      /\ partition'[t] = Compiled!None /\ \A u \in Threads \ {t} : partition'[u] = partition[u]
  BY <1>1, <1>3
<1>5. PICK l, es : l = locals[t] /\ es = l.entries
  OBVIOUS
<1>6. /\ Whole(l) /\ Counting(es) /\ es \in Seq(Compiled!Entries)
      /\ \A k \in DOMAIN l.found : partitionOf[k] = partition[t]
  BY <1>2, <1>3, <1>5 DEF MergesWell, Tables, Whole
<1>7. PICK n, m : n = Len(sent) /\ m = Len(es)
  OBVIOUS
<1>8. /\ sent' \in Seq(Compiled!Entries) /\ n \in Nat /\ m \in Nat
      /\ DOMAIN sent = 1 .. n /\ DOMAIN es = 1 .. m /\ DOMAIN sent' = 1 .. n + m
      /\ \A i \in 1 .. n : sent'[i] = sent[i]
      /\ \A i \in 1 .. m : sent'[n + i] = es[i]
  BY <1>1, <1>3, <1>5, <1>6, <1>7, ConcatFacts
<1>9. \A i \in 1 .. n + m : i \in 1 .. n \/ \E j \in 1 .. m : i = n + j
  <2>1. ASSUME NEW i \in 1 .. n + m, i \notin 1 .. n PROVE i - n \in 1 .. m /\ i = n + (i - n)
    BY <1>8, <2>1
  <2> QED
    BY <2>1
<1>10. ASSUME NEW j \in 1 .. m
       PROVE  /\ es[j].k \in GroupKeys /\ es[j].v > 0 /\ es[j].v = consumed[es[j].k]
              /\ partitionOf[es[j].k] = partition[t]
              /\ \A i \in 1 .. m : es[i].k = es[j].k => i = j
  <2>1. es[j].k \in GroupKeys
    BY <1>6, <1>7, ElementOf, EntryFields
  <2>2. /\ es[j].k \in DOMAIN l.found /\ l.found[es[j].k] = j
        /\ \A i \in 1 .. m : l.found[es[i].k] = i
    BY <1>5, <1>6, <1>8 DEF Whole
  <2>3. Held(l, es[j].k) = es[j].v
    BY <1>5, <2>2 DEF Held
  <2>4. Held(l, es[j].k) = consumed[es[j].k]
    BY <1>1, <1>5, <1>6, <2>1, <2>2, MergedExact
  <2>5. es[j].v > 0
    BY <1>6, <1>8 DEF Counting
  <2>6. \A i \in 1 .. m : es[i].k = es[j].k => i = j
    <3>1. ASSUME NEW i \in 1 .. m, es[i].k = es[j].k PROVE i = j
      <4>1. l.found[es[i].k] = i /\ l.found[es[j].k] = j
        BY <2>2
      <4> QED
        BY <3>1, <4>1
    <3> QED
      BY <3>1
  <2> QED
    BY <1>6, <2>1, <2>2, <2>3, <2>4, <2>5, <2>6
<1>11. CompiledTyped'
  BY <1>1, <1>2, <1>4, <1>8 DEF CompiledTyped
<1>12. RowsKept'
  BY <1>1, <1>2, MergeRows
<1>13. Claimed'
  BY <1>1, <1>2, <1>4 DEF Claimed
<1>14. partition[t] \notin Pending' /\ \A q \in Compiled!Partitions : q \in Pending' <=> q \in Pending /\ q # partition[t]
  <2>1. \A q \in Compiled!Partitions : q # Compiled!None
    BY GroupSizes DEF Compiled!Partitions, Compiled!None
  <2>2. partition[t] \in Compiled!Partitions
    BY <1>1, <1>3
  <2>3. partition[t] \notin tasks /\ \A u \in Threads \ {t} : partition[u] # partition[t]
    BY <1>1, <1>2 DEF Claimed
  <2>4. ASSUME NEW q \in Compiled!Partitions PROVE q \in Pending' <=> q \in Pending /\ q # partition[t]
    <3>1. q \in Pending' <=> q \in tasks \/ \E u \in Threads : q = partition'[u]
      BY <1>1 DEF Pending
    <3>2. q \in Pending <=> q \in tasks \/ \E u \in Threads : q = partition[u]
      BY DEF Pending
    <3> QED
      BY <1>4, <2>1, <2>3, <3>1, <3>2
  <2> QED
    BY <2>2, <2>4
<1>15. SentExact'
  <2>1. /\ \A i \in 1 .. n :
             /\ sent[i].v = consumed[sent[i].k] /\ sent[i].v > 0
             /\ partitionOf[sent[i].k] \notin Pending
             /\ \A j \in 1 .. n : sent[j].k = sent[i].k => j = i
        /\ \A k \in GroupKeys : consumed[k] > 0 /\ partitionOf[k] \notin Pending => \E i \in 1 .. n : sent[i].k = k
    BY <1>1, <1>2, <1>8 DEF SentExact
  <2>2. \A k \in GroupKeys : partitionOf[k] \in Compiled!Partitions
    BY GroupSizes DEF Compiled!Partitions
  <2>3. \A i \in 1 .. n : sent[i].k \in GroupKeys
    BY <1>3, <1>7, ElementOf, EntryFields
  <2>4. partition[t] \in Pending
    BY DEF Pending
  <2>5. ASSUME NEW i \in 1 .. n + m
        PROVE  /\ sent'[i].v = consumed[sent'[i].k] /\ sent'[i].v > 0
               /\ partitionOf[sent'[i].k] \notin Pending'
    <3>1. CASE i \in 1 .. n
      BY <1>8, <1>14, <2>1, <2>2, <2>3, <3>1
    <3>2. CASE \E j \in 1 .. m : i = n + j
      <4>1. PICK j \in 1 .. m : i = n + j
        BY <3>2
      <4>2. sent'[i] = es[j]
        BY <1>8, <4>1
      <4> QED
        BY <1>10, <1>14, <4>2
    <3> QED
      BY <1>9, <3>1, <3>2
  <2>6. ASSUME NEW i \in 1 .. n + m, NEW j \in 1 .. n + m, sent'[j].k = sent'[i].k PROVE j = i
    <3>1. ASSUME NEW x \in 1 .. n, NEW y \in 1 .. m PROVE sent[x].k # es[y].k
      BY <1>10, <2>1, <2>4
    <3>2. CASE i \in 1 .. n /\ j \in 1 .. n
      BY <1>8, <2>1, <2>6, <3>2
    <3>3. CASE i \in 1 .. n /\ \E y \in 1 .. m : j = n + y
      <4>1. PICK y \in 1 .. m : j = n + y
        BY <3>3
      <4>2. sent'[j] = es[y] /\ sent'[i] = sent[i]
        BY <1>8, <3>3, <4>1
      <4> QED
        BY <2>6, <3>1, <3>3, <4>2
    <3>4. CASE j \in 1 .. n /\ \E y \in 1 .. m : i = n + y
      <4>1. PICK y \in 1 .. m : i = n + y
        BY <3>4
      <4>2. sent'[i] = es[y] /\ sent'[j] = sent[j]
        BY <1>8, <3>4, <4>1
      <4> QED
        BY <2>6, <3>1, <3>4, <4>2
    <3>5. CASE (\E x \in 1 .. m : i = n + x) /\ \E y \in 1 .. m : j = n + y
      <4>1. PICK x \in 1 .. m : i = n + x
        BY <3>5
      <4>2. PICK y \in 1 .. m : j = n + y
        BY <3>5
      <4>3. sent'[i] = es[x] /\ sent'[j] = es[y]
        BY <1>8, <4>1, <4>2
      <4>4. x = y
        BY <1>10, <2>6, <4>3
      <4> QED
        BY <4>1, <4>2, <4>4
    <3> QED
      BY <1>9, <3>2, <3>3, <3>4, <3>5
  <2>7. ASSUME NEW k \in GroupKeys, consumed[k] > 0, partitionOf[k] \notin Pending'
        PROVE  \E i \in 1 .. n + m : sent'[i].k = k
    <3>1. CASE partitionOf[k] \notin Pending
      <4>1. PICK i \in 1 .. n : sent[i].k = k
        BY <2>1, <2>7, <3>1
      <4> QED
        BY <1>8, <4>1
    <3>2. CASE partitionOf[k] = partition[t]
      <4>1. Held(l, k) = consumed[k]
        BY <1>1, <1>5, <3>2, MergedExact
      <4>2. k \in DOMAIN l.found
        BY <2>7, <4>1 DEF Held
      <4>3. l.found[k] \in 1 .. m /\ es[l.found[k]].k = k
        BY <1>5, <1>6, <1>8, <4>2 DEF Whole
      <4>4. PICK j \in 1 .. m : es[j].k = k
        BY <4>3
      <4>5. n + j \in 1 .. n + m
        BY <1>8
      <4> QED
        BY <1>8, <4>4, <4>5
    <3> QED
      BY <1>14, <2>2, <2>7, <3>1, <3>2
  <2> QED
    BY <1>1, <1>8, <2>5, <2>6, <2>7 DEF SentExact
<1>16. Merging'
  <2>1. ASSUME NEW u \in Threads, partition'[u] # Compiled!None PROVE MergesWell(u)'
    <3>1. u # t /\ partition'[u] = partition[u]
      BY <1>4, <2>1
    <3>2. MergesWell(u)
      BY <1>2, <2>1, <3>1 DEF Merging
    <3> QED
      BY <1>1, <3>1, <3>2 DEF MergesWell
  <2> QED
    BY <2>1 DEF Merging
<1> QED
  BY <1>11, <1>12, <1>13, <1>15, <1>16 DEF CompiledInv

LEMMA CompiledInit == Compiled!Init => CompiledInv
<1> SUFFICES ASSUME Compiled!Init PROVE CompiledInv
  OBVIOUS
<1>1. /\ phase = "scan" /\ rows = MaxScanned /\ consumed = [k \in GroupKeys |-> 0]
      /\ locals = <<>> /\ deques = <<>> /\ tasks = {}
      /\ partition = [t \in Threads |-> Compiled!None] /\ merged = [t \in Threads |-> {}]
      /\ sent = <<>>
  BY DEF Compiled!Init
<1>2. DOMAIN locals = {} /\ DOMAIN deques = {}
  BY <1>1
<1>3. Tables(locals) /\ Storages(deques)
  BY <1>2 DEF Tables, Storages
<1>4. /\ rows \in 0 .. MaxScanned /\ consumed \in [GroupKeys -> Nat] /\ sent \in Seq(Compiled!Entries)
      /\ partition \in [Threads -> Compiled!Partitions \cup {Compiled!None}]
      /\ merged \in [Threads -> SUBSET (Threads \X Nat)]
  BY <1>1, GroupSizes
<1>5. CompiledTyped
  BY <1>1, <1>3, <1>4 DEF CompiledTyped
<1>6. RowsKept
  <2>1. ASSUME NEW k \in GroupKeys PROVE RowsIn(k, {}, locals, deques, 0)
    <3>1. PICK h : h = Weight(k, {}, locals, deques)
      OBVIOUS
    <3>2. h \in [Threads \X Nat -> Nat] /\ \A x \in Threads \X Nat : h[x] = 0
      BY <1>2, <3>1 DEF Weight, CountOf, StoredAt
    <3> QED
      BY <3>1, <3>2, UnitsNone DEF RowsIn
  <2>2. Unspilled = {}
    BY <1>1, <1>2 DEF Unspilled
  <2> QED
    BY <1>1, <2>1, <2>2 DEF RowsKept
<1>7. Claimed /\ SentExact /\ Merging
  BY <1>1 DEF Claimed, SentExact, Merging
<1> QED
  BY <1>5, <1>6, <1>7 DEF CompiledInv

LEMMA CompiledSame == CompiledInv /\ UNCHANGED compiledVars => CompiledInv'
<1> SUFFICES ASSUME CompiledInv, UNCHANGED compiledVars PROVE CompiledInv'
  OBVIOUS
<1>1. /\ phase' = phase /\ rows' = rows /\ consumed' = consumed /\ locals' = locals /\ deques' = deques
      /\ tasks' = tasks /\ partition' = partition /\ merged' = merged /\ sent' = sent
  BY DEF compiledVars
<1>2. CompiledTyped'
  BY <1>1 DEF CompiledInv, CompiledTyped
<1>3. RowsKept'
  <2>1. Unspilled' = Unspilled
    BY <1>1 DEF Unspilled
  <2> QED
    BY <1>1, <2>1 DEF CompiledInv, RowsKept
<1>4. Claimed'
  BY <1>1 DEF CompiledInv, Claimed
<1>5. SentExact'
  <2>1. Pending' = Pending
    BY <1>1 DEF Pending
  <2> QED
    BY <1>1, <2>1 DEF CompiledInv, SentExact
<1>6. Merging'
  <2>1. \A t \in Threads : MergesWell(t) => MergesWell(t)'
    BY <1>1 DEF MergesWell
  <2> QED
    BY <1>1, <2>1 DEF CompiledInv, Merging
<1> QED
  BY <1>2, <1>3, <1>4, <1>5, <1>6 DEF CompiledInv

\* A step of a thread, the end of a parallel loop, or neither
CompiledStep == Compiled!Next \/ UNCHANGED compiledVars

LEMMA CompiledSteps == CompiledInv /\ CompiledStep => CompiledInv'
<1> SUFFICES ASSUME CompiledInv, CompiledStep PROVE CompiledInv'
  OBVIOUS
<1>1. CASE UNCHANGED compiledVars
  BY <1>1, CompiledSame
<1>2. ASSUME NEW t \in Threads, Compiled!Task(t) PROVE CompiledInv'
  BY <1>2, AggregateKeeps, SpillRestKeeps, ClaimKeeps, MergeKeeps, DeliverKeeps DEF Compiled!Task
<1>3. CASE Compiled!LoopOver
  BY <1>3, ScanOverKeeps, SpillOverKeeps, MergeOverKeeps DEF Compiled!LoopOver
<1>4. CASE Compiled!Finished
  <2>1. UNCHANGED compiledVars
    BY <1>4 DEF Compiled!Finished, Compiled!vars, compiledVars
  <2> QED
    BY <2>1, CompiledSame
<1> QED
  BY <1>1, <1>2, <1>3, <1>4 DEF CompiledStep, Compiled!Next

\* The steps of the other structures leave the aggregation alone.
LEMMA CompiledOnly == [MCNext /\ UNCHANGED kind]_allVars => CompiledStep
BY DEF MCNext, allVars, CompiledStep

LEMMA CompiledInvariant == MCSpec => []CompiledInv
<1>1. MCInit => CompiledInv
  BY CompiledInit DEF MCInit
<1>2. CompiledInv /\ [MCNext /\ UNCHANGED kind]_allVars => CompiledInv'
  BY CompiledSteps, CompiledOnly
<1> QED BY <1>1, <1>2, PTL DEF MCSpec

LEMMA CompiledSound == CompiledInv => CompiledExact
<1> SUFFICES ASSUME CompiledInv PROVE CompiledExact
  OBVIOUS
<1>1. CompiledTyped /\ Claimed /\ SentExact
  BY DEF CompiledInv
<1>2. Compiled!GroupsExact
  <2>1. ASSUME phase = "over", NEW k \in GroupKeys PROVE partitionOf[k] \notin Pending
    <3>1. partitionOf[k] # Compiled!None
      BY GroupSizes DEF Compiled!None
    <3>2. tasks = {} /\ \A t \in Threads : partition[t] = Compiled!None
      BY <1>1, <2>1 DEF Claimed
    <3> QED
      BY <3>1, <3>2 DEF Pending
  <2>2. \A i \in DOMAIN sent :
          /\ sent[i].v = consumed[sent[i].k] /\ sent[i].v > 0
          /\ \A j \in DOMAIN sent : sent[j].k = sent[i].k => j = i
    BY <1>1 DEF SentExact
  <2>3. phase = "over" => \A k \in GroupKeys : consumed[k] > 0 => \E i \in DOMAIN sent : sent[i].k = k
    BY <1>1, <2>1 DEF SentExact
  <2> QED
    BY <2>2, <2>3 DEF Compiled!GroupsExact
<1>3. Compiled!TablesWhole
  <2>1. ASSUME NEW t \in DOMAIN locals
        PROVE  /\ locals[t].size = Len(locals[t].entries) /\ locals[t].size <= locals[t].maxFill
               /\ \A i \in DOMAIN locals[t].entries : locals[t].found[locals[t].entries[i].k] = i
    BY <1>1 DEF CompiledTyped, Tables, Whole
  <2> QED
    BY <2>1 DEF Compiled!TablesWhole
<1>4. Compiled!PartitionsApart
  <2>1. ASSUME NEW t \in Threads, partition[t] # Compiled!None
        PROVE  /\ \A u \in Threads \ {t} : partition[u] # partition[t]
               /\ \A i \in DOMAIN sent : partitionOf[sent[i].k] # partition[t]
    BY <1>1, <2>1 DEF Claimed, SentExact, Pending
  <2> QED
    BY <2>1 DEF Compiled!PartitionsApart
<1> QED
  BY <1>2, <1>3, <1>4 DEF CompiledExact

\* Whichever threads scan, spill and merge the rows of a compiled query, each group is
\* delivered once, with all rows of its key; no partition is merged twice, and a table
\* and its stack always hold the same groups.
THEOREM CompiledRight == MCSpec => []CompiledExact
BY CompiledInvariant, CompiledSound, PTL

-----------------------------------------------------------------------------
(* Elements of sequences, and sums over finite sets                        *)

Elems(s) == {s[i] : i \in 1 .. Len(s)}
Distinct(s) == \A i, j \in 1 .. Len(s) : s[i] = s[j] => i = j

LEMMA ElemsFacts ==
  ASSUME NEW S
  PROVE  /\ <<>> \in Seq(S) /\ Elems(<<>>) = {} /\ Distinct(<<>>)
         /\ \A s \in Seq(S) : Elems(s) \subseteq S
         /\ \A s \in Seq(S), e \in S :
              /\ Append(s, e) \in Seq(S)
              /\ Elems(Append(s, e)) = Elems(s) \cup {e}
              /\ Distinct(Append(s, e)) <=> Distinct(s) /\ e \notin Elems(s)
         /\ \A s, t \in Seq(S) :
              /\ s \o t \in Seq(S) /\ Len(s \o t) = Len(s) + Len(t)
              /\ Elems(s \o t) = Elems(s) \cup Elems(t)
              /\ Distinct(s) /\ Distinct(t) /\ Elems(s) \cap Elems(t) = {} => Distinct(s \o t)
<1>1. <<>> \in Seq(S) /\ Elems(<<>>) = {} /\ Distinct(<<>>)
  BY DEF Elems, Distinct
<1>2. \A s \in Seq(S) : Elems(s) \subseteq S
  BY ElementOf DEF Elems
<1>3. ASSUME NEW s \in Seq(S), NEW e \in S
      PROVE  /\ Append(s, e) \in Seq(S)
             /\ Elems(Append(s, e)) = Elems(s) \cup {e}
             /\ Distinct(Append(s, e)) <=> Distinct(s) /\ e \notin Elems(s)
  <2> DEFINE t == Append(s, e)
             n == Len(s)
  <2>1. /\ t \in Seq(S) /\ n \in Nat /\ Len(t) = n + 1
        /\ (\A i \in 1 .. n : t[i] = s[i]) /\ t[n + 1] = e
    OBVIOUS
  <2> HIDE DEF t
  <2>2. \A i : i \in 1 .. n + 1 <=> i \in 1 .. n \/ i = n + 1
    BY <2>1
  <2>3. Elems(t) = Elems(s) \cup {e}
    BY <2>1, <2>2 DEF Elems
  <2>4. Distinct(t) => Distinct(s)
    BY <2>1, <2>2 DEF Distinct
  <2>5. Distinct(t) => e \notin Elems(s)
    <3>1. \A i \in 1 .. n : i # n + 1 /\ t[i] = s[i]
      BY <2>1
    <3> QED BY <2>1, <2>2, <3>1 DEF Distinct, Elems
  <2>6. Distinct(s) /\ e \notin Elems(s) => Distinct(t)
    BY <2>1, <2>2 DEF Distinct, Elems
  <2> QED BY <2>1, <2>3, <2>4, <2>5, <2>6 DEF t
<1>4. ASSUME NEW s \in Seq(S), NEW t \in Seq(S)
      PROVE  /\ s \o t \in Seq(S) /\ Len(s \o t) = Len(s) + Len(t)
             /\ Elems(s \o t) = Elems(s) \cup Elems(t)
             /\ Distinct(s) /\ Distinct(t) /\ Elems(s) \cap Elems(t) = {} => Distinct(s \o t)
  <2> DEFINE u == s \o t
             n == Len(s)
             m == Len(t)
  <2>1. /\ u \in Seq(S) /\ n \in Nat /\ m \in Nat /\ Len(u) = n + m
        /\ (\A i \in 1 .. n : u[i] = s[i])
        /\ (\A i \in n + 1 .. n + m : u[i] = t[i - n])
    OBVIOUS
  <2> HIDE DEF u, n, m
  <2>2. \A i : i \in 1 .. n + m <=> i \in 1 .. n \/ i \in n + 1 .. n + m
    BY <2>1
  <2>3. \A i \in n + 1 .. n + m : i - n \in 1 .. m
    BY <2>1
  <2>4. \A i \in 1 .. m : i + n \in n + 1 .. n + m /\ (i + n) - n = i
    BY <2>1
  <2>5. \A e : (\E i \in n + 1 .. n + m : u[i] = e) <=> \E i \in 1 .. m : t[i] = e
    <3>1. ASSUME NEW i \in 1 .. m PROVE u[i + n] = t[i]
      BY <2>1, <2>4
    <3>2. ASSUME NEW i \in n + 1 .. n + m PROVE i - n \in 1 .. m /\ u[i] = t[i - n]
      BY <2>1, <2>3
    <3> QED BY <2>4, <3>1, <3>2
  <2>6. Elems(u) = Elems(s) \cup Elems(t)
    <3>1. Elems(u) = {u[i] : i \in 1 .. n + m}
      BY <2>1 DEF Elems
    <3>2. Elems(s) = {s[i] : i \in 1 .. n} /\ Elems(t) = {t[i] : i \in 1 .. m}
      BY DEF Elems, n, m
    <3>3. \A e : e \in Elems(u) <=> (\E i \in 1 .. n : u[i] = e) \/ (\E i \in n + 1 .. n + m : u[i] = e)
      BY <3>1, <2>2
    <3>4. \A e : (\E i \in 1 .. n : u[i] = e) <=> e \in Elems(s)
      BY <3>2, <2>1
    <3>5. \A e : (\E i \in n + 1 .. n + m : u[i] = e) <=> e \in Elems(t)
      BY <3>2, <2>5
    <3> HIDE DEF Elems
    <3> QED BY <3>3, <3>4, <3>5
  <2>7. ASSUME Distinct(s), Distinct(t), Elems(s) \cap Elems(t) = {} PROVE Distinct(u)
    <3>1. ASSUME NEW i \in 1 .. n + m, NEW j \in 1 .. n + m, u[i] = u[j] PROVE i = j
      <4>1. CASE i \in 1 .. n /\ j \in 1 .. n
        BY <4>1, <3>1, <2>1, <2>7 DEF Distinct, n
      <4>2. CASE i \in n + 1 .. n + m /\ j \in n + 1 .. n + m
        <5>1. t[i - n] = t[j - n] /\ i - n \in 1 .. m /\ j - n \in 1 .. m
          BY <4>2, <3>1, <2>1, <2>3
        <5>2. i - n = j - n
          BY <5>1, <2>7 DEF Distinct, m
        <5> QED BY <5>2, <2>1, <4>2
      <4>3. CASE i \in 1 .. n /\ j \in n + 1 .. n + m
        <5>1. u[i] \in Elems(s) /\ u[j] \in Elems(t)
          BY <4>3, <2>1, <2>3 DEF Elems, n, m
        <5> QED BY <5>1, <3>1, <2>7
      <4>4. CASE j \in 1 .. n /\ i \in n + 1 .. n + m
        <5>1. u[j] \in Elems(s) /\ u[i] \in Elems(t)
          BY <4>4, <2>1, <2>3 DEF Elems, n, m
        <5> QED BY <5>1, <3>1, <2>7
      <4> QED BY <4>1, <4>2, <4>3, <4>4, <2>2
    <3> QED BY <3>1, <2>1 DEF Distinct
  <2> QED BY <2>1, <2>6, <2>7 DEF u, n, m
<1> HIDE DEF Elems, Distinct
<1> QED BY <1>1, <1>2, <1>3, <1>4

\* What is kept of a sequence are its elements in the set.
LEMMA KeptElems ==
  ASSUME NEW S, NEW A, NEW s \in Seq(S)
  PROVE  /\ KeptSeq(s, A) \in Seq(S)
         /\ Len(KeptSeq(s, A)) <= Len(s)
         /\ Elems(KeptSeq(s, A)) = Elems(s) \cap A
         /\ Distinct(s) => Distinct(KeptSeq(s, A))
<1> DEFINE P(q) == /\ Len(KeptSeq(q, A)) <= Len(q)
                   /\ Elems(KeptSeq(q, A)) = Elems(q) \cap A
                   /\ Distinct(q) => Distinct(KeptSeq(q, A))
           T == {n \in Nat : \E q \in Seq(S) : Len(q) = n /\ ~P(q)}
<1> HIDE DEF P
<1>1. SUFFICES ASSUME T # {} PROVE FALSE
  <2>1. KeptSeq(s, A) \in Seq(S)
    BY KeptFacts
  <2>2. T = {} => P(s)
    OBVIOUS
  <2> QED BY <2>1, <2>2 DEF P
<1>2. PICK n \in T : \A m \in T : ~(m < n)
  BY <1>1, LeastElement
<1>3. PICK q \in Seq(S) : Len(q) = n /\ ~P(q)
  BY <1>2
<1>4. CASE q = <<>>
  BY <1>3, <1>4, KeptFacts, ElemsFacts DEF P
<1>5. CASE q # <<>>
  <2> DEFINE e == q[Len(q)]
             t == FrontOf(q)
  <2>1. e \in S
    BY <1>5, ElementOf
  <2>2. t \in Seq(S) /\ Append(t, e) = q
    BY <1>5, <2>1, LastSplit
  <2> HIDE DEF e, t
  <2>3. Len(t) \in Nat /\ Len(q) = Len(t) + 1
    BY <2>1, <2>2
  <2>4. P(t)
    BY <1>2, <1>3, <2>2, <2>3
  <2>5. /\ e \in A => KeptSeq(q, A) = Append(KeptSeq(t, A), e)
        /\ e \notin A => KeptSeq(q, A) = KeptSeq(t, A)
    BY <2>1, <2>2, KeptAppend
  <2>6. KeptSeq(t, A) \in Seq(S)
    BY <2>2, KeptFacts
  <2>7. /\ Elems(q) = Elems(t) \cup {e} /\ (Distinct(q) <=> Distinct(t) /\ e \notin Elems(t))
        /\ Elems(Append(KeptSeq(t, A), e)) = Elems(KeptSeq(t, A)) \cup {e}
        /\ (Distinct(Append(KeptSeq(t, A), e)) <=> Distinct(KeptSeq(t, A)) /\ e \notin Elems(KeptSeq(t, A)))
    <3>1. \A x \in Seq(S) : /\ Elems(Append(x, e)) = Elems(x) \cup {e}
                            /\ Distinct(Append(x, e)) <=> Distinct(x) /\ e \notin Elems(x)
      BY <2>1, ElemsFacts
    <3> QED BY <3>1, <2>2, <2>6
  <2>8. Len(Append(KeptSeq(t, A), e)) = Len(KeptSeq(t, A)) + 1 /\ Len(KeptSeq(t, A)) \in Nat
    BY <2>1, <2>6
  <2>9. P(q)
    <3>0. /\ Len(KeptSeq(t, A)) <= Len(t) /\ Elems(KeptSeq(t, A)) = Elems(t) \cap A
          /\ Distinct(t) => Distinct(KeptSeq(t, A))
      BY <2>4 DEF P
    <3>1. CASE e \in A
      <4>1. Len(KeptSeq(q, A)) <= Len(q)
        BY <3>0, <3>1, <2>3, <2>5, <2>8
      <4>2. Elems(KeptSeq(q, A)) = Elems(q) \cap A
        BY <3>0, <3>1, <2>5, <2>7
      <4>3. Distinct(q) => Distinct(KeptSeq(q, A))
        BY <3>0, <3>1, <2>5, <2>7
      <4> QED BY <4>1, <4>2, <4>3 DEF P
    <3>2. CASE e \notin A
      <4>1. Len(KeptSeq(q, A)) <= Len(q)
        BY <3>0, <3>2, <2>3, <2>5, <2>8
      <4>2. Elems(KeptSeq(q, A)) = Elems(q) \cap A
        BY <3>0, <3>2, <2>5, <2>7
      <4>3. Distinct(q) => Distinct(KeptSeq(q, A))
        BY <3>0, <3>2, <2>5, <2>7
      <4> QED BY <4>1, <4>2, <4>3 DEF P
    <3> QED BY <3>1, <3>2
  <2> QED BY <1>3, <2>9
<1> QED BY <1>4, <1>5

\* A finite family of counts
LEMMA UnitsFinite ==
  ASSUME NEW D, NEW h \in [D -> Nat], IsFiniteSet(D)
  PROVE  IsFiniteSet(Units(h)) /\ Cardinality(Units(h)) \in Nat
<1> DEFINE P(Q) == IsFiniteSet(Units([x \in Q |-> h[x]]))
           T == {n \in Nat : \E Q \in SUBSET D : IsFiniteSet(Q) /\ Cardinality(Q) = n /\ ~P(Q)}
<1> HIDE DEF P
<1>1. T = {}
  <2>1. SUFFICES ASSUME T # {} PROVE FALSE
    OBVIOUS
  <2>2. PICK n \in T : \A m \in T : ~(m < n)
    BY <2>1, LeastElement
  <2>3. PICK Q \in SUBSET D : IsFiniteSet(Q) /\ Cardinality(Q) = n /\ ~P(Q)
    BY <2>2
  <2>4. Q # {}
    <3>1. Units([x \in {} |-> h[x]]) = {}
      BY DEF Units
    <3>2. Q = {} => P(Q)
      BY <3>1, FS_EmptySet DEF P
    <3> QED BY <2>3, <3>2
  <2>5. PICK x \in Q : TRUE
    BY <2>4
  <2> DEFINE R == Q \ {x}
  <2>6. IsFiniteSet(R) /\ Cardinality(R) = n - 1 /\ R \in SUBSET D /\ n \in Nat /\ Cardinality(R) \in Nat
    BY <2>2, <2>3, <2>5, FS_RemoveElement, FS_CardinalityType
  <2>7. P(R)
    <3>1. n - 1 \notin T
      BY <2>2, <2>6
    <3> QED BY <3>1, <2>6
  <2>8. Units([y \in Q |-> h[y]]) = Units([y \in R |-> h[y]]) \cup ({x} \X (1 .. h[x]))
    <3> DEFINE a == [y \in Q |-> h[y]]
               b == [y \in R |-> h[y]]
    <3>1. /\ DOMAIN a = Q /\ DOMAIN b = R /\ Q = R \cup {x} /\ a[x] = h[x] /\ h[x] \in Nat
          /\ \A y \in R : a[y] = h[y] /\ b[y] = h[y] /\ y # x
      BY <2>5
    <3> HIDE DEF a, b, R
    <3>2. ASSUME NEW w \in Units(a) PROVE w \in Units(b) \cup ({x} \X (1 .. h[x]))
      <4>1. w \in Q \X Nat /\ w[2] \in 1 .. a[w[1]]
        BY <3>1 DEF Units
      <4>2. CASE w[1] = x
        BY <4>1, <4>2, <3>1
      <4>3. CASE w[1] # x
        BY <4>1, <4>3, <3>1 DEF Units
      <4> QED BY <4>2, <4>3
    <3>3. ASSUME NEW w \in Units(b) PROVE w \in Units(a)
      BY <3>1 DEF Units
    <3>4. ASSUME NEW w \in {x} \X (1 .. h[x]) PROVE w \in Units(a)
      BY <3>1 DEF Units
    <3>5. Units(a) = Units(b) \cup ({x} \X (1 .. h[x]))
      BY <3>2, <3>3, <3>4
    <3> QED BY <3>5 DEF a, b
  <2>9. IsFiniteSet({x} \X (1 .. h[x]))
    <3>1. h[x] \in Nat
      BY <2>5
    <3>2. IsFiniteSet({x}) /\ IsFiniteSet(1 .. h[x])
      <4>1. 1 \in Int /\ h[x] \in Int
        BY <3>1
      <4> QED BY <4>1, FS_Singleton, FS_Interval
    <3> QED BY <3>2, FS_Product
  <2>10. P(Q)
    <3>1. IsFiniteSet(Units([y \in R |-> h[y]]))
      BY <2>7 DEF P
    <3>2. IsFiniteSet(Units([y \in R |-> h[y]]) \cup ({x} \X (1 .. h[x])))
      BY <3>1, <2>9, FS_Union
    <3> QED BY <3>2, <2>8 DEF P
  <2> QED BY <2>3, <2>10
<1>2. P(D)
  <2>1. Cardinality(D) \in Nat
    BY FS_CardinalityType
  <2> QED BY <1>1, <2>1
<1>3. [x \in D |-> h[x]] = h
  OBVIOUS
<1> QED BY <1>2, <1>3, FS_CardinalityType DEF P

\* The rows of Q that c takes to x
RowsFor(Q, c, x) == {r \in Q : c[r] = x}

\* h2 has in addition to h the rows of R, each for its member of the family.
Counts(D, R, c, h, h2) ==
  /\ h \in [D -> Nat] /\ h2 \in [D -> Nat] /\ c \in [R -> D] /\ IsFiniteSet(R)
  /\ \A x \in D : h2[x] = h[x] + Cardinality(RowsFor(R, c, x))

\* Every row of a finite set is counted once.
LEMMA UnitsCounted ==
  ASSUME NEW D, NEW R, NEW c, NEW h, NEW h2, Counts(D, R, c, h, h2), IsFiniteSet(Units(h))
  PROVE  Cardinality(Units(h2)) = Cardinality(Units(h)) + Cardinality(R)
<1>a. /\ h \in [D -> Nat] /\ h2 \in [D -> Nat] /\ c \in [R -> D] /\ IsFiniteSet(R)
      /\ \A x \in D : h2[x] = h[x] + Cardinality(RowsFor(R, c, x))
  BY DEF Counts
<1> DEFINE In(Q, x) == RowsFor(Q, c, x)
           H(Q) == [x \in D |-> h[x] + Cardinality(In(Q, x))]
           P(Q) == IsFiniteSet(Units(H(Q))) /\ Cardinality(Units(H(Q))) = Cardinality(Units(h)) + Cardinality(Q)
           T == {n \in Nat : \E Q \in SUBSET R : IsFiniteSet(Q) /\ Cardinality(Q) = n /\ ~P(Q)}
<1> HIDE DEF P
<1>0. ASSUME NEW Q \in SUBSET R, NEW x \in D
      PROVE  IsFiniteSet(In(Q, x)) /\ Cardinality(In(Q, x)) \in Nat
  <2>1. In(Q, x) \subseteq R
    BY DEF RowsFor
  <2> QED BY <2>1, <1>a, FS_Subset, FS_CardinalityType
<1> HIDE DEF In
<1>h. ASSUME NEW Q \in SUBSET R
      PROVE  H(Q) \in [D -> Nat] /\ \A x \in D : H(Q)[x] = h[x] + Cardinality(In(Q, x))
  BY <1>0, <1>a
<1> HIDE DEF H
<1>c. Cardinality(Units(h)) \in Nat
  BY FS_CardinalityType
<1>1. T = {}
  <2>1. SUFFICES ASSUME T # {} PROVE FALSE
    OBVIOUS
  <2>2. PICK n \in T : \A m \in T : ~(m < n)
    BY <2>1, LeastElement
  <2>3. PICK Q \in SUBSET R : IsFiniteSet(Q) /\ Cardinality(Q) = n /\ ~P(Q)
    BY <2>2
  <2>4. Q # {}
    <3>1. SUFFICES ASSUME Q = {} PROVE P(Q)
      BY <2>3
    <3>2. \A x \in D : In(Q, x) = {}
      BY <3>1 DEF In, RowsFor
    <3>3. \A x \in D : H(Q)[x] = h[x]
      <4>1. Cardinality({}) = 0
        BY FS_EmptySet
      <4>2. ASSUME NEW x \in D PROVE H(Q)[x] = h[x]
        <5>1. h[x] \in Nat /\ H(Q)[x] = h[x] + 0
          BY <1>a, <1>h, <3>2, <4>1
        <5> QED BY <5>1
      <4> QED BY <4>2
    <3>4. Cardinality(Q) = 0
      BY <3>1, FS_EmptySet
    <3>5. IsFiniteSet(Units(H(Q))) /\ Cardinality(Units(H(Q))) = Cardinality(Units(h))
      BY <3>3, <1>a, <1>h, UnitsSame
    <3> QED BY <3>4, <3>5, <1>c DEF P
  <2>5. PICK q \in Q : TRUE
    BY <2>4
  <2> DEFINE O == Q \ {q}
             y == c[q]
  <2>6. /\ IsFiniteSet(O) /\ Cardinality(O) = n - 1 /\ O \in SUBSET R /\ n \in Nat /\ Cardinality(O) \in Nat
        /\ y \in D
    BY <1>a, <2>2, <2>3, <2>5, FS_RemoveElement, FS_CardinalityType
  <2>7. P(O)
    <3>1. n - 1 \notin T
      BY <2>2, <2>6
    <3> QED BY <3>1, <2>6
  <2>8. \A x \in D : x # y => In(Q, x) = In(O, x)
    BY <2>5 DEF In, RowsFor
  <2>9. Cardinality(In(Q, y)) = Cardinality(In(O, y)) + 1
    <3>1. In(O, y) = In(Q, y) \ {q} /\ q \in In(Q, y)
      BY <2>5 DEF In, RowsFor
    <3>2. IsFiniteSet(In(Q, y)) /\ Cardinality(In(Q, y)) \in Nat
      BY <1>0, <2>6
    <3>3. Cardinality(In(O, y)) = Cardinality(In(Q, y)) - 1
      <4>1. Cardinality(In(Q, y) \ {q}) = Cardinality(In(Q, y)) - 1
        BY <3>1, <3>2, FS_RemoveElement
      <4> QED BY <3>1, <4>1
    <3> QED BY <3>2, <3>3
  <2> HIDE DEF O, y
  <2>10. H(Q)[y] = H(O)[y] + 1 /\ \A x \in D : x # y => H(Q)[x] = H(O)[x]
    <3>1. h[y] \in Nat /\ Cardinality(In(O, y)) \in Nat
      BY <1>a, <2>6, <1>0
    <3> QED BY <3>1, <1>h, <2>6, <2>8, <2>9
  <2>11. H(Q) \in [D -> Nat] /\ H(O) \in [D -> Nat]
    BY <1>h, <2>6
  <2>12. IsFiniteSet(Units(H(Q))) /\ Cardinality(Units(H(Q))) = Cardinality(Units(H(O))) + 1
    <3>1. PICK a, b : a = H(O) /\ b = H(Q)
      OBVIOUS
    <3>2. /\ a \in [D -> Nat] /\ b \in [D -> Nat] /\ IsFiniteSet(Units(a)) /\ y \in D
          /\ b[y] = a[y] + 1 /\ \A x \in D : x # y => b[x] = a[x]
      BY <2>6, <2>7, <2>10, <2>11, <3>1 DEF P
    <3>3. IsFiniteSet(Units(b)) /\ Cardinality(Units(b)) = Cardinality(Units(a)) + 1
      BY <3>2, UnitsRaised
    <3> QED BY <3>1, <3>3
  <2>13. Cardinality(Units(H(O))) = Cardinality(Units(h)) + (n - 1)
    BY <2>6, <2>7 DEF P
  <2> QED BY <1>c, <2>3, <2>6, <2>12, <2>13 DEF P
<1>2. P(R)
  <2>1. Cardinality(R) \in Nat
    BY <1>a, FS_CardinalityType
  <2> QED BY <1>1, <1>a, <2>1
<1>3. h2 = H(R)
  <2>1. \A x \in D : h2[x] = H(R)[x]
    BY <1>a, <1>h DEF In, RowsFor
  <2> QED BY <2>1, <1>a, <1>h
<1> QED BY <1>2, <1>3 DEF P

-----------------------------------------------------------------------------
(* HashGroup::GroupLookup: what its operators compute                      *)

LEMMA LookupSizes ==
  /\ IsFiniteSet(Keys) /\ Hashings \subseteq [Keys -> Nat]
  /\ VecSize \in Nat \ {0} /\ MaxRows \in Nat /\ InitialSize \in Nat \ {0}
<1>1. Lookup!KeysAssumption /\ Lookup!SizesAssumption
  BY LookupAssumption
<1>2. IsFiniteSet(Keys) <=> Lookup!IsFiniteSet(Keys)
  BY DEF Lookup!IsFiniteSet, IsFiniteSet
<1> QED BY <1>1, <1>2 DEF Lookup!KeysAssumption, Lookup!SizesAssumption

LEMMA LookupCardinality == \A S : Lookup!Cardinality(S) = Cardinality(S)
BY DEF Lookup!Cardinality, Cardinality

LEMMA LookupToSet == \A s : Lookup!ToSet(s) = {s[i] : i \in DOMAIN s}
BY DEF Lookup!ToSet

LEMMA LookupElems == ASSUME NEW S, NEW s \in Seq(S) PROVE Lookup!ToSet(s) = Elems(s)
BY LookupToSet DEF Elems

LEMMA LookupFlatten == \A ss : Lookup!FlattenSeq(ss) = FlattenSeq(ss)
BY DEF Lookup!FlattenSeq, FlattenSeq

LEMMA ThoseIs == \A s, A : Lookup!Those(s, A) = KeptSeq(s, A)
BY DEF Lookup!Those, KeptSeq, KeptTo

LEMMA ThoseFacts ==
  ASSUME NEW S, NEW A, NEW s \in Seq(S)
  PROVE  /\ Lookup!Those(s, A) \in Seq(S)
         /\ Len(Lookup!Those(s, A)) <= Len(s)
         /\ Elems(Lookup!Those(s, A)) = Elems(s) \cap A
         /\ Distinct(s) => Distinct(Lookup!Those(s, A))
<1>1. Lookup!Those(s, A) = KeptSeq(s, A)
  BY ThoseIs
<1> QED BY <1>1, KeptElems

LEMMA NumbersFacts ==
  ASSUME NEW n \in Nat
  PROVE  /\ Lookup!Numbers(n) \in Seq(1 .. n) /\ Lookup!Numbers(n) \in Seq(Nat) /\ Len(Lookup!Numbers(n)) = n
         /\ Elems(Lookup!Numbers(n)) = 1 .. n /\ Distinct(Lookup!Numbers(n))
BY DEF Lookup!Numbers, Elems, Distinct

LEMMA ReverseFacts ==
  ASSUME NEW S, NEW s \in Seq(S)
  PROVE  /\ Lookup!Reverse(s) \in Seq(S)
         /\ Elems(Lookup!Reverse(s)) = Elems(s)
         /\ Distinct(s) => Distinct(Lookup!Reverse(s))
<1> DEFINE n == Len(s)
           t == Lookup!Reverse(s)
<1>1. n \in Nat /\ \A i \in 1 .. n : s[i] \in S
  OBVIOUS
<1>2. t = [i \in 1 .. n |-> s[(n - i) + 1]]
  BY DEF Lookup!Reverse
<1>3. \A i \in 1 .. n : (n - i) + 1 \in 1 .. n /\ (n - ((n - i) + 1)) + 1 = i
  BY <1>1
<1> HIDE DEF t
<1>4. t \in Seq(S) /\ Len(t) = n /\ \A i \in 1 .. n : t[i] = s[(n - i) + 1]
  BY <1>1, <1>2, <1>3
<1>5. ASSUME NEW e PROVE e \in Elems(t) <=> e \in Elems(s)
  <2>1. ASSUME NEW i \in 1 .. n PROVE s[i] = t[(n - i) + 1]
    <3>1. (n - i) + 1 \in 1 .. n /\ (n - ((n - i) + 1)) + 1 = i
      BY <1>3
    <3>2. t[(n - i) + 1] = s[(n - ((n - i) + 1)) + 1]
      BY <1>4, <3>1
    <3> QED BY <3>1, <3>2
  <2> HIDE DEF n
  <2>2. (\E i \in 1 .. n : t[i] = e) <=> (\E i \in 1 .. n : s[i] = e)
    <3>1. ASSUME NEW i \in 1 .. n PROVE (n - i) + 1 \in 1 .. n /\ t[i] = s[(n - i) + 1]
      BY <1>3, <1>4
    <3> QED BY <1>3, <2>1, <3>1
  <2> QED BY <1>4, <2>2 DEF Elems, n
<1>6. ASSUME Distinct(s) PROVE Distinct(t)
  <2>1. ASSUME NEW i \in 1 .. n, NEW j \in 1 .. n, t[i] = t[j] PROVE i = j
    <3>1. (n - i) + 1 = (n - j) + 1
      <4>1. (n - i) + 1 \in 1 .. Len(s) /\ (n - j) + 1 \in 1 .. Len(s)
        BY <1>3
      <4>2. s[(n - i) + 1] = s[(n - j) + 1]
        BY <2>1, <1>4
      <4> QED BY <4>1, <4>2, <1>6 DEF Distinct
    <3> QED BY <3>1, <1>1
  <2> QED BY <2>1, <1>4 DEF Distinct
<1> QED BY <1>4, <1>5, <1>6 DEF t

LEMMA LookupPower == Lookup!pow = power
BY DEF Lookup!pow, power

\* setSize: the table has a bucket, and room for n entries at its load factor.
LEMMA CapacityHolds ==
  ASSUME NEW n \in Nat \ {0}
  PROVE  /\ Lookup!capacityFor(n) \in Nat \ {0}
         /\ Lookup!fillOf(Lookup!capacityFor(n)) \in Nat /\ Lookup!fillOf(Lookup!capacityFor(n)) >= n
<1> DEFINE Bits(e) == power[e - 1] <= n /\ n < power[e]
           T == {e \in Nat : n < power[e]}
           c == CHOOSE e \in 1 .. n + 1 : Bits(e)
<1>1. n \in T
  BY PowerExceeds
<1>2. PICK e \in T : \A d \in T : ~(d < e)
  BY <1>1, LeastElement
<1>3. e # 0
  BY <1>2, PowerFacts
<1>4. e - 1 \in Nat /\ e - 1 \notin T /\ power[e - 1] \in Nat
  <2>1. e \in Nat /\ e - 1 \in Nat /\ e - 1 < e
    BY <1>2, <1>3
  <2>2. power[e - 1] \in Nat
    BY <2>1, PowerFacts
  <2> QED BY <1>2, <2>1, <2>2
<1>5. e <= n
  BY <1>1, <1>2
<1>6. e \in 1 .. n + 1 /\ Bits(e)
  BY <1>2, <1>3, <1>4, <1>5
<1>7. c \in 1 .. n + 1 /\ Bits(c)
  BY <1>6
<1> HIDE DEF c
<1>8. c \in Nat /\ power[c] \in Nat \ {0} /\ power[c + 1] = 2 * power[c] /\ n < power[c]
  BY <1>7, PowerFacts
<1>9. Lookup!capacityFor(n) = IF power[c] * 7 < n * 10 THEN power[c + 1] ELSE power[c]
  BY LookupPower DEF Lookup!capacityFor, c
<1> HIDE DEF Bits
<1> DEFINE cap == Lookup!capacityFor(n)
<1> HIDE DEF cap
<1>10. cap \in Nat \ {0} /\ cap * 7 >= n * 10
  BY <1>8, <1>9 DEF cap
<1>11. Lookup!fillOf(cap) = (cap * 7) \div 10
  BY DEF Lookup!fillOf
<1> QED BY <1>10, <1>11 DEF cap

\* A sum of counts is the number of the rows they stand for.
LEMMA TotalIs == ASSUME NEW D, NEW h \in [D -> Nat] PROVE Lookup!Total(h) = Cardinality(Units(h))
<1>1. ASSUME NEW w \in UNION {{x} \X (1 .. h[x]) : x \in DOMAIN h} PROVE w \in Units(h)
  BY DEF Units
<1>2. ASSUME NEW w \in Units(h) PROVE w \in UNION {{x} \X (1 .. h[x]) : x \in DOMAIN h}
  BY DEF Units
<1>3. UNION {{x} \X (1 .. h[x]) : x \in DOMAIN h} = Units(h)
  BY <1>1, <1>2
<1> QED BY <1>3, LookupCardinality DEF Lookup!Total

LEMMA TotalNat ==
  ASSUME NEW D, NEW h \in [D -> Nat], IsFiniteSet(D)
  PROVE  Lookup!Total(h) \in Nat
BY TotalIs, UnitsFinite

LEMMA TotalCounted ==
  ASSUME NEW D, NEW R, NEW c, NEW h, NEW h2, Counts(D, R, c, h, h2), IsFiniteSet(D)
  PROVE  Lookup!Total(h2) = Lookup!Total(h) + Cardinality(R)
<1>0. h \in [D -> Nat] /\ h2 \in [D -> Nat]
  BY DEF Counts
<1>1. IsFiniteSet(Units(h)) /\ Lookup!Total(h) = Cardinality(Units(h)) /\ Lookup!Total(h2) = Cardinality(Units(h2))
  BY <1>0, TotalIs, UnitsFinite
<1> QED BY <1>1, UnitsCounted

-----------------------------------------------------------------------------
GroupRecords == [key : Keys, count : Nat]
OfKey(gs, k) == [g \in {g \in DOMAIN gs : gs[g].key = k} |-> gs[g].count]

LEMMA CountInIs ==
  ASSUME NEW gs \in Seq(GroupRecords), NEW k
  PROVE  /\ Lookup!CountIn(gs, k) = Cardinality(Units(OfKey(gs, k)))
         /\ Lookup!CountIn(gs, k) \in Nat
         /\ OfKey(gs, k) \in [{g \in DOMAIN gs : gs[g].key = k} -> Nat]
         /\ IsFiniteSet({g \in DOMAIN gs : gs[g].key = k})
<1> DEFINE D == {g \in DOMAIN gs : gs[g].key = k}
<1>1. IsFiniteSet(DOMAIN gs)
  <2>1. DOMAIN gs = 1 .. Len(gs) /\ 1 \in Int /\ Len(gs) \in Int
    OBVIOUS
  <2> QED BY <2>1, FS_Interval
<1>2. IsFiniteSet(D)
  BY <1>1, FS_Subset
<1>3. \A g \in DOMAIN gs : gs[g].count \in Nat
  <2>1. \A g \in DOMAIN gs : gs[g] \in GroupRecords
    OBVIOUS
  <2> QED BY <2>1 DEF GroupRecords
<1>4. OfKey(gs, k) \in [D -> Nat]
  BY <1>3 DEF OfKey
<1>5. Lookup!CountIn(gs, k) = Lookup!Total(OfKey(gs, k))
  BY DEF Lookup!CountIn, OfKey
<1> HIDE DEF D
<1>6. Lookup!CountIn(gs, k) = Cardinality(Units(OfKey(gs, k))) /\ Lookup!CountIn(gs, k) \in Nat
  BY <1>2, <1>4, <1>5, TotalIs, TotalNat
<1> QED BY <1>2, <1>4, <1>6 DEF D

\* New groups count nothing yet.
LEMMA CountInGrown ==
  ASSUME NEW gs \in Seq(GroupRecords), NEW g2 \in Seq(GroupRecords), NEW k, Len(g2) >= Len(gs),
         \A g \in 1 .. Len(gs) : g2[g] = gs[g],
         \A g \in Len(gs) + 1 .. Len(g2) : g2[g].count = 0
  PROVE  Lookup!CountIn(g2, k) = Lookup!CountIn(gs, k)
<1> DEFINE h == OfKey(gs, k)
           h2 == OfKey(g2, k)
<1>1. /\ DOMAIN h = {g \in 1 .. Len(gs) : gs[g].key = k} /\ DOMAIN h2 = {g \in 1 .. Len(g2) : g2[g].key = k}
      /\ (\A g \in DOMAIN h : h[g] = gs[g].count) /\ \A g \in DOMAIN h2 : h2[g] = g2[g].count
  BY DEF OfKey
<1> HIDE DEF h, h2
<1>2. ASSUME NEW w \in Units(h) PROVE w \in Units(h2)
  <2>1. w \in (DOMAIN h) \X Nat /\ w[2] \in 1 .. h[w[1]]
    BY DEF Units
  <2>2. w[1] \in 1 .. Len(g2) /\ w[1] \in DOMAIN h2 /\ h2[w[1]] = h[w[1]]
    BY <1>1, <2>1
  <2> QED BY <2>1, <2>2 DEF Units
<1>3. ASSUME NEW w \in Units(h2) PROVE w \in Units(h)
  <2>1. w \in (DOMAIN h2) \X Nat /\ w[2] \in 1 .. h2[w[1]]
    BY DEF Units
  <2>2. w[1] \in 1 .. Len(g2) /\ g2[w[1]].count # 0
    BY <1>1, <2>1
  <2>3. w[1] \in 1 .. Len(gs)
    BY <2>2
  <2>4. w[1] \in DOMAIN h /\ h2[w[1]] = h[w[1]]
    BY <1>1, <2>1, <2>3
  <2> QED BY <2>1, <2>4 DEF Units
<1>4. Units(h2) = Units(h)
  BY <1>2, <1>3
<1> QED BY <1>4, CountInIs DEF h, h2

\* Every row that points to a group of the key counts once.
LEMMA CountInUpdated ==
  ASSUME NEW gs \in Seq(GroupRecords), NEW g2 \in Seq(GroupRecords), NEW k, NEW R,
         NEW m \in [R -> 1 .. Len(gs)], Len(g2) = Len(gs), IsFiniteSet(R),
         \A g \in 1 .. Len(gs) : /\ g2[g].key = gs[g].key
                                 /\ g2[g].count = gs[g].count + Cardinality(RowsFor(R, m, g))
  PROVE  Lookup!CountIn(g2, k) = Lookup!CountIn(gs, k) + Cardinality({r \in R : gs[m[r]].key = k})
<1> DEFINE D == {g \in DOMAIN gs : gs[g].key = k}
           Q == {r \in R : gs[m[r]].key = k}
           c == [r \in Q |-> m[r]]
           h == OfKey(gs, k)
           h2 == OfKey(g2, k)
<1>0. DOMAIN gs = 1 .. Len(gs) /\ DOMAIN g2 = DOMAIN gs
  OBVIOUS
<1>1. {g \in DOMAIN g2 : g2[g].key = k} = D
  BY <1>0
<1>2. IsFiniteSet(Q)
  BY FS_Subset
<1>3. c \in [Q -> D]
  BY <1>0
<1>4. h \in [D -> Nat] /\ h2 \in [D -> Nat] /\ IsFiniteSet(D)
  BY <1>1, CountInIs
<1>5. ASSUME NEW g \in D PROVE h2[g] = h[g] + Cardinality(RowsFor(Q, c, g))
  <2>1. h2[g] = g2[g].count /\ h[g] = gs[g].count
    BY <1>1 DEF OfKey
  <2>2. RowsFor(Q, c, g) = RowsFor(R, m, g)
    BY DEF RowsFor
  <2>3. g \in 1 .. Len(gs)
    BY <1>0
  <2> QED BY <2>1, <2>2, <2>3
<1>6. Lookup!CountIn(gs, k) = Lookup!Total(h) /\ Lookup!CountIn(g2, k) = Lookup!Total(h2)
  BY DEF Lookup!CountIn, OfKey
<1> HIDE DEF D, Q, c, h, h2
<1>7. Lookup!Total(h2) = Lookup!Total(h) + Cardinality(Q)
  <2>1. Counts(D, Q, c, h, h2)
    BY <1>2, <1>3, <1>4, <1>5 DEF Counts
  <2> QED BY <1>4, <2>1, TotalCounted
<1> QED BY <1>6, <1>7 DEF Q

\* No groups, no counts
LEMMA CountInNone == \A k : Lookup!CountIn(<<>>, k) = 0
<1>1. ASSUME NEW k PROVE Lookup!CountIn(<<>>, k) = 0
  <2>1. <<>> \in Seq(GroupRecords)
    OBVIOUS
  <2>2. {g \in DOMAIN <<>> : (<<>>)[g].key = k} = {}
    OBVIOUS
  <2>3. DOMAIN OfKey(<<>>, k) = {}
    BY <2>2 DEF OfKey
  <2>4. Units(OfKey(<<>>, k)) = {}
    BY <2>3 DEF Units
  <2> QED BY <2>1, <2>4, CountInIs, FS_EmptySet
<1> QED BY <1>1

-----------------------------------------------------------------------------
(* HashGroup::GroupLookup: the invariant                                   *)

LookupTyped ==
  /\ hash \in [Keys -> Nat] /\ resizes \in BOOLEAN
  /\ pc \in {"next", "lookup", "compare", "follow", "create", "update", "flush"}
  /\ keys \in Seq(Keys) /\ Len(keys) <= VecSize
  /\ groups \in Seq(GroupRecords)
  /\ maxFill \in Nat \ {0} /\ created \in Nat
  /\ htMatches \in [1 .. VecSize -> Nat]
  /\ spilled \in [Keys -> Nat] /\ seen \in [Keys -> Nat]

\* Each chain of a table holds the groups of its bucket, each once.
BucketOf(t, k) == hash[k] % Cardinality(DOMAIN t)
ChainsHold(t, gs) ==
  /\ Cardinality(DOMAIN t) \in Nat \ {0} /\ DOMAIN t = 0 .. Cardinality(DOMAIN t) - 1
  /\ \A b \in DOMAIN t :
       /\ t[b] \in Seq(Nat) /\ Distinct(t[b])
       /\ Elems(t[b]) = {g \in 1 .. Len(gs) : BucketOf(t, gs[g].key) = b}

\* Rows that may still find a group are with an entry of their chain; the other
\* rows have found one or are listed.
ChainOf(r) == table[BucketOf(table, keys[r])]
RowsTraced ==
  /\ pc \in {"compare", "follow", "create"} =>
       /\ groupsNotFound \in Seq(1 .. Len(keys))
       /\ \A r \in 1 .. Len(keys) : r \in Elems(groupsNotFound) \/ htMatches[r] \in 1 .. Len(groups)
  /\ pc = "compare" =>
       /\ keysNEq = <<>> /\ groupsFound \in Seq(1 .. Len(keys)) /\ Len(groupsFound) <= Len(keys)
       /\ \A r \in Elems(groupsFound) : htMatches[r] \in Elems(ChainOf(r))
                                        /\ hash[groups[htMatches[r]].key] = hash[keys[r]]
  /\ pc = "follow" =>
       /\ keysNEq \in Seq(1 .. Len(keys)) /\ Len(keysNEq) <= Len(keys)
       /\ \A r \in Elems(keysNEq) : htMatches[r] \in Elems(ChainOf(r))
  /\ pc = "update" => \A r \in 1 .. Len(keys) : htMatches[r] \in 1 .. Len(groups)

\* If no two keys have the same hash, listed rows have keys without a group, and
\* the others are with the one of their key.
RowsPlaced ==
  Lookup!NoEqualHashes =>
    /\ \A g, h \in 1 .. Len(groups) : groups[g].key = groups[h].key => g = h
    /\ pc = "follow" => keysNEq = <<>>
    /\ pc \in {"compare", "follow", "create"} =>
         \A r \in 1 .. Len(keys) :
           IF r \in Elems(groupsNotFound) THEN \A g \in 1 .. Len(groups) : groups[g].key # keys[r]
           ELSE groups[htMatches[r]].key = keys[r]
    /\ pc = "update" => \A r \in 1 .. Len(keys) : groups[htMatches[r]].key = keys[r]
    /\ \A k \in Keys : seen[k] = spilled[k] + Lookup!CountIn(groups, k)

RowsNotLost ==
  Lookup!Total([k \in Keys |-> spilled[k] + Lookup!CountIn(groups, k)]) = Lookup!Total(seen)

\* The counter that is never reset is not less than the number of groups.
FillKept ==
  /\ resizes => Len(groups) <= maxFill
  /\ ~resizes =>
       /\ Len(groups) <= created
       /\ IF pc \in {"update", "flush"} THEN Len(groups) < maxFill + VecSize
          ELSE created < maxFill \/ groups = <<>>

LookupInv == LookupTyped /\ ChainsHold(table, groups) /\ RowsTraced /\ RowsPlaced /\ RowsNotLost /\ FillKept

LEMMA BucketIs == \A k, t : Lookup!bucket(k, t) = BucketOf(t, k)
<1>1. ASSUME NEW k, NEW t PROVE Lookup!bucket(k, t) = BucketOf(t, k)
  <2>1. Lookup!Cardinality(DOMAIN t) = Cardinality(DOMAIN t)
    BY LookupCardinality
  <2> QED BY <2>1 DEF Lookup!bucket, BucketOf
<1> QED BY <1>1

LEMMA ChainIs == \A r : Lookup!chain(r) = ChainOf(r)
BY BucketIs DEF Lookup!chain, ChainOf

LEMMA RecordFields == ASSUME NEW gs \in Seq(GroupRecords), NEW g \in 1 .. Len(gs)
                      PROVE  gs[g] \in GroupRecords /\ gs[g].key \in Keys /\ gs[g].count \in Nat
<1>1. gs[g] \in GroupRecords
  BY ElementOf
<1> QED BY <1>1 DEF GroupRecords

LEMMA BucketInTable ==
  ASSUME hash \in [Keys -> Nat], NEW t, NEW gs, ChainsHold(t, gs), NEW k \in Keys
  PROVE  BucketOf(t, k) \in DOMAIN t
<1>1. hash[k] \in Nat
  OBVIOUS
<1>2. PICK n \in Nat \ {0} : n = Cardinality(DOMAIN t) /\ DOMAIN t = 0 .. n - 1
  BY DEF ChainsHold
<1>3. hash[k] % n \in 0 .. n - 1
  BY <1>1, <1>2
<1> QED BY <1>2, <1>3 DEF BucketOf

\* Empty chains hold no groups.
LEMMA EmptyHolds ==
  ASSUME NEW cap \in Nat \ {0}
  PROVE  ChainsHold(Lookup!Empty(cap), <<>>)
<1> DEFINE t == Lookup!Empty(cap)
<1>1. DOMAIN t = 0 .. cap - 1 /\ \A b \in DOMAIN t : t[b] = <<>>
  BY DEF Lookup!Empty
<1>2. Cardinality(0 .. cap - 1) = cap
  <2>1. 0 \in Int /\ cap - 1 \in Int /\ ~(0 > cap - 1) /\ (cap - 1) - 0 + 1 = cap
    OBVIOUS
  <2> QED BY <2>1, FS_Interval
<1> HIDE DEF t
<1>3. <<>> \in Seq(Nat) /\ Distinct(<<>>) /\ Elems(<<>>) = {} /\ Len(<<>>) = 0
  BY ElemsFacts
<1>4. \A b : {g \in 1 .. 0 : BucketOf(t, (<<>>)[g].key) = b} = {}
  OBVIOUS
<1>5. \A b \in DOMAIN t : /\ t[b] \in Seq(Nat) /\ Distinct(t[b])
                          /\ Elems(t[b]) = {g \in 1 .. Len(<<>>) : BucketOf(t, (<<>>)[g].key) = b}
  BY <1>1, <1>3, <1>4
<1> QED BY <1>1, <1>2, <1>5 DEF ChainsHold, t

\* Groups that are pushed to their chains, in front of those that are there
LEMMA InsertAllHolds ==
  ASSUME NEW t, NEW gs \in Seq(GroupRecords), NEW g2 \in Seq(GroupRecords), ChainsHold(t, gs),
         Len(g2) >= Len(gs), \A g \in 1 .. Len(gs) : g2[g].key = gs[g].key
  PROVE  ChainsHold(Lookup!InsertAll(t, g2, Len(gs) + 1), g2)
<1> DEFINE n == Len(gs)
           m == Len(g2)
           A(b) == {g \in n + 1 .. m : BucketOf(t, g2[g].key) = b}
           of(b) == Lookup!Those(Lookup!Numbers(m), A(b))
           u == Lookup!InsertAll(t, g2, n + 1)
<1>1. n \in Nat /\ m \in Nat
  OBVIOUS
<1>2. u = [b \in DOMAIN t |-> Lookup!Reverse(of(b)) \o t[b]]
  <2>1. \A b : {g \in n + 1 .. Len(g2) : Lookup!bucket(g2[g].key, t) = b} = A(b)
    BY BucketIs
  <2> QED BY <2>1 DEF Lookup!InsertAll
<1>3. ASSUME NEW b PROVE of(b) \in Seq(Nat) /\ Elems(of(b)) = A(b) /\ Distinct(of(b))
  <2>1. /\ Lookup!Numbers(m) \in Seq(Nat) /\ Elems(Lookup!Numbers(m)) = 1 .. m
        /\ Distinct(Lookup!Numbers(m))
    BY <1>1, NumbersFacts
  <2>2. A(b) \subseteq 1 .. m
    BY <1>1
  <2> HIDE DEF A
  <2>3. /\ of(b) \in Seq(Nat) /\ Elems(of(b)) = Elems(Lookup!Numbers(m)) \cap A(b)
        /\ Distinct(Lookup!Numbers(m)) => Distinct(of(b))
    BY <2>1, ThoseFacts
  <2> QED BY <2>1, <2>2, <2>3
<1>4. DOMAIN u = DOMAIN t /\ \A b \in DOMAIN t : u[b] = Lookup!Reverse(of(b)) \o t[b]
  BY <1>2
<1> HIDE DEF of, u
<1>5. ASSUME NEW b \in DOMAIN t
      PROVE  u[b] \in Seq(Nat) /\ Distinct(u[b]) /\ Elems(u[b]) = {g \in 1 .. m : BucketOf(u, g2[g].key) = b}
  <2>1. /\ t[b] \in Seq(Nat) /\ Distinct(t[b])
        /\ Elems(t[b]) = {g \in 1 .. n : BucketOf(t, gs[g].key) = b}
    BY DEF ChainsHold
  <2> DEFINE r == Lookup!Reverse(of(b))
  <2>2. r \in Seq(Nat) /\ Elems(r) = A(b) /\ Distinct(r)
    BY <1>3, ReverseFacts
  <2>3. Elems(r) \cap Elems(t[b]) = {}
    BY <1>1, <2>1, <2>2
  <2>4. u[b] \in Seq(Nat) /\ Elems(u[b]) = Elems(r) \cup Elems(t[b]) /\ Distinct(u[b])
    <3>0. u[b] = r \o t[b]
      BY <1>4
    <3> HIDE DEF r, A
    <3>1. /\ r \o t[b] \in Seq(Nat) /\ Elems(r \o t[b]) = Elems(r) \cup Elems(t[b])
          /\ Distinct(r) /\ Distinct(t[b]) /\ Elems(r) \cap Elems(t[b]) = {} => Distinct(r \o t[b])
      BY <2>1, <2>2, ElemsFacts
    <3> QED BY <2>1, <2>2, <2>3, <3>0, <3>1
  <2>5. \A k : BucketOf(u, k) = BucketOf(t, k)
    BY <1>4 DEF BucketOf
  <2>6. ASSUME NEW g PROVE g \in Elems(r) \cup Elems(t[b]) <=> g \in 1 .. m /\ BucketOf(t, g2[g].key) = b
    <3>1. g \in 1 .. n => g2[g].key = gs[g].key
      OBVIOUS
    <3> QED BY <1>1, <2>1, <2>2, <3>1
  <2> QED BY <2>4, <2>5, <2>6
<1> QED BY <1>4, <1>5 DEF ChainsHold, u

\* The first entry with the hash of the row behind place p of its chain
LEMMA SeekFacts ==
  ASSUME LookupTyped, ChainsHold(table, groups), NEW r \in 1 .. Len(keys), NEW p \in Nat
  PROVE  /\ ChainOf(r) \in Seq(Nat) /\ Distinct(ChainOf(r))
         /\ Elems(ChainOf(r)) = {g \in 1 .. Len(groups) : BucketOf(table, groups[g].key) = BucketOf(table, keys[r])}
         /\ Lookup!Seek(r, p) \in Nat
         /\ Lookup!Seek(r, p) <= Len(ChainOf(r)) =>
              /\ Lookup!Seek(r, p) \in p + 1 .. Len(ChainOf(r))
              /\ hash[groups[ChainOf(r)[Lookup!Seek(r, p)]].key] = hash[keys[r]]
         /\ Lookup!Seek(r, p) > Len(ChainOf(r)) =>
              /\ Lookup!Seek(r, p) = Len(ChainOf(r)) + 1
              /\ \A q \in p + 1 .. Len(ChainOf(r)) : hash[groups[ChainOf(r)[q]].key] # hash[keys[r]]
<1> DEFINE c == ChainOf(r)
           hits == {q \in p + 1 .. Len(c) : hash[groups[c[q]].key] = hash[keys[r]]}
           s == CHOOSE q \in hits : \A x \in hits : q <= x
<1>1. keys[r] \in Keys
  BY ElementOf DEF LookupTyped
<1>2. BucketOf(table, keys[r]) \in DOMAIN table
  BY <1>1, BucketInTable DEF LookupTyped
<1>3. /\ c \in Seq(Nat) /\ Distinct(c)
      /\ Elems(c) = {g \in 1 .. Len(groups) : BucketOf(table, groups[g].key) = BucketOf(table, keys[r])}
  BY <1>2 DEF ChainsHold, ChainOf
<1>4. Lookup!Seek(r, p) = IF hits = {} THEN Len(c) + 1 ELSE s
  <2>1. Lookup!chain(r) = c
    BY ChainIs
  <2> HIDE DEF c
  <2> QED BY <2>1 DEF Lookup!Seek, Lookup!SameHash
<1> HIDE DEF c
<1>5. Len(c) \in Nat
  BY <1>3
<1>6. hits # {} => s \in hits
  <2>1. SUFFICES ASSUME hits # {} PROVE \E q \in hits : \A x \in hits : q <= x
    OBVIOUS
  <2>2. hits \in SUBSET Nat
    BY <1>5
  <2> HIDE DEF hits
  <2>3. PICK q \in hits : \A x \in hits : ~(x < q)
    BY <2>1, <2>2, LeastElement
  <2>4. \A x \in hits : q <= x
    BY <2>2, <2>3
  <2> QED BY <2>4
<1> HIDE DEF s
<1>7. CASE hits = {}
  <2>1. Lookup!Seek(r, p) = Len(c) + 1
    BY <1>4, <1>7
  <2>2. \A q \in p + 1 .. Len(c) : hash[groups[c[q]].key] # hash[keys[r]]
    BY <1>7
  <2> HIDE DEF hits
  <2> QED BY <1>3, <1>5, <2>1, <2>2 DEF c
<1>8. CASE hits # {}
  <2>1. Lookup!Seek(r, p) = s /\ s \in p + 1 .. Len(c) /\ hash[groups[c[s]].key] = hash[keys[r]]
    BY <1>4, <1>6, <1>8
  <2> HIDE DEF hits
  <2> QED BY <1>3, <1>5, <2>1 DEF c
<1> QED BY <1>7, <1>8

-----------------------------------------------------------------------------

\* A step that leaves the groups, the table and what is counted alone keeps
\* what is said of them alone.
LEMMA GroupsSame ==
  ASSUME LookupInv,
         UNCHANGED <<hash, resizes, groups, table, maxFill, created, spilled, seen>>,
         pc \in {"update", "flush"} <=> pc' \in {"update", "flush"}
  PROVE  /\ ChainsHold(table, groups)' /\ RowsNotLost' /\ FillKept'
         /\ (Lookup!NoEqualHashes' <=> Lookup!NoEqualHashes)
         /\ \A r : keys' = keys => ChainOf(r)' = ChainOf(r)
         /\ Lookup!NoEqualHashes =>
              /\ \A g, h \in 1 .. Len(groups') : groups'[g].key = groups'[h].key => g = h
              /\ \A k \in Keys : seen'[k] = spilled'[k] + Lookup!CountIn(groups', k)
<1>1. ChainsHold(table, groups)'
  BY DEF LookupInv, ChainsHold, BucketOf
<1>2. RowsNotLost'
  BY DEF LookupInv, RowsNotLost
<1>3. FillKept'
  BY DEF LookupInv, FillKept
<1>4. Lookup!NoEqualHashes' <=> Lookup!NoEqualHashes
  BY DEF Lookup!NoEqualHashes
<1>5. \A r : keys' = keys => ChainOf(r)' = ChainOf(r)
  BY DEF ChainOf, BucketOf
<1>6. Lookup!NoEqualHashes =>
        /\ \A g, h \in 1 .. Len(groups') : groups'[g].key = groups'[h].key => g = h
        /\ \A k \in Keys : seen'[k] = spilled'[k] + Lookup!CountIn(groups', k)
  BY DEF LookupInv, RowsPlaced
<1> QED BY <1>1, <1>2, <1>3, <1>4, <1>5, <1>6

LEMMA NextVectorKeeps == ASSUME LookupInv, Lookup!NextVector PROVE LookupInv'
<1>1. /\ pc = "next" /\ pc' = "lookup"
      /\ UNCHANGED <<hash, resizes, groups, table, maxFill, created, spilled, seen>>
      /\ UNCHANGED <<htMatches, groupsFound, groupsNotFound, keysNEq>>
  BY DEF Lookup!NextVector, Lookup!lookupVars
<1>2. keys' \in Seq(Keys) /\ Len(keys') <= VecSize
  <2>1. PICK n \in 1 .. VecSize : \E ks \in [1 .. n -> Keys] : keys' = ks
    BY DEF Lookup!NextVector
  <2> QED BY <2>1, LookupSizes
<1>3. LookupTyped'
  BY <1>1, <1>2 DEF LookupInv, LookupTyped
<1>4. RowsTraced'
  BY <1>1 DEF RowsTraced
<1>5. /\ ChainsHold(table, groups)' /\ RowsNotLost' /\ FillKept'
      /\ Lookup!NoEqualHashes' <=> Lookup!NoEqualHashes
      /\ Lookup!NoEqualHashes =>
           /\ \A g, h \in 1 .. Len(groups') : groups'[g].key = groups'[h].key => g = h
           /\ \A k \in Keys : seen'[k] = spilled'[k] + Lookup!CountIn(groups', k)
  BY <1>1, GroupsSame
<1>6. RowsPlaced'
  BY <1>1, <1>5 DEF RowsPlaced
<1> QED BY <1>3, <1>4, <1>5, <1>6 DEF LookupInv

\* Rows whose chain has no entry with their hash have no group.
LEMMA NoEntryNoGroup ==
  ASSUME LookupTyped, ChainsHold(table, groups), NEW r \in 1 .. Len(keys), Lookup!Seek(r, 0) > Len(ChainOf(r))
  PROVE  \A g \in 1 .. Len(groups) : groups[g].key # keys[r]
<1>1. SUFFICES ASSUME NEW g \in 1 .. Len(groups), groups[g].key = keys[r] PROVE FALSE
  OBVIOUS
<1>2. g \in Elems(ChainOf(r))
  BY <1>1, SeekFacts
<1>3. PICK q \in 1 .. Len(ChainOf(r)) : ChainOf(r)[q] = g
  BY <1>2 DEF Elems
<1>4. hash[groups[ChainOf(r)[q]].key] # hash[keys[r]]
  <2>1. \A x \in 0 + 1 .. Len(ChainOf(r)) : hash[groups[ChainOf(r)[x]].key] # hash[keys[r]]
    BY SeekFacts
  <2> QED BY <2>1
<1> QED BY <1>1, <1>3, <1>4

LEMMA htLookupKeeps == ASSUME LookupInv, Lookup!htLookup PROVE LookupInv'
<1> DEFINE hits == {r \in DOMAIN keys : Lookup!InChain(r, Lookup!Seek(r, 0))}
           n == Len(keys)
<1>1. /\ pc = "lookup" /\ pc' = "compare" /\ keysNEq' = <<>> /\ keys' = keys
      /\ UNCHANGED <<hash, resizes, groups, table, maxFill, created, spilled, seen>>
      /\ htMatches' = [r \in 1 .. VecSize |-> IF r \in hits THEN Lookup!chain(r)[Lookup!Seek(r, 0)] ELSE htMatches[r]]
      /\ groupsFound' = Lookup!Those(Lookup!Numbers(n), hits)
      /\ groupsNotFound' = Lookup!Those(Lookup!Numbers(n), DOMAIN keys \ hits)
  BY DEF Lookup!htLookup, Lookup!Rows
<1>2. /\ LookupTyped /\ ChainsHold(table, groups)
      /\ keys \in Seq(Keys) /\ DOMAIN keys = 1 .. n /\ n \in Nat /\ n <= VecSize /\ VecSize \in Nat
      /\ htMatches \in [1 .. VecSize -> Nat] /\ groups \in Seq(GroupRecords)
  BY LookupSizes DEF LookupInv, LookupTyped
<1>3. \A r \in 1 .. n : r \in hits <=> Lookup!Seek(r, 0) <= Len(ChainOf(r))
  BY <1>2, ChainIs DEF Lookup!InChain
<1>4. hits \subseteq 1 .. n
  BY <1>2
<1>h. DOMAIN keys \ hits = (1 .. n) \ hits
  BY <1>2
<1> HIDE DEF hits
<1>5. ASSUME NEW r \in hits
      PROVE  /\ htMatches'[r] \in Elems(ChainOf(r)) /\ htMatches'[r] \in 1 .. Len(groups)
             /\ hash[groups[htMatches'[r]].key] = hash[keys[r]]
  <2>1. r \in 1 .. n /\ r \in 1 .. VecSize
    BY <1>2, <1>4
  <2> DEFINE c == ChainOf(r)
             q == Lookup!Seek(r, 0)
  <2>2. htMatches'[r] = c[q]
    BY <1>1, <2>1, ChainIs
  <2>3. /\ q \in 0 + 1 .. Len(c) /\ hash[groups[c[q]].key] = hash[keys[r]] /\ c \in Seq(Nat)
        /\ Elems(c) = {g \in 1 .. Len(groups) : BucketOf(table, groups[g].key) = BucketOf(table, keys[r])}
    BY <1>2, <1>3, <2>1, SeekFacts
  <2> HIDE DEF c, q
  <2>4. c[q] \in Elems(c)
    BY <2>3 DEF Elems
  <2> QED BY <2>2, <2>3, <2>4 DEF c
<1>6. ASSUME NEW r \in (1 .. n) \ hits
      PROVE  \A g \in 1 .. Len(groups) : groups[g].key # keys[r]
  <2>1. Lookup!Seek(r, 0) > Len(ChainOf(r)) /\ r \in 1 .. n
    <3>1. Lookup!Seek(r, 0) \in Nat /\ ChainOf(r) \in Seq(Nat)
      BY <1>2, SeekFacts
    <3>2. Len(ChainOf(r)) \in Nat
      BY <3>1
    <3> QED BY <1>3, <3>1, <3>2
  <2> QED BY <1>2, <2>1, NoEntryNoGroup
<1>7. /\ groupsFound' \in Seq(1 .. n) /\ Len(groupsFound') <= n /\ Elems(groupsFound') = hits
      /\ groupsNotFound' \in Seq(1 .. n) /\ Elems(groupsNotFound') = (1 .. n) \ hits
  <2>1. /\ Lookup!Numbers(n) \in Seq(1 .. n) /\ Len(Lookup!Numbers(n)) = n
        /\ Elems(Lookup!Numbers(n)) = 1 .. n
    BY <1>2, NumbersFacts
  <2>2. \A A : /\ Lookup!Those(Lookup!Numbers(n), A) \in Seq(1 .. n)
               /\ Len(Lookup!Those(Lookup!Numbers(n), A)) <= n
               /\ Elems(Lookup!Those(Lookup!Numbers(n), A)) = (1 .. n) \cap A
    BY <2>1, ThoseFacts
  <2>3. (1 .. n) \cap hits = hits /\ (1 .. n) \cap ((1 .. n) \ hits) = (1 .. n) \ hits
    BY <1>4
  <2> QED BY <1>1, <1>h, <2>2, <2>3
<1>8. htMatches' \in [1 .. VecSize -> Nat]
  <2>1. ASSUME NEW r \in 1 .. VecSize PROVE htMatches'[r] \in Nat
    <3>1. r \in hits => htMatches'[r] \in Nat
      BY <1>5
    <3>2. r \notin hits => htMatches'[r] = htMatches[r]
      BY <1>1
    <3> QED BY <1>2, <3>1, <3>2
  <2>2. htMatches' = [r \in 1 .. VecSize |-> htMatches'[r]]
    BY <1>1
  <2> QED BY <2>1, <2>2
<1>9. LookupTyped'
  BY <1>1, <1>2, <1>8 DEF LookupTyped
<1>10. /\ ChainsHold(table, groups)' /\ RowsNotLost' /\ FillKept'
       /\ Lookup!NoEqualHashes' <=> Lookup!NoEqualHashes
       /\ \A r : ChainOf(r)' = ChainOf(r)
       /\ Lookup!NoEqualHashes =>
            /\ \A g, h \in 1 .. Len(groups') : groups'[g].key = groups'[h].key => g = h
            /\ \A k \in Keys : seen'[k] = spilled'[k] + Lookup!CountIn(groups', k)
  BY <1>1, GroupsSame
<1>11. RowsTraced'
  <2>1. \A r \in 1 .. n : r \in Elems(groupsNotFound') \/ htMatches'[r] \in 1 .. Len(groups)
    BY <1>5, <1>7
  <2>2. \A r \in Elems(groupsFound') : htMatches'[r] \in Elems(ChainOf(r)')
                                       /\ hash[groups[htMatches'[r]].key] = hash[keys[r]]
    BY <1>5, <1>7, <1>10
  <2> HIDE DEF n
  <2> QED BY <1>1, <1>7, <2>1, <2>2 DEF RowsTraced, n
<1>12. RowsPlaced'
  <2>1. ASSUME Lookup!NoEqualHashes, NEW r \in hits PROVE groups[htMatches'[r]].key = keys[r]
    <3>1. groups[htMatches'[r]].key \in Keys /\ keys[r] \in Keys
      BY <1>2, <1>4, <1>5, RecordFields, ElementOf
    <3> QED BY <1>5, <2>1, <3>1 DEF Lookup!NoEqualHashes
  <2>2. \A r \in 1 .. n : r \in Elems(groupsNotFound') <=> r \notin hits
    BY <1>7
  <2>3. Lookup!NoEqualHashes =>
         \A r \in 1 .. n :
           IF r \in Elems(groupsNotFound') THEN \A g \in 1 .. Len(groups) : groups[g].key # keys[r]
           ELSE groups[htMatches'[r]].key = keys[r]
    BY <1>6, <2>1, <2>2
  <2> HIDE DEF n
  <2> QED BY <1>1, <1>10, <2>3 DEF RowsPlaced, n
<1> QED BY <1>9, <1>10, <1>11, <1>12 DEF LookupInv

LEMMA NoElements == ASSUME NEW S, NEW s \in Seq(S), Elems(s) = {} PROVE s = <<>>
<1>1. Len(s) = 0
  <2>1. SUFFICES ASSUME Len(s) # 0 PROVE FALSE
    OBVIOUS
  <2>2. 1 \in 1 .. Len(s)
    BY <2>1
  <2>3. s[1] \in Elems(s)
    BY <2>2 DEF Elems
  <2> QED BY <2>3
<1> QED BY <1>1

LEMMA keyEqualityKeeps == ASSUME LookupInv, Lookup!keyEquality PROVE LookupInv'
<1> DEFINE n == Len(keys)
           A == {r \in Elems(groupsFound) : groups[htMatches[r]].key # keys[r]}
           k2 == Lookup!Those(groupsFound, A)
<1>1. /\ LookupTyped /\ RowsTraced /\ RowsPlaced /\ pc = "compare" /\ keysNEq = <<>>
      /\ groupsFound \in Seq(1 .. n) /\ Len(groupsFound) <= n /\ n \in Nat
      /\ keys \in Seq(Keys) /\ groups \in Seq(GroupRecords)
  BY DEF Lookup!keyEquality, LookupInv, RowsTraced, LookupTyped
<1>2. Lookup!ToSet(groupsFound) = Elems(groupsFound)
  BY <1>1, LookupElems
<1>3. k2 \in Seq(1 .. n) /\ Len(k2) <= Len(groupsFound) /\ Elems(k2) = Elems(groupsFound) \cap A
  BY <1>1, ThoseFacts
<1>4. /\ pc' = "follow" /\ keysNEq' = <<>> \o k2
      /\ UNCHANGED <<hash, resizes, keys, groups, table, maxFill, created, spilled, seen>>
      /\ UNCHANGED <<htMatches, groupsFound, groupsNotFound>>
  BY <1>1, <1>2 DEF Lookup!keyEquality
<1> HIDE DEF k2
<1>5. keysNEq' = k2
  BY <1>3, <1>4
<1>6. Elems(k2) = A /\ Len(k2) <= n
  <2>1. Len(groupsFound) \in Nat /\ Len(k2) \in Nat
    BY <1>1, <1>3
  <2> QED BY <1>1, <1>3, <2>1
<1>7. LookupTyped'
  BY <1>1, <1>4 DEF LookupTyped
<1>8. /\ ChainsHold(table, groups)' /\ RowsNotLost' /\ FillKept'
      /\ Lookup!NoEqualHashes' <=> Lookup!NoEqualHashes
      /\ \A r : ChainOf(r)' = ChainOf(r)
      /\ Lookup!NoEqualHashes =>
           /\ \A g, h \in 1 .. Len(groups') : groups'[g].key = groups'[h].key => g = h
           /\ \A k \in Keys : seen'[k] = spilled'[k] + Lookup!CountIn(groups', k)
  BY <1>1, <1>4, GroupsSame
<1>9. RowsTraced'
  <2>1. \A r \in Elems(k2) : htMatches[r] \in Elems(ChainOf(r)')
    BY <1>1, <1>3, <1>8 DEF RowsTraced
  <2>2. /\ groupsNotFound \in Seq(1 .. n)
        /\ \A r \in 1 .. n : r \in Elems(groupsNotFound) \/ htMatches[r] \in 1 .. Len(groups)
    BY <1>1 DEF RowsTraced
  <2> QED BY <1>3, <1>4, <1>5, <1>6, <2>1, <2>2 DEF RowsTraced
<1>10. RowsPlaced'
  <2>1. ASSUME Lookup!NoEqualHashes PROVE k2 = <<>>
    <3>1. ASSUME NEW r \in A PROVE FALSE
      <4>1. /\ r \in 1 .. n /\ r \in Elems(groupsFound) /\ htMatches[r] \in Elems(ChainOf(r))
            /\ hash[groups[htMatches[r]].key] = hash[keys[r]] /\ groups[htMatches[r]].key # keys[r]
        BY <1>1, ElemsFacts DEF RowsTraced
      <4>2. htMatches[r] \in 1 .. Len(groups)
        <5>1. Elems(ChainOf(r)) = {g \in 1 .. Len(groups) : BucketOf(table, groups[g].key) = BucketOf(table, keys[r])}
          <6>1. ChainsHold(table, groups) /\ 0 \in Nat
            BY DEF LookupInv
          <6> QED BY <1>1, <4>1, <6>1, SeekFacts
        <5> QED BY <4>1, <5>1
      <4>3. groups[htMatches[r]].key \in Keys /\ keys[r] \in Keys
        BY <1>1, <4>1, <4>2, RecordFields, ElementOf
      <4> QED BY <2>1, <4>1, <4>3 DEF Lookup!NoEqualHashes
    <3> QED BY <3>1, <1>3, <1>6, NoElements
  <2>2. Lookup!NoEqualHashes =>
          \A r \in 1 .. n :
           IF r \in Elems(groupsNotFound) THEN \A g \in 1 .. Len(groups) : groups[g].key # keys[r]
           ELSE groups[htMatches[r]].key = keys[r]
    BY <1>1 DEF RowsPlaced
  <2> HIDE DEF n
  <2> QED BY <1>4, <1>5, <1>8, <2>1, <2>2 DEF RowsPlaced, n
<1> QED BY <1>7, <1>8, <1>9, <1>10 DEF LookupInv

LEMMA FindGroupsDoneKeeps == ASSUME LookupInv, Lookup!FindGroupsDone PROVE LookupInv'
<1>1. /\ pc = "follow" /\ pc' = "create"
      /\ UNCHANGED <<hash, resizes, keys, groups, table, maxFill, created, spilled, seen>>
      /\ UNCHANGED <<htMatches, groupsFound, groupsNotFound, keysNEq>>
  BY DEF Lookup!FindGroupsDone, Lookup!lookupVars
<1>2. /\ ChainsHold(table, groups)' /\ RowsNotLost' /\ FillKept'
      /\ Lookup!NoEqualHashes' <=> Lookup!NoEqualHashes
      /\ Lookup!NoEqualHashes =>
           /\ \A g, h \in 1 .. Len(groups') : groups'[g].key = groups'[h].key => g = h
           /\ \A k \in Keys : seen'[k] = spilled'[k] + Lookup!CountIn(groups', k)
  BY <1>1, GroupsSame
<1>3. LookupTyped'
  BY <1>1 DEF LookupInv, LookupTyped
<1>4. RowsTraced'
  BY <1>1 DEF LookupInv, RowsTraced
<1>5. RowsPlaced'
  BY <1>1, <1>2 DEF LookupInv, RowsPlaced
<1> QED BY <1>2, <1>3, <1>4, <1>5 DEF LookupInv

LEMMA htFollowKeeps == ASSUME LookupInv, Lookup!htFollow PROVE LookupInv'
<1> DEFINE n == Len(keys)
           at(r) == CHOOSE q \in DOMAIN Lookup!chain(r) : Lookup!chain(r)[q] = htMatches[r]
           to(r) == Lookup!Seek(r, at(r))
           hits == {r \in Lookup!ToSet(keysNEq) : Lookup!InChain(r, to(r))}
           passed(i) == [x \in 1 .. to(keysNEq[i]) - at(keysNEq[i]) - 1 |-> i]
           found == Lookup!Those(keysNEq, hits)
           all == [i \in DOMAIN keysNEq |-> passed(i)]
<1>1. /\ pc = "follow" /\ keysNEq # <<>> /\ keys' = keys
      /\ UNCHANGED <<hash, resizes, groups, table, maxFill, created, spilled, seen>>
      /\ htMatches' = [r \in 1 .. VecSize |-> IF r \in hits THEN Lookup!chain(r)[to(r)] ELSE htMatches[r]]
      /\ groupsFound' = found
      /\ groupsNotFound' = groupsNotFound \o Lookup!FlattenSeq(all)
      /\ \/ pc' = "create"
         \/ pc' = "compare" /\ keysNEq' = <<>>
  BY DEF Lookup!htFollow, Lookup!Rows
<1>2. /\ LookupTyped /\ ChainsHold(table, groups) /\ RowsTraced
      /\ keys \in Seq(Keys) /\ n \in Nat /\ n <= VecSize /\ VecSize \in Nat
      /\ htMatches \in [1 .. VecSize -> Nat] /\ groups \in Seq(GroupRecords)
      /\ keysNEq \in Seq(1 .. n) /\ Len(keysNEq) <= n
      /\ \A r \in Elems(keysNEq) : htMatches[r] \in Elems(ChainOf(r))
      /\ groupsNotFound \in Seq(1 .. n)
      /\ \A r \in 1 .. n : r \in Elems(groupsNotFound) \/ htMatches[r] \in 1 .. Len(groups)
  <2>1. LookupTyped /\ ChainsHold(table, groups) /\ RowsTraced
    BY DEF LookupInv
  <2>2. /\ keys \in Seq(Keys) /\ n \in Nat /\ n <= VecSize /\ VecSize \in Nat
        /\ htMatches \in [1 .. VecSize -> Nat] /\ groups \in Seq(GroupRecords)
    BY <2>1, LookupSizes DEF LookupTyped
  <2>3. pc = "follow"
    BY <1>1
  <2> HIDE DEF hits, found, all, passed, to, at
  <2>4. /\ keysNEq \in Seq(1 .. n) /\ Len(keysNEq) <= n
        /\ \A r \in Elems(keysNEq) : htMatches[r] \in Elems(ChainOf(r))
        /\ groupsNotFound \in Seq(1 .. n)
        /\ \A r \in 1 .. n : r \in Elems(groupsNotFound) \/ htMatches[r] \in 1 .. Len(groups)
    BY <2>1, <2>3 DEF RowsTraced
  <2> QED BY <2>1, <2>2, <2>4
<1>3. hits = {r \in Elems(keysNEq) : to(r) <= Len(ChainOf(r))} /\ Elems(keysNEq) \subseteq 1 .. n
  <2>1. Lookup!ToSet(keysNEq) = Elems(keysNEq) /\ Elems(keysNEq) \subseteq 1 .. n
    BY <1>2, LookupElems, ElemsFacts
  <2> HIDE DEF to
  <2> QED BY <2>1, ChainIs DEF Lookup!InChain
<1>4. ASSUME NEW r \in Elems(keysNEq)
      PROVE  /\ at(r) \in Nat /\ to(r) \in Nat /\ to(r) > at(r)
             /\ to(r) <= Len(ChainOf(r)) =>
                  /\ Lookup!chain(r)[to(r)] \in Elems(ChainOf(r))
                  /\ Lookup!chain(r)[to(r)] \in 1 .. Len(groups)
                  /\ hash[groups[Lookup!chain(r)[to(r)]].key] = hash[keys[r]]
  <2> DEFINE c == ChainOf(r)
  <2>1. Lookup!chain(r) = c /\ r \in 1 .. n
    BY <1>3, ChainIs
  <2>2. /\ c \in Seq(Nat) /\ htMatches[r] \in Elems(c)
        /\ Elems(c) = {g \in 1 .. Len(groups) : BucketOf(table, groups[g].key) = BucketOf(table, keys[r])}
    <3>1. 0 \in Nat
      OBVIOUS
    <3> QED BY <1>2, <2>1, <3>1, SeekFacts
  <2> HIDE DEF c
  <2>3. at(r) \in 1 .. Len(c)
    <3>1. \E q \in DOMAIN c : c[q] = htMatches[r]
      BY <2>2 DEF Elems
    <3>2. at(r) \in DOMAIN c
      BY <2>1, <3>1
    <3> QED BY <2>2, <3>2
  <2> HIDE DEF at
  <2>4. at(r) \in Nat /\ Len(c) \in Nat
    BY <2>2, <2>3
  <2>5. /\ to(r) \in Nat
        /\ to(r) <= Len(c) => to(r) \in at(r) + 1 .. Len(c) /\ hash[groups[c[to(r)]].key] = hash[keys[r]]
        /\ to(r) > Len(c) => to(r) = Len(c) + 1
    BY <1>2, <2>1, <2>4, SeekFacts DEF c
  <2> HIDE DEF to
  <2>6. to(r) > at(r)
    BY <2>3, <2>4, <2>5
  <2>7. to(r) <= Len(c) => c[to(r)] \in Elems(c)
    BY <2>4, <2>5 DEF Elems
  <2> QED BY <2>1, <2>2, <2>4, <2>5, <2>6, <2>7 DEF c
<1> HIDE DEF at, to
<1>5. ASSUME NEW r \in hits
      PROVE  /\ r \in 1 .. n /\ htMatches'[r] \in Elems(ChainOf(r)) /\ htMatches'[r] \in 1 .. Len(groups)
             /\ hash[groups[htMatches'[r]].key] = hash[keys[r]]
  <2>1. r \in Elems(keysNEq) /\ to(r) <= Len(ChainOf(r)) /\ r \in 1 .. n
    BY <1>3
  <2>2. r \in 1 .. VecSize
    BY <1>2, <2>1
  <2>3. htMatches'[r] = Lookup!chain(r)[to(r)]
    BY <1>1, <2>2
  <2> QED BY <1>4, <2>1, <2>3
<1>6. all \in Seq(Seq(1 .. n))
  <2>1. DOMAIN keysNEq = 1 .. Len(keysNEq) /\ Len(keysNEq) \in Nat
    BY <1>2
  <2>2. ASSUME NEW i \in 1 .. Len(keysNEq) PROVE passed(i) \in Seq(1 .. n)
    <3>1. keysNEq[i] \in Elems(keysNEq)
      BY DEF Elems
    <3>2. to(keysNEq[i]) - at(keysNEq[i]) - 1 \in Nat
      <4>1. at(keysNEq[i]) \in Nat /\ to(keysNEq[i]) \in Nat /\ to(keysNEq[i]) > at(keysNEq[i])
        BY <1>4, <3>1
      <4> QED BY <4>1
    <3>3. i \in 1 .. n
      BY <1>2, <2>1
    <3> QED BY <3>2, <3>3
  <2> HIDE DEF passed
  <2> QED BY <2>1, <2>2
<1>7. found \in Seq(1 .. n) /\ Len(found) <= n /\ Elems(found) = hits
  <2>1. found \in Seq(1 .. n) /\ Len(found) <= Len(keysNEq) /\ Elems(found) = Elems(keysNEq) \cap hits
    BY <1>2, ThoseFacts
  <2>2. Len(found) \in Nat /\ Len(keysNEq) \in Nat
    BY <1>2, <2>1
  <2> QED BY <1>2, <1>3, <2>1, <2>2
<1> HIDE DEF all, found, hits
<1>8. groupsNotFound' \in Seq(1 .. n) /\ Elems(groupsNotFound) \subseteq Elems(groupsNotFound')
  <2>1. FlattenSeq(all) \in Seq(1 .. n) /\ Lookup!FlattenSeq(all) = FlattenSeq(all)
    BY <1>6, FlattenFacts, LookupFlatten
  <2>2. \A s, t \in Seq(1 .. n) : s \o t \in Seq(1 .. n) /\ Elems(s \o t) = Elems(s) \cup Elems(t)
    BY ElemsFacts
  <2> QED BY <1>1, <1>2, <2>1, <2>2
<1>9. htMatches' \in [1 .. VecSize -> Nat]
  <2>1. ASSUME NEW r \in 1 .. VecSize PROVE htMatches'[r] \in Nat
    <3>1. r \in hits => htMatches'[r] \in Nat
      BY <1>5
    <3>2. r \notin hits => htMatches'[r] = htMatches[r]
      BY <1>1
    <3> QED BY <1>2, <3>1, <3>2
  <2>2. htMatches' = [r \in 1 .. VecSize |-> htMatches'[r]]
    BY <1>1
  <2> QED BY <2>1, <2>2
<1>10. LookupTyped'
  BY <1>1, <1>2, <1>9 DEF LookupTyped
<1>11. /\ ChainsHold(table, groups)' /\ RowsNotLost' /\ FillKept'
       /\ Lookup!NoEqualHashes' <=> Lookup!NoEqualHashes
       /\ \A r : ChainOf(r)' = ChainOf(r)
  BY <1>1, GroupsSame
<1>12. RowsTraced'
  <2>1. \A r \in 1 .. n : r \in Elems(groupsNotFound') \/ htMatches'[r] \in 1 .. Len(groups)
    <3>1. ASSUME NEW r \in 1 .. n, r \notin hits PROVE htMatches'[r] = htMatches[r]
      <4>1. r \in 1 .. VecSize
        BY <1>2
      <4> QED BY <1>1, <3>1, <4>1
    <3> QED BY <1>2, <1>5, <1>8, <3>1
  <2>2. \A r \in Elems(groupsFound') : htMatches'[r] \in Elems(ChainOf(r)')
                                       /\ hash[groups[htMatches'[r]].key] = hash[keys[r]]
    BY <1>1, <1>5, <1>7, <1>11
  <2> HIDE DEF n
  <2>3. CASE pc' = "create"
    BY <1>1, <1>8, <2>1, <2>3 DEF RowsTraced, n
  <2>4. CASE pc' = "compare" /\ keysNEq' = <<>>
    BY <1>1, <1>7, <1>8, <2>1, <2>2, <2>4 DEF RowsTraced, n
  <2> QED BY <1>1, <2>3, <2>4
<1>13. RowsPlaced'
  <2>1. ~Lookup!NoEqualHashes
    BY <1>1 DEF LookupInv, RowsPlaced
  <2> QED BY <2>1, <1>11 DEF RowsPlaced
<1> QED BY <1>10, <1>11, <1>12, <1>13 DEF LookupInv

\* The keys of the listed rows, each once
LEMMA MissingFacts ==
  ASSUME keys \in Seq(Keys), groupsNotFound \in Seq(1 .. Len(keys))
  PROVE  /\ Lookup!MissingKeys \in Seq(Keys) /\ Distinct(Lookup!MissingKeys)
         /\ Elems(Lookup!MissingKeys) = {keys[r] : r \in Elems(groupsNotFound)}
         /\ Len(Lookup!MissingKeys) <= Len(keys)
<1> DEFINE n == Len(keys)
           l == Len(groupsNotFound)
           ks == [i \in DOMAIN groupsNotFound |-> keys[groupsNotFound[i]]]
           A == {i \in DOMAIN ks : \A m \in 1 .. i - 1 : ks[m] # ks[i]}
           firsts == Lookup!Those(Lookup!Numbers(Len(ks)), A)
           ms == Lookup!MissingKeys
<1>1. ms = [i \in DOMAIN firsts |-> ks[firsts[i]]]
  BY DEF Lookup!MissingKeys
<1>2. l \in Nat /\ n \in Nat /\ DOMAIN groupsNotFound = 1 .. l
  OBVIOUS
<1>3. \A i \in 1 .. l : groupsNotFound[i] \in 1 .. n /\ keys[groupsNotFound[i]] \in Keys
  OBVIOUS
<1>4. ks \in Seq(Keys) /\ Len(ks) = l /\ \A i \in 1 .. l : ks[i] = keys[groupsNotFound[i]]
  BY <1>2, <1>3
<1>5. {ks[i] : i \in 1 .. l} = {keys[r] : r \in Elems(groupsNotFound)}
  BY <1>2, <1>4 DEF Elems
<1> HIDE DEF ks, ms
<1>6. A \subseteq 1 .. l /\ DOMAIN ks = 1 .. l
  BY <1>4
<1>7. firsts \in Seq(1 .. l) /\ Elems(firsts) = A /\ Distinct(firsts)
  <2>1. /\ Lookup!Numbers(l) \in Seq(1 .. l) /\ Elems(Lookup!Numbers(l)) = 1 .. l
        /\ Distinct(Lookup!Numbers(l))
    BY <1>2, NumbersFacts
  <2> HIDE DEF A
  <2>2. /\ firsts \in Seq(1 .. l) /\ Elems(firsts) = Elems(Lookup!Numbers(l)) \cap A
        /\ Distinct(Lookup!Numbers(l)) => Distinct(firsts)
    BY <1>4, <2>1, ThoseFacts
  <2> QED BY <1>6, <2>1, <2>2
<1> DEFINE f == Len(firsts)
<1>8. f \in Nat /\ DOMAIN firsts = 1 .. f /\ \A i \in 1 .. f : firsts[i] \in A /\ firsts[i] \in 1 .. l
  <2> HIDE DEF A, firsts
  <2>1. f \in Nat /\ DOMAIN firsts = 1 .. f
    BY <1>7
  <2>2. \A i \in 1 .. f : firsts[i] \in Elems(firsts) /\ firsts[i] \in 1 .. l
    BY <1>7 DEF Elems
  <2> QED BY <1>7, <2>1, <2>2
<1>9. \A a, b \in A : ks[a] = ks[b] => a = b
  <2>1. ASSUME NEW a \in A, NEW b \in A, ks[a] = ks[b], a < b PROVE FALSE
    <3>1. a \in 1 .. b - 1
      BY <1>6, <1>2, <2>1
    <3> QED BY <2>1, <3>1
  <2> QED BY <1>2, <1>6, <2>1
<1>10. \A i \in 1 .. l : \E a \in A : ks[a] = ks[i]
  <2>1. SUFFICES ASSUME NEW i \in 1 .. l PROVE \E a \in A : ks[a] = ks[i]
    OBVIOUS
  <2> DEFINE T == {a \in 1 .. l : ks[a] = ks[i]}
  <2>2. T \in SUBSET Nat /\ T # {}
    BY <1>2
  <2> HIDE DEF T
  <2>3. PICK a \in T : \A b \in T : ~(b < a)
    BY <2>2, LeastElement
  <2>4. a \in 1 .. l /\ ks[a] = ks[i]
    BY <2>3 DEF T
  <2>5. \A m \in 1 .. a - 1 : ks[m] # ks[a]
    <3>1. SUFFICES ASSUME NEW m \in 1 .. a - 1, ks[m] = ks[a] PROVE FALSE
      OBVIOUS
    <3>2. m \in 1 .. l /\ m < a
      BY <1>2, <2>4
    <3>3. m \in T
      BY <2>4, <3>1, <3>2 DEF T
    <3> QED BY <2>3, <3>2, <3>3
  <2> QED BY <1>6, <2>4, <2>5
<1> HIDE DEF A, firsts
<1>11. \A i \in 1 .. f : ks[firsts[i]] \in Keys
  BY <1>4, <1>8
<1>12. ms \in Seq(Keys) /\ Len(ms) = f /\ \A i \in 1 .. f : ms[i] = ks[firsts[i]]
  BY <1>1, <1>8, <1>11
<1>13. Distinct(ms)
  <2>1. ASSUME NEW i \in 1 .. f, NEW j \in 1 .. f, ms[i] = ms[j] PROVE i = j
    <3>1. firsts[i] = firsts[j]
      BY <1>8, <1>9, <1>12, <2>1
    <3> QED BY <1>7, <3>1 DEF Distinct
  <2> QED BY <1>12, <2>1 DEF Distinct
<1>14. Elems(ms) = {ks[i] : i \in 1 .. l}
  <2>1. ASSUME NEW e \in Elems(ms) PROVE e \in {ks[i] : i \in 1 .. l}
    <3>1. PICK i \in 1 .. f : e = ms[i]
      BY <1>12 DEF Elems
    <3> QED BY <1>8, <1>12, <3>1
  <2>2. ASSUME NEW i \in 1 .. l PROVE ks[i] \in Elems(ms)
    <3>1. PICK a \in A : ks[a] = ks[i]
      BY <1>10
    <3>2. PICK j \in 1 .. f : firsts[j] = a
      BY <1>7 DEF Elems
    <3> QED BY <1>12, <3>1, <3>2 DEF Elems
  <2> QED BY <2>1, <2>2
<1>15. f <= n
  <2> DEFINE row == [i \in 1 .. f |-> groupsNotFound[firsts[i]]]
  <2>1. row \in [1 .. f -> 1 .. n] /\ \A i \in 1 .. f : ms[i] = keys[row[i]]
    BY <1>3, <1>4, <1>8, <1>12
  <2> HIDE DEF row
  <2>2. \A i, j \in 1 .. f : row[i] = row[j] => i = j
    <3>1. \A i, j \in 1 .. f : row[i] = row[j] => ms[i] = ms[j]
      BY <2>1
    <3> QED BY <1>12, <1>13, <3>1 DEF Distinct
  <2>3. row \in Injection(1 .. f, 1 .. n)
    BY <2>1, <2>2 DEF Injection, IsInjective
  <2>4. IsFiniteSet(1 .. n) /\ Cardinality(1 .. n) = n /\ Cardinality(1 .. f) = f
    <3>1. \A x \in Nat : IsFiniteSet(1 .. x) /\ Cardinality(1 .. x) = x
      <4>1. ASSUME NEW x \in Nat PROVE IsFiniteSet(1 .. x) /\ Cardinality(1 .. x) = x
        <5>1. 1 \in Int /\ x \in Int /\ (1 > x => x = 0) /\ x - 1 + 1 = x
          OBVIOUS
        <5> QED BY <5>1, FS_Interval
      <4> QED BY <4>1
    <3> QED BY <1>2, <1>8, <3>1
  <2> QED BY <2>3, <2>4, FS_Injection
<1> QED BY <1>5, <1>12, <1>13, <1>14, <1>15 DEF ms

LEMMA createMissingGroupsKeeps == ASSUME LookupInv, Lookup!createMissingGroups PROVE LookupInv'
<1> DEFINE n == Len(keys)
           l == Len(groups)
           ms == Lookup!MissingKeys
           gs == Lookup!Grown
           cap == Lookup!capacityFor(2 * Len(gs))
           grow == resizes /\ ms # <<>> /\ Len(gs) > maxFill
<1>1. /\ pc = "create" /\ pc' = "update" /\ groups' = gs
      /\ UNCHANGED <<hash, resizes, keys, groupsFound, groupsNotFound, keysNEq, spilled, seen>>
      /\ table' = IF grow THEN Lookup!InsertAll(Lookup!Empty(cap), gs, 1)
                  ELSE Lookup!InsertAll(table, gs, Len(groups) + 1)
      /\ maxFill' = IF grow THEN Lookup!fillOf(cap) ELSE maxFill
      /\ created' = IF resizes THEN created ELSE created + Len(ms)
      /\ htMatches' = Lookup!PointTo(gs)
  BY DEF Lookup!createMissingGroups
<1>2. /\ LookupTyped /\ ChainsHold(table, groups) /\ RowsTraced /\ RowsPlaced /\ RowsNotLost /\ FillKept
      /\ keys \in Seq(Keys) /\ n \in Nat /\ n <= VecSize /\ VecSize \in Nat \ {0} /\ l \in Nat
      /\ htMatches \in [1 .. VecSize -> Nat] /\ groups \in Seq(GroupRecords)
      /\ maxFill \in Nat \ {0} /\ created \in Nat /\ resizes \in BOOLEAN
      /\ groupsNotFound \in Seq(1 .. n)
      /\ \A r \in 1 .. n : r \in Elems(groupsNotFound) \/ htMatches[r] \in 1 .. l
  BY <1>1, LookupSizes DEF LookupInv, LookupTyped, RowsTraced
<1>3. /\ ms \in Seq(Keys) /\ Distinct(ms) /\ Elems(ms) = {keys[r] : r \in Elems(groupsNotFound)}
      /\ Len(ms) <= n /\ Len(ms) \in Nat
  BY <1>2, MissingFacts
<1>4. gs = groups \o [i \in DOMAIN ms |-> [key |-> ms[i], count |-> 0]]
  BY DEF Lookup!Grown
<1>p. htMatches' = [r \in 1 .. VecSize |->
                       IF r \in Elems(groupsNotFound)
                       THEN CHOOSE g \in l + 1 .. Len(gs) : gs[g].key = keys[r]
                       ELSE htMatches[r]]
  <2>1. Lookup!ToSet(groupsNotFound) = Elems(groupsNotFound)
    BY <1>2, LookupElems
  <2> HIDE DEF gs
  <2> QED BY <1>1, <2>1 DEF Lookup!PointTo, Lookup!Rows
<1> HIDE DEF ms, gs
<1>5. /\ gs \in Seq(GroupRecords) /\ Len(gs) = l + Len(ms)
      /\ (\A g \in 1 .. l : gs[g] = groups[g])
      /\ \A g \in l + 1 .. Len(gs) : gs[g].key = ms[g - l] /\ gs[g].count = 0
  <2> DEFINE new == [i \in DOMAIN ms |-> [key |-> ms[i], count |-> 0]]
  <2>1. \A i \in 1 .. Len(ms) : ms[i] \in Keys /\ [key |-> ms[i], count |-> 0] \in GroupRecords
    BY <1>3 DEF GroupRecords
  <2>2. new \in Seq(GroupRecords) /\ Len(new) = Len(ms) /\ \A i \in 1 .. Len(ms) : new[i] = [key |-> ms[i], count |-> 0]
    BY <1>3, <2>1
  <2> HIDE DEF new
  <2>3. groups \o new \in Seq(GroupRecords) /\ Len(groups \o new) = l + Len(new)
    <3>1. \A s, t \in Seq(GroupRecords) : s \o t \in Seq(GroupRecords) /\ Len(s \o t) = Len(s) + Len(t)
      BY ElemsFacts
    <3> QED BY <1>2, <2>2, <3>1
  <2>4. \A g \in 1 .. l : (groups \o new)[g] = groups[g]
    BY <1>2, <2>2
  <2>5. \A g \in l + 1 .. l + Len(new) : g - l \in 1 .. Len(ms) /\ (groups \o new)[g] = new[g - l]
    BY <1>2, <1>3, <2>2
  <2>6. gs = groups \o new
    BY <1>4 DEF new
  <2> DEFINE both == groups \o new
  <2>7. /\ both \in Seq(GroupRecords) /\ Len(both) = l + Len(ms)
        /\ \A g \in 1 .. l : both[g] = groups[g]
    BY <2>2, <2>3, <2>4
  <2>8. \A g \in l + 1 .. Len(both) : both[g].key = ms[g - l] /\ both[g].count = 0
    <3>1. SUFFICES ASSUME NEW g \in l + 1 .. l + Len(new) PROVE both[g].key = ms[g - l] /\ both[g].count = 0
      BY <2>2, <2>7
    <3>2. g - l \in 1 .. Len(ms) /\ both[g] = new[g - l]
      BY <2>5
    <3>3. both[g] = [key |-> ms[g - l], count |-> 0]
      BY <2>2, <3>2
    <3> HIDE DEF both
    <3> QED BY <3>3
  <2> HIDE DEF both
  <2> QED BY <2>6, <2>7, <2>8 DEF both
<1>6. Len(gs) \in Nat /\ Len(gs) >= l
  BY <1>2, <1>3, <1>5
<1>7. grow => /\ cap \in Nat \ {0} /\ Lookup!fillOf(cap) \in Nat \ {0} /\ Len(gs) <= Lookup!fillOf(cap)
  <2>1. SUFFICES ASSUME grow PROVE /\ cap \in Nat \ {0} /\ Lookup!fillOf(cap) \in Nat \ {0} /\ Len(gs) <= Lookup!fillOf(cap)
    OBVIOUS
  <2>2. 2 * Len(gs) \in Nat \ {0}
    BY <1>2, <1>6, <2>1
  <2>3. cap \in Nat \ {0} /\ Lookup!fillOf(cap) \in Nat /\ Lookup!fillOf(cap) >= 2 * Len(gs)
    BY <2>2, CapacityHolds
  <2> HIDE DEF cap
  <2> QED BY <1>6, <2>2, <2>3
<1> HIDE DEF cap
<1>8. ChainsHold(table', gs)
  <2>1. CASE grow
    <3>1. ChainsHold(Lookup!Empty(cap), <<>>)
      BY <1>7, <2>1, EmptyHolds
    <3>2. <<>> \in Seq(GroupRecords) /\ Len(<<>>) = 0
      OBVIOUS
    <3>3. ChainsHold(Lookup!InsertAll(Lookup!Empty(cap), gs, 0 + 1), gs)
      <4>1. PICK t : t = Lookup!Empty(cap)
        OBVIOUS
      <4>2. PICK none : none = <<>>
        OBVIOUS
      <4>3. /\ ChainsHold(t, none) /\ none \in Seq(GroupRecords) /\ Len(none) = 0
            /\ Len(gs) >= Len(none) /\ \A g \in 1 .. Len(none) : gs[g].key = none[g].key
        BY <1>6, <3>1, <3>2, <4>1, <4>2
      <4>4. ChainsHold(Lookup!InsertAll(t, gs, Len(none) + 1), gs)
        BY <1>5, <4>3, InsertAllHolds
      <4> QED BY <4>1, <4>3, <4>4
    <3>4. 0 + 1 = 1
      OBVIOUS
    <3> QED BY <1>1, <2>1, <3>3, <3>4
  <2>2. CASE ~grow
    <3>1. ChainsHold(Lookup!InsertAll(table, gs, Len(groups) + 1), gs)
      BY <1>2, <1>5, <1>6, InsertAllHolds
    <3> QED BY <1>1, <2>2, <3>1
  <2> QED BY <2>1, <2>2
<1>9. ChainsHold(table, groups)'
  BY <1>1, <1>8 DEF ChainsHold, BucketOf
<1>10. \A k : Lookup!CountIn(gs, k) = Lookup!CountIn(groups, k)
  BY <1>2, <1>5, <1>6, CountInGrown
<1>11. ASSUME NEW r \in 1 .. n
       PROVE  /\ htMatches'[r] \in 1 .. Len(gs)
              /\ r \in Elems(groupsNotFound) => gs[htMatches'[r]].key = keys[r]
              /\ r \notin Elems(groupsNotFound) => htMatches'[r] = htMatches[r] /\ gs[htMatches'[r]] = groups[htMatches[r]]
  <2>1. r \in 1 .. VecSize
    BY <1>2
  <2>2. CASE r \in Elems(groupsNotFound)
    <3>1. PICK i \in 1 .. Len(ms) : ms[i] = keys[r]
      <4>1. keys[r] \in Elems(ms)
        BY <1>3, <2>2
      <4> QED BY <4>1 DEF Elems
    <3>2. l + i \in l + 1 .. Len(gs) /\ (l + i) - l = i
      BY <1>2, <1>3, <1>5
    <3>3. \E g \in l + 1 .. Len(gs) : gs[g].key = keys[r]
      BY <1>5, <3>1, <3>2
    <3>4. htMatches'[r] \in l + 1 .. Len(gs) /\ gs[htMatches'[r]].key = keys[r]
      BY <1>p, <2>1, <2>2, <3>3
    <3> QED BY <1>2, <1>6, <2>2, <3>4
  <2>3. CASE r \notin Elems(groupsNotFound)
    BY <1>p, <1>2, <1>5, <1>6, <2>1, <2>3
  <2> QED BY <2>2, <2>3
<1>12. htMatches' \in [1 .. VecSize -> Nat]
  <2>1. ASSUME NEW r \in 1 .. VecSize PROVE htMatches'[r] \in Nat
    <3>1. CASE r \in Elems(groupsNotFound)
      <4>1. r \in 1 .. n
        BY <1>2, <3>1, ElemsFacts
      <4> QED BY <1>6, <1>11, <4>1
    <3>2. CASE r \notin Elems(groupsNotFound)
      BY <1>p, <1>2, <3>2
    <3> QED BY <3>1, <3>2
  <2>2. htMatches' = [r \in 1 .. VecSize |-> htMatches'[r]]
    BY <1>p
  <2> QED BY <2>1, <2>2
<1>13. maxFill' \in Nat \ {0} /\ created' \in Nat
  BY <1>1, <1>2, <1>3, <1>7
<1>14. LookupTyped'
  BY <1>1, <1>2, <1>5, <1>12, <1>13 DEF LookupTyped
<1>15. RowsTraced'
  BY <1>1, <1>11 DEF RowsTraced
<1>16. RowsPlaced'
  <2>1. Lookup!NoEqualHashes' <=> Lookup!NoEqualHashes
    BY <1>1 DEF Lookup!NoEqualHashes
  <2>2. SUFFICES ASSUME Lookup!NoEqualHashes
        PROVE  /\ \A g, h \in 1 .. Len(gs) : gs[g].key = gs[h].key => g = h
               /\ \A r \in 1 .. n : gs[htMatches'[r]].key = keys[r]
               /\ \A k \in Keys : seen[k] = spilled[k] + Lookup!CountIn(gs, k)
    BY <1>1, <2>1 DEF RowsPlaced
  <2>3. /\ \A g, h \in 1 .. l : groups[g].key = groups[h].key => g = h
        /\ \A r \in 1 .. n :
             IF r \in Elems(groupsNotFound) THEN \A g \in 1 .. l : groups[g].key # keys[r]
             ELSE groups[htMatches[r]].key = keys[r]
        /\ \A k \in Keys : seen[k] = spilled[k] + Lookup!CountIn(groups, k)
    BY <1>1, <1>2, <2>2 DEF RowsPlaced
  <2>4. \A r \in 1 .. n : gs[htMatches'[r]].key = keys[r]
    BY <1>11, <2>3
  <2>5. ASSUME NEW g \in 1 .. l, NEW h \in l + 1 .. Len(gs) PROVE gs[g].key # gs[h].key
    <3>1. h - l \in 1 .. Len(ms)
      BY <1>2, <1>3, <1>5
    <3>2. ms[h - l] \in Elems(ms)
      BY <3>1 DEF Elems
    <3>3. PICK r \in Elems(groupsNotFound) : ms[h - l] = keys[r]
      BY <1>3, <3>2
    <3>4. r \in 1 .. n
      BY <1>2, ElemsFacts
    <3> QED BY <1>5, <2>3, <3>3, <3>4
  <2>6. ASSUME NEW g \in l + 1 .. Len(gs), NEW h \in l + 1 .. Len(gs), gs[g].key = gs[h].key PROVE g = h
    <3>1. g - l \in 1 .. Len(ms) /\ h - l \in 1 .. Len(ms)
      BY <1>2, <1>3, <1>5
    <3>2. g - l = h - l
      BY <1>3, <1>5, <2>6, <3>1 DEF Distinct
    <3> QED BY <1>2, <1>6, <3>2
  <2>7. \A g \in 1 .. Len(gs) : g \in 1 .. l \/ g \in l + 1 .. Len(gs)
    BY <1>2, <1>6
  <2>8. ASSUME NEW g \in 1 .. Len(gs), NEW h \in 1 .. Len(gs), gs[g].key = gs[h].key PROVE g = h
    <3>1. CASE g \in 1 .. l /\ h \in 1 .. l
      BY <1>5, <2>3, <2>8, <3>1
    <3>2. CASE g \in 1 .. l /\ h \in l + 1 .. Len(gs)
      BY <2>5, <2>8, <3>2
    <3>3. CASE h \in 1 .. l /\ g \in l + 1 .. Len(gs)
      <4>1. gs[h].key # gs[g].key
        BY <2>5, <3>3
      <4> QED BY <2>8, <4>1
    <3>4. CASE g \in l + 1 .. Len(gs) /\ h \in l + 1 .. Len(gs)
      BY <2>6, <2>8, <3>4
    <3> QED BY <2>7, <3>1, <3>2, <3>3, <3>4
  <2> QED BY <1>10, <2>3, <2>4, <2>8
<1>17. RowsNotLost'
  BY <1>1, <1>2, <1>10 DEF RowsNotLost
<1>18. FillKept'
  <2>1. CASE resizes
    <3>1. l <= maxFill
      BY <1>2, <2>1 DEF FillKept
    <3>2. ~grow => Len(gs) <= maxFill
      <4>1. ms = <<>> => Len(ms) = 0
        OBVIOUS
      <4> QED BY <1>2, <1>5, <1>6, <2>1, <3>1, <4>1
    <3>3. Len(gs) <= maxFill'
      BY <1>1, <1>7, <3>2
    <3> QED BY <1>1, <2>1, <3>3 DEF FillKept
  <2>2. CASE ~resizes
    <3>1. l <= created /\ (created < maxFill \/ groups = <<>>)
      BY <1>1, <1>2, <2>2 DEF FillKept
    <3>2. maxFill' = maxFill /\ created' = created + Len(ms)
      BY <1>1, <2>2
    <3>3. groups = <<>> => l = 0
      OBVIOUS
    <3>4. Len(gs) <= created' /\ Len(gs) < maxFill' + VecSize
      BY <1>2, <1>3, <1>5, <3>1, <3>2, <3>3
    <3> QED BY <1>1, <2>2, <3>4 DEF FillKept
  <2> QED BY <1>2, <2>1, <2>2
<1> QED BY <1>9, <1>14, <1>15, <1>16, <1>17, <1>18 DEF LookupInv

LEMMA RangeFinite == \A x \in Nat : IsFiniteSet(1 .. x) /\ Cardinality(1 .. x) = x
<1>1. ASSUME NEW x \in Nat PROVE IsFiniteSet(1 .. x) /\ Cardinality(1 .. x) = x
  <2>1. 1 \in Int /\ x \in Int /\ (1 > x => x = 0) /\ x - 1 + 1 = x
    OBVIOUS
  <2> QED BY <2>1, FS_Interval
<1> QED BY <1>1

LEMMA ElementOfSeq == \A S, s : s \in Seq(S) => \A i \in 1 .. Len(s) : s[i] \in S
OBVIOUS

LEMMA updateGroupsKeeps == ASSUME LookupInv, Lookup!updateGroups PROVE LookupInv'
<1> DEFINE n == Len(keys)
           l == Len(groups)
           R == 1 .. n
           m == [r \in R |-> htMatches[r]]
<1>1. /\ pc = "update" /\ pc' = (IF ~resizes /\ created >= maxFill THEN "flush" ELSE "next") /\ keys' = <<>>
      /\ UNCHANGED <<hash, resizes, table, maxFill, created, spilled>>
      /\ UNCHANGED <<htMatches, groupsFound, groupsNotFound, keysNEq>>
      /\ groups' = [g \in DOMAIN groups |->
                      [groups[g] EXCEPT !.count = @ + Lookup!NrRows({r \in Lookup!Rows : htMatches[r] = g})]]
      /\ seen' = [k \in Keys |-> seen[k] + Lookup!Cardinality({r \in DOMAIN keys : keys[r] = k})]
  BY DEF Lookup!updateGroups, Lookup!lookupVars
<1>2. LookupTyped /\ ChainsHold(table, groups) /\ RowsTraced /\ RowsPlaced /\ RowsNotLost /\ FillKept
  BY DEF LookupInv
<1>3. /\ keys \in Seq(Keys) /\ DOMAIN keys = R /\ n \in Nat /\ n <= VecSize /\ VecSize \in Nat \ {0} /\ l \in Nat
      /\ htMatches \in [1 .. VecSize -> Nat] /\ groups \in Seq(GroupRecords) /\ DOMAIN groups = 1 .. l
      /\ spilled \in [Keys -> Nat] /\ seen \in [Keys -> Nat]
  BY <1>2, LookupSizes DEF LookupTyped
<1>4. \A r \in R : htMatches[r] \in 1 .. l
  BY <1>1, <1>2 DEF RowsTraced
<1>5. m \in [R -> 1 .. l] /\ \A r \in R : m[r] = htMatches[r]
  BY <1>4
<1>6. IsFiniteSet(R) /\ Cardinality(R) = n
  BY <1>3, RangeFinite
<1> HIDE DEF m
<1>7. \A x : Lookup!NrRows({r \in Lookup!Rows : htMatches[r] = x}) = Cardinality(RowsFor(R, m, x))
  <2>1. SUFFICES ASSUME NEW x PROVE Lookup!NrRows({r \in Lookup!Rows : htMatches[r] = x}) = Cardinality(RowsFor(R, m, x))
    OBVIOUS
  <2>2. {q \in 1 .. Len(keys) : q \in {r \in Lookup!Rows : htMatches[r] = x}} = RowsFor(R, m, x)
    BY <1>3, <1>5 DEF RowsFor, Lookup!Rows
  <2> QED BY <2>2, LookupCardinality DEF Lookup!NrRows
<1>8. \A k : Lookup!Cardinality({r \in DOMAIN keys : keys[r] = k}) = Cardinality(RowsFor(R, keys, k))
  BY <1>3, LookupCardinality DEF RowsFor
<1>9. \A x, Q, c : Q \subseteq R => Cardinality(RowsFor(Q, c, x)) \in Nat
  <2>1. ASSUME NEW x, NEW Q, NEW c, Q \subseteq R PROVE Cardinality(RowsFor(Q, c, x)) \in Nat
    <3>1. RowsFor(Q, c, x) \subseteq R
      BY <2>1 DEF RowsFor
    <3> QED BY <3>1, <1>6, FS_Subset, FS_CardinalityType
  <2> QED BY <2>1
<1>10. /\ groups' \in Seq(GroupRecords) /\ Len(groups') = l
       /\ \A g \in 1 .. l : /\ groups'[g].key = groups[g].key
                            /\ groups'[g].count = groups[g].count + Cardinality(RowsFor(R, m, g))
  <2>0. groups \in Seq(GroupRecords) /\ l = Len(groups) /\ l \in Nat
    BY <1>3
  <2>1. DOMAIN groups' = 1 .. l
    BY <1>1, <1>3
  <2>2. ASSUME NEW g \in 1 .. l
        PROVE  /\ groups'[g] \in GroupRecords /\ groups'[g].key = groups[g].key
               /\ groups'[g].count = groups[g].count + Cardinality(RowsFor(R, m, g))
    <3>1. PICK d \in Nat : d = Cardinality(RowsFor(R, m, g))
      BY <1>9
    <3>2. groups'[g] = [groups[g] EXCEPT !.count = @ + d]
      BY <1>1, <1>3, <1>7, <3>1
    <3>3. groups[g] \in [key : Keys, count : Nat]
      <4>1. groups[g] \in GroupRecords
        BY <2>0, ElementOfSeq
      <4> QED BY <4>1 DEF GroupRecords
    <3>4. /\ [groups[g] EXCEPT !.count = @ + d] \in [key : Keys, count : Nat]
          /\ [groups[g] EXCEPT !.count = @ + d].key = groups[g].key
          /\ [groups[g] EXCEPT !.count = @ + d].count = groups[g].count + d
      BY <3>3
    <3> QED BY <3>1, <3>2, <3>4 DEF GroupRecords
  <2>3. groups' = [g \in 1 .. l |-> groups'[g]]
    BY <1>1, <1>3
  <2>4. groups' \in Seq(GroupRecords)
    BY <2>0, <2>2, <2>3
  <2>5. Len(groups') = l
    BY <2>0, <2>1, <2>4
  <2> QED BY <2>2, <2>4, <2>5
<1>11. \A k \in Keys : seen'[k] = seen[k] + Cardinality(RowsFor(R, keys, k))
  BY <1>1, <1>8
<1>12. seen' \in [Keys -> Nat]
  <2>1. \A k \in Keys : seen'[k] \in Nat
    <3>1. ASSUME NEW k \in Keys PROVE seen'[k] \in Nat
      <4>1. PICK d \in Nat : d = Cardinality(RowsFor(R, keys, k))
        BY <1>9
      <4>2. seen'[k] = seen[k] + d /\ seen[k] \in Nat
        BY <1>3, <1>11, <4>1
      <4> QED BY <4>2
    <3> QED BY <3>1
  <2>2. seen' = [k \in Keys |-> seen'[k]]
    BY <1>1
  <2> QED BY <2>1, <2>2
<1> DEFINE owner == [r \in R |-> groups[m[r]].key]
<1>13. owner \in [R -> Keys] /\ \A r \in R : owner[r] = groups[m[r]].key
  BY <1>3, <1>5, RecordFields
<1>14. \A k : /\ Lookup!CountIn(groups', k) = Lookup!CountIn(groups, k) + Cardinality(RowsFor(R, owner, k))
              /\ Lookup!CountIn(groups', k) \in Nat /\ Lookup!CountIn(groups, k) \in Nat
  <2>1. SUFFICES ASSUME NEW k
                 PROVE  /\ Lookup!CountIn(groups', k) = Lookup!CountIn(groups, k) + Cardinality(RowsFor(R, owner, k))
                        /\ Lookup!CountIn(groups', k) \in Nat /\ Lookup!CountIn(groups, k) \in Nat
    OBVIOUS
  <2>2. Lookup!CountIn(groups', k) = Lookup!CountIn(groups, k) + Cardinality({r \in R : groups[m[r]].key = k})
    <3>1. PICK a \in Seq(GroupRecords), b \in Seq(GroupRecords) : a = groups /\ b = groups'
      BY <1>3, <1>10
    <3>2. /\ m \in [R -> 1 .. Len(a)] /\ Len(b) = Len(a)
          /\ \A g \in 1 .. Len(a) : /\ b[g].key = a[g].key
                                    /\ b[g].count = a[g].count + Cardinality(RowsFor(R, m, g))
      BY <1>5, <1>10, <3>1
    <3> HIDE DEF R
    <3>3. IsFiniteSet(R)
      BY <1>6
    <3>4. Lookup!CountIn(b, k) = Lookup!CountIn(a, k) + Cardinality({r \in R : a[m[r]].key = k})
      BY <3>2, <3>3, CountInUpdated
    <3> QED BY <3>1, <3>4
  <2>3. {r \in R : groups[m[r]].key = k} = RowsFor(R, owner, k)
    BY <1>13 DEF RowsFor
  <2> HIDE DEF owner
  <2> QED BY <1>3, <1>10, <2>2, <2>3, CountInIs
<1> HIDE DEF owner, R
<1>15. LookupTyped'
  <2>1. <<>> \in Seq(Keys) /\ Len(<<>>) = 0
    OBVIOUS
  <2>2. keys' \in Seq(Keys) /\ Len(keys') <= VecSize
    BY <1>1, <1>3, <2>1
  <2> QED BY <1>1, <1>2, <1>10, <1>12, <2>2 DEF LookupTyped
<1>16. ChainsHold(table, groups)'
  <2>1. \A t, k : hash' = hash
    BY <1>1
  <2>2. ASSUME NEW b \in DOMAIN table
        PROVE {g \in 1 .. l : hash[groups'[g].key] % Cardinality(DOMAIN table) = b}
                 = {g \in 1 .. l : hash[groups[g].key] % Cardinality(DOMAIN table) = b}
    BY <1>10
  <2> QED BY <1>1, <1>2, <1>10, <2>2 DEF ChainsHold, BucketOf
<1>17. RowsTraced'
  BY <1>1 DEF RowsTraced
<1>18. RowsPlaced'
  <2>1. Lookup!NoEqualHashes' <=> Lookup!NoEqualHashes
    BY <1>1 DEF Lookup!NoEqualHashes
  <2>2. SUFFICES ASSUME Lookup!NoEqualHashes
        PROVE  /\ \A g, h \in 1 .. l : groups'[g].key = groups'[h].key => g = h
               /\ \A k \in Keys : seen'[k] = spilled[k] + Lookup!CountIn(groups', k)
    BY <1>1, <1>10, <2>1 DEF RowsPlaced
  <2>3. /\ \A g, h \in 1 .. l : groups[g].key = groups[h].key => g = h
        /\ \A r \in R : groups[htMatches[r]].key = keys[r]
        /\ \A k \in Keys : seen[k] = spilled[k] + Lookup!CountIn(groups, k)
    BY <1>1, <1>2, <2>2 DEF RowsPlaced, R
  <2>4. \A k : RowsFor(R, owner, k) = RowsFor(R, keys, k)
    BY <1>5, <1>13, <2>3 DEF RowsFor
  <2>5. ASSUME NEW k \in Keys PROVE seen'[k] = spilled[k] + Lookup!CountIn(groups', k)
    <3>1. PICK d \in Nat : d = Cardinality(RowsFor(R, keys, k))
      BY <1>9
    <3>2. seen'[k] = seen[k] + d /\ Lookup!CountIn(groups', k) = Lookup!CountIn(groups, k) + d
      BY <1>11, <1>14, <2>4, <3>1
    <3> QED BY <1>3, <1>14, <2>3, <3>2
  <2> QED BY <1>10, <2>3, <2>5
<1>19. RowsNotLost'
  <2> DEFINE a == [k \in Keys |-> spilled[k] + Lookup!CountIn(groups, k)]
             b == [k \in Keys |-> spilled[k] + Lookup!CountIn(groups', k)]
  <2>1. Counts(Keys, R, owner, a, b)
    <3>1. a \in [Keys -> Nat] /\ b \in [Keys -> Nat]
      BY <1>3, <1>14
    <3>2. ASSUME NEW k \in Keys PROVE b[k] = a[k] + Cardinality(RowsFor(R, owner, k))
      BY <1>3, <1>9, <1>14
    <3> QED BY <1>6, <1>13, <3>1, <3>2 DEF Counts
  <2>2. Counts(Keys, R, keys, seen, seen')
    <3>1. keys \in [R -> Keys]
      BY <1>3
    <3> QED BY <1>3, <1>6, <1>11, <1>12, <3>1 DEF Counts
  <2>3. Lookup!Total(a) = Lookup!Total(seen)
    BY <1>2 DEF RowsNotLost
  <2> HIDE DEF a, b
  <2>4. Lookup!Total(b) = Lookup!Total(seen')
    BY <2>1, <2>2, <2>3, LookupSizes, TotalCounted
  <2>5. RowsNotLost' <=> Lookup!Total([k \in Keys |-> spilled[k] + Lookup!CountIn(groups', k)]) = Lookup!Total(seen')
    BY <1>1 DEF RowsNotLost
  <2> QED BY <2>4, <2>5 DEF b
<1>20. FillKept'
  <2>1. CASE resizes
    BY <1>1, <1>2, <1>10, <2>1 DEF FillKept
  <2>2. CASE ~resizes
    <3>1. l <= created /\ l < maxFill + VecSize
      BY <1>1, <1>2, <2>2 DEF FillKept
    <3>2. created \in Nat /\ maxFill \in Nat
      BY <1>2 DEF LookupTyped
    <3>3. pc' = "flush" \/ (pc' = "next" /\ created < maxFill)
      BY <1>1, <2>2, <3>2
    <3> QED BY <1>1, <1>10, <2>2, <3>1, <3>3 DEF FillKept
  <2> QED BY <1>2, <2>1, <2>2 DEF LookupTyped
<1> QED BY <1>15, <1>16, <1>17, <1>18, <1>19, <1>20 DEF LookupInv

LEMMA flushAndClearKeeps == ASSUME LookupInv, Lookup!flushAndClear PROVE LookupInv'
<1> DEFINE cap == Cardinality(DOMAIN table)
<1>1. /\ pc = "flush" /\ pc' = "next" /\ groups' = <<>> /\ table' = Lookup!Empty(cap)
      /\ spilled' = [k \in Keys |-> spilled[k] + Lookup!CountIn(groups, k)]
      /\ UNCHANGED <<hash, resizes, keys, maxFill, created, seen>>
      /\ UNCHANGED <<htMatches, groupsFound, groupsNotFound, keysNEq>>
  <2>1. Lookup!Cardinality(DOMAIN table) = cap
    BY LookupCardinality
  <2> QED BY <2>1 DEF Lookup!flushAndClear, Lookup!lookupVars
<1>2. LookupTyped /\ ChainsHold(table, groups) /\ RowsPlaced /\ RowsNotLost /\ FillKept
  BY DEF LookupInv
<1>3. cap \in Nat \ {0}
  BY <1>2 DEF ChainsHold
<1> HIDE DEF cap
<1>4. ChainsHold(table, groups)'
  <2>1. ChainsHold(Lookup!Empty(cap), <<>>)
    BY <1>3, EmptyHolds
  <2>2. ChainsHold(table', groups')
    BY <1>1, <2>1
  <2> QED BY <1>1, <2>2 DEF ChainsHold, BucketOf
<1>5. \A k : Lookup!CountIn(groups, k) \in Nat /\ Lookup!CountIn(groups', k) = 0
  BY <1>1, <1>2, CountInIs, CountInNone DEF LookupTyped
<1>6. spilled' \in [Keys -> Nat] /\ \A k \in Keys : spilled'[k] = spilled[k] + Lookup!CountIn(groups, k)
  BY <1>1, <1>2, <1>5 DEF LookupTyped
<1>7. LookupTyped'
  <2>1. groups' \in Seq(GroupRecords)
    BY <1>1
  <2> QED BY <1>1, <1>2, <1>6, <2>1 DEF LookupTyped
<1>8. RowsTraced'
  BY <1>1 DEF RowsTraced
<1>9. \A k \in Keys : spilled'[k] + Lookup!CountIn(groups', k) = spilled[k] + Lookup!CountIn(groups, k)
  <2>1. ASSUME NEW k \in Keys PROVE spilled'[k] + Lookup!CountIn(groups', k) = spilled[k] + Lookup!CountIn(groups, k)
    <3>1. spilled'[k] \in Nat
      BY <1>6
    <3> QED BY <1>5, <1>6, <3>1
  <2> QED BY <2>1
<1>10. RowsPlaced'
  <2>1. Lookup!NoEqualHashes' <=> Lookup!NoEqualHashes
    BY <1>1 DEF Lookup!NoEqualHashes
  <2>2. Lookup!NoEqualHashes => \A k \in Keys : seen[k] = spilled'[k] + Lookup!CountIn(groups', k)
    BY <1>2, <1>9 DEF RowsPlaced
  <2>3. Len(groups') = 0
    BY <1>1
  <2> QED BY <1>1, <2>1, <2>2, <2>3 DEF RowsPlaced
<1>11. RowsNotLost'
  <2>1. [k \in Keys |-> spilled'[k] + Lookup!CountIn(groups', k)] = [k \in Keys |-> spilled[k] + Lookup!CountIn(groups, k)]
    BY <1>9
  <2>2. RowsNotLost' <=> Lookup!Total([k \in Keys |-> spilled'[k] + Lookup!CountIn(groups', k)]) = Lookup!Total(seen')
    BY DEF RowsNotLost
  <2> QED BY <1>1, <1>2, <2>1, <2>2 DEF RowsNotLost
<1>12. FillKept'
  <2>1. Len(groups') = 0 /\ maxFill \in Nat /\ created \in Nat
    BY <1>1, <1>2 DEF LookupTyped
  <2> QED BY <1>1, <2>1 DEF FillKept
<1> QED BY <1>4, <1>7, <1>8, <1>10, <1>11, <1>12 DEF LookupInv

LEMMA LookupInit == Lookup!Init => LookupInv
<1> SUFFICES ASSUME Lookup!Init PROVE LookupInv
  OBVIOUS
<1> DEFINE cap == Lookup!capacityFor(InitialSize)
<1>1. /\ hash \in Hashings /\ resizes \in BOOLEAN /\ pc = "next" /\ keys = <<>> /\ groups = <<>>
      /\ table = Lookup!Empty(cap) /\ maxFill = Lookup!fillOf(cap) /\ created = 0
      /\ htMatches = [r \in 1 .. VecSize |-> 0]
      /\ spilled = [k \in Keys |-> 0] /\ seen = [k \in Keys |-> 0]
  BY DEF Lookup!Init, Lookup!Rows
<1>2. cap \in Nat \ {0} /\ Lookup!fillOf(cap) \in Nat \ {0}
  <2>1. cap \in Nat \ {0} /\ Lookup!fillOf(cap) \in Nat /\ Lookup!fillOf(cap) >= InitialSize
    BY LookupSizes, CapacityHolds
  <2> HIDE DEF cap
  <2> QED BY <2>1, LookupSizes
<1> HIDE DEF cap
<1>3. LookupTyped
  <2>1. hash \in [Keys -> Nat] /\ VecSize \in Nat
    BY <1>1, LookupSizes
  <2>2. keys \in Seq(Keys) /\ Len(keys) <= VecSize /\ groups \in Seq(GroupRecords)
    BY <1>1, <2>1
  <2>3. maxFill \in Nat \ {0} /\ created \in Nat
    BY <1>1, <1>2
  <2>4. htMatches \in [1 .. VecSize -> Nat] /\ spilled \in [Keys -> Nat] /\ seen \in [Keys -> Nat]
    BY <1>1
  <2> QED BY <1>1, <2>1, <2>2, <2>3, <2>4 DEF LookupTyped
<1>4. ChainsHold(table, groups)
  BY <1>1, <1>2, EmptyHolds
<1>5. RowsTraced
  BY <1>1 DEF RowsTraced
<1>6. \A k \in Keys : Lookup!CountIn(groups, k) = 0 /\ spilled[k] + Lookup!CountIn(groups, k) = 0 /\ seen[k] = 0
  BY <1>1, CountInNone
<1>7. RowsPlaced
  <2>1. Len(groups) = 0
    BY <1>1
  <2> QED BY <1>1, <1>6, <2>1 DEF RowsPlaced
<1>8. RowsNotLost
  <2>1. [k \in Keys |-> spilled[k] + Lookup!CountIn(groups, k)] = seen
    BY <1>1, <1>6
  <2> QED BY <2>1 DEF RowsNotLost
<1>9. FillKept
  <2>1. Len(groups) = 0
    BY <1>1
  <2> QED BY <1>1, <1>3, <2>1 DEF FillKept, LookupTyped
<1> QED BY <1>3, <1>4, <1>5, <1>7, <1>8, <1>9 DEF LookupInv

LEMMA LookupSame == LookupInv /\ UNCHANGED lookupVars => LookupInv'
<1> SUFFICES ASSUME LookupInv, UNCHANGED lookupVars PROVE LookupInv'
  OBVIOUS
<1>1. /\ UNCHANGED <<hash, resizes, pc, keys, groups, table, maxFill, created>>
      /\ UNCHANGED <<htMatches, groupsFound, groupsNotFound, keysNEq, spilled, seen>>
  BY DEF lookupVars
<1>2. /\ ChainsHold(table, groups)' /\ RowsNotLost' /\ FillKept'
      /\ Lookup!NoEqualHashes' <=> Lookup!NoEqualHashes
      /\ \A r : ChainOf(r)' = ChainOf(r)
  BY <1>1, GroupsSame
<1>3. LookupTyped'
  BY <1>1 DEF LookupInv, LookupTyped
<1>4. RowsTraced'
  BY <1>1, <1>2 DEF LookupInv, RowsTraced
<1>5. RowsPlaced'
  BY <1>1, <1>2 DEF LookupInv, RowsPlaced
<1> QED BY <1>2, <1>3, <1>4, <1>5 DEF LookupInv

LookupStep == Lookup!Next \/ UNCHANGED lookupVars

LEMMA LookupSteps == LookupInv /\ LookupStep => LookupInv'
<1>1. Lookup!Finished => UNCHANGED lookupVars
  BY DEF Lookup!Finished, Lookup!vars, lookupVars
<1> QED
  BY <1>1, NextVectorKeeps, htLookupKeeps, keyEqualityKeeps, htFollowKeeps, FindGroupsDoneKeeps,
     createMissingGroupsKeeps, updateGroupsKeeps, flushAndClearKeeps, LookupSame DEF LookupStep, Lookup!Next

LEMMA LookupOnly == [MCNext /\ UNCHANGED kind]_allVars => LookupStep
BY DEF MCNext, allVars, LookupStep

LEMMA LookupInvariant == MCSpec => []LookupInv
<1>1. MCInit => LookupInv
  BY LookupInit DEF MCInit
<1>2. LookupInv /\ [MCNext /\ UNCHANGED kind]_allVars => LookupInv'
  BY LookupOnly, LookupSteps
<1> QED BY <1>1, <1>2, PTL DEF MCSpec

LEMMA LookupSound == LookupInv => Lookup!CountsExact /\ Lookup!NoRowLost
<1> SUFFICES ASSUME LookupInv PROVE Lookup!CountsExact /\ Lookup!NoRowLost
  OBVIOUS
<1>1. LookupTyped /\ ChainsHold(table, groups) /\ RowsPlaced /\ RowsNotLost /\ FillKept
  BY DEF LookupInv
<1>2. DOMAIN groups = 1 .. Len(groups) /\ groups \in Seq(GroupRecords)
  BY <1>1 DEF LookupTyped
<1>3. Lookup!RowsCounted
  BY <1>1 DEF Lookup!RowsCounted, RowsPlaced
<1>4. Lookup!GroupsDistinct
  <2>1. ASSUME NEW g \in 1 .. Len(groups)
        PROVE  LET b == BucketOf(table, groups[g].key)
               IN  Cardinality({x \in DOMAIN table[b] : table[b][x] = g}) = 1
    <3> DEFINE b == BucketOf(table, groups[g].key)
               c == table[b]
    <3>1. groups[g].key \in Keys
      BY <1>2, RecordFields
    <3>2. b \in DOMAIN table
      BY <1>1, <3>1, BucketInTable DEF LookupTyped
    <3>3. c \in Seq(Nat) /\ Distinct(c) /\ g \in Elems(c)
      BY <1>1, <3>2 DEF ChainsHold
    <3> HIDE DEF b, c
    <3>4. PICK x \in 1 .. Len(c) : c[x] = g
      BY <3>3 DEF Elems
    <3>5. {y \in DOMAIN c : c[y] = g} = {x}
      BY <3>3, <3>4 DEF Distinct
    <3> QED BY <3>5, FS_Singleton DEF b, c
  <2>2. \A g \in 1 .. Len(groups) :
          LET b == Lookup!bucket(groups[g].key, table)
          IN  Lookup!Cardinality({x \in DOMAIN table[b] : table[b][x] = g}) = 1
    BY <2>1, BucketIs, LookupCardinality
  <2>3. Lookup!NoEqualHashes => \A g, h \in 1 .. Len(groups) : groups[g].key = groups[h].key => g = h
    BY <1>1 DEF RowsPlaced
  <2> QED BY <1>2, <2>2, <2>3 DEF Lookup!GroupsDistinct
<1>5. Lookup!FillBounded
  <2>1. VecSize \in Nat \ {0} /\ maxFill \in Nat \ {0} /\ Len(groups) \in Nat /\ created \in Nat /\ resizes \in BOOLEAN
    BY <1>1, LookupSizes DEF LookupTyped
  <2>2. groups = <<>> => Len(groups) = 0
    OBVIOUS
  <2> QED BY <1>1, <2>1, <2>2 DEF FillKept, Lookup!FillBounded
<1>6. Lookup!NoRowLost
  BY <1>1 DEF RowsNotLost, Lookup!NoRowLost
<1> QED BY <1>3, <1>4, <1>5, <1>6 DEF Lookup!CountsExact

\* Whatever the hashes of the keys, each row is counted in one group; if no two are
\* equal, in the only group of its key, which can be found in its chain once; and the
\* table is never fuller than its limit and a vector.
THEOREM CountsRight == MCSpec => []RowsCounted
<1>1. LookupInv => RowsCounted
  BY LookupSound DEF RowsCounted
<1> QED BY <1>1, LookupInvariant, PTL

=============================================================================
