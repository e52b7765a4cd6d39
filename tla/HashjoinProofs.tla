--------------------------- MODULE HashjoinProofs ---------------------------
(***************************************************************************)
(* Proofs about the hash table of a Hashjoin (TaggedHashmap) and about the *)
(* join functions that probe it (JoinProbe, JoinBoncz), for any workers,   *)
(* entries, hash values and capacity, any batch size, any width of the     *)
(* first pass and any ring that is larger than a batch.                    *)
(*                                                                         *)
(* The table.  An entry that is in a chain is settled: nobody writes its   *)
(* next any more, and nobody pushes it again.  The strengthening IInv says *)
(* so of every bucket; a lookup then meets the chain, by induction over    *)
(* the places of the chain (a least counterexample has a predecessor).     *)
(*                                                                         *)
(* The join functions.  The strengthening RingInv relates three things     *)
(* that no test can see together: what has been reported for the probe     *)
(* vector is exactly the part of the join result that neither the first    *)
(* pass nor the rest of a chain in the ring still has to report            *)
(* (RingOwes); each slot in use holds the rest of the chain of a different *)
(* probe tuple (SlotsSound); and so the ring and the output have room for  *)
(* whatever a round still handles (RingFits).  BonczInv says the same of   *)
(* the followups that joinBoncz compacts in place.                         *)
(***************************************************************************)
EXTENDS MCHashjoin, FiniteSetTheorems, FunctionTheorems, WellFoundedInduction, TLAPS

InFlight(t) == pc[t] \in {"link", "push"}

\* The entries of a chain are neither waiting to be inserted nor in flight,
\* so nobody writes their next any more.
Settled ==
  \A b \in Buckets : \A k \in DOMAIN order[b] :
    /\ order[b][k] \notin todo
    /\ \A t \in Threads : InFlight(t) => entry[t] # order[b][k]

\* What a worker knows of the entry it inserts.
Held ==
  \A t \in Threads : InFlight(t) =>
    /\ entry[t] \in Entries /\ owner[entry[t]] = t /\ entry[t] \notin todo
    /\ pc[t] = "push" => next[entry[t]] = loc[t].ptr

\* The tag set of a bucket covers its chain.
Tagged ==
  \A b \in Buckets : \A k \in DOMAIN order[b] : tag(hash[order[b][k]]) \in entries[b].tags

\* Every inserted entry is in the chain of its bucket.
Chained ==
  \A e \in Entries : Inserted(e) => \E k \in DOMAIN order[pos(hash[e])] : order[pos(hash[e])][k] = e

\* A chain holds entries of its bucket only, each of them once.
Distinct ==
  \A b \in Buckets : \A k \in DOMAIN order[b] :
    /\ pos(hash[order[b][k]]) = b
    /\ \A j \in DOMAIN order[b] : order[b][k] = order[b][j] => k = j

\* The inductive invariant.
IInv == TypeOK /\ Settled /\ Held /\ Tagged /\ Chained /\ Distinct /\ LinksIntact

-----------------------------------------------------------------------------

\* A hash selects a bucket and a tag of the bucket word.
LEMMA HashFacts ==
  \A e \in Entries : pos(hash[e]) \in Buckets /\ tag(hash[e]) \in Tags
<1> SUFFICES ASSUME NEW e \in Entries
             PROVE  pos(hash[e]) \in Buckets /\ tag(hash[e]) \in Tags
  OBVIOUS
<1>1. hash[e] \in 0 .. hashRange - 1 /\ hash[e] \in Nat
  BY HashAssumption
<1>2. pos(hash[e]) \in Buckets
  BY <1>1, HashAssumption DEF pos, Buckets
<1> DEFINE q == hashRange \div nrTags
<1>3. q \in Nat \ {0} /\ hashRange = nrTags * q
  BY HashAssumption
<1>4. hash[e] \div q \in Nat /\ hash[e] \div q < nrTags
  BY <1>1, <1>3, HashAssumption
<1> QED
  BY <1>2, <1>4, HashAssumption DEF tag, Tags

\* The empty table satisfies the invariant.
LEMMA InitIInv == Init => IInv
<1> SUFFICES ASSUME Init PROVE IInv
  OBVIOUS
<1>1. TypeOK
  BY DEF Init, TypeOK, NotFound
<1>2. \A b \in Buckets : order[b] = <<>> /\ DOMAIN order[b] = {}
  BY DEF Init
<1>3. Settled /\ Tagged /\ Distinct /\ LinksIntact
  BY <1>2 DEF Init, Settled, Tagged, Distinct, LinksIntact, NotFound
<1>4. Held /\ Chained
  BY DEF Init, Held, Chained, InFlight, Inserted
<1> QED
  BY <1>1, <1>3, <1>4 DEF IInv

LEMMA FetchIInv ==
  ASSUME IInv, NEW t \in Threads, Fetch(t)
  PROVE  IInv'
<1>1. PICK e \in todo :
        /\ owner[e] = t
        /\ entry' = [entry EXCEPT ![t] = e]
        /\ loc' = [loc EXCEPT ![t] = entries[pos(hash[e])]]
        /\ todo' = todo \ {e}
  BY DEF Fetch
<1>2. e \in Entries /\ pos(hash[e]) \in Buckets
  BY HashFacts DEF IInv, TypeOK
<1>3. TypeOK'
  BY <1>1, <1>2 DEF IInv, TypeOK, Fetch
<1>4. Settled'
  BY <1>1 DEF IInv, TypeOK, Settled, Fetch, InFlight
<1>5. Held'
  BY <1>1, <1>2 DEF IInv, TypeOK, Held, Fetch, InFlight
<1>6. Tagged' /\ Distinct' /\ LinksIntact'
  BY DEF IInv, Tagged, Distinct, LinksIntact, Fetch
<1>7. \A x \in Entries : Inserted(x)' => Inserted(x)
  BY <1>1 DEF IInv, TypeOK, Inserted, Fetch
<1>8. Chained'
  BY <1>7 DEF IInv, Chained, Fetch
<1> QED
  BY <1>3, <1>4, <1>5, <1>6, <1>8 DEF IInv

LEMMA LinkIInv ==
  ASSUME IInv, NEW t \in Threads, Link(t)
  PROVE  IInv'
<1>1. TypeOK'
  BY DEF IInv, TypeOK, Link
<1>2. InFlight(t) /\ entry[t] \in Entries
  BY DEF IInv, Held, Link, InFlight
<1>3. Settled'
  BY DEF IInv, TypeOK, Settled, Link, InFlight
<1>4. Held'
  BY <1>2 DEF IInv, TypeOK, Held, Link, InFlight
<1>5. Tagged' /\ Distinct'
  BY DEF IInv, Tagged, Distinct, Link
<1>6. \A b \in Buckets : \A k \in DOMAIN order[b] : next'[order[b][k]] = next[order[b][k]]
  BY <1>2 DEF IInv, TypeOK, Settled, Link
<1>7. LinksIntact'
  BY <1>6 DEF IInv, LinksIntact, Link
<1>8. Chained'
  BY DEF IInv, TypeOK, Chained, Inserted, Link
<1> QED
  BY <1>1, <1>3, <1>4, <1>5, <1>7, <1>8 DEF IInv

LEMMA PushFailsIInv ==
  ASSUME IInv, NEW t \in Threads, PushFails(t)
  PROVE  IInv'
<1>1. entry[t] \in Entries /\ pos(hash[entry[t]]) \in Buckets
  BY HashFacts DEF IInv, Held, PushFails, InFlight
<1>2. TypeOK'
  BY <1>1 DEF IInv, TypeOK, PushFails
<1>3. Settled' /\ Held'
  BY DEF IInv, TypeOK, Settled, Held, PushFails, InFlight
<1>4. Tagged' /\ Distinct' /\ LinksIntact'
  BY DEF IInv, Tagged, Distinct, LinksIntact, PushFails
<1>5. Chained'
  BY DEF IInv, TypeOK, Chained, Inserted, PushFails
<1> QED
  BY <1>2, <1>3, <1>4, <1>5 DEF IInv

\* The successful exchange: e becomes the first entry of its chain.
LEMMA PushIInv ==
  ASSUME IInv, NEW t \in Threads, Push(t)
  PROVE  IInv'
<1> DEFINE e == entry[t]
           b == pos(hash[e])
           s == order[b]
<1>1. /\ pc[t] = "push" /\ InFlight(t) /\ entries[b] = loc[t]
      /\ entries' = [entries EXCEPT ![b] = update(loc[t], e, hash[e])]
      /\ order' = [order EXCEPT ![b] = Append(s, e)]
      /\ pc' = [pc EXCEPT ![t] = "fetch"]
      /\ UNCHANGED <<next, entry, loc, todo>>
  BY DEF Push, InFlight
<1>2. /\ e \in Entries /\ owner[e] = t /\ e \notin todo /\ next[e] = entries[b].ptr
      /\ b \in Buckets /\ tag(hash[e]) \in Tags /\ s \in Seq(Entries)
  BY <1>1, HashFacts DEF IInv, TypeOK, Held
<1>3. TypeOK'
  BY <1>1, <1>2 DEF IInv, TypeOK, update
<1>4. /\ \A c \in Buckets : c # b => order'[c] = order[c] /\ entries'[c] = entries[c]
      /\ order'[b] = Append(s, e)
      /\ entries'[b].ptr = e /\ entries'[b].tags = entries[b].tags \cup {tag(hash[e])}
  BY <1>1, <1>2 DEF IInv, TypeOK, update
<1>5. /\ Len(Append(s, e)) = Len(s) + 1 /\ DOMAIN Append(s, e) = 1 .. Len(s) + 1
      /\ DOMAIN s = 1 .. Len(s) /\ Len(s) \in Nat
      /\ \A k \in DOMAIN s : Append(s, e)[k] = s[k]
      /\ Append(s, e)[Len(s) + 1] = e
  BY <1>2
<1>6. \A u \in Threads : InFlight(u)' => u # t /\ InFlight(u) /\ entry[u] # e
  BY <1>1, <1>2 DEF IInv, TypeOK, InFlight, Held
<1>7. Settled'
  <2> SUFFICES ASSUME NEW c \in Buckets, NEW k \in DOMAIN order'[c]
               PROVE  /\ order'[c][k] \notin todo
                      /\ \A u \in Threads : InFlight(u)' => entry[u] # order'[c][k]
    BY <1>1 DEF Settled
  <2>1. CASE c # b
    BY <1>4, <1>6, <2>1 DEF IInv, Settled
  <2>2. CASE c = b /\ k \in DOMAIN s
    BY <1>2, <1>4, <1>5, <1>6, <2>2 DEF IInv, Settled
  <2>3. CASE c = b /\ k = Len(s) + 1
    BY <1>2, <1>4, <1>5, <1>6, <2>3
  <2> QED
    BY <1>4, <1>5, <2>1, <2>2, <2>3
<1>8. Held'
  BY <1>1 DEF IInv, TypeOK, Held, InFlight
<1>9. Tagged'
  <2> SUFFICES ASSUME NEW c \in Buckets, NEW k \in DOMAIN order'[c]
               PROVE  tag(hash[order'[c][k]]) \in entries'[c].tags
    BY DEF Tagged
  <2>1. CASE c # b
    BY <1>4, <2>1 DEF IInv, Tagged
  <2>2. CASE c = b /\ k \in DOMAIN s
    BY <1>2, <1>4, <1>5, <2>2 DEF IInv, Tagged
  <2>3. CASE c = b /\ k = Len(s) + 1
    BY <1>4, <1>5, <2>3
  <2> QED
    BY <1>4, <1>5, <2>1, <2>2, <2>3
<1>10. Chained'
  <2> SUFFICES ASSUME NEW x \in Entries, Inserted(x)'
               PROVE  \E k \in DOMAIN order'[pos(hash[x])] : order'[pos(hash[x])][k] = x
    BY DEF Chained
  <2>1. CASE x = e
    BY <1>4, <1>5, <2>1
  <2>2. CASE x # e
    <3>1. Inserted(x)
      BY <1>1, <2>2 DEF IInv, TypeOK, Inserted
    <3>2. PICK k \in DOMAIN order[pos(hash[x])] : order[pos(hash[x])][k] = x
      BY <3>1 DEF IInv, Chained
    <3>3. pos(hash[x]) \in Buckets
      BY HashFacts
    <3> QED
      BY <1>4, <1>5, <3>2, <3>3
  <2> QED
    BY <2>1, <2>2
<1>11. LinksIntact'
  <2> SUFFICES ASSUME NEW c \in Buckets
               PROVE  /\ entries'[c].ptr = IF order'[c] = <<>> THEN NoEntry
                                           ELSE order'[c][Len(order'[c])]
                      /\ \A k \in DOMAIN order'[c] :
                           next[order'[c][k]] = IF k = 1 THEN NoEntry ELSE order'[c][k - 1]
    BY <1>1 DEF LinksIntact
  <2>1. CASE c # b
    BY <1>4, <2>1 DEF IInv, LinksIntact
  <2>2. CASE c = b
    <3>1. order'[c] # <<>> /\ order'[c][Len(order'[c])] = e
      BY <1>4, <1>5, <2>2
    <3>2. ASSUME NEW k \in DOMAIN s
          PROVE  next[Append(s, e)[k]] = IF k = 1 THEN NoEntry ELSE Append(s, e)[k - 1]
      <4>1. next[s[k]] = IF k = 1 THEN NoEntry ELSE s[k - 1]
        BY <1>2 DEF IInv, LinksIntact
      <4>2. Append(s, e)[k] = s[k] /\ (k # 1 => k - 1 \in DOMAIN s)
        BY <1>5
      <4>3. k # 1 => Append(s, e)[k - 1] = s[k - 1]
        BY <1>5, <4>2
      <4> QED
        BY <4>1, <4>2, <4>3
    <3>3. next[e] = IF s = <<>> THEN NoEntry ELSE s[Len(s)]
      BY <1>2 DEF IInv, LinksIntact
    <3>4. s = <<>> <=> Len(s) = 0
      BY <1>2
    <3>5. s # <<>> => Append(s, e)[Len(s)] = s[Len(s)]
      BY <1>5, <3>4
    <3>6. next[e] = IF Len(s) + 1 = 1 THEN NoEntry ELSE Append(s, e)[Len(s)]
      BY <1>5, <3>3, <3>4, <3>5
    <3>7. \A k \in DOMAIN Append(s, e) :
            next[Append(s, e)[k]] = IF k = 1 THEN NoEntry ELSE Append(s, e)[k - 1]
      <4> SUFFICES ASSUME NEW k \in DOMAIN Append(s, e)
                   PROVE  next[Append(s, e)[k]] = IF k = 1 THEN NoEntry ELSE Append(s, e)[k - 1]
        OBVIOUS
      <4>1. CASE k \in DOMAIN s
        BY <3>2, <4>1
      <4>2. CASE k = Len(s) + 1
        <5>1. Append(s, e)[k] = e /\ k - 1 = Len(s) /\ (k = 1 <=> Len(s) + 1 = 1)
          BY <1>5, <4>2
        <5> QED
          BY <3>6, <5>1
      <4> QED
        BY <1>5, <4>1, <4>2
    <3>8. order'[c] = Append(s, e) /\ entries'[c].ptr = e
      BY <1>4, <2>2
    <3> QED
      BY <3>1, <3>7, <3>8
  <2> QED
    BY <2>1, <2>2
<1>12. \A k \in DOMAIN s : s[k] # e /\ pos(hash[s[k]]) = b
  BY <1>1, <1>2 DEF IInv, Settled, Distinct
<1>13. Distinct'
  <2> SUFFICES ASSUME NEW c \in Buckets, NEW k \in DOMAIN order'[c]
               PROVE  /\ pos(hash[order'[c][k]]) = c
                      /\ \A j \in DOMAIN order'[c] : order'[c][k] = order'[c][j] => k = j
    BY DEF Distinct
  <2>1. CASE c # b
    BY <1>4, <2>1 DEF IInv, Distinct
  <2>2. CASE c = b /\ k \in DOMAIN s
    <3>1. order'[c] = Append(s, e) /\ Append(s, e)[k] = s[k]
      BY <1>4, <1>5, <2>2
    <3>2. ASSUME NEW j \in DOMAIN s, s[k] = s[j] PROVE k = j
      BY <1>2, <2>2, <3>2 DEF IInv, Distinct
    <3>3. ASSUME NEW j \in DOMAIN Append(s, e), s[k] = Append(s, e)[j] PROVE k = j
      <4>1. CASE j \in DOMAIN s
        BY <1>5, <3>2, <3>3, <4>1
      <4>2. CASE j = Len(s) + 1
        BY <1>5, <1>12, <2>2, <3>3, <4>2
      <4> QED
        BY <1>5, <4>1, <4>2
    <3> QED
      BY <1>12, <2>2, <3>1, <3>3
  <2>3. CASE c = b /\ k = Len(s) + 1
    <3>1. order'[c] = Append(s, e) /\ Append(s, e)[k] = e
      BY <1>4, <1>5, <2>3
    <3>2. \A j \in DOMAIN Append(s, e) : j # k => Append(s, e)[j] # e
      BY <1>5, <1>12, <2>3
    <3> QED
      BY <2>3, <3>1, <3>2
  <2> QED
    BY <1>4, <1>5, <2>1, <2>2, <2>3
<1> QED
  BY <1>3, <1>7, <1>8, <1>9, <1>10, <1>11, <1>13 DEF IInv

LEMMA StutterIInv ==
  ASSUME IInv, UNCHANGED vars
  PROVE  IInv'
BY DEF IInv, TypeOK, Settled, Held, Tagged, Chained, Distinct, LinksIntact, InFlight, Inserted, vars

-----------------------------------------------------------------------------

\* The inductive invariant holds of every concurrent build.
THEOREM Invariance == Spec => []IInv
<1>1. Init => IInv
  BY InitIInv
<1>2. IInv /\ [Next]_vars => IInv'
  BY FetchIInv, LinkIInv, PushIInv, PushFailsIInv, StutterIInv DEF Next, Step, Finished
<1> QED
  BY <1>1, <1>2, PTL DEF Spec

\* The variables keep their types; the tag of a hash fits the bits that the
\* bucket word reserves for it.
THEOREM TypeCorrect == Spec => []TypeOK
<1>1. IInv => TypeOK
  BY DEF IInv
<1> QED
  BY <1>1, Invariance, PTL

\* Concurrent pushes never break a chain of the hash table.
THEOREM ChainsIntact == Spec => []LinksIntact
<1>1. IInv => LinksIntact
  BY DEF IInv
<1> QED
  BY <1>1, Invariance, PTL

\* The tag filter never hides an inserted entry.
THEOREM NoFalseNegative == Spec => []FilterComplete
<1>1. ASSUME IInv PROVE FilterComplete
  <2> SUFFICES ASSUME NEW e \in Entries, Inserted(e)
               PROVE  find_chain_tagged(hash[e]) # NoEntry
    BY DEF FilterComplete
  <2> DEFINE s == order[pos(hash[e])]
  <2>1. pos(hash[e]) \in Buckets /\ s \in Seq(Entries)
    BY <1>1, HashFacts DEF IInv, TypeOK
  <2>2. PICK k \in DOMAIN s : s[k] = e
    BY <1>1 DEF IInv, Chained
  <2>3. tag(hash[e]) \in entries[pos(hash[e])].tags
    BY <1>1, <2>1, <2>2 DEF IInv, Tagged
  <2>4. s # <<>> /\ s[Len(s)] \in Entries
    BY <2>1, <2>2
  <2>5. entries[pos(hash[e])].ptr = s[Len(s)]
    BY <1>1, <2>1, <2>4 DEF IInv, LinksIntact
  <2> QED
    BY <2>3, <2>4, <2>5, HashAssumption DEF find_chain_tagged
<1> QED
  BY <1>1, Invariance, PTL

-----------------------------------------------------------------------------
(* What a lookup meets.  Met follows next by recursion on the number of      *)
(* steps; least counterexamples replace the induction.                       *)

\* A set of naturals has a least element.
LEMMA LeastElement ==
  ASSUME NEW T \in SUBSET Nat, T # {}
  PROVE  \E m \in T : \A n \in T : ~(n < m)
<1> DEFINE R == {ss \in Nat \X Nat : ss[1] < ss[2]}
<1>1. IsWellFoundedOn(R, Nat)
  BY NatLessThanWellFounded DEF OpToRel
<1>2. \A n, m \in Nat : n < m => <<n, m>> \in R
  OBVIOUS
<1> HIDE DEF R
<1>3. PICK m \in T : \A n \in T : <<n, m>> \notin R
  BY <1>1, WFMin
<1> QED
  BY <1>2, <1>3

\* A function that begins at p and follows next in every step lists what a
\* probe meets from p.
LEMMA Walk ==
  ASSUME NEW p, NEW g,
         g = [n \in Nat |-> IF n = 0 THEN p
                            ELSE IF g[n - 1] = NoEntry THEN NoEntry ELSE next[g[n - 1]]]
  PROVE  Met(p) = {g[n] : n \in 0 .. Cardinality(Entries)} \ {NoEntry}
<1> DEFINE at[n \in Nat] == IF n = 0 THEN p
                            ELSE IF at[n - 1] = NoEntry THEN NoEntry ELSE next[at[n - 1]]
<1>1. at = [n \in Nat |-> IF n = 0 THEN p
                           ELSE IF at[n - 1] = NoEntry THEN NoEntry ELSE next[at[n - 1]]]
  OBVIOUS
<1>2. Met(p) = {at[n] : n \in 0 .. Cardinality(Entries)} \ {NoEntry}
  BY DEF Met
<1> HIDE DEF at
<1>3. at[0] = p /\ g[0] = p
  BY <1>1
<1>4. \A n \in Nat \ {0} : at[n - 1] = g[n - 1] => at[n] = g[n]
  BY <1>1
<1> DEFINE T == {n \in Nat : at[n] # g[n]}
<1>5. T = {}
  <2> SUFFICES ASSUME T # {} PROVE FALSE
    OBVIOUS
  <2>1. PICK m \in T : \A n \in T : ~(n < m)
    BY LeastElement
  <2>2. m \in Nat \ {0} /\ m - 1 \in Nat /\ m - 1 < m
    BY <1>3
  <2>3. at[m - 1] = g[m - 1]
    BY <2>1, <2>2
  <2> QED
    BY <1>4, <2>2, <2>3
<1>6. Cardinality(Entries) \in Nat
  BY HashAssumption, FS_CardinalityType
<1>7. \A n \in 0 .. Cardinality(Entries) : at[n] = g[n]
  BY <1>5, <1>6
<1> QED
  BY <1>2, <1>7

\* From the first entry of a bucket a probe meets exactly the chain.
LEMMA MetChain ==
  ASSUME IInv, NEW b \in Buckets
  PROVE  Met(entries[b].ptr) = {order[b][k] : k \in DOMAIN order[b]}
<1> DEFINE s == order[b]
           len == Len(s)
           g == [n \in Nat |-> IF n < len THEN s[len - n] ELSE NoEntry]
           p == entries[b].ptr
           limit == Cardinality(Entries)
<1>1. s \in Seq(Entries) /\ len \in Nat /\ DOMAIN s = 1 .. len
  BY DEF IInv, TypeOK
<1>2. \A k \in 1 .. len : s[k] \in Entries /\ s[k] # NoEntry
  BY <1>1, HashAssumption
<1>3. p = IF len = 0 THEN NoEntry ELSE s[len]
  BY <1>1 DEF IInv, LinksIntact
<1>4. \A k \in 1 .. len : next[s[k]] = IF k = 1 THEN NoEntry ELSE s[k - 1]
  BY <1>1 DEF IInv, LinksIntact
<1>5. limit \in Nat /\ len <= limit
  <2>1. s \in Injection(1 .. len, Entries)
    BY <1>1 DEF IInv, Distinct, Injection, IsInjective
  <2>2. Cardinality(1 .. len) = len
    BY <1>1, FS_Interval
  <2>3. limit \in Nat
    BY HashAssumption, FS_CardinalityType
  <2> QED
    BY <2>1, <2>2, <2>3, HashAssumption, FS_Injection
<1>6. ASSUME NEW n \in Nat
      PROVE  g[n] = IF n = 0 THEN p ELSE IF g[n - 1] = NoEntry THEN NoEntry ELSE next[g[n - 1]]
  <2>1. CASE n = 0
    BY <1>1, <1>3, <2>1
  <2>2. CASE n # 0 /\ len <= n - 1
    <3>1. n - 1 \in Nat /\ ~(n - 1 < len) /\ ~(n < len)
      BY <1>1, <2>2
    <3> QED
      BY <2>2, <3>1
  <2>3. CASE n # 0 /\ n - 1 < len
    <3>1. n - 1 \in Nat /\ len - (n - 1) \in 1 .. len /\ (len - (n - 1)) - 1 = len - n
      BY <1>1, <2>3
    <3>2. g[n - 1] = s[len - (n - 1)] /\ g[n - 1] # NoEntry
      BY <1>2, <2>3, <3>1
    <3>3. next[g[n - 1]] = IF len - (n - 1) = 1 THEN NoEntry ELSE s[len - n]
      BY <1>4, <3>1, <3>2
    <3>4. len - (n - 1) = 1 <=> ~(n < len)
      BY <1>1, <2>3
    <3> QED
      BY <2>3, <3>2, <3>3, <3>4
  <2> QED
    BY <1>1, <2>1, <2>2, <2>3
<1>7. g = [n \in Nat |-> IF n = 0 THEN p
                         ELSE IF g[n - 1] = NoEntry THEN NoEntry ELSE next[g[n - 1]]]
  BY <1>6
<1>8. \A n \in Nat : g[n] = IF n < len THEN s[len - n] ELSE NoEntry
  OBVIOUS
<1> HIDE DEF g, s, len, p, limit
<1>9. Met(p) = {g[n] : n \in 0 .. limit} \ {NoEntry}
  BY <1>7, Walk DEF limit
<1>10. \A x \in Met(p) : \E k \in 1 .. len : x = s[k]
  <2> SUFFICES ASSUME NEW n \in 0 .. limit, g[n] # NoEntry
               PROVE  \E k \in 1 .. len : g[n] = s[k]
    BY <1>9
  <2>1. n \in Nat /\ n < len /\ g[n] = s[len - n]
    BY <1>5, <1>8
  <2>2. len - n \in 1 .. len
    BY <1>1, <2>1
  <2> QED
    BY <2>1, <2>2
<1>11. \A k \in 1 .. len : s[k] \in Met(p)
  <2> SUFFICES ASSUME NEW k \in 1 .. len PROVE s[k] \in Met(p)
    OBVIOUS
  <2>1. len - k \in Nat /\ len - k < len /\ len - k \in 0 .. limit /\ len - (len - k) = k
    BY <1>1, <1>5
  <2>2. g[len - k] = s[k]
    BY <1>8, <2>1
  <2> QED
    BY <1>2, <1>9, <2>1, <2>2
<1> QED
  BY <1>1, <1>10, <1>11 DEF s, p

\* From end() a probe meets nothing.
LEMMA MetNothing == Met(NoEntry) = {}
<1> DEFINE g == [n \in Nat |-> NoEntry]
<1>1. g = [n \in Nat |-> IF n = 0 THEN NoEntry
                         ELSE IF g[n - 1] = NoEntry THEN NoEntry ELSE next[g[n - 1]]]
  OBVIOUS
<1>2. \A n \in Nat : g[n] = NoEntry
  OBVIOUS
<1> HIDE DEF g
<1>3. Cardinality(Entries) \in Nat
  BY HashAssumption, FS_CardinalityType
<1>4. Met(NoEntry) = {g[n] : n \in 0 .. Cardinality(Entries)} \ {NoEntry}
  BY <1>1, Walk
<1> QED
  BY <1>2, <1>3, <1>4

\* A lookup finds the inserted entries of a hash, all of them and no others,
\* at every moment of a concurrent build.
THEOREM LookupRight == Spec => []LookupExact
<1>1. ASSUME IInv PROVE LookupExact
  <2> SUFFICES ASSUME NEW h \in 0 .. hashRange - 1
               PROVE  {e \in Met(find_chain_tagged(h)) : hash[e] = h}
                        = {e \in Entries : Inserted(e) /\ hash[e] = h}
    BY DEF LookupExact
  <2> DEFINE b == pos(h)
             pushed == {order[b][k] : k \in DOMAIN order[b]}
  <2>1. b \in Buckets
    BY HashAssumption DEF pos, Buckets
  <2>2. order[b] \in Seq(Entries) /\ \A k \in DOMAIN order[b] : order[b][k] \in Entries
    BY <1>1, <2>1 DEF IInv, TypeOK
  <2>3. \A x \in pushed : x \in Entries /\ Inserted(x)
    BY <1>1, <2>1, <2>2 DEF IInv, TypeOK, Settled, Inserted, InFlight
  <2>4. \A x \in Entries : Inserted(x) /\ hash[x] = h => x \in pushed
    BY <1>1 DEF IInv, Chained
  <2>5. CASE tag(h) \in entries[b].tags
    <3>1. Met(find_chain_tagged(h)) = pushed
      BY <1>1, <2>1, <2>5, MetChain DEF find_chain_tagged
    <3> QED
      BY <2>3, <2>4, <3>1
  <2>6. CASE tag(h) \notin entries[b].tags
    <3>1. Met(find_chain_tagged(h)) = {}
      BY <2>6, MetNothing DEF find_chain_tagged
    <3>2. \A x \in pushed : hash[x] # h
      BY <1>1, <2>1, <2>6 DEF IInv, Tagged
    <3> QED
      BY <2>4, <3>1, <3>2
  <2> QED
    BY <2>5, <2>6
<1> QED
  BY <1>1, Invariance, PTL

\* However many workers push to the hash table of a join at the same time, the
\* chains stay whole and the filter lets every inserted entry be found.
THEOREM Sound == Spec => []ChainsSound
<1>1. LinksIntact /\ FilterComplete => ChainsSound
  BY DEF ChainsSound
<1> QED
  BY <1>1, ChainsIntact, NoFalseNegative, PTL

-----------------------------------------------------------------------------
(* The join functions.                                                      *)

\* The pairs that have been reported for the current probe vector, or are in
\* the output of the call that runs.
Reported == delivered \cup {found[k] : k \in DOMAIN found}

\* No pair is in the output twice, or again.
FoundOnce ==
  /\ \A k, m \in DOMAIN found : found[k] = found[m] => k = m
  /\ \A k \in DOMAIN found : found[k] \notin delivered

\* Between two calls the buffers are empty; nextProbe is at the end of the
\* probe vector or, while something is owed, where it was.
BetweenCalls ==
  /\ nextProbe = 0 \/ nextProbe = numProbes
  /\ probePc \in {"next", "done"} => found = <<>> /\ i = 0
  /\ probePc \notin {"next", "done"} => nextProbe = 0 /\ numProbes > 0
  /\ probePc = "done" => numProbes = 0
  /\ i <= numProbes

(* Those with a ring of followups.                                          *)

\* The chain of probe tuple id has not been looked up.
Unseen(id) ==
  \/ probePc = "first" /\ id >= i
  \/ probePc = "next" /\ nextProbe < numProbes /\ followup = followupWrite

\* Pair p lies in the rest of a chain that is in the ring.
Queued(p) ==
  \E s \in Ring!Waiting :
    followupRing[s].id = p.probe /\ followupRing[s].entry[2] <= p.build[2]

\* What has been reported is what the ring and the first pass do not hold.
RingOwes ==
  /\ Reported \subseteq Ring!JoinResult
  /\ \A p \in Ring!JoinResult : p \in Reported <=> ~ Unseen(p.probe) /\ ~ Queued(p)

\* A slot holds the rest of the chain of a probe tuple, one for each.
SlotsSound ==
  \A s \in Ring!Waiting :
    /\ followupRing[s].id < numProbes /\ ~ Unseen(followupRing[s].id)
    /\ followupRing[s].entry \in Ring!Places
    /\ followupRing[s].entry[1] = Ring!bucketOf(Ring!hashOf(followupRing[s].id))
    /\ followupRing[s].entry[2] <= Len(chain[followupRing[s].entry[1]])
    /\ \A r \in Ring!Waiting : followupRing[r].id = followupRing[s].id => r = s

\* The first pass is at a multiple of its width until only a rest is left.
Aligned == i < numProbes - (numProbes % lanes) => \E q \in Nat : i = lanes * q

\* The output has room for what the round still handles, and the ring for one
\* followup of each probe tuple.
RingFits ==
  /\ Len(found) + fitting <= batchSize
  /\ Ring!nrFollowups <= numProbes
  /\ probePc = "first" =>
       followup = 0 /\ followupWrite <= i /\ Len(found) <= i /\ Aligned
  /\ probePc \in {"next", "done"} /\ (nextProbe >= numProbes \/ followup = followupWrite) =>
       followup = 0 /\ followupWrite = 0
  /\ probePc # "follow" => fitting = 0 /\ ~ more
  /\ probePc = "follow" => fitting <= Ring!nrFollowups /\ (more => fitting < Ring!nrFollowups)

RingInv ==
  /\ Ring!TypeOK
  /\ BetweenCalls /\ FoundOnce
  /\ RingFits /\ SlotsSound /\ RingOwes

(* joinBoncz.                                                               *)

NotCollected(id) ==
  \/ probePc = "first" /\ id >= i
  \/ probePc = "next" /\ nextProbe < numProbes /\ followups = <<>>

Rests == {followups[k] : k \in DOMAIN followups} \cup {round[k] : k \in DOMAIN round}

InRest(p) == \E f \in Rests : f.id = p.probe /\ f.entry[2] <= p.build[2]

BonczOwes ==
  /\ Reported \subseteq Boncz!Candidates
  /\ \A p \in Boncz!Candidates : p \in Reported <=> ~ NotCollected(p.probe) /\ ~ InRest(p)

RestsSound ==
  /\ \A f \in Rests :
       /\ f.id < numProbes /\ ~ NotCollected(f.id)
       /\ f.entry[1] = Boncz!bucketOf(Boncz!hashOf(f.id))
       /\ f.entry[2] <= Len(chain[f.entry[1]])
  /\ \A k, m \in DOMAIN followups : followups[k].id = followups[m].id => k = m
  /\ \A k, m \in DOMAIN round : round[k].id = round[m].id => k = m
  /\ \A k \in DOMAIN followups, m \in DOMAIN round : followups[k].id # round[m].id

BonczFits ==
  /\ Len(found) + Len(round) <= batchSize
  /\ Len(followups) + Len(round) <= numProbes
  /\ probePc = "first" => found = <<>> /\ Len(followups) <= i
  /\ probePc = "rounds" => Len(found) + Len(followups) <= batchSize
  /\ probePc # "round" => round = <<>>
  /\ probePc \in {"next", "done"} /\ nextProbe >= numProbes => followups = <<>>

BonczInv ==
  /\ Boncz!TypeOK
  /\ BetweenCalls /\ FoundOnce
  /\ BonczFits /\ RestsSound /\ BonczOwes

\* What a behaviour does not show stays as it began.
Apart ==
  /\ phase \in {"build", "ring", "boncz"}
  /\ phase = "build" => probeHashes = <<>> /\ numProbes = 0 /\ found = <<>> /\ matches = <<>> /\ delivered = {}
  /\ phase # "ring" => followup = 0 /\ followupWrite = 0 /\ fitting = 0
  /\ phase # "boncz" => followups = <<>> /\ round = <<>>

MCInv ==
  /\ Apart
  /\ phase = "ring" => RingInv
  /\ phase = "boncz" => BonczInv

-----------------------------------------------------------------------------
(* Numbers, sequences and sets that the proofs about them need.             *)

\* A sequence without repetitions has as many elements as positions.
LEMMA CountSequence ==
  ASSUME NEW S, NEW s \in Seq(S),
         \A k, m \in DOMAIN s : s[k] = s[m] => k = m
  PROVE  /\ IsFiniteSet({s[k] : k \in DOMAIN s})
         /\ Cardinality({s[k] : k \in DOMAIN s}) = Len(s)
<1> DEFINE T == {s[k] : k \in 1 .. Len(s)}
<1>1. Len(s) \in Nat /\ DOMAIN s = 1 .. Len(s)
  OBVIOUS
<1>2. s \in [1 .. Len(s) -> T]
  OBVIOUS
<1>3. \A t \in T : \E k \in 1 .. Len(s) : s[k] = t
  OBVIOUS
<1>4. \A k, m \in 1 .. Len(s) : s[k] = s[m] => k = m
  BY <1>1
<1> HIDE DEF T
<1>5. ExistsBijection(1 .. Len(s), T)
  BY <1>2, <1>3, <1>4, Fun_IsBij DEF ExistsBijection
<1>6. IsFiniteSet(1 .. Len(s)) /\ Cardinality(1 .. Len(s)) = Len(s)
  <2>1. 1 \in Int /\ Len(s) \in Int /\ (1 > Len(s) => Len(s) = 0) /\ Len(s) - 1 + 1 = Len(s)
    BY <1>1
  <2> QED
    BY <2>1, FS_Interval
<1>7. IsFiniteSet(T) /\ Cardinality(T) = Len(s)
  BY <1>5, <1>6, FS_Bijection
<1> QED
  BY <1>1, <1>7 DEF T

\* The instances of the components count like this module.
LEMMA SameCount ==
  /\ \A S : Ring!Cardinality(S) = Cardinality(S) /\ Promise!Cardinality(S) = Cardinality(S)
  /\ \A S : Ring!IsFiniteSet(S) <=> IsFiniteSet(S)
<1>1. \A S : Ring!Cardinality(S) = Cardinality(S)
  BY DEF Ring!Cardinality, Cardinality
<1>2. \A S : Promise!Cardinality(S) = Cardinality(S)
  BY DEF Promise!Cardinality, Cardinality
<1>3. \A S : Ring!IsFiniteSet(S) <=> IsFiniteSet(S)
  BY DEF Ring!IsFiniteSet, IsFiniteSet
<1> QED
  BY <1>1, <1>2, <1>3

\* An interval that begins at 1.
LEMMA CountTo ==
  ASSUME NEW n \in Nat
  PROVE  IsFiniteSet(1 .. n) /\ Cardinality(1 .. n) = n
<1>1. 1 \in Int /\ n \in Int /\ (1 > n => n = 0) /\ n - 1 + 1 = n
  OBVIOUS
<1> QED
  BY <1>1, FS_Interval

\* s lists the elements of S, each once.
Lists(s, S) ==
  /\ s \in Seq(S) /\ Len(s) = Cardinality(S) /\ DOMAIN s = 1 .. Cardinality(S)
  /\ \A k \in DOMAIN s : s[k] \in S
  /\ \A k, m \in DOMAIN s : s[k] = s[m] => k = m
  /\ \A x \in S : \E k \in DOMAIN s : s[k] = x

\* Compress lists a set of ids.
LEMMA Compressed ==
  ASSUME NEW S, S \subseteq Nat, IsFiniteSet(S)
  PROVE  Lists(Ring!Compress(S), S)
<1> DEFINE C == Cardinality(S)
           s == Ring!Compress(S)
<1>1. C \in Nat
  BY FS_CardinalityType
<1>0. PICK below : below = [x \in S |-> {y \in S : y < x}]
  OBVIOUS
<1>2. PICK rank : rank = [x \in S |-> Cardinality(below[x])]
  OBVIOUS
<1>3. \A x \in S : IsFiniteSet(below[x]) /\ rank[x] \in Nat /\ rank[x] < C
  <2> SUFFICES ASSUME NEW x \in S PROVE IsFiniteSet(below[x]) /\ rank[x] \in Nat /\ rank[x] < C
    OBVIOUS
  <2>0. x \in Nat /\ x \notin below[x]
    BY <1>0
  <2>1. below[x] \in SUBSET S /\ below[x] # S /\ rank[x] = Cardinality(below[x])
    BY <1>0, <1>2, <2>0
  <2>2. IsFiniteSet(below[x]) /\ rank[x] <= C /\ (rank[x] = C => below[x] = S)
    BY <2>1, FS_Subset
  <2>3. rank[x] \in Nat
    BY <2>1, <2>2, FS_CardinalityType
  <2> QED
    BY <1>1, <2>1, <2>2, <2>3
<1>4. \A x, y \in S : x < y => rank[x] < rank[y]
  <2> SUFFICES ASSUME NEW x \in S, NEW y \in S, x < y PROVE rank[x] < rank[y]
    OBVIOUS
  <2>0. x \in Nat /\ y \in Nat
    OBVIOUS
  <2>1. below[x] \in SUBSET below[y]
    <3> SUFFICES ASSUME NEW z \in S, z < x PROVE z < y
      BY <1>0
    <3>1. z \in Nat
      OBVIOUS
    <3> QED
      BY <2>0, <3>1
  <2>2. x \in below[y] /\ x \notin below[x]
    BY <1>0, <2>0
  <2>3. IsFiniteSet(below[y]) /\ rank[x] \in Nat /\ rank[y] \in Nat
    BY <1>3
  <2>4. rank[x] = Cardinality(below[x]) /\ rank[y] = Cardinality(below[y])
    BY <1>2
  <2>5. rank[x] <= rank[y] /\ (rank[x] = rank[y] => below[x] = below[y])
    BY <2>1, <2>3, <2>4, FS_Subset
  <2> QED
    BY <2>2, <2>3, <2>5
<1>5. \A x, y \in S : rank[x] = rank[y] => x = y
  <2> SUFFICES ASSUME NEW x \in S, NEW y \in S, rank[x] = rank[y] PROVE x = y
    OBVIOUS
  <2>1. x \in Nat /\ y \in Nat /\ rank[x] \in Nat
    BY <1>1, <1>3
  <2>2. x = y \/ x < y \/ y < x
    BY <2>1
  <2> QED
    BY <1>4, <2>1, <2>2
<1>6. rank \in [S -> 0 .. C - 1]
  BY <1>1, <1>2, <1>3
<1>7. PICK f : f = [x \in S |-> rank[x] + 1]
  OBVIOUS
<1>8. f \in [S -> 1 .. C] /\ \A x, y \in S : f[x] = f[y] => x = y
  <2>1. \A x \in S : f[x] = rank[x] + 1 /\ rank[x] \in Nat /\ rank[x] < C
    BY <1>1, <1>6, <1>7
  <2>2. \A x \in S : f[x] \in 1 .. C
    BY <1>1, <2>1
  <2>3. f \in [S -> 1 .. C]
    BY <1>7, <2>2
  <2>4. ASSUME NEW x \in S, NEW y \in S, f[x] = f[y] PROVE rank[x] = rank[y]
    BY <2>1, <2>4
  <2> QED
    BY <1>5, <2>3, <2>4
<1>9. f \in Injection(S, 1 .. C)
  BY <1>8, Fun_IsInj
<1>10. f \in Surjection(S, 1 .. C)
  <2>1. IsFiniteSet(1 .. C) /\ Cardinality(S) = Cardinality(1 .. C)
    BY <1>1, CountTo
  <2> QED
    BY <1>9, <2>1, FS_Injection
<1>11. \A n \in 1 .. C : \E x \in S : rank[x] = n - 1
  <2>1. \A n \in 1 .. C : \E x \in S : f[x] = n
    BY <1>10, Fun_SurjectionProperties
  <2>2. \A x \in S : rank[x] \in Int
    BY <1>1, <1>6
  <2> QED
    BY <1>1, <1>7, <2>1, <2>2
<1>12. s = [n \in 1 .. C |->
              CHOOSE x \in S : Ring!Cardinality({y \in S : y < x}) = n - 1]
  BY SameCount DEF Ring!Compress
<1>13. \A n \in 1 .. C : s[n] \in S /\ rank[s[n]] = n - 1
  <2>1. \A x \in S : Ring!Cardinality({y \in S : y < x}) = rank[x]
    BY <1>0, <1>2, SameCount
  <2> HIDE DEF s, C
  <2> SUFFICES ASSUME NEW n \in 1 .. C PROVE s[n] \in S /\ rank[s[n]] = n - 1
    OBVIOUS
  <2>2. \E x \in S : Ring!Cardinality({y \in S : y < x}) = n - 1
    BY <1>11, <2>1
  <2>3. s[n] = CHOOSE x \in S : Ring!Cardinality({y \in S : y < x}) = n - 1
    BY <1>12
  <2>4. s[n] \in S /\ Ring!Cardinality({y \in S : y < s[n]}) = n - 1
    BY <2>2, <2>3
  <2> QED
    BY <2>1, <2>4
<1> HIDE DEF s, C
<1>14. s \in [1 .. C -> S] /\ DOMAIN s = 1 .. C
  BY <1>12, <1>13
<1>15. s \in Seq(S) /\ Len(s) = C
  BY <1>1, <1>14
<1>16. \A k, m \in DOMAIN s : s[k] = s[m] => k = m
  <2> SUFFICES ASSUME NEW k \in 1 .. C, NEW m \in 1 .. C, s[k] = s[m] PROVE k = m
    BY <1>14
  <2>1. rank[s[k]] = k - 1 /\ rank[s[m]] = m - 1
    BY <1>13
  <2>2. k - 1 = m - 1 /\ k \in Int /\ m \in Int
    BY <2>1, <1>1
  <2> QED
    BY <2>2
<1>17. \A x \in S : \E k \in DOMAIN s : s[k] = x
  <2> SUFFICES ASSUME NEW x \in S PROVE \E k \in DOMAIN s : s[k] = x
    OBVIOUS
  <2>1. PICK n : n = rank[x] + 1
    OBVIOUS
  <2>2. rank[x] \in Nat /\ rank[x] < C
    BY <1>3
  <2>3. n \in 1 .. C /\ n - 1 = rank[x]
    BY <1>1, <2>1, <2>2
  <2>4. rank[s[n]] = rank[x] /\ s[n] \in S
    BY <1>13, <2>3
  <2> QED
    BY <1>5, <1>14, <2>3, <2>4
<1> QED
  BY <1>13, <1>14, <1>15, <1>16, <1>17 DEF s, C, Lists

-----------------------------------------------------------------------------
(* The table and the probe vector.                                          *)

\* A bucket of a finished table is a sequence of at most MaxChain hashes, each
\* of which belongs there.
LEMMA TableFacts ==
  ASSUME chain \in Ring!Tables, NEW b \in 0 .. capacity - 1
  PROVE  /\ chain[b] \in Seq(Hashes) /\ Len(chain[b]) \in 0 .. MaxChain
         /\ DOMAIN chain[b] = 1 .. Len(chain[b])
         /\ chain[b] = <<>> <=> Len(chain[b]) = 0
         /\ \A k \in 1 .. Len(chain[b]) : chain[b][k] \in Hashes
<1>1. PICK n \in 0 .. MaxChain : chain[b] \in [1 .. n -> Hashes]
  BY DEF Ring!Tables, Ring!Buckets
<1>2. n \in Nat
  BY TableAssumption DEF Ring!ChainAssumption
<1> QED
  BY <1>1, <1>2

\* Every hash has a bucket.
LEMMA HasBucket ==
  ASSUME NEW h \in Hashes
  PROVE  Ring!bucketOf(h) \in 0 .. capacity - 1
BY TableAssumption DEF Ring!CapacityAssumption, Ring!bucketOf

\* The constants of the probe side.
LEMMA Sizes ==
  /\ batchSize \in Nat \ {0} /\ ringSize \in Nat /\ ringSize > batchSize
  /\ Lanes \subseteq Nat \ {0} /\ MaxChain \in Nat
BY BuffersAssumption, TableAssumption
DEF Ring!BatchAssumption, Ring!RingAssumption, Ring!LanesAssumption, Ring!ChainAssumption

\* Where the chain of probe tuple id is.
BucketFor(id) == Ring!bucketOf(Ring!hashOf(id))

LEMMA ProbeFacts ==
  ASSUME Ring!ProbeTypeOK, NEW id \in Nat, id < numProbes
  PROVE  /\ Ring!hashOf(id) \in Hashes
         /\ BucketFor(id) \in 0 .. capacity - 1
         /\ Len(chain[BucketFor(id)]) \in 0 .. MaxChain
         /\ id \in Ring!ProbeIds
<1>1. batchSize \in Nat \ {0} /\ numProbes \in 0 .. batchSize
  BY Sizes DEF Ring!ProbeTypeOK
<1>2. id + 1 \in 1 .. numProbes /\ id \in 0 .. batchSize - 1
  BY <1>1
<1>3. Ring!hashOf(id) \in Hashes
  BY <1>2 DEF Ring!ProbeTypeOK, Ring!hashOf
<1>4. BucketFor(id) \in 0 .. capacity - 1
  BY <1>3, HasBucket DEF BucketFor
<1>5. Len(chain[BucketFor(id)]) \in 0 .. MaxChain
  BY <1>4, TableFacts DEF Ring!ProbeTypeOK
<1> QED
  BY <1>2, <1>3, <1>4, <1>5 DEF Ring!ProbeIds

\* A pair is made of a probe tuple and the bucket and place of an entry.
LEMMA PairFacts ==
  /\ \A p \in Ring!Pairs :
       /\ p.probe \in 0 .. batchSize - 1
       /\ p.build[1] \in 0 .. capacity - 1 /\ p.build[2] \in 1 .. MaxChain
       /\ p = [probe |-> p.probe, build |-> <<p.build[1], p.build[2]>>]
  /\ \A id \in 0 .. batchSize - 1, b \in 0 .. capacity - 1, k \in 1 .. MaxChain :
       Ring!Pair(id, <<b, k>>) \in Ring!Pairs
BY DEF Ring!Pairs, Ring!Pair, Ring!Places, Ring!Buckets, Ring!ProbeIds

\* The candidates and the join result of a probe vector, place by place.
LEMMA CandidateFacts ==
  ASSUME Ring!ProbeTypeOK
  PROVE  /\ \A p \in Ring!Candidates :
              /\ p \in Ring!Pairs /\ p.probe \in Nat /\ p.probe < numProbes
              /\ p.build = <<BucketFor(p.probe), p.build[2]>>
              /\ p.build[1] = BucketFor(p.probe)
              /\ p.build[2] \in 1 .. Len(chain[BucketFor(p.probe)])
         /\ \A id \in Nat, k \in Nat \ {0} :
              id < numProbes /\ k <= Len(chain[BucketFor(id)])
                => Ring!Pair(id, <<BucketFor(id), k>>) \in Ring!Candidates
<1>1. batchSize \in Nat \ {0} /\ MaxChain \in Nat /\ numProbes \in 0 .. batchSize
       /\ Len(probeHashes) = numProbes
  BY Sizes DEF Ring!ProbeTypeOK
<1>2. ASSUME NEW p \in Ring!Candidates
       PROVE  /\ p \in Ring!Pairs /\ p.probe \in Nat /\ p.probe < numProbes
              /\ p.build = <<BucketFor(p.probe), p.build[2]>>
              /\ p.build[1] = BucketFor(p.probe)
              /\ p.build[2] \in 1 .. Len(chain[BucketFor(p.probe)])
  <2>1. p \in Ring!Pairs /\ p.probe < numProbes /\ p.build[1] = BucketFor(p.probe)
         /\ p.build[2] <= Len(chain[p.build[1]])
    BY <1>1 DEF Ring!Candidates, BucketFor
  <2>2. p.probe \in 0 .. batchSize - 1 /\ p.build[1] \in 0 .. capacity - 1
         /\ p.build[2] \in 1 .. MaxChain
         /\ p = [probe |-> p.probe, build |-> <<p.build[1], p.build[2]>>]
    BY <2>1, PairFacts
  <2>3. p.build = <<p.build[1], p.build[2]>>
    BY <2>2
  <2>4. p.probe \in Nat /\ p.build[2] \in Nat \ {0}
    BY <1>1, <2>2
  <2>5. Len(chain[BucketFor(p.probe)]) \in Nat
    BY <2>1, <2>4, <1>1, ProbeFacts
  <2> QED
    BY <2>1, <2>3, <2>4, <2>5
<1>3. ASSUME NEW id \in Nat, NEW k \in Nat \ {0}, id < numProbes, k <= Len(chain[BucketFor(id)])
       PROVE  Ring!Pair(id, <<BucketFor(id), k>>) \in Ring!Candidates
  <2>1. BucketFor(id) \in 0 .. capacity - 1 /\ Len(chain[BucketFor(id)]) \in 0 .. MaxChain
    BY <1>3, ProbeFacts
  <2>2. id \in 0 .. batchSize - 1 /\ k \in 1 .. MaxChain
    BY <1>1, <1>3, <2>1
  <2>3. Ring!Pair(id, <<BucketFor(id), k>>) \in Ring!Pairs
    BY <2>1, <2>2, PairFacts
  <2>4. id < Len(probeHashes)
    BY <1>1, <1>3
  <2>5. PICK p : p = Ring!Pair(id, <<BucketFor(id), k>>)
    OBVIOUS
  <2>6. p.probe = id /\ p.build[1] = BucketFor(id) /\ p.build[2] = k
    BY <2>5 DEF Ring!Pair
  <2> QED
    BY <1>3, <2>3, <2>4, <2>5, <2>6 DEF Ring!Candidates, BucketFor
<1> QED
  BY <1>2, <1>3

\* next and find_chain_tagged, place by place.
LEMMA NextFacts ==
  ASSUME Ring!ProbeTypeOK, NEW id \in Nat, id < numProbes,
         NEW e, e \in Ring!Places, e[1] = BucketFor(id), e[2] <= Len(chain[e[1]])
  PROVE  /\ e = <<BucketFor(id), e[2]>> /\ e[2] \in 1 .. Len(chain[BucketFor(id)])
         /\ Len(chain[BucketFor(id)]) \in Nat /\ e # Ring!NoMore
         /\ Ring!Pair(id, e) \in Ring!Candidates
         /\ e[2] = Len(chain[BucketFor(id)]) => Ring!next(e) = Ring!NoMore
         /\ e[2] # Len(chain[BucketFor(id)]) =>
              /\ Ring!next(e) # Ring!NoMore /\ Ring!next(e) \in Ring!Places
              /\ Ring!next(e)[1] = BucketFor(id) /\ Ring!next(e)[2] = e[2] + 1
              /\ e[2] + 1 <= Len(chain[BucketFor(id)])
<1>1. BucketFor(id) \in 0 .. capacity - 1 /\ Len(chain[BucketFor(id)]) \in 0 .. MaxChain
  BY ProbeFacts
<1>2. e = <<e[1], e[2]>> /\ e[2] \in 1 .. MaxChain
  BY DEF Ring!Places
<1>3. MaxChain \in Nat
  BY Sizes
<1>4. e[2] \in Nat \ {0} /\ e[2] <= Len(chain[BucketFor(id)]) /\ e # <<>>
  <2>1. PICK b, k : e = <<b, k>>
    BY <1>2
  <2>2. e # <<>>
    BY <2>1
  <2> QED
    BY <1>2, <1>3, <2>2
<1>5. Ring!Pair(id, e) \in Ring!Candidates
  BY <1>2, <1>4, CandidateFacts
<1>6. CASE e[2] = Len(chain[BucketFor(id)])
  BY <1>1, <1>2, <1>3, <1>4, <1>5, <1>6 DEF Ring!next, Ring!NoMore
<1>7. CASE e[2] # Len(chain[BucketFor(id)])
  <2>1. Ring!next(e) = <<e[1], e[2] + 1>> /\ e[2] + 1 <= Len(chain[BucketFor(id)])
    BY <1>1, <1>3, <1>4, <1>7 DEF Ring!next
  <2>2. e[2] + 1 \in 1 .. MaxChain /\ e[1] \in 0 .. capacity - 1
    BY <1>1, <1>3, <1>4, <2>1
  <2>3. Ring!next(e) \in Ring!Places /\ Ring!next(e) # <<>>
         /\ Ring!next(e)[1] = e[1] /\ Ring!next(e)[2] = e[2] + 1
    BY <2>1, <2>2 DEF Ring!Places, Ring!Buckets
  <2> QED
    BY <1>1, <1>2, <1>3, <1>4, <1>5, <1>7, <2>1, <2>3 DEF Ring!NoMore
<1> QED
  BY <1>6, <1>7

LEMMA HeadFacts ==
  ASSUME Ring!ProbeTypeOK, NEW id \in Nat, id < numProbes
  PROVE  LET e == Ring!find_chain_tagged(Ring!hashOf(id))
         IN  /\ e = Ring!NoMore => Len(chain[BucketFor(id)]) = 0
             /\ e # Ring!NoMore =>
                  /\ e \in Ring!Places /\ e[1] = BucketFor(id) /\ e[2] = 1
                  /\ e[2] <= Len(chain[e[1]])
<1>1. BucketFor(id) \in 0 .. capacity - 1 /\ Len(chain[BucketFor(id)]) \in 0 .. MaxChain
  BY ProbeFacts
<1>2. chain[BucketFor(id)] = <<>> <=> Len(chain[BucketFor(id)]) = 0
  BY <1>1, TableFacts DEF Ring!ProbeTypeOK
<1>3. MaxChain \in Nat
  BY Sizes
<1>4. CASE chain[BucketFor(id)] = <<>>
  BY <1>2, <1>4 DEF Ring!find_chain_tagged, BucketFor, Ring!NoMore
<1>5. CASE chain[BucketFor(id)] # <<>>
  <2>1. PICK e : e = Ring!find_chain_tagged(Ring!hashOf(id))
    OBVIOUS
  <2>2. e = <<BucketFor(id), 1>> /\ 1 <= Len(chain[BucketFor(id)]) /\ 1 \in 1 .. MaxChain
    BY <1>1, <1>2, <1>3, <1>5, <2>1 DEF Ring!find_chain_tagged, BucketFor
  <2>3. e \in Ring!Places /\ e[1] = BucketFor(id) /\ e[2] = 1 /\ e # <<>>
    BY <1>1, <2>2 DEF Ring!Places, Ring!Buckets
  <2> QED
    BY <2>1, <2>2, <2>3 DEF Ring!NoMore
<1> QED
  BY <1>4, <1>5

-----------------------------------------------------------------------------
(* The ring of followups.                                                   *)

Between(f, w) == IF f <= w THEN f .. w - 1 ELSE (f .. ringSize - 1) \cup (0 .. w - 1)

Distance(f, w) == IF f <= w THEN w - f ELSE ringSize - (f - w)

Slots == 0 .. ringSize - 1

LEMMA WaitingIs ==
  /\ Ring!Waiting = Between(followup, followupWrite)
  /\ Ring!nrFollowups = Distance(followup, followupWrite)
  /\ Ring!Waiting' = Between(followup', followupWrite')
  /\ Ring!nrFollowups' = Distance(followup', followupWrite')
BY DEF Ring!Waiting, Ring!nrFollowups, Between, Distance

LEMMA RingFacts ==
  ASSUME NEW f \in Slots, NEW w \in Slots
  PROVE  /\ Distance(f, w) \in Nat /\ Between(f, w) \subseteq Slots
         /\ w \notin Between(f, w)
         /\ f = w <=> Distance(f, w) = 0
         /\ f = w => Between(f, w) = {}
         /\ f # w => f \in Between(f, w)
BY Sizes DEF Slots, Between, Distance

\* The next slot of the ring.
LEMMA NextSlot ==
  ASSUME NEW x \in Slots
  PROVE  (x + 1) % ringSize = IF x = ringSize - 1 THEN 0 ELSE x + 1
<1>1. ringSize \in Nat \ {0}
  BY Sizes
<1>2. CASE x = ringSize - 1
  BY <1>1, <1>2
<1>3. CASE x # ringSize - 1
  <2>1. x + 1 \in 0 .. ringSize - 1
    BY <1>1, <1>3 DEF Slots
  <2> QED
    BY <1>1, <1>3, <2>1
<1> QED
  BY <1>2, <1>3

\* A followup is read; another may be written.
LEMMA RingMoves ==
  ASSUME NEW f \in Slots, NEW w \in Slots, f # w
  PROVE  LET f1 == (f + 1) % ringSize
             w1 == (w + 1) % ringSize
         IN  /\ f1 \in Slots /\ w1 \in Slots
             /\ Between(f1, w) = Between(f, w) \ {f}
             /\ Distance(f1, w) = Distance(f, w) - 1
             /\ Between(f1, w1) = (Between(f, w) \ {f}) \cup {w}
             /\ Distance(f1, w1) = Distance(f, w)
<1>1. PICK f1, w1 : f1 = (f + 1) % ringSize /\ w1 = (w + 1) % ringSize
  OBVIOUS
<1>2. ringSize \in Nat \ {0}
  BY Sizes
<1>3. f1 = (IF f = ringSize - 1 THEN 0 ELSE f + 1) /\ w1 = (IF w = ringSize - 1 THEN 0 ELSE w + 1)
  BY <1>1, NextSlot
<1>4. f1 \in Slots /\ w1 \in Slots
  BY <1>2, <1>3 DEF Slots
<1>5. Between(f1, w) = Between(f, w) \ {f}
  BY <1>2, <1>3 DEF Slots, Between
<1>6. Distance(f1, w) = Distance(f, w) - 1
  BY <1>2, <1>3 DEF Slots, Distance
<1>7. Between(f1, w1) = (Between(f, w) \ {f}) \cup {w}
  BY <1>2, <1>3 DEF Slots, Between
<1>8. Distance(f1, w1) = Distance(f, w)
  BY <1>2, <1>3 DEF Slots, Distance
<1> QED
  BY <1>1, <1>4, <1>5, <1>6, <1>7, <1>8

-----------------------------------------------------------------------------
(* The steps of the join functions with a ring.                             *)

\* While the probe vector stays, so does its join result.
LEMMA SameVector ==
  ASSUME UNCHANGED <<chain, probeHashes>>
  PROVE  /\ Ring!Candidates' = Ring!Candidates /\ Ring!JoinResult' = Ring!JoinResult
         /\ \A id : Ring!hashOf(id)' = Ring!hashOf(id) /\ BucketFor(id)' = BucketFor(id)
<1>1. \A id : Ring!hashOf(id)' = Ring!hashOf(id) /\ BucketFor(id)' = BucketFor(id)
  BY DEF Ring!hashOf, BucketFor, Ring!bucketOf
<1>2. Ring!Candidates' = Ring!Candidates
  BY <1>1 DEF Ring!Candidates, Ring!bucketOf
<1>3. Ring!JoinResult' = Ring!JoinResult
  BY <1>1, <1>2 DEF Ring!JoinResult, Ring!entryHash
<1> QED
  BY <1>1, <1>2, <1>3

\* A step that neither reports nor moves a followup.
LEMMA QuietStep ==
  ASSUME RingInv, UNCHANGED <<chain, probeHashes, numProbes>>, Reported' = Reported,
         Ring!Waiting' = Ring!Waiting,
         \A s \in Ring!Waiting : followupRing'[s] = followupRing[s],
         \A id \in Nat : id < numProbes => (Unseen(id)' <=> Unseen(id))
  PROVE  SlotsSound' /\ RingOwes'
<1>1. Ring!Waiting \subseteq Slots /\ \A s \in Slots : followupRing[s].id \in Nat
  <2>1. followup \in Slots /\ followupWrite \in Slots
    BY DEF RingInv, Ring!TypeOK, Slots
  <2>2. Ring!Waiting \subseteq Slots
    BY <2>1, WaitingIs, RingFacts
  <2>3. ASSUME NEW s \in Slots PROVE followupRing[s].id \in Nat
    <3>1. followupRing[s] \in [id : Ring!ProbeIds, entry : Ring!Places \cup {Ring!NoMore}]
      BY DEF RingInv, Ring!TypeOK, Slots
    <3>2. followupRing[s].id \in 0 .. batchSize - 1
      BY <3>1 DEF Ring!ProbeIds
    <3> QED
      BY <3>2, Sizes
  <2> QED
    BY <2>2, <2>3
<1>2. SlotsSound'
  <2> SUFFICES ASSUME NEW s \in Ring!Waiting
               PROVE  /\ followupRing[s].id < numProbes /\ ~ Unseen(followupRing[s].id)'
                      /\ followupRing[s].entry \in Ring!Places'
                      /\ followupRing[s].entry[1] = BucketFor(followupRing[s].id)'
                      /\ followupRing[s].entry[2] <= Len(chain[followupRing[s].entry[1]])
                      /\ \A r \in Ring!Waiting : followupRing[r].id = followupRing[s].id => r = s
    BY DEF SlotsSound, BucketFor
  <2>1. /\ followupRing[s].id < numProbes /\ ~ Unseen(followupRing[s].id)
        /\ followupRing[s].entry \in Ring!Places
        /\ followupRing[s].entry[1] = BucketFor(followupRing[s].id)
        /\ followupRing[s].entry[2] <= Len(chain[followupRing[s].entry[1]])
        /\ \A r \in Ring!Waiting : followupRing[r].id = followupRing[s].id => r = s
    BY DEF RingInv, SlotsSound, BucketFor
  <2>2. followupRing[s].id \in Nat
    BY <1>1
  <2> QED
    BY <2>1, <2>2, SameVector DEF Ring!Places, Ring!Buckets
<1>3. RingOwes'
  <2>1. Reported \subseteq Ring!JoinResult
    BY DEF RingInv, RingOwes
  <2>2. ASSUME NEW p \in Ring!JoinResult
        PROVE  p \in Reported <=> ~ Unseen(p.probe)' /\ ~ Queued(p)'
    <3>1. p.probe \in Nat /\ p.probe < numProbes
      BY <2>2, CandidateFacts DEF Ring!JoinResult, RingInv, Ring!TypeOK
    <3>2. Queued(p)' <=> Queued(p)
      BY DEF Queued
    <3> QED
      BY <3>1, <3>2 DEF RingInv, RingOwes
  <2> QED
    BY <2>1, <2>2, SameVector DEF RingOwes
<1> QED
  BY <1>2, <1>3

\* The conjuncts of the type invariant that a step may change.
LEMMA RingTypes ==
  ASSUME RingInv, chain' = chain, lanes' = lanes,
         numProbes' \in 0 .. batchSize, nextProbe' \in 0 .. batchSize,
         probeHashes' \in [1 .. numProbes' -> Hashes],
         i' \in 0 .. batchSize, found' \in Seq(Ring!Pairs), matches' \in Seq(Ring!Pairs),
         delivered' \in SUBSET Ring!Pairs,
         probePc' \in {"next", "first", "round", "follow", "done"},
         followupRing' \in [Slots -> [id : Ring!ProbeIds, entry : Ring!Places \cup {Ring!NoMore}]],
         followup' \in Slots, followupWrite' \in Slots, fitting' \in 0 .. batchSize, more' \in BOOLEAN
  PROVE  Ring!TypeOK'
BY DEF RingInv, Ring!TypeOK, Ring!ProbeTypeOK, Ring!Tables, Ring!Buckets, Slots,
   Ring!Pairs, Ring!ProbeIds, Ring!Places, Ring!NoMore, Ring!bucketOf

LEMMA RingTypesNow ==
  ASSUME RingInv
  PROVE  /\ Ring!ProbeTypeOK /\ batchSize \in Nat \ {0}
         /\ numProbes \in 0 .. batchSize /\ nextProbe \in 0 .. batchSize
         /\ probeHashes \in [1 .. numProbes -> Hashes]
         /\ i \in 0 .. batchSize /\ found \in Seq(Ring!Pairs) /\ matches \in Seq(Ring!Pairs)
         /\ delivered \in SUBSET Ring!Pairs
         /\ followupRing \in [Slots -> [id : Ring!ProbeIds, entry : Ring!Places \cup {Ring!NoMore}]]
         /\ followup \in Slots /\ followupWrite \in Slots
         /\ fitting \in 0 .. batchSize /\ more \in BOOLEAN
         /\ lanes \in Nat \ {0}
BY Sizes DEF RingInv, Ring!TypeOK, Ring!ProbeTypeOK, Slots

LEMMA RingUnchanged ==
  ASSUME RingInv, UNCHANGED <<probeVars, ringVars>>
  PROVE  RingInv'
<1>1. /\ UNCHANGED <<chain, probeHashes, nextProbe, numProbes, probePc, i, found, matches, delivered>>
      /\ UNCHANGED <<lanes, followupRing, followup, followupWrite, fitting, more>>
  BY DEF probeVars, ringVars
<1>2. Ring!TypeOK'
  BY <1>1, RingTypes, RingTypesNow DEF RingInv, Ring!TypeOK
<1>3. SlotsSound' /\ RingOwes'
  <2>1. Reported' = Reported /\ \A id : Unseen(id)' <=> Unseen(id)
    BY <1>1 DEF Reported, Unseen
  <2>2. Ring!Waiting' = Ring!Waiting
    BY <1>1, WaitingIs
  <2> QED
    BY <1>1, <2>1, <2>2, QuietStep
<1>4. BetweenCalls' /\ FoundOnce' /\ RingFits'
  BY <1>1 DEF RingInv, BetweenCalls, FoundOnce, RingFits, Aligned, Ring!nrFollowups
<1> QED
  BY <1>2, <1>3, <1>4 DEF RingInv

\* The ring while a probe vector has not been touched.
LEMMA RingEmpty ==
  Distance(0, 0) = 0 /\ Between(0, 0) = {} /\ 0 \in Slots
BY Sizes DEF Distance, Between, Slots

LEMMA RefillRing ==
  ASSUME RingInv, Ring!Refill
  PROVE  RingInv'
<1>1. PICK n \in 1 .. batchSize : probeHashes' \in [1 .. n -> Hashes] /\ numProbes' = n
  BY DEF Ring!Refill, Ring!RefillProbe
<1>2. /\ probePc = "next" /\ nextProbe >= numProbes
      /\ nextProbe' = 0 /\ delivered' = {} /\ matches' = <<>>
      /\ UNCHANGED <<chain, probePc, i, found>>
      /\ UNCHANGED <<lanes, followupRing, followup, followupWrite, fitting, more>>
  BY DEF Ring!Refill, Ring!RefillProbe, Ring!ringVars, Ring!roundVars
<1>3. followup = 0 /\ followupWrite = 0 /\ fitting = 0 /\ ~ more /\ found = <<>> /\ i = 0
  BY <1>2 DEF RingInv, RingFits, BetweenCalls
<1>4. n \in Nat /\ n > 0 /\ n <= batchSize /\ 0 \in 0 .. batchSize
  BY Sizes
<1>5. Ring!TypeOK'
  <2>1. n \in 0 .. batchSize /\ matches' \in Seq(Ring!Pairs) /\ {} \in SUBSET Ring!Pairs
    BY <1>2, <1>4
  <2>2. probePc' \in {"next", "first", "round", "follow", "done"}
    BY <1>2
  <2> QED
    BY <1>1, <1>2, <1>4, <2>1, <2>2, RingTypes, RingTypesNow
<1>6. Ring!Waiting' = {} /\ Ring!nrFollowups' = 0
  BY <1>2, <1>3, WaitingIs, RingEmpty
<1>7. BetweenCalls' /\ FoundOnce'
  BY <1>1, <1>2, <1>3, <1>4 DEF BetweenCalls, FoundOnce
<1>8. RingFits'
  BY <1>1, <1>2, <1>3, <1>4, <1>6 DEF RingFits
<1>9. SlotsSound'
  BY <1>6 DEF SlotsSound
<1>10. RingOwes'
  <2>1. Reported' = {}
    BY <1>2, <1>3 DEF Reported
  <2>2. ASSUME NEW p PROVE Unseen(p.probe)'
    BY <1>1, <1>2, <1>3, <1>4 DEF Unseen
  <2> QED
    BY <2>1, <2>2 DEF RingOwes
<1> QED
  BY <1>5, <1>7, <1>8, <1>9, <1>10 DEF RingInv

LEMMA EndRing ==
  ASSUME RingInv, Ring!EndOfStream
  PROVE  RingInv'
<1>1. /\ probePc = "next" /\ nextProbe >= numProbes /\ probePc' = "done"
      /\ nextProbe' = 0 /\ numProbes' = 0 /\ probeHashes' = <<>> /\ delivered' = {} /\ matches' = <<>>
      /\ UNCHANGED <<chain, i, found>>
      /\ UNCHANGED <<lanes, followupRing, followup, followupWrite, fitting, more>>
  BY DEF Ring!EndOfStream, Ring!EndProbe, Ring!ringVars, Ring!roundVars
<1>2. followup = 0 /\ followupWrite = 0 /\ fitting = 0 /\ ~ more /\ found = <<>> /\ i = 0
  BY <1>1 DEF RingInv, RingFits, BetweenCalls
<1>3. 0 \in 0 .. batchSize /\ batchSize \in Nat
  BY Sizes
<1>4. Ring!TypeOK'
  <2>1. matches' \in Seq(Ring!Pairs) /\ {} \in SUBSET Ring!Pairs /\ probeHashes' \in [1 .. 0 -> Hashes]
    BY <1>1
  <2>2. probePc' \in {"next", "first", "round", "follow", "done"}
    BY <1>1
  <2> QED
    BY <1>1, <1>3, <2>1, <2>2, RingTypes, RingTypesNow
<1>5. Ring!Waiting' = {} /\ Ring!nrFollowups' = 0
  BY <1>1, <1>2, WaitingIs, RingEmpty
<1>6. BetweenCalls' /\ FoundOnce'
  BY <1>1, <1>2 DEF BetweenCalls, FoundOnce
<1>7. RingFits'
  BY <1>1, <1>2, <1>3, <1>5 DEF RingFits
<1>8. SlotsSound'
  BY <1>5 DEF SlotsSound
<1>9. RingOwes'
  <2>1. Reported' = {}
    BY <1>1, <1>2 DEF Reported
  <2>2. Ring!JoinResult' = {}
    BY <1>1 DEF Ring!JoinResult, Ring!Candidates, Ring!Pairs, Ring!ProbeIds
  <2> QED
    BY <2>1, <2>2 DEF RingOwes
<1> QED
  BY <1>4, <1>6, <1>7, <1>8, <1>9 DEF RingInv

LEMMA CallRing ==
  ASSUME RingInv, Ring!CallJoin
  PROVE  RingInv'
<1>1. /\ probePc = "next" /\ nextProbe < numProbes
      /\ probePc' = (IF followup = followupWrite THEN "first" ELSE "round")
      /\ UNCHANGED <<chain, probeHashes, nextProbe, numProbes, i, found, matches, delivered>>
      /\ UNCHANGED <<lanes, followupRing, followup, followupWrite, fitting, more>>
  BY DEF Ring!CallJoin, Ring!Call, Ring!ringVars, Ring!roundVars
<1>2. /\ nextProbe = 0 /\ found = <<>> /\ i = 0 /\ fitting = 0 /\ ~ more /\ Len(found) = 0
      /\ followup = followupWrite => followup = 0 /\ followupWrite = 0
  BY <1>1, RingTypesNow DEF RingInv, RingFits, BetweenCalls
<1>3. Ring!TypeOK'
  BY <1>1, RingTypes, RingTypesNow
<1>4. Ring!Waiting' = Ring!Waiting /\ Ring!nrFollowups' = Ring!nrFollowups
  BY <1>1, WaitingIs
<1>5. BetweenCalls' /\ FoundOnce'
  BY <1>1, <1>2 DEF RingInv, BetweenCalls, FoundOnce
<1>6. RingFits'
  <2>1. Aligned'
    <3>1. 0 = lanes * 0 /\ 0 \in Nat
      BY RingTypesNow
    <3> QED
      BY <1>1, <1>2, <3>1 DEF Aligned
  <2> QED
    BY <1>1, <1>2, <1>4, <2>1 DEF RingInv, RingFits
<1>7. SlotsSound' /\ RingOwes'
  <2>1. Reported' = Reported
    BY <1>1 DEF Reported
  <2>2. \A id \in Nat : id < numProbes => (Unseen(id)' <=> Unseen(id))
    BY <1>1, <1>2 DEF Unseen
  <2> QED
    BY <1>1, <1>4, <2>1, <2>2, QuietStep
<1> QED
  BY <1>3, <1>5, <1>6, <1>7 DEF RingInv

LEMMA FirstPassDoneRing ==
  ASSUME RingInv, Ring!FirstPassDone
  PROVE  RingInv'
<1>1. /\ probePc = "first" /\ i >= numProbes /\ probePc' = "round"
      /\ followupWrite' = followupWrite % ringSize
      /\ UNCHANGED <<chain, probeHashes, nextProbe, numProbes, i, found, matches, delivered>>
      /\ UNCHANGED <<lanes, followupRing, followup, fitting, more>>
  BY DEF Ring!FirstPassDone, Ring!roundVars
<1>2. followupWrite' = followupWrite
  <2>1. ringSize \in Nat \ {0} /\ followupWrite \in 0 .. ringSize - 1
    BY Sizes, RingTypesNow DEF Slots
  <2>2. followupWrite % ringSize = followupWrite
    BY <2>1
  <2> QED
    BY <1>1, <2>2
<1>3. nextProbe = 0 /\ numProbes > 0 /\ fitting = 0 /\ ~ more
  BY <1>1 DEF RingInv, RingFits, BetweenCalls
<1>4. Ring!TypeOK'
  BY <1>1, <1>2, RingTypes, RingTypesNow
<1>5. Ring!Waiting' = Ring!Waiting /\ Ring!nrFollowups' = Ring!nrFollowups
  BY <1>1, <1>2, WaitingIs
<1>6. BetweenCalls' /\ FoundOnce'
  BY <1>1, <1>3 DEF RingInv, BetweenCalls, FoundOnce
<1>7. RingFits'
  BY <1>1, <1>2, <1>3, <1>5 DEF RingInv, RingFits
<1>8. SlotsSound' /\ RingOwes'
  <2>1. Reported' = Reported
    BY <1>1 DEF Reported
  <2>2. \A id \in Nat : id < numProbes => (Unseen(id)' <=> Unseen(id))
    BY <1>1, RingTypesNow DEF Unseen
  <2> QED
    BY <1>1, <1>5, <2>1, <2>2, QuietStep
<1> QED
  BY <1>4, <1>6, <1>7, <1>8 DEF RingInv

LEMMA StartRoundRing ==
  ASSUME RingInv, Ring!StartRound
  PROVE  RingInv'
<1>1. /\ probePc = "round" /\ probePc' = "follow" /\ followup # followupWrite
      /\ fitting' = (IF Ring!nrFollowups < batchSize - Len(found) THEN Ring!nrFollowups
                     ELSE batchSize - Len(found))
      /\ more' = (fitting' < Ring!nrFollowups)
      /\ UNCHANGED <<chain, probeHashes, nextProbe, numProbes, i, found, matches, delivered>>
      /\ UNCHANGED <<lanes, followupRing, followup, followupWrite>>
  BY DEF Ring!StartRound, Ring!ringVars
<1>2. /\ nextProbe = 0 /\ numProbes > 0 /\ fitting = 0 /\ ~ more
      /\ Len(found) \in Nat /\ Len(found) <= batchSize
  BY <1>1, RingTypesNow DEF RingInv, RingFits, BetweenCalls
<1>3. Ring!nrFollowups \in Nat /\ Ring!nrFollowups <= numProbes
  BY WaitingIs, RingFacts, RingTypesNow DEF RingInv, RingFits
<1>4. /\ fitting' \in 0 .. batchSize /\ Len(found) + fitting' <= batchSize
      /\ fitting' <= Ring!nrFollowups /\ more' \in BOOLEAN
  BY <1>1, <1>2, <1>3, RingTypesNow
<1>5. Ring!TypeOK'
  BY <1>1, <1>4, RingTypes, RingTypesNow
<1>6. Ring!Waiting' = Ring!Waiting /\ Ring!nrFollowups' = Ring!nrFollowups
  BY <1>1, WaitingIs
<1>7. BetweenCalls' /\ FoundOnce'
  BY <1>1, <1>2 DEF RingInv, BetweenCalls, FoundOnce
<1>8. RingFits'
  BY <1>1, <1>2, <1>4, <1>6 DEF RingInv, RingFits
<1>9. SlotsSound' /\ RingOwes'
  <2>1. Reported' = Reported
    BY <1>1 DEF Reported
  <2>2. \A id \in Nat : id < numProbes => (Unseen(id)' <=> Unseen(id))
    BY <1>1 DEF Unseen
  <2> QED
    BY <1>1, <1>6, <2>1, <2>2, QuietStep
<1> QED
  BY <1>5, <1>7, <1>8, <1>9 DEF RingInv

LEMMA EndRoundRing ==
  ASSUME RingInv, Ring!EndRound
  PROVE  RingInv'
<1>1. /\ probePc = "follow" /\ probePc' = "round" /\ fitting = 0 /\ ~ more
      /\ UNCHANGED <<chain, probeHashes, nextProbe, numProbes, i, found, matches, delivered>>
      /\ UNCHANGED <<lanes, followupRing, followup, followupWrite, fitting, more>>
  BY DEF Ring!EndRound, Ring!ringVars, Ring!roundVars
<1>2. Ring!TypeOK'
  BY <1>1, RingTypes, RingTypesNow
<1>3. Ring!Waiting' = Ring!Waiting /\ Ring!nrFollowups' = Ring!nrFollowups
  BY <1>1, WaitingIs
<1>4. BetweenCalls' /\ FoundOnce'
  BY <1>1 DEF RingInv, BetweenCalls, FoundOnce
<1>5. RingFits'
  BY <1>1, <1>3 DEF RingInv, RingFits
<1>6. SlotsSound' /\ RingOwes'
  <2>1. Reported' = Reported
    BY <1>1 DEF Reported
  <2>2. \A id \in Nat : id < numProbes => (Unseen(id)' <=> Unseen(id))
    BY <1>1 DEF Unseen
  <2> QED
    BY <1>1, <1>3, <2>1, <2>2, QuietStep
<1> QED
  BY <1>2, <1>4, <1>5, <1>6 DEF RingInv

LEMMA ContinueRing ==
  ASSUME RingInv, Ring!ReturnToContinue
  PROVE  RingInv'
<1>1. /\ probePc = "follow" /\ fitting = 0 /\ more /\ probePc' = "next"
      /\ matches' = found /\ delivered' = Reported /\ nextProbe' = nextProbe
      /\ found' = <<>> /\ i' = 0 /\ more' = FALSE
      /\ UNCHANGED <<chain, probeHashes, numProbes>>
      /\ UNCHANGED <<lanes, followupRing, followup, followupWrite, fitting>>
  BY DEF Ring!ReturnToContinue, Ring!Return, Ring!ringVars, Reported
<1>2. nextProbe = 0 /\ numProbes > 0 /\ Ring!nrFollowups # 0 /\ numProbes \in Nat
  <2>1. Ring!nrFollowups \in Nat
    BY WaitingIs, RingFacts, RingTypesNow
  <2> QED
    BY <1>1, <2>1, RingTypesNow DEF RingInv, RingFits, BetweenCalls
<1>3. followup # followupWrite
  BY <1>2, WaitingIs, RingFacts, RingTypesNow
<1>4. Ring!TypeOK'
  <2>1. delivered' \in SUBSET Ring!Pairs
    BY <1>1, CandidateFacts, RingTypesNow DEF RingInv, RingOwes, Ring!JoinResult
  <2>2. found' \in Seq(Ring!Pairs) /\ i' \in 0 .. batchSize
    BY <1>1, RingTypesNow
  <2>3. more' \in BOOLEAN
    BY <1>1
  <2> QED
    BY <1>1, <2>1, <2>2, <2>3, RingTypes, RingTypesNow
<1>5. Ring!Waiting' = Ring!Waiting /\ Ring!nrFollowups' = Ring!nrFollowups
  BY <1>1, WaitingIs
<1>6. BetweenCalls' /\ FoundOnce'
  BY <1>1, <1>2 DEF BetweenCalls, FoundOnce
<1>7. RingFits'
  BY <1>1, <1>2, <1>3, <1>5, RingTypesNow DEF RingInv, RingFits
<1>8. SlotsSound' /\ RingOwes'
  <2>1. Reported' = Reported
    BY <1>1 DEF Reported
  <2>2. \A id \in Nat : id < numProbes => (Unseen(id)' <=> Unseen(id))
    BY <1>1, <1>3 DEF Unseen
  <2> QED
    BY <1>1, <1>5, <2>1, <2>2, QuietStep
<1> QED
  BY <1>4, <1>6, <1>7, <1>8 DEF RingInv

LEMMA LastRing ==
  ASSUME RingInv, Ring!ReturnLast
  PROVE  RingInv'
<1>1. /\ probePc = "round" /\ followup = followupWrite /\ probePc' = "next"
      /\ matches' = found /\ delivered' = Reported /\ nextProbe' = numProbes
      /\ found' = <<>> /\ i' = 0
      /\ followupRing' = Ring!NoFollowups /\ followup' = 0 /\ followupWrite' = 0
      /\ UNCHANGED <<chain, probeHashes, numProbes>>
      /\ UNCHANGED <<lanes, fitting, more>>
  BY DEF Ring!ReturnLast, Ring!Return, Ring!roundVars, Reported
<1>2. numProbes > 0 /\ fitting = 0 /\ ~ more /\ numProbes \in Nat
  BY <1>1, RingTypesNow DEF RingInv, RingFits, BetweenCalls
<1>3. Ring!TypeOK'
  <2>1. delivered' \in SUBSET Ring!Pairs
    BY <1>1, CandidateFacts, RingTypesNow DEF RingInv, RingOwes, Ring!JoinResult
  <2>2. found' \in Seq(Ring!Pairs) /\ i' \in 0 .. batchSize /\ nextProbe' \in 0 .. batchSize
    BY <1>1, RingTypesNow
  <2>3. followupRing' \in [Slots -> [id : Ring!ProbeIds, entry : Ring!Places \cup {Ring!NoMore}]]
    <3>1. 0 \in Ring!ProbeIds
      BY Sizes DEF Ring!ProbeIds
    <3> QED
      BY <1>1, <3>1 DEF Ring!NoFollowups, Slots
  <2> QED
    BY <1>1, <2>1, <2>2, <2>3, RingEmpty, RingTypes, RingTypesNow
<1>4. Ring!Waiting' = {} /\ Ring!nrFollowups' = 0 /\ Ring!Waiting = {}
  BY <1>1, WaitingIs, RingEmpty, RingFacts, RingTypesNow
<1>5. BetweenCalls' /\ FoundOnce'
  BY <1>1, <1>2 DEF BetweenCalls, FoundOnce
<1>6. RingFits'
  BY <1>1, <1>2, <1>4, RingTypesNow DEF RingInv, RingFits
<1>7. SlotsSound' /\ RingOwes'
  <2>1. Reported' = Reported
    BY <1>1 DEF Reported
  <2>2. \A id \in Nat : id < numProbes => (Unseen(id)' <=> Unseen(id))
    BY <1>1, <1>2 DEF Unseen
  <2> QED
    BY <1>1, <1>4, <2>1, <2>2, QuietStep
<1> QED
  BY <1>3, <1>5, <1>6, <1>7 DEF RingInv

\* What a longer output has reported.
LEMMA Appended ==
  ASSUME NEW S, found \in Seq(S), NEW P \in S, found' = Append(found, P), delivered' = delivered
  PROVE  /\ found' \in Seq(S) /\ Len(found') = Len(found) + 1 /\ Len(found) \in Nat
         /\ Reported' = Reported \cup {P}
         /\ FoundOnce /\ P \notin Reported => FoundOnce'
<1>1. /\ found' \in Seq(S) /\ Len(found') = Len(found) + 1 /\ Len(found) \in Nat
      /\ DOMAIN found = 1 .. Len(found) /\ DOMAIN found' = 1 .. Len(found) + 1
      /\ \A k \in 1 .. Len(found) : found'[k] = found[k]
      /\ found'[Len(found) + 1] = P
  OBVIOUS
<1>2. Reported' = Reported \cup {P}
  <2>1. \A x : x \in Reported' => x \in Reported \cup {P}
    BY <1>1 DEF Reported
  <2>2. \A k \in DOMAIN found : k \in DOMAIN found' /\ found'[k] = found[k]
    BY <1>1
  <2>3. Len(found) + 1 \in DOMAIN found'
    BY <1>1
  <2>4. \A x : x \in Reported \cup {P} => x \in Reported'
    BY <1>1, <2>2, <2>3 DEF Reported
  <2> QED
    BY <2>1, <2>4
<1>3. ASSUME FoundOnce, P \notin Reported PROVE FoundOnce'
  <2>1. \A k \in DOMAIN found : found[k] # P
    BY <1>3 DEF Reported
  <2>2. P \notin delivered
    BY <1>3 DEF Reported
  <2> QED
    BY <1>1, <1>3, <2>1, <2>2 DEF FoundOnce
<1> QED
  BY <1>1, <1>2, <1>3

\* Reading the oldest followup of a ring that holds one.
LEMMA FollowRing ==
  ASSUME RingInv, Ring!Follow
  PROVE  RingInv'
<1> DEFINE f == followupRing[followup]
           P == Ring!Pair(f.id, f.entry)
<1>1. /\ probePc = "follow" /\ probePc' = "follow" /\ fitting > 0 /\ fitting' = fitting - 1
      /\ followup' = (followup + 1) % ringSize
      /\ found' = (IF Ring!entryHash(f.entry) = Ring!hashOf(f.id) THEN Append(found, P) ELSE found)
      /\ UNCHANGED <<chain, probeHashes, nextProbe, numProbes, i, matches, delivered>>
      /\ UNCHANGED <<lanes, more>>
  BY DEF Ring!Follow, Ring!Compared
<1>2. IF Ring!next(f.entry) # Ring!NoMore
      THEN /\ followupRing' = [followupRing EXCEPT ![followupWrite] =
                                 [id |-> f.id, entry |-> Ring!next(f.entry)]]
           /\ followupWrite' = (followupWrite + 1) % ringSize
      ELSE UNCHANGED <<followupRing, followupWrite>>
  BY DEF Ring!Follow
<1>3. /\ nextProbe = 0 /\ numProbes > 0 /\ fitting \in Nat /\ Ring!nrFollowups \in Nat
      /\ fitting <= Ring!nrFollowups /\ (more => fitting < Ring!nrFollowups)
      /\ Ring!nrFollowups <= numProbes
      /\ Len(found) \in Nat /\ Len(found) + fitting <= batchSize
      /\ batchSize \in Nat /\ numProbes \in Nat
  <2>1. Ring!nrFollowups \in Nat
    BY WaitingIs, RingFacts, RingTypesNow
  <2> QED
    BY <1>1, <2>1, RingTypesNow DEF RingInv, RingFits, BetweenCalls
<1>4. /\ followup \in Slots /\ followupWrite \in Slots /\ followup # followupWrite
      /\ followup \in Ring!Waiting /\ followupWrite \notin Ring!Waiting /\ Ring!Waiting \subseteq Slots
  BY <1>1, <1>3, WaitingIs, RingFacts, RingTypesNow
<1>5. /\ f.id \in Nat /\ f.id < numProbes /\ f.entry \in Ring!Places
      /\ f.entry[1] = BucketFor(f.id) /\ f.entry[2] <= Len(chain[f.entry[1]])
      /\ \A s \in Ring!Waiting : followupRing[s].id = f.id => s = followup
  <2>1. f.id \in Ring!ProbeIds
    BY <1>4, RingTypesNow
  <2> QED
    BY <1>4, <2>1, Sizes DEF RingInv, SlotsSound, Ring!ProbeIds, BucketFor
<1>6. PICK B, L, k : B = BucketFor(f.id) /\ L = Len(chain[B]) /\ k = f.entry[2]
  OBVIOUS
<1>7. /\ f.entry = <<B, k>> /\ k \in 1 .. L /\ L \in Nat /\ P \in Ring!Candidates
      /\ k = L => Ring!next(f.entry) = Ring!NoMore
      /\ k # L => /\ Ring!next(f.entry) # Ring!NoMore /\ Ring!next(f.entry) \in Ring!Places
                  /\ Ring!next(f.entry)[1] = B /\ Ring!next(f.entry)[2] = k + 1 /\ k + 1 <= L
  BY <1>5, <1>6, NextFacts, RingTypesNow
<1>8. P.probe = f.id /\ P.build = f.entry /\ P \in Ring!Pairs
  BY <1>7 DEF Ring!Pair, Ring!Candidates
<1>9. Queued(P)
  BY <1>4, <1>6, <1>7, <1>8 DEF Queued
<1>10. P \in Ring!JoinResult <=> Ring!entryHash(f.entry) = Ring!hashOf(f.id)
  BY <1>7, <1>8 DEF Ring!JoinResult
<1>11. P \notin Reported
  BY <1>9 DEF RingInv, RingOwes
<1>12. \A p \in Ring!Candidates : p.probe = f.id /\ p.build[2] = k => p = P
  <2> SUFFICES ASSUME NEW p \in Ring!Candidates, p.probe = f.id, p.build[2] = k PROVE p = P
    OBVIOUS
  <2>1. p.build = <<B, k>> /\ p \in Ring!Pairs
    BY <1>6, CandidateFacts, RingTypesNow
  <2>2. p = [probe |-> p.probe, build |-> p.build]
    BY <2>1 DEF Ring!Pairs
  <2> QED
    BY <1>7, <2>1, <2>2 DEF Ring!Pair
<1>13. /\ Reported' = Reported \cup (IF P \in Ring!JoinResult THEN {P} ELSE {})
       /\ FoundOnce' /\ found' \in Seq(Ring!Pairs)
       /\ Len(found') \in Nat /\ Len(found') <= Len(found) + 1
  <2>1. found \in Seq(Ring!Pairs) /\ FoundOnce
    BY RingTypesNow DEF RingInv
  <2>2. CASE P \in Ring!JoinResult
    <3>1. found' = Append(found, P)
      BY <1>1, <1>10, <2>2
    <3> HIDE DEF P
    <3> QED
      BY <1>1, <1>8, <1>11, <2>1, <2>2, <3>1, Appended
  <2>3. CASE P \notin Ring!JoinResult
    <3>1. found' = found
      BY <1>1, <1>10, <2>3
    <3> HIDE DEF P
    <3>2. Reported' = Reported /\ FoundOnce'
      BY <1>1, <2>1, <3>1 DEF Reported, FoundOnce
    <3> QED
      BY <1>3, <2>1, <2>3, <3>1, <3>2
  <2> QED
    BY <2>2, <2>3
<1> HIDE DEF P
<1>14. /\ \A s \in Ring!Waiting \ {followup} :
            /\ followupRing[s].id \in Nat /\ followupRing[s].id < numProbes
            /\ followupRing[s].id # f.id
            /\ followupRing[s].entry \in Ring!Places
            /\ followupRing[s].entry[1] = BucketFor(followupRing[s].id)
            /\ followupRing[s].entry[2] <= Len(chain[followupRing[s].entry[1]])
            /\ \A r \in Ring!Waiting : followupRing[r].id = followupRing[s].id => r = s
       /\ \A id : ~ Unseen(id) /\ ~ Unseen(id)'
  <2>1. ASSUME NEW s \in Ring!Waiting PROVE followupRing[s].id \in Nat
    <3>1. followupRing[s].id \in Ring!ProbeIds
      BY <1>4, RingTypesNow
    <3> QED
      BY <3>1, Sizes DEF Ring!ProbeIds
  <2>2. \A s \in Ring!Waiting \ {followup} : followupRing[s].id # f.id
    BY <1>5
  <2>3. \A id : ~ Unseen(id) /\ ~ Unseen(id)'
    BY <1>1 DEF Unseen
  <2> HIDE DEF f
  <2> QED
    BY <2>1, <2>2, <2>3 DEF RingInv, SlotsSound, BucketFor
<1>15. /\ followupWrite' \in Slots /\ followup' \in Slots
       /\ followupRing' \in [Slots -> [id : Ring!ProbeIds, entry : Ring!Places \cup {Ring!NoMore}]]
       /\ Ring!nrFollowups' \in Nat /\ Ring!nrFollowups - 1 <= Ring!nrFollowups'
       /\ Ring!nrFollowups' <= Ring!nrFollowups
       /\ SlotsSound'
       /\ \A p \in Ring!Candidates : Queued(p)' <=> Queued(p) /\ p # P
  <2>1. CASE k = L
    <3>1. UNCHANGED <<followupRing, followupWrite>>
      BY <1>2, <1>7, <2>1
    <3>2. /\ Ring!Waiting' = Ring!Waiting \ {followup} /\ followup' \in Slots
          /\ Ring!nrFollowups' = Ring!nrFollowups - 1
      BY <1>1, <1>4, <3>1, WaitingIs, RingMoves
    <3>3. Ring!nrFollowups' \in Nat
      BY <1>1, <1>3, <3>2
    <3>4. SlotsSound'
      BY <1>1, <1>14, <3>1, <3>2, SameVector DEF SlotsSound, BucketFor, Ring!Places, Ring!Buckets
    <3>5. ASSUME NEW p \in Ring!Candidates PROVE Queued(p)' <=> Queued(p) /\ p # P
      <4>1. p.build[2] \in 1 .. Len(chain[BucketFor(p.probe)])
        BY CandidateFacts, RingTypesNow
      <4>2. ASSUME Queued(p)' PROVE Queued(p) /\ p # P
        <5>1. PICK s \in Ring!Waiting \ {followup} :
                followupRing[s].id = p.probe /\ followupRing[s].entry[2] <= p.build[2]
          BY <3>1, <3>2, <4>2 DEF Queued
        <5> QED
          BY <1>8, <1>14, <5>1 DEF Queued
      <4>3. ASSUME Queued(p), p # P PROVE Queued(p)'
        <5>1. PICK s \in Ring!Waiting :
                followupRing[s].id = p.probe /\ followupRing[s].entry[2] <= p.build[2]
          BY <4>3 DEF Queued
        <5>2. s # followup
          <6>1. SUFFICES ASSUME s = followup PROVE FALSE
            OBVIOUS
          <6>2. p.probe = f.id /\ k <= p.build[2]
            BY <1>6, <5>1, <6>1
          <6>3. p.build[2] \in 1 .. L
            BY <1>6, <4>1, <6>2
          <6>4. p.build[2] = k
            BY <1>7, <2>1, <6>2, <6>3
          <6> QED
            BY <1>12, <4>3, <6>2, <6>4
        <5> QED
          BY <3>1, <3>2, <5>1, <5>2 DEF Queued
      <4> QED
        BY <4>2, <4>3
    <3> QED
      BY <1>3, <3>1, <3>2, <3>3, <3>4, <3>5, RingTypesNow
  <2>2. CASE k # L
    <3>1. /\ followupRing' = [followupRing EXCEPT ![followupWrite] =
                                [id |-> f.id, entry |-> Ring!next(f.entry)]]
          /\ followupWrite' = (followupWrite + 1) % ringSize
      BY <1>2, <1>7, <2>2
    <3>2. /\ Ring!Waiting' = (Ring!Waiting \ {followup}) \cup {followupWrite}
          /\ followup' \in Slots /\ followupWrite' \in Slots
          /\ Ring!nrFollowups' = Ring!nrFollowups
      BY <1>1, <1>4, <3>1, WaitingIs, RingMoves
    <3>3. PICK e : e = Ring!next(f.entry)
      OBVIOUS
    <3>4. /\ e \in Ring!Places /\ e[1] = B /\ e[2] = k + 1 /\ k + 1 <= L
      BY <1>7, <2>2, <3>3
    <3>5. followupRing' \in [Slots -> [id : Ring!ProbeIds, entry : Ring!Places \cup {Ring!NoMore}]]
      <4>1. f.id \in Ring!ProbeIds
        BY <1>5, ProbeFacts, RingTypesNow
      <4> QED
        BY <1>4, <3>1, <3>3, <3>4, <4>1, RingTypesNow
    <3>6. /\ \A s \in Ring!Waiting \ {followup} : followupRing'[s] = followupRing[s]
          /\ followupRing'[followupWrite].id = f.id /\ followupRing'[followupWrite].entry = e
      BY <1>4, <3>1, <3>3, RingTypesNow
    <3>7. SlotsSound'
      <4>1. ASSUME NEW s \in Ring!Waiting \ {followup}
            PROVE  /\ followupRing'[s].id < numProbes /\ followupRing'[s].entry \in Ring!Places
                   /\ followupRing'[s].entry[1] = BucketFor(followupRing'[s].id)
                   /\ followupRing'[s].entry[2] <= Len(chain[followupRing'[s].entry[1]])
                   /\ \A r \in Ring!Waiting' : followupRing'[r].id = followupRing'[s].id => r = s
        BY <1>14, <3>2, <3>6
      <4>2. /\ followupRing'[followupWrite].id < numProbes
            /\ followupRing'[followupWrite].entry \in Ring!Places
            /\ followupRing'[followupWrite].entry[1] = BucketFor(followupRing'[followupWrite].id)
            /\ followupRing'[followupWrite].entry[2] <= Len(chain[followupRing'[followupWrite].entry[1]])
            /\ \A r \in Ring!Waiting' :
                 followupRing'[r].id = followupRing'[followupWrite].id => r = followupWrite
        BY <1>5, <1>6, <1>14, <3>2, <3>4, <3>6
      <4> QED
        BY <1>1, <1>14, <3>2, <4>1, <4>2, SameVector
        DEF SlotsSound, BucketFor, Ring!Places, Ring!Buckets
    <3>8. ASSUME NEW p \in Ring!Candidates PROVE Queued(p)' <=> Queued(p) /\ p # P
      <4>1. p.build[2] \in 1 .. Len(chain[BucketFor(p.probe)]) /\ p.build[2] \in Int
        BY CandidateFacts, RingTypesNow
      <4>2. ASSUME Queued(p)' PROVE Queued(p) /\ p # P
        <5>1. PICK s \in Ring!Waiting' :
                followupRing'[s].id = p.probe /\ followupRing'[s].entry[2] <= p.build[2]
          BY <4>2 DEF Queued
        <5>2. CASE s \in Ring!Waiting \ {followup}
          BY <1>8, <1>14, <3>6, <5>1, <5>2 DEF Queued
        <5>3. CASE s = followupWrite
          <6>1. p.probe = f.id /\ k + 1 <= p.build[2] /\ k \in Int
            BY <1>7, <3>4, <3>6, <5>1, <5>3
          <6>2. p # P /\ k <= p.build[2]
            BY <1>6, <1>8, <4>1, <6>1
          <6> QED
            BY <1>4, <1>6, <6>1, <6>2 DEF Queued
        <5> QED
          BY <3>2, <5>1, <5>2, <5>3
      <4>3. ASSUME Queued(p), p # P PROVE Queued(p)'
        <5>1. PICK s \in Ring!Waiting :
                followupRing[s].id = p.probe /\ followupRing[s].entry[2] <= p.build[2]
          BY <4>3 DEF Queued
        <5>2. CASE s # followup
          BY <3>2, <3>6, <5>1, <5>2 DEF Queued
        <5>3. CASE s = followup
          <6>1. p.probe = f.id /\ k <= p.build[2] /\ k \in Int
            BY <1>6, <1>7, <5>1, <5>3
          <6>2. k + 1 <= p.build[2]
            BY <1>12, <4>1, <4>3, <6>1
          <6> QED
            BY <3>2, <3>4, <3>6, <6>1, <6>2 DEF Queued
        <5> QED
          BY <5>2, <5>3
      <4> QED
        BY <4>2, <4>3
    <3> QED
      BY <1>3, <3>2, <3>5, <3>7, <3>8
  <2> QED
    BY <2>1, <2>2
<1>16. Ring!TypeOK'
  <2>1. fitting' \in 0 .. batchSize
    BY <1>1, <1>3, RingTypesNow
  <2> QED
    BY <1>1, <1>13, <1>15, <2>1, RingTypes, RingTypesNow
<1>17. BetweenCalls'
  BY <1>1, <1>3 DEF RingInv, BetweenCalls
<1>18. RingFits'
  BY <1>1, <1>3, <1>13, <1>15 DEF RingFits
<1>19. RingOwes'
  <2>1. Reported \subseteq Ring!JoinResult
    BY DEF RingInv, RingOwes
  <2>2. ASSUME NEW p \in Ring!JoinResult PROVE p \in Reported' <=> ~ Queued(p)'
    <3>1. p \in Ring!Candidates
      BY DEF Ring!JoinResult
    <3>2. p \in Reported <=> ~ Queued(p)
      BY <1>14 DEF RingInv, RingOwes
    <3> QED
      BY <1>9, <1>13, <1>15, <3>1, <3>2
  <2> QED
    BY <1>1, <1>13, <1>14, <2>1, <2>2, SameVector DEF RingOwes
<1> QED
  BY <1>13, <1>15, <1>16, <1>17, <1>18, <1>19 DEF RingInv

\* What an output that grows by a sequence has reported.
LEMMA Concatenated ==
  ASSUME NEW S, found \in Seq(S), NEW g \in Seq(S), found' = found \o g, delivered' = delivered,
         FoundOnce, \A k, m \in DOMAIN g : g[k] = g[m] => k = m,
         \A k \in DOMAIN g : g[k] \notin Reported
  PROVE  /\ found' \in Seq(S) /\ Len(found') = Len(found) + Len(g)
         /\ Reported' = Reported \cup {g[k] : k \in DOMAIN g}
         /\ FoundOnce'
<1>1. PICK n, l : n = Len(found) /\ l = Len(g)
  OBVIOUS
<1>2. /\ found' \in Seq(S) /\ Len(found') = n + l /\ n \in Nat /\ l \in Nat
      /\ DOMAIN found = 1 .. n /\ DOMAIN g = 1 .. l /\ DOMAIN found' = 1 .. n + l
  BY <1>1
<1>3. /\ \A k \in 1 .. n : found'[k] = found[k]
      /\ \A k \in 1 .. l : found'[n + k] = g[k]
  <2>1. \A k \in 1 .. n : found'[k] = found[k]
    BY <1>1
  <2>2. ASSUME NEW k \in 1 .. l PROVE found'[n + k] = g[k]
    <3>1. n + k \in 1 .. n + l /\ ~ (n + k <= n) /\ (n + k) - n = k
      BY <1>2
    <3> QED
      BY <1>1, <1>2, <3>1
  <2> QED
    BY <2>1, <2>2
<1>4. \A k \in 1 .. n + l : k \in 1 .. n \/ \E m \in 1 .. l : k = n + m
  <2> SUFFICES ASSUME NEW k \in 1 .. n + l, k \notin 1 .. n PROVE \E m \in 1 .. l : k = n + m
    OBVIOUS
  <2>1. k - n \in 1 .. l /\ k = n + (k - n)
    BY <1>2
  <2> QED
    BY <2>1
<1>5. \A k \in 1 .. n : k \in 1 .. n + l
  BY <1>2
<1>6. \A k \in 1 .. l : n + k \in 1 .. n + l
  BY <1>2
<1>7. Reported' = Reported \cup {g[k] : k \in DOMAIN g}
  <2>1. ASSUME NEW x, x \in Reported' PROVE x \in Reported \cup {g[k] : k \in DOMAIN g}
    <3>1. CASE x \in delivered
      BY <3>1 DEF Reported
    <3>2. CASE \E k \in DOMAIN found' : x = found'[k]
      BY <1>2, <1>3, <1>4, <3>2 DEF Reported
    <3> QED
      BY <2>1, <3>1, <3>2 DEF Reported
  <2>2. \A x \in Reported : x \in Reported'
    BY <1>2, <1>3, <1>5 DEF Reported
  <2>3. \A k \in DOMAIN g : g[k] \in Reported'
    BY <1>2, <1>3, <1>6 DEF Reported
  <2> QED
    BY <2>1, <2>2, <2>3
<1>8. FoundOnce'
  <2>1. \A k \in 1 .. n, m \in 1 .. l : found'[k] # found'[n + m]
    <3> SUFFICES ASSUME NEW k \in 1 .. n, NEW m \in 1 .. l PROVE found[k] # g[m]
      BY <1>3
    <3>1. found[k] \in Reported
      BY <1>2 DEF Reported
    <3>2. g[m] \notin Reported
      BY <1>2
    <3> QED
      BY <3>1, <3>2
  <2>2. \A k, m \in 1 .. n + l : found'[k] = found'[m] => k = m
    <3> SUFFICES ASSUME NEW k \in 1 .. n + l, NEW m \in 1 .. n + l, found'[k] = found'[m]
                 PROVE  k = m
      OBVIOUS
    <3>1. CASE k \in 1 .. n /\ m \in 1 .. n
      BY <1>2, <1>3, <3>1 DEF FoundOnce
    <3>2. CASE k \notin 1 .. n /\ m \notin 1 .. n
      <4>1. PICK x, y \in 1 .. l : k = n + x /\ m = n + y
        BY <1>4, <3>2
      <4>2. g[x] = g[y]
        BY <1>3, <4>1
      <4> QED
        BY <1>2, <4>1, <4>2
    <3>3. CASE k \in 1 .. n /\ m \notin 1 .. n
      BY <1>4, <2>1, <3>3
    <3>4. CASE k \notin 1 .. n /\ m \in 1 .. n
      BY <1>4, <2>1, <3>4
    <3> QED
      BY <3>1, <3>2, <3>3, <3>4
  <2>3. \A k \in 1 .. n + l : found'[k] \notin delivered
    <3>1. \A k \in 1 .. n : found[k] \notin delivered
      BY <1>2 DEF FoundOnce
    <3>2. \A k \in 1 .. l : g[k] \notin delivered
      BY <1>2 DEF Reported
    <3> QED
      BY <1>3, <1>4, <3>1, <3>2
  <2> QED
    BY <1>2, <2>2, <2>3 DEF FoundOnce
<1> QED
  BY <1>1, <1>2, <1>7, <1>8

\* The probes of one step of the first pass follow on i and are not more than
\* there are; the full steps of a wide first pass stay aligned.
LEMMA StepFacts ==
  ASSUME RingInv, probePc = "first", i < numProbes
  PROVE  \E c \in Nat \ {0} :
           /\ Ring!StepIds = i .. i + c - 1 /\ i + c <= numProbes
           /\ IsFiniteSet(Ring!StepIds) /\ Ring!Cardinality(Ring!StepIds) = c
           /\ (i' = i + c /\ UNCHANGED <<numProbes, lanes>>) => Aligned'
<1> DEFINE full == numProbes - (numProbes % lanes)
<1>1. i \in Nat /\ numProbes \in Nat /\ lanes \in Nat \ {0}
  BY RingTypesNow
<1>2. PICK d \in Nat : full = lanes * d /\ full <= numProbes
  <2>1. numProbes = lanes * (numProbes \div lanes) + (numProbes % lanes)
         /\ numProbes \div lanes \in Nat /\ numProbes % lanes \in Nat
    BY <1>1
  <2>2. full = lanes * (numProbes \div lanes) /\ full <= numProbes
    BY <1>1, <2>1
  <2> QED
    BY <2>1, <2>2
<1>3. CASE i < full
  <2>1. PICK q \in Nat : i = lanes * q
    BY <1>3 DEF RingInv, RingFits, Aligned
  <2>2. q < d
    BY <1>1, <1>2, <1>3, <2>1
  <2>3. i + lanes <= full /\ i + lanes = lanes * (q + 1) /\ q + 1 \in Nat
    BY <1>1, <1>2, <2>1, <2>2
  <2>4. Ring!StepIds = i .. i + lanes - 1
    BY <1>3 DEF Ring!StepIds
  <2>5. i \in Int /\ i + lanes - 1 \in Int /\ ~ (i > i + lanes - 1) /\ (i + lanes - 1) - i + 1 = lanes
    BY <1>1
  <2>6. IsFiniteSet(Ring!StepIds) /\ Ring!Cardinality(Ring!StepIds) = lanes
    BY <2>4, <2>5, FS_Interval, SameCount
  <2>7. (i' = i + lanes /\ UNCHANGED <<numProbes, lanes>>) => Aligned'
    BY <2>3 DEF Aligned
  <2> QED
    BY <1>1, <1>2, <2>3, <2>4, <2>6, <2>7
<1>4. CASE ~ i < full
  <2>1. Ring!StepIds = {i} /\ i .. i + 1 - 1 = {i}
    BY <1>1, <1>4 DEF Ring!StepIds
  <2>2. IsFiniteSet({i}) /\ Cardinality({i}) = 1
    BY FS_Singleton
  <2>3. (i' = i + 1 /\ UNCHANGED <<numProbes, lanes>>) => Aligned'
    BY <1>1, <1>2, <1>4 DEF Aligned
  <2>4. i + 1 <= numProbes /\ 1 \in Nat \ {0}
    BY <1>1
  <2> QED
    BY <2>1, <2>2, <2>3, <2>4, SameCount
<1> QED
  BY <1>3, <1>4

\* One step of the first pass.
LEMMA FirstPassRing ==
  ASSUME RingInv, Ring!FirstPass
  PROVE  RingInv'
<1> DEFINE first(id) == Ring!find_chain_tagged(Ring!hashOf(id))
           live == {id \in Ring!StepIds : first(id) # Ring!NoMore}
<1>1. PICK ids, head, hits, nexts :
        /\ ids = Ring!StepIds
        /\ head = [id \in ids |-> Ring!find_chain_tagged(Ring!hashOf(id))]
        /\ hits = {id \in live : Ring!entryHash(first(id)) = Ring!hashOf(id)}
        /\ nexts = {id \in live : Ring!next(first(id)) # Ring!NoMore}
  OBVIOUS
<1>2. PICK hit, hasNext : hit = Ring!Compress(hits) /\ hasNext = Ring!Compress(nexts)
  OBVIOUS
<1>3. PICK g : g = [k \in DOMAIN hit |-> Ring!Pair(hit[k], head[hit[k]])]
  OBVIOUS
<1>4. /\ probePc = "first" /\ probePc' = "first" /\ i < numProbes
      /\ UNCHANGED <<chain, probeHashes, nextProbe, numProbes, matches, delivered>>
      /\ UNCHANGED <<lanes, followup, fitting, more>>
      /\ i' = i + Ring!Cardinality(ids)
  BY <1>1 DEF Ring!FirstPass, Ring!roundVars
<1>5. PICK c \in Nat \ {0} :
        /\ ids = i .. i + c - 1 /\ i + c <= numProbes /\ IsFiniteSet(ids)
        /\ i' = i + c /\ Aligned'
  BY <1>1, <1>4, StepFacts
<1>6. /\ i \in Nat /\ numProbes \in Nat /\ numProbes <= batchSize /\ batchSize \in Nat \ {0}
      /\ ringSize \in Nat /\ ringSize > batchSize
      /\ followup = 0 /\ followupWrite \in Nat /\ followupWrite <= i
      /\ Len(found) \in Nat /\ Len(found) <= i /\ fitting = 0 /\ ~ more
      /\ nextProbe = 0 /\ numProbes > 0
  BY <1>4, RingTypesNow, Sizes DEF RingInv, RingFits, BetweenCalls, Slots
<1>7. /\ \A id \in ids : id \in Nat /\ id < numProbes /\ i <= id /\ id < i'
      /\ ids \subseteq Nat /\ Cardinality(ids) = c
  <2>1. \A id \in ids : id \in Nat /\ id < numProbes /\ i <= id /\ id < i'
    BY <1>5, <1>6
  <2>2. i \in Int /\ i + c - 1 \in Int /\ ~ (i > i + c - 1) /\ (i + c - 1) - i + 1 = c
    BY <1>5, <1>6
  <2>3. Cardinality(ids) = c
    BY <1>5, <2>2, FS_Interval
  <2> QED
    BY <2>1, <2>3
<1>8. /\ IsFiniteSet(hits) /\ Cardinality(hits) \in Nat /\ Cardinality(hits) <= c
      /\ IsFiniteSet(nexts) /\ Cardinality(nexts) \in Nat /\ Cardinality(nexts) <= c
      /\ hits \subseteq Nat /\ nexts \subseteq Nat
  <2>1. hits \in SUBSET ids /\ nexts \in SUBSET ids
    BY <1>1
  <2> QED
    BY <1>5, <1>7, <2>1, FS_Subset, FS_CardinalityType
<1>9. PICK h, m : h = Cardinality(hits) /\ m = Cardinality(nexts)
  OBVIOUS
<1>10. /\ h \in Nat /\ h <= c /\ m \in Nat /\ m <= c
       /\ Len(hit) = h /\ DOMAIN hit = 1 .. h /\ Len(hasNext) = m /\ DOMAIN hasNext = 1 .. m
       /\ \A k \in 1 .. h : hit[k] \in hits
       /\ \A k \in 1 .. m : hasNext[k] \in nexts
       /\ \A k, l \in 1 .. h : hit[k] = hit[l] => k = l
       /\ \A k, l \in 1 .. m : hasNext[k] = hasNext[l] => k = l
       /\ \A id \in hits : \E k \in 1 .. h : hit[k] = id
       /\ \A id \in nexts : \E k \in 1 .. m : hasNext[k] = id
  <2>1. Lists(hit, hits) /\ Lists(hasNext, nexts)
    BY <1>2, <1>8, Compressed
  <2> QED
    BY <1>8, <1>9, <2>1 DEF Lists
<1>11. /\ found' = found \o g
       /\ followupWrite' = followupWrite + m
       /\ followupRing' = [s \in DOMAIN followupRing |->
            IF s \notin followupWrite .. followupWrite + m - 1 THEN followupRing[s]
            ELSE [id |-> hasNext[s - followupWrite + 1],
                  entry |-> Ring!next(head[hasNext[s - followupWrite + 1]])]]
  <2>1. hit = Ring!Compress({id \in live : Ring!entryHash(first(id)) = Ring!hashOf(id)})
         /\ hasNext = Ring!Compress({id \in live : Ring!next(first(id)) # Ring!NoMore})
    BY <1>1, <1>2
  <2>2. /\ found' = found \o [k \in DOMAIN hit |-> Ring!Pair(hit[k], first(hit[k]))]
        /\ followupWrite' = followupWrite + Len(hasNext)
        /\ followupRing' = [s \in DOMAIN followupRing |->
             IF s \notin followupWrite .. followupWrite + Len(hasNext) - 1 THEN followupRing[s]
             ELSE [id |-> hasNext[s - followupWrite + 1],
                   entry |-> Ring!next(first(hasNext[s - followupWrite + 1]))]]
    BY <2>1 DEF Ring!FirstPass
  <2>3. [k \in DOMAIN hit |-> Ring!Pair(hit[k], first(hit[k]))] = g
    BY <1>1, <1>3, <1>10
  <2>4. ASSUME NEW s \in followupWrite .. followupWrite + m - 1
        PROVE  first(hasNext[s - followupWrite + 1]) = head[hasNext[s - followupWrite + 1]]
    <3>1. s - followupWrite + 1 \in 1 .. m
      BY <1>6, <1>10
    <3>2. hasNext[s - followupWrite + 1] \in ids
      BY <1>1, <1>10, <3>1
    <3> QED
      BY <1>1, <3>2
  <2> QED
    BY <1>10, <2>2, <2>3, <2>4
<1>12. /\ \A id : id \in hits <=> /\ id \in ids /\ head[id] # Ring!NoMore
                                    /\ Ring!entryHash(head[id]) = Ring!hashOf(id)
       /\ \A id : id \in nexts <=> /\ id \in ids /\ head[id] # Ring!NoMore
                                     /\ Ring!next(head[id]) # Ring!NoMore
  BY <1>1
<1> HIDE DEF first, live
<1>13. ASSUME NEW id \in ids
       PROVE  /\ Len(chain[BucketFor(id)]) \in Nat
              /\ head[id] = Ring!NoMore => Len(chain[BucketFor(id)]) = 0
              /\ head[id] # Ring!NoMore =>
                   /\ head[id] = <<BucketFor(id), 1>> /\ head[id][2] = 1
                   /\ Len(chain[BucketFor(id)]) >= 1
                   /\ Ring!Pair(id, head[id]) \in Ring!Candidates
                   /\ Ring!next(head[id]) # Ring!NoMore <=> Len(chain[BucketFor(id)]) # 1
                   /\ Ring!next(head[id]) # Ring!NoMore =>
                        /\ Ring!next(head[id]) \in Ring!Places
                        /\ Ring!next(head[id])[1] = BucketFor(id) /\ Ring!next(head[id])[2] = 2
                        /\ 2 <= Len(chain[BucketFor(id)])
  <2>1. id \in Nat /\ id < numProbes /\ head[id] = Ring!find_chain_tagged(Ring!hashOf(id))
    BY <1>1, <1>7
  <2>2. PICK e, L : e = head[id] /\ L = Len(chain[BucketFor(id)])
    OBVIOUS
  <2>3. L \in Nat
    BY <2>1, <2>2, ProbeFacts, RingTypesNow, Sizes
  <2>4. CASE e = Ring!NoMore
    BY <2>1, <2>2, <2>3, <2>4, HeadFacts, RingTypesNow
  <2>5. CASE e # Ring!NoMore
    <3>1. /\ e \in Ring!Places /\ e[1] = BucketFor(id) /\ e[2] = 1
          /\ e[2] <= Len(chain[e[1]])
      BY <2>1, <2>2, <2>5, HeadFacts, RingTypesNow
    <3>2. /\ e = <<BucketFor(id), e[2]>> /\ e[2] \in 1 .. L
          /\ Ring!Pair(id, e) \in Ring!Candidates
          /\ e[2] = L => Ring!next(e) = Ring!NoMore
          /\ e[2] # L =>
               /\ Ring!next(e) # Ring!NoMore /\ Ring!next(e) \in Ring!Places
               /\ Ring!next(e)[1] = BucketFor(id) /\ Ring!next(e)[2] = e[2] + 1
               /\ e[2] + 1 <= L
      BY <2>1, <2>2, <3>1, NextFacts, RingTypesNow
    <3> QED
      BY <2>2, <2>3, <2>5, <3>1, <3>2
  <2> QED
    BY <2>4, <2>5
<1>14. /\ g \in Seq(Ring!Pairs) /\ Len(g) = h /\ DOMAIN g = 1 .. h
       /\ \A k \in 1 .. h : /\ g[k] \in Ring!JoinResult /\ g[k].probe = hit[k]
                            /\ g[k].build = <<BucketFor(hit[k]), 1>> /\ hit[k] \in ids
  <2>1. ASSUME NEW k \in 1 .. h
        PROVE  /\ g[k] \in Ring!JoinResult /\ g[k] \in Ring!Pairs /\ g[k].probe = hit[k]
               /\ g[k].build = <<BucketFor(hit[k]), 1>> /\ hit[k] \in ids
    <3>1. hit[k] \in ids /\ head[hit[k]] # Ring!NoMore
           /\ Ring!entryHash(head[hit[k]]) = Ring!hashOf(hit[k])
      BY <1>10, <1>12
    <3>2. g[k] = Ring!Pair(hit[k], head[hit[k]])
      BY <1>3, <1>10
    <3>3. g[k].probe = hit[k] /\ g[k].build = head[hit[k]]
      BY <3>2 DEF Ring!Pair
    <3>4. g[k] \in Ring!Candidates /\ head[hit[k]] = <<BucketFor(hit[k]), 1>>
      BY <1>13, <3>1, <3>2
    <3> QED
      BY <3>1, <3>3, <3>4 DEF Ring!JoinResult, Ring!Candidates
  <2>2. DOMAIN g = 1 .. h /\ g = [k \in 1 .. h |-> g[k]]
    BY <1>3, <1>10
  <2>3. g \in [1 .. h -> Ring!Pairs]
    BY <2>1, <2>2
  <2>4. g \in Seq(Ring!Pairs) /\ Len(g) = h
    BY <1>10, <2>3
  <2> QED
    BY <2>1, <2>2, <2>4
<1>15. \A id : Unseen(id) <=> id >= i
  BY <1>4 DEF Unseen
<1>16. /\ found' \in Seq(Ring!Pairs) /\ Len(found') = Len(found) + h /\ FoundOnce'
       /\ Reported' = Reported \cup {g[k] : k \in 1 .. h}
  <2>1. found \in Seq(Ring!Pairs) /\ FoundOnce
    BY RingTypesNow DEF RingInv
  <2>2. \A k, l \in DOMAIN g : g[k] = g[l] => k = l
    <3> SUFFICES ASSUME NEW k \in 1 .. h, NEW l \in 1 .. h, g[k] = g[l] PROVE k = l
      BY <1>14
    <3>1. hit[k] = hit[l]
      BY <1>14
    <3> QED
      BY <1>10, <3>1
  <2>3. ASSUME NEW k \in DOMAIN g PROVE g[k] \notin Reported
    <3>1. g[k] \in Ring!JoinResult /\ g[k].probe \in ids
      BY <1>14
    <3>2. Unseen(g[k].probe)
      BY <1>7, <1>15, <3>1
    <3> QED
      BY <3>1, <3>2 DEF RingInv, RingOwes
  <2> QED
    <3>1. g \in Seq(Ring!Pairs) /\ found' = found \o g /\ delivered' = delivered
      BY <1>4, <1>11, <1>14
    <3>2. /\ found' \in Seq(Ring!Pairs) /\ Len(found') = Len(found) + Len(g)
          /\ Reported' = Reported \cup {g[k] : k \in DOMAIN g} /\ FoundOnce'
      BY <2>1, <2>2, <2>3, <3>1, Concatenated
    <3> QED
      BY <1>14, <3>2
<1>17. /\ followupWrite' \in Nat /\ followupWrite' <= i' /\ i' \in Nat /\ i' <= numProbes
       /\ followupWrite' \in Slots /\ followupWrite \in Slots
  BY <1>5, <1>6, <1>10, <1>11 DEF Slots
<1>18. /\ Ring!Waiting = 0 .. followupWrite - 1 /\ Ring!nrFollowups = followupWrite
       /\ Ring!Waiting' = 0 .. followupWrite + m - 1 /\ Ring!nrFollowups' = followupWrite'
  <2>1. Between(0, followupWrite) = 0 .. followupWrite - 1 /\ Distance(0, followupWrite) = followupWrite
    BY <1>6 DEF Between, Distance
  <2>2. /\ Between(0, followupWrite + m) = 0 .. followupWrite + m - 1
        /\ Distance(0, followupWrite + m) = followupWrite + m
    BY <1>6, <1>10 DEF Between, Distance
  <2> QED
    BY <1>4, <1>6, <1>11, <2>1, <2>2, WaitingIs
<1>19. ASSUME NEW s \in 0 .. followupWrite - 1
       PROVE  /\ followupRing'[s] = followupRing[s] /\ s \in Slots
              /\ followupRing[s].id \in Nat /\ followupRing[s].id < i
  <2>1. s \in Slots /\ s \notin followupWrite .. followupWrite + m - 1
    BY <1>6, <1>10, <1>17 DEF Slots
  <2>2. followupRing'[s] = followupRing[s]
    BY <1>11, <2>1, RingTypesNow
  <2>3. followupRing[s].id \in Nat
    <3>1. followupRing[s].id \in Ring!ProbeIds
      BY <2>1, RingTypesNow
    <3> QED
      BY <3>1, Sizes DEF Ring!ProbeIds
  <2>4. ~ Unseen(followupRing[s].id)
    BY <1>18 DEF RingInv, SlotsSound
  <2> QED
    BY <1>6, <1>15, <2>1, <2>2, <2>3, <2>4
<1>20. ASSUME NEW k \in 1 .. m
       PROVE  /\ followupWrite + k - 1 \in Slots /\ followupWrite + k - 1 \in Ring!Waiting'
              /\ followupRing'[followupWrite + k - 1].id = hasNext[k]
              /\ followupRing'[followupWrite + k - 1].entry = Ring!next(head[hasNext[k]])
              /\ hasNext[k] \in nexts /\ hasNext[k] \in ids
              /\ Ring!next(head[hasNext[k]]) \in Ring!Places
              /\ Ring!next(head[hasNext[k]])[1] = BucketFor(hasNext[k])
              /\ Ring!next(head[hasNext[k]])[2] = 2
              /\ 2 <= Len(chain[BucketFor(hasNext[k])])
  <2>1. PICK s : s = followupWrite + k - 1
    OBVIOUS
  <2>2. s \in followupWrite .. followupWrite + m - 1 /\ s - followupWrite + 1 = k
         /\ s \in Slots /\ s \in Ring!Waiting'
    <3>1. k \in Nat /\ k >= 1 /\ k <= m
      BY <1>10
    <3>2. s \in Nat /\ s >= followupWrite /\ s <= followupWrite + m - 1
      BY <1>6, <1>10, <2>1, <3>1
    <3>3. s \in Slots
      BY <1>6, <1>10, <1>11, <1>17, <3>2 DEF Slots
    <3> QED
      BY <1>6, <1>10, <1>18, <2>1, <3>1, <3>2, <3>3
  <2>3. followupRing'[s] = [id |-> hasNext[k], entry |-> Ring!next(head[hasNext[k]])]
    BY <1>11, <2>2, RingTypesNow
  <2>4. hasNext[k] \in nexts
    BY <1>10
  <2>5. hasNext[k] \in ids /\ head[hasNext[k]] # Ring!NoMore
         /\ Ring!next(head[hasNext[k]]) # Ring!NoMore
    BY <1>12, <2>4
  <2> QED
    BY <1>13, <2>1, <2>2, <2>3, <2>4, <2>5
<1>21. \A s \in Ring!Waiting' :
         s \in 0 .. followupWrite - 1 \/ \E k \in 1 .. m : s = followupWrite + k - 1
  <2> SUFFICES ASSUME NEW s \in Ring!Waiting', s \notin 0 .. followupWrite - 1
               PROVE  \E k \in 1 .. m : s = followupWrite + k - 1
    OBVIOUS
  <2>1. s - followupWrite + 1 \in 1 .. m /\ s = followupWrite + (s - followupWrite + 1) - 1
    BY <1>6, <1>10, <1>18
  <2> QED
    BY <2>1
<1>22. \A id : Unseen(id)' <=> id >= i'
  BY <1>4 DEF Unseen
<1>23. Ring!TypeOK'
  <2>1. i' \in 0 .. batchSize
    BY <1>6, <1>17
  <2>2. ASSUME NEW s \in Slots
        PROVE  followupRing'[s] \in [id : Ring!ProbeIds, entry : Ring!Places \cup {Ring!NoMore}]
    <3>1. CASE s \notin followupWrite .. followupWrite + m - 1
      BY <1>11, <3>1, RingTypesNow
    <3>2. CASE s \in followupWrite .. followupWrite + m - 1
      <4>1. PICK k : k = s - followupWrite + 1
        OBVIOUS
      <4>2. k \in 1 .. m /\ s = followupWrite + k - 1
        BY <1>6, <1>10, <3>2, <4>1
      <4>3. hasNext[k] \in ids /\ Ring!next(head[hasNext[k]]) \in Ring!Places
        BY <1>20, <4>2
      <4>4. hasNext[k] \in Ring!ProbeIds
        BY <1>7, <4>3, ProbeFacts, RingTypesNow
      <4>5. followupRing'[s] = [id |-> hasNext[k], entry |-> Ring!next(head[hasNext[k]])]
        BY <1>11, <3>2, <4>1, RingTypesNow
      <4> QED
        BY <4>3, <4>4, <4>5
    <3> QED
      BY <3>1, <3>2
  <2>3. followupRing' \in [Slots -> [id : Ring!ProbeIds, entry : Ring!Places \cup {Ring!NoMore}]]
    <3>1. DOMAIN followupRing = Slots
      BY RingTypesNow
    <3>2. PICK F : F = followupRing'
      OBVIOUS
    <3>3. DOMAIN F = Slots /\ F = [s \in Slots |-> F[s]]
      BY <1>11, <3>1, <3>2
    <3> QED
      BY <2>2, <3>2, <3>3
  <2> QED
    BY <1>4, <1>16, <1>17, <2>1, <2>3, RingTypes, RingTypesNow
<1>24. BetweenCalls'
  BY <1>4, <1>6, <1>17 DEF BetweenCalls
<1>25. RingFits'
  BY <1>4, <1>5, <1>6, <1>10, <1>16, <1>17, <1>18 DEF RingFits
<1>26. SlotsSound'
  <2>0. PICK F : F = followupRing'
    OBVIOUS
  <2>1. ASSUME NEW s \in 0 .. followupWrite - 1
        PROVE  /\ F[s].id < numProbes /\ ~ Unseen(F[s].id)'
               /\ F[s].entry \in Ring!Places
               /\ F[s].entry[1] = BucketFor(F[s].id)
               /\ F[s].entry[2] <= Len(chain[F[s].entry[1]])
               /\ \A r \in 0 .. followupWrite - 1 : F[r].id = F[s].id => r = s
    <3>1. /\ followupRing[s].id < numProbes
          /\ followupRing[s].entry \in Ring!Places
          /\ followupRing[s].entry[1] = BucketFor(followupRing[s].id)
          /\ followupRing[s].entry[2] <= Len(chain[followupRing[s].entry[1]])
          /\ \A r \in 0 .. followupWrite - 1 : followupRing[r].id = followupRing[s].id => r = s
      BY <1>18 DEF RingInv, SlotsSound, BucketFor
    <3>2. F[s] = followupRing[s] /\ F[s].id \in Nat /\ F[s].id < i
      BY <1>19, <2>0
    <3>3. \A r \in 0 .. followupWrite - 1 : F[r] = followupRing[r]
      BY <1>19, <2>0
    <3>4. ~ Unseen(F[s].id)'
      BY <1>5, <1>6, <1>22, <3>2
    <3> QED
      BY <3>1, <3>2, <3>3, <3>4
  <2>2. ASSUME NEW k \in 1 .. m, NEW s, s = followupWrite + k - 1
        PROVE  /\ F[s].id < numProbes /\ ~ Unseen(F[s].id)'
               /\ F[s].entry \in Ring!Places
               /\ F[s].entry[1] = BucketFor(F[s].id)
               /\ F[s].entry[2] <= Len(chain[F[s].entry[1]])
               /\ i <= F[s].id
    <3>1. hasNext[k] \in Nat /\ hasNext[k] < numProbes /\ i <= hasNext[k] /\ hasNext[k] < i'
      BY <1>7, <1>20
    <3>2. ~ Unseen(hasNext[k])'
      BY <1>17, <1>22, <3>1
    <3>3. /\ F[s].id = hasNext[k] /\ F[s].entry = Ring!next(head[hasNext[k]])
          /\ F[s].entry \in Ring!Places /\ F[s].entry[1] = BucketFor(hasNext[k])
          /\ F[s].entry[2] = 2 /\ 2 <= Len(chain[BucketFor(hasNext[k])])
      BY <1>20, <2>0, <2>2
    <3> QED
      BY <3>1, <3>2, <3>3
  <2>3. ASSUME NEW s \in Ring!Waiting', NEW r \in Ring!Waiting',
               F[r].id = F[s].id
        PROVE  r = s
    <3>1. CASE s \in 0 .. followupWrite - 1 /\ r \in 0 .. followupWrite - 1
      BY <2>1, <2>3, <3>1
    <3>2. CASE s \in 0 .. followupWrite - 1 /\ r \notin 0 .. followupWrite - 1
      <4>1. F[s].id \in Nat /\ F[s].id < i /\ i <= F[r].id
        BY <1>19, <1>21, <2>0, <2>2, <3>2
      <4> QED
        BY <1>6, <2>3, <4>1
    <3>3. CASE s \notin 0 .. followupWrite - 1 /\ r \in 0 .. followupWrite - 1
      <4>1. F[r].id \in Nat /\ F[r].id < i /\ i <= F[s].id
        BY <1>19, <1>21, <2>0, <2>2, <3>3
      <4> QED
        BY <1>6, <2>3, <4>1
    <3>4. CASE s \notin 0 .. followupWrite - 1 /\ r \notin 0 .. followupWrite - 1
      <4>1. PICK k, l \in 1 .. m : s = followupWrite + k - 1 /\ r = followupWrite + l - 1
        BY <1>21, <3>4
      <4>2. hasNext[k] = hasNext[l]
        BY <1>20, <2>0, <2>3, <4>1
      <4> QED
        BY <1>10, <4>1, <4>2
    <3> QED
      BY <3>1, <3>2, <3>3, <3>4
  <2>4. ASSUME NEW s \in Ring!Waiting'
        PROVE  /\ F[s].id < numProbes /\ ~ Unseen(F[s].id)'
               /\ F[s].entry \in Ring!Places
               /\ F[s].entry[1] = BucketFor(F[s].id)
               /\ F[s].entry[2] <= Len(chain[F[s].entry[1]])
    BY <1>21, <2>1, <2>2
  <2> QED
    <3>1. \A id : BucketFor(id)' = BucketFor(id)
      BY <1>4, SameVector
    <3>2. Ring!Places' = Ring!Places /\ UNCHANGED <<chain, numProbes>>
      BY <1>4 DEF Ring!Places, Ring!Buckets
    <3>3. SUFFICES ASSUME NEW s \in Ring!Waiting'
                   PROVE  /\ F[s].id < numProbes' /\ ~ Unseen(F[s].id)'
                          /\ F[s].entry \in Ring!Places'
                          /\ F[s].entry[1] = BucketFor(F[s].id)'
                          /\ F[s].entry[2] <= Len(chain'[F[s].entry[1]])
                          /\ \A r \in Ring!Waiting' : F[r].id = F[s].id => r = s
      BY <2>0 DEF SlotsSound, BucketFor
    <3> QED
      BY <2>3, <2>4, <3>1, <3>2
<1>27. RingOwes'
  <2>1. Reported' \subseteq Ring!JoinResult
    BY <1>14, <1>16 DEF RingInv, RingOwes
  <2>2. ASSUME NEW p \in Ring!JoinResult
        PROVE  p \in Reported' <=> p.probe < i' /\ ~ Queued(p)'
    <3>1. /\ p.probe \in Nat /\ p.probe < numProbes /\ p \in Ring!Pairs
          /\ p.build = <<BucketFor(p.probe), p.build[2]>>
          /\ p.build[2] \in 1 .. Len(chain[BucketFor(p.probe)])
      BY CandidateFacts, RingTypesNow DEF Ring!JoinResult
    <3>2. CASE p.probe < i
      <4>1. p \in Reported <=> ~ Queued(p)
        BY <1>6, <1>15, <3>1, <3>2 DEF RingInv, RingOwes
      <4>2. p \in Reported' <=> p \in Reported
        <5>1. \A k \in 1 .. h : g[k].probe \in Nat /\ i <= g[k].probe
          BY <1>7, <1>14
        <5> QED
          BY <1>6, <1>16, <3>1, <3>2, <5>1
      <4>3. Queued(p)' <=> Queued(p)
        <5>1. ASSUME Queued(p) PROVE Queued(p)'
          <6>1. PICK s \in 0 .. followupWrite - 1 :
                  followupRing[s].id = p.probe /\ followupRing[s].entry[2] <= p.build[2]
            BY <1>18, <5>1 DEF Queued
          <6>2. s \in Ring!Waiting'
            BY <1>6, <1>10, <1>18
          <6> QED
            BY <1>19, <6>1, <6>2 DEF Queued
        <5>2. ASSUME Queued(p)' PROVE Queued(p)
          <6>1. PICK s \in Ring!Waiting' :
                  followupRing'[s].id = p.probe /\ followupRing'[s].entry[2] <= p.build[2]
            BY <5>2 DEF Queued
          <6>2. s \in 0 .. followupWrite - 1
            <7>1. SUFFICES ASSUME NEW k \in 1 .. m, s = followupWrite + k - 1 PROVE FALSE
              BY <1>21
            <7>2. followupRing'[s].id \in ids
              BY <1>20, <7>1
            <7> QED
              BY <1>6, <1>7, <3>1, <3>2, <6>1, <7>2
          <6> QED
            BY <1>18, <1>19, <6>1, <6>2 DEF Queued
        <5> QED
          BY <5>1, <5>2
      <4>4. p.probe < i'
        BY <1>5, <1>6, <3>1, <3>2
      <4> QED
        BY <4>1, <4>2, <4>3, <4>4
    <3>3. CASE ~ p.probe < i
      <4>1. p \notin Reported
        BY <1>6, <1>15, <3>1, <3>3 DEF RingInv, RingOwes
      <4>2. p \in Reported' <=> \E k \in 1 .. h : g[k] = p
        BY <1>16, <4>1
      <4>3. CASE ~ p.probe < i'
        <5>1. \A k \in 1 .. h : g[k].probe \in Nat /\ g[k].probe < i'
          BY <1>7, <1>14
        <5> QED
          BY <4>2, <4>3, <5>1
      <4>4. CASE p.probe < i'
        <5>1. p.probe \in ids
          BY <1>5, <1>6, <3>1, <3>3, <4>4
        <5>2. CASE p.build[2] = 1
          <6>1. head[p.probe] = <<BucketFor(p.probe), 1>> /\ head[p.probe] # Ring!NoMore
            BY <1>13, <3>1, <5>1, <5>2
          <6>2. p.build = head[p.probe] /\ Ring!entryHash(p.build) = Ring!hashOf(p.probe)
            BY <3>1, <5>2, <6>1 DEF Ring!JoinResult
          <6>3. p.probe \in hits
            BY <1>12, <5>1, <6>1, <6>2
          <6>4. PICK k \in 1 .. h : hit[k] = p.probe
            BY <1>10, <6>3
          <6>5. g[k] = p
            <7>1. g[k] = Ring!Pair(p.probe, p.build)
              BY <1>3, <1>10, <6>2, <6>4
            <7>2. p = [probe |-> p.probe, build |-> p.build]
              BY <3>1 DEF Ring!Pairs
            <7> QED
              BY <7>1, <7>2 DEF Ring!Pair
          <6>6. ~ Queued(p)'
            <7>1. SUFFICES ASSUME NEW s \in Ring!Waiting', followupRing'[s].id = p.probe,
                                  followupRing'[s].entry[2] <= 1
                           PROVE  FALSE
              BY <5>2 DEF Queued
            <7>2. s \notin 0 .. followupWrite - 1
              BY <1>6, <1>19, <3>1, <3>3, <7>1
            <7>3. followupRing'[s].entry[2] = 2
              BY <1>20, <1>21, <7>2
            <7> QED
              BY <7>1, <7>3
          <6> QED
            BY <4>2, <4>4, <6>5, <6>6
        <5>3. CASE p.build[2] # 1
          <6>1. /\ p.build[2] \in Nat /\ 2 <= p.build[2]
                /\ Len(chain[BucketFor(p.probe)]) \in Nat /\ 2 <= Len(chain[BucketFor(p.probe)])
            BY <1>13, <3>1, <5>1, <5>3
          <6>2. p.probe \in nexts
            <7>0. PICK L : L = Len(chain[BucketFor(p.probe)])
              OBVIOUS
            <7>3. L \in Nat /\ 2 <= L
              BY <6>1, <7>0
            <7>4. L # 0 /\ L # 1
              BY <7>3
            <7>1. head[p.probe] # Ring!NoMore /\ Len(chain[BucketFor(p.probe)]) # 1
              BY <1>13, <5>1, <7>0, <7>4
            <7>2. Ring!next(head[p.probe]) # Ring!NoMore
              BY <1>13, <5>1, <7>1
            <7> QED
              BY <1>12, <5>1, <7>1, <7>2
          <6>3. PICK k \in 1 .. m : hasNext[k] = p.probe
            BY <1>10, <6>2
          <6>4. Queued(p)'
            BY <1>20, <6>1, <6>3 DEF Queued
          <6>5. ~ \E l \in 1 .. h : g[l] = p
            <7>1. SUFFICES ASSUME NEW l \in 1 .. h, g[l] = p PROVE FALSE
              OBVIOUS
            <7>2. g[l].build[2] = 1
              BY <1>14
            <7> QED
              BY <5>3, <7>1, <7>2
          <6> QED
            BY <4>2, <6>4, <6>5
        <5> QED
          BY <5>2, <5>3
      <4> QED
        BY <4>3, <4>4
    <3> QED
      BY <3>2, <3>3
  <2>3. \A p \in Ring!JoinResult : p.probe \in Nat
    BY CandidateFacts, RingTypesNow DEF Ring!JoinResult
  <2> QED
    BY <1>4, <1>17, <1>22, <2>1, <2>2, <2>3, SameVector DEF RingOwes
<1> QED
  BY <1>16, <1>23, <1>24, <1>25, <1>26, <1>27 DEF RingInv

-----------------------------------------------------------------------------
(* The steps of joinBoncz.                                                  *)

\* Both kinds of join function probe the same table with the same vector.
LEMMA SameProbe ==
  /\ Boncz!ProbeTypeOK <=> Ring!ProbeTypeOK
  /\ Boncz!ProbeIds = Ring!ProbeIds /\ Boncz!Places = Ring!Places /\ Boncz!Pairs = Ring!Pairs
  /\ Boncz!Candidates = Ring!Candidates /\ Boncz!NoMore = Ring!NoMore
  /\ \A e : Boncz!next(e) = Ring!next(e)
  /\ \A id, e : Boncz!Pair(id, e) = Ring!Pair(id, e)
  /\ \A h : Boncz!find_chain_tagged(h) = Ring!find_chain_tagged(h)
  /\ \A id : Boncz!hashOf(id) = Ring!hashOf(id) /\ Boncz!bucketOf(Boncz!hashOf(id)) = BucketFor(id)
<1>1. /\ Boncz!ProbeIds = Ring!ProbeIds /\ Boncz!Places = Ring!Places /\ Boncz!Pairs = Ring!Pairs
      /\ Boncz!NoMore = Ring!NoMore
  BY DEF Boncz!ProbeIds, Ring!ProbeIds, Boncz!Places, Ring!Places, Boncz!Buckets, Ring!Buckets,
     Boncz!Pairs, Ring!Pairs, Boncz!NoMore, Ring!NoMore
<1>2. \A id : Boncz!hashOf(id) = Ring!hashOf(id) /\ Boncz!bucketOf(Boncz!hashOf(id)) = BucketFor(id)
  BY DEF Boncz!hashOf, Ring!hashOf, Boncz!bucketOf, Ring!bucketOf, BucketFor
<1>3. Boncz!Candidates = Ring!Candidates
  BY <1>1, <1>2 DEF Boncz!Candidates, Ring!Candidates, BucketFor
<1>4. Boncz!ProbeTypeOK <=> Ring!ProbeTypeOK
  <2>1. Boncz!Tables = Ring!Tables
    BY DEF Boncz!Tables, Ring!Tables, Boncz!Buckets, Ring!Buckets, Boncz!bucketOf, Ring!bucketOf
  <2> QED
    BY <1>1, <2>1 DEF Boncz!ProbeTypeOK, Ring!ProbeTypeOK
<1>5. /\ \A e : Boncz!next(e) = Ring!next(e)
      /\ \A id, e : Boncz!Pair(id, e) = Ring!Pair(id, e)
  BY DEF Boncz!next, Ring!next, Boncz!NoMore, Ring!NoMore, Boncz!Pair, Ring!Pair
<1>6. \A h : Boncz!find_chain_tagged(h) = Ring!find_chain_tagged(h)
  BY DEF Boncz!find_chain_tagged, Ring!find_chain_tagged, Boncz!bucketOf, Ring!bucketOf,
     Boncz!NoMore, Ring!NoMore
<1> QED
  BY <1>1, <1>2, <1>3, <1>4, <1>5, <1>6

Followup == [id : Ring!ProbeIds, entry : Ring!Places]

LEMMA BonczTypesNow ==
  ASSUME BonczInv
  PROVE  /\ Ring!ProbeTypeOK /\ batchSize \in Nat \ {0}
         /\ numProbes \in 0 .. batchSize /\ nextProbe \in 0 .. batchSize
         /\ probeHashes \in [1 .. numProbes -> Hashes]
         /\ i \in 0 .. batchSize /\ found \in Seq(Ring!Pairs) /\ matches \in Seq(Ring!Pairs)
         /\ delivered \in SUBSET Ring!Pairs
         /\ followups \in Seq(Followup) /\ round \in Seq(Followup)
         /\ Len(found) \in Nat /\ Len(followups) \in Nat /\ Len(round) \in Nat
<1>1. Ring!ProbeTypeOK
  BY SameProbe DEF BonczInv, Boncz!TypeOK
<1>2. followups \in Seq(Followup) /\ round \in Seq(Followup)
  BY SameProbe DEF BonczInv, Boncz!TypeOK, Followup
<1>3. found \in Seq(Ring!Pairs)
  BY <1>1 DEF Ring!ProbeTypeOK
<1>4. Len(found) \in Nat /\ Len(followups) \in Nat /\ Len(round) \in Nat
  BY <1>2, <1>3
<1> QED
  BY <1>1, <1>2, <1>4, Sizes DEF Ring!ProbeTypeOK

\* The conjuncts of the type invariant that a step may change.
LEMMA BonczTypes ==
  ASSUME BonczInv, chain' = chain,
         numProbes' \in 0 .. batchSize, nextProbe' \in 0 .. batchSize,
         probeHashes' \in [1 .. numProbes' -> Hashes],
         i' \in 0 .. batchSize, found' \in Seq(Ring!Pairs), matches' \in Seq(Ring!Pairs),
         delivered' \in SUBSET Ring!Pairs,
         probePc' \in {"next", "first", "rounds", "round", "done"},
         followups' \in Seq(Followup), round' \in Seq(Followup)
  PROVE  Boncz!TypeOK'
<1>1. chain \in Boncz!Tables
  BY DEF BonczInv, Boncz!TypeOK, Boncz!ProbeTypeOK
<1>2. Boncz!ProbeTypeOK'
  BY <1>1 DEF Boncz!ProbeTypeOK, Boncz!Tables, Boncz!Buckets, Boncz!bucketOf,
     Boncz!Pairs, Boncz!ProbeIds, Boncz!Places, Ring!Pairs, Ring!ProbeIds, Ring!Places, Ring!Buckets
<1> QED
  BY <1>2 DEF Boncz!TypeOK, Followup, Boncz!ProbeIds, Boncz!Places, Boncz!Buckets,
     Ring!ProbeIds, Ring!Places, Ring!Buckets

\* What is left of a chain, in the terms of the lemmas about the probe vector.
LEMMA RestFacts ==
  ASSUME BonczInv, NEW f \in Rests
  PROVE  /\ f \in Followup /\ f.id \in Nat /\ f.id < numProbes /\ f.entry \in Ring!Places
         /\ f.entry[1] = BucketFor(f.id) /\ f.entry[2] <= Len(chain[f.entry[1]])
         /\ ~ NotCollected(f.id)
<1>1. f \in Followup
  <2>1. CASE \E k \in DOMAIN followups : f = followups[k]
    BY <2>1, BonczTypesNow
  <2>2. CASE \E k \in DOMAIN round : f = round[k]
    BY <2>2, BonczTypesNow
  <2> QED
    BY <2>1, <2>2 DEF Rests
<1>2. f.id \in 0 .. batchSize - 1 /\ f.entry \in Ring!Places
  BY <1>1 DEF Followup, Ring!ProbeIds
<1>3. f.id \in Nat
  BY <1>2, Sizes
<1> QED
  BY <1>1, <1>2, <1>3, SameProbe DEF BonczInv, RestsSound

LEMMA SameVectorBoncz ==
  ASSUME UNCHANGED <<chain, probeHashes>>
  PROVE  /\ Boncz!Candidates' = Boncz!Candidates
         /\ \A id : Boncz!bucketOf(Boncz!hashOf(id))' = Boncz!bucketOf(Boncz!hashOf(id))
<1>1. \A id : Boncz!hashOf(id)' = Boncz!hashOf(id)
  BY DEF Boncz!hashOf
<1>2. Boncz!Candidates' = Boncz!Candidates
  BY <1>1 DEF Boncz!Candidates, Boncz!bucketOf, Boncz!Pairs, Boncz!ProbeIds, Boncz!Places, Boncz!Buckets
<1> QED
  BY <1>1, <1>2 DEF Boncz!bucketOf

\* A step that reports nothing and leaves the rests of the chains alone.
LEMMA QuietBoncz ==
  ASSUME BonczInv, UNCHANGED <<chain, probeHashes, numProbes>>, Reported' = Reported, Rests' = Rests,
         \A id \in Nat : id < numProbes => (NotCollected(id)' <=> NotCollected(id))
  PROVE  /\ \A f \in Rests' :
              /\ f.id < numProbes' /\ ~ NotCollected(f.id)'
              /\ f.entry[1] = Boncz!bucketOf(Boncz!hashOf(f.id))'
              /\ f.entry[2] <= Len(chain'[f.entry[1]])
         /\ BonczOwes'
<1>1. ASSUME NEW f \in Rests
      PROVE  /\ f.id < numProbes /\ ~ NotCollected(f.id)'
             /\ f.entry[1] = Boncz!bucketOf(Boncz!hashOf(f.id))'
             /\ f.entry[2] <= Len(chain[f.entry[1]])
  BY RestFacts, SameProbe, SameVectorBoncz
<1>2. Reported \subseteq Boncz!Candidates
  BY DEF BonczInv, BonczOwes
<1>3. ASSUME NEW p \in Boncz!Candidates
      PROVE  p \in Reported <=> ~ NotCollected(p.probe)' /\ ~ InRest(p)'
  <2>1. p.probe \in Nat /\ p.probe < numProbes
    BY <1>3, SameProbe, CandidateFacts, BonczTypesNow
  <2>2. InRest(p)' <=> InRest(p)
    BY DEF InRest
  <2> QED
    BY <2>1, <2>2 DEF BonczInv, BonczOwes
<1>4. BonczOwes'
  BY <1>2, <1>3, SameVectorBoncz DEF BonczOwes
<1> QED
  BY <1>1, <1>4

\* The rests keep their places.
LEMMA SameRests ==
  ASSUME BonczInv, UNCHANGED <<chain, probeHashes, numProbes, followups, round>>, Reported' = Reported,
         \A id \in Nat : id < numProbes => (NotCollected(id)' <=> NotCollected(id))
  PROVE  RestsSound' /\ BonczOwes'
<1>1. Rests' = Rests
  BY DEF Rests
<1>2. /\ \A f \in Rests' :
           /\ f.id < numProbes' /\ ~ NotCollected(f.id)'
           /\ f.entry[1] = Boncz!bucketOf(Boncz!hashOf(f.id))'
           /\ f.entry[2] <= Len(chain'[f.entry[1]])
      /\ BonczOwes'
  BY <1>1, QuietBoncz
<1> QED
  BY <1>2 DEF BonczInv, RestsSound

LEMMA BonczUnchanged ==
  ASSUME BonczInv, UNCHANGED <<probeVars, bonczVars>>
  PROVE  BonczInv'
<1>1. /\ UNCHANGED <<chain, probeHashes, nextProbe, numProbes, probePc, i, found, matches, delivered>>
      /\ UNCHANGED <<followups, round>>
  BY DEF probeVars, bonczVars
<1>2. Boncz!TypeOK'
  BY <1>1, BonczTypes, BonczTypesNow DEF BonczInv, Boncz!TypeOK
<1>3. RestsSound' /\ BonczOwes'
  <2>1. Reported' = Reported /\ \A id : NotCollected(id)' <=> NotCollected(id)
    BY <1>1 DEF Reported, NotCollected
  <2> QED
    BY <1>1, <2>1, SameRests
<1>4. BetweenCalls' /\ FoundOnce' /\ BonczFits'
  BY <1>1 DEF BonczInv, BetweenCalls, FoundOnce, BonczFits
<1> QED
  BY <1>2, <1>3, <1>4 DEF BonczInv

\* Nothing is queued.
LEMMA NoRests ==
  ASSUME followups = <<>>, round = <<>>
  PROVE  Rests = {} /\ Len(followups) = 0 /\ Len(round) = 0
BY DEF Rests

LEMMA RefillBoncz ==
  ASSUME BonczInv, Boncz!Refill
  PROVE  BonczInv'
<1>1. PICK n \in 1 .. batchSize : probeHashes' \in [1 .. n -> Hashes] /\ numProbes' = n
  BY DEF Boncz!Refill, Boncz!RefillProbe
<1>2. /\ probePc = "next" /\ nextProbe >= numProbes
      /\ nextProbe' = 0 /\ delivered' = {} /\ matches' = <<>>
      /\ UNCHANGED <<chain, probePc, i, found>>
      /\ UNCHANGED <<followups, round>>
  BY DEF Boncz!Refill, Boncz!RefillProbe
<1>3. followups = <<>> /\ round = <<>> /\ found = <<>> /\ i = 0
  BY <1>2 DEF BonczInv, BonczFits, BetweenCalls
<1>4. n \in Nat /\ n > 0 /\ n <= batchSize /\ 0 \in 0 .. batchSize
  BY Sizes
<1>5. Boncz!TypeOK'
  <2>1. n \in 0 .. batchSize /\ matches' \in Seq(Ring!Pairs) /\ {} \in SUBSET Ring!Pairs
    BY <1>2, <1>4
  <2>2. probePc' \in {"next", "first", "rounds", "round", "done"}
    BY <1>2
  <2> QED
    BY <1>1, <1>2, <1>4, <2>1, <2>2, BonczTypes, BonczTypesNow
<1>6. Rests' = {}
  BY <1>2, <1>3, NoRests DEF Rests
<1>7. BetweenCalls' /\ FoundOnce'
  BY <1>1, <1>2, <1>3, <1>4 DEF BetweenCalls, FoundOnce
<1>8. BonczFits'
  BY <1>1, <1>2, <1>3, <1>4 DEF BonczFits
<1>9. RestsSound'
  BY <1>2, <1>3, <1>6 DEF RestsSound
<1>10. BonczOwes'
  <2>1. Reported' = {}
    BY <1>2, <1>3 DEF Reported
  <2>2. ASSUME NEW p PROVE NotCollected(p.probe)'
    BY <1>1, <1>2, <1>3, <1>4 DEF NotCollected
  <2> QED
    BY <2>1, <2>2 DEF BonczOwes
<1> QED
  BY <1>5, <1>7, <1>8, <1>9, <1>10 DEF BonczInv

LEMMA EndBoncz ==
  ASSUME BonczInv, Boncz!EndOfStream
  PROVE  BonczInv'
<1>1. /\ probePc = "next" /\ nextProbe >= numProbes /\ probePc' = "done"
      /\ nextProbe' = 0 /\ numProbes' = 0 /\ probeHashes' = <<>> /\ delivered' = {} /\ matches' = <<>>
      /\ UNCHANGED <<chain, i, found>>
      /\ UNCHANGED <<followups, round>>
  BY DEF Boncz!EndOfStream, Boncz!EndProbe
<1>2. followups = <<>> /\ round = <<>> /\ found = <<>> /\ i = 0
  BY <1>1 DEF BonczInv, BonczFits, BetweenCalls
<1>3. 0 \in 0 .. batchSize /\ batchSize \in Nat
  BY Sizes
<1>4. Boncz!TypeOK'
  <2>1. matches' \in Seq(Ring!Pairs) /\ {} \in SUBSET Ring!Pairs /\ probeHashes' \in [1 .. 0 -> Hashes]
    BY <1>1
  <2>2. probePc' \in {"next", "first", "rounds", "round", "done"}
    BY <1>1
  <2> QED
    BY <1>1, <1>3, <2>1, <2>2, BonczTypes, BonczTypesNow
<1>5. Rests' = {}
  BY <1>1, <1>2, NoRests DEF Rests
<1>6. BetweenCalls' /\ FoundOnce'
  BY <1>1, <1>2 DEF BetweenCalls, FoundOnce
<1>7. BonczFits'
  BY <1>1, <1>2, <1>3 DEF BonczFits
<1>8. RestsSound'
  BY <1>1, <1>2, <1>5 DEF RestsSound
<1>9. BonczOwes'
  <2>1. Reported' = {}
    BY <1>1, <1>2 DEF Reported
  <2>2. Boncz!Candidates' = {}
    BY <1>1 DEF Boncz!Candidates, Boncz!Pairs, Boncz!ProbeIds
  <2> QED
    BY <2>1, <2>2 DEF BonczOwes
<1> QED
  BY <1>4, <1>6, <1>7, <1>8, <1>9 DEF BonczInv

LEMMA CallBoncz ==
  ASSUME BonczInv, Boncz!CallJoin
  PROVE  BonczInv'
<1>1. /\ probePc = "next" /\ nextProbe < numProbes
      /\ probePc' = (IF followups = <<>> THEN "first" ELSE "rounds")
      /\ UNCHANGED <<chain, probeHashes, nextProbe, numProbes, i, found, matches, delivered>>
      /\ UNCHANGED <<followups, round>>
  BY DEF Boncz!CallJoin, Boncz!Call
<1>2. nextProbe = 0 /\ found = <<>> /\ i = 0 /\ round = <<>> /\ Len(found) = 0 /\ Len(round) = 0
  BY <1>1, BonczTypesNow DEF BonczInv, BonczFits, BetweenCalls
<1>3. Boncz!TypeOK'
  BY <1>1, BonczTypes, BonczTypesNow
<1>4. BetweenCalls' /\ FoundOnce'
  BY <1>1, <1>2 DEF BonczInv, BetweenCalls, FoundOnce
<1>5. BonczFits'
  BY <1>1, <1>2, BonczTypesNow DEF BonczInv, BonczFits
<1>6. RestsSound' /\ BonczOwes'
  <2>1. Reported' = Reported
    BY <1>1 DEF Reported
  <2>2. \A id \in Nat : id < numProbes => (NotCollected(id)' <=> NotCollected(id))
    BY <1>1, <1>2 DEF NotCollected
  <2> QED
    BY <1>1, <2>1, <2>2, SameRests
<1> QED
  BY <1>3, <1>4, <1>5, <1>6 DEF BonczInv

\* The call ends with nothing to do in the current state of the rests.
LEMMA ReturnBoncz ==
  ASSUME BonczInv, probePc \in {"first", "round"}, probePc' = "next", round = <<>>,
         matches' = found, delivered' = Reported, found' = <<>>, i' = 0,
         UNCHANGED <<chain, probeHashes, numProbes, followups, round>>,
         \/ nextProbe' = numProbes /\ followups = <<>> /\ (probePc = "first" => i >= numProbes)
         \/ nextProbe' = nextProbe /\ followups # <<>> /\ probePc = "round"
  PROVE  BonczInv'
<1>1. nextProbe = 0 /\ numProbes > 0 /\ numProbes \in Nat
  BY BonczTypesNow DEF BonczInv, BetweenCalls
<1>2. Boncz!TypeOK'
  <2>1. delivered' \in SUBSET Ring!Pairs
    BY SameProbe, CandidateFacts, BonczTypesNow DEF BonczInv, BonczOwes
  <2>2. found' \in Seq(Ring!Pairs) /\ i' \in 0 .. batchSize /\ nextProbe' \in 0 .. batchSize
    BY BonczTypesNow
  <2> QED
    BY <2>1, <2>2, BonczTypes, BonczTypesNow
<1>3. BetweenCalls' /\ FoundOnce'
  BY <1>1 DEF BetweenCalls, FoundOnce
<1>4. BonczFits'
  BY <1>1, BonczTypesNow DEF BonczInv, BonczFits
<1>5. RestsSound' /\ BonczOwes'
  <2>1. Reported' = Reported
    BY DEF Reported
  <2>2. \A id \in Nat : id < numProbes => (NotCollected(id)' <=> NotCollected(id))
    BY <1>1, BonczTypesNow DEF NotCollected
  <2> QED
    BY <2>1, <2>2, SameRests
<1> QED
  BY <1>2, <1>3, <1>4, <1>5 DEF BonczInv

LEMMA ReturnsBoncz ==
  ASSUME BonczInv, Boncz!ReturnNothing \/ Boncz!ReturnLast \/ Boncz!ReturnToContinue
  PROVE  BonczInv'
<1>1. CASE Boncz!ReturnNothing
  <2>1. round = <<>>
    BY <1>1 DEF Boncz!ReturnNothing, BonczInv, BonczFits
  <2> QED
    BY <1>1, <2>1, ReturnBoncz DEF Boncz!ReturnNothing, Boncz!Return, Reported
<1>2. CASE Boncz!ReturnLast
  BY <1>2, ReturnBoncz DEF Boncz!ReturnLast, Boncz!Return, Reported
<1>3. CASE Boncz!ReturnToContinue
  BY <1>3, ReturnBoncz DEF Boncz!ReturnToContinue, Boncz!Return, Reported
<1> QED
  BY <1>1, <1>2, <1>3

\* The rounds go on in the same call.
LEMMA GoOnBoncz ==
  ASSUME BonczInv, Boncz!FirstPassDone \/ Boncz!NextRound
  PROVE  BonczInv'
<1>1. /\ probePc' = "rounds" /\ round = <<>> /\ followups # <<>>
      /\ \/ probePc = "first" /\ i >= numProbes
         \/ probePc = "round" /\ Len(found) + Len(followups) < batchSize
      /\ UNCHANGED <<chain, probeHashes, nextProbe, numProbes, i, found, matches, delivered>>
      /\ UNCHANGED <<followups, round>>
  BY DEF Boncz!FirstPassDone, Boncz!NextRound, BonczInv, BonczFits
<1>2. nextProbe = 0 /\ numProbes > 0 /\ Len(round) = 0
  BY <1>1, BonczTypesNow DEF BonczInv, BetweenCalls
<1>3. Boncz!TypeOK'
  BY <1>1, BonczTypes, BonczTypesNow
<1>4. BetweenCalls' /\ FoundOnce'
  BY <1>1, <1>2 DEF BonczInv, BetweenCalls, FoundOnce
<1>5. BonczFits'
  <2>1. Len(found) + Len(followups) <= batchSize
    <3>1. CASE probePc = "first"
      <4>1. Len(found) = 0 /\ Len(followups) <= numProbes
        BY <1>2, <3>1, BonczTypesNow DEF BonczInv, BonczFits
      <4> QED
        BY <4>1, BonczTypesNow
    <3> QED
      BY <1>1, <3>1, BonczTypesNow
  <2> QED
    BY <1>1, <1>2, <2>1 DEF BonczInv, BonczFits
<1>6. RestsSound' /\ BonczOwes'
  <2>1. Reported' = Reported
    BY <1>1 DEF Reported
  <2>2. \A id \in Nat : id < numProbes => (NotCollected(id)' <=> NotCollected(id))
    BY <1>1, BonczTypesNow DEF NotCollected
  <2> QED
    BY <1>1, <2>1, <2>2, SameRests
<1> QED
  BY <1>3, <1>4, <1>5, <1>6 DEF BonczInv

LEMMA StartRoundBoncz ==
  ASSUME BonczInv, Boncz!StartRound
  PROVE  BonczInv'
<1>1. /\ probePc = "rounds" /\ probePc' = "round"
      /\ round' = followups /\ followups' = <<>>
      /\ UNCHANGED <<chain, probeHashes, nextProbe, numProbes, i, found, matches, delivered>>
  BY DEF Boncz!StartRound
<1>2. /\ round = <<>> /\ nextProbe = 0 /\ numProbes > 0 /\ Len(round) = 0
      /\ Len(found) + Len(followups) <= batchSize /\ Len(followups) <= numProbes
  BY <1>1, BonczTypesNow DEF BonczInv, BonczFits, BetweenCalls
<1>3. Boncz!TypeOK'
  <2>1. followups' \in Seq(Followup)
    BY <1>1
  <2> QED
    BY <1>1, <2>1, BonczTypes, BonczTypesNow
<1>4. BetweenCalls' /\ FoundOnce'
  BY <1>1, <1>2 DEF BonczInv, BetweenCalls, FoundOnce
<1>5. BonczFits'
  BY <1>1, <1>2, BonczTypesNow DEF BonczFits
<1>6. Rests' = Rests
  BY <1>1, <1>2 DEF Rests
<1>7. /\ \A f \in Rests' :
           /\ f.id < numProbes' /\ ~ NotCollected(f.id)'
           /\ f.entry[1] = Boncz!bucketOf(Boncz!hashOf(f.id))'
           /\ f.entry[2] <= Len(chain'[f.entry[1]])
      /\ BonczOwes'
  <2>1. Reported' = Reported
    BY <1>1 DEF Reported
  <2>2. \A id \in Nat : id < numProbes => (NotCollected(id)' <=> NotCollected(id))
    BY <1>1 DEF NotCollected
  <2> QED
    BY <1>1, <1>6, <2>1, <2>2, QuietBoncz
<1>8. RestsSound'
  BY <1>1, <1>7 DEF BonczInv, RestsSound
<1> QED
  BY <1>3, <1>4, <1>5, <1>7, <1>8 DEF BonczInv

\* A sequence of rests that grows at its end.
LEMMA AppendRest ==
  ASSUME NEW s \in Seq(Followup), NEW x \in Followup, NEW t, t = Append(s, x)
  PROVE  /\ t \in Seq(Followup) /\ Len(t) = Len(s) + 1 /\ Len(s) \in Nat
         /\ DOMAIN s = 1 .. Len(s) /\ DOMAIN t = 1 .. Len(s) + 1
         /\ \A k \in DOMAIN s : k \in DOMAIN t /\ t[k] = s[k]
         /\ t[Len(s) + 1] = x
         /\ \A k \in DOMAIN t : k \in DOMAIN s \/ k = Len(s) + 1
         /\ {t[k] : k \in DOMAIN t} = {s[k] : k \in DOMAIN s} \cup {x}
<1>1. /\ t \in Seq(Followup) /\ Len(t) = Len(s) + 1 /\ Len(s) \in Nat
      /\ DOMAIN s = 1 .. Len(s) /\ DOMAIN t = 1 .. Len(s) + 1
      /\ \A k \in DOMAIN s : k \in DOMAIN t /\ t[k] = s[k]
      /\ t[Len(s) + 1] = x
      /\ \A k \in DOMAIN t : k \in DOMAIN s \/ k = Len(s) + 1
      /\ Len(s) + 1 \in DOMAIN t
  OBVIOUS
<1>2. {t[k] : k \in DOMAIN t} = {s[k] : k \in DOMAIN s} \cup {x}
  <2>1. ASSUME NEW k \in DOMAIN t PROVE t[k] \in {s[l] : l \in DOMAIN s} \cup {x}
    BY <1>1
  <2>2. ASSUME NEW k \in DOMAIN s PROVE s[k] \in {t[l] : l \in DOMAIN t}
    BY <1>1
  <2>3. x \in {t[l] : l \in DOMAIN t}
    BY <1>1
  <2> QED
    BY <2>1, <2>2, <2>3
<1> QED
  BY <1>1, <1>2

\* The first pass queues the whole chain of one probe tuple.
LEMMA FirstPassBoncz ==
  ASSUME BonczInv, Boncz!FirstPass
  PROVE  BonczInv'
<1>1. PICK e, x : e = Ring!find_chain_tagged(Ring!hashOf(i)) /\ x = [id |-> i, entry |-> e]
  OBVIOUS
<1>2. /\ probePc = "first" /\ probePc' = "first" /\ i < numProbes
      /\ followups' = (IF e = Ring!NoMore THEN followups ELSE Append(followups, x))
      /\ i' = i + 1
      /\ UNCHANGED <<chain, probeHashes, nextProbe, numProbes, found, matches, delivered, round>>
  BY <1>1, SameProbe DEF Boncz!FirstPass
<1>3. /\ i \in Nat /\ numProbes \in Nat /\ numProbes <= batchSize /\ batchSize \in Nat
      /\ nextProbe = 0 /\ numProbes > 0 /\ found = <<>> /\ Len(found) = 0 /\ round = <<>> /\ Len(round) = 0
      /\ Len(followups) \in Nat /\ Len(followups) <= i
  BY <1>2, BonczTypesNow DEF BonczInv, BetweenCalls, BonczFits
<1>4. \A id : (NotCollected(id) <=> id >= i) /\ (NotCollected(id)' <=> id >= i')
  BY <1>2 DEF NotCollected
<1>5. /\ e = Ring!NoMore => Len(chain[BucketFor(i)]) = 0
      /\ e # Ring!NoMore =>
           /\ e \in Ring!Places /\ e[1] = BucketFor(i) /\ e[2] = 1 /\ e[2] <= Len(chain[e[1]])
  BY <1>1, <1>2, <1>3, HeadFacts, BonczTypesNow
<1>6. /\ followups' \in Seq(Followup) /\ Len(followups') <= Len(followups) + 1 /\ Len(followups') \in Nat
      /\ Rests' = Rests \cup (IF e = Ring!NoMore THEN {} ELSE {x})
      /\ \A k, m \in DOMAIN followups' : followups'[k].id = followups'[m].id => k = m
  <2>1. Rests = {followups[k] : k \in DOMAIN followups}
         /\ Rests' = {followups'[k] : k \in DOMAIN followups'}
    BY <1>2, <1>3 DEF Rests
  <2>2. \A k, m \in DOMAIN followups : followups[k].id = followups[m].id => k = m
    BY DEF BonczInv, RestsSound
  <2>3. CASE e = Ring!NoMore
    BY <1>2, <1>3, <2>1, <2>2, <2>3, BonczTypesNow
  <2>4. CASE e # Ring!NoMore
    <3>1. x \in Followup
      BY <1>1, <1>2, <1>3, <1>5, <2>4, ProbeFacts, BonczTypesNow DEF Followup
    <3>2. PICK t : t = followups'
      OBVIOUS
    <3>3. /\ t \in Seq(Followup) /\ Len(t) = Len(followups) + 1
          /\ \A k \in DOMAIN followups : t[k] = followups[k]
          /\ t[Len(followups) + 1] = x
          /\ \A k \in DOMAIN t : k \in DOMAIN followups \/ k = Len(followups) + 1
          /\ {t[k] : k \in DOMAIN t} = {followups[k] : k \in DOMAIN followups} \cup {x}
      <4>1. t = Append(followups, x) /\ followups \in Seq(Followup)
        BY <1>2, <2>4, <3>2, BonczTypesNow
      <4> QED
        BY <3>1, <4>1, AppendRest
    <3>4. ASSUME NEW k \in DOMAIN followups PROVE followups[k].id # x.id
      <4>1. followups[k] \in Rests
        BY <2>1
      <4>2. followups[k].id \in Nat /\ ~ followups[k].id >= i
        BY <1>4, <4>1, RestFacts
      <4> QED
        BY <1>1, <1>3, <4>2
    <3>5. \A k, m \in DOMAIN t : t[k].id = t[m].id => k = m
      BY <2>2, <3>3, <3>4
    <3> QED
      BY <1>3, <2>1, <2>4, <3>2, <3>3, <3>5
  <2> QED
    BY <2>3, <2>4
<1>7. Boncz!TypeOK'
  <2>1. i' \in 0 .. batchSize
    BY <1>2, <1>3
  <2> QED
    BY <1>2, <1>6, <2>1, BonczTypes, BonczTypesNow
<1>8. BetweenCalls' /\ FoundOnce'
  BY <1>2, <1>3 DEF BonczInv, BetweenCalls, FoundOnce
<1>9. BonczFits'
  BY <1>2, <1>3, <1>6 DEF BonczFits
<1>10. RestsSound'
  <2>1. ASSUME NEW f \in Rests'
        PROVE  /\ f.id < numProbes /\ ~ NotCollected(f.id)'
               /\ f.entry[1] = Boncz!bucketOf(Boncz!hashOf(f.id))'
               /\ f.entry[2] <= Len(chain[f.entry[1]])
    <3>1. CASE f \in Rests
      BY <1>2, <1>3, <1>4, <3>1, RestFacts, SameProbe, SameVectorBoncz
    <3>2. CASE f = x /\ e # Ring!NoMore
      <4>1. f.id = i /\ f.entry = e
        BY <1>1, <3>2
      <4> QED
        BY <1>2, <1>3, <1>4, <1>5, <3>2, <4>1, SameProbe, SameVectorBoncz
    <3> QED
      BY <1>6, <3>1, <3>2
  <2> QED
    BY <1>2, <1>3, <1>6, <2>1 DEF RestsSound
<1>11. BonczOwes'
  <2>1. Reported' = Reported /\ Reported \subseteq Boncz!Candidates
    BY <1>2 DEF Reported, BonczInv, BonczOwes
  <2>2. ASSUME NEW p \in Boncz!Candidates
        PROVE  p \in Reported <=> ~ p.probe >= i' /\ ~ InRest(p)'
    <3>1. /\ p.probe \in Nat /\ p.build[2] \in 1 .. Len(chain[BucketFor(p.probe)])
          /\ p.probe < numProbes
      BY SameProbe, CandidateFacts, BonczTypesNow
    <3>2. p \in Reported <=> ~ p.probe >= i /\ ~ InRest(p)
      BY <1>4 DEF BonczInv, BonczOwes
    <3>3. CASE p.probe = i
      <4>1. Len(chain[BucketFor(i)]) # 0
        BY <3>1, <3>3, ProbeFacts, BonczTypesNow, Sizes
      <4>2. e # Ring!NoMore /\ x.id = i /\ x.entry[2] = 1 /\ x \in Rests'
        BY <1>1, <1>5, <1>6, <4>1
      <4>3. InRest(p)'
        BY <3>1, <3>3, <4>2 DEF InRest
      <4> QED
        BY <1>3, <3>2, <3>3, <4>3
    <3>4. CASE p.probe # i
      <4>1. x.id # p.probe
        BY <1>1, <3>4
      <4>2. InRest(p)' <=> InRest(p)
        BY <1>6, <4>1 DEF InRest
      <4> QED
        BY <1>2, <1>3, <3>1, <3>2, <3>4, <4>2
    <3> QED
      BY <3>3, <3>4
  <2> QED
    BY <1>2, <1>4, <2>1, <2>2, SameVectorBoncz DEF BonczOwes
<1> QED
  BY <1>7, <1>8, <1>9, <1>10, <1>11 DEF BonczInv

\* The rests of a round but the first.
LEMMA TailRest ==
  ASSUME NEW s \in Seq(Followup), s # <<>>, NEW t, t = Tail(s)
  PROVE  /\ t \in Seq(Followup) /\ Len(t) = Len(s) - 1 /\ Len(s) \in Nat \ {0}
         /\ Head(s) = s[1] /\ 1 \in DOMAIN s /\ Head(s) \in Followup
         /\ \A k \in DOMAIN t : k + 1 \in DOMAIN s /\ t[k] = s[k + 1] /\ k \in Nat \ {0}
         /\ \A k \in DOMAIN s : k # 1 => k - 1 \in DOMAIN t /\ s[k] = t[k - 1]
<1>1. Len(s) \in Nat \ {0} /\ DOMAIN s = 1 .. Len(s) /\ Head(s) = s[1] /\ 1 \in DOMAIN s
  OBVIOUS
<1>2. /\ t \in Seq(Followup) /\ Len(t) = Len(s) - 1 /\ DOMAIN t = 1 .. Len(s) - 1
      /\ \A k \in 1 .. Len(s) - 1 : t[k] = s[k + 1]
  BY <1>1
<1>3. \A k \in DOMAIN t : k + 1 \in DOMAIN s /\ t[k] = s[k + 1] /\ k \in Nat \ {0}
  BY <1>1, <1>2
<1>4. ASSUME NEW k \in DOMAIN s, k # 1 PROVE k - 1 \in DOMAIN t /\ s[k] = t[k - 1]
  <2>1. k - 1 \in 1 .. Len(s) - 1 /\ (k - 1) + 1 = k
    BY <1>1, <1>4
  <2> QED
    BY <1>2, <2>1
<1> QED
  BY <1>1, <1>2, <1>3, <1>4

\* The oldest rest of a round is reported, what remains of it queued again.
LEMMA FollowBoncz ==
  ASSUME BonczInv, Boncz!Follow
  PROVE  BonczInv'
<1>1. PICK f, P, nx, x :
        /\ f = Head(round) /\ P = Ring!Pair(f.id, f.entry)
        /\ nx = Ring!next(f.entry) /\ x = [id |-> f.id, entry |-> nx]
  OBVIOUS
<1>2. /\ probePc = "round" /\ probePc' = "round" /\ round # <<>>
      /\ found' = Append(found, P)
      /\ followups' = (IF nx = Ring!NoMore THEN followups ELSE Append(followups, x))
      /\ round' = Tail(round)
      /\ UNCHANGED <<chain, probeHashes, nextProbe, numProbes, i, matches, delivered>>
  BY <1>1, SameProbe DEF Boncz!Follow
<1>3. PICK s, t, u, v : s = round /\ t = round' /\ u = followups /\ v = followups'
  OBVIOUS
<1>4. /\ s \in Seq(Followup) /\ t \in Seq(Followup) /\ Len(t) = Len(s) - 1 /\ Len(s) \in Nat \ {0}
      /\ f = s[1] /\ 1 \in DOMAIN s
      /\ \A k \in DOMAIN t : k + 1 \in DOMAIN s /\ t[k] = s[k + 1] /\ k \in Nat \ {0}
      /\ \A k \in DOMAIN s : k # 1 => k - 1 \in DOMAIN t /\ s[k] = t[k - 1]
  <2>1. s \in Seq(Followup) /\ s # <<>> /\ t = Tail(s) /\ f = Head(s)
    BY <1>1, <1>2, <1>3, BonczTypesNow
  <2> QED
    BY <2>1, TailRest
<1>5. /\ \A k, m \in DOMAIN u : u[k].id = u[m].id => k = m
      /\ \A k, m \in DOMAIN s : s[k].id = s[m].id => k = m
      /\ \A k \in DOMAIN u, m \in DOMAIN s : u[k].id # s[m].id
      /\ Rests = {u[k] : k \in DOMAIN u} \cup {s[k] : k \in DOMAIN s}
      /\ Rests' = {v[k] : k \in DOMAIN v} \cup {t[k] : k \in DOMAIN t}
  BY <1>3 DEF BonczInv, RestsSound, Rests
<1>6. PICK R0 : R0 = {u[k] : k \in DOMAIN u} \cup {t[k] : k \in DOMAIN t}
  OBVIOUS
<1>7. /\ f \in Rests /\ Rests = R0 \cup {f}
      /\ \A y \in R0 : y.id # f.id
      /\ \A k, m \in DOMAIN t : t[k].id = t[m].id => k = m
      /\ \A k \in DOMAIN u, m \in DOMAIN t : u[k].id # t[m].id
      /\ \A k \in DOMAIN t : t[k].id # f.id
      /\ \A k \in DOMAIN u : u[k].id # f.id
  <2>1. ASSUME NEW k \in DOMAIN t PROVE t[k].id # f.id /\ t[k] \in Rests
    <3>1. k + 1 # 1 /\ k + 1 \in DOMAIN s /\ t[k] = s[k + 1]
      BY <1>4
    <3> QED
      BY <1>4, <1>5, <3>1
  <2>2. \A k \in DOMAIN u : u[k].id # f.id
    BY <1>4, <1>5
  <2>3. ASSUME NEW k \in DOMAIN t, NEW m \in DOMAIN t, t[k].id = t[m].id PROVE k = m
    <3>1. k + 1 = m + 1 /\ k \in Nat /\ m \in Nat
      BY <1>4, <1>5, <2>3
    <3> QED
      BY <3>1
  <2>4. f \in Rests
    BY <1>4, <1>5
  <2>5. Rests \subseteq R0 \cup {f}
    BY <1>4, <1>5, <1>6
  <2>6. R0 \cup {f} \subseteq Rests
    BY <1>5, <1>6, <2>1, <2>4
  <2>7. \A k \in DOMAIN u, m \in DOMAIN t : u[k].id # t[m].id
    BY <1>4, <1>5
  <2> QED
    BY <1>6, <2>1, <2>2, <2>3, <2>4, <2>5, <2>6, <2>7
<1>8. /\ f \in Followup /\ f.id \in Nat /\ f.id < numProbes /\ f.entry \in Ring!Places
      /\ f.entry[1] = BucketFor(f.id) /\ f.entry[2] <= Len(chain[f.entry[1]])
  BY <1>7, RestFacts
<1>9. PICK B, L, k0 : B = BucketFor(f.id) /\ L = Len(chain[B]) /\ k0 = f.entry[2]
  OBVIOUS
<1>10. /\ f.entry = <<B, k0>> /\ k0 \in 1 .. L /\ L \in Nat /\ P \in Ring!Candidates
       /\ k0 = L => nx = Ring!NoMore
       /\ k0 # L => /\ nx # Ring!NoMore /\ nx \in Ring!Places
                    /\ nx[1] = B /\ nx[2] = k0 + 1 /\ k0 + 1 <= L
  BY <1>1, <1>8, <1>9, NextFacts, BonczTypesNow
<1>11. P.probe = f.id /\ P.build = f.entry /\ P \in Ring!Pairs
  BY <1>1, <1>10 DEF Ring!Pair, Ring!Candidates
<1>12. P \notin Reported
  <2>1. InRest(P)
    BY <1>7, <1>9, <1>10, <1>11 DEF InRest
  <2> QED
    BY <1>10, <2>1, SameProbe DEF BonczInv, BonczOwes
<1>13. \A p \in Ring!Candidates : p.probe = f.id /\ p.build[2] = k0 => p = P
  <2> SUFFICES ASSUME NEW p \in Ring!Candidates, p.probe = f.id, p.build[2] = k0 PROVE p = P
    OBVIOUS
  <2>1. p.build = <<B, k0>> /\ p \in Ring!Pairs
    BY <1>9, CandidateFacts, BonczTypesNow
  <2>2. p = [probe |-> p.probe, build |-> p.build]
    BY <2>1 DEF Ring!Pairs
  <2> QED
    BY <1>1, <1>10, <2>1, <2>2 DEF Ring!Pair
<1>14. /\ found' \in Seq(Ring!Pairs) /\ Len(found') = Len(found) + 1
       /\ Reported' = Reported \cup {P} /\ FoundOnce'
  BY <1>2, <1>11, <1>12, Appended, BonczTypesNow DEF BonczInv
<1>15. /\ v \in Seq(Followup) /\ Len(v) \in Nat /\ Len(v) <= Len(u) + 1
       /\ Rests' = R0 \cup (IF nx = Ring!NoMore THEN {} ELSE {x})
       /\ \A k, m \in DOMAIN v : v[k].id = v[m].id => k = m
       /\ \A k \in DOMAIN v, m \in DOMAIN t : v[k].id # t[m].id
  <2>1. u \in Seq(Followup) /\ Len(u) \in Nat
    BY <1>3, BonczTypesNow
  <2>2. CASE nx = Ring!NoMore
    <3>1. v = u
      BY <1>2, <1>3, <2>2
    <3> QED
      BY <1>5, <1>6, <1>7, <2>1, <2>2, <3>1
  <2>3. CASE nx # Ring!NoMore
    <3>1. x \in Followup /\ x.id = f.id
      BY <1>1, <1>8, <1>10, <2>3 DEF Followup
    <3>2. v = Append(u, x)
      BY <1>2, <1>3, <2>3
    <3>3. /\ v \in Seq(Followup) /\ Len(v) = Len(u) + 1
          /\ \A k \in DOMAIN u : v[k] = u[k]
          /\ v[Len(u) + 1] = x
          /\ \A k \in DOMAIN v : k \in DOMAIN u \/ k = Len(u) + 1
          /\ {v[k] : k \in DOMAIN v} = {u[k] : k \in DOMAIN u} \cup {x}
      BY <2>1, <3>1, <3>2, AppendRest
    <3>4. \A k, m \in DOMAIN v : v[k].id = v[m].id => k = m
      BY <1>5, <1>7, <3>1, <3>3
    <3>5. \A k \in DOMAIN v, m \in DOMAIN t : v[k].id # t[m].id
      BY <1>7, <3>1, <3>3
    <3> QED
      BY <1>5, <1>6, <2>1, <2>3, <3>3, <3>4, <3>5
  <2> QED
    BY <2>2, <2>3
<1>16. Boncz!TypeOK'
  BY <1>2, <1>3, <1>4, <1>14, <1>15, BonczTypes, BonczTypesNow
<1>17. BetweenCalls'
  BY <1>2 DEF BonczInv, BetweenCalls
<1>18. BonczFits'
  <2>1. /\ Len(found) + Len(s) <= batchSize /\ Len(u) + Len(s) <= numProbes
        /\ Len(found) \in Nat /\ Len(u) \in Nat /\ batchSize \in Nat /\ numProbes \in Nat
    BY <1>3, BonczTypesNow DEF BonczInv, BonczFits
  <2> QED
    BY <1>2, <1>3, <1>4, <1>14, <1>15, <2>1 DEF BonczFits
<1>19. \A id : ~ NotCollected(id) /\ ~ NotCollected(id)'
  BY <1>2 DEF NotCollected
<1>20. RestsSound'
  <2>1. ASSUME NEW y \in Rests'
        PROVE  /\ y.id < numProbes
               /\ y.entry[1] = Boncz!bucketOf(Boncz!hashOf(y.id))'
               /\ y.entry[2] <= Len(chain[y.entry[1]])
    <3>1. CASE y \in R0
      BY <1>2, <1>7, <3>1, RestFacts, SameProbe, SameVectorBoncz
    <3>2. CASE y = x /\ nx # Ring!NoMore
      <4>1. y.id = f.id /\ y.entry = nx
        BY <1>1, <3>2
      <4> QED
        BY <1>2, <1>8, <1>9, <1>10, <3>2, <4>1, SameProbe, SameVectorBoncz
    <3> QED
      BY <1>15, <3>1, <3>2
  <2> QED
    BY <1>2, <1>3, <1>7, <1>15, <1>19, <2>1 DEF RestsSound
<1>21. BonczOwes'
  <2>1. Reported' \subseteq Boncz!Candidates
    BY <1>10, <1>14, SameProbe DEF BonczInv, BonczOwes
  <2>2. ASSUME NEW p \in Boncz!Candidates
        PROVE  p \in Reported' <=> ~ InRest(p)'
    <3>1. p \in Ring!Candidates /\ p.build[2] \in 1 .. Len(chain[BucketFor(p.probe)])
      BY SameProbe, CandidateFacts, BonczTypesNow
    <3>2. p \in Reported <=> ~ InRest(p)
      BY <1>19 DEF BonczInv, BonczOwes
    <3>3. CASE p.probe # f.id
      <4>1. InRest(p)' <=> InRest(p)
        BY <1>1, <1>7, <1>15, <3>3 DEF InRest
      <4>2. p # P
        BY <1>11, <3>3
      <4> QED
        BY <1>14, <3>2, <4>1, <4>2
    <3>4. CASE p.probe = f.id
      <4>1. p.build[2] \in 1 .. L /\ k0 \in Nat /\ L \in Nat
        BY <1>9, <1>10, <3>1, <3>4
      <4>2. InRest(p) <=> k0 <= p.build[2]
        BY <1>7, <1>9, <3>4 DEF InRest
      <4>3. InRest(p)' <=> k0 + 1 <= p.build[2]
        <5>1. CASE nx = Ring!NoMore
          <6>1. k0 = L
            BY <1>10, <5>1
          <6>2. ~ InRest(p)'
            BY <1>7, <1>15, <3>4, <5>1 DEF InRest
          <6> QED
            BY <4>1, <6>1, <6>2
        <5>2. CASE nx # Ring!NoMore
          <6>1. x.id = f.id /\ x.entry[2] = k0 + 1
            BY <1>1, <1>10, <5>2
          <6> QED
            BY <1>7, <1>15, <3>4, <5>2, <6>1 DEF InRest
        <5> QED
          BY <5>1, <5>2
      <4>4. p = P <=> p.build[2] = k0
        BY <1>9, <1>11, <1>13, <3>1, <3>4
      <4> QED
        BY <1>14, <3>2, <4>1, <4>2, <4>3, <4>4
    <3> QED
      BY <3>3, <3>4
  <2> QED
    BY <1>2, <1>19, <2>1, <2>2, SameVectorBoncz DEF BonczOwes
<1> QED
  BY <1>14, <1>16, <1>17, <1>18, <1>20, <1>21 DEF BonczInv

-----------------------------------------------------------------------------
(* The module that puts the build and the join functions side by side.      *)

LEMMA InitMCInv == MCInit => MCInv
<1> SUFFICES ASSUME MCInit PROVE MCInv
  OBVIOUS
<1>1. /\ phase \in {"build", "ring", "boncz"}
      /\ chain \in Ring!Tables /\ probeHashes = <<>> /\ nextProbe = 0 /\ numProbes = 0
      /\ probePc = "next" /\ i = 0 /\ found = <<>> /\ matches = <<>> /\ delivered = {}
      /\ lanes \in Lanes /\ followupRing = Ring!NoFollowups
      /\ followup = 0 /\ followupWrite = 0 /\ fitting = 0 /\ more = FALSE
      /\ followups = <<>> /\ round = <<>>
  BY DEF MCInit, Ring!Init, Ring!InitProbe, Boncz!Init
<1>2. Apart
  BY <1>1 DEF Apart
<1>3. /\ batchSize \in Nat \ {0} /\ ringSize \in Nat /\ ringSize > batchSize
      /\ 0 \in 0 .. batchSize /\ Len(found) = 0 /\ Len(round) = 0 /\ Len(followups) = 0
  BY <1>1, Sizes
<1>4. Ring!ProbeTypeOK
  <2>1. probeHashes \in [1 .. 0 -> Hashes] /\ found \in Seq(Ring!Pairs) /\ matches \in Seq(Ring!Pairs)
    BY <1>1
  <2> QED
    BY <1>1, <1>3, <2>1 DEF Ring!ProbeTypeOK
<1>5. Ring!Candidates = {} /\ Ring!JoinResult = {} /\ Reported = {}
  <2>1. Ring!Candidates = {}
    <3> SUFFICES ASSUME NEW p \in Ring!Candidates PROVE FALSE
      OBVIOUS
    <3>1. p.probe \in Nat /\ p.probe < numProbes
      BY <1>4, CandidateFacts
    <3> QED
      BY <1>1, <3>1
  <2> QED
    BY <1>1, <2>1 DEF Ring!JoinResult, Reported
<1>6. BetweenCalls /\ FoundOnce
  BY <1>1 DEF BetweenCalls, FoundOnce
<1>7. RingInv
  <2>1. Ring!TypeOK
    <3>1. followupRing \in [Slots -> [id : Ring!ProbeIds, entry : Ring!Places \cup {Ring!NoMore}]]
      BY <1>1, <1>3 DEF Ring!NoFollowups, Ring!ProbeIds, Slots
    <3>2. 0 \in Slots
      BY RingEmpty
    <3> QED
      BY <1>1, <1>3, <1>4, <3>1, <3>2 DEF Ring!TypeOK, Slots
  <2>2. Ring!Waiting = {} /\ Ring!nrFollowups = 0
    BY <1>1, WaitingIs, RingEmpty
  <2>3. RingFits
    BY <1>1, <1>3, <2>2 DEF RingFits
  <2>4. SlotsSound /\ RingOwes
    BY <1>5, <2>2 DEF SlotsSound, RingOwes
  <2> QED
    BY <1>6, <2>1, <2>3, <2>4 DEF RingInv
<1>8. BonczInv
  <2>1. Boncz!TypeOK
    <3>1. followups \in Seq(Followup) /\ round \in Seq(Followup)
      BY <1>1
    <3> QED
      BY <1>1, <1>4, <3>1, SameProbe DEF Boncz!TypeOK, Followup
  <2>2. Rests = {}
    BY <1>1, NoRests
  <2>3. BonczFits
    BY <1>1, <1>3 DEF BonczFits
  <2>4. RestsSound
    BY <1>1, <2>2 DEF RestsSound
  <2>5. BonczOwes
    BY <1>5, SameProbe DEF BonczOwes
  <2> QED
    BY <1>6, <2>1, <2>3, <2>4, <2>5 DEF BonczInv
<1> QED
  BY <1>2, <1>7, <1>8 DEF MCInv

\* Every step of a join function with a ring.
LEMMA RingStep ==
  ASSUME RingInv, Ring!Next
  PROVE  RingInv'
<1>1. CASE Ring!Refill
  BY <1>1, RefillRing
<1>2. CASE Ring!EndOfStream
  BY <1>2, EndRing
<1>3. CASE Ring!Step
  <2>1. CASE Ring!CallJoin
    BY <2>1, CallRing
  <2>2. CASE Ring!FirstPass
    BY <2>2, FirstPassRing
  <2>3. CASE Ring!FirstPassDone
    BY <2>3, FirstPassDoneRing
  <2>4. CASE Ring!StartRound
    BY <2>4, StartRoundRing
  <2>5. CASE Ring!Follow
    BY <2>5, FollowRing
  <2>6. CASE Ring!EndRound
    BY <2>6, EndRoundRing
  <2>7. CASE Ring!ReturnToContinue
    BY <2>7, ContinueRing
  <2>8. CASE Ring!ReturnLast
    BY <2>8, LastRing
  <2> QED
    BY <1>3, <2>1, <2>2, <2>3, <2>4, <2>5, <2>6, <2>7, <2>8 DEF Ring!Step
<1>4. CASE Ring!Finished
  <2>1. UNCHANGED <<probeVars, ringVars>>
    BY <1>4 DEF Ring!Finished, Ring!vars, probeVars, ringVars
  <2> QED
    BY <2>1, RingUnchanged
<1> QED
  BY <1>1, <1>2, <1>3, <1>4 DEF Ring!Next

\* Every step of joinBoncz.
LEMMA BonczStep ==
  ASSUME BonczInv, Boncz!Next
  PROVE  BonczInv'
<1>1. CASE Boncz!Refill
  BY <1>1, RefillBoncz
<1>2. CASE Boncz!EndOfStream
  BY <1>2, EndBoncz
<1>3. CASE Boncz!Step
  <2>1. CASE Boncz!CallJoin
    BY <2>1, CallBoncz
  <2>2. CASE Boncz!FirstPass
    BY <2>2, FirstPassBoncz
  <2>3. CASE Boncz!ReturnNothing \/ Boncz!ReturnLast \/ Boncz!ReturnToContinue
    BY <2>3, ReturnsBoncz
  <2>4. CASE Boncz!FirstPassDone \/ Boncz!NextRound
    BY <2>4, GoOnBoncz
  <2>5. CASE Boncz!StartRound
    BY <2>5, StartRoundBoncz
  <2>6. CASE Boncz!Follow
    BY <2>6, FollowBoncz
  <2> QED
    BY <1>3, <2>1, <2>2, <2>3, <2>4, <2>5, <2>6 DEF Boncz!Step
<1>4. CASE Boncz!Finished
  <2>1. UNCHANGED <<probeVars, bonczVars>>
    BY <1>4 DEF Boncz!Finished, Boncz!vars, probeVars, bonczVars
  <2> QED
    BY <2>1, BonczUnchanged
<1> QED
  BY <1>1, <1>2, <1>3, <1>4 DEF Boncz!Next

LEMMA StepMCInv == MCInv /\ [MCNext]_allVars => MCInv'
<1> SUFFICES ASSUME MCInv, [MCNext]_allVars PROVE MCInv'
  OBVIOUS
<1>1. CASE Building(Next) \/ UNCHANGED allVars
  <2>1. UNCHANGED <<phase, probeVars, ringVars, bonczVars>>
    BY <1>1 DEF Building, allVars
  <2>2. RingInv => RingInv'
    BY <2>1, RingUnchanged
  <2>3. BonczInv => BonczInv'
    BY <2>1, BonczUnchanged
  <2>4. Apart'
    BY <2>1 DEF MCInv, Apart, probeVars, ringVars, bonczVars
  <2> QED
    BY <2>1, <2>2, <2>3, <2>4 DEF MCInv
<1>2. CASE WithRing(Ring!Next)
  <2>1. phase = "ring" /\ phase' = "ring" /\ Ring!Next /\ UNCHANGED bonczVars
    BY <1>2 DEF WithRing
  <2>2. RingInv'
    BY <2>1, RingStep DEF MCInv
  <2>3. Apart'
    BY <2>1 DEF MCInv, Apart, bonczVars
  <2> QED
    BY <2>1, <2>2, <2>3 DEF MCInv
<1>3. CASE InPlace(Boncz!Next)
  <2>1. phase = "boncz" /\ phase' = "boncz" /\ Boncz!Next /\ UNCHANGED ringVars
    BY <1>3 DEF InPlace
  <2>2. BonczInv'
    BY <2>1, BonczStep DEF MCInv
  <2>3. Apart'
    BY <2>1 DEF MCInv, Apart, ringVars
  <2> QED
    BY <2>1, <2>2, <2>3 DEF MCInv
<1> QED
  BY <1>1, <1>2, <1>3 DEF MCNext

\* The inductive invariant of the build, which the join functions leave alone.
LEMMA StepTable == IInv /\ [MCNext]_allVars => IInv'
<1> SUFFICES ASSUME IInv, [MCNext]_allVars PROVE IInv'
  OBVIOUS
<1>1. CASE Building(Next)
  BY <1>1, FetchIInv, LinkIInv, PushIInv, PushFailsIInv, StutterIInv DEF Building, Next, Step, Finished
<1>2. CASE WithRing(Ring!Next) \/ InPlace(Boncz!Next) \/ UNCHANGED allVars
  <2>1. UNCHANGED vars
    BY <1>2 DEF WithRing, InPlace, allVars
  <2> QED
    BY <2>1, StutterIInv
<1> QED
  BY <1>1, <1>2 DEF MCNext

LEMMA MCInvariance == MCSpec => [](MCInv /\ IInv)
<1>1. MCInit => MCInv /\ IInv
  BY InitMCInv, InitIInv DEF MCInit
<1>2. MCInv /\ IInv /\ [MCNext]_allVars => MCInv' /\ IInv'
  BY StepMCInv, StepTable
<1> QED
  BY <1>1, <1>2, PTL DEF MCSpec

-----------------------------------------------------------------------------
(* What the runs check of every behaviour, for every hash table.            *)

\* The number of followups that the code computes from the two positions is
\* the number of slots in use.
LEMMA InUse ==
  ASSUME NEW f \in Slots, NEW w \in Slots
  PROVE  Cardinality(Between(f, w)) = Distance(f, w)
<1>1. ringSize \in Nat /\ f \in Nat /\ w \in Nat /\ f <= ringSize - 1 /\ w <= ringSize - 1
  BY Sizes DEF Slots
<1>2. CASE f <= w
  <2>1. /\ f \in Int /\ w - 1 \in Int /\ (f > w - 1 <=> w = f)
        /\ (w - 1) - f + 1 = w - f
    BY <1>1, <1>2
  <2>2. Cardinality(f .. w - 1) = IF f > w - 1 THEN 0 ELSE (w - 1) - f + 1
    BY <2>1, FS_Interval
  <2> QED
    BY <1>1, <1>2, <2>1, <2>2 DEF Between, Distance
<1>3. CASE f > w
  <2> DEFINE A == f .. ringSize - 1
             B == 0 .. w - 1
  <2>1. /\ f \in Int /\ ringSize - 1 \in Int /\ ~ f > ringSize - 1
        /\ (ringSize - 1) - f + 1 = ringSize - f
    BY <1>1
  <2>2. IsFiniteSet(A) /\ Cardinality(A) = ringSize - f
    BY <2>1, FS_Interval
  <2>3. /\ 0 \in Int /\ w - 1 \in Int /\ (0 > w - 1 <=> w = 0)
        /\ (w - 1) - 0 + 1 = w
    BY <1>1
  <2>4. IsFiniteSet(B) /\ Cardinality(B) = w
    BY <2>3, FS_Interval
  <2>5. A \cap B = {}
    BY <1>1, <1>3
  <2> HIDE DEF A, B
  <2>6. Cardinality(A \cup B) = Cardinality(A) + Cardinality(B) - Cardinality(A \cap B)
    BY <2>2, <2>4, FS_Union
  <2>7. Cardinality(A \cup B) = ringSize - f + w
    BY <1>1, <2>2, <2>4, <2>5, <2>6, FS_EmptySet
  <2> QED
    BY <1>1, <1>3, <2>7 DEF A, B, Between, Distance
<1> QED
  BY <1>1, <1>2, <1>3

\* Tables, probe vectors, buffers and followups keep their types, in the build
\* and in every join function.
THEOREM TypesRight == MCSpec => []TypesOK
<1>1. MCInv /\ IInv => TypesOK
  BY DEF MCInv, IInv, TypesOK, RingInv, BonczInv
<1> QED
  BY <1>1, MCInvariance, PTL

\* Neither the output buffers nor the ring of followups ever overrun, whatever
\* the batch size, the width of the first pass, the table and the probes, and
\* although the code writes a followup without looking at the space.
THEOREM BuffersRight == MCSpec => []BuffersHold
<1>1. ASSUME MCInv PROVE BuffersHold
  <2>1. CASE phase = "ring"
    <3>1. RingInv /\ round = <<>> /\ followups = <<>>
      BY <1>1, <2>1 DEF MCInv, Apart
    <3>2. Len(round) = 0 /\ Len(followups) = 0
      BY <3>1
    <3>3. /\ Len(found) \in Nat /\ numProbes \in Nat /\ fitting \in Nat /\ batchSize \in Nat
          /\ Len(found) + fitting <= batchSize /\ Ring!nrFollowups <= numProbes
      BY <3>1, RingTypesNow DEF RingInv, RingFits
    <3>4. Ring!Cardinality(Ring!Waiting) = Ring!nrFollowups
      <4>1. followup \in Slots /\ followupWrite \in Slots
        BY <3>1, RingTypesNow
      <4> QED
        BY <4>1, InUse, WaitingIs, SameCount
    <3>5. \A s, r \in Ring!Waiting : followupRing[s].id = followupRing[r].id => s = r
      BY <3>1 DEF RingInv, SlotsSound
    <3> QED
      BY <3>2, <3>3, <3>4, <3>5 DEF BuffersHold, Ring!BuffersHold, Boncz!RoundFits
  <2>2. CASE phase # "ring"
    <3>1. followup = 0 /\ followupWrite = 0 /\ fitting = 0
      BY <1>1, <2>2 DEF MCInv, Apart
    <3>2. Ring!Waiting = {} /\ Ring!Cardinality(Ring!Waiting) = 0
      BY <3>1, WaitingIs, RingEmpty, SameCount, FS_EmptySet
    <3>3. /\ Len(found) \in Nat /\ numProbes \in Nat /\ Len(round) \in Nat /\ Len(followups) \in Nat
          /\ Len(found) + Len(round) <= batchSize /\ Len(followups) + Len(round) <= numProbes
      <4>1. CASE phase = "build"
        <5>1. found = <<>> /\ numProbes = 0 /\ round = <<>> /\ followups = <<>>
          BY <1>1, <4>1 DEF MCInv, Apart
        <5> QED
          BY <5>1, Sizes
      <4>2. CASE phase = "boncz"
        <5>1. BonczInv
          BY <1>1, <4>2 DEF MCInv
        <5> QED
          BY <5>1, BonczTypesNow DEF BonczInv, BonczFits
      <4> QED
        BY <1>1, <2>2, <4>1, <4>2 DEF MCInv, Apart
    <3> QED
      BY <3>1, <3>2, <3>3, Sizes DEF BuffersHold, Ring!BuffersHold, Boncz!RoundFits
  <2> QED
    BY <2>1, <2>2
<1> QED
  BY <1>1, MCInvariance, PTL

\* The call that returns hands out what it found, of what was owed.
LEMMA Returned ==
  ASSUME NEW J, Reported \subseteq J, FoundOnce, found \in Seq(Ring!Pairs), Len(found) <= batchSize,
         Owed = J \ delivered, Owed' = J \ Reported, matches' = found
  PROVE  Promise!Report
<1> DEFINE D == {found[k] : k \in DOMAIN found}
<1>1. Cardinality(D) = Len(found)
  BY CountSequence DEF FoundOnce
<1>2. D \in SUBSET Owed /\ Owed' = Owed \ D
  BY DEF Reported, FoundOnce
<1>3. Promise!Cardinality(D) = Len(found)
  BY <1>1, SameCount
<1>4. {matches'[k] : k \in DOMAIN matches'} = D
  OBVIOUS
<1> HIDE DEF D
<1> QED
  BY <1>2, <1>3, <1>4 DEF Promise!Report

\* When the next probe vector is fetched, nothing of the last one is owed.
LEMMA RingPaid ==
  ASSUME RingInv, probePc = "next", nextProbe >= numProbes
  PROVE  Ring!JoinResult \ delivered = {}
<1>1. found = <<>> /\ followup = 0 /\ followupWrite = 0
  BY DEF RingInv, BetweenCalls, RingFits
<1>2. Ring!Waiting = {} /\ Reported = delivered
  BY <1>1, WaitingIs, RingEmpty DEF Reported
<1>3. ~ nextProbe < numProbes
  BY RingTypesNow
<1>4. \A p : ~ Unseen(p.probe) /\ ~ Queued(p)
  BY <1>2, <1>3 DEF Unseen, Queued
<1> QED
  BY <1>2, <1>4 DEF RingInv, RingOwes

LEMMA BonczPaid ==
  ASSUME BonczInv, probePc = "next", nextProbe >= numProbes
  PROVE  Boncz!Candidates \ delivered = {}
<1>1. found = <<>> /\ followups = <<>> /\ round = <<>>
  BY DEF BonczInv, BetweenCalls, BonczFits
<1>2. Rests = {} /\ Reported = delivered
  BY <1>1, NoRests DEF Reported
<1>3. ~ nextProbe < numProbes
  BY BonczTypesNow
<1>4. \A p : ~ NotCollected(p.probe) /\ ~ InRest(p)
  BY <1>2, <1>3 DEF NotCollected, InRest
<1> QED
  BY <1>2, <1>4 DEF BonczInv, BonczOwes

\* Every step of a join function with a ring is one that is promised.
LEMMA RingKeeps ==
  ASSUME phase = "ring", phase' = "ring", RingInv, Ring!Next
  PROVE  [Promise!Next]_(Promise!vars)
<1>1. Owed = Ring!JoinResult \ delivered /\ Owed' = Ring!JoinResult' \ delivered'
  BY DEF Owed
<1>2. CASE Ring!Refill \/ Ring!EndOfStream
  <2>1. /\ probePc = "next" /\ nextProbe >= numProbes /\ matches' = <<>>
    BY <1>2 DEF Ring!Refill, Ring!EndOfStream, Ring!RefillProbe, Ring!EndProbe
  <2>2. Owed = {}
    BY <1>1, <2>1, RingPaid
  <2>3. Ring!Pairs' = Ring!Pairs /\ Ring!JoinResult' \subseteq Ring!Pairs'
    BY DEF Ring!JoinResult, Ring!Candidates, Ring!Pairs, Ring!ProbeIds, Ring!Places, Ring!Buckets
  <2>4. Owed' \in SUBSET Ring!Pairs
    BY <1>1, <2>3
  <2> QED
    BY <2>1, <2>2, <2>4 DEF Promise!Next, Promise!Fetch
<1>3. CASE Ring!ReturnToContinue \/ Ring!ReturnLast
  <2>1. matches' = found /\ delivered' = Reported /\ UNCHANGED <<chain, probeHashes>>
    BY <1>3 DEF Ring!ReturnToContinue, Ring!ReturnLast, Ring!Return, Reported
  <2>2. Owed' = Ring!JoinResult \ Reported
    BY <1>1, <2>1, SameVector
  <2>3. Reported \subseteq Ring!JoinResult /\ FoundOnce /\ found \in Seq(Ring!Pairs)
    BY RingTypesNow DEF RingInv, RingOwes
  <2>4. Len(found) <= batchSize
    <3>1. Len(found) \in Nat /\ fitting \in Nat /\ batchSize \in Nat
      BY RingTypesNow
    <3> QED
      BY <3>1 DEF RingInv, RingFits
  <2>5. Promise!Report
    BY <1>1, <2>1, <2>2, <2>3, <2>4, Returned
  <2> QED
    BY <2>5 DEF Promise!Next
<1>4. CASE Ring!CallJoin \/ Ring!FirstPass \/ Ring!FirstPassDone \/ Ring!StartRound \/ Ring!Follow
           \/ Ring!EndRound \/ Ring!Finished
  <2>1. UNCHANGED <<chain, probeHashes, matches, delivered>>
    BY <1>4 DEF Ring!CallJoin, Ring!Call, Ring!FirstPass, Ring!FirstPassDone, Ring!StartRound,
       Ring!Follow, Ring!EndRound, Ring!Finished, Ring!vars
  <2>2. Owed' = Owed
    BY <1>1, <2>1, SameVector
  <2> QED
    BY <2>1, <2>2 DEF Promise!vars
<1> QED
  BY <1>2, <1>3, <1>4 DEF Ring!Next, Ring!Step

\* So is every step of joinBoncz.
LEMMA BonczKeeps ==
  ASSUME phase = "boncz", phase' = "boncz", BonczInv, Boncz!Next
  PROVE  [Promise!Next]_(Promise!vars)
<1>1. Owed = Boncz!Candidates \ delivered /\ Owed' = Boncz!Candidates' \ delivered'
  BY DEF Owed
<1>2. CASE Boncz!Refill \/ Boncz!EndOfStream
  <2>1. /\ probePc = "next" /\ nextProbe >= numProbes /\ matches' = <<>>
    BY <1>2 DEF Boncz!Refill, Boncz!EndOfStream, Boncz!RefillProbe, Boncz!EndProbe
  <2>2. Owed = {}
    BY <1>1, <2>1, BonczPaid
  <2>3. Boncz!Pairs' = Boncz!Pairs /\ Boncz!Candidates' \subseteq Boncz!Pairs'
    BY DEF Boncz!Candidates, Boncz!Pairs, Boncz!ProbeIds, Boncz!Places, Boncz!Buckets
  <2>4. Owed' \in SUBSET Ring!Pairs
    BY <1>1, <2>3, SameProbe
  <2> QED
    BY <2>1, <2>2, <2>4 DEF Promise!Next, Promise!Fetch
<1>3. CASE Boncz!ReturnNothing \/ Boncz!ReturnToContinue \/ Boncz!ReturnLast
  <2>1. matches' = found /\ delivered' = Reported /\ UNCHANGED <<chain, probeHashes>>
    BY <1>3 DEF Boncz!ReturnNothing, Boncz!ReturnToContinue, Boncz!ReturnLast, Boncz!Return, Reported
  <2>2. Owed' = Boncz!Candidates \ Reported
    BY <1>1, <2>1, SameVectorBoncz
  <2>3. Reported \subseteq Boncz!Candidates /\ FoundOnce /\ found \in Seq(Ring!Pairs)
    BY BonczTypesNow DEF BonczInv, BonczOwes
  <2>4. Len(found) <= batchSize
    <3>1. Len(found) \in Nat /\ Len(round) \in Nat /\ batchSize \in Nat
      BY BonczTypesNow
    <3> QED
      BY <3>1 DEF BonczInv, BonczFits
  <2>5. Promise!Report
    BY <1>1, <2>1, <2>2, <2>3, <2>4, Returned
  <2> QED
    BY <2>5 DEF Promise!Next
<1>4. CASE Boncz!CallJoin \/ Boncz!FirstPass \/ Boncz!FirstPassDone \/ Boncz!StartRound \/ Boncz!Follow
           \/ Boncz!NextRound \/ Boncz!Finished
  <2>1. UNCHANGED <<chain, probeHashes, matches, delivered>>
    BY <1>4 DEF Boncz!CallJoin, Boncz!Call, Boncz!FirstPass, Boncz!FirstPassDone, Boncz!StartRound,
       Boncz!Follow, Boncz!NextRound, Boncz!Finished, Boncz!vars
  <2>2. Owed' = Owed
    BY <1>1, <2>1, SameVectorBoncz
  <2> QED
    BY <2>1, <2>2 DEF Promise!vars
<1> QED
  BY <1>2, <1>3, <1>4 DEF Boncz!Next, Boncz!Step

\* However its output is cut into vectors, a join function returns each pair
\* of the join result of a probe vector once and nothing else, never more than
\* the buffers hold, and fetches the next probe vector only after that: it
\* implements JoinCursor.
THEOREM PairsRight == MCSpec => PairsOnce
<1>1. ASSUME MCInit PROVE Promise!Init
  <2>1. probeHashes = <<>> /\ matches = <<>> /\ MCInv
    BY <1>1, InitMCInv DEF MCInit, Ring!Init, Ring!InitProbe
  <2>2. Ring!Candidates = {} /\ Ring!JoinResult = {}
    BY <2>1 DEF Ring!Candidates, Ring!JoinResult, Ring!Pairs, Ring!ProbeIds
  <2> QED
    BY <2>1, <2>2, SameProbe DEF Promise!Init, Owed
<1>2. ASSUME MCInv, [MCNext]_allVars PROVE [Promise!Next]_(Promise!vars)
  <2>1. CASE Building(Next) \/ UNCHANGED allVars
    <3>1. UNCHANGED <<phase, chain, probeHashes, matches, delivered>>
      BY <2>1 DEF Building, allVars, probeVars
    <3>2. Owed' = Owed
      BY <3>1, SameVector, SameVectorBoncz DEF Owed
    <3> QED
      BY <3>1, <3>2 DEF Promise!vars
  <2>2. CASE WithRing(Ring!Next)
    BY <1>2, <2>2, RingKeeps DEF WithRing, MCInv
  <2>3. CASE InPlace(Boncz!Next)
    BY <1>2, <2>3, BonczKeeps DEF InPlace, MCInv
  <2> QED
    BY <1>2, <2>1, <2>2, <2>3 DEF MCNext
<1> QED
  BY <1>1, <1>2, MCInvariance, PTL DEF MCSpec, PairsOnce, Promise!Spec

=============================================================================
