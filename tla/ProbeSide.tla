----------------------------- MODULE ProbeSide ------------------------------
(***************************************************************************)
(* What the join functions of vectorwise::Hashjoin share                   *)
(* (src/vectorwise/Operators.cpp): the hash table they probe, the probe    *)
(* vector and the lookup loop of Hashjoin::next around them.               *)
(*                                                                         *)
(* The table is complete and no longer changes: a bucket is the sequence   *)
(* of the hashes in its chain, an entry its place <<bucket, k>>.  A probe  *)
(* vector is the sequence of the hashes of its tuples.  The functions with *)
(* a selection vector report probeSel[i] where the others report i; that   *)
(* renames the probe ids and is left out.  Key equality filters the result *)
(* vector afterwards.                                                      *)
(***************************************************************************)
EXTENDS Integers, Sequences, FiniteSets

CONSTANTS
  Hashes,      \* the hash values
  capacity,    \* the buckets of the table
  MaxChain,    \* bound: the entries of a bucket
  batchSize    \* entries of the output buffers, the vector size of the query

BatchAssumption == batchSize \in Nat \ {0}
CapacityAssumption == Hashes \subseteq Nat /\ capacity \in Nat \ {0}
ChainAssumption == MaxChain \in Nat

VARIABLES
  chain,          \* chain[b]: the hashes of bucket b, in chain order
  probeHashes,    \* the hashes of the current probe vector
  nextProbe,      \* cont.nextProbe
  numProbes,      \* cont.numProbes
  pc,             \* "next": between two join calls; "done": end of stream
  i,              \* the loop variable of the join function
  found,          \* buildMatches and probeMatches so far, a sequence of pairs
  matches,        \* what the last join call returned
  delivered       \* the pairs returned for this probe vector (history)

Buckets == 0 .. capacity - 1
bucketOf(h) == h % capacity   \* hash & mask
Places == Buckets \X (1 .. MaxChain)
NoMore == <<>>
ProbeIds == 0 .. batchSize - 1
Pairs == [probe : ProbeIds, build : Places]

entryHash(e) == chain[e[1]][e[2]]
next(e) == IF e[2] < Len(chain[e[1]]) THEN <<e[1], e[2] + 1>> ELSE NoMore

\* The tag filter lets a chain pass that has the hash; a chain without it may
\* pass as well (another hash with its tag) and is taken to do so.
find_chain_tagged(h) == IF chain[bucketOf(h)] = <<>> THEN NoMore ELSE <<bucketOf(h), 1>>

hashOf(id) == probeHashes[id + 1]

Pair(id, e) == [probe |-> id, build |-> e]

\* The entries in the chain of each probe tuple, and those with its hash: the
\* join result of the current probe vector, by its definition.
Candidates ==
  {p \in Pairs : /\ p.probe < Len(probeHashes)
                 /\ p.build[1] = bucketOf(hashOf(p.probe))
                 /\ p.build[2] <= Len(chain[p.build[1]])}

JoinResult == {p \in Candidates : entryHash(p.build) = hashOf(p.probe)}

Tables ==
  {c \in [Buckets -> UNION {[1 .. n -> Hashes] : n \in 0 .. MaxChain}] :
     \A b \in Buckets : \A k \in DOMAIN c[b] : bucketOf(c[b][k]) = b}

InitProbe ==
  /\ chain \in Tables
  /\ probeHashes = <<>>
  /\ nextProbe = 0 /\ numProbes = 0
  /\ pc = "next"
  /\ i = 0
  /\ found = <<>> /\ matches = <<>> /\ delivered = {}

\* cont.nextProbe >= cont.numProbes: numProbes = right->next(), a vector of at
\* most batchSize tuples; probeHash.evaluate.  The last result was consumed.
RefillProbe ==
  /\ pc = "next"
  /\ nextProbe >= numProbes
  /\ \E n \in 1 .. batchSize : \E hs \in [1 .. n -> Hashes] :
       /\ probeHashes' = hs
       /\ numProbes' = n
  /\ nextProbe' = 0
  /\ delivered' = {} /\ matches' = <<>>
  /\ UNCHANGED <<chain, pc, i, found>>

\* cont.numProbes == EndOfStream: next() returns EndOfStream.
EndProbe ==
  /\ pc = "next"
  /\ nextProbe >= numProbes
  /\ numProbes' = 0 /\ nextProbe' = 0
  /\ probeHashes' = <<>>
  /\ delivered' = {} /\ matches' = <<>>
  /\ pc' = "done"
  /\ UNCHANGED <<chain, i, found>>

\* n = join(): the call begins in state first.
Call(first) ==
  /\ pc = "next"
  /\ nextProbe < numProbes
  /\ pc' = first
  /\ UNCHANGED <<chain, probeHashes, nextProbe, numProbes, found, matches, delivered>>

\* The call ends, and with it its local variables; nextProbe is saved.
Return(newNextProbe) ==
  /\ matches' = found
  /\ delivered' = delivered \cup {found[k] : k \in DOMAIN found}
  /\ nextProbe' = newNextProbe
  /\ found' = <<>> /\ i' = 0
  /\ pc' = "next"
  /\ UNCHANGED <<chain, probeHashes, numProbes>>

-----------------------------------------------------------------------------

ProbeTypeOK ==
  /\ chain \in Tables
  /\ numProbes \in 0 .. batchSize /\ nextProbe \in 0 .. batchSize
  /\ probeHashes \in [1 .. numProbes -> Hashes]
  /\ i \in 0 .. batchSize
  /\ found \in Seq(Pairs) /\ matches \in Seq(Pairs)
  /\ delivered \in SUBSET Pairs

=============================================================================
