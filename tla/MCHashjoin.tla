----------------------------- MODULE MCHashjoin -----------------------------
(***************************************************************************)
(* TLC instance of the hash table of a Hashjoin: workers build it          *)
(* (TaggedHashmap), or one of them probes a finished one with the join     *)
(* function that Hashjoin::join points to: one with a ring of followups    *)
(* (JoinProbe) or joinBoncz (JoinBoncz).  The barrier between the two is   *)
(* in HashJoinBuild.                                                       *)
(***************************************************************************)
EXTENDS TaggedHashmap, TLC

CONSTANTS
  t1, t2, e1, e2, e3, e4, e5,
  Hashes, MaxChain, batchSize,  \* the finished table and the probes
  Lanes, ringSize

\* In bucket 0 two entries with the same hash, one with another hash but the
\* same tag and one with another tag; a fifth entry alone in bucket 1.
MCEntries == {e1, e2, e3, e4, e5}
MCowner == (e1 :> t1 @@ e2 :> t2 @@ e3 :> t2 @@ e4 :> t1 @@ e5 :> t1)
MChash == (e1 :> 0 @@ e2 :> 0 @@ e3 :> 2 @@ e4 :> 4 @@ e5 :> 5)

VARIABLES
  phase,   \* "build", "ring" or "boncz": what this behaviour shows
  chain, probeHashes, nextProbe, numProbes, probePc, i, found, matches, delivered,
  lanes, followupRing, followup, followupWrite, fitting, more,  \* of the ring
  followups, round                                              \* of joinBoncz

probeVars == <<chain, probeHashes, nextProbe, numProbes, probePc, i, found, matches, delivered>>
ringVars == <<lanes, followupRing, followup, followupWrite, fitting, more>>
bonczVars == <<followups, round>>
allVars == <<phase, vars, probeVars, ringVars, bonczVars>>

Ring == INSTANCE JoinProbe WITH pc <- probePc
Boncz == INSTANCE JoinBoncz WITH pc <- probePc

ASSUME TableAssumption == Ring!CapacityAssumption /\ Ring!ChainAssumption
ASSUME BuffersAssumption == Ring!BatchAssumption /\ Ring!LanesAssumption /\ Ring!RingAssumption

MCInit ==
  /\ phase \in {"build", "ring", "boncz"}
  /\ Init /\ Ring!Init /\ Boncz!Init
  /\ phase # "ring" => lanes = 1
  /\ phase = "build" => chain = [b \in Buckets |-> <<>>]

Building(A) == phase = "build" /\ A /\ UNCHANGED <<phase, probeVars, ringVars, bonczVars>>
WithRing(A) == phase = "ring" /\ A /\ UNCHANGED <<phase, vars, bonczVars>>
InPlace(A) == phase = "boncz" /\ A /\ UNCHANGED <<phase, vars, ringVars>>

MCNext == Building(Next) \/ WithRing(Ring!Next) \/ InPlace(Boncz!Next)

\* Builders are OS threads.  The join function is sequential code and runs on;
\* its caller keeps calling.
MCSpec ==
  /\ MCInit /\ [][MCNext]_allVars
  /\ \A t \in Threads : WF_allVars(Building(Step(t)))
  /\ WF_allVars(WithRing(Ring!Step))
  /\ WF_allVars(InPlace(Boncz!Step))

-----------------------------------------------------------------------------

TypesOK ==
  /\ TypeOK
  /\ phase = "ring" => Ring!TypeOK
  /\ phase = "boncz" => Boncz!TypeOK

\* Neither the output buffers nor the ring of followups overrun, although a
\* followup is written without looking at the space that is left; nor does a
\* round of joinBoncz, whose writes do not look at it either and whose
\* compaction never overtakes the followups it has still to read.
BuffersHold == Ring!BuffersHold /\ Boncz!RoundFits

\* What the function still owes for the current probe vector.
Owed == (IF phase = "ring" THEN Ring!JoinResult ELSE Boncz!Candidates) \ delivered

Promise == INSTANCE JoinCursor WITH due <- Owed, Pairs <- Ring!Pairs

\* However its output is cut into vectors, the join function returns each pair
\* of the join result of a probe vector (joinBoncz: each entry in the chains of
\* its tuples) once, nothing else, never more than the buffers hold, and the
\* next probe vector is fetched only after that.
PairsOnce == Promise!Spec

\* Every push of the build succeeds in the end, and every probe vector is
\* exhausted, whatever full outputs cut.
EveryoneEnds ==
  /\ phase = "build" => AllInserted
  /\ phase # "build" => Ring!Exhausts
=============================================================================
