----------------------------- MODULE JoinProbe ------------------------------
(***************************************************************************)
(* The join functions of vectorwise::Hashjoin that look up a whole probe   *)
(* vector first and keep the rests of the chains in a ring of followups:   *)
(* joinAllParallel, joinSelParallel, joinAllSIMD and joinSelSIMD           *)
(* (src/vectorwise/Operators.cpp).  They differ in how many probes one     *)
(* step of the first pass handles (lanes: 1, or 8 with AVX512) and in the  *)
(* selection vector.                                                       *)
(***************************************************************************)
EXTENDS ProbeSide

CONSTANTS
  Lanes,      \* the widths of the first pass a build may have
  ringSize    \* followupBufferSize: vecs.getVecSize() + 1

LanesAssumption == Lanes \subseteq Nat \ {0}
RingAssumption == ringSize \in Nat /\ ringSize > batchSize

VARIABLES
  lanes,          \* the width of this build
  followupRing,   \* followupIds and followupEntries
  followup,       \* where the next followup is read; contCon between calls
  followupWrite,  \* where the next followup is written; contCon between calls
  fitting,        \* followups this round still has to handle
  more            \* fittingElements < nrFollowups

ringVars == <<followupRing, followup, followupWrite>>
roundVars == <<fitting, more>>
vars == <<chain, probeHashes, nextProbe, numProbes, pc, i, found, matches, delivered,
          lanes, followupRing, followup, followupWrite, fitting, more>>

NoFollowups == [s \in 0 .. ringSize - 1 |-> [id |-> 0, entry |-> NoMore]]

Init ==
  /\ InitProbe
  /\ lanes \in Lanes
  /\ followupRing = NoFollowups
  /\ followup = 0 /\ followupWrite = 0
  /\ fitting = 0 /\ more = FALSE

Refill == RefillProbe /\ UNCHANGED <<lanes, ringVars, roundVars>>

EndOfStream == EndProbe /\ UNCHANGED <<lanes, ringVars, roundVars>>

\* n = join(): a first pass unless followups are left over.
CallJoin ==
  /\ Call(IF followup = followupWrite THEN "first" ELSE "round")
  /\ UNCHANGED <<i, lanes, ringVars, roundVars>>

\* The probes one step of the first pass handles: lanes of them while they
\* last, the rest one by one.
StepIds == IF i < numProbes - (numProbes % lanes) THEN i .. i + lanes - 1 ELSE {i}

\* The ids under a mask in ascending order, as compressstore writes them.
Compress(ids) ==
  [n \in 1 .. Cardinality(ids) |->
     CHOOSE id \in ids : Cardinality({x \in ids : x < id}) = n - 1]

\* One step of the first pass over the first entry of each chain: matches go
\* to the output, the rests of the chains to the ring.
FirstPass ==
  LET head(id) == find_chain_tagged(hashOf(id))
      live == {id \in StepIds : head(id) # NoMore}
      hit == Compress({id \in live : entryHash(head(id)) = hashOf(id)})
      hasNext == Compress({id \in live : next(head(id)) # NoMore})
      slots == followupWrite .. followupWrite + Len(hasNext) - 1
  IN /\ pc = "first"
     /\ i < numProbes
     /\ found' = found \o [k \in DOMAIN hit |-> Pair(hit[k], head(hit[k]))]
     /\ followupRing' =
          [s \in DOMAIN followupRing |->
             IF s \notin slots THEN followupRing[s]
             ELSE LET id == hasNext[s - followupWrite + 1]
                  IN [id |-> id, entry |-> next(head(id))]]
     /\ followupWrite' = followupWrite + Len(hasNext)
     /\ i' = i + Cardinality(StepIds)
     /\ UNCHANGED <<chain, probeHashes, nextProbe, numProbes, pc, matches, delivered,
                    lanes, followup, roundVars>>

\* followupWrite %= followupBufferSize
FirstPassDone ==
  /\ pc = "first"
  /\ i >= numProbes
  /\ followupWrite' = followupWrite % ringSize
  /\ pc' = "round"
  /\ UNCHANGED <<chain, probeHashes, nextProbe, numProbes, i, found, matches, delivered,
                 lanes, followupRing, followup, roundVars>>

nrFollowups == IF followup <= followupWrite THEN followupWrite - followup
               ELSE ringSize - (followup - followupWrite)

\* Mutant: the followups are handled without regard to the space that is left.
StartRound_Unbounded ==
  /\ pc = "round"
  /\ followup # followupWrite
  /\ fitting' = nrFollowups
  /\ more' = FALSE
  /\ pc' = "follow"
  /\ UNCHANGED <<chain, probeHashes, nextProbe, numProbes, i, found, matches, delivered,
                 lanes, ringVars>>

\* while (followup != followupWrite): how many followups fit the output.
StartRound ==
  LET remainingSpace == batchSize - Len(found)
  IN /\ pc = "round"
     /\ followup # followupWrite
     /\ fitting' = IF nrFollowups < remainingSpace THEN nrFollowups ELSE remainingSpace
     /\ more' = (fitting' < nrFollowups)
     /\ pc' = "follow"
     /\ UNCHANGED <<chain, probeHashes, nextProbe, numProbes, i, found, matches, delivered,
                    lanes, ringVars>>

Compared(f) == IF entryHash(f.entry) = hashOf(f.id)
               THEN Append(found, Pair(f.id, f.entry)) ELSE found

\* Mutant: only a followup that does not match is followed any further.
Follow_StopsAtMatch ==
  LET f == followupRing[followup]
  IN /\ pc = "follow"
     /\ fitting > 0
     /\ fitting' = fitting - 1
     /\ followup' = (followup + 1) % ringSize
     /\ found' = Compared(f)
     /\ IF next(f.entry) # NoMore /\ found' = found
        THEN /\ followupRing' = [followupRing EXCEPT ![followupWrite] =
                                   [id |-> f.id, entry |-> next(f.entry)]]
             /\ followupWrite' = (followupWrite + 1) % ringSize
        ELSE UNCHANGED <<followupRing, followupWrite>>
     /\ UNCHANGED <<chain, probeHashes, nextProbe, numProbes, pc, i, matches, delivered,
                    lanes, more>>

\* One iteration of the inner loop: the oldest followup is compared, and the
\* rest of its chain queued again.
Follow ==
  LET f == followupRing[followup]
  IN /\ pc = "follow"
     /\ fitting > 0
     /\ fitting' = fitting - 1
     /\ followup' = (followup + 1) % ringSize
     /\ found' = Compared(f)
     /\ IF next(f.entry) # NoMore
        THEN /\ followupRing' = [followupRing EXCEPT ![followupWrite] =
                                   [id |-> f.id, entry |-> next(f.entry)]]
             /\ followupWrite' = (followupWrite + 1) % ringSize
        ELSE UNCHANGED <<followupRing, followupWrite>>
     /\ UNCHANGED <<chain, probeHashes, nextProbe, numProbes, pc, i, matches, delivered,
                    lanes, more>>

\* All followups of the round fitted: look whether they left new ones.
EndRound ==
  /\ pc = "follow"
  /\ fitting = 0 /\ ~more
  /\ pc' = "round"
  /\ UNCHANGED <<chain, probeHashes, nextProbe, numProbes, i, found, matches, delivered,
                 lanes, ringVars, roundVars>>

\* fittingElements < nrFollowups: the call returns and will be continued.
ReturnToContinue ==
  /\ pc = "follow"
  /\ fitting = 0 /\ more
  /\ Return(nextProbe)
  /\ more' = FALSE
  /\ UNCHANGED <<lanes, ringVars, fitting>>

\* No followups are left: the probe vector is exhausted, and what the slots of
\* the ring still hold is dead.
ReturnLast ==
  /\ pc = "round"
  /\ followup = followupWrite
  /\ Return(numProbes)
  /\ followupRing' = NoFollowups
  /\ followup' = 0 /\ followupWrite' = 0
  /\ UNCHANGED <<lanes, roundVars>>

Finished == pc = "done" /\ UNCHANGED vars

Step == \/ CallJoin \/ FirstPass \/ FirstPassDone \/ StartRound \/ Follow
        \/ EndRound \/ ReturnToContinue \/ ReturnLast

Next == Refill \/ EndOfStream \/ Step \/ Finished

Spec == Init /\ [][Next]_vars

\* The join function is sequential code and runs on; its caller keeps calling.
FairSpec == Spec /\ WF_vars(Step)

-----------------------------------------------------------------------------

TypeOK ==
  /\ ProbeTypeOK
  /\ pc \in {"next", "first", "round", "follow", "done"}
  /\ lanes \in Lanes
  /\ followupRing \in [0 .. ringSize - 1 -> [id : ProbeIds, entry : Places \cup {NoMore}]]
  /\ followup \in 0 .. ringSize - 1 /\ followupWrite \in 0 .. ringSize - 1
  /\ fitting \in 0 .. batchSize
  /\ more \in BOOLEAN

\* The slots of the ring that hold a followup.
Waiting ==
  IF followup <= followupWrite THEN followup .. followupWrite - 1
  ELSE (followup .. ringSize - 1) \cup (0 .. followupWrite - 1)

\* Neither the output buffers nor the ring overrun, although a followup writes
\* without looking at the space: the output has room for what a round still
\* handles, and each probe tuple has at most one followup, so the ring is never
\* so full that it looks empty.
BuffersHold ==
  /\ Len(found) + fitting <= batchSize
  /\ Cardinality(Waiting) <= numProbes
  /\ \A s, r \in Waiting : followupRing[s].id = followupRing[r].id => s = r

\* Every probe vector is exhausted after finitely many calls.
Exhausts == (pc = "next" /\ nextProbe < numProbes) ~> (nextProbe >= numProbes)

=============================================================================
