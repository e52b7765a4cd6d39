----------------------------- MODULE JoinBoncz ------------------------------
(***************************************************************************)
(* Hashjoin::joinBoncz (src/vectorwise/Operators.cpp): every entry in the  *)
(* chain of a probe tuple is a candidate, whatever its hash, and the key   *)
(* check of Hashjoin::next has to sort them out.  The rests of the chains  *)
(* are compacted in place, one entry of each per round.                    *)
(***************************************************************************)
EXTENDS ProbeSide

VARIABLES
  followups,   \* followupIds and followupEntries up to followupWrite
  round        \* those of this round that are still to be handled

vars == <<chain, probeHashes, nextProbe, numProbes, pc, i, found, matches, delivered,
          followups, round>>

Init ==
  /\ InitProbe
  /\ followups = <<>> /\ round = <<>>

Refill == RefillProbe /\ UNCHANGED <<followups, round>>

EndOfStream == EndProbe /\ UNCHANGED <<followups, round>>

CallJoin ==
  /\ Call(IF followups = <<>> THEN "first" ELSE "rounds")
  /\ UNCHANGED <<i, followups, round>>

\* The first pass collects the chains.
FirstPass ==
  LET entry == find_chain_tagged(hashOf(i))
  IN /\ pc = "first"
     /\ i < numProbes
     /\ followups' = IF entry = NoMore THEN followups
                     ELSE Append(followups, [id |-> i, entry |-> entry])
     /\ i' = i + 1
     /\ UNCHANGED <<chain, probeHashes, nextProbe, numProbes, pc, found, matches, delivered,
                    round>>

\* No probe tuple has a chain: the call returns 0.
ReturnNothing ==
  /\ pc = "first"
  /\ i >= numProbes
  /\ followups = <<>>
  /\ Return(numProbes)
  /\ UNCHANGED <<followups, round>>

FirstPassDone ==
  /\ pc = "first"
  /\ i >= numProbes
  /\ followups # <<>>
  /\ pc' = "rounds"
  /\ UNCHANGED <<chain, probeHashes, nextProbe, numProbes, i, found, matches, delivered,
                 followups, round>>

\* e = followupWrite; followupWrite = 0
StartRound ==
  /\ pc = "rounds"
  /\ round' = followups
  /\ followups' = <<>>
  /\ pc' = "round"
  /\ UNCHANGED <<chain, probeHashes, nextProbe, numProbes, i, found, matches, delivered>>

\* One iteration of the inner loop.
Follow ==
  LET f == Head(round)
  IN /\ pc = "round"
     /\ round # <<>>
     /\ found' = Append(found, Pair(f.id, f.entry))
     /\ followups' = IF next(f.entry) = NoMore THEN followups
                     ELSE Append(followups, [id |-> f.id, entry |-> next(f.entry)])
     /\ round' = Tail(round)
     /\ UNCHANGED <<chain, probeHashes, nextProbe, numProbes, pc, i, matches, delivered>>

\* followupWrite == 0: the probe vector is exhausted.
ReturnLast ==
  /\ pc = "round"
  /\ round = <<>> /\ followups = <<>>
  /\ Return(numProbes)
  /\ UNCHANGED <<followups, round>>

\* found + followupWrite >= batchSize: the next round might not fit.
ReturnToContinue ==
  /\ pc = "round"
  /\ round = <<>> /\ followups # <<>>
  /\ Len(found) + Len(followups) >= batchSize
  /\ Return(nextProbe)
  /\ UNCHANGED <<followups, round>>

\* found + followupWrite < batchSize: the next round fits the output.
NextRound ==
  /\ pc = "round"
  /\ round = <<>> /\ followups # <<>>
  /\ Len(found) + Len(followups) < batchSize
  /\ pc' = "rounds"
  /\ UNCHANGED <<chain, probeHashes, nextProbe, numProbes, i, found, matches, delivered,
                 followups, round>>

Finished == pc = "done" /\ UNCHANGED vars

Step == \/ CallJoin \/ FirstPass \/ ReturnNothing \/ FirstPassDone \/ StartRound \/ Follow
        \/ ReturnLast \/ ReturnToContinue \/ NextRound

Next == Refill \/ EndOfStream \/ Step \/ Finished

Spec == Init /\ [][Next]_vars

\* The join function is sequential code and runs on; its caller keeps calling.
FairSpec == Spec /\ WF_vars(Step)

-----------------------------------------------------------------------------

TypeOK ==
  /\ ProbeTypeOK
  /\ pc \in {"next", "first", "rounds", "round", "done"}
  /\ followups \in Seq([id : ProbeIds, entry : Places])
  /\ round \in Seq([id : ProbeIds, entry : Places])

\* The round that is running always fits the output, although its writes do
\* not look at the space that is left, and compaction never overtakes the
\* followups it has still to read.
RoundFits ==
  /\ Len(found) + Len(round) <= batchSize
  /\ Len(followups) + Len(round) <= numProbes

=============================================================================
