------------------------------ MODULE JoinAll -------------------------------
(***************************************************************************)
(* Hashjoin::joinAll and joinSel (src/vectorwise/Operators.cpp): one probe *)
(* tuple after the other, its whole chain at a time.  A call that fills    *)
(* the output saves where it stands (cont.buildMatch, cont.probeHash,      *)
(* cont.nextProbe) and the next call walks the rest of that chain first.   *)
(* One action compares one entry.                                          *)
(***************************************************************************)
EXTENDS ProbeSide

VARIABLES
  buildMatch,  \* cont.buildMatch: the rest of the interrupted chain
  probeHash,   \* cont.probeHash, not initialised before it is first saved
  entry        \* the loop variable of the chain loop

vars == <<chain, probeHashes, nextProbe, numProbes, pc, i, found, matches, delivered,
          buildMatch, probeHash, entry>>

Init ==
  /\ InitProbe
  /\ buildMatch = NoMore
  /\ probeHash \in Hashes
  /\ entry = NoMore

Refill == RefillProbe /\ UNCHANGED <<buildMatch, probeHash, entry>>

EndOfStream == EndProbe /\ UNCHANGED <<buildMatch, probeHash, entry>>

CallJoin ==
  /\ Call("rest")
  /\ entry' = buildMatch
  /\ UNCHANGED <<i, buildMatch, probeHash>>

\* The continuation: the rest of the chain the last call was interrupted in.
Rest ==
  LET hits == entryHash(entry) = probeHash
      grown == IF hits THEN Append(found, Pair(nextProbe, entry)) ELSE found
  IN /\ pc = "rest"
     /\ entry # NoMore
     /\ ~(hits /\ Len(grown) = batchSize)
     /\ found' = grown
     /\ entry' = next(entry)
     /\ UNCHANGED <<chain, probeHashes, nextProbe, numProbes, pc, i, matches, delivered,
                    buildMatch, probeHash>>

\* The output is full again: cont.buildMatch = entry->next; return batchSize
FillsInRest ==
  /\ pc = "rest"
  /\ entry # NoMore
  /\ entryHash(entry) = probeHash
  /\ Len(found) + 1 = batchSize
  /\ buildMatch' = next(entry)
  /\ matches' = Append(found, Pair(nextProbe, entry))
  /\ delivered' = delivered \cup {matches'[k] : k \in DOMAIN matches'}
  /\ found' = <<>> /\ entry' = NoMore
  /\ pc' = "next"
  /\ UNCHANGED <<chain, probeHashes, nextProbe, numProbes, i, probeHash>>

\* if (cont.buildMatch != end()) cont.nextProbe++; the loop starts there.
RestDone ==
  /\ pc = "rest"
  /\ entry = NoMore
  /\ nextProbe' = IF buildMatch # NoMore THEN nextProbe + 1 ELSE nextProbe
  /\ i' = nextProbe'
  /\ pc' = "probe"
  /\ UNCHANGED <<chain, probeHashes, numProbes, found, matches, delivered, buildMatch,
                 probeHash, entry>>

Lookup ==
  /\ pc = "probe"
  /\ i < numProbes
  /\ entry' = find_chain_tagged(hashOf(i))
  /\ pc' = "chain"
  /\ UNCHANGED <<chain, probeHashes, nextProbe, numProbes, i, found, matches, delivered,
                 buildMatch, probeHash>>

Grown == IF entryHash(entry) = hashOf(i) THEN Append(found, Pair(i, entry)) ELSE found

\* found == batchSize && (entry->next || i + 1 < end), after a match
Interrupts ==
  /\ entryHash(entry) = hashOf(i)
  /\ Len(Grown) = batchSize
  /\ next(entry) # NoMore \/ i + 1 < numProbes

Compare ==
  /\ pc = "chain"
  /\ entry # NoMore
  /\ ~Interrupts
  /\ found' = Grown
  /\ entry' = next(entry)
  /\ UNCHANGED <<chain, probeHashes, nextProbe, numProbes, pc, i, matches, delivered,
                 buildMatch, probeHash>>

\* The output is full: the place is saved, also when the chain ends here.
FillsInChain ==
  /\ pc = "chain"
  /\ entry # NoMore
  /\ Interrupts
  /\ buildMatch' = next(entry)
  /\ probeHash' = hashOf(i)
  /\ nextProbe' = i
  /\ matches' = Grown
  /\ delivered' = delivered \cup {matches'[k] : k \in DOMAIN matches'}
  /\ found' = <<>> /\ i' = 0 /\ entry' = NoMore
  /\ pc' = "next"
  /\ UNCHANGED <<chain, probeHashes, numProbes>>

ChainDone ==
  /\ pc = "chain"
  /\ entry = NoMore
  /\ i' = i + 1
  /\ pc' = "probe"
  /\ UNCHANGED <<chain, probeHashes, nextProbe, numProbes, found, matches, delivered,
                 buildMatch, probeHash, entry>>

\* All probes are through: cont.buildMatch = end(); return found
ReturnLast ==
  /\ pc = "probe"
  /\ i >= numProbes
  /\ Return(numProbes)
  /\ buildMatch' = NoMore
  /\ UNCHANGED <<probeHash, entry>>

Finished == pc = "done" /\ UNCHANGED vars

Next == \/ Refill \/ EndOfStream \/ CallJoin \/ Rest \/ FillsInRest \/ RestDone \/ Lookup
        \/ Compare \/ FillsInChain \/ ChainDone \/ ReturnLast \/ Finished

Spec == Init /\ [][Next]_vars

-----------------------------------------------------------------------------

\* "computes join result into buildMatches and probeMatches"
\* (include/vectorwise/Operators.hpp): the calls for one probe vector do not
\* report a pair of the join result again.
NoPairTwice == \A k \in DOMAIN found : found[k] \notin delivered

=============================================================================
