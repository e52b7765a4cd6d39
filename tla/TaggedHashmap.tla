--------------------------- MODULE TaggedHashmap ----------------------------
(***************************************************************************)
(* The concurrent build of runtime::Hashmap                                *)
(* (include/common/runtime/Hashmap.hpp): all workers insert the entries    *)
(* they materialised with insertAll_tagged, a lock-free push onto the      *)
(* chain of a bucket.  The bucket word packs the first entry with a bit    *)
(* set of the tags of all entries in the chain; find_chain_tagged uses the *)
(* set to skip chains that cannot contain the hash.                        *)
(*                                                                         *)
(* A hash is a number of hashBits bits: the low bits select the bucket,    *)
(* the top bits are the tag.  compare_exchange_weak fails only if the      *)
(* values differ (x86).                                                    *)
(***************************************************************************)
EXTENDS Naturals, Sequences, FiniteSets

CONSTANTS
  Threads,
  Entries,   \* the entries of the build side
  NoEntry,   \* end(), the null pointer
  owner,     \* owner[e]: the worker that materialised e
  hash,      \* hash[e]: e->hash
  hashRange, \* 2^hashBits
  nrTags,    \* how many values the tag bits of a hash have (16 in the code)
  capacity   \* the number of buckets setSize chose, a power of two

ASSUME HashAssumption ==
  /\ IsFiniteSet(Entries) /\ NoEntry \notin Entries
  /\ owner \in [Entries -> Threads]
  /\ capacity \in Nat \ {0} /\ nrTags \in Nat \ {0}
  /\ hashRange \in Nat \ {0} /\ hashRange % nrTags = 0
  /\ hash \in [Entries -> 0 .. hashRange - 1]

VARIABLES
  entries, \* entries[b]: the word of bucket b, [ptr, tags]
  next,    \* next[e]: e->next
  pc,      \* pc[t]: t's next statement in insert_tagged
  entry,   \* entry[t]: the entry t is inserting
  loc,     \* loc[t]: the bucket word t has read
  todo,    \* the entries whose insertion has not begun
  order    \* order[b]: the entries pushed to bucket b, oldest first (history)

vars == <<entries, next, pc, entry, loc, todo, order>>

Buckets == 0 .. capacity - 1

\* hash & mask
pos(h) == h % capacity

\* Mutant: the hash is shifted too little, the tag bit leaves its 16 bits.
tag_TooWide(h) == h \div (hashRange \div (nrTags + 1))

\* hash >> (bits - 4): the position of the tag bit.
tag(h) == h \div (hashRange \div nrTags)

Tags == 0 .. nrTags - 1

NotFound == [ptr |-> NoEntry, tags |-> {}]

\* update(old, p, hash): p with the tags of old and the tag of hash.
update(old, p, h) == [ptr |-> p, tags |-> old.tags \cup {tag(h)}]

Init ==
  /\ entries = [b \in Buckets |-> NotFound]
  /\ next = [e \in Entries |-> NoEntry]
  /\ pc = [t \in Threads |-> "fetch"]
  /\ entry = [t \in Threads |-> NoEntry]
  /\ loc = [t \in Threads |-> NotFound]
  /\ todo = Entries
  /\ order = [b \in Buckets |-> <<>>]

\* insertAll_tagged takes the next entry; loc = locPtr->load().
Fetch(t) ==
  /\ pc[t] = "fetch"
  /\ \E e \in todo :
       /\ owner[e] = t
       /\ entry' = [entry EXCEPT ![t] = e]
       /\ loc' = [loc EXCEPT ![t] = entries[pos(hash[e])]]
       /\ todo' = todo \ {e}
  /\ pc' = [pc EXCEPT ![t] = "link"]
  /\ UNCHANGED <<entries, next, order>>

\* entry->next = ptr(loc)
Link(t) ==
  /\ pc[t] = "link"
  /\ next' = [next EXCEPT ![entry[t]] = loc[t].ptr]
  /\ pc' = [pc EXCEPT ![t] = "push"]
  /\ UNCHANGED <<entries, entry, loc, todo, order>>

\* Mutant: the bucket word is stored without a comparison, as in the variant
\* for a single thread.
Push_NoCompare(t) ==
  LET e == entry[t]
      b == pos(hash[e])
  IN /\ pc[t] = "push"
     /\ entries' = [entries EXCEPT ![b] = update(loc[t], e, hash[e])]
     /\ order' = [order EXCEPT ![b] = Append(@, e)]
     /\ pc' = [pc EXCEPT ![t] = "fetch"]
     /\ UNCHANGED <<next, entry, loc, todo>>

\* Mutant: a failed exchange is repeated with the new word but the old link.
PushFails_NoRelink(t) ==
  LET b == pos(hash[entry[t]])
  IN /\ pc[t] = "push"
     /\ entries[b] # loc[t]
     /\ loc' = [loc EXCEPT ![t] = entries[b]]
     /\ UNCHANGED <<entries, next, pc, entry, todo, order>>

\* compare_exchange_weak(loc, update(loc, entry, hash))
Push(t) ==
  LET e == entry[t]
      b == pos(hash[e])
  IN /\ pc[t] = "push"
     /\ entries[b] = loc[t]
     /\ entries' = [entries EXCEPT ![b] = update(loc[t], e, hash[e])]
     /\ order' = [order EXCEPT ![b] = Append(@, e)]
     /\ pc' = [pc EXCEPT ![t] = "fetch"]
     /\ UNCHANGED <<next, entry, loc, todo>>

\* Mutant: after a failed exchange the old word is compared again.
PushFails_NoReload(t) ==
  LET b == pos(hash[entry[t]])
  IN /\ pc[t] = "push"
     /\ entries[b] # loc[t]
     /\ pc' = [pc EXCEPT ![t] = "link"]
     /\ UNCHANGED <<entries, next, entry, loc, todo, order>>

\* The exchange fails, loc is read again.
PushFails(t) ==
  LET b == pos(hash[entry[t]])
  IN /\ pc[t] = "push"
     /\ entries[b] # loc[t]
     /\ loc' = [loc EXCEPT ![t] = entries[b]]
     /\ pc' = [pc EXCEPT ![t] = "link"]
     /\ UNCHANGED <<entries, next, entry, todo, order>>

Step(t) == Fetch(t) \/ Link(t) \/ Push(t) \/ PushFails(t)

\* All workers wait in the barrier that ends the build.
Built == todo = {} /\ \A t \in Threads : pc[t] = "fetch"

Finished == Built /\ UNCHANGED vars

Next == (\E t \in Threads : Step(t)) \/ Finished

Spec == Init /\ [][Next]_vars

\* Workers are OS threads that are scheduled again and again.
FairSpec == Spec /\ \A t \in Threads : WF_vars(Step(t))

\* find_chain_tagged(h): the chain of h's bucket unless the filter excludes h.
find_chain_tagged(h) ==
  LET candidate == entries[pos(h)]
  IN IF tag(h) \in candidate.tags THEN candidate.ptr ELSE NoEntry

\* The entries a probe meets when it follows next from p.
Met(p) ==
  LET at[n \in Nat] == IF n = 0 THEN p
                       ELSE IF at[n - 1] = NoEntry THEN NoEntry ELSE next[at[n - 1]]
  IN {at[n] : n \in 0 .. Cardinality(Entries)} \ {NoEntry}

-----------------------------------------------------------------------------

Inserted(e) == e \notin todo /\ \A t \in Threads : pc[t] # "fetch" => entry[t] # e

TypeOK ==
  /\ entries \in [Buckets -> [ptr : Entries \cup {NoEntry}, tags : SUBSET Tags]]
  /\ next \in [Entries -> Entries \cup {NoEntry}]
  /\ pc \in [Threads -> {"fetch", "link", "push"}]
  /\ entry \in [Threads -> Entries \cup {NoEntry}]
  /\ loc \in [Threads -> [ptr : Entries \cup {NoEntry}, tags : SUBSET Tags]]
  /\ todo \in SUBSET Entries
  /\ order \in [Buckets -> Seq(Entries)]

\* The chain of a bucket runs through the entries in the opposite order of
\* their exchanges and ends there: no push cuts off or reorders what earlier
\* pushes linked, and no entry's next changes once it is in a chain.
LinksIntact ==
  \A b \in Buckets :
    /\ entries[b].ptr = IF order[b] = <<>> THEN NoEntry ELSE order[b][Len(order[b])]
    /\ \A i \in DOMAIN order[b] :
         next[order[b][i]] = IF i = 1 THEN NoEntry ELSE order[b][i - 1]

\* The tag filter has no false negatives: once insert_tagged(e) has returned,
\* find_chain_tagged of e's hash yields a chain, whatever is inserted after e.
FilterComplete ==
  \A e \in Entries : Inserted(e) => find_chain_tagged(hash[e]) # NoEntry

\* Concurrent pushes leave every chain whole and no inserted entry hidden.
ChainsSound == LinksIntact /\ FilterComplete

\* A lookup of a hash finds exactly the entries with this hash whose insertion
\* has completed: none is lost, none appears twice or too early.
LookupExact ==
  \A h \in 0 .. hashRange - 1 :
    {e \in Met(find_chain_tagged(h)) : hash[e] = h} = {e \in Entries : Inserted(e) /\ hash[e] = h}

\* The retry loop ends: all entries are inserted.
AllInserted == <>Built

=============================================================================
