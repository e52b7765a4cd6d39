--------------------------- MODULE OperatorStates ---------------------------
(***************************************************************************)
(* vectorwise::SharedStateManager (include/vectorwise/Operators.hpp):      *)
(* while every worker builds its own copy of a plan, the copies of an      *)
(* operator find their shared state by the number of the operator (get),   *)
(* and blocks that are to run once for all workers are told apart by the   *)
(* number of the block (once).  Each worker's QueryBuilder counts the      *)
(* operators and the blocks (nextOpNr, nextOnceNr), from 0.                *)
(*                                                                         *)
(* The mutex of get() is held all the time; the mutex of once() is not     *)
(* taken when the counter says that the block has run.                     *)
(***************************************************************************)
EXTENDS Naturals, Sequences

CONSTANTS
  Workers,
  Plan     \* a sequence: the types of the operators' shared states, and Once for a block

Once == "once"
NoWorker == "none"

PlanAssumption == Plan \in Seq(STRING)
WorkersAssumption == NoWorker \notin Workers

VARIABLES
  step,          \* step[w]: where w is in the plan it builds
  opNr, onceNr,  \* the counters of w's QueryBuilder
  state,         \* the map of get(): number to type and identity
  got,           \* got[w]: the identities w was given, by number
  stage,         \* stage[w]: "plan", or where w is in once()
  onceMutex,     \* who holds it
  oncesExecuted,
  started, ended,\* the callbacks begun and ended, with their worker
  failed         \* a runtime_error was thrown

vars == <<step, opNr, onceNr, state, got, stage, onceMutex, oncesExecuted,
          started, ended, failed>>
onceVars == <<onceNr, onceMutex, oncesExecuted, started, ended>>

Init ==
  /\ step = [w \in Workers |-> 1]
  /\ opNr = [w \in Workers |-> 0]
  /\ onceNr = [w \in Workers |-> 0]
  /\ state = <<>>
  /\ got = [w \in Workers |-> <<>>]
  /\ stage = [w \in Workers |-> "plan"]
  /\ onceMutex = NoWorker
  /\ oncesExecuted = 0
  /\ started = {}
  /\ ended = {}
  /\ failed = FALSE

Building(w) == stage[w] = "plan" /\ step[w] <= Len(Plan)

\* get() knows the number; states are numbered from 0, in order.
Known(nr) == nr < Len(state)

\* Mutant: an existing state is replaced.
get_Replaces(w) ==
  LET nr == opNr[w]
      new == [type |-> Plan[step[w]], maker |-> w]
      now == IF Known(nr) THEN [state EXCEPT ![nr + 1] = new] ELSE Append(state, new)
  IN /\ Building(w) /\ Plan[step[w]] # Once
     /\ opNr' = [opNr EXCEPT ![w] = @ + 1]
     /\ state' = now
     /\ got' = [got EXCEPT ![w] = Append(@, now[nr + 1])]
     /\ failed' = (failed \/ now[nr + 1].type # Plan[step[w]])
     /\ step' = [step EXCEPT ![w] = @ + 1]
     /\ UNCHANGED <<stage, onceVars>>

\* get<T>(nextOpNr()): find or insert, then check the type.
get(w) ==
  LET nr == opNr[w]
      new == [type |-> Plan[step[w]], maker |-> w]
      now == IF Known(nr) THEN state ELSE Append(state, new)
  IN /\ Building(w) /\ Plan[step[w]] # Once
     /\ opNr' = [opNr EXCEPT ![w] = @ + 1]
     /\ state' = now
     /\ got' = [got EXCEPT ![w] = Append(@, now[nr + 1])]
     /\ failed' = (failed \/ now[nr + 1].type # Plan[step[w]])
     /\ step' = [step EXCEPT ![w] = @ + 1]
     /\ UNCHANGED <<stage, onceVars>>

\* w returns from once(): the next operator or block.
Return(w) ==
  /\ stage' = [stage EXCEPT ![w] = "plan"]
  /\ step' = [step EXCEPT ![w] = @ + 1]
  /\ onceNr' = [onceNr EXCEPT ![w] = @ + 1]

\* once(nextOnceNr(), callback): the check without the mutex.
once(w) ==
  /\ Building(w) /\ Plan[step[w]] = Once
  /\ IF oncesExecuted > onceNr[w]
     THEN Return(w)
     ELSE /\ stage' = [stage EXCEPT ![w] = "lock"]
          /\ UNCHANGED <<step, onceNr>>
  /\ UNCHANGED <<opNr, state, got, onceMutex, oncesExecuted, started, ended, failed>>

Lock(w) ==
  /\ stage[w] = "lock" /\ onceMutex = NoWorker
  /\ onceMutex' = w
  /\ stage' = [stage EXCEPT ![w] = "check"]
  /\ UNCHANGED <<step, opNr, onceNr, state, got, oncesExecuted, started, ended, failed>>

\* Mutant: who comes too late tries again.
Check_Retries(w) ==
  /\ stage[w] = "check"
  /\ IF oncesExecuted > onceNr[w]
     THEN /\ stage' = [stage EXCEPT ![w] = "lock"]
          /\ onceMutex' = NoWorker
          /\ UNCHANGED <<step, onceNr, started>>
     ELSE /\ started' = started \cup {<<onceNr[w], w>>}
          /\ stage' = [stage EXCEPT ![w] = "callback"]
          /\ UNCHANGED <<step, onceNr, onceMutex>>
  /\ UNCHANGED <<opNr, state, got, oncesExecuted, ended, failed>>

\* The check under the mutex; the callback begins.
Check(w) ==
  /\ stage[w] = "check"
  /\ IF oncesExecuted > onceNr[w]
     THEN Return(w) /\ onceMutex' = NoWorker /\ UNCHANGED started
     ELSE /\ started' = started \cup {<<onceNr[w], w>>}
          /\ stage' = [stage EXCEPT ![w] = "callback"]
          /\ UNCHANGED <<step, onceNr, onceMutex>>
  /\ UNCHANGED <<opNr, state, got, oncesExecuted, ended, failed>>

EndCallback(w) ==
  /\ stage[w] = "callback"
  /\ ended' = ended \cup {<<onceNr[w], w>>}
  /\ stage' = [stage EXCEPT ![w] = "mark"]
  /\ UNCHANGED <<step, opNr, onceNr, state, got, onceMutex, oncesExecuted, started, failed>>

\* current = oncesExecuted.fetch_add(1), which must have been the number of
\* the block; the mutex is released.
Mark(w) ==
  /\ stage[w] = "mark"
  /\ oncesExecuted' = oncesExecuted + 1
  /\ failed' = (failed \/ oncesExecuted # onceNr[w])
  /\ onceMutex' = NoWorker
  /\ Return(w)
  /\ UNCHANGED <<opNr, state, got, started, ended>>

Step(w) == get(w) \/ once(w) \/ Lock(w) \/ Check(w) \/ EndCallback(w) \/ Mark(w)

Finished ==
  /\ \A w \in Workers : step[w] > Len(Plan)
  /\ UNCHANGED vars

Next == (\E w \in Workers : Step(w)) \/ Finished

Spec == Init /\ [][Next]_vars

\* Workers are OS threads; each takes the mutex at most once per block.
FairSpec == Spec /\ \A w \in Workers : WF_vars(Step(w))

-----------------------------------------------------------------------------

TypeOK ==
  /\ \A w \in Workers : step[w] \in 1 .. Len(Plan) + 1 /\ opNr[w] \in Nat /\ onceNr[w] \in Nat
  /\ \A i \in DOMAIN state : state[i].maker \in Workers
  /\ stage \in [Workers -> {"plan", "lock", "check", "callback", "mark"}]
  /\ onceMutex \in Workers \cup {NoWorker}
  /\ \A w \in Workers : onceMutex = w <=> stage[w] \in {"check", "callback", "mark"}
  /\ oncesExecuted \in Nat

\* The copies of an operator share one state, whoever came first, and it has
\* the operator's type.
StatesShared ==
  /\ ~failed
  /\ \A w, u \in Workers : \A i \in DOMAIN got[w] \cap DOMAIN got[u] : got[w][i] = got[u][i]

\* A block runs at most once, and a worker that is past it relies on it:
\* it has run to its end, in whichever worker.
RunsOnce ==
  /\ \A c, d \in started : c[1] = d[1] => c = d
  /\ \A w \in Workers : \A i \in 0 .. onceNr[w] - 1 : \E u \in Workers : <<i, u>> \in ended

\* Every worker gets its plan: nobody is left waiting for the mutex.
AllBuilt == <>(\A w \in Workers : step[w] > Len(Plan))

=============================================================================
