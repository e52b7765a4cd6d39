--------------------------- MODULE AppendSequence ---------------------------
(***************************************************************************)
(* What the chunked containers of the runtime promise (runtime::Stack and  *)
(* the partitions of runtime::PartitionedDeque): who iterates one sees     *)
(* what was appended since it was last emptied, in that order.             *)
(***************************************************************************)
EXTENDS Sequences

CONSTANT Elements

VARIABLES
  items,
  latest   \* the argument of the last call that appended

vars == <<items, latest>>

Init == items = <<>> /\ latest \in Elements

Appended(e) == items' = Append(items, e) /\ latest' = e

Clear == items' = <<>> /\ UNCHANGED latest

Next == Clear \/ \E e \in Elements : Appended(e)

Spec == Init /\ [][Next]_vars

=============================================================================
