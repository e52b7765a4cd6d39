---------------------------- MODULE EntryLayout -----------------------------
(***************************************************************************)
(* The layout of the groups of a HashGroup as QueryBuilder's               *)
(* HashGroupBuilder computes it (src/vectorwise/QueryBuilder.cpp): addKey, *)
(* addValue and padToAlign lay out the entries of the table of phase 1     *)
(* (preAggregation), the rows spilled between the phases, which are these  *)
(* entries without their next pointer, and the entries of phase 2          *)
(* (globalAggregation); the destructor of the builder fixes the sizes.     *)
(*                                                                         *)
(* Each key also adds a pass that partitions the rows whose group is       *)
(* missing.  The passes hand the rows on in two buffers that change places *)
(* after each of them.                                                     *)
(***************************************************************************)
EXTENDS Naturals, Sequences

CONSTANTS
  NextSize,    \* sizeof EntryHeader::next
  HeaderSize,  \* sizeof EntryHeader
  Round,       \* what the destructor rounds sizes up to
  Sizes,       \* the sizes of columns
  Aligns,      \* the alignments asked for
  MaxFields    \* bound: keys and values of one group

ASSUME SizesAssumption ==
  /\ NextSize \in Nat /\ HeaderSize \in Nat /\ NextSize < HeaderSize
  /\ Round \in Nat \ {0} /\ Sizes \subseteq Nat \ {0} /\ Aligns \subseteq Nat \ {0}
ASSUME BoundsAssumption == MaxFields \in Nat

VARIABLES
  fields,      \* the fields added so far: offset in the entry and size
  localSize,   \* preAggregation.ht_entry_size
  globalSize,  \* globalAggregation.ht_entry_size
  rowSize,     \* globalAggregation.rowSize; 0 until the builder is destroyed
  passes,      \* the partitioning passes: the buffers they read and write
  input,       \* lookup.unpartitionedRows, lookup.partitionEndsIn
  output,      \* lookup.partitionedRows, lookup.partitionEndsOut
  last,        \* what the operator is told to read the partitions from
  built        \* the builder was destroyed

vars == <<fields, localSize, globalSize, rowSize, passes, input, output, last, built>>

padding(size, align) ==
  LET moreThanAlign == size % align
  IN IF moreThanAlign # 0 THEN align - moreThanAlign ELSE 0

\* The buffer the lookup leaves the rows without a group in, and the other one.
NotFound == "groupsNotFound"
Spare == "partitionedRows"

Init ==
  /\ fields = <<>>
  /\ localSize = HeaderSize
  /\ globalSize = HeaderSize
  /\ rowSize = 0
  /\ passes = <<>>
  /\ input = NotFound
  /\ output = Spare
  /\ last = Spare
  /\ built = FALSE

\* A field behind the last one of the table of phase 1, in both tables.
AddField(size) ==
  /\ ~built
  /\ Len(fields) < MaxFields
  /\ fields' = Append(fields, [offset |-> localSize, size |-> size])
  /\ localSize' = localSize + size
  /\ globalSize' = globalSize + size

\* addKey(col, ...): with a pass of its own.
addKey(size) ==
  /\ AddField(size)
  /\ passes' = Append(passes, [from |-> input, to |-> output])
  /\ input' = output
  /\ output' = input
  /\ UNCHANGED <<rowSize, last, built>>

addValue(size) ==
  /\ AddField(size)
  /\ UNCHANGED <<rowSize, passes, input, output, last, built>>

\* Mutant: only the entries of phase 1 are padded.
padToAlign_LocalOnly(align) ==
  /\ ~built
  /\ localSize' = localSize + padding(localSize, align)
  /\ UNCHANGED <<fields, globalSize, rowSize, passes, input, output, last, built>>

padToAlign(align) ==
  /\ ~built
  /\ localSize' = localSize + padding(localSize, align)
  /\ globalSize' = globalSize + padding(globalSize, align)
  /\ UNCHANGED <<fields, rowSize, passes, input, output, last, built>>

\* ~HashGroupBuilder(): the last pass has left its result in what would be the
\* input of the next one; the entries are rounded up, phase 1 before phase 2.
Destroy ==
  /\ ~built
  /\ built' = TRUE
  /\ last' = input
  /\ localSize' = localSize + padding(localSize, Round)
  /\ globalSize' = globalSize + padding(localSize', Round)
  /\ rowSize' = localSize' - NextSize
  /\ UNCHANGED <<fields, passes, input, output>>

Next ==
  \/ \E size \in Sizes : addKey(size) \/ addValue(size)
  \/ \E align \in Aligns : padToAlign(align)
  \/ Destroy

Spec == Init /\ [][Next]_vars

-----------------------------------------------------------------------------

TypeOK ==
  /\ fields \in Seq([offset : Nat, size : Sizes])
  /\ localSize \in Nat /\ globalSize \in Nat
  /\ rowSize \in IF built THEN Nat \ {0} ELSE {0}
  /\ passes \in Seq([from : {NotFound, Spare}, to : {NotFound, Spare}])
  /\ input \in {NotFound, Spare} /\ output \in {NotFound, Spare} /\ last \in {NotFound, Spare}
  /\ built \in BOOLEAN

\* One table of offsets serves three memories of different sizes: in the
\* entries of both phases, and in the rows spilled between them, which begin
\* after the next pointer, every field lies inside and behind the one before.
FieldsFit ==
  /\ \A i \in DOMAIN fields :
       LET end == fields[i].offset + fields[i].size
       IN /\ fields[i].offset >= (IF i = 1 THEN HeaderSize
                                           ELSE fields[i - 1].offset + fields[i - 1].size)
          /\ end <= localSize
          /\ end <= globalSize
          /\ built => end - NextSize <= rowSize

\* Every pass reads what the pass before has written, the first one what the
\* lookup left, and the operator reads what the last one wrote; without keys,
\* what the lookup left.
PassesChained ==
  LET reads == [i \in 1 .. Len(passes) + 1 |-> IF i <= Len(passes) THEN passes[i].from ELSE last]
      writes == [i \in 1 .. Len(passes) + 1 |-> IF i = 1 THEN NotFound ELSE passes[i - 1].to]
  IN /\ \A i \in DOMAIN passes : reads[i] = writes[i] /\ passes[i].to # passes[i].from
     /\ built => reads[Len(passes) + 1] = writes[Len(passes) + 1]

\* The offsets that the operators of a group work with fit all three kinds of
\* entries, and its partitioning passes hand every row on.
LayoutSound == FieldsFit /\ PassesChained

=============================================================================
