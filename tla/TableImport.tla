---------------------------- MODULE TableImport ----------------------------
(***************************************************************************)
(* How a table gets into memory when a driver starts (parseColumns of      *)
(* src/common/runtime/Import.cpp, Vector of                                *)
(* src/include/common/runtime/Mmap.hpp).  The first start parses the .tbl  *)
(* file and writes one file for each column into the directory cached;     *)
(* later starts map these files and do not look at the .tbl file.          *)
(*                                                                         *)
(* A start may be killed at any step, the files stay as they are.  Between *)
(* two starts the user may create or empty the directory cached and let    *)
(* dbgen write another table.                                              *)
(*                                                                         *)
(* A file is a sequence of values; a line of the table one of characters,  *)
(* every field ended by Bar, as dbgen writes it.                           *)
(***************************************************************************)
EXTENDS Integers, Sequences, FiniteSets

CONSTANTS
  Types,             \* the types of the columns of the relation
  castString(_, _),  \* {v} for the value of a text of a type, {} if it throws
  Tables,            \* what the .tbl file may contain: sequences of lines
  Bar,               \* ends a field
  Zero,              \* what is read from a place of a file never written
  None               \* no such file

Columns == DOMAIN Types
LastColumn == Len(Types)

TypesAssumption == LastColumn \in Nat \ {0} /\ Columns = 1..LastColumn

VARIABLES
  tbl,         \* the .tbl file
  dir,         \* whether the directory cached exists
  cached,      \* cached[c]: the file of column c
  pc,          \* what the running start does next, "down" if none runs
  column,      \* the column it is at
  attributes,  \* attributes[c]: the values it parsed
  size, diffs, \* as in parseColumns
  relation,    \* relation[c]: the values column c was mapped to
  outcome,     \* how the last start ended
  latest,      \* (for the properties) the table parsed last since cached was empty,
  replaced,    \* whether another one was parsed before it,
  damage       \* and what a kill left of the last column

memory == <<column, attributes, size, diffs, relation>>
history == <<latest, replaced, damage>>
vars == <<tbl, dir, cached, pc, memory, outcome, history>>

Nothing == [c \in Columns |-> <<>>]
NoFiles == [c \in Columns |-> None]

ForgetMemory == /\ column' = 1 /\ attributes' = Nothing
                /\ size' = 0 /\ diffs' = 0 /\ relation' = Nothing

\* The start is over: with an exception, or terminated by a check of Mmap.hpp.
End(how) == pc' = "down" /\ outcome' = how /\ ForgetMemory

Init ==
  /\ tbl \in Tables \cup {None} /\ dir \in BOOLEAN /\ cached = NoFiles
  /\ pc = "down" /\ outcome = "none"
  /\ column = 1 /\ attributes = Nothing /\ size = 0 /\ diffs = 0 /\ relation = Nothing
  /\ latest = None /\ replaced = FALSE /\ damage = "none"

-----------------------------------------------------------------------------
(* parseColumns *)

\* The end of the field that begins at begin, and where the k-th field begins.
FieldEnd(line, begin) ==
  CHOOSE e \in begin..Len(line) : line[e] = Bar /\ \A i \in begin..(e - 1) : line[i] # Bar
FieldBegin(line, k) ==
  LET begin[j \in 1..k] == IF j = 1 THEN 1 ELSE FieldEnd(line, begin[j - 1]) + 1 IN begin[k]
Field(line, k) ==
  SubSeq(line, FieldBegin(line, k), FieldEnd(line, FieldBegin(line, k)) - 1)

parse(line, c) == castString(Types[c], Field(line, c))
Parses(table) == \A i \in DOMAIN table, c \in Columns : parse(table[i], c) # {}
ValuesOf(table, c) == [i \in DOMAIN table |-> CHOOSE v \in parse(table[i], c) : TRUE]

\* What can be in the file of a column.
Readable(c) == {Zero} \cup UNION {UNION {parse(table[i], c) : i \in DOMAIN table} : table \in Tables}

TablesAssumption ==
  /\ \A table \in Tables : Len(table) \in Nat /\ table = [i \in 1..Len(table) |-> table[i]]
  /\ None \notin Tables /\ \A c \in Columns : None \notin Seq(Readable(c))

Start ==
  /\ pc = "down"
  /\ pc' = "mkdir" /\ outcome' = "none"
  /\ UNCHANGED <<tbl, dir, cached, memory, history>>

\* mkdir returns 0 when it has created the directory, and then the code throws.
MakeDir ==
  /\ pc = "mkdir" /\ dir' = TRUE
  /\ IF dir THEN pc' = "look" /\ UNCHANGED <<memory, outcome>> ELSE End("could not create")
  /\ UNCHANGED <<tbl, cached, history>>

allColumnsMMaped == \A c \in Columns : cached[c] # None

Look ==
  /\ pc = "look"
  /\ pc' = IF allColumnsMMaped THEN "load" ELSE "parse"
  /\ UNCHANGED <<tbl, dir, cached, memory, outcome, history>>

Parse ==
  /\ pc = "parse"
  /\ IF tbl = None THEN End("csv file not found") /\ UNCHANGED history
     ELSE IF ~Parses(tbl) THEN End("invalid format") /\ UNCHANGED history
     ELSE /\ pc' = "open"
          /\ attributes' = [c \in Columns |-> ValuesOf(tbl, c)]
          /\ latest' = tbl /\ replaced' = (replaced \/ latest \notin {None, tbl})
          /\ UNCHANGED <<column, size, diffs, relation, outcome, damage>>
  /\ UNCHANGED <<tbl, dir, cached>>

-----------------------------------------------------------------------------
(* Vector::writeBinary: an existing file is neither emptied nor shortened. *)

OpenFile ==
  /\ pc = "open"
  /\ cached' = [cached EXCEPT ![column] = IF @ = None THEN <<>> ELSE @]
  /\ pc' = "allocate"
  /\ UNCHANGED <<tbl, dir, memory, outcome, history>>

Longer(file, n) == [i \in 1..(IF Len(file) > n THEN Len(file) ELSE n) |->
                      IF i <= Len(file) THEN file[i] ELSE Zero]

\* posix_fallocate refuses to allocate nothing.
Allocate ==
  /\ pc = "allocate"
  /\ IF attributes[column] = <<>> THEN End("terminated") /\ UNCHANGED cached
     ELSE /\ cached' = [cached EXCEPT ![column] = Longer(@, Len(attributes[column]))]
          /\ pc' = "copy"
          /\ UNCHANGED <<memory, outcome>>
  /\ UNCHANGED <<tbl, dir, history>>

\* What the file holds when the values of the rows in done have been copied.
Copied(file, values, done) == [i \in DOMAIN file |-> IF i \in done THEN values[i] ELSE file[i]]

Copy ==
  /\ pc = "copy"
  /\ cached' = [cached EXCEPT ![column] = Copied(@, attributes[column], DOMAIN attributes[column])]
  /\ pc' = IF column = LastColumn THEN "load" ELSE "open"
  /\ column' = IF column = LastColumn THEN 1 ELSE column + 1
  /\ UNCHANGED <<tbl, dir, attributes, size, diffs, relation, outcome, history>>

-----------------------------------------------------------------------------
(* Vector::readBinary maps the files; nothing cannot be mapped. *)

\* Mutant: one more may differ.
SizesDiffer_OneMore(count) == column = LastColumn /\ count > 2

\* Mutant: the first column counts.
SizesDiffer_First(count) == column = LastColumn /\ count > 0

\* More than one column has another size than the one before it (0 before the first).
SizesDiffer(count) == column = LastColumn /\ count > 1

Load ==
  /\ pc = "load"
  /\ IF cached[column] = <<>> THEN End("terminated")
     ELSE LET count == Len(cached[column])
              newDiffs == diffs + (IF size # count THEN 1 ELSE 0)
          IN  IF SizesDiffer(newDiffs) THEN End("differ in size")
              ELSE /\ relation' = [relation EXCEPT ![column] = cached[column]]
                   /\ size' = count /\ diffs' = newDiffs
                   /\ column' = IF column = LastColumn THEN 1 ELSE column + 1
                   /\ pc' = IF column = LastColumn THEN "loaded" ELSE "load"
                   /\ UNCHANGED <<attributes, outcome>>
  /\ UNCHANGED <<tbl, dir, cached, history>>

\* The driver has run its queries.
Exit ==
  /\ pc = "loaded" /\ End("answered")
  /\ UNCHANGED <<tbl, dir, cached, history>>

-----------------------------------------------------------------------------
(* The user, and kills *)

\* In the middle of a copy any part of the values may have arrived.
Kill ==
  /\ pc # "down" /\ End("killed")
  /\ IF pc = "copy"
     THEN \E done \in SUBSET DOMAIN attributes[column] :
            cached' = [cached EXCEPT ![column] = Copied(@, attributes[column], done)]
     ELSE UNCHANGED cached
  /\ damage' = IF column = LastColumn /\ pc = "allocate" THEN "empty"
               ELSE IF column = LastColumn /\ pc = "copy" THEN "torn" ELSE damage
  /\ UNCHANGED <<tbl, dir, latest, replaced>>

ReplaceTable ==
  /\ pc = "down" /\ tbl' \in (Tables \cup {None}) \ {tbl}
  /\ UNCHANGED <<dir, cached, pc, memory, outcome, history>>

\* README.md: mkdir -p data/tpch/sf1/cached
CreateCached ==
  /\ pc = "down" /\ ~dir /\ dir' = TRUE
  /\ UNCHANGED <<tbl, cached, pc, memory, outcome, history>>

EmptyCached ==
  /\ pc = "down" /\ cached' = NoFiles /\ dir' \in BOOLEAN
  /\ latest' = None /\ replaced' = FALSE /\ damage' = "none" /\ outcome' = "none"
  /\ UNCHANGED <<tbl, pc, memory>>

ImportStep == Start \/ MakeDir \/ Look \/ Parse \/ OpenFile \/ Allocate \/ Copy \/ Load \/ Exit
Next == ImportStep \/ Kill \/ ReplaceTable \/ CreateCached \/ EmptyCached
Spec == Init /\ [][Next]_vars

-----------------------------------------------------------------------------

\* What a driver works on is one table: the one parsed last since the directory
\* cached was empty, with as many values in each column, although columns of an
\* older, longer table may have been overwritten in place by a start that was
\* killed.  Only in the last column may values be missing, and only if a start
\* was killed while it copied them: its file, of the right size, is taken for
\* complete ever after.
LoadedIsOneTable ==
  pc = "loaded" =>
    /\ \A c \in Columns \ {LastColumn} : relation[c] = ValuesOf(latest, c)
    /\ Len(relation[LastColumn]) = Len(latest)
    /\ \A i \in DOMAIN latest :
         \/ relation[LastColumn][i] = ValuesOf(latest, LastColumn)[i]
         \/ damage = "torn" /\ relation[LastColumn][i] = Zero

\* A start refuses the files it finds only if tables were exchanged while starts
\* were killed, and a check terminates it only for an empty table, or if a kill
\* left the file of the last column empty; all other kills are repaired by the
\* next start.  One that complains of the directory cached has just created it
\* (mkdir has not failed), so there were no files, and the next one finds it.
RefusalsExplained ==
  /\ outcome = "differ in size" => replaced
  /\ outcome = "terminated" => latest = <<>> \/ damage = "empty"
  /\ outcome = "could not create" => dir /\ cached = NoFiles
=============================================================================
