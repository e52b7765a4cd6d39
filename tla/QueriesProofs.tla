--------------------------- MODULE QueriesProofs ---------------------------
(***************************************************************************)
(* Proofs about MCQueries: how a table gets into memory (TableImport), for *)
(* any number of columns, any tables, values and results of parsing, any   *)
(* number of starts that are killed at any step, and tables exchanged      *)
(* between them.                                                           *)
(***************************************************************************)
EXTENDS MCQueries, TLAPS

-----------------------------------------------------------------------------
(* The import                                                              *)

LastField == Import!LastColumn
Fields == 1..LastField
LastFile == cached[LastField]
Readable(c) == Import!Readable(c)
TextValues(table, c) == Import!ValuesOf(table, c)
Writing == pc \in {"open", "allocate", "copy"}

ImportTyped ==
  /\ tbl \in ImportTables \cup {None}
  /\ latest \in ImportTables \cup {None}
  /\ latest # None => Import!Parses(latest)
  /\ DOMAIN cached = Fields /\ \A c \in Fields : cached[c] \in Seq(Readable(c)) \cup {None}
  /\ DOMAIN parsed = Fields /\ \A c \in Fields : parsed[c] \in Seq(Readable(c))
  /\ DOMAIN relation = Fields /\ \A c \in Fields : relation[c] \in Seq(Readable(c))
  /\ column \in Fields /\ size \in Nat /\ diffs \in Nat
  /\ replaced \in BOOLEAN

\* The file of column c begins with the values of the table parsed last.
Complete(c) ==
  /\ cached[c] # None /\ Len(cached[c]) >= Len(latest)
  /\ \A i \in DOMAIN latest : cached[c][i] = TextValues(latest, c)[i]

\* What a start that wrote the last file, or was killed when it did, left of it.
LastWritten ==
  \/ LastFile = <<>> /\ (damage = "empty" \/ latest = <<>>)
  \/ /\ Len(LastFile) = Len(latest)
     /\ \A i \in DOMAIN latest :
          \/ LastFile[i] = TextValues(latest, LastField)[i]
          \/ damage = "torn" /\ LastFile[i] = Zero

\* Files are made in the order of the columns, so the last is there only when the
\* others are complete; unless tables were exchanged all are of one size.
FilesInv ==
  /\ \A c, d \in Fields : c < d /\ cached[d] # None => cached[c] # None
  /\ latest = None => ~replaced /\ \A c \in Fields : cached[c] = None
  /\ ~replaced => \A c \in Fields : cached[c] # None => Len(cached[c]) \in {0, Len(latest)}
  /\ ~Writing /\ LastFile # None =>
       LastWritten /\ \A c \in Fields : c < LastField => Complete(c)
  /\ pc = "parse" => LastFile = None

WritingInv ==
  Writing =>
    /\ latest # None /\ \A c \in Fields : parsed[c] = TextValues(latest, c)
    /\ \A c \in Fields : c < column => Complete(c)
    /\ LastFile = IF column < LastField \/ pc = "open" THEN None
                  ELSE IF pc = "allocate" THEN <<>> ELSE [i \in DOMAIN latest |-> Zero]
    /\ pc # "open" => cached[column] # None
    /\ pc = "copy" => Len(cached[column]) >= Len(latest)

LoadInv ==
  /\ pc \notin {"load", "loaded"} => size = 0 /\ diffs = 0
  /\ pc \in {"down", "mkdir", "look", "parse"} => column = 1
  /\ pc = "load" =>
       /\ LastFile # None
       /\ column = 1 => size = 0 /\ diffs = 0
       /\ column > 1 => size > 0 /\ diffs > 0
       /\ \A c \in Fields : c < column =>
            relation[c] = cached[c] /\ (diffs = 1 => Len(cached[c]) = size)
       /\ ~replaced /\ column > 1 => diffs = 1 /\ size = Len(latest)

\* A start refuses the files it finds.
FilesRefused ==
  /\ outcome = "differ in size" => replaced
  /\ outcome = "terminated" => latest = <<>> \/ damage = "empty"

ImportInv ==
  /\ ImportTyped /\ FilesInv /\ WritingInv /\ LoadInv
  /\ pc # "down" => outcome = "none"
  /\ FilesRefused /\ LoadedIsOneTable

\* The directory is there when a start looks at it, and no file is where it is not.
DirInv ==
  /\ dir \in BOOLEAN /\ (pc \notin {"down", "mkdir"} => dir)
  /\ ~dir => cached = Import!NoFiles
  /\ outcome = "could not create" => pc = "down" /\ dir /\ cached = Import!NoFiles

LEMMA FieldFacts ==
  /\ LastField \in Nat \ {0} /\ LastField \in Fields /\ Import!Columns = Fields
  /\ \A table \in ImportTables :
       /\ Len(table) \in Nat /\ DOMAIN table = 1..Len(table) /\ table # None
       /\ Len(table) = 0 => table = <<>>
  /\ \A c \in Fields : \A s \in Seq(Readable(c)) : s # None
<1>1. Import!TypesAssumption /\ Import!TablesAssumption
  BY ImportAssumption
<1>2. LastField \in Nat \ {0} /\ Import!Columns = Fields
  BY <1>1 DEF Import!TypesAssumption, LastField, Fields
<1>3. LastField \in Fields
  BY <1>2 DEF Fields
<1>4. ASSUME NEW table \in ImportTables
      PROVE  /\ Len(table) \in Nat /\ DOMAIN table = 1..Len(table) /\ table # None
             /\ Len(table) = 0 => table = <<>>
  <2>1. /\ Len(table) \in Nat /\ table = [i \in 1..Len(table) |-> table[i]]
        /\ None \notin ImportTables
    BY <1>1 DEF Import!TablesAssumption
  <2>2. DOMAIN table = 1..Len(table) /\ table # None
    BY <2>1
  <2>3. ASSUME Len(table) = 0 PROVE table = <<>>
    <3>1. 1..Len(table) = {}
      BY <2>3
    <3> QED BY <2>1, <3>1
  <2> QED BY <2>1, <2>2, <2>3
<1>5. \A c \in Fields : \A s \in Seq(Readable(c)) : s # None
  BY <1>1, <1>2, Zenon DEF Import!TablesAssumption, Readable
<1> QED BY <1>2, <1>3, <1>4, <1>5

LEMMA ValuesFacts ==
  ASSUME NEW table \in ImportTables, Import!Parses(table), NEW c \in Fields
  PROVE  /\ TextValues(table, c) \in Seq(Readable(c)) /\ DOMAIN TextValues(table, c) = DOMAIN table
         /\ Len(TextValues(table, c)) = Len(table)
<1> DEFINE v == TextValues(table, c)
<1>1. v = [i \in DOMAIN table |-> CHOOSE x \in Import!parse(table[i], c) : TRUE]
  BY Zenon DEF TextValues, Import!ValuesOf
<1>2. Len(table) \in Nat /\ DOMAIN table = 1..Len(table)
  BY FieldFacts
<1>3. ASSUME NEW i \in DOMAIN table PROVE v[i] \in Readable(c)
  <2>1. Import!parse(table[i], c) # {}
    BY FieldFacts, Zenon DEF Import!Parses
  <2>2. v[i] \in Import!parse(table[i], c)
    BY <1>1, <2>1
  <2> HIDE DEF v
  <2>3. v[i] \in UNION {Import!parse(table[j], c) : j \in DOMAIN table}
    BY <2>2
  <2>4. v[i] \in UNION {UNION {Import!parse(t[j], c) : j \in DOMAIN t} : t \in ImportTables}
    BY <2>3
  <2> QED BY <2>4 DEF Readable, Import!Readable
<1>4. v \in [1..Len(table) -> Readable(c)]
  BY <1>1, <1>2, <1>3
<1> HIDE DEF v
<1>5. v \in Seq(Readable(c)) /\ Len(v) = Len(table) /\ DOMAIN v = DOMAIN table
  BY <1>2, <1>4
<1> QED BY <1>5 DEF v

LEMMA ZeroReadable == \A c : Zero \in Readable(c)
BY DEF Readable, Import!Readable

LEMMA ImportInit == Import!Init => ImportInv
<1> SUFFICES ASSUME Import!Init PROVE ImportInv
  OBVIOUS
<1>1. /\ tbl \in ImportTables \cup {None} /\ pc = "down" /\ outcome = "none"
      /\ column = 1 /\ size = 0 /\ diffs = 0 /\ latest = None /\ replaced = FALSE
      /\ cached = [c \in Fields |-> None] /\ parsed = [c \in Fields |-> <<>>] /\ relation = [c \in Fields |-> <<>>]
  BY FieldFacts DEF Import!Init, Import!NoFiles, Import!Nothing
<1>2. LastField \in Nat \ {0} /\ LastField \in Fields
  BY FieldFacts
<1>3. ImportTyped
  <2>1. 1 \in Fields
    BY <1>2 DEF Fields
  <2>2. \A c \in Fields : cached[c] = None /\ parsed[c] = <<>> /\ relation[c] = <<>>
    BY <1>1
  <2>3. \A c : <<>> \in Seq(Readable(c))
    OBVIOUS
  <2> QED BY <1>1, <2>1, <2>2, <2>3 DEF ImportTyped
<1>4. FilesInv
  BY <1>1, <1>2 DEF FilesInv, LastFile, Writing
<1>5. WritingInv /\ LoadInv /\ FilesRefused /\ LoadedIsOneTable
  BY <1>1 DEF WritingInv, LoadInv, Writing, FilesRefused, LoadedIsOneTable, Import!LoadedIsOneTable
<1> QED BY <1>1, <1>3, <1>4, <1>5 DEF ImportInv

\* All that the invariant is about: the directory is not.
fileVars == <<tbl, cached, pc, column, parsed, size, diffs, relation, outcome, latest, replaced, damage>>

LEMMA ImportKept == ImportInv /\ UNCHANGED fileVars => ImportInv'
<1> SUFFICES ASSUME ImportInv, UNCHANGED fileVars PROVE ImportInv'
  OBVIOUS
<1> USE DEF fileVars
<1>1. ImportTyped'
  BY DEF ImportInv, ImportTyped
<1>2. \A c : Complete(c)' <=> Complete(c)
  BY DEF Complete
<1>3. /\ LastFile' = LastFile /\ Writing' = Writing /\ (LastWritten' <=> LastWritten)
  BY DEF LastFile, Writing, LastWritten
<1>4. FilesInv'
  BY <1>2, <1>3 DEF ImportInv, FilesInv
<1>5. WritingInv'
  BY <1>2, <1>3 DEF ImportInv, WritingInv
<1>6. LoadInv'
  BY <1>3 DEF ImportInv, LoadInv
<1>7. FilesRefused' /\ LoadedIsOneTable'
  BY DEF ImportInv, FilesRefused, LoadedIsOneTable, Import!LoadedIsOneTable
<1> QED BY <1>1, <1>4, <1>5, <1>6, <1>7 DEF ImportInv

\* A start that is over leaves nothing in memory.
LEMMA StartOver ==
  ASSUME ImportInv, NEW how, Import!End(how), UNCHANGED <<latest, replaced>>,
         tbl' = tbl, FilesRefused', FilesInv',
         DOMAIN cached' = Fields, \A c \in Fields : cached'[c] \in Seq(Readable(c)) \cup {None}
  PROVE  ImportInv'
<1>1. /\ pc' = "down" /\ column' = 1 /\ size' = 0 /\ diffs' = 0
      /\ parsed' = [c \in Fields |-> <<>>] /\ relation' = [c \in Fields |-> <<>>]
  BY FieldFacts DEF Import!End, Import!ForgetMemory, Import!Nothing
<1>2. 1 \in Fields
  BY FieldFacts DEF Fields
<1>3. ImportTyped'
  BY <1>1, <1>2 DEF ImportInv, ImportTyped
<1>4. WritingInv' /\ LoadInv' /\ LoadedIsOneTable'
  BY <1>1 DEF WritingInv, LoadInv, Writing, LoadedIsOneTable, Import!LoadedIsOneTable
<1> QED BY <1>1, <1>3, <1>4 DEF ImportInv

\* When a start writes nothing, its state is kept, and that of the files.
LEMMA FilesKept ==
  ASSUME FilesInv, UNCHANGED <<cached, latest, replaced, damage>>, ~Writing, pc' # "parse"
  PROVE  FilesInv'
<1>1. \A c : Complete(c)' <=> Complete(c)
  BY DEF Complete
<1>2. LastFile' = LastFile /\ (LastWritten' <=> LastWritten)
  BY DEF LastFile, LastWritten
<1> QED BY <1>1, <1>2 DEF FilesInv

LEMMA StartStep == ImportInv /\ Import!Start => ImportInv'
<1> SUFFICES ASSUME ImportInv, Import!Start PROVE ImportInv'
  OBVIOUS
<1>1. /\ pc = "down" /\ pc' = "mkdir" /\ outcome' = "none"
      /\ UNCHANGED <<tbl, cached, column, parsed, size, diffs, relation, latest, replaced, damage>>
  BY DEF Import!Start, Import!memory, Import!history
<1>2. ImportTyped'
  BY <1>1 DEF ImportInv, ImportTyped
<1>3. FilesInv'
  BY <1>1, FilesKept DEF ImportInv, Writing
<1>4. WritingInv' /\ LoadInv'
  BY <1>1 DEF ImportInv, WritingInv, LoadInv, Writing
<1>5. FilesRefused' /\ LoadedIsOneTable'
  BY <1>1 DEF FilesRefused, LoadedIsOneTable, Import!LoadedIsOneTable
<1> QED BY <1>1, <1>2, <1>3, <1>4, <1>5 DEF ImportInv

LEMMA MakeDirStep == ImportInv /\ Import!MakeDir => ImportInv'
<1> SUFFICES ASSUME ImportInv, Import!MakeDir PROVE ImportInv'
  OBVIOUS
<1>1. pc = "mkdir" /\ UNCHANGED <<tbl, cached, latest, replaced, damage>>
  BY DEF Import!MakeDir, Import!history
<1>2. CASE dir
  <2>1. pc' = "look" /\ UNCHANGED <<column, parsed, size, diffs, relation, outcome>>
    BY <1>2 DEF Import!MakeDir, Import!memory
  <2>2. ImportTyped'
    BY <1>1, <2>1 DEF ImportInv, ImportTyped
  <2>3. FilesInv'
    BY <1>1, <2>1, FilesKept DEF ImportInv, Writing
  <2>4. WritingInv' /\ LoadInv'
    BY <1>1, <2>1 DEF ImportInv, WritingInv, LoadInv, Writing
  <2>5. FilesRefused' /\ LoadedIsOneTable'
    BY <1>1, <2>1 DEF ImportInv, FilesRefused, LoadedIsOneTable, Import!LoadedIsOneTable
  <2> QED BY <1>1, <2>1, <2>2, <2>3, <2>4, <2>5 DEF ImportInv
<1>3. CASE ~dir
  <2>1. Import!End("could not create")
    BY <1>3 DEF Import!MakeDir
  <2>2. pc' = "down" /\ outcome' = "could not create"
    BY <2>1 DEF Import!End
  <2>3. FilesInv'
    BY <1>1, <2>2, FilesKept DEF ImportInv, Writing
  <2>4. FilesRefused'
    BY <2>2 DEF FilesRefused
  <2>5. DOMAIN cached' = Fields /\ \A c \in Fields : cached'[c] \in Seq(Readable(c)) \cup {None}
    BY <1>1 DEF ImportInv, ImportTyped
  <2> QED BY <1>1, <2>1, <2>3, <2>4, <2>5, StartOver
<1> QED BY <1>2, <1>3

LEMMA LookStep == ImportInv /\ Import!Look => ImportInv'
<1> SUFFICES ASSUME ImportInv, Import!Look PROVE ImportInv'
  OBVIOUS
<1>1. /\ pc = "look" /\ pc' = IF Import!allColumnsMMaped THEN "load" ELSE "parse"
      /\ UNCHANGED <<tbl, cached, column, parsed, size, diffs, relation, outcome, latest, replaced, damage>>
  BY DEF Import!Look, Import!memory, Import!history
<1>2. ImportTyped'
  BY <1>1 DEF ImportInv, ImportTyped
<1>3. IF \A c \in Fields : cached[c] # None THEN pc' = "load" ELSE pc' = "parse"
  BY <1>1, FieldFacts DEF Import!allColumnsMMaped
<1>4. pc' = "load" <=> LastFile # None
  <2>1. ASSUME NEW c \in Fields, cached[LastField] # None PROVE cached[c] # None
    <3>1. c < LastField \/ c = LastField
      BY FieldFacts DEF Fields
    <3> QED BY <2>1, <3>1, FieldFacts DEF ImportInv, FilesInv
  <2> QED BY <1>3, <2>1, FieldFacts DEF LastFile
<1>5. FilesInv'
  <2>1. \A c : Complete(c)' <=> Complete(c)
    BY <1>1 DEF Complete
  <2>2. LastFile' = LastFile /\ (LastWritten' <=> LastWritten)
    BY <1>1 DEF LastFile, LastWritten
  <2>3. ~Writing /\ pc' \in {"load", "parse"} /\ (pc' = "parse" => LastFile = None)
    BY <1>1, <1>3, <1>4 DEF Writing
  <2> QED BY <1>1, <2>1, <2>2, <2>3 DEF ImportInv, FilesInv
<1>6. WritingInv' /\ LoadInv'
  <2>1. column = 1 /\ size = 0 /\ diffs = 0 /\ LastFile' = LastFile
    BY <1>1 DEF ImportInv, LoadInv, LastFile
  <2>2. \A c \in Fields : ~(c < 1)
    BY DEF Fields
  <2> QED BY <1>1, <1>3, <1>4, <2>1, <2>2 DEF WritingInv, LoadInv, Writing
<1>7. FilesRefused' /\ LoadedIsOneTable'
  BY <1>1, <1>3 DEF ImportInv, FilesRefused, LoadedIsOneTable, Import!LoadedIsOneTable
<1> QED BY <1>1, <1>2, <1>3, <1>5, <1>6, <1>7 DEF ImportInv

LEMMA ParseStep == ImportInv /\ Import!Parse => ImportInv'
<1> SUFFICES ASSUME ImportInv, Import!Parse PROVE ImportInv'
  OBVIOUS
<1>1. pc = "parse" /\ UNCHANGED <<tbl, cached>>
  BY DEF Import!Parse
<1>2. DOMAIN cached' = Fields /\ \A c \in Fields : cached'[c] \in Seq(Readable(c)) \cup {None}
  BY <1>1 DEF ImportInv, ImportTyped
<1>3. ASSUME NEW how \in {"csv file not found", "invalid format"}, Import!End(how),
             UNCHANGED <<latest, replaced, damage>>
      PROVE  ImportInv'
  <2>1. pc' = "down" /\ outcome' = how
    BY <1>3 DEF Import!End
  <2>2. FilesInv'
    BY <1>1, <1>3, <2>1, FilesKept DEF ImportInv, Writing
  <2>3. FilesRefused'
    BY <1>3, <2>1 DEF FilesRefused
  <2> QED BY <1>1, <1>2, <1>3, <2>2, <2>3, StartOver
<1>4. CASE tbl = None
  BY <1>3, <1>4 DEF Import!Parse, Import!history
<1>5. CASE tbl # None /\ ~Import!Parses(tbl)
  BY <1>3, <1>5 DEF Import!Parse, Import!history
<1>6. CASE tbl # None /\ Import!Parses(tbl)
  <2>1. /\ pc' = "open" /\ parsed' = [c \in Fields |-> TextValues(tbl, c)] /\ latest' = tbl
        /\ replaced' = (replaced \/ latest \notin {None, tbl})
        /\ UNCHANGED <<column, size, diffs, relation, outcome, damage>>
    BY <1>6, FieldFacts DEF Import!Parse, TextValues
  <2>2. tbl \in ImportTables /\ column = 1 /\ size = 0 /\ diffs = 0 /\ LastFile = None
    BY <1>1, <1>6 DEF ImportInv, ImportTyped, LoadInv, FilesInv
  <2>3. \A c \in Fields : TextValues(tbl, c) \in Seq(Readable(c))
    BY <1>6, <2>2, ValuesFacts
  <2>4. ImportTyped'
    <3>1. \A c \in Fields : parsed'[c] \in Seq(Readable(c))
      BY <2>1, <2>3
    <3>2. latest' # None => Import!Parses(latest)'
      BY <1>6, <2>1, Zenon DEF Import!Parses
    <3> QED BY <1>1, <1>2, <2>1, <2>2, <3>1, <3>2 DEF ImportInv, ImportTyped
  <2>5. LastFile' = None /\ Writing'
    BY <1>1, <2>1, <2>2 DEF LastFile, Writing
  <2>6. FilesInv'
    <3>1. \A c, d \in Fields : c < d /\ cached'[d] # None => cached'[c] # None
      BY <1>1 DEF ImportInv, FilesInv
    <3>2. latest' # None
      BY <1>6, <2>1
    <3>3. ASSUME ~replaced', NEW c \in Fields, cached'[c] # None
          PROVE  Len(cached'[c]) \in {0, Len(latest')}
      <4>1. ~replaced /\ latest \in {None, tbl}
        BY <2>1, <3>3
      <4>2. latest # None
        BY <1>1, <3>3 DEF ImportInv, FilesInv
      <4> QED BY <1>1, <2>1, <3>3, <4>1, <4>2 DEF ImportInv, FilesInv
    <3> QED BY <2>1, <2>5, <3>1, <3>2, <3>3 DEF FilesInv
  <2>7. WritingInv'
    <3>1. \A c \in Fields : ~(c < column') /\ parsed'[c] = TextValues(latest', c)
      BY <2>1, <2>2 DEF Fields
    <3> QED BY <1>6, <2>1, <2>5, <3>1 DEF WritingInv
  <2>8. LoadInv'
    BY <2>1, <2>2 DEF LoadInv
  <2>9. FilesRefused' /\ LoadedIsOneTable' /\ outcome' = "none"
    BY <1>1, <2>1 DEF ImportInv, FilesRefused, LoadedIsOneTable, Import!LoadedIsOneTable
  <2> QED BY <2>4, <2>6, <2>7, <2>8, <2>9 DEF ImportInv
<1> QED BY <1>4, <1>5, <1>6

\* A step of a start that writes: only the file of its column changes.
LEMMA WritingFacts ==
  ASSUME ImportInv, Writing
  PROVE  /\ latest \in ImportTables /\ Import!Parses(latest)
         /\ Len(latest) \in Nat /\ DOMAIN latest = 1..Len(latest)
         /\ column \in Fields /\ parsed[column] = TextValues(latest, column)
         /\ DOMAIN parsed[column] = DOMAIN latest /\ Len(parsed[column]) = Len(latest)
         /\ parsed[column] \in Seq(Readable(column)) /\ size = 0 /\ diffs = 0
<1>1. latest # None /\ column \in Fields /\ parsed[column] = TextValues(latest, column)
  BY DEF ImportInv, ImportTyped, WritingInv
<1>2. latest \in ImportTables /\ Import!Parses(latest)
  BY <1>1 DEF ImportInv, ImportTyped
<1>3. size = 0 /\ diffs = 0
  BY DEF ImportInv, LoadInv, Writing
<1>4. Len(latest) \in Nat /\ DOMAIN latest = 1..Len(latest)
  BY <1>2, FieldFacts
<1>5. /\ TextValues(latest, column) \in Seq(Readable(column))
      /\ DOMAIN TextValues(latest, column) = DOMAIN latest /\ Len(TextValues(latest, column)) = Len(latest)
  BY <1>1, <1>2, ValuesFacts
<1> QED BY <1>1, <1>2, <1>3, <1>4, <1>5

LEMMA WrittenTyped ==
  ASSUME ImportTyped, NEW file, file \in Seq(Readable(column)) \cup {None}, cached' = [cached EXCEPT ![column] = file]
  PROVE  DOMAIN cached' = Fields /\ \A c \in Fields : cached'[c] \in Seq(Readable(c)) \cup {None}
<1>1. DOMAIN cached = Fields /\ column \in Fields
  BY DEF ImportTyped
<1>2. ASSUME NEW c \in Fields PROVE cached'[c] \in Seq(Readable(c)) \cup {None}
  <2>1. CASE c = column
    BY <1>1, <2>1
  <2>2. CASE c # column
    BY <1>1, <2>2 DEF ImportTyped
  <2> QED BY <2>1, <2>2
<1> QED BY <1>1, <1>2

LEMMA OpenFileStep == ImportInv /\ Import!OpenFile => ImportInv'
<1> SUFFICES ASSUME ImportInv, Import!OpenFile PROVE ImportInv'
  OBVIOUS
<1> DEFINE file == IF cached[column] = None THEN <<>> ELSE cached[column]
<1>1. /\ pc = "open" /\ pc' = "allocate" /\ cached' = [cached EXCEPT ![column] = file]
      /\ UNCHANGED <<tbl, column, parsed, size, diffs, relation, outcome, latest, replaced, damage>>
  BY DEF Import!OpenFile, Import!memory, Import!history
<1>2. Writing /\ Writing'
  BY <1>1 DEF Writing
<1>3. /\ column \in Fields /\ DOMAIN cached = Fields /\ cached[column] \in Seq(Readable(column)) \cup {None}
      /\ Len(latest) \in Nat /\ DOMAIN latest = 1..Len(latest)
  BY <1>2, WritingFacts DEF ImportInv, ImportTyped
<1>4. file \in Seq(Readable(column)) /\ file # None
  <2>1. <<>> \in Seq(Readable(column))
    OBVIOUS
  <2>2. file \in Seq(Readable(column))
    BY <1>3, <2>1
  <2> HIDE DEF file
  <2> QED BY <1>3, <2>2, FieldFacts
<1>5. /\ cached'[column] = file /\ \A c \in Fields \ {column} : cached'[c] = cached[c]
  BY <1>1, <1>3
<1>6. ImportTyped'
  BY <1>1, <1>4, WrittenTyped DEF ImportInv, ImportTyped
<1>7. FilesInv'
  <2>1. ASSUME NEW c \in Fields, NEW d \in Fields, c < d, cached'[d] # None PROVE cached'[c] # None
    <3>1. CASE c = column
      BY <1>4, <1>5, <3>1
    <3>2. CASE c # column /\ d = column
      BY <1>2, <1>5, <2>1, <3>2 DEF ImportInv, WritingInv, Complete
    <3>3. CASE c # column /\ d # column
      BY <1>5, <2>1, <3>3 DEF ImportInv, FilesInv
    <3> QED BY <3>1, <3>2, <3>3
  <2>2. latest' # None
    BY <1>1, <1>2 DEF ImportInv, WritingInv
  <2>3. ASSUME ~replaced', NEW c \in Fields, cached'[c] # None PROVE Len(cached'[c]) \in {0, Len(latest')}
    <3>1. CASE c = column /\ cached[column] = None
      BY <1>5, <3>1
    <3>2. CASE c # column \/ cached[column] # None
      BY <1>1, <1>5, <2>3, <3>2 DEF ImportInv, FilesInv
    <3> QED BY <3>1, <3>2
  <2> QED BY <1>1, <1>2, <2>1, <2>2, <2>3 DEF FilesInv
<1>8. WritingInv'
  <2>1. ASSUME NEW c \in Fields, c < column PROVE Complete(c)'
    <3>1. c # column /\ Complete(c)
      BY <1>2, <1>3, <2>1 DEF Fields, ImportInv, WritingInv
    <3> QED BY <1>1, <1>5, <3>1 DEF Complete
  <2>2. LastFile' = IF column < LastField THEN None ELSE <<>>
    <3>1. LastFile = None
      BY <1>1, <1>2 DEF ImportInv, WritingInv
    <3>2. CASE column < LastField
      BY <1>3, <1>5, <3>1, <3>2, FieldFacts DEF LastFile, Fields
    <3>3. CASE ~(column < LastField)
      <4>1. column = LastField
        BY <1>3, <3>3, FieldFacts DEF Fields
      <4> QED BY <1>5, <3>1, <3>3, <4>1 DEF LastFile
    <3> QED BY <3>2, <3>3
  <2>3. latest' # None /\ \A c \in Fields : parsed'[c] = TextValues(latest', c)
    BY <1>1, <1>2 DEF ImportInv, WritingInv
  <2> QED BY <1>1, <1>4, <1>5, <2>1, <2>2, <2>3 DEF WritingInv
<1>9. LoadInv' /\ FilesRefused' /\ LoadedIsOneTable' /\ outcome' = "none"
  BY <1>1, <1>2 DEF ImportInv, LoadInv, FilesRefused, LoadedIsOneTable, Import!LoadedIsOneTable
<1> QED BY <1>6, <1>7, <1>8, <1>9 DEF ImportInv

\* An allocation of nothing ends the start with an empty table in memory.
LEMMA AllocateNothing ==
  ASSUME ImportInv, Import!Allocate, parsed[column] = <<>>
  PROVE  ImportInv'
<1>1. /\ pc = "allocate" /\ Import!End("terminated")
      /\ UNCHANGED <<tbl, cached, latest, replaced, damage>>
  BY DEF Import!Allocate, Import!history
<1>2. Writing
  BY <1>1 DEF Writing
<1>3. latest = <<>> /\ Len(latest) = 0 /\ DOMAIN latest = {} /\ column \in Fields
  BY <1>2, WritingFacts, FieldFacts
<1>4. pc' = "down" /\ outcome' = "terminated"
  BY <1>1 DEF Import!End
<1>5. FilesRefused'
  BY <1>1, <1>3, <1>4 DEF FilesRefused
<1>6. FilesInv'
  <2>1. ASSUME LastFile # None
        PROVE  LastWritten' /\ \A c \in Fields : c < LastField => Complete(c)'
    <3>1. LastFile = <<>> /\ column = LastField
      BY <1>1, <1>2, <1>3, <2>1, FieldFacts DEF ImportInv, WritingInv, Fields
    <3>2. LastWritten'
      BY <1>1, <1>3, <3>1 DEF LastWritten, LastFile
    <3>3. ASSUME NEW c \in Fields, c < LastField PROVE Complete(c)'
      BY <1>1, <1>2, <3>1, <3>3 DEF ImportInv, WritingInv, Complete
    <3> QED BY <3>2, <3>3
  <2>2. LastFile' = LastFile /\ ~Writing' /\ pc' # "parse"
    BY <1>1, <1>4 DEF LastFile, Writing
  <2> QED BY <1>1, <2>1, <2>2 DEF ImportInv, FilesInv
<1>7. DOMAIN cached' = Fields /\ \A c \in Fields : cached'[c] \in Seq(Readable(c)) \cup {None}
  BY <1>1 DEF ImportInv, ImportTyped
<1> QED BY <1>1, <1>5, <1>6, <1>7, StartOver

LEMMA LongerFacts ==
  ASSUME NEW c, NEW file \in Seq(Readable(c)), NEW n \in Nat
  PROVE  LET long == Import!Longer(file, n)
         IN  /\ long \in Seq(Readable(c)) /\ Len(long) = IF Len(file) > n THEN Len(file) ELSE n
             /\ long = [i \in 1..Len(long) |-> IF i <= Len(file) THEN file[i] ELSE Zero]
<1> DEFINE m == IF Len(file) > n THEN Len(file) ELSE n
           long == Import!Longer(file, n)
<1>1. m \in Nat /\ Len(file) \in Nat
  OBVIOUS
<1>2. long = [i \in 1..m |-> IF i <= Len(file) THEN file[i] ELSE Zero]
  BY Zenon DEF Import!Longer
<1> HIDE DEF m
<1>3. \A i \in 1..m : (IF i <= Len(file) THEN file[i] ELSE Zero) \in Readable(c)
  BY <1>1, ZeroReadable
<1>4. long \in [1..m -> Readable(c)]
  BY <1>2, <1>3
<1> HIDE DEF long
<1>5. long \in Seq(Readable(c)) /\ Len(long) = m
  BY <1>1, <1>4
<1>6. long = [i \in 1..Len(long) |-> IF i <= Len(file) THEN file[i] ELSE Zero]
  BY <1>2, <1>5
<1> QED BY <1>5, <1>6 DEF m, long

LEMMA AllocateStep == ImportInv /\ Import!Allocate => ImportInv'
<1> SUFFICES ASSUME ImportInv, Import!Allocate, parsed[column] # <<>> PROVE ImportInv'
  BY AllocateNothing
<1> DEFINE file == Import!Longer(cached[column], Len(parsed[column]))
<1>1. /\ pc = "allocate" /\ pc' = "copy" /\ cached' = [cached EXCEPT ![column] = file]
      /\ UNCHANGED <<tbl, column, parsed, size, diffs, relation, outcome, latest, replaced, damage>>
  BY DEF Import!Allocate, Import!memory, Import!history
<1>2. Writing /\ Writing'
  BY <1>1 DEF Writing
<1>3. /\ column \in Fields /\ DOMAIN cached = Fields /\ cached[column] # None
      /\ cached[column] \in Seq(Readable(column))
      /\ Len(latest) \in Nat /\ DOMAIN latest = 1..Len(latest) /\ Len(parsed[column]) = Len(latest)
  BY <1>1, <1>2, WritingFacts DEF ImportInv, ImportTyped, WritingInv
<1>4. /\ file \in Seq(Readable(column)) /\ file # None
      /\ Len(file) = IF Len(cached[column]) > Len(latest) THEN Len(cached[column]) ELSE Len(latest)
      /\ file = [i \in 1..Len(file) |-> IF i <= Len(cached[column]) THEN cached[column][i] ELSE Zero]
  BY <1>3, LongerFacts, FieldFacts
<1> HIDE DEF file
<1>5. cached'[column] = file /\ \A c \in Fields \ {column} : cached'[c] = cached[c]
  BY <1>1, <1>3
<1>6. ImportTyped'
  BY <1>1, <1>4, WrittenTyped DEF ImportInv, ImportTyped
<1>7. FilesInv'
  <2>1. \A c \in Fields : cached'[c] # None <=> cached[c] # None
    BY <1>3, <1>4, <1>5
  <2>2. latest' # None
    BY <1>1, <1>2 DEF ImportInv, WritingInv
  <2>3. ASSUME ~replaced', NEW c \in Fields, cached'[c] # None PROVE Len(cached'[c]) \in {0, Len(latest')}
    <3>1. Len(cached[c]) \in {0, Len(latest)}
      BY <1>1, <2>1, <2>3 DEF ImportInv, FilesInv
    <3>2. CASE c = column
      BY <1>1, <1>3, <1>4, <1>5, <3>1, <3>2
    <3>3. CASE c # column
      BY <1>1, <1>5, <3>1, <3>3
    <3> QED BY <3>2, <3>3
  <2> QED BY <1>1, <1>2, <2>1, <2>2, <2>3 DEF ImportInv, FilesInv
<1>8. WritingInv'
  <2>1. ASSUME NEW c \in Fields, c < column PROVE Complete(c)'
    <3>1. c # column /\ Complete(c)
      BY <1>2, <1>3, <2>1 DEF Fields, ImportInv, WritingInv
    <3> QED BY <1>1, <1>5, <3>1 DEF Complete
  <2>2. LastFile' = IF column < LastField THEN None ELSE [i \in DOMAIN latest |-> Zero]
    <3>1. CASE column < LastField
      <4>1. LastFile = None /\ LastField # column
        BY <1>2, <1>3, <3>1, FieldFacts DEF ImportInv, WritingInv, Fields
      <4> QED BY <1>5, <3>1, <4>1, FieldFacts DEF LastFile
    <3>2. CASE ~(column < LastField)
      <4>1. column = LastField
        BY <1>3, <3>2, FieldFacts DEF Fields
      <4>2. cached[column] = <<>> /\ Len(cached[column]) = 0
        BY <1>1, <1>2, <4>1, <3>2 DEF ImportInv, WritingInv, LastFile
      <4>3. Len(file) = Len(latest)
        BY <1>3, <1>4, <4>2
      <4>4. file = [i \in 1..Len(latest) |-> IF i <= 0 THEN cached[column][i] ELSE Zero]
        BY <1>4, <4>2, <4>3
      <4>5. file = [i \in 1..Len(latest) |-> Zero]
        BY <1>3, <4>4
      <4> QED BY <1>3, <1>5, <3>2, <4>1, <4>5 DEF LastFile
    <3> QED BY <3>1, <3>2
  <2>3. latest' # None /\ \A c \in Fields : parsed'[c] = TextValues(latest', c)
    BY <1>1, <1>2 DEF ImportInv, WritingInv
  <2>4. Len(cached'[column]) >= Len(latest)
    BY <1>3, <1>4, <1>5
  <2> QED BY <1>1, <1>4, <1>5, <2>1, <2>2, <2>3, <2>4 DEF WritingInv
<1>9. LoadInv' /\ FilesRefused' /\ LoadedIsOneTable' /\ outcome' = "none"
  BY <1>1, <1>2 DEF ImportInv, LoadInv, FilesRefused, LoadedIsOneTable, Import!LoadedIsOneTable
<1> QED BY <1>6, <1>7, <1>8, <1>9 DEF ImportInv

\* What a copy of the values of some rows makes of a file.
LEMMA CopiedFacts ==
  ASSUME ImportInv, Writing, pc = "copy", NEW done \in SUBSET (DOMAIN parsed[column])
  PROVE  LET file == Import!Copied(cached[column], parsed[column], done)
         IN  /\ file \in Seq(Readable(column)) /\ file # None /\ Len(file) = Len(cached[column])
             /\ \A i \in DOMAIN latest :
                  file[i] = IF i \in done THEN TextValues(latest, column)[i] ELSE cached[column][i]
<1> DEFINE old == cached[column]
           file == Import!Copied(old, parsed[column], done)
<1>1. /\ column \in Fields /\ old # None /\ old \in Seq(Readable(column))
      /\ Len(old) >= Len(latest)
  BY WritingFacts DEF ImportInv, ImportTyped, WritingInv
<1>2. /\ parsed[column] = TextValues(latest, column) /\ parsed[column] \in Seq(Readable(column))
      /\ DOMAIN parsed[column] = DOMAIN latest /\ Len(latest) \in Nat /\ DOMAIN latest = 1..Len(latest)
  BY WritingFacts
<1> HIDE DEF old
<1>3. Len(old) \in Nat /\ DOMAIN old = 1..Len(old)
  BY <1>1
<1>4. file = [i \in 1..Len(old) |-> IF i \in done THEN parsed[column][i] ELSE old[i]]
  BY <1>3 DEF Import!Copied
<1>5. \A i \in 1..Len(old) : (IF i \in done THEN parsed[column][i] ELSE old[i]) \in Readable(column)
  <2>1. \A i \in DOMAIN parsed[column] : parsed[column][i] \in Readable(column)
    BY <1>2
  <2>2. \A i \in 1..Len(old) : old[i] \in Readable(column)
    BY <1>1
  <2> QED BY <2>1, <2>2
<1>6. file \in [1..Len(old) -> Readable(column)]
  BY <1>4, <1>5
<1>7. file \in Seq(Readable(column)) /\ Len(file) = Len(old)
  <2> HIDE DEF file
  <2> QED BY <1>3, <1>6
<1>8. file # None
  BY <1>1, <1>7, FieldFacts
<1>9. \A i \in DOMAIN latest : i \in 1..Len(old)
  BY <1>1, <1>2, <1>3
<1>10. \A i \in DOMAIN latest : file[i] = IF i \in done THEN TextValues(latest, column)[i] ELSE old[i]
  BY <1>2, <1>4, <1>9
<1> QED BY <1>7, <1>8, <1>10 DEF old

\* What the last file is while it is written.
LEMMA LastZero ==
  ASSUME ImportInv, Writing, pc = "copy", column = LastField
  PROVE  /\ Len(cached[column]) = Len(latest) /\ \A i \in DOMAIN latest : cached[column][i] = Zero
<1>1. cached[column] = [i \in DOMAIN latest |-> Zero]
  BY FieldFacts DEF ImportInv, WritingInv, LastFile
<1>2. Len(latest) \in Nat /\ DOMAIN latest = 1..Len(latest)
  BY WritingFacts
<1> QED BY <1>1, <1>2

LEMMA CopyStep == ImportInv /\ Import!Copy => ImportInv'
<1> SUFFICES ASSUME ImportInv, Import!Copy PROVE ImportInv'
  OBVIOUS
<1> DEFINE file == Import!Copied(cached[column], parsed[column], DOMAIN parsed[column])
<1>1. /\ pc = "copy" /\ cached' = [cached EXCEPT ![column] = file]
      /\ pc' = IF column = LastField THEN "load" ELSE "open"
      /\ column' = IF column = LastField THEN 1 ELSE column + 1
      /\ UNCHANGED <<tbl, parsed, size, diffs, relation, outcome, latest, replaced, damage>>
  BY DEF Import!Copy, Import!history, LastField
<1>2. Writing
  BY <1>1 DEF Writing
<1>3. /\ file \in Seq(Readable(column)) /\ file # None /\ Len(file) = Len(cached[column])
      /\ \A i \in DOMAIN latest : file[i] = TextValues(latest, column)[i]
  <2>1. DOMAIN parsed[column] = DOMAIN latest /\ DOMAIN parsed[column] \in SUBSET (DOMAIN parsed[column])
    BY <1>2, WritingFacts
  <2> QED BY <1>1, <1>2, <2>1, CopiedFacts
<1> HIDE DEF file
<1>4. /\ column \in Fields /\ DOMAIN cached = Fields /\ cached[column] # None
      /\ Len(cached[column]) >= Len(latest) /\ size = 0 /\ diffs = 0
      /\ Len(latest) \in Nat /\ DOMAIN latest = 1..Len(latest) /\ latest # None
  BY <1>1, <1>2, WritingFacts DEF ImportInv, ImportTyped, WritingInv
<1>5. cached'[column] = file /\ \A c \in Fields \ {column} : cached'[c] = cached[c]
  BY <1>1, <1>4
<1>6. /\ column' \in Fields /\ LastField \in Nat \ {0} /\ column \in Nat /\ column >= 1 /\ column <= LastField
  BY <1>1, <1>4, FieldFacts DEF Fields
<1>7. ImportTyped'
  <2>1. DOMAIN cached' = Fields /\ \A c \in Fields : cached'[c] \in Seq(Readable(c)) \cup {None}
    BY <1>1, <1>3, WrittenTyped DEF ImportInv
  <2> QED BY <1>1, <1>6, <2>1 DEF ImportInv, ImportTyped
<1>8. ASSUME NEW c \in Fields, c <= column PROVE Complete(c)'
  <2>1. CASE c = column
    BY <1>1, <1>3, <1>4, <1>5, <2>1 DEF Complete
  <2>2. CASE c # column
    <3>1. Complete(c)
      BY <1>2, <1>6, <1>8, <2>2 DEF ImportInv, WritingInv, Fields
    <3> QED BY <1>1, <1>5, <2>2, <3>1 DEF Complete
  <2> QED BY <2>1, <2>2
<1>9. \A c \in Fields : cached'[c] # None <=> cached[c] # None
  BY <1>3, <1>4, <1>5
<1>10. column = LastField => LastWritten'
  <2>1. ASSUME column = LastField
        PROVE  /\ Len(file) = Len(latest) /\ LastFile' = file
               /\ \A i \in DOMAIN latest : file[i] = TextValues(latest, LastField)[i]
    BY <1>1, <1>2, <1>3, <1>5, <2>1, LastZero, FieldFacts DEF LastFile
  <2> QED BY <1>1, <2>1 DEF LastWritten
<1>11. column # LastField => LastFile' = None
  <2>1. column # LastField => LastFile = None
    BY <1>2, <1>6 DEF ImportInv, WritingInv
  <2> QED BY <1>5, <2>1, FieldFacts DEF LastFile
<1>12. FilesInv'
  <2>1. ASSUME ~replaced', NEW c \in Fields, cached'[c] # None PROVE Len(cached'[c]) \in {0, Len(latest')}
    <3>1. Len(cached'[c]) = Len(cached[c])
      BY <1>3, <1>5
    <3> QED BY <1>1, <1>9, <2>1, <3>1 DEF ImportInv, FilesInv
  <2>2. ASSUME LastFile' # None PROVE LastWritten' /\ \A c \in Fields : c < LastField => Complete(c)'
    <3>1. column = LastField /\ LastWritten'
      BY <1>10, <1>11, <2>2
    <3>2. \A c \in Fields : c < LastField => c <= column
      BY <3>1, FieldFacts DEF Fields
    <3> QED BY <1>8, <3>1, <3>2
  <2>3. \A c, d \in Fields : c < d /\ cached'[d] # None => cached'[c] # None
    BY <1>9 DEF ImportInv, FilesInv
  <2> QED BY <1>1, <1>4, <2>1, <2>2, <2>3 DEF FilesInv
<1>13. WritingInv'
  <2>1. CASE column = LastField
    BY <1>1, <2>1 DEF WritingInv, Writing
  <2>2. CASE column # LastField
    <3>1. pc' = "open" /\ column' = column + 1 /\ LastFile' = None
      BY <1>1, <1>11, <2>2
    <3>2. ASSUME NEW c \in Fields, c < column' PROVE Complete(c)'
      BY <1>6, <1>8, <3>1, <3>2 DEF Fields
    <3>3. latest' # None /\ \A c \in Fields : parsed'[c] = TextValues(latest', c)
      BY <1>1, <1>2 DEF ImportInv, WritingInv
    <3> QED BY <3>1, <3>2, <3>3 DEF WritingInv
  <2> QED BY <2>1, <2>2
<1>14. LoadInv'
  <2>1. pc' = "load" => column' = 1 /\ LastFile' # None
    BY <1>1, <1>3, <1>5 DEF LastFile
  <2>2. \A c \in Fields : ~(c < 1)
    BY DEF Fields
  <2> QED BY <1>1, <1>4, <2>1, <2>2 DEF LoadInv
<1>15. FilesRefused' /\ LoadedIsOneTable' /\ outcome' = "none"
  BY <1>1, <1>2 DEF ImportInv, FilesRefused, LoadedIsOneTable, Import!LoadedIsOneTable
<1> QED BY <1>7, <1>12, <1>13, <1>14, <1>15 DEF ImportInv

\* All files are there when they are mapped.
LEMMA LoadFacts ==
  ASSUME ImportInv, pc = "load"
  PROVE  /\ \A c \in Fields : cached[c] # None /\ cached[c] \in Seq(Readable(c))
         /\ \A c \in Fields : c < LastField => Complete(c)
         /\ LastWritten /\ latest # None
         /\ latest \in ImportTables /\ Len(latest) \in Nat /\ DOMAIN latest = 1..Len(latest)
         /\ Len(latest) = 0 => latest = <<>>
<1>1. LastFile # None /\ ~Writing /\ LastField \in Fields
  BY FieldFacts DEF ImportInv, LoadInv, Writing
<1>2. ASSUME NEW c \in Fields PROVE cached[c] # None /\ cached[c] \in Seq(Readable(c))
  <2>1. c < LastField \/ c = LastField
    BY FieldFacts DEF Fields
  <2>2. cached[c] # None
    BY <1>1, <2>1 DEF ImportInv, FilesInv, LastFile
  <2> QED BY <2>2 DEF ImportInv, ImportTyped
<1>3. LastWritten /\ \A c \in Fields : c < LastField => Complete(c)
  BY <1>1 DEF ImportInv, FilesInv
<1>4. latest # None
  BY <1>1 DEF ImportInv, FilesInv, LastFile
<1>5. latest \in ImportTables
  BY <1>4 DEF ImportInv, ImportTyped
<1> QED BY <1>2, <1>3, <1>4, <1>5, FieldFacts

LEMMA LoadRefused ==
  ASSUME ImportInv, pc = "load", UNCHANGED <<tbl, cached, latest, replaced, damage>>,
         NEW how, Import!End(how),
         how = "differ in size" => replaced,
         how = "terminated" => latest = <<>> \/ damage = "empty"
  PROVE  ImportInv'
<1>1. pc' = "down" /\ outcome' = how
  BY DEF Import!End
<1>2. FilesInv'
  BY <1>1, FilesKept DEF ImportInv, Writing
<1>3. FilesRefused'
  BY <1>1 DEF FilesRefused
<1>4. DOMAIN cached' = Fields /\ \A c \in Fields : cached'[c] \in Seq(Readable(c)) \cup {None}
  BY DEF ImportInv, ImportTyped
<1> QED BY <1>2, <1>3, <1>4, StartOver

LEMMA LoadStep == ImportInv /\ Import!Load => ImportInv'
<1> SUFFICES ASSUME ImportInv, Import!Load PROVE ImportInv'
  OBVIOUS
<1> DEFINE count == Len(cached[column])
           newDiffs == diffs + (IF size # count THEN 1 ELSE 0)
<1>1. pc = "load" /\ UNCHANGED <<tbl, cached, latest, replaced, damage>>
  BY DEF Import!Load, Import!history
<1>2. /\ column \in Fields /\ cached[column] # None /\ count \in Nat /\ size \in Nat /\ diffs \in Nat
      /\ DOMAIN relation = Fields /\ cached[column] \in Seq(Readable(column))
  <2>1. column \in Fields /\ size \in Nat /\ diffs \in Nat /\ DOMAIN relation = Fields
    BY DEF ImportInv, ImportTyped
  <2>2. cached[column] # None /\ cached[column] \in Seq(Readable(column))
    BY <1>1, <2>1, LoadFacts
  <2> QED BY <2>1, <2>2
<1>3. /\ column \in Nat /\ column >= 1 /\ column <= LastField /\ LastField \in Nat \ {0} /\ LastField \in Fields
      /\ column + 1 \in Fields \/ column = LastField
  BY <1>2, FieldFacts DEF Fields
<1>4. CASE cached[column] = <<>>
  <2>1. Import!End("terminated")
    BY <1>4 DEF Import!Load
  <2>2. latest = <<>> \/ damage = "empty"
    <3>1. CASE column < LastField
      <4>1. Complete(column) /\ Len(cached[column]) = 0
        BY <1>1, <1>2, <1>4, <3>1, LoadFacts
      <4> QED BY <1>1, <4>1, LoadFacts DEF Complete
    <3>2. CASE column = LastField
      <4>1. LastWritten /\ LastFile = <<>> /\ Len(LastFile) = 0
        BY <1>1, <1>4, <3>2, LoadFacts DEF LastFile
      <4> QED BY <1>1, <4>1, LoadFacts DEF LastWritten
    <3> QED BY <1>3, <3>1, <3>2
  <2> QED BY <1>1, <2>1, <2>2, LoadRefused
<1>5. CASE cached[column] # <<>>
  <2>0. count > 0
    BY <1>2, <1>5
  <2>1. newDiffs \in Nat /\ newDiffs > 0 /\ newDiffs >= diffs
    <3>1. size # count \/ diffs > 0
      <4>1. column = 1 => size = 0
        BY <1>1 DEF ImportInv, LoadInv
      <4>2. column > 1 => diffs > 0
        BY <1>1 DEF ImportInv, LoadInv
      <4> QED BY <1>2, <1>3, <2>0, <4>1, <4>2
    <3> QED BY <1>2, <3>1
  <2>2. ~replaced => count = Len(latest) /\ newDiffs = 1
    <3>1. ~replaced => count = Len(latest)
      BY <1>2, <2>0 DEF ImportInv, FilesInv
    <3>2. ~replaced /\ column > 1 => diffs = 1 /\ size = Len(latest)
      BY <1>1 DEF ImportInv, LoadInv
    <3>3. column = 1 => size = 0 /\ diffs = 0
      BY <1>1 DEF ImportInv, LoadInv
    <3> QED BY <1>2, <1>3, <2>0, <3>1, <3>2, <3>3
  <2>3. ASSUME newDiffs = 1, NEW c \in Fields, c < column PROVE Len(cached[c]) = count
    <3>1. column > 1
      BY <1>3, <2>3 DEF Fields
    <3>2. diffs > 0
      BY <1>1, <3>1 DEF ImportInv, LoadInv
    <3>3. diffs = 1 /\ size = count
      BY <1>2, <2>1, <2>3, <3>2
    <3> QED BY <1>1, <2>3, <3>3 DEF ImportInv, LoadInv
  <2>4. CASE Import!SizesDiffer(newDiffs)
    <3>1. Import!End("differ in size")
      BY <1>5, <2>4 DEF Import!Load
    <3>2. replaced
      BY <2>1, <2>2, <2>4 DEF Import!SizesDiffer
    <3> QED BY <1>1, <3>1, <3>2, LoadRefused
  <2>5. CASE ~Import!SizesDiffer(newDiffs)
    <3>1. /\ relation' = [relation EXCEPT ![column] = cached[column]]
          /\ size' = count /\ diffs' = newDiffs
          /\ column' = IF column = LastField THEN 1 ELSE column + 1
          /\ pc' = IF column = LastField THEN "loaded" ELSE "load"
          /\ UNCHANGED <<parsed, outcome>>
      BY <1>5, <2>5 DEF Import!Load, LastField
    <3>2. column = LastField => newDiffs = 1
      BY <2>1, <2>5 DEF Import!SizesDiffer, LastField
    <3> HIDE DEF count, newDiffs
    <3>3. relation'[column] = cached[column] /\ \A c \in Fields \ {column} : relation'[c] = relation[c]
      BY <1>2, <3>1
    <3>4. \A c \in Fields : c <= column => relation'[c] = cached[c]
      <4>1. \A c \in Fields : c < column => relation[c] = cached[c]
        BY <1>1 DEF ImportInv, LoadInv
      <4>2. \A c \in Fields : c <= column /\ c # column => c < column
        BY <1>3 DEF Fields
      <4> QED BY <3>3, <4>1, <4>2
    <3>5. ImportTyped'
      <4>1. column' \in Fields
        BY <1>3, <3>1, FieldFacts DEF Fields
      <4>2. DOMAIN relation' = Fields /\ \A c \in Fields : relation'[c] \in Seq(Readable(c))
        BY <1>2, <3>1, <3>3 DEF ImportInv, ImportTyped
      <4> QED BY <1>1, <1>2, <2>1, <3>1, <4>1, <4>2 DEF ImportInv, ImportTyped
    <3>6. FilesInv'
      BY <1>1, <3>1, FilesKept DEF ImportInv, Writing
    <3>7. WritingInv'
      BY <3>1 DEF WritingInv, Writing
    <3>8. LoadInv'
      <4>1. CASE column = LastField
        BY <3>1, <4>1 DEF LoadInv
      <4>2. CASE column # LastField
        <5>1. pc' = "load" /\ column' = column + 1 /\ LastFile' # None
          BY <1>1, <3>1, <4>2, LoadFacts, FieldFacts DEF LastFile
        <5>2. ASSUME NEW c \in Fields, c < column'
              PROVE  relation'[c] = cached'[c] /\ (diffs' = 1 => Len(cached'[c]) = size')
          <6>1. c <= column
            BY <1>3, <5>1, <5>2 DEF Fields
          <6>2. c = column => Len(cached[c]) = count
            BY DEF count
          <6> QED BY <1>1, <1>3, <2>3, <3>1, <3>4, <5>2, <6>1, <6>2 DEF Fields
        <5> QED BY <1>1, <1>3, <2>0, <2>1, <2>2, <3>1, <5>1, <5>2 DEF LoadInv
      <4> QED BY <4>1, <4>2
    <3>9. LoadedIsOneTable'
      <4>1. CASE column = LastField
        <5>1. newDiffs = 1 /\ \A c \in Fields : c <= column
          BY <1>3, <3>2, <4>1 DEF Fields
        <5>2. Len(LastFile) = Len(latest) /\ Len(LastFile) = count
          BY <1>1, <1>5, <4>1, LoadFacts DEF LastWritten, LastFile, count
        <5>3. ASSUME NEW c \in Fields, c # LastField PROVE relation'[c] = TextValues(latest, c)
          <6>1. c < LastField
            BY <1>3, <4>1, <5>1, <5>3 DEF Fields
          <6>2. Complete(c) /\ cached[c] \in Seq(Readable(c)) /\ Len(cached[c]) = Len(latest)
            BY <1>1, <2>3, <4>1, <5>1, <5>2, <6>1, LoadFacts
          <6>3. /\ TextValues(latest, c) \in Seq(Readable(c)) /\ DOMAIN TextValues(latest, c) = DOMAIN latest
                /\ Len(TextValues(latest, c)) = Len(latest)
            BY <1>1, LoadFacts, ValuesFacts DEF ImportInv, ImportTyped
          <6>4. \A i \in 1..Len(latest) : cached[c][i] = TextValues(latest, c)[i]
            BY <1>1, <6>2, LoadFacts DEF Complete
          <6>5. cached[c] = TextValues(latest, c)
            BY <6>2, <6>3, <6>4
          <6> QED BY <3>4, <5>1, <6>5
        <5>4. relation'[LastField] = LastFile
          BY <3>3, <4>1 DEF LastFile
        <5>5. \A i \in DOMAIN latest : \/ LastFile[i] = TextValues(latest, LastField)[i]
                                       \/ damage = "torn" /\ LastFile[i] = Zero
          BY <1>1, <1>5, <4>1, LoadFacts DEF LastWritten, LastFile
        <5>6. Import!Columns = Fields /\ Import!LastColumn = LastField
          BY FieldFacts DEF LastField
        <5>7. /\ \A c \in Import!Columns \ {Import!LastColumn} : relation'[c] = Import!ValuesOf(latest', c)
              /\ Len(relation'[Import!LastColumn]) = Len(latest')
              /\ \A i \in DOMAIN latest' :
                   \/ relation'[Import!LastColumn][i] = Import!ValuesOf(latest', Import!LastColumn)[i]
                   \/ damage' = "torn" /\ relation'[Import!LastColumn][i] = Zero
          BY <1>1, <5>2, <5>3, <5>4, <5>5, <5>6 DEF TextValues
        <5> QED BY <5>7 DEF LoadedIsOneTable, Import!LoadedIsOneTable
      <4>2. CASE column # LastField
        BY <3>1, <4>2 DEF LoadedIsOneTable, Import!LoadedIsOneTable
      <4> QED BY <4>1, <4>2
    <3>10. outcome' = "none" /\ FilesRefused'
      BY <1>1, <3>1 DEF ImportInv, FilesRefused
    <3> QED BY <3>5, <3>6, <3>7, <3>8, <3>9, <3>10 DEF ImportInv
  <2> QED BY <2>4, <2>5
<1> QED BY <1>4, <1>5

LEMMA ExitStep == ImportInv /\ Import!Exit => ImportInv'
<1> SUFFICES ASSUME ImportInv, Import!Exit PROVE ImportInv'
  OBVIOUS
<1>1. pc = "loaded" /\ Import!End("answered") /\ UNCHANGED <<tbl, cached, latest, replaced, damage>>
  BY DEF Import!Exit, Import!history
<1>2. pc' = "down" /\ outcome' = "answered"
  BY <1>1 DEF Import!End
<1>3. FilesInv'
  BY <1>1, <1>2, FilesKept DEF ImportInv, Writing
<1>4. FilesRefused'
  BY <1>2 DEF FilesRefused
<1>5. DOMAIN cached' = Fields /\ \A c \in Fields : cached'[c] \in Seq(Readable(c)) \cup {None}
  BY <1>1 DEF ImportInv, ImportTyped
<1> QED BY <1>1, <1>3, <1>4, <1>5, StartOver

\* A kill in a copy: the files before are complete, and what is in the last file
\* is from the table or was never written.
LEMMA KilledCopying ==
  ASSUME ImportInv, pc = "copy", Import!Kill
  PROVE  ImportInv'
<1>1. Writing
  BY DEF Writing
<1>2. PICK done \in SUBSET (DOMAIN parsed[column]) :
        cached' = [cached EXCEPT ![column] = Import!Copied(cached[column], parsed[column], done)]
  BY DEF Import!Kill
<1> DEFINE file == Import!Copied(cached[column], parsed[column], done)
<1>3. /\ Import!End("killed") /\ UNCHANGED <<tbl, latest, replaced>>
      /\ damage' = IF column = LastField THEN "torn" ELSE damage
  BY DEF Import!Kill, LastField
<1>4. /\ file \in Seq(Readable(column)) /\ file # None /\ Len(file) = Len(cached[column])
      /\ \A i \in DOMAIN latest :
           file[i] = IF i \in done THEN TextValues(latest, column)[i] ELSE cached[column][i]
  BY <1>1, CopiedFacts
<1>5. cached' = [cached EXCEPT ![column] = file]
  BY <1>2
<1> HIDE DEF file
<1>6. /\ column \in Fields /\ DOMAIN cached = Fields /\ cached[column] # None /\ latest # None
      /\ pc' = "down" /\ outcome' = "killed"
  BY <1>1, <1>3, WritingFacts DEF ImportInv, ImportTyped, WritingInv, Import!End
<1>7. cached'[column] = file /\ \A c \in Fields \ {column} : cached'[c] = cached[c]
  BY <1>5, <1>6
<1>8. DOMAIN cached' = Fields /\ \A c \in Fields : cached'[c] \in Seq(Readable(c)) \cup {None}
  BY <1>4, <1>5, WrittenTyped DEF ImportInv
<1>9. FilesRefused'
  BY <1>6 DEF FilesRefused
<1>10. \A c \in Fields : cached'[c] # None <=> cached[c] # None
  BY <1>4, <1>6, <1>7
<1>11. ASSUME LastFile' # None PROVE LastWritten' /\ \A c \in Fields : c < LastField => Complete(c)'
  <2>1. column = LastField
    <3>1. LastFile # None
      BY <1>10, <1>11, FieldFacts DEF LastFile
    <3> QED BY <1>1, <1>6, <3>1, FieldFacts DEF ImportInv, WritingInv, Fields
  <2>2. Len(cached[column]) = Len(latest) /\ \A i \in DOMAIN latest : cached[column][i] = Zero
    BY <1>1, <2>1, LastZero
  <2>3. LastFile' = file /\ damage' = "torn" /\ latest' = latest
    BY <1>3, <1>7, <2>1 DEF LastFile
  <2>4. \A i \in DOMAIN latest : file[i] = TextValues(latest, LastField)[i] \/ file[i] = Zero
    BY <1>4, <2>1, <2>2
  <2>5. LastWritten'
    BY <1>4, <2>2, <2>3, <2>4 DEF LastWritten
  <2>6. ASSUME NEW c \in Fields, c < LastField PROVE Complete(c)'
    <3>1. c # column /\ Complete(c)
      BY <1>1, <2>1, <2>6, FieldFacts DEF ImportInv, WritingInv, Fields
    <3> QED BY <1>3, <1>7, <3>1 DEF Complete
  <2> QED BY <2>5, <2>6
<1>12. FilesInv'
  <2>1. ASSUME ~replaced', NEW c \in Fields, cached'[c] # None PROVE Len(cached'[c]) \in {0, Len(latest')}
    <3>1. Len(cached'[c]) = Len(cached[c])
      BY <1>4, <1>7
    <3> QED BY <1>3, <1>10, <2>1, <3>1 DEF ImportInv, FilesInv
  <2>2. \A c, d \in Fields : c < d /\ cached'[d] # None => cached'[c] # None
    BY <1>10 DEF ImportInv, FilesInv
  <2> QED BY <1>3, <1>6, <1>11, <2>1, <2>2 DEF FilesInv
<1> QED BY <1>3, <1>8, <1>9, <1>12, StartOver

\* A kill elsewhere; if the last file has just been made, it stays empty.
LEMMA KilledElsewhere ==
  ASSUME ImportInv, pc # "copy", Import!Kill
  PROVE  ImportInv'
<1>1. /\ Import!End("killed") /\ UNCHANGED <<tbl, cached, latest, replaced>>
      /\ damage' = IF column = LastField /\ pc = "allocate" THEN "empty" ELSE damage
  BY DEF Import!Kill, LastField
<1>2. pc' = "down" /\ outcome' = "killed"
  BY <1>1 DEF Import!End
<1>3. DOMAIN cached' = Fields /\ \A c \in Fields : cached'[c] \in Seq(Readable(c)) \cup {None}
  BY <1>1 DEF ImportInv, ImportTyped
<1>4. FilesRefused'
  BY <1>2 DEF FilesRefused
<1>5. FilesInv'
  <2>1. CASE ~Writing
    <3>1. damage' = damage
      BY <1>1, <2>1 DEF Writing
    <3> QED BY <1>1, <1>2, <2>1, <3>1, FilesKept DEF ImportInv
  <2>2. CASE Writing
    <3>1. column \in Fields /\ LastFile' = LastFile
      BY <1>1, <2>2, WritingFacts DEF LastFile
    <3>2. ASSUME LastFile # None PROVE LastWritten' /\ \A c \in Fields : c < LastField => Complete(c)'
      <4>1. pc = "allocate" /\ column = LastField /\ LastFile = <<>>
        BY <2>2, <3>1, <3>2, FieldFacts DEF ImportInv, WritingInv, Writing, Fields
      <4>2. LastWritten'
        BY <1>1, <3>1, <4>1 DEF LastWritten
      <4>3. ASSUME NEW c \in Fields, c < LastField PROVE Complete(c)'
        BY <1>1, <2>2, <4>1, <4>3 DEF ImportInv, WritingInv, Complete
      <4> QED BY <4>2, <4>3
    <3>3. latest # None
      BY <2>2 DEF ImportInv, WritingInv
    <3> QED BY <1>1, <1>2, <3>1, <3>2, <3>3 DEF ImportInv, FilesInv
  <2> QED BY <2>1, <2>2
<1> QED BY <1>1, <1>3, <1>4, <1>5, StartOver

LEMMA ReplaceTableStep == ImportInv /\ Import!ReplaceTable => ImportInv'
<1> SUFFICES ASSUME ImportInv, Import!ReplaceTable PROVE ImportInv'
  OBVIOUS
<1>1. /\ pc = "down" /\ tbl' \in ImportTables \cup {None}
      /\ UNCHANGED <<cached, pc, column, parsed, size, diffs, relation, outcome, latest, replaced, damage>>
  BY DEF Import!ReplaceTable, Import!memory, Import!history
<1>2. ImportTyped'
  BY <1>1 DEF ImportInv, ImportTyped
<1>3. FilesInv'
  BY <1>1, FilesKept DEF ImportInv, Writing
<1>4. WritingInv' /\ LoadInv' /\ FilesRefused' /\ LoadedIsOneTable'
  BY <1>1 DEF ImportInv, WritingInv, LoadInv, Writing, FilesRefused, LoadedIsOneTable,
     Import!LoadedIsOneTable
<1> QED BY <1>1, <1>2, <1>3, <1>4 DEF ImportInv

LEMMA EmptyCachedStep == ImportInv /\ Import!EmptyCached => ImportInv'
<1> SUFFICES ASSUME ImportInv, Import!EmptyCached PROVE ImportInv'
  OBVIOUS
<1>1. /\ pc = "down" /\ cached' = [c \in Fields |-> None]
      /\ latest' = None /\ replaced' = FALSE /\ outcome' = "none"
      /\ UNCHANGED <<tbl, pc, column, parsed, size, diffs, relation>>
  BY FieldFacts DEF Import!EmptyCached, Import!memory, Import!NoFiles
<1>2. \A c \in Fields : cached'[c] = None
  BY <1>1
<1>3. ImportTyped'
  BY <1>1, <1>2 DEF ImportInv, ImportTyped
<1>4. FilesInv'
  BY <1>1, <1>2, FieldFacts DEF FilesInv, LastFile, Writing
<1>5. WritingInv' /\ LoadInv' /\ FilesRefused' /\ LoadedIsOneTable'
  BY <1>1 DEF ImportInv, WritingInv, LoadInv, Writing, FilesRefused, LoadedIsOneTable,
     Import!LoadedIsOneTable
<1> QED BY <1>1, <1>3, <1>4, <1>5 DEF ImportInv

LEMMA ImportNext == ImportInv /\ Import!Next => ImportInv'
<1> SUFFICES ASSUME ImportInv, Import!Next PROVE ImportInv'
  OBVIOUS
<1>1. CASE Import!Kill
  BY <1>1, KilledCopying, KilledElsewhere
<1>2. CASE Import!CreateCached
  BY <1>2, ImportKept DEF Import!CreateCached, Import!memory, Import!history, fileVars
<1>3. CASE Import!ReplaceTable
  BY <1>3, ReplaceTableStep
<1>4. CASE Import!EmptyCached
  BY <1>4, EmptyCachedStep
<1>5. CASE Import!ImportStep
  BY <1>5, StartStep, MakeDirStep, LookStep, ParseStep, OpenFileStep, AllocateStep, CopyStep, LoadStep, ExitStep
     DEF Import!ImportStep
<1> QED BY <1>1, <1>2, <1>3, <1>4, <1>5 DEF Import!Next

\* A start that ends with an exception or a signal, for another reason than the directory.
LEMMA DirEnd ==
  ASSUME DirInv, NEW how, how # "could not create", Import!End(how), dir, dir' = dir
  PROVE  DirInv'
<1>1. pc' = "down" /\ outcome' = how
  BY DEF Import!End
<1> QED BY <1>1 DEF DirInv

LEMMA DirNext == DirInv /\ Import!Next => DirInv'
<1> SUFFICES ASSUME DirInv, Import!Next PROVE DirInv'
  OBVIOUS
<1>1. CASE Import!Start
  BY <1>1 DEF DirInv, Import!Start, Import!NoFiles
<1>2. CASE Import!MakeDir
  <2>1. CASE dir
    BY <1>2, <2>1 DEF DirInv, Import!MakeDir, Import!NoFiles
  <2>2. CASE ~dir
    <3>1. pc' = "down" /\ dir' = TRUE /\ cached' = cached /\ cached = Import!NoFiles
      BY <1>2, <2>2 DEF DirInv, Import!MakeDir, Import!End
    <3> QED BY <3>1 DEF DirInv, Import!NoFiles
  <2> QED BY <2>1, <2>2
<1>3. CASE Import!Look
  BY <1>3 DEF DirInv, Import!Look, Import!NoFiles
<1>4. CASE Import!Parse
  <2>1. dir /\ dir' = dir /\ outcome # "could not create"
    BY <1>4 DEF DirInv, Import!Parse
  <2>2. CASE outcome' = outcome
    BY <1>4, <2>1, <2>2 DEF DirInv
  <2>3. CASE Import!End("csv file not found") \/ Import!End("invalid format")
    BY <2>1, <2>3, DirEnd
  <2> QED BY <1>4, <2>2, <2>3 DEF Import!Parse
<1>5. CASE Import!OpenFile \/ Import!Copy
  <2>1. dir /\ dir' = dir /\ outcome' = outcome /\ outcome # "could not create"
    BY <1>5 DEF DirInv, Import!OpenFile, Import!Copy, Import!memory
  <2> QED BY <2>1 DEF DirInv
<1>6. CASE Import!Allocate
  <2>1. dir /\ dir' = dir /\ outcome # "could not create"
    BY <1>6 DEF DirInv, Import!Allocate
  <2>2. Import!End("terminated") \/ outcome' = outcome
    BY <1>6 DEF Import!Allocate
  <2> QED BY <2>1, <2>2, DirEnd DEF DirInv
<1>7. CASE Import!Load \/ Import!Exit
  <2>1. dir /\ dir' = dir /\ outcome # "could not create"
    BY <1>7 DEF DirInv, Import!Load, Import!Exit
  <2>2. \/ Import!End("terminated") \/ Import!End("differ in size") \/ Import!End("answered")
        \/ outcome' = outcome
    BY <1>7 DEF Import!Load, Import!Exit
  <2> QED BY <2>1, <2>2, DirEnd DEF DirInv
<1>8. CASE Import!Kill
  <2>1. pc' = "down" /\ outcome' = "killed" /\ dir' = dir
    BY <1>8 DEF Import!Kill, Import!End
  <2>2. ~dir => cached' = cached
    BY <1>8 DEF DirInv, Import!Kill
  <2> QED BY <2>1, <2>2 DEF DirInv, Import!NoFiles
<1>9. CASE Import!ReplaceTable \/ Import!CreateCached
  BY <1>9 DEF DirInv, Import!ReplaceTable, Import!CreateCached, Import!NoFiles
<1>10. CASE Import!EmptyCached
  BY <1>10 DEF DirInv, Import!EmptyCached, Import!NoFiles
<1> QED BY <1>1, <1>2, <1>3, <1>4, <1>5, <1>6, <1>7, <1>8, <1>9, <1>10 DEF Import!Next, Import!ImportStep

\* A start complains of the directory cached only when it has created it.
THEOREM DirectoryInvariant == MCSpec => []DirInv
<1>1. MCInit => DirInv
  BY DEF MCInit, NoImport, Import!Init, DirInv
<1>2. DirInv /\ [MCNext]_allVars => DirInv'
  <2> SUFFICES ASSUME DirInv, [MCNext]_allVars PROVE DirInv'
    OBVIOUS
  <2>1. CASE ImportStep
    BY <2>1, DirNext DEF ImportStep
  <2>2. CASE QueryStep \/ LanesStep \/ NextDay \/ Finished \/ UNCHANGED allVars
    <3>1. UNCHANGED <<dir, cached, pc, outcome>>
      BY <2>2 DEF QueryStep, LanesStep, NextDay, Finished, allVars, importVars
    <3> QED BY <3>1 DEF DirInv, Import!NoFiles
  <2> QED BY <2>1, <2>2 DEF MCNext
<1> QED BY <1>1, <1>2, PTL DEF MCSpec

\* The invariant of the import holds in every behaviour of the run, whatever it shows.
THEOREM ImportInvariant == MCSpec => []ImportInv
<1>1. MCInit => ImportInv
  BY ImportInit DEF MCInit, NoImport
<1>2. ImportInv /\ [MCNext]_allVars => ImportInv'
  <2> SUFFICES ASSUME ImportInv, [MCNext]_allVars PROVE ImportInv'
    OBVIOUS
  <2>1. CASE ImportStep
    BY <2>1, ImportNext DEF ImportStep
  <2>2. CASE QueryStep \/ LanesStep \/ NextDay \/ Finished \/ UNCHANGED allVars
    <3>1. UNCHANGED fileVars
      BY <2>2 DEF QueryStep, LanesStep, NextDay, Finished, allVars, importVars, fileVars
    <3> QED BY <3>1, ImportKept
  <2> QED BY <2>1, <2>2 DEF MCNext
<1> QED BY <1>1, <1>2, PTL DEF MCSpec

\* What parseColumns (src/common/runtime/Import.cpp) hands to a driver is one table,
\* the one parsed last, for any schema, any tables and any number of starts, kills and
\* exchanged tables; only values of the last column may be missing, if a kill tore it.
THEOREM LoadedRight == MCSpec => []LoadedIsOneTable
<1>1. ImportInv => LoadedIsOneTable
  BY DEF ImportInv
<1> QED BY <1>1, ImportInvariant, PTL

\* parseColumns refuses files it finds only if tables were exchanged between killed
\* starts, Mmap.hpp terminates it only for nothing to map, and it complains of the
\* directory cached only when it has just created it.
THEOREM RefusalsRight == MCSpec => []RefusalsExplained
<1>1. ImportInv /\ DirInv => RefusalsExplained
  BY DEF ImportInv, DirInv, FilesRefused, RefusalsExplained, Import!RefusalsExplained
<1> QED BY <1>1, ImportInvariant, DirectoryInvariant, PTL
=============================================================================
