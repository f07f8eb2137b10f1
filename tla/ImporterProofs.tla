--------------------------- MODULE ImporterProofs ---------------------------
(***************************************************************************)
(* Proofs about Importer for any importers, files and numbers of writes    *)
(* and faults.                                                             *)
(***************************************************************************)
EXTENDS Importer, FiniteSetTheorems, SequenceTheorems, TLAPS

\* The importers that have decided to insert a bond.
Inserting(isin) == {i \in Importers : pc[i] = "insert" /\ Head(rows[i]) = isin}

\* The documents there are and those about to be inserted.
InsertsBounded ==
  \A isin \in Keys :
    Len(bonds[isin]) + Cardinality(Inserting(isin)) <= Cardinality(Importers)

\* Where an importer is in a row, there is one; outside a file nothing has
\* failed.
InRow ==
  \A i \in Importers :
    /\ pc[i] \in {"update", "insert"} => rows[i] # <<>> /\ Head(rows[i]) \in Keys
    /\ ~Importing(i) => numFailed[i] = 0

\* The inductive invariant.
IInv == TypeOK /\ InRow /\ InsertsBounded

-----------------------------------------------------------------------------
(* Type correctness *)

LEMMA SourceType ==
  /\ NoSource \in Source
  /\ \A s \in Source : s.version \in Versions
  /\ \A v \in Versions, state \in {"partial", "complete", "broken"} :
       [version |-> v, state |-> state] \in Source
  BY BoundAssumption DEF NoSource, Source, Versions

LEMMA FileType ==
  ASSUME NEW f \in Files
  PROVE  /\ Rows[f] \in Seq(Entries) /\ Len(Rows[f]) \in Nat
         /\ \A state : /\ MostRows(f, state) \in Nat
                       /\ Len(Rows[f]) <= MostRows(f, state)
         /\ MostRows(f, "broken") = Len(Rows[f]) + 1
<1>1. Rows[f] \in Seq(Isins \cup {Unreadable})
  BY FileAssumption
<1>2. Isins \cup {Unreadable} \subseteq Entries
  BY DEF Entries, Keys
<1>3. Rows[f] \in Seq(Entries) /\ Len(Rows[f]) \in Nat
  BY <1>1, <1>2
<1>4. ASSUME NEW state
      PROVE  /\ state = "broken" => MostRows(f, state) = Len(Rows[f]) + 1
             /\ state # "broken" => MostRows(f, state) = Len(Rows[f]) + 0
  BY Zenon DEF MostRows
<1>5. ASSUME NEW state
      PROVE  MostRows(f, state) \in Nat /\ Len(Rows[f]) <= MostRows(f, state)
  <2>1. MostRows(f, state) = Len(Rows[f]) + 1 \/ MostRows(f, state) = Len(Rows[f]) + 0
    BY <1>4
  <2> QED
    BY <1>3, <2>1
<1> QED
  BY <1>3, <1>4, <1>5

LEMMA InitTypeOK == Init => TypeOK /\ InRow
<1> SUFFICES ASSUME Init PROVE TypeOK /\ InRow
  OBVIOUS
<1>1. <<>> \in Seq(Files) /\ <<>> \in Seq(Source) /\ <<>> \in Seq(Entries)
  OBVIOUS
<1>2. 0 \in Versions /\ 0 \in 0 .. MaxFaults /\ 0 \in Nat
  BY BoundAssumption DEF Versions
<1> QED
  BY <1>1, <1>2, SourceType DEF Init, TypeOK, InRow, Importing

\* Events: a file is appended to what waits.
LEMMA EventType ==
  ASSUME pending \in [Importers -> Seq(Files)], NEW f \in Files, Event(f)
  PROVE  pending' \in [Importers -> Seq(Files)]
<1>1. ASSUME NEW i \in Importers
      PROVE  Append(pending[i], f) \in Seq(Files) /\ pending[i] \in Seq(Files)
  OBVIOUS
<1> QED
  BY <1>1 DEF Event

LEMMA WriteType ==
  ASSUME TypeOK, InRow, NEW f \in Files, WriteFile(f) \/ CopyingEnds(f)
  PROVE  TypeOK' /\ InRow'
<1>1. pending' \in [Importers -> Seq(Files)]
  BY EventType DEF WriteFile, CopyingEnds, TypeOK
<1>2. version' \in [Files -> Versions]
  <2>1. CASE WriteFile(f)
    <3>1. PICK n \in 1 .. MaxWrites : version' = [version EXCEPT ![f] = n]
      BY <2>1 DEF WriteFile
    <3>2. n \in Versions
      BY BoundAssumption DEF Versions
    <3> QED
      BY <3>1, <3>2 DEF TypeOK
  <2>2. CASE CopyingEnds(f)
    BY <2>2 DEF CopyingEnds, TypeOK
  <2> QED
    BY <2>1, <2>2
<1>3. content' \in [Files -> {"absent", "partial", "complete", "broken"}]
  BY DEF WriteFile, CopyingEnds, TypeOK
<1>4. missed' \in SUBSET Files
  BY DEF WriteFile, CopyingEnds, TypeOK
<1>5. UNCHANGED <<bonds, pc, phase, todo, rows, source, numFailed, imported, faults>>
  BY DEF WriteFile, CopyingEnds, importVars
<1> QED
  BY <1>1, <1>2, <1>3, <1>4, <1>5 DEF TypeOK, InRow, Importing

LEMMA ListingType ==
  ASSUME NEW s \in Listings
  PROVE  s \in Seq(Files)
<1>1. Present \subseteq Files
  BY DEF Present
<1>2. Cardinality(Present) \in Nat
  BY <1>1, FileAssumption, FS_Subset, FS_CardinalityType
<1>3. s \in [1 .. Cardinality(Present) -> Present]
  BY DEF Listings
<1>4. s \in [1 .. Cardinality(Present) -> Files]
  BY <1>1, <1>3
<1> QED
  BY <1>2, <1>4

\* The process ends, in whatever step.
LEMMA ExitType ==
  ASSUME TypeOK, InRow, NEW i \in Importers, Exit(i), faults' \in 0 .. MaxFaults
  PROVE  TypeOK' /\ InRow'
<1>1. <<>> \in Seq(Files) /\ <<>> \in Seq(Entries)
  OBVIOUS
<1>2. NoSource \in Source
  BY SourceType
<1>3. /\ pc' = [pc EXCEPT ![i] = "off"]
      /\ phase' = [phase EXCEPT ![i] = "off"]
      /\ todo' = [todo EXCEPT ![i] = <<>>]
      /\ pending' = [pending EXCEPT ![i] = <<>>]
      /\ rows' = [rows EXCEPT ![i] = <<>>]
      /\ source' = [source EXCEPT ![i] = NoSource]
      /\ numFailed' = [numFailed EXCEPT ![i] = 0]
      /\ UNCHANGED <<content, version, bonds, imported, missed>>
  BY DEF Exit, Leave, fileVars
<1> QED
  BY <1>1, <1>2, <1>3 DEF TypeOK, InRow, Importing

LEMMA MainType ==
  ASSUME TypeOK, InRow, NEW i \in Importers, Main(i)
  PROVE  TypeOK' /\ InRow'
<1> USE DEF fileVars, importVars, historyVars, processVars
<1>1. CASE Start(i)
  <2>1. todo' \in [Importers -> Seq(Files)]
    BY <1>1, ListingType DEF Start, TypeOK
  <2> QED
    BY <1>1, <2>1 DEF Start, TypeOK, InRow, Importing
<1>2. CASE Register(i)
  BY <1>2 DEF Register, TypeOK, InRow, Importing
<1>3. CASE Take(i)
  <2>1. /\ todo' \in [Importers -> Seq(Files)]
        /\ pending' \in [Importers -> Seq(Files)]
    BY <1>3 DEF Take, Polled, TypeOK
  <2> QED
    BY <1>3, <2>1 DEF Take, Polled, TypeOK, InRow, Importing
<1> QED
  BY <1>1, <1>2, <1>3 DEF Main

LEMMA ExceptType ==
  ASSUME NEW S, NEW s \in Seq(S), NEW v \in S
  PROVE  /\ [s EXCEPT ![1] = v] \in Seq(S)
         /\ Len([s EXCEPT ![1] = v]) = Len(s)
<1> DEFINE t == [s EXCEPT ![1] = v]
<1>1. Len(s) \in Nat /\ s \in [1 .. Len(s) -> S]
  OBVIOUS
<1>2. t \in [1 .. Len(s) -> S]
  BY <1>1
<1>3. DOMAIN t = 1 .. Len(s)
  BY <1>2
<1> HIDE DEF t
<1>4. t \in Seq(S)
  BY <1>1, <1>2
<1>5. Len(t) = Len(s)
  BY <1>1, <1>3, <1>4
<1> QED
  BY <1>4, <1>5 DEF t

\* The first row is done or skipped.
LEMMA RowDone ==
  ASSUME TypeOK, NEW i \in Importers, Importing(i), rows[i] # <<>>,
         rows' = [rows EXCEPT ![i] = Tail(@)], todo' = todo, source' = source,
         numFailed' = numFailed \/ numFailed' = [numFailed EXCEPT ![i] = @ + 1]
  PROVE  /\ rows' \in [Importers -> Seq(Entries)]
         /\ numFailed' \in [Importers -> Nat]
         /\ \A j \in Importers :
              Importing(j) =>
                /\ todo'[j] # <<>>
                /\ numFailed'[j] + Len(rows'[j])
                     <= MostRows(Head(todo'[j]), source'[j].state)
<1> DEFINE Most(j) == MostRows(Head(todo[j]), source[j].state)
<1>1. /\ rows \in [Importers -> Seq(Entries)]
      /\ numFailed \in [Importers -> Nat]
      /\ todo \in [Importers -> Seq(Files)]
  BY DEF TypeOK
<1>2. ASSUME NEW j \in Importers, Importing(j)
      PROVE  todo[j] # <<>> /\ numFailed[j] + Len(rows[j]) <= Most(j)
  BY <1>2 DEF TypeOK
<1>3. rows[i] \in Seq(Entries)
  BY <1>1
<1>4. Tail(rows[i]) \in Seq(Entries) /\ Len(Tail(rows[i])) = Len(rows[i]) - 1
  BY <1>3
<1>5. rows' \in [Importers -> Seq(Entries)]
  BY <1>1, <1>4
<1>6. numFailed' \in [Importers -> Nat]
  <2>1. numFailed[i] \in Nat /\ numFailed[i] + 1 \in Nat
    BY <1>1
  <2>2. [numFailed EXCEPT ![i] = numFailed[i] + 1] \in [Importers -> Nat]
    BY <1>1, <2>1
  <2> QED
    BY <1>1, <2>2
<1>7. ASSUME NEW j \in Importers, Importing(j)
      PROVE  numFailed'[j] + Len(rows'[j]) <= Most(j)
  <2>1. Head(todo[j]) \in Files
    BY <1>1, <1>2, <1>7
  <2>2. Most(j) \in Nat
    BY <2>1, FileType
  <2>3. Most(j) \in Nat /\ Len(rows[j]) \in Nat /\ numFailed[j] \in Nat
    BY <1>1, <2>2
  <2> HIDE DEF Most
  <2>4. CASE j = i
    <3>1. rows'[j] = Tail(rows[j])
      BY <1>1, <2>4
    <3>2. numFailed'[j] = numFailed[j] \/ numFailed'[j] = numFailed[j] + 1
      BY <1>1, <2>4
    <3>3. numFailed[j] + Len(rows[j]) <= Most(j)
      BY <1>2, <1>7
    <3>4. Len(rows'[j]) = Len(rows[j]) - 1
      BY <1>4, <2>4, <3>1
    <3> QED
      BY <2>3, <3>2, <3>3, <3>4
  <2>5. CASE j # i
    BY <1>1, <1>2, <1>7, <2>5
  <2> QED
    BY <2>4, <2>5
<1> QED
  BY <1>2, <1>5, <1>6, <1>7

\* What is read: of a complete file all of it, of no file a row more than it
\* can have.
LEMMA ReadingType ==
  ASSUME TypeOK, NEW f \in Files, NEW read \in Readings(f)
  PROVE  /\ read \in Seq(Entries)
         /\ Len(read) <= MostRows(f, content[f])
         /\ content[f] = "complete" => read = Rows[f]
<1> DEFINE Begun(n) == SubSeq(Data(f), 1, n)
           Cut == {Malformed, Unreadable} \cup CutIsins
<1>1. Data(f) \in Seq(Entries) /\ Len(Data(f)) \in Nat /\ Data(f) = Rows[f]
  BY FileType DEF Data
<1>2. /\ Len(Rows[f]) <= MostRows(f, content[f])
      /\ MostRows(f, content[f]) \in Nat
      /\ content[f] = "broken" => MostRows(f, content[f]) = Len(Rows[f]) + 1
  BY FileType
<1>3. ASSUME NEW n \in 0 .. Len(Data(f))
      PROVE  Begun(n) \in Seq(Entries) /\ Len(Begun(n)) = n
  BY <1>1, SubSeqProperties
<1>4. Malformed \in Entries /\ Cut \subseteq Entries
  BY DEF Entries, Keys
<1>5. CASE content[f] = "complete"
  <2>1. read = Rows[f]
    BY <1>1, <1>5 DEF Readings
  <2> QED
    BY <1>1, <1>2, <2>1
<1>6. CASE content[f] = "broken"
  <2>1. PICK n \in 0 .. Len(Data(f)) : read = Append(Begun(n), Malformed)
    BY <1>6 DEF Readings
  <2>2. Begun(n) \in Seq(Entries) /\ Len(Begun(n)) = n
    BY <1>3
  <2> HIDE DEF Begun
  <2>3. read \in Seq(Entries) /\ Len(read) = n + 1
    BY <1>4, <2>1, <2>2
  <2> QED
    BY <1>1, <1>2, <1>6, <2>3
<1>7. CASE content[f] \notin {"complete", "broken"}
  <2>1. \/ \E n \in 0 .. Len(Data(f)) : read = Begun(n)
        \/ \E n \in 0 .. Len(Data(f)) - 1, last \in Cut :
             read = Append(Begun(n), last)
    BY <1>7 DEF Readings
  <2>2. CASE \E n \in 0 .. Len(Data(f)) : read = Begun(n)
    BY <1>1, <1>2, <1>3, <1>7, <2>2
  <2>3. CASE \E n \in 0 .. Len(Data(f)) - 1, last \in Cut :
               read = Append(Begun(n), last)
    <3>1. PICK n \in 0 .. Len(Data(f)) - 1, last \in Cut :
            read = Append(Begun(n), last)
      BY <2>3
    <3>2. Begun(n) \in Seq(Entries) /\ Len(Begun(n)) = n
      BY <1>1, <1>3
    <3> HIDE DEF Begun
    <3>3. read \in Seq(Entries) /\ Len(read) = n + 1
      BY <1>4, <3>1, <3>2
    <3> QED
      BY <1>1, <1>2, <1>7, <3>3
  <2> QED
    BY <2>1, <2>2, <2>3
<1> QED
  BY <1>5, <1>6, <1>7

\* What a write leaves: one document of the row's ISIN more, or as many as there
\* were.
LEMMA WrittenType ==
  ASSUME TypeOK, NEW i \in Importers, Head(rows[i]) \in Keys
  PROVE  /\ Updated(i) \in [Keys -> Seq(Source)]
         /\ Inserted(i) \in [Keys -> Seq(Source)]
         /\ \A isin \in Keys :
              /\ Len(Updated(i)[isin]) = Len(bonds[isin])
              /\ Len(Inserted(i)[isin]) =
                   Len(bonds[isin]) + (IF isin = Head(rows[i]) THEN 1 ELSE 0)
              /\ bonds[isin] # <<>> =>
                   Updated(i)[isin] # <<>> /\ Inserted(i)[isin] # <<>>
         /\ Inserted(i)[Head(rows[i])] # <<>>
<1> DEFINE h == Head(rows[i])
<1>1. /\ bonds \in [Keys -> Seq(Source)] /\ source[i] \in Source
      /\ bonds[h] \in Seq(Source)
  BY DEF TypeOK
<1>2. /\ [bonds[h] EXCEPT ![1] = source[i]] \in Seq(Source)
      /\ Len([bonds[h] EXCEPT ![1] = source[i]]) = Len(bonds[h])
  BY <1>1, ExceptType
<1>3. /\ Append(bonds[h], source[i]) \in Seq(Source)
      /\ Len(Append(bonds[h], source[i])) = Len(bonds[h]) + 1
      /\ Append(bonds[h], source[i]) # <<>>
  BY <1>1
<1>4. /\ Updated(i) = [bonds EXCEPT ![h] = [bonds[h] EXCEPT ![1] = source[i]]]
      /\ Inserted(i) = [bonds EXCEPT ![h] = Append(bonds[h], source[i])]
  BY <1>1 DEF Updated, Inserted
<1>5. \A isin \in Keys :
        /\ bonds[isin] \in Seq(Source) /\ Len(bonds[isin]) \in Nat
        /\ bonds[isin] # <<>> <=> Len(bonds[isin]) # 0
  BY <1>1
<1>6. /\ Len([bonds[h] EXCEPT ![1] = source[i]]) # 0 =>
           [bonds[h] EXCEPT ![1] = source[i]] # <<>>
  BY <1>2
<1> HIDE DEF h
<1>7. h \in Keys
  BY DEF h
<1>8. ASSUME NEW isin \in Keys
      PROVE  /\ Updated(i)[isin] = IF isin = h THEN [bonds[h] EXCEPT ![1] = source[i]]
                                               ELSE bonds[isin]
             /\ Inserted(i)[isin] = IF isin = h THEN Append(bonds[h], source[i])
                                                ELSE bonds[isin]
  BY <1>1, <1>4, <1>7
<1>9. /\ Updated(i) \in [Keys -> Seq(Source)]
      /\ Inserted(i) \in [Keys -> Seq(Source)]
  BY <1>1, <1>2, <1>3, <1>4, <1>7
<1>10. ASSUME NEW isin \in Keys
       PROVE  /\ Len(Updated(i)[isin]) = Len(bonds[isin])
              /\ Len(Inserted(i)[isin]) =
                   Len(bonds[isin]) + (IF isin = h THEN 1 ELSE 0)
              /\ bonds[isin] # <<>> =>
                   Updated(i)[isin] # <<>> /\ Inserted(i)[isin] # <<>>
  <2>1. CASE isin = h
    BY <1>2, <1>3, <1>5, <1>6, <1>8, <2>1
  <2>2. CASE isin # h
    BY <1>5, <1>8, <2>2
  <2> QED
    BY <2>1, <2>2
<1>11. Inserted(i)[h] # <<>>
  BY <1>3, <1>7, <1>8
<1> QED
  BY <1>9, <1>10, <1>11 DEF h

LEMMA UpdateType ==
  ASSUME TypeOK, InRow, NEW i \in Importers,
         \/ ReadFile(i) \/ SkipRow(i) \/ Find(i) \/ Update(i) \/ Insert(i)
         \/ Imported(i) \/ WriteFails(i)
  PROVE  TypeOK' /\ InRow'
<1> USE DEF fileVars, importVars, historyVars, processVars
<1>1. CASE ReadFile(i)
  <2>1. Head(todo[i]) \in Files /\ todo[i] # <<>>
    BY <1>1 DEF ReadFile, TypeOK
  <2>2. PICK read \in Readings(Head(todo[i])) : rows' = [rows EXCEPT ![i] = read]
    BY <1>1 DEF ReadFile
  <2>3. /\ read \in Seq(Entries)
        /\ Len(read) <= MostRows(Head(todo[i]), content[Head(todo[i])])
    BY <2>1, ReadingType
  <2>4. rows' \in [Importers -> Seq(Entries)] /\ rows'[i] = read
    BY <2>2, <2>3 DEF TypeOK
  <2>5. Head(todo[i]) \in DOMAIN version /\ content[Head(todo[i])] # "absent"
    BY <1>1, <2>1 DEF ReadFile, TypeOK
  <2>6. source' \in [Importers -> Source]
    BY <1>1, <2>1, <2>5, SourceType DEF ReadFile, TypeOK
  <2>7. numFailed'[i] + Len(rows'[i])
          <= MostRows(Head(todo'[i]), source'[i].state)
    <3>1. numFailed'[i] = 0 /\ todo' = todo
      BY <1>1 DEF ReadFile, InRow, Importing
    <3>2. source'[i].state = content[Head(todo[i])]
      BY <1>1 DEF ReadFile, TypeOK
    <3>3. Len(read) \in Nat
      BY <2>3
    <3> QED
      BY <2>3, <2>4, <3>1, <3>2, <3>3
  <2> QED
    BY <1>1, <2>1, <2>4, <2>6, <2>7 DEF ReadFile, TypeOK, InRow, Importing
<1>2. CASE SkipRow(i)
  BY <1>2, RowDone DEF SkipRow, TypeOK, InRow, Importing
<1>3. CASE Find(i)
  <2>1. Head(rows[i]) \in Keys
    BY <1>3 DEF Find, TypeOK
  <2> QED
    BY <1>3, <2>1 DEF Find, TypeOK, InRow, Importing
<1>4. CASE Update(i)
  <2>1. rows[i] # <<>> /\ Head(rows[i]) \in Keys
    BY <1>4 DEF Update, InRow
  <2>2. bonds' \in [Keys -> Seq(Source)]
    BY <1>4, <2>1, WrittenType DEF Update
  <2> QED
    BY <1>4, <2>1, <2>2, RowDone DEF Update, NextRow, TypeOK, InRow, Importing
<1>5. CASE Insert(i)
  <2>1. rows[i] # <<>> /\ Head(rows[i]) \in Keys
    BY <1>5 DEF Insert, InRow
  <2>2. bonds' \in [Keys -> Seq(Source)]
    BY <1>5, <2>1, WrittenType DEF Insert
  <2> QED
    BY <1>5, <2>1, <2>2, RowDone DEF Insert, NextRow, TypeOK, InRow, Importing
<1>6. CASE Imported(i)
  <2>1. <<>> \in Seq(Entries)
    OBVIOUS
  <2>2. NoSource \in Source
    BY SourceType
  <2>3. todo[i] \in Seq(Files) /\ todo[i] # <<>>
    BY <1>6 DEF Imported, TypeOK, Importing
  <2>4. todo' \in [Importers -> Seq(Files)]
    BY <1>6, <2>3 DEF Imported, OtherFiles, TypeOK
  <2>5. imported' \in [Files -> Versions]
    BY <1>6, <2>3, SourceType DEF Imported, TypeOK
  <2> QED
    BY <1>6, <2>1, <2>2, <2>3, <2>4, <2>5
       DEF Imported, Leave, TypeOK, InRow, Importing, OtherFiles
<1>7. CASE WriteFails(i)
  <2>1. rows[i] # <<>> /\ Head(rows[i]) \in Keys
    BY <1>7 DEF WriteFails, InRow
  <2>3. bonds' \in [Keys -> Seq(Source)]
    BY <1>7, <2>1, WrittenType DEF WriteFails, TypeOK
  <2>2. faults' \in 0 .. MaxFaults
    BY <1>7, BoundAssumption DEF WriteFails, TypeOK
  <2> QED
    BY <1>7, <2>1, <2>2, <2>3, RowDone
       DEF WriteFails, AfterFailure, NextRow, TypeOK, InRow, Importing
<1> QED
  BY <1>1, <1>2, <1>3, <1>4, <1>5, <1>6, <1>7

LEMMA EndingType ==
  ASSUME TypeOK, InRow, NEW i \in Importers,
         EmptyFile(i) \/ BadRow(i) \/ FindFails(i) \/ Stop(i)
  PROVE  TypeOK' /\ InRow'
<1>1. Exit(i)
  BY DEF EmptyFile, BadRow, FindFails, Stop
<1>2. faults' \in 0 .. MaxFaults
  BY BoundAssumption DEF EmptyFile, BadRow, FindFails, Stop, TypeOK
<1> QED
  BY <1>1, <1>2, ExitType

LEMMA StutterType ==
  ASSUME TypeOK, InRow, UNCHANGED vars
  PROVE  TypeOK' /\ InRow'
  BY DEF vars, fileVars, processVars, importVars, historyVars, TypeOK, InRow,
         Importing

LEMMA NextType == TypeOK /\ InRow /\ [Next]_vars => TypeOK' /\ InRow'
  BY WriteType, MainType, UpdateType, EndingType, StutterType
     DEF Next, UpdateDatabase

\* Every reachable state is type correct, for any importers, files and bounds:
\* updateDatabase never counts more rows as failed than the file has.
THEOREM TypeCorrect == Spec => []TypeOK
<1>1. Init => TypeOK /\ InRow
  BY InitTypeOK
<1>2. TypeOK /\ InRow /\ [Next]_vars => (TypeOK /\ InRow)'
  BY NextType
<1> QED
  BY <1>1, <1>2, PTL DEF Spec

-----------------------------------------------------------------------------
(* Duplicates *)

LEMMA InsertingFinite ==
  ASSUME NEW isin \in Keys
  PROVE  /\ IsFiniteSet(Inserting(isin))
         /\ Cardinality(Inserting(isin)) \in Nat
         /\ Cardinality(Importers) \in Nat
         /\ Cardinality(Inserting(isin)) <= Cardinality(Importers)
<1>1. Inserting(isin) \subseteq Importers
  BY DEF Inserting
<1> QED
  BY <1>1, FileAssumption, FS_Subset, FS_CardinalityType

\* A step after which no more importers are about to insert a bond, and no more
\* documents have it.
LEMMA NoneAdded ==
  ASSUME NEW isin \in Keys,
         Len(bonds[isin]) + Cardinality(Inserting(isin)) <= Cardinality(Importers),
         Len(bonds[isin]) \in Nat,
         Len(bonds'[isin]) = Len(bonds[isin]),
         Inserting(isin)' \subseteq Inserting(isin)
  PROVE  Len(bonds'[isin]) + Cardinality(Inserting(isin)') <= Cardinality(Importers)
<1>1. IsFiniteSet(Inserting(isin)) /\ Cardinality(Inserting(isin)) \in Nat
  BY InsertingFinite
<1>2. /\ Cardinality(Inserting(isin)') \in Nat
      /\ Cardinality(Inserting(isin)') <= Cardinality(Inserting(isin))
  BY <1>1, FS_Subset, FS_CardinalityType
<1>3. Cardinality(Importers) \in Nat
  BY InsertingFinite
<1> QED
  BY <1>1, <1>2, <1>3

\* Steps that leave the importers in a row alone, but for one that leaves it.
LEMMA LeavesRow ==
  ASSUME IInv, NEW i \in Importers, pc'[i] # "insert",
         \A j \in Importers \ {i} : pc'[j] = pc[j] /\ rows'[j] = rows[j],
         \A isin \in Keys : Len(bonds'[isin]) = Len(bonds[isin])
  PROVE  InsertsBounded'
<1> SUFFICES ASSUME NEW isin \in Keys
             PROVE  Len(bonds'[isin]) + Cardinality(Inserting(isin)')
                      <= Cardinality(Importers)
  BY DEF InsertsBounded
<1>1. Len(bonds[isin]) \in Nat
  BY DEF IInv, TypeOK
<1>2. Inserting(isin)' \subseteq Inserting(isin)
  BY DEF Inserting
<1>3. Len(bonds[isin]) + Cardinality(Inserting(isin)) <= Cardinality(Importers)
  BY DEF IInv, InsertsBounded
<1> QED
  BY <1>1, <1>2, <1>3, NoneAdded

LEMMA FindBounded ==
  ASSUME IInv, NEW i \in Importers, Find(i)
  PROVE  InsertsBounded'
<1>1. /\ bonds' = bonds /\ rows' = rows /\ Head(rows[i]) \in Keys
      /\ pc' = [pc EXCEPT ![i] =
                  IF Found(Head(rows[i])) THEN "update" ELSE "insert"]
      /\ pc \in [Importers -> {"off", "next", "find", "update", "insert"}]
  BY DEF Find, IInv, TypeOK, importVars
<1>2. CASE Found(Head(rows[i]))
  BY <1>1, <1>2, LeavesRow
<1>3. CASE ~Found(Head(rows[i]))
  <2> SUFFICES ASSUME NEW isin \in Keys
               PROVE  Len(bonds'[isin]) + Cardinality(Inserting(isin)')
                        <= Cardinality(Importers)
    BY DEF InsertsBounded
  <2>1. Len(bonds[isin]) \in Nat
    BY DEF IInv, TypeOK
  <2>2. CASE isin = Head(rows[i])
    <3>1. bonds'[isin] = <<>> /\ Len(bonds'[isin]) = 0
      BY <1>1, <1>3, <2>2 DEF Found
    <3>2. Inserting(isin)' \subseteq Importers
      BY DEF Inserting
    <3>3. /\ Cardinality(Inserting(isin)') \in Nat
          /\ Cardinality(Inserting(isin)') <= Cardinality(Importers)
          /\ Cardinality(Importers) \in Nat
      BY <3>2, FileAssumption, FS_Subset, FS_CardinalityType
    <3> QED
      BY <3>1, <3>3
  <2>3. CASE isin # Head(rows[i])
    <3>1. Inserting(isin)' \subseteq Inserting(isin)
      BY <1>1, <2>3 DEF Inserting
    <3> QED
      BY <1>1, <2>1, <3>1, NoneAdded DEF IInv, InsertsBounded
  <2> QED
    BY <2>2, <2>3
<1> QED
  BY <1>2, <1>3

\* The bond is inserted, whether the importer hears of it or not.
LEMMA InsertBounded ==
  ASSUME IInv, NEW i \in Importers, pc[i] = "insert", bonds' = Inserted(i),
         pc' = [pc EXCEPT ![i] = "find"], rows' = [rows EXCEPT ![i] = Tail(@)]
  PROVE  InsertsBounded'
<1> SUFFICES ASSUME NEW isin \in Keys
             PROVE  Len(bonds'[isin]) + Cardinality(Inserting(isin)')
                      <= Cardinality(Importers)
  BY DEF InsertsBounded
<1>1. /\ pc \in [Importers -> {"off", "next", "find", "update", "insert"}]
      /\ rows \in [Importers -> Seq(Entries)]
      /\ bonds \in [Keys -> Seq(Source)]
      /\ Head(rows[i]) \in Keys
      /\ Len(bonds'[isin]) =
           Len(bonds[isin]) + (IF isin = Head(rows[i]) THEN 1 ELSE 0)
  BY WrittenType DEF IInv, TypeOK, InRow
<1>2. Len(bonds[isin]) \in Nat
  BY <1>1
<1>3. Len(bonds[isin]) + Cardinality(Inserting(isin)) <= Cardinality(Importers)
  BY DEF IInv, InsertsBounded
<1>4. CASE isin = Head(rows[i])
  <2>1. Len(bonds'[isin]) = Len(bonds[isin]) + 1
    BY <1>1, <1>4
  <2>2. Inserting(isin)' = Inserting(isin) \ {i} /\ i \in Inserting(isin)
    BY <1>1, <1>4 DEF Inserting
  <2>3. /\ IsFiniteSet(Inserting(isin)) /\ Cardinality(Inserting(isin)) \in Nat
        /\ Cardinality(Importers) \in Nat
    BY InsertingFinite
  <2>4. Cardinality(Inserting(isin)') = Cardinality(Inserting(isin)) - 1
    BY <2>2, <2>3, FS_RemoveElement
  <2> QED
    BY <1>2, <1>3, <2>1, <2>3, <2>4
<1>5. CASE isin # Head(rows[i])
  <2>1. Inserting(isin)' \subseteq Inserting(isin)
    BY <1>1, <1>5 DEF Inserting
  <2>2. Len(bonds'[isin]) = Len(bonds[isin])
    BY <1>1, <1>2, <1>5
  <2> QED
    BY <1>2, <1>3, <2>1, <2>2, NoneAdded
<1> QED
  BY <1>4, <1>5

\* The row is left with as many documents as there were.
LEMMA KeptBounded ==
  ASSUME IInv, NEW i \in Importers, pc[i] \in {"update", "insert"},
         bonds' = bonds \/ bonds' = Updated(i),
         pc' = [pc EXCEPT ![i] = "find"], rows' = [rows EXCEPT ![i] = Tail(@)]
  PROVE  InsertsBounded'
<1>1. /\ pc \in [Importers -> {"off", "next", "find", "update", "insert"}]
      /\ rows \in [Importers -> Seq(Entries)]
      /\ Head(rows[i]) \in Keys
  BY DEF IInv, TypeOK, InRow
<1>2. \A isin \in Keys : Len(bonds'[isin]) = Len(bonds[isin])
  BY <1>1, WrittenType DEF IInv
<1> QED
  BY <1>1, <1>2, LeavesRow

LEMMA WriteBounded ==
  ASSUME IInv, NEW i \in Importers, Update(i) \/ Insert(i) \/ WriteFails(i)
  PROVE  InsertsBounded'
<1>1. /\ pc[i] \in {"update", "insert"}
      /\ pc' = [pc EXCEPT ![i] = "find"] /\ rows' = [rows EXCEPT ![i] = Tail(@)]
      /\ \/ bonds' = bonds \/ bonds' = Updated(i)
         \/ pc[i] = "insert" /\ bonds' = Inserted(i)
  BY DEF Update, Insert, WriteFails, AfterFailure, NextRow
<1> QED
  BY <1>1, InsertBounded, KeptBounded

LEMMA ExitBounded ==
  ASSUME IInv, NEW i \in Importers, Exit(i)
  PROVE  InsertsBounded'
<1>1. /\ pc' = [pc EXCEPT ![i] = "off"] /\ rows' = [rows EXCEPT ![i] = <<>>]
      /\ bonds' = bonds
      /\ pc \in [Importers -> {"off", "next", "find", "update", "insert"}]
      /\ rows \in [Importers -> Seq(Entries)]
  BY DEF Exit, Leave, IInv, TypeOK
<1> QED
  BY <1>1, LeavesRow

\* The other steps of an importer.
LEMMA OthersBounded ==
  ASSUME IInv, NEW i \in Importers,
         Main(i) \/ ReadFile(i) \/ SkipRow(i) \/ Imported(i)
  PROVE  InsertsBounded'
<1>1. /\ pc \in [Importers -> {"off", "next", "find", "update", "insert"}]
      /\ rows \in [Importers -> Seq(Entries)]
  BY DEF IInv, TypeOK
<1>2. pc'[i] # "insert"
  BY <1>1 DEF Main, Start, Register, Take, ReadFile, SkipRow, Imported,
              processVars, importVars
<1>3. \A j \in Importers \ {i} : pc'[j] = pc[j] /\ rows'[j] = rows[j]
  BY <1>1 DEF Main, Start, Register, Take, ReadFile, SkipRow, Imported, Leave,
              processVars, importVars
<1>4. bonds' = bonds
  BY DEF Main, Start, Register, Take, ReadFile, SkipRow, Imported
<1> QED
  BY <1>2, <1>3, <1>4, LeavesRow

LEMMA VolumeBounded ==
  ASSUME IInv,
         UNCHANGED vars \/ \E f \in Files : WriteFile(f) \/ CopyingEnds(f)
  PROVE  InsertsBounded'
<1>1. bonds' = bonds /\ pc' = pc /\ rows' = rows
  BY DEF vars, WriteFile, CopyingEnds, importVars
<1> QED
  BY <1>1 DEF IInv, InsertsBounded, Inserting

LEMMA InitBounded == Init => InsertsBounded
<1> SUFFICES ASSUME Init, NEW isin \in Keys
             PROVE  Len(bonds[isin]) + Cardinality(Inserting(isin))
                      <= Cardinality(Importers)
  BY DEF InsertsBounded
<1>1. Len(bonds[isin]) = 0
  BY DEF Init
<1> QED
  BY <1>1, InsertingFinite

LEMMA NextIInv == IInv /\ [Next]_vars => IInv'
<1> SUFFICES ASSUME IInv, [Next]_vars PROVE IInv'
  OBVIOUS
<1>1. TypeOK' /\ InRow'
  BY NextType DEF IInv
<1>2. ASSUME NEW i \in Importers,
             EmptyFile(i) \/ BadRow(i) \/ FindFails(i) \/ Stop(i)
      PROVE  InsertsBounded'
  BY <1>2, ExitBounded DEF EmptyFile, BadRow, FindFails, Stop
<1>3. ASSUME NEW i \in Importers, UpdateDatabase(i)
      PROVE  InsertsBounded'
  BY <1>3, <1>2, FindBounded, WriteBounded, OthersBounded
     DEF UpdateDatabase
<1>4. InsertsBounded'
  BY <1>2, <1>3, OthersBounded, WriteBounded, VolumeBounded DEF Next
<1> QED
  BY <1>1, <1>4 DEF IInv

\* find and insertOne are two operations, yet a bond is in the collection no
\* more often than there are importers: one importer alone never inserts it
\* twice, however often it fails and starts again.
THEOREM DuplicatesAtMostImporters == Spec => []DuplicatesBounded
<1>1. Init => IInv
  BY InitTypeOK, InitBounded DEF IInv
<1>2. IInv /\ [Next]_vars => IInv'
  BY NextIInv
<1>3. IInv => DuplicatesBounded
  <2> SUFFICES ASSUME IInv, NEW isin \in Keys
               PROVE  Len(bonds[isin]) <= Cardinality(Importers)
    BY DEF DuplicatesBounded
  <2>1. Len(bonds[isin]) \in Nat
    BY DEF IInv, TypeOK
  <2>2. Len(bonds[isin]) + Cardinality(Inserting(isin)) <= Cardinality(Importers)
    BY DEF IInv, InsertsBounded
  <2> QED
    BY <2>1, <2>2, InsertingFinite
<1> QED
  BY <1>1, <1>2, <1>3, PTL DEF Spec

-----------------------------------------------------------------------------
(* What one importer has imported *)

\* A file is still to be imported by what was listed or polled.  The file in
\* hand counts if what was read of it is what it holds.
Listed(i, f) ==
  \E k \in 1 .. Len(todo[i]) :
    /\ todo[i][k] = f
    /\ k = 1 /\ Importing(i) =>
         source[i] = [version |-> version[f], state |-> "complete"]

Signalled(i, f) == \E k \in 1 .. Len(pending[i]) : pending[i][k] = f

\* It is imported, and the file in hand will not put an older version over it.
UpToDate(i, f) ==
  /\ imported[f] = version[f]
  /\ Importing(i) /\ Head(todo[i]) = f /\ source[i].state = "complete" =>
       source[i].version = version[f]

Accounted(i, f) == Listed(i, f) \/ Signalled(i, f) \/ UpToDate(i, f)

\* A lone importer that runs knows of every complete file that was not written
\* where it does not look.
Known ==
  \A i \in Importers : \A f \in Files \ missed :
    Importers = {i} /\ phase[i] # "off" /\ content[f] = "complete"
      => Accounted(i, f)

\* Steps inside a file, and the registration.
LEMMA StaysKnown ==
  ASSUME TypeOK, Known,
         UNCHANGED <<content, version, missed, imported, todo, pending, source>>,
         \A i \in Importers : /\ phase'[i] # "off" => phase[i] # "off"
                              /\ Importing(i)' = Importing(i)
  PROVE  Known'
<1> SUFFICES ASSUME NEW i \in Importers, NEW f \in Files \ missed',
                    Importers = {i}, phase'[i] # "off", content'[f] = "complete"
             PROVE  Accounted(i, f)'
  BY DEF Known
<1>1. Accounted(i, f) /\ Importing(i)' = Importing(i)
  BY DEF Known
<1> QED
  BY <1>1 DEF Accounted, Listed, Signalled, UpToDate

LEMMA RowKnown ==
  ASSUME TypeOK, Known, NEW i \in Importers,
         \/ SkipRow(i) \/ Find(i) \/ Update(i) \/ Insert(i) \/ WriteFails(i)
         \/ Register(i)
  PROVE  Known'
<1>1. UNCHANGED <<content, version, missed, imported, todo, pending, source>>
  BY DEF SkipRow, Find, Update, Insert, WriteFails, Register, fileVars, processVars,
         importVars, historyVars
<1>2. ASSUME NEW j \in Importers
      PROVE  /\ phase'[j] # "off" => phase[j] # "off"
             /\ Importing(j)' = Importing(j)
  BY DEF TypeOK, SkipRow, Find, Update, Insert, WriteFails, Register, AfterFailure,
         NextRow, Importing, processVars
<1> QED
  BY <1>1, <1>2, StaysKnown

LEMMA ExitKnown ==
  ASSUME TypeOK, Known, NEW i \in Importers, Exit(i)
  PROVE  Known'
<1>1. phase'[i] = "off"
  BY DEF Exit, TypeOK
<1> QED
  BY <1>1 DEF Known

\* listFiles returns every file, whatever their order.
LEMMA ListingComplete ==
  ASSUME NEW s \in Listings, NEW f \in Present
  PROVE  \E k \in 1 .. Len(s) : s[k] = f
<1>1. IsFiniteSet(Present)
  BY FileAssumption, FS_Subset DEF Present
<1> DEFINE n == Cardinality(Present)
<1>2. n \in Nat
  BY <1>1, FS_CardinalityType
<1>3. s \in [1 .. n -> Present] /\ \A k, l \in DOMAIN s : s[k] = s[l] => k = l
  BY DEF Listings
<1>4. IsFiniteSet(1 .. n) /\ Cardinality(1 .. n) = n
  BY <1>2, FS_Interval
<1>5. Len(s) = n
  BY <1>2, <1>3
<1> HIDE DEF n
<1>6. s \in Injection(1 .. n, Present)
  BY <1>3 DEF Injection, IsInjective
<1>7. s \in Surjection(1 .. n, Present)
  BY <1>1, <1>4, <1>6, FS_Injection DEF n
<1> QED
  BY <1>5, <1>7 DEF Surjection

LEMMA StartKnown ==
  ASSUME TypeOK, Known, NEW i \in Importers, Start(i)
  PROVE  Known'
<1> SUFFICES ASSUME NEW f \in Files, content[f] = "complete"
             PROVE  Listed(i, f)'
  BY DEF Known, Accounted, Start, fileVars
<1>1. PICK s \in Listings : todo' = [todo EXCEPT ![i] = s]
  BY DEF Start
<1>2. todo'[i] = s /\ ~Importing(i)'
  BY <1>1 DEF Start, TypeOK, Importing
<1>3. f \in Present
  BY DEF Present
<1> QED
  BY <1>2, <1>3, ListingComplete DEF Listed

LEMMA TakeKnown ==
  ASSUME TypeOK, Known, NEW i \in Importers, Take(i)
  PROVE  Known'
<1> SUFFICES ASSUME NEW f \in Files \ missed, Importers = {i}, phase[i] # "off",
                    content[f] = "complete"
             PROVE  Accounted(i, f)'
  BY DEF Known, Take, fileVars, historyVars
<1>1. Accounted(i, f)
  BY DEF Known
<1>2. /\ todo[i] = <<>> /\ todo'[i] = pending[i] /\ ~Importing(i)'
      /\ version' = version /\ imported' = imported
  BY DEF Take, Polled, TypeOK, Importing, fileVars, historyVars
<1>3. ~Listed(i, f)
  BY <1>2 DEF Listed
<1>4. Signalled(i, f) => Listed(i, f)'
  BY <1>2 DEF Signalled, Listed
<1>5. UpToDate(i, f) => UpToDate(i, f)'
  BY <1>2 DEF UpToDate
<1> QED
  BY <1>1, <1>3, <1>4, <1>5 DEF Accounted

LEMMA ReadKnown ==
  ASSUME TypeOK, Known, NEW i \in Importers, ReadFile(i)
  PROVE  Known'
<1> SUFFICES ASSUME NEW f \in Files \ missed, Importers = {i}, phase[i] # "off",
                    content[f] = "complete"
             PROVE  Accounted(i, f)'
  BY DEF Known, ReadFile, fileVars, historyVars, processVars
<1>1. Accounted(i, f)
  BY DEF Known
<1>2. /\ UNCHANGED <<version, imported, todo, pending, content>>
      /\ todo[i] # <<>> /\ Head(todo[i]) \in Files /\ Head(todo[i]) = todo[i][1]
      /\ todo[i] \in Seq(Files)
  BY DEF ReadFile, TypeOK, fileVars, historyVars, processVars
<1>3. source'[i] = [version |-> version[Head(todo[i])],
                    state |-> content[Head(todo[i])]]
  BY DEF ReadFile, TypeOK
<1>4. Listed(i, f) => Listed(i, f)'
  <2> SUFFICES ASSUME NEW k \in 1 .. Len(todo[i]), todo[i][k] = f
               PROVE  Listed(i, f)'
    BY DEF Listed
  <2>1. k = 1 => source'[i] = [version |-> version'[f], state |-> "complete"]
    BY <1>2, <1>3
  <2> QED
    BY <1>2, <2>1 DEF Listed
<1>5. Signalled(i, f) => Signalled(i, f)'
  BY <1>2 DEF Signalled
<1>6. UpToDate(i, f) => UpToDate(i, f)'
  BY <1>2, <1>3 DEF UpToDate
<1> QED
  BY <1>1, <1>4, <1>5, <1>6 DEF Accounted

LEMMA ImportedKnown ==
  ASSUME TypeOK, Known, NEW i \in Importers, Imported(i)
  PROVE  Known'
<1> SUFFICES ASSUME NEW f \in Files \ missed, Importers = {i}, phase[i] # "off",
                    content[f] = "complete"
             PROVE  Accounted(i, f)'
  BY DEF Known, Imported, fileVars
<1>1. Accounted(i, f)
  BY DEF Known
<1>2. /\ UNCHANGED <<version, pending>>
      /\ Importing(i) /\ ~Importing(i)'
      /\ todo'[i] = Tail(todo[i])
      /\ todo[i] \in Seq(Files) /\ todo[i] # <<>> /\ Head(todo[i]) = todo[i][1]
      /\ Head(todo[i]) \in Files
  BY DEF Imported, OtherFiles, Importing, TypeOK, fileVars
<1>3. imported' = IF source[i].state = "complete"
                  THEN [imported EXCEPT ![Head(todo[i])] = source[i].version]
                  ELSE imported
  BY DEF Imported
<1>4. imported \in [Files -> Versions]
  BY DEF TypeOK
<1>5. imported'[f] = IF source[i].state = "complete" /\ f = Head(todo[i])
                     THEN source[i].version ELSE imported[f]
  BY <1>3, <1>4
<1>6. Listed(i, f) => Accounted(i, f)'
  <2> SUFFICES ASSUME NEW k \in 1 .. Len(todo[i]), todo[i][k] = f,
                      k = 1 => source[i] = [version |-> version[f], state |-> "complete"]
               PROVE  Accounted(i, f)'
    BY <1>2 DEF Listed
  <2>1. CASE k = 1
    BY <1>2, <1>5, <2>1 DEF Accounted, UpToDate
  <2>2. CASE k # 1
    <3>1. k - 1 \in 1 .. Len(Tail(todo[i])) /\ Tail(todo[i])[k - 1] = todo[i][k]
      BY <1>2, <2>2
    <3>2. Listed(i, f)'
      BY <1>2, <3>1 DEF Listed
    <3> QED
      BY <3>2 DEF Accounted
  <2> QED
    BY <2>1, <2>2
<1>7. Signalled(i, f) => Signalled(i, f)'
  BY <1>2 DEF Signalled
<1>8. UpToDate(i, f) => UpToDate(i, f)'
  BY <1>2, <1>5 DEF UpToDate
<1> QED
  BY <1>1, <1>6, <1>7, <1>8 DEF Accounted

\* An event is kept, and tells an importer that watches of its file.
LEMMA EventKept ==
  ASSUME TypeOK, NEW f \in Files, Event(f), NEW i \in Importers
  PROVE  /\ \A g : Signalled(i, g) => Signalled(i, g)'
         /\ phase[i] = "watch" => Signalled(i, f)'
<1>1. pending[i] \in Seq(Files) /\ Len(pending[i]) \in Nat
  BY DEF TypeOK
<1>2. pending'[i] = IF phase[i] = "watch"
                       /\ \A k \in DOMAIN pending[i] : pending[i][k] # f
                    THEN Append(pending[i], f) ELSE pending[i]
  BY DEF Event
<1>3. DOMAIN pending[i] = 1 .. Len(pending[i])
  BY <1>1
<1>4. CASE pending'[i] = Append(pending[i], f)
  <2>1. /\ Len(pending'[i]) = Len(pending[i]) + 1
        /\ pending'[i][Len(pending[i]) + 1] = f
        /\ \A k \in 1 .. Len(pending[i]) : pending'[i][k] = pending[i][k]
    BY <1>1, <1>4, AppendProperties
  <2> HIDE <1>4
  <2> QED
    BY <1>1, <2>1 DEF Signalled
<1>5. CASE pending'[i] = pending[i] /\ (phase[i] # "watch"
                                        \/ \E k \in DOMAIN pending[i] : pending[i][k] = f)
  BY <1>3, <1>5 DEF Signalled
<1> QED
  BY <1>2, <1>4, <1>5

LEMMA VolumeKnown ==
  ASSUME TypeOK, Known, NEW f \in Files, WriteFile(f) \/ CopyingEnds(f)
  PROVE  Known'
<1> SUFFICES ASSUME NEW i \in Importers, NEW g \in Files \ missed',
                    Importers = {i}, phase'[i] # "off", content'[g] = "complete"
             PROVE  Accounted(i, g)'
  BY DEF Known
<1>1. /\ UNCHANGED <<pc, phase, todo, source, imported>>
      /\ missed' = IF Overlooked(f) THEN missed \cup {f} ELSE missed
      /\ Event(f)
      /\ content \in [Files -> {"absent", "partial", "complete", "broken"}]
      /\ version \in [Files -> Versions]
  BY DEF WriteFile, CopyingEnds, importVars, TypeOK
<1>2. CASE g = f
  <2>1. ~Overlooked(f)
    BY <1>1, <1>2
  <2>2. CASE phase[i] = "watch"
    BY <1>1, <1>2, <2>2, EventKept DEF Accounted
  <2>3. CASE phase[i] = "scan"
    <3>1. PICK k \in (IF Importing(i) THEN 2 ELSE 1) .. Len(todo[i]) : todo[i][k] = f
      BY <2>1, <2>3 DEF Overlooked
    <3>2. todo'[i] = todo[i] /\ Importing(i)' = Importing(i)
      BY <1>1 DEF Importing
    <3>3. k \in 1 .. Len(todo[i]) /\ (Importing(i) => k # 1)
      <4>1. Len(todo[i]) \in Nat
        BY DEF TypeOK
      <4> QED
        BY <3>1, <4>1
    <3>4. Listed(i, f)'
      BY <3>1, <3>2, <3>3 DEF Listed
    <3> QED
      BY <1>2, <3>4 DEF Accounted
  <2>4. phase[i] \in {"off", "scan", "watch"} /\ phase[i] # "off"
    BY <1>1 DEF TypeOK
  <2> QED
    BY <2>2, <2>3, <2>4
<1>3. CASE g # f
  <2>1. content'[g] = content[g] /\ version'[g] = version[g]
    BY <1>1, <1>3 DEF WriteFile, CopyingEnds
  <2>2. Accounted(i, g)
    BY <1>1, <2>1 DEF Known
  <2>3. Importing(i)' = Importing(i) /\ todo'[i] = todo[i] /\ source'[i] = source[i]
        /\ imported'[g] = imported[g]
    BY <1>1 DEF Importing
  <2>4. Listed(i, g) => Listed(i, g)'
    BY <2>1, <2>3 DEF Listed
  <2>5. Signalled(i, g) => Signalled(i, g)'
    BY <1>1, EventKept
  <2>6. UpToDate(i, g) => UpToDate(i, g)'
    BY <2>1, <2>3 DEF UpToDate
  <2> QED
    BY <2>2, <2>4, <2>5, <2>6 DEF Accounted
<1> QED
  BY <1>2, <1>3

LEMMA NextKnown == TypeOK /\ Known /\ [Next]_vars => Known'
<1> SUFFICES ASSUME TypeOK, Known, [Next]_vars PROVE Known'
  OBVIOUS
<1>1. ASSUME NEW i \in Importers,
             EmptyFile(i) \/ BadRow(i) \/ FindFails(i) \/ Stop(i)
      PROVE  Known'
  BY <1>1, ExitKnown DEF EmptyFile, BadRow, FindFails, Stop
<1>2. ASSUME NEW i \in Importers, Main(i)
      PROVE  Known'
  BY <1>2, StartKnown, RowKnown, TakeKnown DEF Main
<1>3. ASSUME NEW i \in Importers, UpdateDatabase(i) \/ WriteFails(i)
      PROVE  Known'
  BY <1>1, <1>3, ReadKnown, RowKnown, ImportedKnown DEF UpdateDatabase
<1>4. CASE UNCHANGED vars
  BY <1>4, StaysKnown
     DEF vars, fileVars, processVars, importVars, historyVars, Importing
<1> QED
  BY <1>1, <1>2, <1>3, <1>4, VolumeKnown DEF Next

\* An importer that runs alone and waits has imported every complete file in
\* its present version, for any files, rows, failures and restarts: only what
\* was written between the listing and the registration of the watcher is
\* missing, also if a file is rewritten while it is being imported.
THEOREM WaitingMeansCurrent == Spec => []WaitingIsCurrent
<1>1. Init => TypeOK /\ InRow /\ Known
  <2>1. Init => Known
    BY DEF Init, Known
  <2> QED
    BY <2>1, InitTypeOK
<1>2. (TypeOK /\ InRow /\ Known) /\ [Next]_vars => (TypeOK /\ InRow /\ Known)'
  BY NextType, NextKnown
<1>3. TypeOK /\ InRow /\ Known => WaitingIsCurrent
  <2> SUFFICES ASSUME TypeOK, Known, NEW i \in Importers, NEW f \in Files \ missed,
                      Waits(i), content[f] = "complete"
               PROVE  imported[f] = version[f]
    BY DEF WaitingIsCurrent
  <2>1. /\ Importers = {i} /\ phase[i] = "watch"
        /\ todo[i] = <<>> /\ pending[i] = <<>>
    BY DEF Waits
  <2>2. Accounted(i, f)
    BY <2>1 DEF Known
  <2>3. Len(todo[i]) = 0 /\ Len(pending[i]) = 0
    BY <2>1
  <2>4. ~Listed(i, f) /\ ~Signalled(i, f)
    BY <2>3 DEF Listed, Signalled
  <2> QED
    BY <2>2, <2>4 DEF Accounted, UpToDate
<1> QED
  BY <1>1, <1>2, <1>3, PTL DEF Spec

-----------------------------------------------------------------------------
(* Rows that are missing *)

\* The rows of the file being imported, and the positions that are done.
FileBeingRead(i) == Rows[Head(todo[i])]

Done(i) == 1 .. (Len(FileBeingRead(i)) - Len(rows[i]))

\* What a complete file has left is its last rows.
LastRowsLeft(i) ==
  Importing(i) /\ source[i].state = "complete" =>
    \A k \in 1 .. Len(rows[i]) :
      rows[i][k] = FileBeingRead(i)[Len(FileBeingRead(i)) - Len(rows[i]) + k]

\* Where a document was found there still is one.
StillFound(i) == pc[i] = "update" => bonds[Head(rows[i])] # <<>>

ReadsOn == \A i \in Importers : LastRowsLeft(i) /\ StillFound(i)

\* An importer has been past a row with this ISIN, in a file it imported or in
\* the one it imports.
PassedIn(i, isin) ==
  /\ Importing(i) /\ source[i].state = "complete"
  /\ \E k \in Done(i) : FileBeingRead(i)[k] = isin

ImportedWith(isin) ==
  \E f \in Files : imported[f] > 0 /\ \E k \in DOMAIN Rows[f] : Rows[f][k] = isin

Passed(isin) == ImportedWith(isin) \/ \E i \in Importers : PassedIn(i, isin)

Missing == {isin \in Isins : bonds[isin] = <<>> /\ Passed(isin)}

\* Each missing ISIN has had a failure of its own.
MissingCounted == IsFiniteSet(Missing) /\ Cardinality(Missing) <= faults

LEMMA RowsOfFile ==
  ASSUME TypeOK, NEW i \in Importers, Importing(i)
  PROVE  /\ todo[i] # <<>> /\ Head(todo[i]) \in Files
         /\ FileBeingRead(i) \in Seq(Entries)
         /\ Len(FileBeingRead(i)) \in Nat /\ Len(rows[i]) \in Nat
         /\ rows[i] \in Seq(Entries)
         /\ source[i].state = "complete" => Len(rows[i]) <= Len(FileBeingRead(i))
<1>1. /\ todo[i] # <<>>
      /\ numFailed[i] + Len(rows[i]) <= MostRows(Head(todo[i]), source[i].state)
  BY DEF TypeOK
<1>2. Head(todo[i]) \in Files
  BY <1>1 DEF TypeOK
<1>3. FileBeingRead(i) \in Seq(Entries)
  BY <1>2, FileType DEF FileBeingRead
<1>4. /\ rows[i] \in Seq(Entries)
      /\ numFailed[i] \in Nat
  BY DEF TypeOK
<1>5. Len(FileBeingRead(i)) \in Nat /\ Len(rows[i]) \in Nat
  BY <1>3, <1>4
<1>6. source[i].state = "complete" => Len(rows[i]) <= Len(FileBeingRead(i))
  <2> SUFFICES ASSUME source[i].state = "complete"
               PROVE  Len(rows[i]) <= Len(FileBeingRead(i))
    OBVIOUS
  <2>1. MostRows(Head(todo[i]), source[i].state) = Len(FileBeingRead(i)) + 0
    BY Zenon DEF MostRows, FileBeingRead
  <2> QED
    BY <1>1, <1>4, <1>5, <2>1
<1> QED
  BY <1>1, <1>2, <1>3, <1>4, <1>5, <1>6

\* No ISIN is missed that was not: none is passed, no document disappears.
LEMMA NoneMissed ==
  ASSUME MissingCounted, TypeOK, TypeOK', faults' >= faults,
         \A isin \in Isins :
           bonds'[isin] = <<>> /\ Passed(isin)' => bonds[isin] = <<>> /\ Passed(isin)
  PROVE  MissingCounted'
<1>1. Missing' \subseteq Missing
  BY DEF Missing
<1>2. IsFiniteSet(Missing') /\ Cardinality(Missing') <= Cardinality(Missing)
  BY <1>1, FS_Subset DEF MissingCounted
<1>3. Cardinality(Missing) \in Nat /\ Cardinality(Missing') \in Nat
  BY <1>2, FS_CardinalityType DEF MissingCounted
<1>4. faults \in Int /\ faults' \in Int
  BY BoundAssumption DEF TypeOK
<1> QED
  BY <1>2, <1>3, <1>4 DEF MissingCounted

\* What an importer has passed depends on its own file only.
LEMMA SamePassed ==
  ASSUME NEW j \in Importers, Importing(j)' = Importing(j),
         source'[j] = source[j], todo'[j] = todo[j], rows'[j] = rows[j]
  PROVE  /\ \A isin : PassedIn(j, isin)' <=> PassedIn(j, isin)
         /\ LastRowsLeft(j) => LastRowsLeft(j)'
<1>1. FileBeingRead(j)' = FileBeingRead(j)
  BY DEF FileBeingRead
<1> QED
  BY <1>1 DEF PassedIn, Done, LastRowsLeft

\* The first row is done: its ISIN, and no other, is passed.
LEMMA PassesRow ==
  ASSUME TypeOK, ReadsOn, NEW i \in Importers, Importing(i), rows[i] # <<>>,
         rows' = [rows EXCEPT ![i] = Tail(@)], Importing(i)',
         UNCHANGED <<todo, source>>
  PROVE  /\ \A isin : PassedIn(i, isin)' => PassedIn(i, isin) \/ isin = Head(rows[i])
         /\ LastRowsLeft(i)'
<1> DEFINE F == FileBeingRead(i)
           r == rows[i]
<1>1. /\ r \in Seq(Entries) /\ Len(r) \in Nat /\ Len(r) > 0
      /\ Len(F) \in Nat
      /\ source[i].state = "complete" => Len(r) <= Len(F)
      /\ rows'[i] = Tail(r) /\ F' = F
  <2>1. /\ rows[i] \in Seq(Entries) /\ Len(rows[i]) \in Nat
        /\ Len(FileBeingRead(i)) \in Nat
        /\ source[i].state = "complete" => Len(rows[i]) <= Len(FileBeingRead(i))
    BY RowsOfFile
  <2>2. rows'[i] = Tail(rows[i]) /\ FileBeingRead(i)' = FileBeingRead(i)
    BY DEF TypeOK, FileBeingRead
  <2> QED
    BY <2>1, <2>2
<1>2. /\ Len(Tail(r)) = Len(r) - 1
      /\ \A k \in 1 .. Len(r) - 1 : Tail(r)[k] = r[k + 1]
      /\ Head(r) = r[1]
  BY <1>1
<1>3. source[i].state = "complete" =>
        \A k \in 1 .. Len(r) : r[k] = F[Len(F) - Len(r) + k]
  BY DEF ReadsOn, LastRowsLeft
<1> HIDE DEF F, r
<1>4. ASSUME NEW isin, PassedIn(i, isin)'
      PROVE  PassedIn(i, isin) \/ isin = Head(r)
  <2>1. source[i].state = "complete"
    BY <1>4 DEF PassedIn
  <2>2. PICK k \in 1 .. (Len(F) - (Len(r) - 1)) : F[k] = isin
    <3>1. PICK k \in Done(i)' : F'[k] = isin
      BY <1>4 DEF PassedIn, F
    <3>2. Done(i)' = 1 .. (Len(F') - Len(rows'[i]))
      BY DEF Done, F
    <3>3. Len(F') = Len(F) /\ Len(rows'[i]) = Len(r) - 1 /\ F'[k] = F[k]
      BY <1>1, <1>2
    <3> QED
      BY <3>1, <3>2, <3>3
  <2>3. CASE k \in 1 .. (Len(F) - Len(r))
    BY <2>1, <2>2, <2>3 DEF PassedIn, Done, F, r
  <2>4. CASE k = Len(F) - Len(r) + 1
    <3>1. r[1] = F[Len(F) - Len(r) + 1]
      BY <1>1, <1>3, <2>1
    <3> QED
      BY <1>2, <2>2, <2>4, <3>1
  <2>5. k \in 1 .. (Len(F) - Len(r)) \/ k = Len(F) - Len(r) + 1
    <3>1. Len(F) \in Nat /\ Len(r) \in Nat
      BY <1>1
    <3>2. k \in 1 .. (Len(F) - (Len(r) - 1))
      OBVIOUS
    <3> QED
      BY <3>1, <3>2
  <2> QED
    BY <2>3, <2>4, <2>5
<1>5. Len(rows'[i]) = Len(r) - 1
  BY <1>1, <1>2
<1>6. ASSUME source[i].state = "complete", NEW k \in 1 .. (Len(r) - 1)
      PROVE  rows'[i][k] = F[Len(F) - (Len(r) - 1) + k]
  <2>1. k + 1 \in 1 .. Len(r)
    BY <1>1
  <2>2. rows'[i][k] = r[k + 1]
    BY <1>1, <1>2
  <2>3. r[k + 1] = F[Len(F) - Len(r) + (k + 1)]
    BY <1>3, <1>6, <2>1
  <2>4. Len(F) - Len(r) + (k + 1) = Len(F) - (Len(r) - 1) + k
    BY <1>1
  <2> QED
    BY <2>2, <2>3, <2>4
<1>7. source[i].state = "complete" =>
        \A k \in 1 .. Len(rows'[i]) : rows'[i][k] = F[Len(F) - Len(rows'[i]) + k]
  BY <1>5, <1>6
<1>8. \A isin : PassedIn(i, isin)' => PassedIn(i, isin) \/ isin = Head(rows[i])
  BY <1>4 DEF r
<1>9. LastRowsLeft(i)'
  BY <1>1, <1>7 DEF F, LastRowsLeft
<1> QED
  BY <1>8, <1>9

\* The process ends: what it passed in the file is forgotten.
LEMMA ExitMissing ==
  ASSUME TypeOK, ReadsOn, MissingCounted, NEW i \in Importers, Exit(i),
         TypeOK', faults' >= faults
  PROVE  ReadsOn' /\ MissingCounted'
<1>1. /\ UNCHANGED <<bonds, imported>>
      /\ pc'[i] = "off"
      /\ \A j \in Importers \ {i} :
           /\ pc'[j] = pc[j] /\ todo'[j] = todo[j]
           /\ rows'[j] = rows[j] /\ source'[j] = source[j]
  BY DEF Exit, Leave, fileVars, TypeOK
<1>2. ~Importing(i)' /\ \A j \in Importers \ {i} : Importing(j)' = Importing(j)
  BY <1>1 DEF Importing
<1>3. \A j \in Importers : \A isin : PassedIn(j, isin)' => PassedIn(j, isin)
  BY <1>1, <1>2, SamePassed DEF PassedIn
<1>4. ReadsOn'
  <2>1. \A j \in Importers : LastRowsLeft(j)'
    BY <1>1, <1>2, SamePassed DEF ReadsOn, LastRowsLeft
  <2>2. \A j \in Importers : StillFound(j)'
    BY <1>1 DEF ReadsOn, StillFound
  <2> QED
    BY <2>1, <2>2 DEF ReadsOn
<1>5. \A isin : Passed(isin)' => Passed(isin)
  BY <1>1, <1>3 DEF Passed, ImportedWith
<1> QED
  BY <1>1, <1>4, <1>5, NoneMissed

\* Steps that leave the files, the rows and the collection alone.
LEMMA IdleMissing ==
  ASSUME TypeOK, ReadsOn, MissingCounted, TypeOK',
         UNCHANGED <<bonds, rows, source, imported, faults>>,
         \A j \in Importers :
           /\ Importing(j)' = Importing(j)
           /\ Importing(j) => todo'[j] = todo[j]
           /\ pc'[j] = "update" => bonds[Head(rows[j])] # <<>>
  PROVE  ReadsOn' /\ MissingCounted'
<1>1. ASSUME NEW j \in Importers, Importing(j)
      PROVE  (\A isin : PassedIn(j, isin)' => PassedIn(j, isin)) /\ LastRowsLeft(j)'
  <2>1. Importing(j)' = Importing(j) /\ todo'[j] = todo[j]
    BY <1>1
  <2> QED
    BY <2>1, SamePassed DEF ReadsOn
<1>2. ASSUME NEW j \in Importers, ~Importing(j)
      PROVE  (\A isin : PassedIn(j, isin)' => PassedIn(j, isin)) /\ LastRowsLeft(j)'
  BY <1>2 DEF PassedIn, LastRowsLeft
<1>3. ReadsOn'
  BY <1>1, <1>2 DEF ReadsOn, StillFound
<1>4. \A isin : Passed(isin)' => Passed(isin)
  BY <1>1, <1>2 DEF Passed, ImportedWith
<1> QED
  BY <1>3, <1>4, NoneMissed DEF TypeOK

LEMMA VolumeMissing ==
  ASSUME TypeOK, ReadsOn, MissingCounted, TypeOK', NEW f \in Files,
         WriteFile(f) \/ CopyingEnds(f)
  PROVE  ReadsOn' /\ MissingCounted'
<1>1. UNCHANGED <<bonds, pc, todo, rows, source, imported, faults>>
  BY DEF WriteFile, CopyingEnds, importVars
<1> QED
  BY <1>1, IdleMissing DEF Importing, ReadsOn, StillFound

LEMMA MainMissing ==
  ASSUME TypeOK, ReadsOn, MissingCounted, TypeOK', NEW i \in Importers, Main(i)
  PROVE  ReadsOn' /\ MissingCounted'
<1>1. UNCHANGED <<bonds, rows, source, imported, faults>>
  BY DEF Main, Start, Register, Take, fileVars, importVars, historyVars
<1>2. /\ ~Importing(i) /\ ~Importing(i)' /\ pc'[i] # "update"
      /\ \A j \in Importers \ {i} : pc'[j] = pc[j] /\ todo'[j] = todo[j]
  <2> USE DEF Importing, TypeOK
  <2>1. CASE Start(i)
    BY <2>1 DEF Start
  <2>2. CASE Register(i)
    BY <2>2 DEF Register
  <2>3. CASE Take(i)
    BY <2>3 DEF Take, Polled
  <2> QED
    BY <2>1, <2>2, <2>3 DEF Main
<1> QED
  BY <1>1, <1>2, IdleMissing DEF Importing, ReadsOn, StillFound

\* find decides for update only where there is a document.
LEMMA FindMissing ==
  ASSUME TypeOK, ReadsOn, MissingCounted, TypeOK', NEW i \in Importers, Find(i)
  PROVE  ReadsOn' /\ MissingCounted'
<1>1. UNCHANGED <<bonds, todo, rows, source, imported, faults>>
  BY DEF Find, fileVars, importVars, historyVars, processVars
<1>2. /\ Importing(i) /\ Importing(i)'
      /\ pc'[i] = "update" => bonds[Head(rows[i])] # <<>>
      /\ \A j \in Importers \ {i} : pc'[j] = pc[j]
  BY DEF Find, Found, Importing, TypeOK
<1> QED
  BY <1>1, <1>2, IdleMissing DEF Importing, ReadsOn, StillFound

\* Nothing of the file is passed yet; a complete one is read to its end.
LEMMA ReadMissing ==
  ASSUME TypeOK, InRow, ReadsOn, MissingCounted, TypeOK', NEW i \in Importers,
         ReadFile(i)
  PROVE  ReadsOn' /\ MissingCounted'
<1> DEFINE F == Rows[Head(todo[i])]
<1>1. /\ UNCHANGED <<bonds, todo, imported, faults>>
      /\ pc' = [pc EXCEPT ![i] = "find"] /\ todo[i] # <<>>
      /\ \A j \in Importers \ {i} : rows'[j] = rows[j] /\ source'[j] = source[j]
  BY DEF ReadFile, fileVars, historyVars, processVars, TypeOK
<1>2. Importing(i)' /\ \A j \in Importers \ {i} : Importing(j)' = Importing(j)
  BY <1>1 DEF Importing, TypeOK
<1>3. F \in Seq(Entries) /\ Head(todo[i]) \in Files
  BY <1>1, FileType DEF TypeOK
<1>4. source'[i].state # "complete" \/ rows'[i] = F
  BY <1>3, ReadingType DEF ReadFile, TypeOK
<1>5. FileBeingRead(i)' = F
  BY <1>1 DEF FileBeingRead
<1>6. \A isin : ~PassedIn(i, isin)'
  <2>1. CASE source'[i].state # "complete"
    BY <2>1 DEF PassedIn
  <2>2. CASE rows'[i] = F
    <3>1. Done(i)' = {}
      BY <1>3, <1>5, <2>2 DEF Done
    <3> QED
      BY <3>1 DEF PassedIn
  <2> QED
    BY <1>4, <2>1, <2>2
<1>7. LastRowsLeft(i)'
  <2> SUFFICES ASSUME rows'[i] = F PROVE LastRowsLeft(i)'
    BY <1>4 DEF LastRowsLeft
  <2>1. \A k \in 1 .. Len(F) : Len(F) - Len(F) + k = k
    BY <1>3
  <2> QED
    BY <1>5, <2>1 DEF LastRowsLeft
<1>8. \A j \in Importers \ {i} :
        /\ \A isin : PassedIn(j, isin)' <=> PassedIn(j, isin)
        /\ LastRowsLeft(j)'
  BY <1>1, <1>2, SamePassed DEF ReadsOn
<1>9. \A j \in Importers : StillFound(j)'
  BY <1>1 DEF ReadsOn, StillFound, TypeOK
<1>10. \A isin : Passed(isin)' => Passed(isin)
  BY <1>1, <1>6, <1>8 DEF Passed, ImportedWith
<1>11. faults' >= faults
  BY <1>1, BoundAssumption DEF TypeOK
<1>12. MissingCounted'
  BY <1>1, <1>10, <1>11, NoneMissed
<1> QED
  BY <1>7, <1>8, <1>9, <1>12 DEF ReadsOn

\* A row is skipped, written or not: only its ISIN is passed, and where there
\* was a document there is one.
LEMMA RowPassed ==
  ASSUME TypeOK, InRow, ReadsOn, NEW i \in Importers,
         SkipRow(i) \/ Update(i) \/ Insert(i) \/ WriteFails(i)
  PROVE  /\ \A isin : Passed(isin)' => Passed(isin) \/ isin = Head(rows[i])
         /\ \A isin \in Keys : bonds[isin] # <<>> => bonds'[isin] # <<>>
         /\ ReadsOn'
<1>1. /\ UNCHANGED <<todo, source, imported>>
      /\ rows' = [rows EXCEPT ![i] = Tail(rows[i])]
      /\ pc' = [pc EXCEPT ![i] = "find"]
      /\ Importing(i) /\ rows[i] # <<>>
  BY DEF SkipRow, Update, Insert, WriteFails, AfterFailure, NextRow, Importing, InRow,
         fileVars, processVars, historyVars, TypeOK
<1>2. Importing(i)' /\ \A j \in Importers \ {i} : Importing(j)' = Importing(j)
  BY <1>1 DEF Importing, TypeOK
<1>3. /\ \A isin : PassedIn(i, isin)' => PassedIn(i, isin) \/ isin = Head(rows[i])
      /\ LastRowsLeft(i)'
  BY <1>1, <1>2, PassesRow
<1>4. \A j \in Importers \ {i} : rows'[j] = rows[j]
  BY <1>1 DEF TypeOK
<1>5. \A j \in Importers \ {i} :
        /\ \A isin : PassedIn(j, isin)' <=> PassedIn(j, isin)
        /\ LastRowsLeft(j)'
  BY <1>1, <1>2, <1>4, SamePassed DEF ReadsOn
<1>6. ASSUME NEW isin \in Keys, bonds[isin] # <<>>
      PROVE  bonds'[isin] # <<>>
  <2>1. CASE SkipRow(i)
    BY <1>6, <2>1 DEF SkipRow
  <2>2. CASE Update(i) \/ Insert(i) \/ WriteFails(i)
    <3>1. Head(rows[i]) \in Keys
      BY <2>2 DEF Update, Insert, WriteFails, InRow
    <3>2. bonds' \in {bonds, Updated(i), Inserted(i)}
      BY <2>2 DEF Update, Insert, WriteFails
    <3> QED
      BY <1>6, <3>1, <3>2, WrittenType
  <2> QED
    BY <2>1, <2>2
<1>7. ASSUME NEW j \in Importers
      PROVE  StillFound(j)'
  <2>1. CASE j = i
    BY <1>1, <2>1 DEF StillFound, TypeOK
  <2>2. CASE j # i
    <3>1. pc'[j] = pc[j] /\ rows'[j] = rows[j]
      BY <1>1, <1>4, <2>2 DEF TypeOK
    <3>2. pc[j] = "update" => Head(rows[j]) \in Keys /\ bonds[Head(rows[j])] # <<>>
      BY DEF ReadsOn, StillFound, InRow
    <3> QED
      BY <1>6, <3>1, <3>2 DEF StillFound
  <2> QED
    BY <2>1, <2>2
<1>8. \A isin : Passed(isin)' => Passed(isin) \/ isin = Head(rows[i])
  BY <1>1, <1>3, <1>5 DEF Passed, ImportedWith
<1>9. ReadsOn'
  BY <1>3, <1>5, <1>7 DEF ReadsOn
<1> QED
  BY <1>6, <1>8, <1>9

\* A row that is skipped has no ISIN; one that is written leaves a document.
LEMMA WrittenMissing ==
  ASSUME TypeOK, InRow, ReadsOn, MissingCounted, TypeOK', NEW i \in Importers,
         SkipRow(i) \/ Update(i) \/ Insert(i)
  PROVE  ReadsOn' /\ MissingCounted'
<1>1. faults' = faults
  BY DEF SkipRow, Update, Insert, historyVars
<1>2. Head(rows[i]) \in Keys => bonds'[Head(rows[i])] # <<>>
  <2>1. CASE SkipRow(i)
    BY <2>1, FileAssumption DEF SkipRow, Keys
  <2>2. CASE Update(i)
    <3>1. bonds[Head(rows[i])] # <<>> /\ Head(rows[i]) \in Keys
      BY <2>2 DEF Update, ReadsOn, StillFound, InRow
    <3> QED
      BY <2>2, <3>1, RowPassed
  <2>3. CASE Insert(i)
    BY <2>3, WrittenType DEF Insert, InRow
  <2> QED
    BY <2>1, <2>2, <2>3
<1>3. ASSUME NEW isin \in Isins, bonds'[isin] = <<>>, Passed(isin)'
      PROVE  bonds[isin] = <<>> /\ Passed(isin)
  BY <1>2, <1>3, RowPassed DEF Keys
<1>4. faults' >= faults
  BY <1>1, BoundAssumption DEF TypeOK
<1>5. MissingCounted'
  BY <1>3, <1>4, NoneMissed
<1> QED
  BY <1>5, RowPassed

\* A write that fails makes at most one ISIN missing, and is counted.
LEMMA FailureMissing ==
  ASSUME TypeOK, InRow, ReadsOn, MissingCounted, TypeOK', NEW i \in Importers,
         WriteFails(i)
  PROVE  ReadsOn' /\ MissingCounted'
<1>1. faults' = faults + 1 /\ faults \in Nat
  BY BoundAssumption DEF WriteFails, TypeOK
<1>2. Missing' \subseteq Missing \cup {Head(rows[i])}
  BY RowPassed DEF Missing, Keys
<1>3. /\ IsFiniteSet(Missing \cup {Head(rows[i])})
      /\ Cardinality(Missing \cup {Head(rows[i])}) <= Cardinality(Missing) + 1
      /\ Cardinality(Missing) \in Nat
      /\ Cardinality(Missing \cup {Head(rows[i])}) \in Nat
  <2>1. IsFiniteSet(Missing) /\ Cardinality(Missing) \in Nat
    BY FS_CardinalityType DEF MissingCounted
  <2>2. /\ IsFiniteSet(Missing \cup {Head(rows[i])})
        /\ \/ Cardinality(Missing \cup {Head(rows[i])}) = Cardinality(Missing)
           \/ Cardinality(Missing \cup {Head(rows[i])}) = Cardinality(Missing) + 1
    BY <2>1, FS_AddElement
  <2> QED
    BY <2>1, <2>2
<1>4. /\ IsFiniteSet(Missing')
      /\ Cardinality(Missing') <= Cardinality(Missing \cup {Head(rows[i])})
      /\ Cardinality(Missing') \in Nat
  BY <1>2, <1>3, FS_Subset, FS_CardinalityType
<1>5. MissingCounted'
  BY <1>1, <1>3, <1>4 DEF MissingCounted
<1> QED
  BY <1>5, RowPassed

\* A file counts as imported when every row of it has been passed.
LEMMA ImportedMissing ==
  ASSUME TypeOK, ReadsOn, MissingCounted, TypeOK', NEW i \in Importers, Imported(i)
  PROVE  ReadsOn' /\ MissingCounted'
<1> DEFINE f == Head(todo[i])
<1>1. /\ bonds' = bonds /\ faults' = faults
      /\ Importing(i) /\ rows[i] = <<>> /\ pc' = [pc EXCEPT ![i] = "next"]
      /\ \A j \in Importers \ {i} :
           /\ pc'[j] = pc[j] /\ todo'[j] = todo[j]
           /\ rows'[j] = rows[j] /\ source'[j] = source[j]
  BY DEF Imported, Leave, fileVars, Importing, TypeOK
<1>2. ~Importing(i)' /\ \A j \in Importers \ {i} : Importing(j)' = Importing(j)
  BY <1>1 DEF Importing, TypeOK
<1>3. \A j \in Importers \ {i} :
        /\ \A isin : PassedIn(j, isin)' <=> PassedIn(j, isin)
        /\ LastRowsLeft(j)'
  BY <1>1, <1>2, SamePassed DEF ReadsOn
<1>4. (\A isin : ~PassedIn(i, isin)') /\ LastRowsLeft(i)'
  BY <1>2 DEF PassedIn, LastRowsLeft
<1>5. \A j \in Importers : StillFound(j)'
  BY <1>1 DEF ReadsOn, StillFound, TypeOK
<1>6. /\ \A g \in Files \ {f} : imported'[g] = imported[g]
      /\ source[i].state # "complete" => imported'[f] = imported[f]
  BY DEF Imported, TypeOK
<1>7. ASSUME source[i].state = "complete", NEW k \in DOMAIN Rows[f]
      PROVE  PassedIn(i, Rows[f][k])
  <2>1. DOMAIN Rows[f] = 1 .. Len(Rows[f]) /\ Len(Rows[f]) \in Nat
    BY <1>1, RowsOfFile DEF FileBeingRead
  <2>2. k \in Done(i)
    BY <1>1, <2>1 DEF Done, FileBeingRead
  <2> QED
    BY <1>1, <1>7, <2>2 DEF PassedIn, FileBeingRead
<1>8. ASSUME NEW isin, ImportedWith(isin)'
      PROVE  Passed(isin)
  <2>1. PICK g \in Files : imported'[g] > 0 /\ \E k \in DOMAIN Rows[g] : Rows[g][k] = isin
    BY <1>8 DEF ImportedWith
  <2>2. CASE g # f \/ source[i].state # "complete"
    <3>1. imported'[g] = imported[g]
      BY <1>6, <2>2
    <3> QED
      BY <2>1, <3>1 DEF Passed, ImportedWith
  <2>3. CASE g = f /\ source[i].state = "complete"
    BY <1>7, <2>1, <2>3 DEF Passed
  <2> QED
    BY <2>2, <2>3
<1>9. \A isin : Passed(isin)' => Passed(isin)
  BY <1>3, <1>4, <1>8 DEF Passed
<1>10. faults' >= faults
  BY <1>1, BoundAssumption DEF TypeOK
<1>11. MissingCounted'
  BY <1>1, <1>9, <1>10, NoneMissed
<1> QED
  BY <1>3, <1>4, <1>5, <1>11 DEF ReadsOn

LEMMA NextMissing ==
  ASSUME TypeOK, InRow, ReadsOn, MissingCounted, [Next]_vars
  PROVE  ReadsOn' /\ MissingCounted'
<1>1. TypeOK'
  BY NextType
<1>2. ASSUME NEW f \in Files, WriteFile(f) \/ CopyingEnds(f)
      PROVE  ReadsOn' /\ MissingCounted'
  BY <1>1, <1>2, VolumeMissing
<1>3. ASSUME NEW i \in Importers, Main(i)
      PROVE  ReadsOn' /\ MissingCounted'
  BY <1>1, <1>3, MainMissing
<1>4. ASSUME NEW i \in Importers,
             EmptyFile(i) \/ BadRow(i) \/ FindFails(i) \/ Stop(i)
      PROVE  ReadsOn' /\ MissingCounted'
  <2>1. Exit(i) /\ (faults' = faults \/ faults' = faults + 1)
    BY <1>4 DEF EmptyFile, BadRow, FindFails, Stop
  <2>2. faults' >= faults
    BY <2>1, BoundAssumption DEF TypeOK
  <2> QED
    BY <1>1, <2>1, <2>2, ExitMissing
<1>5. ASSUME NEW i \in Importers, UpdateDatabase(i) \/ WriteFails(i)
      PROVE  ReadsOn' /\ MissingCounted'
  BY <1>1, <1>4, <1>5, ReadMissing, FindMissing, WrittenMissing, ImportedMissing,
     FailureMissing DEF UpdateDatabase
<1>6. CASE UNCHANGED vars
  BY <1>1, <1>6, IdleMissing
     DEF vars, fileVars, processVars, importVars, historyVars, Importing,
         ReadsOn, StillFound
<1> QED
  BY <1>2, <1>3, <1>4, <1>5, <1>6 DEF Next

\* Every ISIN in a completely imported file that is not in the collection had a
\* write that failed, for any importers side by side, files that share ISINs,
\* crashes and restarts: no order of find, insert and update of several
\* importers and no rewriting of a file loses a row.
THEOREM OnlyFailuresAreMissing == Spec => []MissingHaveFailed
<1>1. Init => TypeOK /\ InRow /\ ReadsOn /\ MissingCounted
  <2> SUFFICES ASSUME Init PROVE ReadsOn /\ MissingCounted
    BY InitTypeOK
  <2>1. ReadsOn
    BY DEF Init, ReadsOn, LastRowsLeft, StillFound, Importing
  <2>2. Missing = {}
    BY DEF Init, Missing, Passed, PassedIn, ImportedWith, Importing
  <2>3. IsFiniteSet({}) /\ Cardinality({}) = 0
    BY FS_EmptySet
  <2> QED
    BY <2>1, <2>2, <2>3 DEF MissingCounted, Init
<1>2. /\ TypeOK /\ InRow /\ ReadsOn /\ MissingCounted
      /\ [Next]_vars
      => (TypeOK /\ InRow /\ ReadsOn /\ MissingCounted)'
  BY NextType, NextMissing
<1>3. TypeOK /\ MissingCounted => MissingHaveFailed
  <2> SUFFICES ASSUME TypeOK, MissingCounted PROVE MissingHaveFailed
    OBVIOUS
  <2> DEFINE S == {isin \in Isins :
                     /\ bonds[isin] = <<>>
                     /\ \E f \in Files : /\ imported[f] > 0
                                         /\ \E k \in DOMAIN Rows[f] : Rows[f][k] = isin}
  <2>1. S \subseteq Missing
    BY DEF Missing, Passed, ImportedWith
  <2>2. IsFiniteSet(S) /\ Cardinality(S) <= Cardinality(Missing)
    BY <2>1, FS_Subset DEF MissingCounted
  <2>3. Cardinality(S) \in Nat /\ Cardinality(Missing) \in Nat /\ faults \in Int
    BY <2>2, BoundAssumption, FS_CardinalityType DEF MissingCounted, TypeOK
  <2>4. Cardinality(S) <= faults
    BY <2>2, <2>3 DEF MissingCounted
  <2> QED
    BY <2>4 DEF MissingHaveFailed
<1> QED
  BY <1>1, <1>2, <1>3, PTL DEF Spec

=============================================================================
