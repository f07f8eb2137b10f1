------------------------------ MODULE Importer -----------------------------
(***************************************************************************)
(* The instrument importer (App.java): at start it imports the csv files   *)
(* of a volume, then watches the volume and imports what is created or     *)
(* modified.  An exception from a file ends it, in the scan and in the     *)
(* watcher, and so does a signal; the platform starts it again.  During a  *)
(* rollout two importers run side by side.                                 *)
(*                                                                         *)
(* A bond is its ISIN with what was read when it was last written: which   *)
(* version of a file, and whether that was all of it.  bonds[isin] holds   *)
(* all the documents with that ISIN.                                       *)
(***************************************************************************)
EXTENDS Integers, Sequences, FiniteSets

CONSTANTS
  Importers,     \* importers that may run at the same time
  Files, Isins,
  CutIsins,      \* what is left of an ISIN at the end of a file being copied
  Rows,          \* the ISINs of the rows of a complete file
  Unreadable,    \* in place of the ISIN: a row with a value of the wrong type
  Malformed,     \* a row that is blank, too long or cut at a bad place
  MaxWrites,     \* bound: how often a file is written
  MaxFaults      \* bound: crashes, signals and failing database operations

ASSUME FileAssumption ==
  /\ IsFiniteSet(Importers) /\ IsFiniteSet(Files)
  /\ Isins \cap CutIsins = {}
  /\ {Unreadable, Malformed} \cap (Isins \cup CutIsins) = {}
  /\ Unreadable # Malformed
  /\ Rows \in [Files -> Seq(Isins \cup {Unreadable})]

ASSUME BoundAssumption ==
  /\ MaxWrites \in Nat /\ MaxFaults \in Nat

VARIABLES
  content,   \* what is in a file; broken: all of it, but with a malformed
             \* row or without any line
  version,   \* of which write it is, counted over all files
  bonds,     \* the collection
  phase,     \* an importer's part of main: scan or watch
  pc,        \* the next step of it
  todo,      \* files listed or events polled, with the one being imported
  pending,   \* events of the watch key, not yet polled
  rows,      \* csvData, without the rows that are done
  source,    \* version and state of the file that was read
  numFailed, \* rows of the file that were not written
  imported,  \* history: the version of the last complete import of a file
  missed,    \* history: files written where a starting importer does not look
  faults     \* crashes, signals and failed database operations

fileVars == <<content, version>>
processVars == <<phase, todo, pending>>
importVars == <<rows, source, numFailed>>
historyVars == <<imported, missed, faults>>
vars == <<fileVars, bonds, pc, processVars, importVars, historyVars>>

Versions == 0 .. MaxWrites

Keys == Isins \cup CutIsins

Entries == Keys \cup {Unreadable, Malformed}

Source == [version : Versions, state : {"partial", "complete", "broken"}]

NoSource == [version |-> 0, state |-> "partial"]

Init ==
  /\ content = [f \in Files |-> "absent"]
  /\ version = [f \in Files |-> 0]
  /\ bonds = [isin \in Keys |-> <<>>]
  /\ phase = [i \in Importers |-> "off"]
  /\ pc = [i \in Importers |-> "off"]
  /\ todo = [i \in Importers |-> <<>>]
  /\ pending = [i \in Importers |-> <<>>]
  /\ rows = [i \in Importers |-> <<>>]
  /\ source = [i \in Importers |-> NoSource]
  /\ numFailed = [i \in Importers |-> 0]
  /\ imported = [f \in Files |-> 0]
  /\ missed = {}
  /\ faults = 0

-----------------------------------------------------------------------------
(* The volume *)

\* ENTRY_CREATE and ENTRY_MODIFY reach the importers that have registered.  Of
\* the events of a file that wait to be polled the first stands for all: the
\* others would only import it once more.
Event(f) ==
  pending' = [i \in Importers |->
                IF phase[i] = "watch" /\ \A k \in DOMAIN pending[i] : pending[i][k] # f
                THEN Append(pending[i], f) ELSE pending[i]]

Importing(i) == pc[i] \in {"find", "update", "insert"}

\* An importer that has not registered yet will not read the file any more.
Overlooked(f) ==
  \E i \in Importers :
    /\ phase[i] = "scan"
    /\ \A k \in (IF Importing(i) THEN 2 ELSE 1) .. Len(todo[i]) : todo[i][k] # f

\* A file is renamed into the volume as a whole, or somebody begins to copy it.
WriteFile(f) ==
  /\ \E n \in 1 .. MaxWrites :
       /\ \A g \in Files : version[g] < n
       /\ \E g \in Files : version[g] = n - 1
       /\ version' = [version EXCEPT ![f] = n]
  /\ \E state \in {"partial", "complete", "broken"} :
       content' = [content EXCEPT ![f] = state]
  /\ Event(f)
  /\ missed' = IF Overlooked(f) THEN missed \cup {f} ELSE missed
  /\ UNCHANGED <<bonds, pc, phase, todo, importVars, imported, faults>>

CopyingEnds(f) ==
  /\ content[f] = "partial"
  /\ \E state \in {"complete", "broken"} :
       content' = [content EXCEPT ![f] = state]
  /\ Event(f)
  /\ missed' = IF Overlooked(f) THEN missed \cup {f} ELSE missed
  /\ UNCHANGED <<version, bonds, pc, phase, todo, importVars, imported, faults>>

-----------------------------------------------------------------------------
(* main *)

Present == {f \in Files : content[f] # "absent"}

\* The orders in which listFiles may return the files.
Listings ==
  {s \in [1 .. Cardinality(Present) -> Present] :
     \A k, l \in DOMAIN s : s[k] = s[l] => k = l}

Start(i) ==
  /\ pc[i] = "off"
  /\ pc' = [pc EXCEPT ![i] = "next"]
  /\ phase' = [phase EXCEPT ![i] = "scan"]
  /\ \E s \in Listings : todo' = [todo EXCEPT ![i] = s]
  /\ UNCHANGED <<fileVars, bonds, pending, importVars, historyVars>>

Register(i) ==
  /\ pc[i] = "next" /\ todo[i] = <<>> /\ phase[i] = "scan"
  /\ phase' = [phase EXCEPT ![i] = "watch"]
  /\ UNCHANGED <<fileVars, bonds, pc, todo, pending, importVars, historyVars>>

\* Mutant: one event is taken for each signal of the key.
Polled_One(i) ==
  /\ todo' = [todo EXCEPT ![i] = SubSeq(pending[i], 1, 1)]
  /\ pending' = [pending EXCEPT ![i] = <<>>]

Polled(i) ==
  /\ todo' = [todo EXCEPT ![i] = pending[i]]
  /\ pending' = [pending EXCEPT ![i] = <<>>]

\* reset of the key, which is signalled again if there are events, take and
\* pollEvents.
Take(i) ==
  /\ pc[i] = "next" /\ todo[i] = <<>> /\ phase[i] = "watch"
  /\ pending[i] # <<>>
  /\ Polled(i)
  /\ UNCHANGED <<fileVars, bonds, pc, phase, importVars, historyVars>>

\* updateDatabase's variables go out of scope.
Leave(i) ==
  /\ rows' = [rows EXCEPT ![i] = <<>>]
  /\ source' = [source EXCEPT ![i] = NoSource]
  /\ numFailed' = [numFailed EXCEPT ![i] = 0]

\* The process ends, whether an exception leaves main or the watcher's handler
\* closes the connection.
Exit(i) ==
  /\ pc' = [pc EXCEPT ![i] = "off"]
  /\ phase' = [phase EXCEPT ![i] = "off"]
  /\ todo' = [todo EXCEPT ![i] = <<>>]
  /\ pending' = [pending EXCEPT ![i] = <<>>]
  /\ Leave(i)
  /\ UNCHANGED <<fileVars, bonds, imported, missed>>

\* A crash, or the shutdown hook's interrupt in take or sleep.
Stop(i) ==
  /\ pc[i] # "off" /\ faults < MaxFaults
  /\ faults' = faults + 1
  /\ Exit(i)

-----------------------------------------------------------------------------
(* updateDatabase *)

\* readNext returns null if the file is empty, or still empty, and asList throws;
\* so does FileReader without a file.
EmptyFile(i) ==
  /\ pc[i] = "next" /\ todo[i] # <<>> /\ content[Head(todo[i])] # "complete"
  /\ Exit(i) /\ faults' = faults

\* Mutant: one line too many is taken for the heading.
Data_WithoutFirst(f) == IF Rows[f] = <<>> THEN <<>> ELSE Tail(Rows[f])

Data(f) == Rows[f]

\* What is still being copied has a part of the rows.  The last of them may be
\* cut: it may parse with fields missing, also when the cut is in the ISIN.
\* Nothing behind a malformed row matters.
Readings(f) ==
  LET Begun(n) == SubSeq(Data(f), 1, n)
      Cut == {Malformed, Unreadable} \cup CutIsins
  IN  CASE content[f] = "complete" -> {Data(f)}
        [] content[f] = "broken" ->
             {Append(Begun(n), Malformed) : n \in 0 .. Len(Data(f))}
        [] OTHER ->
             {Begun(n) : n \in 0 .. Len(Data(f))}
             \cup {Append(Begun(n), last) :
                     n \in 0 .. Len(Data(f)) - 1, last \in Cut}

\* getBondCsvFieldNames and getBondCsvData, for an event five seconds after it
\* was polled.
ReadFile(i) ==
  /\ pc[i] = "next" /\ todo[i] # <<>> /\ content[Head(todo[i])] # "absent"
  /\ pc' = [pc EXCEPT ![i] = "find"]
  /\ LET f == Head(todo[i])
     IN  /\ \E read \in Readings(f) : rows' = [rows EXCEPT ![i] = read]
         /\ source' = [source EXCEPT ![i] =
              [version |-> version[f], state |-> content[f]]]
  /\ UNCHANGED <<fileVars, bonds, processVars, numFailed, historyVars>>

\* buildMongoDocument returns null: the row is counted, no more.
SkipRow(i) ==
  /\ pc[i] = "find" /\ rows[i] # <<>> /\ Head(rows[i]) = Unreadable
  /\ numFailed' = [numFailed EXCEPT ![i] = @ + 1]
  /\ rows' = [rows EXCEPT ![i] = Tail(@)]
  /\ UNCHANGED <<fileVars, bonds, pc, processVars, source, historyVars>>

\* get and subList throw if a row has too few or too many columns.
BadRow(i) ==
  /\ pc[i] = "find" /\ rows[i] # <<>> /\ Head(rows[i]) = Malformed
  /\ Exit(i) /\ faults' = faults

\* Mutant: the document is looked for under another name and never found.
Found_Never(isin) == FALSE

Found(isin) == bonds[isin] # <<>>

Find(i) ==
  /\ pc[i] = "find" /\ rows[i] # <<>> /\ Head(rows[i]) \in Keys
  /\ pc' = [pc EXCEPT ![i] = IF Found(Head(rows[i])) THEN "update" ELSE "insert"]
  /\ UNCHANGED <<fileVars, bonds, processVars, importVars, historyVars>>

\* No try block is around find.
FindFails(i) ==
  /\ pc[i] = "find" /\ rows[i] # <<>> /\ Head(rows[i]) \in Keys
  /\ faults < MaxFaults
  /\ faults' = faults + 1
  /\ Exit(i)

NextRow(i) ==
  /\ pc' = [pc EXCEPT ![i] = "find"]
  /\ rows' = [rows EXCEPT ![i] = Tail(@)]

\* Mutant: an existing document is left as it is.
Updated_Kept(i) == bonds

\* updateOne changes the first document with the ISIN.
Updated(i) == [bonds EXCEPT ![Head(rows[i])][1] = source[i]]

Update(i) ==
  /\ pc[i] = "update"
  /\ bonds' = Updated(i)
  /\ NextRow(i)
  /\ UNCHANGED <<fileVars, processVars, source, numFailed, historyVars>>

Inserted(i) == [bonds EXCEPT ![Head(rows[i])] = Append(@, source[i])]

Insert(i) ==
  /\ pc[i] = "insert"
  /\ bonds' = Inserted(i)
  /\ NextRow(i)
  /\ UNCHANGED <<fileVars, processVars, source, numFailed, historyVars>>

\* Mutant: the row is tried again.
AfterFailure_Again(i) == pc' = [pc EXCEPT ![i] = "find"] /\ rows' = rows

AfterFailure(i) == NextRow(i)

\* A MongoException from updateOne or insertOne is counted, no more.  The
\* database may have done the write all the same.
WriteFails(i) ==
  /\ pc[i] \in {"update", "insert"} /\ faults < MaxFaults
  /\ faults' = faults + 1
  /\ numFailed' = [numFailed EXCEPT ![i] = @ + 1]
  /\ bonds' \in {bonds, IF pc[i] = "update" THEN Updated(i) ELSE Inserted(i)}
  /\ AfterFailure(i)
  /\ UNCHANGED <<fileVars, processVars, source, imported, missed>>

\* Mutant: the loop does not go on to the next file.
OtherFiles_Same(i) == todo[i]

OtherFiles(i) == Tail(todo[i])

\* updateDatabase returns.
Imported(i) ==
  /\ pc[i] = "find" /\ rows[i] = <<>>
  /\ pc' = [pc EXCEPT ![i] = "next"]
  /\ todo' = [todo EXCEPT ![i] = OtherFiles(i)]
  /\ imported' = IF source[i].state = "complete"
                 THEN [imported EXCEPT ![Head(todo[i])] = source[i].version]
                 ELSE imported
  /\ Leave(i)
  /\ UNCHANGED <<fileVars, bonds, phase, pending, missed, faults>>

Main(i) == Start(i) \/ Register(i) \/ Take(i)

UpdateDatabase(i) ==
  \/ EmptyFile(i) \/ ReadFile(i)
  \/ SkipRow(i) \/ BadRow(i) \/ Find(i) \/ Update(i) \/ Insert(i)
  \/ Imported(i)

Next ==
  \/ \E f \in Files : WriteFile(f) \/ CopyingEnds(f)
  \/ \E i \in Importers :
       \/ Main(i)
       \/ UpdateDatabase(i)
       \/ FindFails(i)
       \/ WriteFails(i)
       \/ Stop(i)

Spec == Init /\ [][Next]_vars

\* An importer that has ended is started again and one that runs goes on;
\* copying ends.
FairSpec ==
  /\ Spec
  /\ \A f \in Files : WF_vars(CopyingEnds(f))
  /\ \A i \in Importers : WF_vars(Main(i)) /\ WF_vars(UpdateDatabase(i))

-----------------------------------------------------------------------------
(* Properties *)

\* A file may be broken by a row that does not belong to it.
MostRows(f, state) == Len(Rows[f]) + (IF state = "broken" THEN 1 ELSE 0)

TypeOK ==
  /\ content \in [Files -> {"absent", "partial", "complete", "broken"}]
  /\ version \in [Files -> Versions]
  /\ bonds \in [Keys -> Seq(Source)]
  /\ phase \in [Importers -> {"off", "scan", "watch"}]
  /\ pc \in [Importers -> {"off", "next", "find", "update", "insert"}]
  /\ todo \in [Importers -> Seq(Files)]
  /\ pending \in [Importers -> Seq(Files)]
  /\ rows \in [Importers -> Seq(Entries)]
  /\ source \in [Importers -> Source]
  /\ numFailed \in [Importers -> Nat]
  /\ \A i \in Importers :
       Importing(i) =>
         /\ todo[i] # <<>>
         /\ numFailed[i] + Len(rows[i])
              <= MostRows(Head(todo[i]), source[i].state)
  /\ imported \in [Files -> Versions]
  /\ missed \in SUBSET Files
  /\ faults \in 0 .. MaxFaults

\* find and insert are two operations, so importers side by side can both
\* insert a bond, but no more often than there are importers, wherever they stop
\* and start again and whatever a failed write has done.
DuplicatesBounded ==
  \A isin \in Keys : Len(bonds[isin]) <= Cardinality(Importers)

\* A row of a file that was imported completely is in the collection, if it can
\* be read, or its write failed.
MissingHaveFailed ==
  Cardinality({isin \in Isins :
                 /\ bonds[isin] = <<>>
                 /\ \E f \in Files : /\ imported[f] > 0
                                     /\ \E k \in DOMAIN Rows[f] : Rows[f][k] = isin})
    <= faults

Waits(i) ==
  /\ Importers = {i}
  /\ phase[i] = "watch" /\ todo[i] = <<>> /\ pending[i] = <<>>

\* What one importer that waits for events has imported is what is in the
\* volume, unless a file was written between a start's listing of the volume
\* and the registration of the watcher.
WaitingIsCurrent ==
  \A i \in Importers : \A f \in Files \ missed :
    Waits(i) /\ content[f] = "complete" => imported[f] = version[f]

\* The files that have a bond, all of them complete or not yet there.
Sources(isin) == {f \in Files : \E k \in DOMAIN Rows[f] : Rows[f][k] = isin}

Settled(isin) ==
  /\ \A f \in Sources(isin) :
       content[f] \in {"absent", "complete"} /\ f \notin missed
  /\ \E f \in Sources(isin) : content[f] = "complete"

IsCurrent(isin) ==
  /\ bonds[isin] # <<>>
  /\ \E f \in Sources(isin) :
       bonds[isin][1] = [version |-> version[f], state |-> "complete"]

\* When one importer waits, a bond is what a file says now: what was written
\* from an old version, a part of a file or a cut row has been written again,
\* but for writes that failed.
StoredIsCurrent ==
  (\E i \in Importers : Waits(i)) =>
    Cardinality({isin \in Isins : Settled(isin) /\ ~IsCurrent(isin)}) <= faults

\* A complete file is imported sooner or later, although every file that is
\* still being copied may end the importer with the others unread; but only if
\* no file stays broken, for that ends the importer at every start.
ImportedUnlessMissed ==
  <>[](\A f \in Files : content[f] # "broken") =>
    \A f \in Files :
      content[f] = "complete" ~> imported[f] = version[f] \/ f \in missed

=============================================================================
