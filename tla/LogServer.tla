----------------------------- MODULE LogServer -----------------------------
(***************************************************************************)
(* The log server (main.go): GET /api/ and GET /api/{start}/{end} read the *)
(* audit collection, newest document first, while servers insert documents *)
(* and complete them.  Every request is a goroutine with a cursor.         *)
(*                                                                         *)
(* Document i of the collection is the i-th inserted; collection[i] says   *)
(* whether it has been completed.  Only a completed document has the       *)
(* fields of the answer (response, response_time, cal_duration); they are  *)
(* one value here, i, and 0 is the zero value of the Go structure.         *)
(***************************************************************************)
EXTENDS Integers, Sequences

CONSTANTS
  Requests,      \* the HTTP requests
  Starts, Ends,  \* what the two path parameters parse to
  MaxDocuments   \* bound: documents inserted

ASSUME ParameterAssumption ==
  /\ Starts \subseteq Int /\ Ends \subseteq Int
  /\ MaxDocuments \in Nat \ {0}

VARIABLES
  collection,    \* audit.requests, in natural order
  pc,            \* where a request is
  start, end,    \* the parameters; end is not below any length for All
  snapshot,      \* the collection when the query began
  position,      \* the cursor: the next document
  calc,          \* the variable the documents are decoded into
  results,       \* the array of decoded documents
  failed,        \* history: the query or its cursor failed
  response       \* what is encoded

queryVars == <<start, end, snapshot>>
cursorVars == <<position, calc, results, failed>>
vars == <<collection, pc, queryVars, cursorVars, response>>

Calculation == [id : 0 .. MaxDocuments, responseSent : BOOLEAN,
                answer : 0 .. MaxDocuments]

Zero == [id |-> 0, responseSent |-> FALSE, answer |-> 0]

\* JSON null, the encoding of a slice that was never made.
Null == <<Zero>>

Init ==
  /\ collection = <<>>
  /\ pc = [r \in Requests |-> "new"]
  /\ start = [r \in Requests |-> 0]
  /\ end = [r \in Requests |-> 0]
  /\ snapshot = [r \in Requests |-> <<>>]
  /\ position = [r \in Requests |-> 0]
  /\ calc = [r \in Requests |-> Zero]
  /\ results = [r \in Requests |-> <<>>]
  /\ failed = [r \in Requests |-> FALSE]
  /\ response = [r \in Requests |-> <<>>]

-----------------------------------------------------------------------------
(* The calculation servers: auditRequest and auditResponse of receive.cpp *)

Insert ==
  /\ Len(collection) < MaxDocuments
  /\ collection' = Append(collection, FALSE)
  /\ UNCHANGED <<pc, queryVars, cursorVars, response>>

Complete ==
  /\ \E i \in DOMAIN collection :
       /\ ~collection[i]
       /\ collection' = [collection EXCEPT ![i] = TRUE]
  /\ UNCHANGED <<pc, queryVars, cursorVars, response>>

-----------------------------------------------------------------------------
(* Page and All *)

\* Find succeeds with a cursor at the newest document.
Find(r, first, last) ==
  /\ pc[r] = "new"
  /\ pc' = [pc EXCEPT ![r] = "reading"]
  /\ start' = [start EXCEPT ![r] = first]
  /\ end' = [end EXCEPT ![r] = last]
  /\ snapshot' = [snapshot EXCEPT ![r] = collection]
  /\ position' = [position EXCEPT ![r] = Len(collection)]
  /\ UNCHANGED <<collection, calc, results, failed, response>>

Page(r) == \E first \in Starts, last \in Ends : Find(r, first, last)

All(r) == Find(r, 0, MaxDocuments)

\* The error is only printed and the cursor is nil: its first use panics, but
\* for a page that ends before the first document there is none.
WithoutCursor(r, first, last) ==
  /\ pc[r] = "new"
  /\ pc' = [pc EXCEPT ![r] = IF last > 0 THEN "panicked" ELSE "reading"]
  /\ start' = [start EXCEPT ![r] = first]
  /\ end' = [end EXCEPT ![r] = last]
  /\ failed' = [failed EXCEPT ![r] = TRUE]
  /\ UNCHANGED <<collection, snapshot, position, calc, results, response>>

FindFails(r) ==
  \/ \E first \in Starts, last \in Ends : WithoutCursor(r, first, last)
  \/ WithoutCursor(r, 0, MaxDocuments)

\* Decode(&calc) sets the fields that the document has; the others keep what
\* the document before left in calc.
Decoded(old, i, completed) ==
  [id           |-> i,
   responseSent |-> completed,
   answer       |-> IF completed THEN i ELSE old.answer]

\* Mutant: one document too many.
Wanted_OneMore(r) == Len(results[r]) <= end[r]

\* i < end
Wanted(r) == Len(results[r]) < end[r]

\* Mutant: only answered documents are kept.
Appended_AnsweredOnly(r, document) ==
  IF document.responseSent THEN Append(results[r], document) ELSE results[r]

Appended(r, document) == Append(results[r], document)

\* Next and Decode.  The cursor fetches documents in batches: it returns a
\* document as it was when the query began or as it is now.
ReadNext(r) ==
  /\ pc[r] = "reading"
  /\ Wanted(r) /\ position[r] > 0
  /\ \E completed \in {snapshot[r][position[r]], collection[position[r]]} :
       LET document == Decoded(calc[r], position[r], completed)
       IN  /\ calc' = [calc EXCEPT ![r] = document]
           /\ results' = [results EXCEPT ![r] = Appended(r, document)]
  /\ position' = [position EXCEPT ![r] = @ - 1]
  /\ UNCHANGED <<collection, pc, queryVars, failed, response>>

StopReading(r) ==
  /\ pc[r] = "reading"
  /\ pc' = [pc EXCEPT ![r] = "slice"]
  /\ UNCHANGED <<collection, queryVars, position, calc, results, response>>

\* Enough documents, or no more.
EndOfLoop(r) ==
  /\ ~(Wanted(r) /\ position[r] > 0)
  /\ StopReading(r)
  /\ failed' = failed

\* Next returns false on an error too, which nobody asks for.
CursorFails(r) ==
  /\ Wanted(r) /\ position[r] > 0
  /\ StopReading(r)
  /\ failed' = [failed EXCEPT ![r] = TRUE]

\* start, limited by the number of documents read
First(r) ==
  IF start[r] > Len(results[r]) THEN Len(results[r]) ELSE start[r]

\* results[start:end], which panics unless 0 <= start <= end; an array that
\* is still nil is encoded as null.
Encode(r) ==
  /\ pc[r] = "slice"
  /\ IF 0 <= First(r) /\ First(r) <= Len(results[r])
     THEN /\ pc' = [pc EXCEPT ![r] = "done"]
          /\ response' = [response EXCEPT
               ![r] = IF results[r] = <<>> THEN Null
                      ELSE SubSeq(results[r], First(r) + 1, Len(results[r]))]
     ELSE /\ pc' = [pc EXCEPT ![r] = "panicked"]
          /\ response' = response
  /\ UNCHANGED <<collection, queryVars, cursorVars>>

Handler(r) == ReadNext(r) \/ EndOfLoop(r) \/ Encode(r)

Next ==
  \/ Insert
  \/ Complete
  \/ \E r \in Requests :
       \/ Page(r)
       \/ All(r)
       \/ FindFails(r)
       \/ Handler(r)
       \/ CursorFails(r)

Spec == Init /\ [][Next]_vars

-----------------------------------------------------------------------------
(* Properties *)

\* Type correctness; the cursor and the array together make up the collection
\* as it was when the query began.
TypeOK ==
  /\ collection \in Seq(BOOLEAN) /\ Len(collection) <= MaxDocuments
  /\ pc \in [Requests -> {"new", "reading", "slice", "done", "panicked"}]
  /\ start \in [Requests -> Starts \cup {0}]
  /\ end \in [Requests -> Ends \cup {0, MaxDocuments}]
  /\ snapshot \in [Requests -> Seq(BOOLEAN)]
  /\ position \in [Requests -> 0 .. MaxDocuments]
  /\ calc \in [Requests -> Calculation]
  /\ results \in [Requests -> Seq(Calculation)]
  /\ failed \in [Requests -> BOOLEAN]
  /\ response \in [Requests -> Seq(Calculation)]
  /\ \A r \in Requests :
       position[r] + Len(results[r]) = Len(snapshot[r])

\* The page a request asks for: of the documents there were when the query
\* began, newest first, those with index start up to, not including, end.
Lower(a, b) == IF a < b THEN a ELSE b

Newest(r) == LET n == Len(snapshot[r]) IN [k \in 1 .. n |-> n + 1 - k]

Expected(r) == SubSeq(Newest(r), start[r] + 1, Lower(end[r], Len(Newest(r))))

Ids(page) == [k \in DOMAIN page |-> page[k].id]

Shown(r) == IF response[r] = Null THEN <<>> ELSE Ids(response[r])

\* The response is the page, whatever is inserted meanwhile; if the query or
\* its cursor failed it is the beginning of it.
PageIsRight ==
  \A r \in Requests :
    pc[r] = "done" =>
      IF failed[r] THEN Shown(r) = SubSeq(Expected(r), 1, Len(Shown(r)))
      ELSE Shown(r) = Expected(r)

=============================================================================
