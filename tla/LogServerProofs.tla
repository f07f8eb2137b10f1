-------------------------- MODULE LogServerProofs --------------------------
(***************************************************************************)
(* Proofs about LogServer for any requests, parameters and collection.     *)
(***************************************************************************)
EXTENDS LogServer, SequenceTheorems, TLAPS

\* The array holds the newest documents.
Read ==
  \A r \in Requests :
    /\ Len(snapshot[r]) <= Len(collection)
    /\ pc[r] = "new" => results[r] = <<>>
    /\ \A k \in 1 .. Len(results[r]) :
         results[r][k].id = Len(snapshot[r]) + 1 - k

\* When the loop ends it has read what was wanted, or all, or it has failed.
LoopEnded ==
  \A r \in Requests :
    /\ results[r] # <<>> => Len(results[r]) <= end[r]
    /\ pc[r] \in {"slice", "done"} =>
         failed[r] \/ position[r] = 0 \/ end[r] <= Len(results[r])

Answered ==
  \A r \in Requests :
    pc[r] = "done" =>
      /\ start[r] >= 0
      /\ response[r] = IF results[r] = <<>> THEN Null
                       ELSE SubSeq(results[r], First(r) + 1, Len(results[r]))

\* The inductive invariant.
LInv == TypeOK /\ Read /\ LoopEnded /\ Answered

LEMMA Numbers ==
  ASSUME LInv, NEW r \in Requests
  PROVE  /\ start[r] \in Int /\ end[r] \in Int
         /\ position[r] \in Nat
         /\ results[r] \in Seq(Calculation) /\ Len(results[r]) \in Nat
         /\ snapshot[r] \in Seq(BOOLEAN) /\ Len(snapshot[r]) \in Nat
         /\ Len(collection) \in Nat
         /\ position[r] + Len(results[r]) = Len(snapshot[r])
<1>1. /\ start[r] \in Starts \cup {0} /\ end[r] \in Ends \cup {0, MaxDocuments}
      /\ position[r] \in 0 .. MaxDocuments
      /\ results[r] \in Seq(Calculation) /\ snapshot[r] \in Seq(BOOLEAN)
      /\ collection \in Seq(BOOLEAN)
      /\ position[r] + Len(results[r]) = Len(snapshot[r])
  BY DEF LInv, TypeOK
<1>2. Starts \subseteq Int /\ Ends \subseteq Int /\ MaxDocuments \in Nat
  BY ParameterAssumption
<1>3. /\ start[r] \in Int /\ end[r] \in Int /\ position[r] \in Nat
  <2>1. MaxDocuments \in Nat /\ position[r] \in 0 .. MaxDocuments
    BY <1>1, <1>2
  <2>2. position[r] \in Nat /\ MaxDocuments \in Int
    BY <2>1
  <2>3. start[r] \in Int
    <3>1. start[r] \in Starts \/ start[r] = 0
      BY <1>1
    <3>2. 0 \in Int
      OBVIOUS
    <3> QED
      BY <1>2, <3>1, <3>2, Zenon
  <2>4. end[r] \in Int
    <3>1. end[r] \in Ends \/ end[r] = 0 \/ end[r] = MaxDocuments
      BY <1>1
    <3>2. 0 \in Int
      OBVIOUS
    <3> QED
      BY <1>2, <2>2, <3>1, <3>2, Zenon
  <2> QED
    BY <2>2, <2>3, <2>4
<1>4. /\ Len(results[r]) \in Nat /\ Len(snapshot[r]) \in Nat
      /\ Len(collection) \in Nat
  BY <1>1
<1> QED
  BY <1>1, <1>3, <1>4

LEMMA InitLog == Init => LInv
<1> SUFFICES ASSUME Init PROVE LInv
  OBVIOUS
<1>0. MaxDocuments \in Nat
  BY ParameterAssumption
<1>1. Zero \in Calculation
  BY <1>0 DEF Zero, Calculation
<1>2. TypeOK
  BY <1>0, <1>1 DEF Init, TypeOK
<1>3. Read /\ LoopEnded /\ Answered
  BY DEF Init, Read, LoopEnded, Answered
<1> QED
  BY <1>2, <1>3 DEF LInv

-----------------------------------------------------------------------------
LEMMA CollectionStep ==
  ASSUME LInv, Insert \/ Complete
  PROVE  LInv'
<1> USE DEF queryVars, cursorVars
<1>1. UNCHANGED <<pc, queryVars, cursorVars, response>>
  BY DEF Insert, Complete
<1>2. /\ collection' \in Seq(BOOLEAN)
      /\ Len(collection') <= MaxDocuments
      /\ Len(collection) <= Len(collection')
  <2>0. collection \in Seq(BOOLEAN) /\ Len(collection) <= MaxDocuments
    BY DEF LInv, TypeOK
  <2>1. CASE Insert
    <3>1. collection' = Append(collection, FALSE) /\ Len(collection) < MaxDocuments
      BY <2>1 DEF Insert
    <3>2. /\ collection' \in Seq(BOOLEAN)
          /\ Len(collection') = Len(collection) + 1
      BY <2>0, <3>1
    <3> QED
      BY <2>0, <3>1, <3>2, ParameterAssumption
  <2>2. CASE Complete
    <3>1. PICK i \in DOMAIN collection :
            collection' = [collection EXCEPT ![i] = TRUE]
      BY <2>2 DEF Complete
    <3>2. collection' \in Seq(BOOLEAN) /\ Len(collection') = Len(collection)
      BY <2>0, <3>1
    <3> QED
      BY <2>0, <3>2
  <2> QED
    BY <2>1, <2>2
<1>3. TypeOK'
  BY <1>1, <1>2 DEF LInv, TypeOK
<1>4. Read'
  <2>1. ASSUME NEW r \in Requests
        PROVE  Len(snapshot[r]) <= Len(collection')
    <3>1. /\ Len(snapshot[r]) \in Nat /\ Len(collection) \in Nat
          /\ Len(collection') \in Nat
          /\ Len(snapshot[r]) <= Len(collection)
      BY <1>2 DEF LInv, TypeOK, Read
    <3> QED
      BY <1>2, <3>1
  <2> QED
    BY <1>1, <2>1 DEF LInv, Read
<1>5. LoopEnded' /\ Answered'
  BY <1>1 DEF LInv, LoopEnded, Answered, First
<1> QED
  BY <1>3, <1>4, <1>5 DEF LInv

LEMMA FindStep ==
  ASSUME LInv, NEW r \in Requests, Page(r) \/ All(r)
  PROVE  LInv'
<1>0. MaxDocuments \in Nat
  BY ParameterAssumption
<1>1. PICK first \in Starts \cup {0}, last \in Ends \cup {MaxDocuments} :
        Find(r, first, last)
  BY DEF Page, All
<1>2. /\ pc[r] = "new"
      /\ pc' = [pc EXCEPT ![r] = "reading"]
      /\ start' = [start EXCEPT ![r] = first]
      /\ end' = [end EXCEPT ![r] = last]
      /\ snapshot' = [snapshot EXCEPT ![r] = collection]
      /\ position' = [position EXCEPT ![r] = Len(collection)]
      /\ UNCHANGED <<collection, calc, results, failed, response>>
  BY <1>1 DEF Find
<1>3. /\ results[r] = <<>>
      /\ collection \in Seq(BOOLEAN) /\ Len(collection) \in 0 .. MaxDocuments
  BY <1>0, <1>2 DEF LInv, TypeOK, Read
<1>4. TypeOK'
  <2>1. ASSUME NEW q \in Requests
        PROVE  position'[q] + Len(results'[q]) = Len(snapshot'[q])
    <3>1. CASE q = r
      BY <1>2, <1>3, <3>1 DEF LInv, TypeOK
    <3>2. CASE q # r
      BY <1>2, <3>2 DEF LInv, TypeOK
    <3> QED
      BY <3>1, <3>2
  <2>2. /\ pc' \in [Requests -> {"new", "reading", "slice", "done", "panicked"}]
        /\ start' \in [Requests -> Starts \cup {0}]
        /\ end' \in [Requests -> Ends \cup {0, MaxDocuments}]
        /\ snapshot' \in [Requests -> Seq(BOOLEAN)]
        /\ position' \in [Requests -> 0 .. MaxDocuments]
    BY <1>2, <1>3 DEF LInv, TypeOK
  <2> QED
    BY <1>2, <2>1, <2>2 DEF LInv, TypeOK
<1>5. Read'
  <2>1. ASSUME NEW q \in Requests, q # r
        PROVE  /\ pc'[q] = pc[q] /\ snapshot'[q] = snapshot[q]
    BY <1>2, <2>1 DEF LInv, TypeOK
  <2>2. pc'[r] = "reading" /\ snapshot'[r] = collection
    BY <1>2 DEF LInv, TypeOK
  <2>3. Len(results[r]) = 0
    BY <1>3
  <2> QED
    BY <1>2, <1>3, <2>1, <2>2, <2>3 DEF LInv, Read
<1>6. LoopEnded'
  BY <1>2, <1>3 DEF LInv, TypeOK, LoopEnded
<1>7. Answered'
  BY <1>2 DEF LInv, TypeOK, Answered, First
<1> QED
  BY <1>4, <1>5, <1>6, <1>7 DEF LInv

LEMMA ReadStep ==
  ASSUME LInv, NEW r \in Requests, ReadNext(r)
  PROVE  LInv'
<1> DEFINE p == position[r]  n == Len(snapshot[r])  old == results[r]
<1>0. MaxDocuments \in Nat
  BY ParameterAssumption
<1>1. PICK completed \in {snapshot[r][p], collection[p]} :
        LET document == Decoded(calc[r], p, completed)
        IN  /\ calc' = [calc EXCEPT ![r] = document]
            /\ results' = [results EXCEPT ![r] = Appended(r, document)]
  BY DEF ReadNext
<1> DEFINE document == Decoded(calc[r], p, completed)
<1>2. /\ pc[r] = "reading" /\ p > 0 /\ Len(old) < end[r]
      /\ position' = [position EXCEPT ![r] = p - 1]
      /\ calc' = [calc EXCEPT ![r] = document]
      /\ results' = [results EXCEPT ![r] = Append(old, document)]
      /\ UNCHANGED <<collection, pc, start, end, snapshot, failed, response>>
  BY <1>1 DEF ReadNext, Wanted, Appended, queryVars
<1>3. /\ snapshot[r] \in Seq(BOOLEAN) /\ collection \in Seq(BOOLEAN)
      /\ n <= Len(collection)
      /\ p \in 0 .. MaxDocuments /\ p + Len(old) = n
      /\ old \in Seq(Calculation) /\ calc[r] \in Calculation
  BY DEF LInv, TypeOK, Read
<1>4. completed \in BOOLEAN
  <2>1. p \in 1 .. Len(snapshot[r]) /\ p \in 1 .. Len(collection)
    <3>1. /\ Len(old) \in Nat /\ Len(collection) \in Nat
          /\ n \in Nat /\ p \in Nat
      BY Numbers
    <3>2. p > 0 /\ p + Len(old) = n /\ n <= Len(collection)
      BY <1>2, <1>3
    <3>3. p <= n /\ p <= Len(collection)
      <4> HIDE DEF p, n, old
      <4> QED
        BY <3>1, <3>2
    <3> QED
      BY <3>1, <3>2, <3>3
  <2>2. snapshot[r][p] \in BOOLEAN /\ collection[p] \in BOOLEAN
    BY <1>3, <2>1
  <2> QED
    BY <1>1, <2>2
<1>5. /\ document \in Calculation
      /\ document.id = p
  <2>1. document = [id |-> p, responseSent |-> completed,
                    answer |-> IF completed THEN p ELSE calc[r].answer]
    BY DEF Decoded
  <2>2. calc[r].answer \in 0 .. MaxDocuments
    BY <1>3 DEF Calculation
  <2> QED
    BY <1>3, <1>4, <2>1, <2>2 DEF Calculation
<1> HIDE DEF document, p, n, old
<1>6. /\ Append(old, document) \in Seq(Calculation)
      /\ Len(Append(old, document)) = Len(old) + 1
      /\ \A k \in 1 .. Len(old) : Append(old, document)[k] = old[k]
      /\ Append(old, document)[Len(old) + 1] = document
  <2>1. document \in Calculation /\ old \in Seq(Calculation)
    BY <1>3, <1>5
  <2> QED
    BY <2>1
<1>7. /\ results'[r] = Append(old, document)
      /\ position'[r] = p - 1
      /\ p - 1 \in 0 .. MaxDocuments
      /\ \A q \in Requests : q # r =>
           results'[q] = results[q] /\ position'[q] = position[q]
  <2>1. results \in [Requests -> Seq(Calculation)]
        /\ position \in [Requests -> 0 .. MaxDocuments]
    BY DEF LInv, TypeOK
  <2> QED
    BY <1>0, <1>2, <1>3, <2>1
<1>8. Len(old) \in Nat /\ n \in Nat
  BY <1>3 DEF n
<1>9. TypeOK'
  <2>1. ASSUME NEW q \in Requests
        PROVE  position'[q] + Len(results'[q]) = Len(snapshot'[q])
    <3>1. CASE q = r
      <4>1. p - 1 + (Len(old) + 1) = n
        BY <1>3, <1>8
      <4> QED
        BY <1>2, <1>6, <1>7, <3>1, <4>1 DEF n
    <3>2. CASE q # r
      BY <1>2, <1>7, <3>2 DEF LInv, TypeOK
    <3> QED
      BY <3>1, <3>2
  <2>2. /\ position' \in [Requests -> 0 .. MaxDocuments]
        /\ calc' \in [Requests -> Calculation]
        /\ results' \in [Requests -> Seq(Calculation)]
    BY <1>2, <1>5, <1>6, <1>7 DEF LInv, TypeOK
  <2> QED
    BY <1>2, <2>1, <2>2 DEF LInv, TypeOK
<1>10. Read'
  <2>1. ASSUME NEW k \in 1 .. Len(results'[r])
        PROVE  results'[r][k].id = n + 1 - k
    <3>1. k \in 1 .. Len(old) \/ k = Len(old) + 1
      BY <1>6, <1>7, <1>8
    <3>2. CASE k \in 1 .. Len(old)
      BY <1>6, <1>7, <3>2 DEF LInv, Read, old, n
    <3>3. CASE k = Len(old) + 1
      <4>1. results'[r][k] = document
        BY <1>6, <1>7, <3>3
      <4>2. p = n + 1 - k
        BY <1>3, <1>8, <3>3
      <4> QED
        BY <1>5, <4>1, <4>2
    <3> QED
      BY <3>1, <3>2, <3>3
  <2>2. pc'[r] = "reading" /\ UNCHANGED <<snapshot, collection, pc>>
    BY <1>2
  <2>3. ASSUME NEW q \in Requests
        PROVE  /\ Len(snapshot'[q]) <= Len(collection')
               /\ pc'[q] = "new" => results'[q] = <<>>
               /\ \A k \in 1 .. Len(results'[q]) :
                    results'[q][k].id = Len(snapshot'[q]) + 1 - k
    <3>1. CASE q = r
      <4>1. \A k \in 1 .. Len(results'[q]) :
              results'[q][k].id = Len(snapshot'[q]) + 1 - k
        BY <2>1, <2>2, <3>1 DEF n
      <4> QED
        BY <2>2, <3>1, <4>1 DEF LInv, Read
    <3>2. CASE q # r
      <4>1. results'[q] = results[q]
        BY <1>7, <3>2
      <4> QED
        BY <2>2, <4>1 DEF LInv, Read
    <3> QED
      BY <3>1, <3>2
  <2> QED
    BY <2>3 DEF Read
<1>11. LoopEnded'
  <2>1. end[r] \in Int
    BY Numbers
  <2>2. Len(results'[r]) <= end[r]
    BY <1>2, <1>6, <1>7, <1>8, <2>1
  <2> QED
    BY <1>2, <1>7, <2>2 DEF LInv, LoopEnded
<1>12. Answered'
  BY <1>2, <1>7 DEF LInv, Answered, First
<1> QED
  BY <1>9, <1>10, <1>11, <1>12 DEF LInv

LEMMA StopStep ==
  ASSUME LInv, NEW r \in Requests, EndOfLoop(r) \/ CursorFails(r)
  PROVE  LInv'
<1>1. /\ pc[r] = "reading" /\ pc' = [pc EXCEPT ![r] = "slice"]
      /\ UNCHANGED <<collection, start, end, snapshot, position, calc, results,
                     response>>
  BY DEF EndOfLoop, CursorFails, StopReading, queryVars
<1>2. /\ failed' = failed \/ failed' = [failed EXCEPT ![r] = TRUE]
      /\ failed'[r] \/ ~(Len(results[r]) < end[r] /\ position[r] > 0)
  BY DEF EndOfLoop, CursorFails, Wanted, LInv, TypeOK
<1>3. TypeOK'
  BY <1>1, <1>2 DEF LInv, TypeOK
<1>4. Read' /\ Answered'
  BY <1>1 DEF LInv, TypeOK, Read, Answered, First
<1>5. LoopEnded'
  <2>1. /\ Len(results[r]) \in Nat /\ end[r] \in Int /\ position[r] \in Nat
    BY Numbers
  <2>2. failed'[r] \/ position[r] = 0 \/ end[r] <= Len(results[r])
    BY <1>2, <2>1
  <2>3. ASSUME NEW q \in Requests, q # r
        PROVE  pc'[q] = pc[q] /\ failed'[q] = failed[q]
    BY <1>1, <1>2, <2>3 DEF LInv, TypeOK
  <2> QED
    BY <1>1, <2>2, <2>3 DEF LInv, LoopEnded
<1> QED
  BY <1>3, <1>4, <1>5 DEF LInv

LEMMA EncodeStep ==
  ASSUME LInv, NEW r \in Requests, Encode(r)
  PROVE  LInv'
<1>1. /\ pc[r] = "slice"
      /\ UNCHANGED <<collection, start, end, snapshot, position, calc, results,
                     failed>>
      /\ \/ /\ 0 <= First(r)
            /\ pc' = [pc EXCEPT ![r] = "done"]
            /\ response' = [response EXCEPT
                 ![r] = IF results[r] = <<>> THEN Null
                        ELSE SubSeq(results[r], First(r) + 1, Len(results[r]))]
         \/ /\ pc' = [pc EXCEPT ![r] = "panicked"]
            /\ response' = response
  BY DEF Encode, queryVars, cursorVars
<1>2. /\ start[r] \in Int /\ results[r] \in Seq(Calculation)
      /\ Len(results[r]) \in Nat
  BY Numbers
<1>3. First(r) \in Int /\ (0 <= First(r) => start[r] >= 0)
  BY <1>2 DEF First
<1>4. 0 <= First(r) =>
        (IF results[r] = <<>> THEN Null
         ELSE SubSeq(results[r], First(r) + 1, Len(results[r])))
          \in Seq(Calculation)
  <2>1. Null \in Seq(Calculation)
    <3>1. Zero \in Calculation
      BY ParameterAssumption DEF Zero, Calculation
    <3> QED
      BY <3>1 DEF Null
  <2>2. ASSUME 0 <= First(r)
        PROVE  SubSeq(results[r], First(r) + 1, Len(results[r]))
                 \in Seq(Calculation)
    <3>1. \A i \in First(r) + 1 .. Len(results[r]) :
            results[r][i] \in Calculation
      BY <1>2, <1>3, <2>2
    <3>2. First(r) + 1 \in Int /\ Len(results[r]) \in Int
      BY <1>2, <1>3
    <3> QED
      BY <3>1, <3>2, SubSeqProperties
  <2> QED
    BY <2>1, <2>2
<1>5. TypeOK'
  BY <1>1, <1>4 DEF LInv, TypeOK
<1>6. Read' /\ LoopEnded'
  BY <1>1 DEF LInv, TypeOK, Read, LoopEnded
<1>7. Answered'
  <2>1. ASSUME NEW q \in Requests, q # r
        PROVE  pc'[q] = pc[q] /\ response'[q] = response[q]
    BY <1>1, <2>1 DEF LInv, TypeOK
  <2>2. pc'[r] = "done" =>
          /\ start[r] >= 0
          /\ response'[r] =
               IF results[r] = <<>> THEN Null
               ELSE SubSeq(results[r], First(r) + 1, Len(results[r]))
    BY <1>1, <1>3 DEF LInv, TypeOK
  <2> QED
    BY <1>1, <2>1, <2>2 DEF LInv, Answered, First
<1> QED
  BY <1>5, <1>6, <1>7 DEF LInv

LEMMA FailedFindStep ==
  ASSUME LInv, NEW r \in Requests, FindFails(r)
  PROVE  LInv'
<1>1. PICK first \in Starts \cup {0}, last \in Ends \cup {MaxDocuments} :
        WithoutCursor(r, first, last)
  BY DEF FindFails
<1>2. /\ pc[r] = "new"
      /\ \/ pc' = [pc EXCEPT ![r] = "panicked"]
         \/ pc' = [pc EXCEPT ![r] = "reading"]
      /\ start' = [start EXCEPT ![r] = first]
      /\ end' = [end EXCEPT ![r] = last]
      /\ failed' = [failed EXCEPT ![r] = TRUE]
      /\ UNCHANGED <<collection, snapshot, position, calc, results, response>>
  BY <1>1 DEF WithoutCursor
<1>3. results[r] = <<>>
  BY <1>2 DEF LInv, Read
<1>4. TypeOK'
  BY <1>2 DEF LInv, TypeOK
<1>5. Read'
  BY <1>2, <1>3 DEF LInv, TypeOK, Read
<1>6. LoopEnded'
  BY <1>2, <1>3 DEF LInv, TypeOK, LoopEnded
<1>7. Answered'
  BY <1>2 DEF LInv, TypeOK, Answered, First
<1> QED
  BY <1>4, <1>5, <1>6, <1>7 DEF LInv

LEMMA NextLog == LInv /\ [Next]_vars => LInv'
<1> SUFFICES ASSUME LInv, [Next]_vars
             PROVE  LInv'
  OBVIOUS
<1>1. ASSUME NEW r \in Requests, FindFails(r)
      PROVE  LInv'
  BY <1>1, FailedFindStep
<1>2. CASE UNCHANGED vars
  BY <1>2 DEF vars, queryVars, cursorVars, LInv, TypeOK, Read, LoopEnded,
              Answered, First
<1> QED
  BY <1>1, <1>2, CollectionStep, FindStep, ReadStep, StopStep, EncodeStep
  DEF Next, Handler

LEMMA Invariance == Spec => []LInv
  BY InitLog, NextLog, PTL DEF Spec

-----------------------------------------------------------------------------
(* Theorems *)

\* Every reachable state is type correct, and the cursor and the array always
\* make up the collection as the query found it.
THEOREM TypeCorrect == Spec => []TypeOK
<1>1. LInv => TypeOK
  BY DEF LInv
<1> QED
  BY Invariance, <1>1, PTL

\* The page asked for, as a sequence.
LEMMA ExpectedPage ==
  ASSUME LInv, NEW r \in Requests, start[r] >= 0
  PROVE  LET m == Lower(end[r], Len(snapshot[r]))
         IN  /\ Expected(r) \in Seq(Int)
             /\ Len(Expected(r)) = IF start[r] + 1 <= m THEN m - start[r] ELSE 0
             /\ \A k \in 1 .. m - start[r] :
                  Expected(r)[k] = Len(snapshot[r]) + 1 - (start[r] + k)
<1> DEFINE n == Len(snapshot[r])  a == start[r]  e == end[r]
           m == Lower(e, n)  s == Newest(r)
<1>1. n \in Nat /\ a \in Int /\ a >= 0 /\ e \in Int
  BY Numbers
<1>2. s = [k \in 1 .. n |-> n + 1 - k]
  BY DEF Newest
<1>3. Len(s) = n
  <2> HIDE DEF n, s
  <2> QED
    BY <1>1, <1>2
<1>4. Expected(r) = SubSeq(s, a + 1, m)
  BY <1>3 DEF Expected
<1> HIDE DEF n, a, e, s
<1>5. m \in Int /\ m <= n /\ m = Lower(e, n)
  BY <1>1 DEF Lower
<1> HIDE DEF m
<1>6. \A i \in a + 1 .. m : s[i] = n + 1 - i /\ s[i] \in Int
  BY <1>1, <1>2, <1>5
<1>7. a + 1 \in Int
  BY <1>1
<1>8. /\ SubSeq(s, a + 1, m) \in Seq(Int)
      /\ Len(SubSeq(s, a + 1, m)) =
           IF a + 1 <= m THEN m - (a + 1) + 1 ELSE 0
      /\ \A i \in 1 .. m - (a + 1) + 1 :
           SubSeq(s, a + 1, m)[i] = s[a + 1 + i - 1]
  BY <1>5, <1>6, <1>7, SubSeqProperties
<1>9. ASSUME NEW k \in 1 .. m - a
      PROVE  SubSeq(s, a + 1, m)[k] = n + 1 - (a + k)
  <2>1. /\ k \in 1 .. m - (a + 1) + 1 /\ a + 1 + k - 1 = a + k
        /\ a + k \in a + 1 .. m
    BY <1>1, <1>5
  <2> QED
    BY <1>6, <1>8, <2>1
<1>10. Len(SubSeq(s, a + 1, m)) = IF a + 1 <= m THEN m - a ELSE 0
  BY <1>1, <1>5, <1>8
<1> QED
  BY <1>4, <1>5, <1>8, <1>9, <1>10 DEF n, a, e

\* The page a request shows, as a sequence.
LEMMA ShownPage ==
  ASSUME LInv, NEW r \in Requests, pc[r] = "done"
  PROVE  LET l == Len(results[r])
         IN  /\ Shown(r) \in Seq(Int)
             /\ Len(Shown(r)) = IF start[r] + 1 <= l THEN l - start[r] ELSE 0
             /\ \A k \in 1 .. l - start[r] :
                  Shown(r)[k] = Len(snapshot[r]) + 1 - (start[r] + k)
<1> DEFINE n == Len(snapshot[r])  a == start[r]  f == First(r)
           l == Len(results[r])  s == results[r]
<1>1. /\ n \in Nat /\ a \in Int /\ a >= 0 /\ l \in Nat /\ l <= n
      /\ s \in Seq(Calculation)
  <2>1. position[r] \in Nat /\ position[r] + l = n /\ n \in Nat /\ l \in Nat
    BY Numbers
  <2>2. l <= n
    BY <2>1
  <2>3. a \in Int /\ a >= 0 /\ s \in Seq(Calculation)
    BY Numbers DEF LInv, Answered
  <2> QED
    BY <2>1, <2>2, <2>3
<1>2. /\ \A k \in 1 .. l : s[k].id = n + 1 - k
      /\ response[r] = IF s = <<>> THEN Null ELSE SubSeq(s, f + 1, l)
  BY DEF LInv, Read, Answered
<1>3. f = IF a > l THEN l ELSE a
  BY DEF First
<1> HIDE DEF n, a, f, l, s
<1>4. CASE s = <<>>
  <2>1. l = 0
    BY <1>4 DEF l, s
  <2>2. Shown(r) = <<>>
    BY <1>2, <1>4 DEF Shown
  <2>3. Shown(r) \in Seq(Int) /\ Len(Shown(r)) = 0
    BY <2>2
  <2>4. ~(a + 1 <= l) /\ 1 .. l - a = {}
    BY <1>1, <2>1
  <2> QED
    BY <2>3, <2>4 DEF n, a, l
<1>5. CASE s # <<>>
  <2> DEFINE t == SubSeq(s, f + 1, l)
  <2>1. f \in Int /\ f + 1 \in Int /\ f >= 0 /\ f <= l
    BY <1>1, <1>3
  <2>2. \A i \in f + 1 .. l : s[i] \in Calculation
    BY <1>1, <2>1 DEF l, s
  <2>3. /\ t \in Seq(Calculation)
        /\ Len(t) = IF f + 1 <= l THEN l - (f + 1) + 1 ELSE 0
        /\ \A i \in 1 .. l - (f + 1) + 1 : t[i] = s[f + 1 + i - 1]
    BY <1>1, <2>1, <2>2, SubSeqProperties
  <2>4. response[r] = t
    BY <1>2, <1>5
  <2> HIDE DEF t
  <2>5. Len(t) = IF a + 1 <= l THEN l - a ELSE 0
    BY <1>1, <1>3, <2>1, <2>3
  <2>6. ASSUME NEW k \in 1 .. Len(t)
        PROVE  t[k].id = n + 1 - (a + k)
    <3>1. /\ f = a /\ k \in Int /\ k >= 1 /\ k <= l - a
      BY <1>1, <1>3, <2>1, <2>3, <2>5
    <3>2. k \in 1 .. l - (f + 1) + 1 /\ f + 1 + k - 1 = a + k /\ a + k \in 1 .. l
      BY <1>1, <2>1, <3>1
    <3> QED
      BY <1>2, <2>3, <3>2
  <2>7. t # Null
    <3>1. SUFFICES ASSUME t = Null PROVE FALSE
      OBVIOUS
    <3>2. Len(t) = 1 /\ t[1].id = 0
      BY <3>1 DEF Null, Zero
    <3>3. 1 \in 1 .. Len(t) /\ a + 1 <= l
      <4>1. Len(t) = 1
        BY <3>2
      <4>2. 1 \in 1 .. Len(t)
        BY <4>1
      <4>3. a + 1 <= l
        BY <2>5, <4>1
      <4> QED
        BY <4>2, <4>3
    <3>4. 0 = n + 1 - (a + 1)
      BY <2>6, <3>2, <3>3
    <3> QED
      BY <1>1, <3>3, <3>4
  <2>8. Shown(r) = [k \in 1 .. Len(t) |-> t[k].id]
    BY <2>3, <2>4, <2>7 DEF Shown, Ids
  <2> DEFINE h == Shown(r)  c == Len(t)
  <2>9. c \in Nat /\ \A k \in 1 .. c : t[k].id \in Int
    <3>1. c \in Nat
      BY <2>3
    <3> HIDE DEF c
    <3> QED
      BY <1>1, <2>6, <3>1 DEF c
  <2>10. h \in Seq(Int) /\ Len(h) = c /\ \A k \in 1 .. c : h[k] = t[k].id
    <3>1. h = [k \in 1 .. c |-> t[k].id]
      BY <2>8
    <3> HIDE DEF h, c
    <3> QED
      BY <2>9, <3>1
  <2>11. ASSUME NEW k \in 1 .. l - a
         PROVE  h[k] = n + 1 - (a + k)
    <3>1. k \in 1 .. Len(t)
      BY <1>1, <2>5
    <3> QED
      BY <2>6, <2>10, <3>1
  <2> QED
    BY <2>5, <2>10, <2>11 DEF n, a, l
<1> QED
  BY <1>4, <1>5

\* For any parameters, any collection and whatever is inserted or completed
\* during the query: the answer is the page of the collection as the query
\* found it, and a beginning of that page if the query or its cursor failed.
THEOREM PageCorrect == Spec => []PageIsRight
<1>1. LInv => PageIsRight
  <2> SUFFICES ASSUME LInv, NEW r \in Requests, pc[r] = "done"
               PROVE  IF failed[r]
                      THEN Shown(r) = SubSeq(Expected(r), 1, Len(Shown(r)))
                      ELSE Shown(r) = Expected(r)
    BY DEF PageIsRight
  <2> DEFINE n == Len(snapshot[r])  a == start[r]  e == end[r]
             l == Len(results[r])  m == Lower(e, n)
             x == Expected(r)  h == Shown(r)
  <2>1. a \in Int /\ a >= 0 /\ e \in Int /\ l \in Nat /\ n \in Nat /\ l <= n
    <3>1. /\ a \in Int /\ e \in Int /\ l \in Nat /\ n \in Nat
          /\ position[r] \in Nat /\ position[r] + l = n
      BY Numbers
    <3>2. l <= n
      BY <3>1
    <3>3. a >= 0
      BY DEF LInv, Answered
    <3> QED
      BY <3>1, <3>2, <3>3
  <2>2. /\ x \in Seq(Int)
        /\ Len(x) = IF a + 1 <= m THEN m - a ELSE 0
        /\ \A k \in 1 .. m - a : x[k] = n + 1 - (a + k)
    BY <2>1, ExpectedPage
  <2>3. /\ h \in Seq(Int)
        /\ Len(h) = IF a + 1 <= l THEN l - a ELSE 0
        /\ \A k \in 1 .. l - a : h[k] = n + 1 - (a + k)
    BY ShownPage
  <2>4. m \in Int /\ (m = e \/ m = n) /\ m <= e /\ m <= n
    BY <2>1 DEF Lower
  <2>5. /\ l > 0 => l <= e
        /\ failed[r] \/ l = n \/ e <= l
    <3>1. l > 0 => results[r] # <<>>
      OBVIOUS
    <3>2. /\ results[r] # <<>> => l <= e
          /\ failed[r] \/ position[r] = 0 \/ e <= l
      BY DEF LInv, LoopEnded
    <3>3. position[r] \in Nat /\ position[r] + l = n /\ l \in Nat /\ n \in Nat
      BY Numbers
    <3>4. position[r] = 0 => l = n
      BY <3>3
    <3> QED
      BY <3>1, <3>2, <3>4
  <2> HIDE DEF n, a, e, l, m, x, h
  <2>6. l <= m \/ (l = 0 /\ m <= 0)
    BY <2>1, <2>4, <2>5
  <2>7. /\ Len(h) \in Nat /\ Len(x) \in Nat /\ Len(h) <= Len(x)
        /\ \A k \in 1 .. Len(h) : k \in 1 .. l - a /\ k \in 1 .. m - a
    BY <2>1, <2>2, <2>3, <2>4, <2>6
  <2>8. \A k \in 1 .. Len(h) : h[k] = x[k]
    BY <2>2, <2>3, <2>7
  <2>9. CASE failed[r]
    <3> DEFINE y == SubSeq(x, 1, Len(h))
    <3>1. \A i \in 1 .. Len(h) : x[i] \in Int
      BY <2>2, <2>7
    <3>2. /\ y \in Seq(Int)
          /\ Len(y) = IF 1 <= Len(h) THEN Len(h) - 1 + 1 ELSE 0
          /\ \A i \in 1 .. Len(h) - 1 + 1 : y[i] = x[1 + i - 1]
      BY <2>7, <3>1, SubSeqProperties
    <3> HIDE DEF y
    <3>3. Len(y) = Len(h) /\ \A i \in 1 .. Len(h) : y[i] = x[i]
      BY <2>7, <3>2
    <3>4. h = y
      BY <2>3, <2>8, <3>2, <3>3, SeqEqual
    <3> QED
      BY <2>9, <3>4 DEF h, x, y
  <2>10. CASE ~failed[r]
    <3>1. l = m \/ (l = 0 /\ m <= 0)
      BY <2>1, <2>4, <2>5, <2>6, <2>10
    <3>2. Len(h) = Len(x)
      BY <2>1, <2>2, <2>3, <2>4, <3>1
    <3>3. h = x
      BY <2>2, <2>3, <2>8, <3>2, SeqEqual
    <3> QED
      BY <2>10, <3>3 DEF h, x
  <2> QED
    BY <2>9, <2>10
<1> QED
  BY Invariance, <1>1, PTL

=============================================================================
