----------------------------- MODULE LogDisplay ----------------------------
(***************************************************************************)
(* The log displayer (Home.js) beside the calculation programs that fill   *)
(* the audit collection and the log server it fetches from.  Every change  *)
(* of the number of logs sends a request; its response may arrive after    *)
(* those of later requests, or fail.                                       *)
(***************************************************************************)
EXTENDS Durations, Subsequences

CONSTANTS
  Instants,      \* what the clocks of clients and servers may show
  Unanswered,    \* in place of the response time
  InitialLogs,   \* numLogs at first, 200
  TypedNumbers,  \* what the user types, without leading zeros
  FirstCards,    \* cards shown at first, 12
  MoreCards,     \* how many "See more" adds, 48
  MaxLogs,       \* bound: documents in the collection
  MaxRequests    \* bound: requests sent

ASSUME NumberAssumption ==
  /\ InitialLogs \in Nat \ {0} /\ TypedNumbers \subseteq Nat
  /\ FirstCards \in Nat \ {0} /\ MoreCards \in Nat \ {0}
  /\ MaxLogs \in Nat /\ MaxRequests \in Nat \ {0}

ASSUME InstantAssumption == Instants \subseteq Nat /\ Unanswered \notin Int

VARIABLES
  collection,    \* audit.requests: when it was asked and answered
  numLogs,       \* the number of logs the user wants
  typed,         \* whether it is a text, as all are that the user types
  logNumError,   \* the error under the field
  inFlight,      \* requests without a response
  sent,          \* how many requests were sent
  logs,          \* all the logs of the last response
  cards,         \* those on the screen
  numCards,      \* how many the page takes to be on the screen
  graph,         \* the durations drawn
  pc,            \* the four percentiles
  inOrder        \* history: no response failed, arrived after a later one or
                 \* was null and left an earlier one on the page

displayVars == <<logs, cards, numCards, graph, pc>>
wantedVars == <<numLogs, typed, logNumError>>
vars == <<collection, wantedVars, inFlight, sent, displayVars, inOrder>>

Document == [requested : Instants, responded : Instants \cup {Unanswered}]

\* useEffect after the first rendering sends the first request.
Init ==
  /\ collection = <<>>
  /\ numLogs = InitialLogs /\ typed = FALSE
  /\ logNumError = FALSE
  /\ inFlight =
       {[id |-> 1, num |-> InitialLogs, read |-> FALSE, page |-> <<>>]}
  /\ sent = 1
  /\ logs = <<>> /\ cards = <<>> /\ numCards = 0
  /\ graph = <<>> /\ pc = <<0, 0, 0, 0>>
  /\ inOrder = TRUE

-----------------------------------------------------------------------------
(* The calculation programs and the log server *)

\* send.cpp stamps the request, and auditRequest of receive.cpp inserts it.
Insert ==
  /\ Len(collection) < MaxLogs
  /\ \E t \in Instants :
       collection' = Append(collection, [requested |-> t, responded |-> Unanswered])
  /\ UNCHANGED <<wantedVars, inFlight, sent, displayVars, inOrder>>

\* addServerMetaData stamps the response, and auditResponse adds it.
Complete ==
  /\ \E i \in DOMAIN collection, t \in Instants :
       /\ collection[i].responded = Unanswered
       /\ collection' = [collection EXCEPT ![i].responded = t]
  /\ UNCHANGED <<wantedVars, inFlight, sent, displayVars, inOrder>>

\* The newest num documents, newest first.
Newest(num) ==
  LET n == Len(collection)
  IN  [i \in 1 .. (IF num < n THEN num ELSE n) |-> collection[n + 1 - i]]

Serve(r) ==
  /\ ~r.read
  /\ inFlight' = (inFlight \ {r})
                 \cup {[r EXCEPT !.read = TRUE, !.page = Newest(r.num)]}
  /\ UNCHANGED <<collection, wantedVars, sent, displayVars, inOrder>>

-----------------------------------------------------------------------------
(* The page *)

\* Mutant: the effect does not depend on the number.
Fetched_Once(num) == UNCHANGED <<inFlight, sent>>

\* A text differs from the number that was there at first.
Fetched(num) ==
  IF typed /\ num = numLogs THEN UNCHANGED <<inFlight, sent>>
  ELSE /\ sent' = sent + 1
       /\ inFlight' = inFlight \cup
             {[id |-> sent', num |-> num, read |-> FALSE, page |-> <<>>]}

ChangeLogNum(num) ==
  /\ sent < MaxRequests
  /\ IF num < 1
     THEN logNumError' = TRUE /\ UNCHANGED <<numLogs, typed, inFlight, sent>>
     ELSE /\ logNumError' = FALSE
          /\ numLogs' = num /\ typed' = TRUE
          /\ Fetched(num)
  /\ UNCHANGED <<collection, displayVars, inOrder>>

\* Mutant: the count is raised and the cards are not.
Expanded_CountOnly(num) == numCards' = num /\ UNCHANGED cards

Expanded(num) ==
  /\ numCards' = num
  /\ cards' = SubSeq(logs, 1, IF num < Len(logs) THEN num ELSE Len(logs))

\* The button is there while numCards is below numLogs.
ExpandCards ==
  /\ numCards < numLogs
  /\ Expanded(IF numCards + MoreCards < numLogs THEN numCards + MoreCards
              ELSE numLogs)
  /\ UNCHANGED <<collection, wantedVars, inFlight, sent, logs, graph, pc, inOrder>>

CalDuration(log) ==
  GetCalDuration(GetCurrentTime(log.requested), GetCurrentTime(log.responded))

\* calDurations before they are sorted, and the heights of the graph.
Answered(page) ==
  Subsequence(page, {i \in DOMAIN page : page[i].responded # Unanswered})

CalDurations(page) ==
  [i \in DOMAIN Answered(page) |-> CalToMS(CalDuration(Answered(page)[i]))]

\* Mutant: the durations are not sorted.
Sorted_AsTheyAre(durations) == durations

\* The place of a text "-s." among all with a minus sign: "-1.", "-10.", ...,
\* "-19.", "-2.", ...
Place(duration) ==
  LET s == (-duration) \div Second
  IN  IF s < 10 THEN 11 * s ELSE 11 * (s \div 10) + (s % 10) + 1

\* sort() compares texts.  The others have two digits of seconds, so that they
\* have the order of their numbers, behind those with a minus sign.
TextLess(v, w) == IF v < 0 /\ w < 0 THEN Place(v) < Place(w) ELSE v < w

Sorted(durations) ==
  LET n == Len(durations)
      Upto(i) == {j \in 1 .. n : \/ TextLess(durations[j], durations[i])
                                 \/ durations[j] = durations[i] /\ j <= i}
  IN  [k \in 1 .. n |->
         durations[CHOOSE i \in 1 .. n : Cardinality(Upto(i)) = k]]

Percentiles(durations) ==
  LET n == Len(durations)
      At(i) == Sorted(durations)[i + 1]
  IN  <<At(n \div 2), At((n * 3) \div 4), At((n * 19) \div 20),
        At((n * 99) \div 100)>>

\* A page without documents is null, and the loop over it throws.
Arrive(r) ==
  /\ r.read
  /\ inFlight' = inFlight \ {r}
  /\ inOrder' = /\ inOrder
                /\ \A s \in inFlight : s.id >= r.id
                /\ r.page = <<>> => logs = <<>>
  /\ IF r.page = <<>> THEN UNCHANGED displayVars
     ELSE /\ logs' = r.page
          /\ graph' = CalDurations(r.page)
          /\ pc' = IF graph' = <<>> THEN pc ELSE Percentiles(graph')
          /\ cards' = SubSeq(r.page, 1, IF FirstCards < Len(r.page)
                                        THEN FirstCards ELSE Len(r.page))
          /\ numCards' = FirstCards
  /\ UNCHANGED <<collection, wantedVars, sent>>

\* The error is written to the console.
Fail(r) ==
  /\ inFlight' = inFlight \ {r}
  /\ inOrder' = FALSE
  /\ UNCHANGED <<collection, wantedVars, sent, displayVars>>

Next ==
  \/ Insert
  \/ Complete
  \/ \E r \in inFlight : Serve(r) \/ Arrive(r) \/ Fail(r)
  \/ \E num \in TypedNumbers : ChangeLogNum(num)
  \/ ExpandCards

Spec == Init /\ [][Next]_vars

-----------------------------------------------------------------------------
(* Properties *)

\* While nothing is fetched the page has as many logs as the user asked for,
\* or all there were, provided that responses came in the order of their
\* requests (the effect does not look whether a response is still wanted).
ShowsWhatWasAsked ==
  inFlight = {} /\ inOrder =>
    /\ Len(logs) <= numLogs
    /\ logs # <<>> /\ Len(logs) < numLogs =>
         logs[Len(logs)].requested = collection[1].requested

\* When the button that shows more is gone, nothing is left to show, though
\* numCards is a number of cards that need not exist.
NothingHidden ==
  inFlight = {} /\ inOrder /\ numCards >= numLogs => cards = logs

\* At most one of the texts drawn has a minus sign, whatever its repetitions.
OneBelowZero ==
  \A i, j \in DOMAIN graph : graph[i] < 0 /\ graph[j] < 0 => graph[i] = graph[j]

\* Each percentile has its rank among the durations drawn, unless no log of
\* the last response is answered: then they are those of an earlier one.  The
\* order of the texts is good enough for that while clocks that are behind by
\* whole seconds do not make several durations negative.
PercentilesAreRight ==
  LET n == Len(graph)
      rank == <<n \div 2, (n * 3) \div 4, (n * 19) \div 20, (n * 99) \div 100>>
  IN  n > 0 /\ OneBelowZero =>
        \A k \in 1 .. 4 :
          /\ Cardinality({i \in 1 .. n : graph[i] < pc[k]}) <= rank[k]
          /\ rank[k] < Cardinality({i \in 1 .. n : graph[i] <= pc[k]})

\* The time between the two stamps, if neither a midnight nor a clock that is
\* behind comes between them.
InOneDay(log) ==
  log.requested <= log.responded /\ log.requested \div Day = log.responded \div Day

\* What utils.cpp stamps, receive.cpp subtracts and Home.js reads is the time
\* that has passed, if it is less than a minute of one day.
ShownIsElapsed ==
  \A k \in DOMAIN graph :
    LET log == Answered(logs)[k]
    IN  InOneDay(log) /\ log.responded - log.requested < Minute =>
          graph[k] = log.responded - log.requested

=============================================================================
