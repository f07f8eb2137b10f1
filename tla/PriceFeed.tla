----------------------------- MODULE PriceFeed -----------------------------
(***************************************************************************)
(* The instrument streamer: InstrumentStreamer.run broadcasts prices to    *)
(* the sessions of each ISIN while the container's threads run onOpen,     *)
(* onClose and onError of WebSocket.java.  The map of lists is concurrent, *)
(* the lists in it are ArrayLists without a lock.  The enricher's endpoint *)
(* (EnricherServerEndpoint.java) has the same handlers and broadcast.      *)
(*                                                                         *)
(* A list is named by the session whose onOpen made it.  Threads are       *)
(* sequentially consistent here.                                           *)
(***************************************************************************)
EXTENDS Integers, Sequences, FiniteSets

CONSTANTS
  Sessions,     \* a client that comes back is another session
  Isins,
  IsinOf,       \* the path parameter of a session
  Bonds,        \* the ISINs in the collection at first
  Nobody        \* null: no session, no list

ASSUME SessionAssumption ==
  /\ IsFiniteSet(Sessions) /\ IsFiniteSet(Isins)
  /\ IsinOf \in [Sessions -> Isins]
  /\ Bonds \subseteq Isins
  /\ Nobody \notin Sessions

VARIABLES
  bonds,        \* the collection
  map,          \* sessions: which list an ISIN has
  list,         \* the lists
  pc,           \* where a session's handler is
  on, at,       \* the list and the index a handler works with
  running,      \* the process
  isins,        \* the ISINs run() read when it started
  todo,         \* those not yet broadcast to in this round
  iter,         \* broadcast's forEach over a list; as history, its audience:
                \* who was open when it began
  priced,       \* history: who was sent a price in this round
  overlapped,   \* history: ISINs that two handlers worked on at once
  collided      \* history: a list was changed during a broadcast to it

handlerVars == <<pc, on, at>>
streamVars == <<isins, todo, iter, priced>>
vars == <<bonds, map, list, handlerVars, running, streamVars, overlapped, collided>>

Capacity == Cardinality(Sessions)

\* elementData and size
EmptyList == [slots |-> [k \in 1 .. Capacity |-> Nobody], size |-> 0]

NoIteration ==
  [list |-> Nobody, size |-> 0, next |-> 1, changed |-> FALSE, audience |-> {}]

\* A new process: no session, and the ISINs that are in the collection.
Init ==
  /\ bonds = Bonds
  /\ map = [isin \in Isins |-> Nobody]
  /\ list = [s \in Sessions |-> EmptyList]
  /\ pc = [s \in Sessions |-> "new"]
  /\ on = [s \in Sessions |-> Nobody]
  /\ at = [s \in Sessions |-> 0]
  /\ running = TRUE
  /\ isins = Bonds /\ todo = {}
  /\ iter = NoIteration
  /\ priced = {} /\ overlapped = {} /\ collided = FALSE

-----------------------------------------------------------------------------
(* Handlers of WebSocket.java *)

InHandler(s) == pc[s] \in {"put", "get", "store", "closing", "erring"}

\* A handler of s begins.
Begins(s) ==
  overlapped' =
    IF \E t \in Sessions : InHandler(t) /\ IsinOf[t] = IsinOf[s]
    THEN overlapped \cup {IsinOf[s]} ELSE overlapped

\* modCount of list l is raised.
Touched(l) ==
  /\ iter' = [iter EXCEPT !.changed = @ \/ l = iter.list]
  /\ collided' = (collided \/ l = iter.list)

\* Mutant: every client puts a new list.
OnOpen_Puts(s) ==
  /\ running /\ pc[s] = "new"
  /\ pc' = [pc EXCEPT ![s] = "put"]
  /\ Begins(s)
  /\ UNCHANGED <<bonds, map, list, on, at, running, streamVars, collided>>

\* containsKey
OnOpen(s) ==
  /\ running /\ pc[s] = "new"
  /\ pc' = [pc EXCEPT ![s] = IF map[IsinOf[s]] = Nobody THEN "put" ELSE "get"]
  /\ Begins(s)
  /\ UNCHANGED <<bonds, map, list, on, at, running, streamVars, collided>>

Put(s) ==
  /\ running /\ pc[s] = "put"
  /\ map' = [map EXCEPT ![IsinOf[s]] = s]
  /\ pc' = [pc EXCEPT ![s] = "get"]
  /\ UNCHANGED <<bonds, list, on, at, running, streamVars, overlapped, collided>>

\* get, and the beginning of add: the count of changes and the size.
Get(s) ==
  /\ running /\ pc[s] = "get"
  /\ LET l == map[IsinOf[s]]
     IN  /\ on' = [on EXCEPT ![s] = l]
         /\ at' = [at EXCEPT ![s] = list[l].size + 1]
         /\ Touched(l)
  /\ pc' = [pc EXCEPT ![s] = "store"]
  /\ UNCHANGED <<bonds, map, list, running, isins, todo, priced, overlapped>>

Stored(l, i, s) ==
  IF i < 1 THEN l  \* out of bounds
  ELSE [slots |-> [l.slots EXCEPT ![i] = s], size |-> i]

\* The end of add.
Store(s) ==
  /\ running /\ pc[s] = "store"
  /\ list' = [list EXCEPT ![on[s]] = Stored(@, at[s], s)]
  /\ pc' = [pc EXCEPT ![s] = "open"]
  /\ on' = [on EXCEPT ![s] = Nobody] /\ at' = [at EXCEPT ![s] = 0]
  /\ UNCHANGED <<bonds, map, running, streamVars, overlapped, collided>>

\* remove looks for the session.
Leave(s, found, absent) ==
  LET l == map[IsinOf[s]]
      places == {k \in 1 .. list[l].size : list[l].slots[k] = s}
  IN  /\ Begins(s)
      /\ IF places = {}
         THEN pc' = [pc EXCEPT ![s] = absent] /\ UNCHANGED <<on, at>>
         ELSE /\ pc' = [pc EXCEPT ![s] = found]
              /\ on' = [on EXCEPT ![s] = l]
              /\ at' = [at EXCEPT ![s] =
                   CHOOSE k \in places : \A j \in places : k <= j]
      /\ UNCHANGED <<bonds, map, list, running, streamVars, collided>>

OnClose(s) ==
  /\ running /\ pc[s] \in {"open", "erred"}
  /\ Leave(s, "closing", "closed")

\* Mutant: the session stays in the list.
OnError_Logged(s) ==
  /\ running /\ pc[s] = "open"
  /\ pc' = [pc EXCEPT ![s] = "erred"]
  /\ Begins(s)
  /\ UNCHANGED <<bonds, map, list, on, at, running, streamVars, collided>>

OnError(s) ==
  /\ running /\ pc[s] = "open"
  /\ Leave(s, "erring", "erred")

\* fastRemove: move what is behind index i and clear the last place.
Removed(l, i) ==
  LET last == l.size
  IN  [slots |-> [k \in 1 .. Capacity |->
                    IF k = last THEN Nobody
                    ELSE IF i <= k /\ k < last THEN l.slots[k + 1] ELSE l.slots[k]],
       size |-> last - 1]

\* The end of remove.
Remove(s) ==
  /\ running /\ pc[s] \in {"closing", "erring"}
  /\ list' = [list EXCEPT ![on[s]] = Removed(@, at[s])]
  /\ Touched(on[s])
  /\ pc' = [pc EXCEPT ![s] = IF @ = "closing" THEN "closed" ELSE "erred"]
  /\ on' = [on EXCEPT ![s] = Nobody] /\ at' = [at EXCEPT ![s] = 0]
  /\ UNCHANGED <<bonds, map, running, isins, todo, priced, overlapped>>

-----------------------------------------------------------------------------
(* InstrumentStreamer.run and broadcast *)

\* Mutant: the outer loop is missing.
NextRound_Never == FALSE

NextRound == todo = {}

\* while (true)
Round ==
  /\ running /\ NextRound /\ iter = NoIteration
  /\ todo' = isins /\ priced' = {}
  /\ UNCHANGED <<bonds, map, list, handlerVars, running, isins, iter, overlapped,
                 collided>>

\* Mutant: without containsKey the list is null for an ISIN without clients.
Broadcast_Unchecked(isin) ==
  /\ running /\ isin \in todo /\ iter = NoIteration
  /\ todo' = todo \ {isin}
  /\ IF map[isin] = Nobody THEN running' = FALSE /\ UNCHANGED iter
     ELSE /\ iter' = [list |-> map[isin], size |-> list[map[isin]].size,
                      next |-> 1, changed |-> FALSE,
                      audience |-> {s \in Sessions : pc[s] = "open" /\ IsinOf[s] = isin}]
          /\ UNCHANGED running
  /\ UNCHANGED <<bonds, map, list, handlerVars, isins, priced, overlapped, collided>>

\* containsKey, get and the beginning of forEach.
Broadcast(isin) ==
  /\ running /\ isin \in todo /\ iter = NoIteration
  /\ todo' = todo \ {isin}
  /\ iter' = IF map[isin] = Nobody THEN NoIteration
             ELSE [list |-> map[isin], size |-> list[map[isin]].size,
                   next |-> 1, changed |-> FALSE,
                   audience |-> {s \in Sessions : pc[s] = "open" /\ IsinOf[s] = isin}]
  /\ UNCHANGED <<bonds, map, list, handlerVars, running, isins, priced, overlapped,
                 collided>>

More == iter.next <= iter.size

Element == list[iter.list].slots[iter.next]

Send ==
  /\ running /\ iter.list # Nobody /\ ~iter.changed
  /\ More /\ Element # Nobody
  /\ priced' = priced \cup {Element}
  /\ iter' = [iter EXCEPT !.next = @ + 1]
  /\ UNCHANGED <<bonds, map, list, handlerVars, running, isins, todo, overlapped,
                 collided>>

EndForEach ==
  /\ running /\ iter.list # Nobody /\ ~iter.changed
  /\ ~More
  /\ iter' = NoIteration
  /\ UNCHANGED <<bonds, map, list, handlerVars, running, isins, todo, priced,
                 overlapped, collided>>

\* ConcurrentModificationException, or the lambda gets null: run() is left and
\* with it the process.
Throw ==
  /\ running /\ iter.list # Nobody
  /\ iter.changed \/ (More /\ Element = Nobody)
  /\ running' = FALSE
  /\ UNCHANGED <<bonds, map, list, handlerVars, streamVars, overlapped, collided>>

\* The platform starts the streamer again.  Sessions end with the process.
Restart ==
  /\ ~running
  /\ running' = TRUE
  /\ isins' = bonds /\ todo' = {} /\ iter' = NoIteration /\ priced' = {}
  /\ map' = [isin \in Isins |-> Nobody]
  /\ list' = [s \in Sessions |-> EmptyList]
  /\ pc' = [s \in Sessions |-> IF pc[s] = "new" THEN "new" ELSE "closed"]
  /\ on' = [s \in Sessions |-> Nobody] /\ at' = [s \in Sessions |-> 0]
  /\ overlapped' = {} /\ collided' = FALSE
  /\ bonds' = bonds

\* The importer adds a bond.
Import(isin) ==
  /\ isin \notin bonds
  /\ bonds' = bonds \cup {isin}
  /\ UNCHANGED <<map, list, handlerVars, running, streamVars, overlapped, collided>>

Handler(s) == Put(s) \/ Get(s) \/ Store(s) \/ Remove(s)

Stream == Round \/ (\E isin \in Isins : Broadcast(isin)) \/ Send \/ EndForEach \/ Throw

Next ==
  \/ \E s \in Sessions : OnOpen(s) \/ OnClose(s) \/ OnError(s) \/ Handler(s)
  \/ Stream
  \/ Restart
  \/ \E isin \in Isins : Import(isin)

Spec == Init /\ [][Next]_vars

\* Threads that have begun go on and the platform restarts the process; nobody
\* has to connect or to leave.
FairSpec ==
  /\ Spec
  /\ \A s \in Sessions : WF_vars(Handler(s))
  /\ WF_vars(Stream) /\ WF_vars(Restart)

-----------------------------------------------------------------------------
(* Properties *)

Listed(isin) ==
  LET l == list[map[isin]]
  IN  IF map[isin] = Nobody THEN {}
      ELSE {l.slots[k] : k \in 1 .. l.size}

\* Handlers that overlap on one ISIN never disturb the list of another, and
\* where none have overlapped the list has exactly the sessions that are open.
ListsAreExact ==
  \A isin \in Isins \ overlapped :
    (\A s \in Sessions : InHandler(s) => IsinOf[s] # isin) =>
      /\ Listed(isin) = {s \in Sessions : pc[s] = "open" /\ IsinOf[s] = isin}
      /\ map[isin] # Nobody =>
           list[map[isin]].size = Cardinality(Listed(isin))

\* A broadcast that comes to its end has sent to every session that was open
\* when it began, unless handlers of that ISIN have overlapped.
BroadcastReachesAll ==
  [][EndForEach =>
       \A s \in iter.audience : s \in priced \/ IsinOf[s] \in overlapped]_vars

\* The feed ends only when a handler changes a list during the broadcast to
\* it, or has lost a place of the list to another handler before.
EndsByCollision == ~running => collided \/ overlapped # {}

\* A client that stays gets the next prices, unless handlers of its ISIN have
\* overlapped, the feed ends, or the bond was imported after it started.
OpenIsPriced ==
  \A s \in Sessions :
    pc[s] = "open" ~> \/ s \in priced \/ pc[s] # "open" \/ ~running
                      \/ IsinOf[s] \in overlapped \/ IsinOf[s] \notin isins

=============================================================================
