-------------------------- MODULE PriceFeedProofs --------------------------
(***************************************************************************)
(* Proofs about PriceFeed for any finite sets of sessions and ISINs.       *)
(***************************************************************************)
EXTENDS PriceFeed, FiniteSetTheorems, TLAPS

Stages ==
  {"new", "put", "get", "store", "open", "closing", "erring", "erred", "closed"}

List == [slots : [1 .. Capacity -> Sessions \cup {Nobody}],
         size  : {n \in Int : n <= Capacity}]

Iteration ==
  [list : Sessions \cup {Nobody}, size : {n \in Int : n <= Capacity},
   next : Nat \ {0}, changed : BOOLEAN, audience : SUBSET Sessions]

TypeOK ==
  /\ bonds \in SUBSET Isins
  /\ map \in [Isins -> Sessions \cup {Nobody}]
  /\ list \in [Sessions -> List]
  /\ pc \in [Sessions -> Stages]
  /\ on \in [Sessions -> Sessions \cup {Nobody}]
  /\ at \in [Sessions -> Int]
  /\ running \in BOOLEAN
  /\ isins \in SUBSET Isins /\ todo \in SUBSET Isins
  /\ iter \in Iteration
  /\ priced \in SUBSET Sessions
  /\ overlapped \in SUBSET Isins
  /\ collided \in BOOLEAN

\* The sessions that add has been called for.
Added == {s \in Sessions : pc[s] \notin {"new", "put", "get"}}

\* A list is never longer than the number of calls of add, though threads that
\* overlap may make it longer than the number of sessions in it.
Bounded ==
  /\ \A l \in Sessions : list[l].size <= Cardinality(Added)
  /\ \A s \in Sessions : at[s] <= Cardinality(Added)
  /\ iter.size <= Cardinality(Added)

Working(s) == pc[s] \in {"store", "closing", "erring"}

\* A handler finds a list, made by a session of the same ISIN; a list is empty
\* until the session that makes it has put it in the map.
Mapped ==
  /\ \A isin \in Isins : map[isin] # Nobody => IsinOf[map[isin]] = isin
  /\ \A s \in Sessions :
       /\ pc[s] \notin {"new", "put", "closed"} => map[IsinOf[s]] # Nobody
       /\ Working(s) => on[s] # Nobody
       /\ on[s] # Nobody => IsinOf[on[s]] = IsinOf[s]
       /\ pc[s] \in {"new", "put"} =>
            /\ list[s] = EmptyList
            /\ \A isin \in Isins : map[isin] # s
            /\ \A t \in Sessions : on[t] # s

\* Those whose place in the list is taken and not yet given up.
Members(isin) ==
  {s \in Sessions : pc[s] \in {"open", "closing", "erring"} /\ IsinOf[s] = isin}

\* The list l has each member once.
Lists(l, isin) ==
  /\ l.size >= 0
  /\ \A k \in 1 .. l.size : l.slots[k] \in Members(isin)
  /\ \A j, k \in 1 .. l.size : l.slots[j] = l.slots[k] => j = k
  /\ \A s \in Members(isin) : \E k \in 1 .. l.size : l.slots[k] = s

\* The handler of s works on list l, and what it has read still holds.
UpToDate(s, l) ==
  /\ pc[s] = "put" => map[IsinOf[s]] = Nobody
  /\ Working(s) => on[s] = map[IsinOf[s]]
  /\ pc[s] = "store" => at[s] = l.size + 1
  /\ pc[s] \in {"closing", "erring"} => at[s] \in 1 .. l.size /\ l.slots[at[s]] = s

\* One handler at a time, and an exact list.
Exact(isin) ==
  /\ \A s, t \in Sessions :
       /\ InHandler(s) /\ IsinOf[s] = isin
       /\ InHandler(t) /\ IsinOf[t] = isin
       => s = t
  /\ map[isin] # Nobody => Lists(list[map[isin]], isin)
  /\ \A s \in Sessions : IsinOf[s] = isin => UpToDate(s, list[map[isin]])

ExactLists == \A isin \in Isins \ overlapped : Exact(isin)

\* The places that a broadcast goes through are those of its audience, and do
\* not change unless it is told.
Undisturbed ==
  LET l == list[iter.list]
  IN  /\ map[IsinOf[iter.list]] = iter.list
      /\ iter.next - 1 <= iter.size /\ iter.size <= l.size
      /\ \A k \in 1 .. iter.next - 1 : l.slots[k] \in priced
      /\ \A s \in iter.audience : \E k \in 1 .. iter.size : l.slots[k] = s

Broadcasting ==
  /\ \A s \in iter.audience : IsinOf[s] = IsinOf[iter.list]
  /\ iter.changed => collided
  /\ iter.list # Nobody /\ ~iter.changed /\ IsinOf[iter.list] \notin overlapped
       => Undisturbed

FInv ==
  /\ TypeOK /\ Bounded /\ Mapped /\ ExactLists /\ Broadcasting /\ EndsByCollision


-----------------------------------------------------------------------------
(* Helpers *)

\* Every set of natural numbers has a least one.
LEMMA Least ==
  ASSUME NEW T \in SUBSET Nat, T # {}
  PROVE  \E k \in T : \A j \in T : k <= j
<1> DEFINE Upto(k) == 1 .. k
           U == {Upto(k) : k \in T}
<1>1. U \subseteq FiniteSubsetsOf(Nat) /\ U # {}
  <2>1. \A k \in T : Upto(k) \subseteq Nat /\ IsFiniteSet(Upto(k))
    BY FS_Interval
  <2> QED
    BY <2>1 DEF FiniteSubsetsOf
<1> HIDE DEF U
<1>2. PICK x \in U : \A y \in U : ~(<<y, x>> \in StrictSubsetOrdering(Nat))
  BY <1>1, WFMin, FS_StrictSubsetOrderingWellFounded
<1>3. PICK k \in T : x = Upto(k)
  BY <1>2 DEF U
<1>4. ASSUME NEW j \in T, j < k
      PROVE  FALSE
  <2>1. Upto(j) \in U
    BY DEF U
  <2>2. Upto(j) \in SUBSET Nat /\ Upto(k) \in SUBSET Nat
    OBVIOUS
  <2>3. Upto(j) \subseteq Upto(k) /\ k \in Upto(k) /\ k \notin Upto(j)
    BY <1>4
  <2>4. <<Upto(j), Upto(k)>> \in StrictSubsetOrdering(Nat)
    BY <2>2, <2>3 DEF StrictSubsetOrdering
  <2> QED
    BY <1>2, <1>3, <2>1, <2>4
<1> QED
  BY <1>4

LEMMA Sizes ==
  /\ Capacity \in Nat
  /\ EmptyList \in List /\ NoIteration \in Iteration
<1>1. Capacity \in Nat
  BY SessionAssumption, FS_CardinalityType DEF Capacity
<1>2. EmptyList.size = 0 /\ EmptyList \in List
  BY <1>1 DEF EmptyList, List
<1> QED
  BY <1>1, <1>2 DEF NoIteration, Iteration

\* What the end of add leaves.
LEMMA StoredList ==
  ASSUME NEW l \in List, NEW i \in Int, i <= Capacity, NEW s \in Sessions
  PROVE  /\ Stored(l, i, s) \in List
         /\ i >= 1 => /\ Stored(l, i, s).size = i
                      /\ Stored(l, i, s).slots[i] = s
         /\ i < 1 => Stored(l, i, s).size = l.size
         /\ \A k \in 1 .. Capacity :
              k # i => Stored(l, i, s).slots[k] = l.slots[k]
  BY Sizes DEF Stored, List

\* What the end of remove leaves.
LEMMA RemovedList ==
  ASSUME NEW l \in List, NEW i \in Int
  PROVE  /\ Removed(l, i) \in List
         /\ Removed(l, i).size = l.size - 1
         /\ \A k \in 1 .. Capacity :
              /\ k < i /\ k < l.size => Removed(l, i).slots[k] = l.slots[k]
              /\ i <= k /\ k < l.size => Removed(l, i).slots[k] = l.slots[k + 1]
<1> DEFINE last == l.size
           m == [k \in 1 .. Capacity |->
                   IF k = last THEN Nobody
                   ELSE IF i <= k /\ k < last THEN l.slots[k + 1] ELSE l.slots[k]]
<1>1. Capacity \in Nat
  BY Sizes
<1>2. /\ last \in Int /\ last <= Capacity
      /\ \A k \in 1 .. Capacity : l.slots[k] \in Sessions \cup {Nobody}
  BY DEF List
<1>3. m \in [1 .. Capacity -> Sessions \cup {Nobody}]
  BY <1>1, <1>2
<1>4. Removed(l, i) = [slots |-> m, size |-> last - 1]
  BY DEF Removed
<1>5. /\ Removed(l, i).slots = m
      /\ Removed(l, i).size = last - 1
  BY <1>4
<1>6. Removed(l, i) \in List
  BY <1>1, <1>2, <1>3, <1>4 DEF List
<1>7. \A k \in 1 .. Capacity :
        /\ k < i /\ k < last => m[k] = l.slots[k]
        /\ i <= k /\ k < last => m[k] = l.slots[k + 1]
  BY <1>1, <1>2
<1> QED
  BY <1>5, <1>6, <1>7

\* Where remove finds the session.
LEMMA FoundPlace ==
  ASSUME NEW l \in List, NEW s,
         {k \in 1 .. l.size : l.slots[k] = s} # {}
  PROVE  LET places == {k \in 1 .. l.size : l.slots[k] = s}
         IN  (CHOOSE k \in places : \A j \in places : k <= j) \in places
<1> DEFINE places == {k \in 1 .. l.size : l.slots[k] = s}
<1>1. places \in SUBSET Nat
  BY DEF List
<1>2. \E k \in places : \A j \in places : k <= j
  BY <1>1, Least
<1> QED
  BY <1>2

LEMMA AddedCount ==
  ASSUME TypeOK
  PROVE  Cardinality(Added) \in 0 .. Capacity
<1>1. Added \in SUBSET Sessions
  BY DEF Added
<1> QED
  BY <1>1, SessionAssumption, FS_Subset, FS_CardinalityType DEF Capacity

\* A handler that adds a session to a list counts for one more.
LEMMA AddedGrows ==
  ASSUME TypeOK, pc' \in [Sessions -> Stages], Added \subseteq Added'
  PROVE  /\ Cardinality(Added) <= Cardinality(Added')
         /\ Added # Added' => Cardinality(Added) + 1 <= Cardinality(Added')
<1>1. Added' \in SUBSET Sessions
  BY DEF Added
<1>2. IsFiniteSet(Added')
  BY <1>1, SessionAssumption, FS_Subset
<1>3. /\ Cardinality(Added) <= Cardinality(Added')
      /\ Cardinality(Added) = Cardinality(Added') => Added = Added'
  BY <1>2, FS_Subset
<1>4. Cardinality(Added) \in Nat /\ Cardinality(Added') \in Nat
  BY <1>2, FS_Subset, FS_CardinalityType
<1> QED
  BY <1>3, <1>4

-----------------------------------------------------------------------------
(* Types and sizes *)

HandlerOf(s) ==
  OnOpen(s) \/ OnClose(s) \/ OnError(s) \/ Put(s) \/ Get(s) \/ Store(s) \/ Remove(s)

LEMMA LeaveType ==
  ASSUME TypeOK, Bounded, NEW s \in Sessions, NEW found, NEW absent,
         map[IsinOf[s]] # Nobody, Leave(s, found, absent)
  PROVE  /\ on' \in [Sessions -> Sessions \cup {Nobody}]
         /\ at' \in [Sessions -> Int]
         /\ \A t \in Sessions : at'[t] <= Cardinality(Added)
<1> DEFINE l == map[IsinOf[s]]
           places == {k \in 1 .. list[l].size : list[l].slots[k] = s}
           first == CHOOSE k \in places : \A j \in places : k <= j
<1>1. l \in Sessions /\ list[l] \in List
  BY SessionAssumption DEF TypeOK
<1>2. CASE places = {}
  BY <1>2 DEF Leave, TypeOK, Bounded
<1>3. CASE places # {}
  <2>1. first \in places
    BY <1>1, <1>3, FoundPlace
  <2>2. first \in Int /\ first <= list[l].size
    <3>1. \A k \in places : k \in Int /\ k <= list[l].size
      BY <1>1 DEF List
    <3> HIDE DEF first, places, l
    <3> QED
      BY <2>1, <3>1
  <2>3. on' = [on EXCEPT ![s] = l] /\ at' = [at EXCEPT ![s] = first]
    BY <1>3 DEF Leave
  <2>4. list[l].size <= Cardinality(Added) /\ list[l].size \in Int
    BY <1>1 DEF Bounded, List
  <2>5. Cardinality(Added) \in Int
    BY AddedCount
  <2> HIDE DEF first, l, places
  <2> QED
    BY <1>1, <2>2, <2>3, <2>4, <2>5 DEF TypeOK, Bounded
<1> QED
  BY <1>2, <1>3

\* A handler only ever goes on.
LEMMA StageType ==
  ASSUME TypeOK, NEW s \in Sessions, HandlerOf(s)
  PROVE  /\ pc' \in [Sessions -> Stages]
         /\ \A t \in Sessions \ {s} : pc'[t] = pc[t]
         /\ Added \subseteq Added'
         /\ Get(s) => s \in Added' \ Added
<1>1. /\ pc' \in [Sessions -> Stages]
      /\ \A t \in Sessions \ {s} : pc'[t] = pc[t]
      /\ pc[s] \in {"new", "put", "get"} \/ pc'[s] \notin {"new", "put", "get"}
      /\ Get(s) => pc[s] = "get" /\ pc'[s] = "store"
  BY DEF TypeOK, Stages, HandlerOf, OnOpen, OnClose, OnError, Leave, Put, Get, Store,
         Remove
<1> QED
  BY <1>1 DEF Added

LEMMA HandlerType ==
  ASSUME TypeOK, Bounded, Mapped, NEW s \in Sessions, HandlerOf(s)
  PROVE  TypeOK' /\ Bounded'
<1>1. /\ pc' \in [Sessions -> Stages] /\ Added \subseteq Added'
      /\ Get(s) => s \in Added' \ Added
  BY StageType
<1>2. /\ Cardinality(Added) <= Cardinality(Added')
      /\ Get(s) => Cardinality(Added) + 1 <= Cardinality(Added')
      /\ Cardinality(Added) \in 0 .. Capacity
  BY <1>1, AddedGrows, AddedCount
<1>3. Cardinality(Added') \in 0 .. Capacity
  <2>1. Added' \in SUBSET Sessions
    BY DEF Added
  <2> QED
    BY <2>1, SessionAssumption, FS_Subset, FS_CardinalityType DEF Capacity
<1>4. Capacity \in Nat /\ IsinOf[s] \in Isins
  BY Sizes, SessionAssumption
<1>5. \A l \in Sessions : Touched(l) => /\ iter' \in Iteration /\ iter'.size = iter.size
                                        /\ collided' \in BOOLEAN
  BY DEF TypeOK, Touched, Iteration
<1>6. Begins(s) => overlapped' \in SUBSET Isins
  BY <1>4 DEF Begins, TypeOK
<1>7. CASE OnOpen(s)
  BY <1>1, <1>2, <1>3, <1>6, <1>7 DEF OnOpen, TypeOK, Bounded, streamVars, Iteration, List
<1>8. CASE OnClose(s) \/ OnError(s)
  <2>1. PICK found, absent : Leave(s, found, absent)
    BY <1>8 DEF OnClose, OnError
  <2>2. map[IsinOf[s]] # Nobody
    BY <1>8 DEF OnClose, OnError, Mapped
  <2>3. /\ on' \in [Sessions -> Sessions \cup {Nobody}]
        /\ at' \in [Sessions -> Int]
        /\ \A t \in Sessions : at'[t] <= Cardinality(Added)
    BY <2>1, <2>2, LeaveType
  <2>4. /\ UNCHANGED <<bonds, map, list, running, streamVars, collided>>
        /\ Begins(s)
    BY <2>1 DEF Leave
  <2> QED
    BY <1>1, <1>2, <1>3, <1>6, <2>3, <2>4
       DEF TypeOK, Bounded, streamVars, Iteration, List
<1>9. CASE Put(s)
  BY <1>1, <1>2, <1>3, <1>4, <1>9 DEF Put, TypeOK, Bounded, streamVars, Iteration, List
<1>10. CASE Get(s)
  <2> DEFINE l == map[IsinOf[s]]
  <2>1. l \in Sessions /\ list[l] \in List
    BY <1>4, <1>10 DEF Get, Mapped, TypeOK
  <2>2. list[l].size + 1 \in Int /\ list[l].size + 1 <= Cardinality(Added')
    <3>1. list[l].size \in Int /\ list[l].size <= Cardinality(Added)
      BY <2>1 DEF Bounded, List
    <3>2. Cardinality(Added) + 1 <= Cardinality(Added')
      BY <1>2, <1>10
    <3> HIDE DEF l
    <3> QED
      BY <1>2, <1>3, <3>1, <3>2
  <2>3. iter' \in Iteration /\ iter'.size = iter.size /\ collided' \in BOOLEAN
    BY <1>5, <1>10, <2>1 DEF Get
  <2>4. /\ on' = [on EXCEPT ![s] = l]
        /\ at' = [at EXCEPT ![s] = list[l].size + 1]
        /\ UNCHANGED <<bonds, map, list, running, isins, todo, priced, overlapped>>
    BY <1>10 DEF Get
  <2> HIDE DEF l
  <2> QED
    BY <1>1, <1>2, <1>3, <2>1, <2>2, <2>3, <2>4 DEF TypeOK, Bounded, Iteration, List
<1>11. CASE Store(s)
  <2>1. on[s] \in Sessions /\ list[on[s]] \in List
    BY <1>11 DEF Store, Mapped, Working, TypeOK
  <2>2. at[s] \in Int /\ at[s] <= Cardinality(Added) /\ at[s] <= Capacity
    BY <1>2, <1>4 DEF TypeOK, Bounded
  <2> DEFINE l == Stored(list[on[s]], at[s], s)
  <2>3. l \in List /\ l.size <= Cardinality(Added)
    BY <2>1, <2>2, StoredList DEF Bounded
  <2>4. /\ list' = [list EXCEPT ![on[s]] = l]
        /\ on' = [on EXCEPT ![s] = Nobody] /\ at' = [at EXCEPT ![s] = 0]
        /\ UNCHANGED <<bonds, map, running, streamVars, overlapped, collided>>
    BY <1>11 DEF Store
  <2> HIDE DEF l
  <2> QED
    BY <1>1, <1>2, <1>3, <2>1, <2>3, <2>4
       DEF TypeOK, Bounded, streamVars, Iteration, List
<1>12. CASE Remove(s)
  <2>1. on[s] \in Sessions /\ list[on[s]] \in List
    BY <1>12 DEF Remove, Mapped, Working, TypeOK
  <2> DEFINE l == Removed(list[on[s]], at[s])
  <2>2. l \in List /\ l.size <= Cardinality(Added)
    <3>1. l \in List /\ l.size = list[on[s]].size - 1
      BY <2>1, RemovedList DEF TypeOK
    <3>2. list[on[s]].size <= Cardinality(Added)
      BY <2>1 DEF Bounded
    <3> QED
      BY <1>2, <2>1, <3>1, <3>2 DEF List
  <2>3. iter' \in Iteration /\ iter'.size = iter.size /\ collided' \in BOOLEAN
    BY <1>5, <1>12, <2>1 DEF Remove
  <2>4. /\ list' = [list EXCEPT ![on[s]] = l]
        /\ on' = [on EXCEPT ![s] = Nobody] /\ at' = [at EXCEPT ![s] = 0]
        /\ UNCHANGED <<bonds, map, running, isins, todo, priced, overlapped>>
    BY <1>12 DEF Remove
  <2> HIDE DEF l
  <2>5. TypeOK'
    BY <1>1, <2>1, <2>2, <2>3, <2>4 DEF TypeOK
  <2>6. \A t \in Sessions : list'[t].size <= Cardinality(Added')
    <3>1. ASSUME NEW t \in Sessions
          PROVE  list'[t].size \in Int /\ list'[t].size <= Cardinality(Added)
      BY <1>2, <2>1, <2>2, <2>4 DEF TypeOK, Bounded, List
    <3> QED
      BY <1>2, <1>3, <3>1
  <2>7. \A t \in Sessions : at'[t] <= Cardinality(Added')
    <3>1. ASSUME NEW t \in Sessions
          PROVE  at'[t] \in Int /\ at'[t] <= Cardinality(Added)
      BY <1>2, <2>4 DEF TypeOK, Bounded
    <3> QED
      BY <1>2, <1>3, <3>1
  <2>8. iter'.size <= Cardinality(Added')
    BY <1>2, <1>3, <2>3 DEF TypeOK, Bounded, Iteration
  <2> QED
    BY <2>5, <2>6, <2>7, <2>8 DEF Bounded
<1> QED
  BY <1>7, <1>8, <1>9, <1>10, <1>11, <1>12 DEF HandlerOf

LEMMA StreamType ==
  ASSUME TypeOK, Bounded, Stream
  PROVE  TypeOK' /\ Bounded'
<1>1. UNCHANGED <<bonds, map, list, handlerVars, isins, overlapped, collided>>
  BY DEF Stream, Round, Broadcast, Send, EndForEach, Throw, streamVars
<1>2. Added' = Added
  BY <1>1 DEF Added, handlerVars
<1>3. NoIteration \in Iteration /\ NoIteration.size = 0
  BY Sizes DEF NoIteration
<1>4. Cardinality(Added) \in Nat
  BY AddedCount
<1>5. CASE Round
  BY <1>1, <1>2, <1>5 DEF Round, TypeOK, Bounded, handlerVars
<1>6. ASSUME NEW isin \in Isins, Broadcast(isin)
      PROVE  TypeOK' /\ Bounded'
  <2> DEFINE l == map[isin]
             i == [list |-> l, size |-> list[l].size, next |-> 1, changed |-> FALSE,
                   audience |-> {s \in Sessions : pc[s] = "open" /\ IsinOf[s] = isin}]
  <2>1. iter' = IF l = Nobody THEN NoIteration ELSE i
    BY <1>6 DEF Broadcast
  <2>2. l # Nobody => /\ i \in Iteration /\ i.size = list[l].size
                      /\ list[l].size <= Cardinality(Added)
    BY DEF TypeOK, Bounded, List, Iteration
  <2>3. iter' \in Iteration /\ iter'.size <= Cardinality(Added)
    BY <1>3, <1>4, <2>1, <2>2
  <2>4. todo' \in SUBSET Isins /\ UNCHANGED <<running, priced>>
    BY <1>6 DEF Broadcast, TypeOK
  <2> QED
    BY <1>1, <1>2, <2>3, <2>4 DEF TypeOK, Bounded, handlerVars
<1>7. CASE Send
  <2>1. iter.list \in Sessions /\ list[iter.list] \in List /\ iter.next \in 1 .. Capacity
    BY <1>7, Sizes DEF Send, More, TypeOK, Iteration
  <2>2. Element \in Sessions
    BY <1>7, <2>1 DEF Send, Element, List
  <2>3. iter' \in Iteration /\ iter'.size = iter.size
    BY <1>7 DEF Send, TypeOK, Iteration
  <2>4. priced' \in SUBSET Sessions /\ UNCHANGED <<running, todo>>
    BY <1>7, <2>2 DEF Send, TypeOK
  <2> QED
    BY <1>1, <1>2, <2>3, <2>4 DEF TypeOK, Bounded, handlerVars
<1>8. CASE EndForEach
  BY <1>1, <1>2, <1>3, <1>4, <1>8 DEF EndForEach, TypeOK, Bounded, handlerVars
<1>9. CASE Throw
  BY <1>1, <1>2, <1>9 DEF Throw, TypeOK, Bounded, handlerVars, streamVars
<1> QED
  BY <1>5, <1>6, <1>7, <1>8, <1>9 DEF Stream

LEMMA RestartType ==
  ASSUME TypeOK, Restart
  PROVE  TypeOK' /\ Bounded'
<1>1. TypeOK'
  <2>1. /\ map' \in [Isins -> Sessions \cup {Nobody}]
        /\ list' \in [Sessions -> List]
        /\ pc' \in [Sessions -> Stages]
        /\ on' \in [Sessions -> Sessions \cup {Nobody}]
        /\ at' \in [Sessions -> Int]
    BY Sizes DEF Restart, TypeOK, Stages
  <2>2. /\ bonds' \in SUBSET Isins /\ running' \in BOOLEAN
        /\ isins' \in SUBSET Isins /\ todo' \in SUBSET Isins
        /\ priced' \in SUBSET Sessions /\ overlapped' \in SUBSET Isins
        /\ collided' \in BOOLEAN
    BY DEF Restart, TypeOK
  <2>3. iter' \in Iteration
    BY Sizes DEF Restart
  <2> QED
    BY <2>1, <2>2, <2>3 DEF TypeOK
<1>2. Cardinality(Added)' \in Nat
  <2>1. Added' \in SUBSET Sessions
    BY DEF Added
  <2> QED
    BY <2>1, SessionAssumption, FS_Subset, FS_CardinalityType
<1>3. /\ \A l \in Sessions : list'[l].size = 0 /\ at'[l] = 0
      /\ iter'.size = 0
  BY DEF Restart, EmptyList, NoIteration
<1> QED
  BY <1>1, <1>2, <1>3 DEF Bounded

LEMMA NextType ==
  TypeOK /\ Bounded /\ Mapped /\ [Next]_vars => TypeOK' /\ Bounded'
<1> SUFFICES ASSUME TypeOK, Bounded, Mapped, [Next]_vars
             PROVE  TypeOK' /\ Bounded'
  OBVIOUS
<1>1. ASSUME NEW isin \in Isins, Import(isin)
      PROVE  TypeOK' /\ Bounded'
  BY <1>1 DEF Import, TypeOK, Bounded, Added, handlerVars, streamVars
<1>2. CASE UNCHANGED vars
  BY <1>2 DEF vars, TypeOK, Bounded, Added, handlerVars, streamVars
<1> QED
  BY <1>1, <1>2, HandlerType, StreamType, RestartType DEF Next, HandlerOf, Handler

-----------------------------------------------------------------------------
(* Lists and the map *)

LEMMA MappedNext ==
  TypeOK /\ Mapped /\ [Next]_vars => Mapped'
<1> SUFFICES ASSUME TypeOK, Mapped, [Next]_vars PROVE Mapped'
  OBVIOUS
<1>1. \A s \in Sessions : IsinOf[s] \in Isins
  BY SessionAssumption
<1>2. CASE UNCHANGED <<map, list, handlerVars>>
  BY <1>2 DEF Mapped, Working, handlerVars
<1>3. ASSUME NEW s \in Sessions, OnOpen(s)
      PROVE  Mapped'
  BY <1>1, <1>3 DEF OnOpen, Mapped, Working, TypeOK
<1>4. ASSUME NEW s \in Sessions, OnClose(s) \/ OnError(s)
      PROVE  Mapped'
  <2> DEFINE l == map[IsinOf[s]]
  <2>1. l \in Sessions /\ IsinOf[l] = IsinOf[s] /\ pc[l] \notin {"new", "put"}
    BY <1>1, <1>4 DEF OnClose, OnError, Mapped, TypeOK
  <2>2. UNCHANGED <<map, list>>
    BY <1>4 DEF OnClose, OnError, Leave
  <2>3. \/ on' = on
        \/ on' = [on EXCEPT ![s] = l]
    BY <1>4 DEF OnClose, OnError, Leave
  <2>4. /\ \A t \in Sessions \ {s} : pc'[t] = pc[t]
        /\ pc[s] \in {"open", "erred"} /\ pc'[s] \in {"closing", "erring", "closed", "erred"}
        /\ Working(s)' => on'[s] = l
    BY <1>4 DEF OnClose, OnError, Leave, TypeOK, Working
  <2>5. l # Nobody
    BY <2>1, SessionAssumption
  <2> HIDE DEF l
  <2>6. on'[s] \in {on[s], l} /\ \A t \in Sessions \ {s} : on'[t] = on[t]
    BY <2>3 DEF TypeOK
  <2> QED
    BY <1>1, <2>1, <2>2, <2>4, <2>5, <2>6 DEF Mapped, Working
<1>5. ASSUME NEW s \in Sessions, Put(s)
      PROVE  Mapped'
  <2>1. /\ map' = [map EXCEPT ![IsinOf[s]] = s] /\ UNCHANGED <<list, on>>
        /\ pc[s] = "put" /\ pc'[s] = "get"
        /\ \A t \in Sessions \ {s} : pc'[t] = pc[t]
    BY <1>5 DEF Put, TypeOK
  <2>2. \A t \in Sessions : Working(t)' = Working(t)
    BY <2>1 DEF Working
  <2>3. /\ map'[IsinOf[s]] = s
        /\ \A isin \in Isins \ {IsinOf[s]} : map'[isin] = map[isin]
    BY <1>1, <2>1 DEF TypeOK
  <2>4. s # Nobody
    BY SessionAssumption
  <2> QED
    BY <1>1, <2>1, <2>2, <2>3, <2>4 DEF Mapped
<1>6. ASSUME NEW s \in Sessions, Get(s)
      PROVE  Mapped'
  <2> DEFINE l == map[IsinOf[s]]
  <2>1. /\ UNCHANGED <<map, list>> /\ on' = [on EXCEPT ![s] = l]
        /\ pc[s] = "get" /\ pc'[s] = "store"
        /\ \A t \in Sessions \ {s} : pc'[t] = pc[t]
    BY <1>6 DEF Get, TypeOK
  <2>2. l \in Sessions /\ IsinOf[l] = IsinOf[s] /\ pc[l] \notin {"new", "put"}
    BY <1>1, <2>1 DEF Mapped, TypeOK
  <2>3. l # Nobody
    BY <2>2, SessionAssumption
  <2> HIDE DEF l
  <2>4. on'[s] = l /\ \A t \in Sessions \ {s} : on'[t] = on[t]
    BY <2>1 DEF TypeOK
  <2> QED
    BY <1>1, <2>1, <2>2, <2>3, <2>4 DEF Mapped, Working
<1>7. ASSUME NEW s \in Sessions, Store(s) \/ Remove(s)
      PROVE  Mapped'
  <2>1. /\ Working(s) /\ on[s] \in Sessions /\ pc[on[s]] \notin {"new", "put"}
    BY <1>7 DEF Store, Remove, Mapped, Working, TypeOK
  <2>2. /\ UNCHANGED map /\ on' = [on EXCEPT ![s] = Nobody]
        /\ \A t \in Sessions : t # on[s] => list'[t] = list[t]
    BY <1>7 DEF Store, Remove, TypeOK
  <2>3. /\ \A t \in Sessions \ {s} : pc'[t] = pc[t]
        /\ pc'[s] \in {"open", "closed", "erred"}
        /\ pc[s] \notin {"new", "put", "closed"}
    BY <1>7 DEF Store, Remove, TypeOK
  <2> QED
    BY <1>1, <2>1, <2>2, <2>3, SessionAssumption DEF Mapped, Working, TypeOK
<1>8. CASE Restart
  BY <1>8, SessionAssumption DEF Restart, Mapped, Working, TypeOK
<1>9. Stream \/ (\E isin \in Isins : Import(isin)) \/ UNCHANGED vars
        => UNCHANGED <<map, list, handlerVars>>
  BY DEF Stream, Round, Broadcast, Send, EndForEach, Throw, Import, vars, handlerVars
<1> QED
  BY <1>2, <1>3, <1>4, <1>5, <1>6, <1>7, <1>8, <1>9 DEF Next, Handler

-----------------------------------------------------------------------------
(* One handler at a time: the lists are exact *)

\* A handler leaves the list of another ISIN alone.
LEMMA ExactElsewhere ==
  ASSUME TypeOK, Mapped, NEW s \in Sessions, HandlerOf(s),
         NEW isin \in Isins, isin # IsinOf[s], Exact(isin)
  PROVE  Exact(isin)'
<1>1. /\ \A t \in Sessions \ {s} : pc'[t] = pc[t] /\ on'[t] = on[t] /\ at'[t] = at[t]
      /\ map'[isin] = map[isin]
      /\ list' = list \/ (Working(s) /\ \A l \in Sessions \ {on[s]} : list'[l] = list[l])
  BY DEF TypeOK, Working, HandlerOf, OnOpen, OnClose, OnError, Leave, Put, Get, Store,
         Remove
<1>2. map[isin] # Nobody => list'[map[isin]] = list[map[isin]]
  <2>1. map[isin] # Nobody => map[isin] \in Sessions /\ IsinOf[map[isin]] = isin
    BY DEF TypeOK, Mapped
  <2>2. Working(s) => IsinOf[on[s]] # isin
    BY DEF Mapped
  <2> QED
    BY <1>1, <2>1, <2>2
<1>3. /\ Members(isin)' = Members(isin)
      /\ \A t \in Sessions : IsinOf[t] = isin => InHandler(t)' = InHandler(t)
  BY <1>1 DEF Members, InHandler
<1>4. ASSUME NEW t \in Sessions, IsinOf[t] = isin
      PROVE  UpToDate(t, list[map[isin]])'
  BY <1>1, <1>2, <1>4 DEF Exact, UpToDate, Working, Mapped
<1> QED
  BY <1>1, <1>2, <1>3, <1>4 DEF Exact, Lists

\* Nothing begins on an ISIN that another handler works on, and which has not
\* been overlapped then.
LEMMA BeginsAlone ==
  ASSUME NEW s \in Sessions, Begins(s), IsinOf[s] \notin overlapped'
  PROVE  \A t \in Sessions : InHandler(t) => IsinOf[t] # IsinOf[s]
  BY DEF Begins

LEMMA ExactOpen ==
  ASSUME TypeOK, Mapped, NEW s \in Sessions, OnOpen(s),
         IsinOf[s] \notin overlapped', Exact(IsinOf[s])
  PROVE  Exact(IsinOf[s])'
<1> DEFINE isin == IsinOf[s]
<1>1. \A t \in Sessions : InHandler(t) => IsinOf[t] # isin
  BY BeginsAlone DEF OnOpen
<1>2. /\ UNCHANGED <<map, list, on, at>>
      /\ pc[s] = "new" /\ \A t \in Sessions \ {s} : pc'[t] = pc[t]
      /\ pc'[s] = IF map[isin] = Nobody THEN "put" ELSE "get"
  BY DEF OnOpen, TypeOK
<1>3. Members(isin)' = Members(isin)
  BY <1>2 DEF Members
<1>4. ASSUME NEW t \in Sessions, IsinOf[t] = isin
      PROVE  /\ InHandler(t)' => t = s
             /\ UpToDate(t, list[map[isin]])'
  BY <1>1, <1>2, <1>4 DEF InHandler, UpToDate, Working
<1> QED
  BY <1>2, <1>3, <1>4 DEF Exact, Lists

LEMMA ExactLeave ==
  ASSUME TypeOK, Mapped, NEW s \in Sessions, OnClose(s) \/ OnError(s),
         IsinOf[s] \notin overlapped', Exact(IsinOf[s])
  PROVE  Exact(IsinOf[s])'
<1> DEFINE isin == IsinOf[s]
           l == map[isin]
           places == {k \in 1 .. list[l].size : list[l].slots[k] = s}
           first == CHOOSE k \in places : \A j \in places : k <= j
<1>1. PICK found \in {"closing", "erring"}, absent \in {"closed", "erred"} :
        Leave(s, found, absent)
  BY DEF OnClose, OnError
<1>2. \A t \in Sessions : InHandler(t) => IsinOf[t] # isin
  BY <1>1, BeginsAlone DEF Leave
<1>3. /\ l \in Sessions /\ l # Nobody /\ list[l] \in List
      /\ Lists(list[l], isin)
  <2>1. l # Nobody /\ isin \in Isins
    BY SessionAssumption DEF OnClose, OnError, Mapped
  <2> QED
    BY <2>1 DEF Exact, TypeOK
<1>4. UNCHANGED <<map, list>> /\ pc[s] \in {"open", "erred"}
  BY <1>1 DEF Leave, OnClose, OnError
<1>5. places = {} <=> pc[s] = "erred"
  BY <1>3, <1>4 DEF Lists, Members
<1>6. CASE places = {}
  <2>1. pc' = [pc EXCEPT ![s] = absent] /\ UNCHANGED <<on, at>>
    BY <1>1, <1>6 DEF Leave
  <2>2. pc[s] = "erred" /\ pc'[s] \in {"closed", "erred"}
    BY <1>5, <1>6, <2>1 DEF TypeOK
  <2>3. \A t \in Sessions \ {s} : pc'[t] = pc[t]
    BY <2>1 DEF TypeOK
  <2>4. Members(isin)' = Members(isin)
    BY <2>2, <2>3 DEF Members
  <2>5. ASSUME NEW t \in Sessions, IsinOf[t] = isin
        PROVE  ~InHandler(t)' /\ UpToDate(t, list[map[isin]])'
    BY <1>2, <2>2, <2>3, <2>5 DEF InHandler, UpToDate, Working
  <2> QED
    BY <1>4, <2>4, <2>5, <1>3 DEF Exact, Lists
<1>7. CASE places # {}
  <2>1. first \in places
    BY <1>3, <1>7, FoundPlace
  <2>2. first \in 1 .. list[l].size /\ list[l].slots[first] = s
    BY <2>1
  <2>3. /\ pc' = [pc EXCEPT ![s] = found]
        /\ on' = [on EXCEPT ![s] = l] /\ at' = [at EXCEPT ![s] = first]
    BY <1>1, <1>7 DEF Leave
  <2> HIDE DEF first
  <2>4. /\ pc[s] = "open" /\ pc'[s] \in {"closing", "erring"}
        /\ on'[s] = l /\ at'[s] = first
        /\ \A t \in Sessions \ {s} : pc'[t] = pc[t]
    BY <1>4, <1>5, <1>7, <2>3 DEF TypeOK
  <2>5. Members(isin)' = Members(isin)
    BY <2>4 DEF Members
  <2>6. ASSUME NEW t \in Sessions, IsinOf[t] = isin
        PROVE  /\ InHandler(t)' => t = s
               /\ UpToDate(t, list[map[isin]])'
    BY <1>2, <1>4, <2>2, <2>4, <2>6 DEF InHandler, UpToDate, Working
  <2> QED
    BY <1>3, <1>4, <2>5, <2>6 DEF Exact, Lists
<1> QED
  BY <1>6, <1>7

\* The handler that is there is the only one of its ISIN.
LEMMA HandlerAlone ==
  ASSUME NEW s \in Sessions, InHandler(s), Exact(IsinOf[s])
  PROVE  \A t \in Sessions \ {s} : IsinOf[t] = IsinOf[s] => ~InHandler(t)
  BY DEF Exact

LEMMA ExactPut ==
  ASSUME TypeOK, Mapped, NEW s \in Sessions, Put(s), Exact(IsinOf[s])
  PROVE  Exact(IsinOf[s])'
<1> DEFINE isin == IsinOf[s]
<1>1. \A t \in Sessions \ {s} : IsinOf[t] = isin => ~InHandler(t)
  BY HandlerAlone DEF Put, InHandler
<1>2. isin \in Isins /\ map[isin] = Nobody /\ list[s] = EmptyList
  BY SessionAssumption DEF Put, Exact, UpToDate, Mapped
<1>3. /\ map'[isin] = s /\ UNCHANGED <<list, on, at>>
      /\ pc[s] = "put" /\ pc'[s] = "get"
      /\ \A t \in Sessions \ {s} : pc'[t] = pc[t]
  BY <1>2 DEF Put, TypeOK
<1>4. Members(isin)' = {}
  BY <1>2, <1>3 DEF Members, Mapped
<1>5. Lists(EmptyList, isin)'
  BY <1>4 DEF Lists, EmptyList
<1>6. ASSUME NEW t \in Sessions, IsinOf[t] = isin
      PROVE  /\ InHandler(t)' => t = s
             /\ UpToDate(t, list[map[isin]])'
  BY <1>1, <1>3, <1>6 DEF InHandler, UpToDate, Working
<1> QED
  BY <1>2, <1>3, <1>5, <1>6 DEF Exact, Lists

LEMMA ExactGet ==
  ASSUME TypeOK, Mapped, NEW s \in Sessions, Get(s), Exact(IsinOf[s])
  PROVE  Exact(IsinOf[s])'
<1> DEFINE isin == IsinOf[s]
<1>1. \A t \in Sessions \ {s} : IsinOf[t] = isin => ~InHandler(t)
  BY HandlerAlone DEF Get, InHandler
<1>2. /\ UNCHANGED <<map, list>> /\ on'[s] = map[isin]
      /\ at'[s] = list[map[isin]].size + 1
      /\ pc[s] = "get" /\ pc'[s] = "store"
      /\ \A t \in Sessions \ {s} : pc'[t] = pc[t]
  BY DEF Get, TypeOK
<1>3. Members(isin)' = Members(isin)
  BY <1>2 DEF Members
<1>4. ASSUME NEW t \in Sessions, IsinOf[t] = isin
      PROVE  /\ InHandler(t)' => t = s
             /\ UpToDate(t, list[map[isin]])'
  BY <1>1, <1>2, <1>4 DEF InHandler, UpToDate, Working
<1> QED
  BY <1>2, <1>3, <1>4 DEF Exact, Lists

\* A handler that ends leaves nobody in a handler of its ISIN.
LEMMA HandlerEnds ==
  ASSUME TypeOK, Mapped, NEW s \in Sessions, Store(s) \/ Remove(s), Exact(IsinOf[s])
  PROVE  /\ map' = map /\ map[IsinOf[s]] \in Sessions
         /\ on[s] = map[IsinOf[s]]
         /\ Lists(list[on[s]], IsinOf[s])
         /\ \A t \in Sessions \ {s} : pc'[t] = pc[t]
         /\ pc'[s] \in {"open", "closed", "erred"}
         /\ \A t \in Sessions : IsinOf[t] = IsinOf[s] =>
              ~InHandler(t)' /\ UpToDate(t, list[map[IsinOf[t]]])'
<1> DEFINE isin == IsinOf[s]
<1>1. InHandler(s) /\ Working(s)
  BY DEF Store, Remove, InHandler, Working
<1>2. \A t \in Sessions \ {s} : IsinOf[t] = isin => ~InHandler(t)
  BY <1>1, HandlerAlone
<1>3. /\ map' = map /\ \A t \in Sessions \ {s} : pc'[t] = pc[t]
      /\ pc'[s] \in {"open", "closed", "erred"}
  BY DEF Store, Remove, TypeOK
<1>4. on[s] = map[isin] /\ on[s] \in Sessions /\ on[s] # Nobody
  BY <1>1, SessionAssumption DEF Exact, UpToDate, Mapped, TypeOK
<1>5. Lists(list[on[s]], isin)
  BY <1>4 DEF Exact
<1>6. ASSUME NEW t \in Sessions, IsinOf[t] = isin
      PROVE  ~InHandler(t)' /\ UpToDate(t, list[map[IsinOf[t]]])'
  BY <1>2, <1>3, <1>6 DEF InHandler, UpToDate, Working
<1> QED
  BY <1>3, <1>4, <1>5, <1>6

LEMMA ExactStore ==
  ASSUME TypeOK, Bounded, Mapped, NEW s \in Sessions, Store(s), Exact(IsinOf[s])
  PROVE  Exact(IsinOf[s])'
<1> DEFINE isin == IsinOf[s]
           l == list[on[s]]
           m == Stored(l, at[s], s)
<1>1. /\ map' = map /\ map[isin] \in Sessions /\ on[s] = map[isin]
      /\ Lists(l, isin)
      /\ \A t \in Sessions \ {s} : pc'[t] = pc[t]
      /\ \A t \in Sessions : IsinOf[t] = isin =>
           ~InHandler(t)' /\ UpToDate(t, list[map[IsinOf[t]]])'
  BY HandlerEnds
<1>2. /\ list'[on[s]] = m
      /\ pc[s] = "store" /\ pc'[s] = "open"
  BY <1>1 DEF Store, TypeOK
<1>3. at[s] = l.size + 1
  BY <1>1, <1>2 DEF Exact, UpToDate
<1>4. l \in List /\ l.size \in Nat /\ at[s] \in Nat /\ at[s] <= Capacity
  <2>1. l \in List /\ l.size \in Int /\ l.size >= 0
    BY <1>1 DEF TypeOK, List, Lists
  <2>2. at[s] <= Cardinality(Added) /\ Cardinality(Added) \in 0 .. Capacity
    BY AddedCount DEF Bounded
  <2> QED
    BY <1>3, <2>1, <2>2, Sizes
<1>5. /\ m.size = at[s] /\ m.slots[at[s]] = s
      /\ \A k \in 1 .. l.size : m.slots[k] = l.slots[k]
  <2>1. \A k \in 1 .. l.size : k \in 1 .. Capacity /\ k # at[s]
    BY <1>3, <1>4, Sizes
  <2> QED
    BY <1>3, <1>4, <2>1, StoredList
<1>6. Members(isin)' = Members(isin) \cup {s} /\ s \notin Members(isin)
  BY <1>1, <1>2 DEF Members
<1> HIDE DEF l, m
<1>7. list[map[isin]]' = m
  BY <1>1, <1>2
<1>8. Lists(list[map[isin]], isin)'
  BY <1>1, <1>3, <1>4, <1>5, <1>6, <1>7 DEF Lists
<1> QED
  BY <1>1, <1>8 DEF Exact

LEMMA ExactRemove ==
  ASSUME TypeOK, Mapped, NEW s \in Sessions, Remove(s), Exact(IsinOf[s])
  PROVE  Exact(IsinOf[s])'
<1> DEFINE isin == IsinOf[s]
           l == list[on[s]]
           i == at[s]
           m == Removed(l, i)
<1>1. /\ map' = map /\ map[isin] \in Sessions /\ on[s] = map[isin]
      /\ Lists(l, isin)
      /\ \A t \in Sessions \ {s} : pc'[t] = pc[t]
      /\ \A t \in Sessions : IsinOf[t] = isin =>
           ~InHandler(t)' /\ UpToDate(t, list[map[IsinOf[t]]])'
  BY HandlerEnds
<1>2. /\ list'[on[s]] = m
      /\ pc[s] \in {"closing", "erring"} /\ pc'[s] \in {"closed", "erred"}
  BY <1>1 DEF Remove, TypeOK
<1>3. i \in 1 .. l.size /\ l.slots[i] = s
  BY <1>1, <1>2 DEF Exact, UpToDate
<1>4. l \in List /\ l.size \in Nat /\ l.size <= Capacity
  <2>1. l \in List /\ l.size \in Int /\ l.size >= 0
    BY <1>1 DEF TypeOK, List, Lists
  <2> QED
    BY <2>1 DEF List
<1>5. /\ m.size = l.size - 1
      /\ \A k \in 1 .. l.size - 1 :
           m.slots[k] = IF k < i THEN l.slots[k] ELSE l.slots[k + 1]
  <2>1. \A k \in 1 .. l.size - 1 : k \in 1 .. Capacity /\ k < l.size
    BY <1>4, Sizes
  <2> QED
    BY <1>3, <1>4, <2>1, RemovedList
<1>6. Members(isin)' = Members(isin) \ {s} /\ s \in Members(isin)
  BY <1>1, <1>2 DEF Members
<1> HIDE DEF l, m, i
<1>7. list[map[isin]]' = m
  BY <1>1, <1>2
<1>8. Lists(list[map[isin]], isin)'
  <2>1. \A k \in 1 .. m.size : \E j \in 1 .. l.size : j # i /\ m.slots[k] = l.slots[j]
    BY <1>3, <1>4, <1>5
  <2>2. \A j \in 1 .. l.size : j # i => \E k \in 1 .. m.size : m.slots[k] = l.slots[j]
    <3>1. ASSUME NEW j \in 1 .. l.size, j # i
          PROVE  \E k \in 1 .. m.size : m.slots[k] = l.slots[j]
      <4>1. CASE j < i
        BY <1>3, <1>4, <1>5, <4>1
      <4>2. CASE j > i
        <5>1. j - 1 \in 1 .. m.size /\ ~(j - 1 < i) /\ (j - 1) + 1 = j
          BY <1>3, <1>4, <1>5, <4>2
        <5> QED
          BY <1>5, <5>1
      <4> QED
        BY <1>3, <1>4, <3>1, <4>1, <4>2
    <3> QED
      BY <3>1
  <2>3. \A j, k \in 1 .. m.size : m.slots[j] = m.slots[k] => j = k
    BY <1>1, <1>3, <1>4, <1>5 DEF Lists
  <2> QED
    BY <1>1, <1>3, <1>4, <1>5, <1>6, <1>7, <2>1, <2>2, <2>3 DEF Lists
<1> QED
  BY <1>1, <1>8 DEF Exact

LEMMA ExactNext ==
  TypeOK /\ Bounded /\ Mapped /\ ExactLists /\ [Next]_vars => ExactLists'
<1> SUFFICES ASSUME TypeOK, Bounded, Mapped, ExactLists, [Next]_vars,
                    NEW isin \in Isins \ overlapped'
             PROVE  Exact(isin)'
  BY DEF ExactLists
<1>1. ASSUME NEW s \in Sessions, HandlerOf(s)
      PROVE  Exact(isin)'
  <2>1. Exact(isin)
    BY <1>1 DEF HandlerOf, OnOpen, OnClose, OnError, Leave, Put, Get, Store, Remove,
                Begins, ExactLists
  <2> QED
    BY <1>1, <2>1, ExactElsewhere, ExactOpen, ExactLeave, ExactPut, ExactGet, ExactStore,
       ExactRemove DEF HandlerOf
<1>2. CASE UNCHANGED <<map, list, handlerVars, overlapped>>
  BY <1>2 DEF ExactLists, Exact, Lists, Members, UpToDate, InHandler, Working, handlerVars
<1>3. CASE Restart
  <2>1. map'[isin] = Nobody
    BY <1>3 DEF Restart
  <2>2. \A s \in Sessions : pc'[s] \in {"new", "closed"}
    BY <1>3 DEF Restart
  <2> QED
    BY <2>1, <2>2 DEF Exact, UpToDate, InHandler, Working
<1>4. Stream \/ (\E i \in Isins : Import(i)) \/ UNCHANGED vars
        => UNCHANGED <<map, list, handlerVars, overlapped>>
  BY DEF Stream, Round, Broadcast, Send, EndForEach, Throw, Import, vars, handlerVars
<1> QED
  BY <1>1, <1>2, <1>3, <1>4 DEF Next, Handler, HandlerOf

-----------------------------------------------------------------------------
(* Broadcasts *)

\* A handler that does not touch the list of a broadcast leaves its places
\* alone.
LEMMA UndisturbedHandler ==
  ASSUME TypeOK, Bounded, Mapped, ExactLists, NEW s \in Sessions, HandlerOf(s),
         iter.list # Nobody, IsinOf[iter.list] \notin overlapped',
         Undisturbed, ~iter'.changed
  PROVE  Undisturbed'
<1> DEFINE i == iter.list
           isin == IsinOf[i]
<1>1. i \in Sessions /\ isin \in Isins /\ map[isin] = i /\ ~iter.changed
  <2>1. i \in Sessions
    BY DEF TypeOK, Iteration
  <2>2. iter.changed => iter'.changed
    BY DEF TypeOK, Iteration, HandlerOf, OnOpen, OnClose, OnError, Leave, Put, Get,
           Store, Remove, Touched, streamVars
  <2> QED
    BY <2>1, <2>2, SessionAssumption DEF Undisturbed
<1>2. /\ priced' = priced /\ iter'.list = i /\ iter'.size = iter.size
      /\ iter'.next = iter.next /\ iter'.audience = iter.audience
  BY DEF TypeOK, Iteration, HandlerOf, OnOpen, OnClose, OnError, Leave, Put, Get, Store,
         Remove, Touched, streamVars
<1>3. Exact(isin)
  BY <1>1 DEF HandlerOf, OnOpen, OnClose, OnError, Leave, Put, Get, Store, Remove, Begins,
              ExactLists
<1>4. ASSUME map'[isin] = i, list'[i] = list[i]
      PROVE  Undisturbed'
  BY <1>1, <1>2, <1>4 DEF Undisturbed
<1>5. CASE OnOpen(s) \/ OnClose(s) \/ OnError(s)
  BY <1>1, <1>4, <1>5 DEF OnOpen, OnClose, OnError, Leave
<1>6. CASE Put(s)
  <2>1. IsinOf[s] # isin
    BY <1>1, <1>3, <1>6 DEF Put, Exact, UpToDate
  <2> QED
    BY <1>1, <1>4, <1>6, <2>1 DEF Put, TypeOK
<1>7. CASE Get(s)
  BY <1>1, <1>4, <1>7 DEF Get
<1>8. CASE Remove(s)
  <2>1. Touched(on[s]) /\ map' = map /\ list' = [list EXCEPT ![on[s]] = Removed(@, at[s])]
    BY <1>8 DEF Remove
  <2>2. on[s] # i
    BY <1>1, <2>1 DEF Touched, TypeOK, Iteration
  <2> QED
    BY <1>1, <1>4, <2>1, <2>2 DEF TypeOK
<1>9. CASE Store(s)
  <2>1. map' = map /\ list' = [list EXCEPT ![on[s]] = Stored(@, at[s], s)]
    BY <1>9 DEF Store
  <2>2. CASE on[s] # i
    BY <1>1, <1>4, <2>1, <2>2 DEF TypeOK
  <2>3. CASE on[s] = i
    <3> DEFINE l == list[i]
               m == Stored(l, at[s], s)
    <3>1. IsinOf[s] = isin
      BY <1>1, <2>3, SessionAssumption DEF Mapped
    <3>2. /\ Lists(l, isin) /\ at[s] = l.size + 1
          /\ l \in List /\ l.size \in Nat
      BY <1>1, <1>3, <1>9, <3>1, SessionAssumption
         DEF Store, Exact, UpToDate, Lists, TypeOK, List
    <3>3. list'[i] = m
      BY <1>1, <2>1, <2>3 DEF TypeOK
    <3>4. at[s] <= Capacity
      <4>1. at[s] <= Cardinality(Added) /\ Cardinality(Added) \in 0 .. Capacity
        BY AddedCount DEF Bounded
      <4> QED
        BY <3>2, <4>1, Sizes
    <3>5. m.size = l.size + 1 /\ \A k \in 1 .. l.size : m.slots[k] = l.slots[k]
      <4>1. \A k \in 1 .. l.size : k \in 1 .. Capacity /\ k # at[s]
        BY <3>2, <3>4, Sizes
      <4> QED
        BY <3>2, <3>4, <4>1, StoredList
    <3>6. iter.size \in Int /\ iter.next \in Nat
      BY DEF TypeOK, Iteration
    <3>7. list[iter.list]' = m /\ map[IsinOf[iter.list]]' = i
      BY <1>1, <1>2, <2>1, <3>3
    <3> HIDE DEF m
    <3> QED
      BY <1>1, <1>2, <3>2, <3>5, <3>6, <3>7 DEF Undisturbed
  <2> QED
    BY <2>2, <2>3
<1> QED
  BY <1>5, <1>6, <1>7, <1>8, <1>9 DEF HandlerOf

\* The beginning of a broadcast: everybody in its audience has a place.
LEMMA BroadcastBegins ==
  ASSUME TypeOK, Mapped, ExactLists, NEW isin \in Isins, Broadcast(isin)
  PROVE  Broadcasting'
<1> DEFINE l == map[isin]
           open == {s \in Sessions : pc[s] = "open" /\ IsinOf[s] = isin}
           i == [list |-> l, size |-> list[l].size, next |-> 1, changed |-> FALSE,
                 audience |-> open]
<1>1. /\ iter' = IF l = Nobody THEN NoIteration ELSE i
      /\ UNCHANGED <<map, list, pc, priced, overlapped, collided>>
  BY DEF Broadcast, handlerVars
<1>2. CASE l = Nobody
  BY <1>1, <1>2 DEF Broadcasting, NoIteration
<1>3. CASE l # Nobody
  <2>1. l \in Sessions /\ IsinOf[l] = isin
    BY <1>3 DEF TypeOK, Mapped
  <2>2. iter' = i
    BY <1>1, <1>3
  <2>3. isin \notin overlapped => Undisturbed'
    <3>1. SUFFICES ASSUME isin \notin overlapped PROVE Undisturbed'
      OBVIOUS
    <3>2. Lists(list[l], isin) /\ list[l].size \in Int /\ list[l].size >= 0
      BY <1>3, <2>1, <3>1 DEF ExactLists, Exact, Lists, TypeOK, List
    <3>3. open \subseteq Members(isin)
      BY DEF Members
    <3>4. \A s \in open : \E k \in 1 .. list[l].size : list[l].slots[k] = s
      BY <3>2, <3>3 DEF Lists
    <3>5. /\ iter'.list = l /\ iter'.size = list[l].size /\ iter'.next = 1
          /\ iter'.audience = open
      BY <2>2
    <3> HIDE DEF open, l, i
    <3> QED
      BY <1>1, <2>1, <3>2, <3>4, <3>5 DEF Undisturbed, l
  <2> QED
    BY <1>1, <2>1, <2>2, <2>3 DEF Broadcasting
<1> QED
  BY <1>2, <1>3

LEMMA BroadcastingNext ==
  TypeOK /\ Bounded /\ Mapped /\ ExactLists /\ Broadcasting /\ [Next]_vars
    => Broadcasting'
<1> SUFFICES ASSUME TypeOK, Bounded, Mapped, ExactLists, Broadcasting, [Next]_vars
             PROVE  Broadcasting'
  OBVIOUS
<1>1. ASSUME NEW s \in Sessions, HandlerOf(s)
      PROVE  Broadcasting'
  <2>1. /\ iter'.list = iter.list /\ iter'.audience = iter.audience
        /\ iter'.changed => collided'
        /\ iter.changed => iter'.changed
        /\ overlapped \subseteq overlapped'
    BY <1>1 DEF TypeOK, Iteration, HandlerOf, OnOpen, OnClose, OnError, Leave, Put, Get,
                Store, Remove, Touched, Begins, streamVars, Broadcasting
  <2> QED
    BY <1>1, <2>1, UndisturbedHandler DEF Broadcasting
<1>2. ASSUME NEW isin \in Isins, Broadcast(isin)
      PROVE  Broadcasting'
  BY <1>2, BroadcastBegins
<1>3. CASE Round \/ EndForEach \/ Restart
  <2>1. iter' = NoIteration
    BY <1>3 DEF Round, EndForEach, Restart
  <2> QED
    BY <2>1 DEF Broadcasting, NoIteration
<1>4. CASE Send
  <2>1. /\ iter'.list = iter.list /\ iter'.size = iter.size
        /\ iter'.next = iter.next + 1 /\ iter'.changed = iter.changed
        /\ iter'.audience = iter.audience
        /\ iter.next \in Nat \ {0} /\ iter.size \in Int /\ iter.next <= iter.size
    BY <1>4 DEF Send, More, TypeOK, Iteration
  <2>2. /\ priced' = priced \cup {list[iter.list].slots[iter.next]}
        /\ UNCHANGED <<map, list, overlapped, collided>>
    BY <1>4 DEF Send, Element
  <2>3. Undisturbed => Undisturbed'
    BY <2>1, <2>2 DEF Undisturbed
  <2> QED
    BY <2>1, <2>2, <2>3 DEF Broadcasting
<1>5. CASE UNCHANGED <<map, list, iter, priced, overlapped, collided>>
  BY <1>5 DEF Broadcasting, Undisturbed
<1>6. Throw \/ (\E isin \in Isins : Import(isin)) \/ UNCHANGED vars
        => UNCHANGED <<map, list, iter, priced, overlapped, collided>>
  BY DEF Throw, Import, vars, streamVars
<1> QED
  BY <1>1, <1>2, <1>3, <1>4, <1>5, <1>6 DEF Next, Handler, HandlerOf, Stream

\* The feed is not ended by an empty place of an exact list.
LEMMA EndsNext ==
  TypeOK /\ Mapped /\ ExactLists /\ Broadcasting /\ EndsByCollision /\ [Next]_vars
    => EndsByCollision'
<1> SUFFICES ASSUME TypeOK, Mapped, ExactLists, Broadcasting, EndsByCollision, [Next]_vars
             PROVE  EndsByCollision'
  OBVIOUS
<1>1. CASE Throw
  <2>1. UNCHANGED <<overlapped, collided>>
    BY <1>1 DEF Throw
  <2>2. CASE iter.changed
    BY <2>1, <2>2 DEF Broadcasting, EndsByCollision
  <2>3. CASE More /\ Element = Nobody /\ ~iter.changed
    <3> DEFINE isin == IsinOf[iter.list]
    <3>1. iter.list \in Sessions /\ iter.list # Nobody /\ isin \in Isins
      BY <1>1, SessionAssumption DEF Throw, TypeOK, Iteration
    <3>2. CASE isin \notin overlapped
      <4>1. Undisturbed /\ Exact(isin)
        BY <2>3, <3>1, <3>2 DEF Broadcasting, ExactLists
      <4>2. Lists(list[iter.list], isin)
        BY <3>1, <4>1 DEF Undisturbed, Exact
      <4>3. iter.next \in 1 .. list[iter.list].size
        BY <2>3, <3>1, <4>1 DEF More, Undisturbed, TypeOK, Iteration, List
      <4>4. Element \in Sessions
        BY <4>2, <4>3 DEF Element, Lists, Members
      <4> QED
        BY <2>3, <4>4, SessionAssumption
    <3> QED
      BY <2>1, <3>1, <3>2 DEF EndsByCollision
  <2> QED
    BY <1>1, <2>2, <2>3 DEF Throw
<1>2. CASE Restart
  BY <1>2 DEF Restart, EndsByCollision
<1>3. CASE running' = running /\ (running \/ UNCHANGED <<overlapped, collided>>)
  BY <1>3 DEF EndsByCollision
<1>4. \/ Round \/ (\E isin \in Isins : Broadcast(isin)) \/ Send \/ EndForEach
      \/ (\E isin \in Isins : Import(isin)) \/ UNCHANGED vars
      \/ (\E s \in Sessions : HandlerOf(s))
      => running' = running /\ (running \/ UNCHANGED <<overlapped, collided>>)
  BY DEF Round, Broadcast, Send, EndForEach, Import, vars, HandlerOf, OnOpen, OnClose,
         OnError, Leave, Put, Get, Store, Remove
<1> QED
  BY <1>1, <1>2, <1>3, <1>4 DEF Next, Handler, HandlerOf, Stream

-----------------------------------------------------------------------------
(* Theorems *)

LEMMA InitInv == Init => FInv
<1> SUFFICES ASSUME Init PROVE FInv
  OBVIOUS
<1>1. TypeOK
  <2>1. /\ map \in [Isins -> Sessions \cup {Nobody}]
        /\ list \in [Sessions -> List]
        /\ pc \in [Sessions -> Stages]
        /\ on \in [Sessions -> Sessions \cup {Nobody}]
        /\ at \in [Sessions -> Int]
        /\ iter \in Iteration
    BY Sizes DEF Init, Stages
  <2>2. /\ bonds \in SUBSET Isins /\ running \in BOOLEAN
        /\ isins \in SUBSET Isins /\ todo \in SUBSET Isins
        /\ priced \in SUBSET Sessions /\ overlapped \in SUBSET Isins
        /\ collided \in BOOLEAN
    BY SessionAssumption DEF Init
  <2> QED
    BY <2>1, <2>2 DEF TypeOK
<1>2. Bounded
  <2>1. Cardinality(Added) \in Nat
    BY <1>1, AddedCount
  <2> QED
    BY <2>1 DEF Init, Bounded, EmptyList, NoIteration
<1>3. Mapped
  BY SessionAssumption DEF Init, Mapped, Working
<1>4. ExactLists
  BY SessionAssumption DEF Init, ExactLists, Exact, InHandler, UpToDate, Working
<1>5. Broadcasting /\ EndsByCollision
  BY DEF Init, Broadcasting, NoIteration, EndsByCollision
<1> QED
  BY <1>1, <1>2, <1>3, <1>4, <1>5 DEF FInv

LEMMA InvNext == FInv /\ [Next]_vars => FInv'
  BY NextType, MappedNext, ExactNext, BroadcastingNext, EndsNext DEF FInv

LEMMA Invariant == Spec => []FInv
  BY InitInv, InvNext, PTL DEF Spec

\* A list without repetitions is as long as the set of its sessions.
LEMMA ListLength ==
  ASSUME NEW l \in List, l.size >= 0,
         \A j, k \in 1 .. l.size : l.slots[j] = l.slots[k] => j = k
  PROVE  l.size = Cardinality({l.slots[k] : k \in 1 .. l.size})
<1> DEFINE n == l.size
           T == {l.slots[k] : k \in 1 .. n}
           f == [k \in 1 .. n |-> l.slots[k]]
<1>1. n \in Nat
  BY DEF List
<1>2. IsFiniteSet(1 .. n) /\ Cardinality(1 .. n) = n
  <2> HIDE DEF n
  <2> QED
    BY <1>1, FS_Interval
<1>3. f \in Surjection(1 .. n, T)
  BY DEF Surjection
<1>4. f \in Injection(1 .. n, T)
  BY DEF Injection, IsInjective
<1> HIDE DEF f, T, n
<1>5. Cardinality(T) = n
  BY <1>2, <1>3, <1>4, FS_Surjection
<1> QED
  BY <1>5 DEF T, n

\* Every reachable state of lists, handlers and broadcasts is type correct, for
\* any number of sessions and ISINs: no list ever gets longer than the number
\* of sessions, whatever threads overlap.
THEOREM TypeCorrect == Spec => []TypeOK
  BY Invariant, PTL DEF FInv

\* Where handlers have not overlapped, a list has exactly the open sessions of
\* its ISIN, whatever happens on other ISINs and to the broadcasts.
THEOREM ListsExact == Spec => []ListsAreExact
<1>1. FInv => ListsAreExact
  <2> SUFFICES ASSUME FInv, NEW isin \in Isins \ overlapped,
                      \A s \in Sessions : InHandler(s) => IsinOf[s] # isin
               PROVE  /\ Listed(isin) = {s \in Sessions : pc[s] = "open" /\ IsinOf[s] = isin}
                      /\ map[isin] # Nobody =>
                           list[map[isin]].size = Cardinality(Listed(isin))
    BY DEF ListsAreExact
  <2>1. Members(isin) = {s \in Sessions : pc[s] = "open" /\ IsinOf[s] = isin}
    BY DEF Members, InHandler
  <2>2. CASE map[isin] = Nobody
    <3>1. Members(isin) = {}
      BY <2>2 DEF FInv, Mapped, Members
    <3> QED
      BY <2>1, <2>2, <3>1 DEF Listed
  <2>3. CASE map[isin] # Nobody
    <3> DEFINE l == list[map[isin]]
    <3>1. Lists(l, isin) /\ l \in List
      BY <2>3 DEF FInv, ExactLists, Exact, TypeOK
    <3>2. Listed(isin) = {l.slots[k] : k \in 1 .. l.size}
      BY <2>3 DEF Listed
    <3> HIDE DEF l
    <3>3. Listed(isin) = Members(isin)
      BY <3>1, <3>2 DEF Lists
    <3>4. l.size = Cardinality(Listed(isin))
      BY <3>1, <3>2, ListLength DEF Lists
    <3> QED
      BY <2>1, <3>3, <3>4 DEF l
  <2> QED
    BY <2>2, <2>3
<1> QED
  BY <1>1, Invariant, PTL

\* The process ends only because a handler changed a list during the broadcast
\* to it, or has overlapped with another on one ISIN.
THEOREM EndsOnlyByCollision == Spec => []EndsByCollision
  BY Invariant, PTL DEF FInv

\* A broadcast that comes to its end has sent to everybody who was open when it
\* began, unless handlers of that ISIN have overlapped.
THEOREM BroadcastsReachAll == Spec => BroadcastReachesAll
<1>1. FInv /\ [Next]_vars =>
        [EndForEach =>
           \A s \in iter.audience : s \in priced \/ IsinOf[s] \in overlapped]_vars
  <2> SUFFICES ASSUME FInv, EndForEach, NEW s \in iter.audience,
                      IsinOf[s] \notin overlapped
               PROVE  s \in priced
    OBVIOUS
  <2>1. iter.list # Nobody /\ ~iter.changed /\ ~(iter.next <= iter.size)
    BY DEF EndForEach, More
  <2>2. IsinOf[iter.list] = IsinOf[s]
    BY DEF FInv, Broadcasting
  <2>3. Undisturbed
    BY <2>1, <2>2 DEF FInv, Broadcasting
  <2>4. PICK k \in 1 .. iter.size : list[iter.list].slots[k] = s
    BY <2>3 DEF Undisturbed
  <2>5. k \in 1 .. iter.next - 1
    BY <2>1, <2>4 DEF FInv, TypeOK, Iteration
  <2> QED
    BY <2>3, <2>4, <2>5 DEF Undisturbed
<1> QED
  BY <1>1, Invariant, PTL DEF Spec, BroadcastReachesAll

=============================================================================
