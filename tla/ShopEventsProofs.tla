-------------------------- MODULE ShopEventsProofs -------------------------
(***************************************************************************)
(* Proofs about ShopEvents for any products, aggregates, partitions,       *)
(* attempts, calls and failures.                                           *)
(***************************************************************************)
EXTENDS ShopEvents, SequenceTheorems, TLAPS

Types == {"CREATE", "DELETE"}

Event == [type : Types, key : Int, id : Nat]

LetterType == [topic : Topics, event : Event]

TypeOK ==
  /\ calls \in Seq([type : Types, product : Int])
  /\ unsent \in Seq(Seq(LetterType)) /\ Len(unsent) = Len(calls)
  /\ queue \in [Topics -> [Partitions -> Seq(Event)]]
  /\ attempts \in [Topics -> [Partitions -> Nat]]
  /\ handled \in [Topics -> [Partitions -> BOOLEAN]]
  /\ db \in [Topics -> SUBSET [product : Int, id : Nat]]
  /\ deadLetters \in [Topics -> SUBSET Event]
  /\ faults \in Nat
  /\ sent \in [Topics -> Seq(Event)]
  /\ spoiled \in SUBSET Int /\ cut \in SUBSET Int /\ crossed \in SUBSET Int

\* What the first n events of s leave of a product.
Created(s, product, k) == s[k].type = "CREATE" /\ s[k].key = product
Removes(s, product, k) == s[k].type = "DELETE" /\ s[k].key = product

Final(s, product, n) ==
  {Entity(s[k]) : k \in {i \in 1 .. n :
     Created(s, product, i) /\ \A l \in i + 1 .. n : ~Removes(s, product, l)}}

InPartition(s, p, k) == PartitionOf(s[k]) = p

\* Queue q of partition p holds the last events of the partition in s, those
\* at the places m.
Placed(s, q, p, m) ==
  /\ m \in [1 .. Len(q) -> 1 .. Len(s)]
  /\ \A i \in 1 .. Len(q) : q[i] = s[m[i]] /\ InPartition(s, p, m[i])
  /\ \A i, j \in 1 .. Len(q) : i < j => m[i] < m[j]
  /\ \A k \in 1 .. Len(s) :
       InPartition(s, p, k) => \/ \E i \in 1 .. Len(q) : k = m[i]
                               \/ \A i \in 1 .. Len(q) : k < m[i]

\* The entities are those after the events that were acknowledged, or those
\* after the one in front, or on the way from the former to the latter.
Between(entities, before, after) ==
  before \cap after \subseteq entities /\ entities \subseteq before \cup after

Keeps(s, q, done, entities, m, product) ==
  IF q = <<>> THEN entities = Final(s, product, Len(s))
  ELSE /\ Between(entities, Final(s, product, m[1] - 1), Final(s, product, m[1]))
       /\ done => entities = Final(s, product, m[1])

Stores(t, p, m, product) ==
  Keeps(sent[t], queue[t][p], handled[t][p], EntitiesOf(t, product), m, product)

Consistent(t, p, m) ==
  /\ Placed(sent[t], queue[t][p], p, m)
  /\ \A product \in Int \ spoiled :
       product >= 1 /\ product % PartitionCount = p => Stores(t, p, m, product)

\* What is handled is the event in front.
HandledWaits ==
  \A t \in Topics, p \in Partitions : handled[t][p] => queue[t][p] # <<>>

Stored ==
  \A t \in Topics, p \in Partitions :
    \E m \in [1 .. Len(queue[t][p]) -> 1 .. Len(sent[t])] : Consistent(t, p, m)

Sends(c, t) == \E i \in 1 .. Len(unsent[c]) : unsent[c][i].topic = t

\* What a call has still to send is its own, the product first; a call that
\* has not deleted the product has deleted nothing else.
Letters ==
  \A c \in 1 .. Len(calls) :
    /\ \A i \in 1 .. Len(unsent[c]) : /\ unsent[c][i].event.key = calls[c].product
                                      /\ unsent[c][i].event.type = calls[c].type
    /\ \A i \in 2 .. Len(unsent[c]) : unsent[c][i].topic # "products"
    /\ calls[c].type = "DELETE" /\ Sends(c, "products") =>
         \A t \in Topics : Sends(c, t)

Active(c, type, product) ==
  /\ unsent[c] # <<>>
  /\ calls[c].type = type /\ calls[c].product = product

Left(t, product) == Final(sent[t], product, Len(sent[t]))

\* Events of a product that are sent apart from each other: a part is left
\* only of a product that is, or while a call has still to delete it.
Apart(product) ==
  /\ \A c, d \in 1 .. Len(calls) :
       ~(Active(c, "CREATE", product) /\ Active(d, "DELETE", product))
  /\ \A c \in 1 .. Len(calls) :
       Active(c, "CREATE", product) /\ ~Sends(c, "products")
         => Left("products", product) # {}
  /\ \A t \in Topics :
       Left(t, product) # {} =>
         \/ Left("products", product) # {}
         \/ \E c \in 1 .. Len(calls) : Active(c, "DELETE", product) /\ Sends(c, t)

Ordered == \A product \in Int \ (cut \cup crossed) : Apart(product)

ValidOnly == \A t \in Topics : \A x \in db[t] : x.product >= 1

SInv == TypeOK /\ HandledWaits /\ Stored /\ Letters /\ Ordered /\ ValidOnly

-----------------------------------------------------------------------------
(* Types *)

\* What a call has to send at first.
CallLetters(letters, type, product) ==
  /\ letters \in Seq(LetterType) /\ Len(letters) >= 1
  /\ \A i \in 1 .. Len(letters) : /\ letters[i].event.key = product
                                  /\ letters[i].event.type = type
                                  /\ i >= 2 => letters[i].topic # "products"
  /\ type = "CREATE" => letters[1].topic = "products"
  /\ type = "DELETE" =>
       \A t \in Topics : \E i \in 1 .. Len(letters) : letters[i].topic = t

LEMMA CreateLetters ==
  ASSUME NEW body \in Aggregates
  PROVE  CallLetters(CreateEvents(body), "CREATE", body.productId)
<1> DEFINE product == body.productId
           Parts(topic, ids) ==
             [i \in DOMAIN ids |-> Letter(topic, "CREATE", product, ids[i])]
           first == <<Letter("products", "CREATE", product, 0)>>
           second == Parts("recommendations", body.recommendations)
           third == Parts("reviews", body.reviews)
           OfBody(letter) == /\ letter \in LetterType
                             /\ letter.event.key = product
                             /\ letter.event.type = "CREATE"
<1>1. /\ product \in Int
      /\ body.recommendations \in Seq(Nat) /\ body.reviews \in Seq(Nat)
  BY AggregateAssumption
<1>2. /\ first \in Seq(LetterType) /\ Len(first) = 1
      /\ OfBody(first[1]) /\ first[1].topic = "products"
  BY <1>1 DEF Letter, LetterType, Topics, Event, Types
<1>3. ASSUME NEW topic \in {"recommendations", "reviews"}, NEW ids \in Seq(Nat)
      PROVE  /\ Parts(topic, ids) \in Seq(LetterType)
             /\ \A i \in 1 .. Len(Parts(topic, ids)) :
                  OfBody(Parts(topic, ids)[i]) /\ Parts(topic, ids)[i].topic # "products"
  <2>1. \A i \in 1 .. Len(ids) : ids[i] \in Nat
    OBVIOUS
  <2>2. \A i \in DOMAIN ids :
          /\ Letter(topic, "CREATE", product, ids[i]) \in LetterType
          /\ OfBody(Letter(topic, "CREATE", product, ids[i]))
          /\ Letter(topic, "CREATE", product, ids[i]).topic # "products"
    BY <1>1, <2>1 DEF Letter, LetterType, Topics, Event, Types
  <2>3. DOMAIN ids = 1 .. Len(ids) /\ Len(ids) \in Nat
    OBVIOUS
  <2> HIDE DEF OfBody
  <2>4. Parts(topic, ids) \in Seq(LetterType) /\ Len(Parts(topic, ids)) = Len(ids)
    BY <2>2, <2>3
  <2> QED
    BY <2>2, <2>3, <2>4
<1>4. /\ second \in Seq(LetterType) /\ third \in Seq(LetterType)
      /\ \A i \in 1 .. Len(second) : OfBody(second[i]) /\ second[i].topic # "products"
      /\ \A i \in 1 .. Len(third) : OfBody(third[i]) /\ third[i].topic # "products"
  BY <1>1, <1>3
<1>5. CreateEvents(body) = first \o second \o third
  BY DEF CreateEvents
<1> HIDE DEF first, second, third, OfBody
<1>6. /\ first \o second \in Seq(LetterType)
      /\ Len(first \o second) = 1 + Len(second)
      /\ \A i \in 1 .. Len(first \o second) :
           (first \o second)[i] = IF i <= 1 THEN first[i] ELSE second[i - 1]
  <2>1. /\ first \o second \in Seq(LetterType)
        /\ Len(first \o second) = Len(first) + Len(second)
        /\ \A i \in 1 .. Len(first) + Len(second) :
             (first \o second)[i] =
               IF i <= Len(first) THEN first[i] ELSE second[i - Len(first)]
    BY <1>2, <1>4, ConcatProperties
  <2> QED
    BY <1>2, <2>1
<1> DEFINE both == first \o second
<1> HIDE DEF both
<1>7. /\ both \in Seq(LetterType) /\ Len(both) >= 1 /\ both[1] = first[1]
      /\ \A i \in 1 .. Len(both) : OfBody(both[i]) /\ (i >= 2 => both[i].topic # "products")
  BY <1>2, <1>4, <1>6 DEF both
<1>8. /\ both \o third \in Seq(LetterType)
      /\ Len(both \o third) = Len(both) + Len(third)
      /\ \A i \in 1 .. Len(both \o third) :
           (both \o third)[i] = IF i <= Len(both) THEN both[i] ELSE third[i - Len(both)]
  BY <1>4, <1>7
<1>9. \A i \in 1 .. Len(both \o third) :
         /\ OfBody((both \o third)[i])
         /\ i >= 2 => (both \o third)[i].topic # "products"
  BY <1>4, <1>7, <1>8
<1>10. Len(both \o third) >= 1 /\ (both \o third)[1] = first[1]
  BY <1>4, <1>7, <1>8
<1> QED
  BY <1>2, <1>5, <1>8, <1>9, <1>10 DEF OfBody, both, CallLetters

LEMMA DeleteLetters ==
  ASSUME NEW product \in Int
  PROVE  CallLetters(DeleteEvents(product), "DELETE", product)
<1> DEFINE L(t) == Letter(t, "DELETE", product, 0)
<1>1. /\ DeleteEvents(product) = <<L("products"), L("recommendations"), L("reviews")>>
      /\ \A t \in Topics : /\ L(t) \in LetterType /\ L(t).event.key = product
                           /\ L(t).event.type = "DELETE" /\ L(t).topic = t
  BY DEF DeleteEvents, Letter, LetterType, Event, Types
<1> HIDE DEF L
<1>2. /\ DeleteEvents(product)[1] = L("products")
      /\ DeleteEvents(product)[2] = L("recommendations")
      /\ DeleteEvents(product)[3] = L("reviews")
      /\ Len(DeleteEvents(product)) = 3
      /\ DeleteEvents(product) \in Seq(LetterType)
  BY <1>1 DEF Topics
<1>3. \A t \in Topics : \E i \in 1 .. 3 : DeleteEvents(product)[i].topic = t
  BY <1>1, <1>2 DEF Topics
<1>4. \A i \in 1 .. 3 : \E t \in Topics : DeleteEvents(product)[i] = L(t)
                                        /\ (i >= 2 => t # "products")
  BY <1>2 DEF Topics
<1> QED
  BY <1>1, <1>2, <1>3, <1>4 DEF CallLetters

LEMMA CallsNext ==
  ASSUME CreateCompositeProduct \/ DeleteCompositeProduct
  PROVE  \E type \in Types, product \in Int : \E letters :
           Call(type, product, letters) /\ CallLetters(letters, type, product)
<1>1. ASSUME NEW body \in Aggregates,
             Call("CREATE", body.productId, CreateEvents(body))
      PROVE  \E type \in Types, product \in Int : \E letters :
               Call(type, product, letters) /\ CallLetters(letters, type, product)
  BY <1>1, CreateLetters, AggregateAssumption DEF Types
<1>2. ASSUME NEW p \in Products, Call("DELETE", p, DeleteEvents(p))
      PROVE  \E type \in Types, product \in Int : \E letters :
               Call(type, product, letters) /\ CallLetters(letters, type, product)
  BY <1>2, DeleteLetters, AggregateAssumption DEF Types
<1> QED
  BY <1>1, <1>2 DEF CreateCompositeProduct, DeleteCompositeProduct

LEMMA Partition ==
  /\ PartitionCount \in Nat \ {0}
  /\ \A product \in Int : product % PartitionCount \in Partitions
<1>1. PartitionCount \in Nat \ {0}
  BY CountAssumption
<1> QED
  BY <1>1 DEF Partitions

\* The event that is sent next.
LEMMA NextLetter ==
  ASSUME TypeOK, NEW c \in 1 .. Len(calls), unsent[c] # <<>>
  PROVE  /\ unsent[c] \in Seq(LetterType) /\ Len(unsent[c]) >= 1
         /\ Head(unsent[c]) = unsent[c][1] /\ Head(unsent[c]) \in LetterType
         /\ Tail(unsent[c]) \in Seq(LetterType)
         /\ Len(Tail(unsent[c])) = Len(unsent[c]) - 1
         /\ \A i \in 1 .. Len(unsent[c]) - 1 : Tail(unsent[c])[i] = unsent[c][i + 1]
         /\ PartitionOf(Head(unsent[c]).event) \in Partitions
<1>1. unsent[c] \in Seq(LetterType)
  BY DEF TypeOK
<1>2. Head(unsent[c]) \in LetterType
  BY <1>1
<1>3. PartitionOf(Head(unsent[c]).event) \in Partitions
  BY <1>2, Partition DEF LetterType, Event, PartitionOf
<1> QED
  BY <1>1, <1>2, <1>3, HeadTailProperties

LEMMA CallType ==
  ASSUME TypeOK, NEW type \in Types, NEW product \in Int, NEW letters,
         CallLetters(letters, type, product), Call(type, product, letters)
  PROVE  TypeOK'
  BY DEF TypeOK, CallLetters, Call, consumer

LEMMA SendType ==
  ASSUME TypeOK, NEW c \in 1 .. Len(calls), Send(c)
  PROVE  TypeOK'
<1> DEFINE t == Head(unsent[c]).topic
           e == Head(unsent[c]).event
           p == PartitionOf(e)
<1>1. t \in Topics /\ e \in Event /\ p \in Partitions /\ Tail(unsent[c]) \in Seq(LetterType)
  BY NextLetter DEF Send, LetterType
<1>2. /\ queue' = [queue EXCEPT ![t][p] = Append(@, e)]
      /\ sent' = [sent EXCEPT ![t] = Append(@, e)]
      /\ unsent' = [unsent EXCEPT ![c] = Tail(@)]
      /\ UNCHANGED <<calls, cut, crossed, consumer, faults>>
  BY DEF Send
<1> HIDE DEF t, e, p
<1>3. queue' \in [Topics -> [Partitions -> Seq(Event)]]
  BY <1>1, <1>2 DEF TypeOK
<1>4. sent' \in [Topics -> Seq(Event)]
  BY <1>1, <1>2 DEF TypeOK
<1>5. unsent' \in Seq(Seq(LetterType)) /\ Len(unsent') = Len(unsent)
  BY <1>1, <1>2 DEF TypeOK
<1> QED
  BY <1>2, <1>3, <1>4, <1>5 DEF TypeOK, consumer

LEMMA SendFailsType ==
  ASSUME TypeOK, NEW c \in 1 .. Len(calls), SendFails(c)
  PROVE  TypeOK'
<1>1. PICK rest \in {<<>>, Tail(unsent[c])} : unsent' = [unsent EXCEPT ![c] = rest]
  BY DEF SendFails
<1>2. rest \in Seq(LetterType)
  <2>1. unsent[c] # <<>>
    BY DEF SendFails
  <2>2. Tail(unsent[c]) \in Seq(LetterType)
    BY <2>1, NextLetter
  <2>3. <<>> \in Seq(LetterType)
    OBVIOUS
  <2> QED
    BY <2>2, <2>3
<1>3. unsent' \in Seq(Seq(LetterType)) /\ Len(unsent') = Len(unsent)
  BY <1>1, <1>2 DEF TypeOK
<1>4. calls[c].product \in Int
  <2>1. calls[c] \in [type : Types, product : Int]
    BY ElementOfSeq DEF TypeOK
  <2> QED
    BY <2>1
<1>5. /\ faults' = faults + 1 /\ cut' = cut \cup {calls[c].product}
      /\ UNCHANGED <<calls, queue, sent, crossed, consumer>>
  BY DEF SendFails
<1>6. cut' \in SUBSET Int /\ faults' \in Nat
  <2>1. cut \in SUBSET Int /\ faults \in Nat
    BY DEF TypeOK
  <2>2. faults' = faults + 1
    BY <1>5
  <2>3. cut' = cut \cup {calls[c].product}
    BY <1>5
  <2>4. cut' \in SUBSET Int
    BY <1>4, <2>1, <2>3
  <2> QED
    BY <2>1, <2>2, <2>4
<1>7. /\ attempts' = attempts /\ handled' = handled /\ db' = db
      /\ deadLetters' = deadLetters /\ spoiled' = spoiled
      /\ calls' = calls /\ queue' = queue /\ sent' = sent /\ crossed' = crossed
  BY <1>5 DEF consumer
<1> QED
  BY <1>3, <1>6, <1>7 DEF TypeOK

LEMMA FrontEvent ==
  ASSUME TypeOK, NEW t \in Topics, NEW p \in Partitions, queue[t][p] # <<>>
  PROVE  /\ queue[t][p] \in Seq(Event) /\ Len(queue[t][p]) >= 1
         /\ Front(t, p) = queue[t][p][1] /\ Front(t, p) \in Event
         /\ Tail(queue[t][p]) \in Seq(Event)
         /\ Len(Tail(queue[t][p])) = Len(queue[t][p]) - 1
         /\ \A i \in 1 .. Len(queue[t][p]) - 1 :
              Tail(queue[t][p])[i] = queue[t][p][i + 1]
         /\ Entity(Front(t, p)) \in [product : Int, id : Nat]
         /\ PartitionOf(Front(t, p)) \in Partitions
<1>1. queue[t][p] \in Seq(Event)
  BY DEF TypeOK
<1>2. Front(t, p) = queue[t][p][1] /\ Front(t, p) \in Event
  BY <1>1, HeadTailProperties DEF Front
<1>3. /\ Entity(Front(t, p)) \in [product : Int, id : Nat]
      /\ PartitionOf(Front(t, p)) \in Partitions
  BY <1>2, Partition DEF Entity, Event, PartitionOf
<1> QED
  BY <1>1, <1>2, <1>3, HeadTailProperties

LEMMA ConsumerType ==
  ASSUME TypeOK, HandledWaits, NEW t \in Topics, NEW p \in Partitions,
         Consume(t, p) \/ DatabaseFails(t, p) \/ Crash(t, p)
  PROVE  TypeOK'
<1>1. Waits(t, p) => /\ Front(t, p) \in Event
                     /\ Entity(Front(t, p)) \in [product : Int, id : Nat]
  BY FrontEvent DEF Waits
<1>2. UNCHANGED composite
  BY DEF Consume, Create, Delete, EndDelete, Reject, Acknowledge, DatabaseFails, Crash
<1>3. Waits(t, p) /\ Failed(t, p) =>
        /\ attempts' \in [Topics -> [Partitions -> Nat]]
        /\ handled' \in [Topics -> [Partitions -> BOOLEAN]]
        /\ deadLetters' \in [Topics -> SUBSET Event]
  <2> SUFFICES ASSUME Waits(t, p), Failed(t, p)
               PROVE  /\ attempts' \in [Topics -> [Partitions -> Nat]]
                      /\ handled' \in [Topics -> [Partitions -> BOOLEAN]]
                      /\ deadLetters' \in [Topics -> SUBSET Event]
    OBVIOUS
  <2>1. CASE Exhausted(t, p)
    <3>1. /\ deadLetters' = [deadLetters EXCEPT ![t] = @ \cup {Front(t, p)}]
          /\ handled' = [handled EXCEPT ![t][p] = TRUE]
          /\ attempts' = [attempts EXCEPT ![t][p] = 0]
      BY <2>1 DEF Failed
    <3> QED
      BY <1>1, <3>1 DEF TypeOK
  <2>2. CASE ~Exhausted(t, p)
    <3>1. /\ attempts' = [attempts EXCEPT ![t][p] =
                            IF @ + 1 < MaxAttempts THEN @ + 1 ELSE @]
          /\ UNCHANGED <<deadLetters, handled>>
      BY <2>2 DEF Failed
    <3> QED
      BY <3>1 DEF TypeOK
  <2> QED
    BY <2>1, <2>2
<1>4. CASE Create(t, p)
  <2>1. /\ db' \in [Topics -> SUBSET [product : Int, id : Nat]]
        /\ handled' \in [Topics -> [Partitions -> BOOLEAN]]
    BY <1>1, <1>4 DEF Create, TypeOK
  <2> QED
    BY <1>2, <1>4, <2>1 DEF Create, TypeOK, composite
<1>5. CASE Delete(t, p)
  <2>1. db' \in [Topics -> SUBSET [product : Int, id : Nat]]
    BY <1>5 DEF Delete, TypeOK
  <2> QED
    BY <1>2, <1>5, <2>1 DEF Delete, TypeOK, composite
<1>6. CASE EndDelete(t, p)
  <2>1. handled' \in [Topics -> [Partitions -> BOOLEAN]]
    BY <1>6 DEF EndDelete, TypeOK
  <2> QED
    BY <1>2, <1>6, <2>1 DEF EndDelete, TypeOK, composite
<1>7. CASE Reject(t, p)
  BY <1>2, <1>3, <1>7 DEF Reject, TypeOK, composite
<1>8. CASE DatabaseFails(t, p)
  <2>1. spoiled' \in SUBSET Int
    BY <1>1, <1>8 DEF DatabaseFails, TypeOK, Event
  <2> QED
    BY <1>2, <1>3, <1>8, <2>1 DEF DatabaseFails, TypeOK, composite
<1>9. CASE Acknowledge(t, p)
  <2>1. /\ queue' = [queue EXCEPT ![t][p] = Tail(@)]
        /\ attempts' \in [Topics -> [Partitions -> Nat]]
        /\ handled' \in [Topics -> [Partitions -> BOOLEAN]]
    BY <1>9 DEF Acknowledge, TypeOK
  <2>2. Tail(queue[t][p]) \in Seq(Event)
    BY <1>9, FrontEvent DEF Acknowledge, HandledWaits
  <2> QED
    BY <1>2, <1>9, <2>1, <2>2 DEF Acknowledge, TypeOK, composite
<1>10. CASE Crash(t, p)
  <2>1. /\ attempts' \in [Topics -> [Partitions -> Nat]]
        /\ handled' \in [Topics -> [Partitions -> BOOLEAN]]
    BY <1>10 DEF Crash, TypeOK
  <2> QED
    BY <1>2, <1>10, <2>1 DEF Crash, TypeOK, composite
<1> QED
  BY <1>4, <1>5, <1>6, <1>7, <1>8, <1>9, <1>10 DEF Consume

\* A step of the composite service about one call, or of one consumer.
LEMMA Steps ==
  ASSUME TypeOK, [Next]_vars
  PROVE  \/ CreateCompositeProduct \/ DeleteCompositeProduct
         \/ \E c \in 1 .. Len(calls) : Send(c) \/ SendFails(c)
         \/ \E t \in Topics, p \in Partitions :
              Consume(t, p) \/ DatabaseFails(t, p) \/ Crash(t, p)
         \/ UNCHANGED vars
  BY DEF Next, TypeOK

LEMMA NextType == TypeOK /\ HandledWaits /\ [Next]_vars => TypeOK'
<1> SUFFICES ASSUME TypeOK, HandledWaits, [Next]_vars PROVE TypeOK'
  OBVIOUS
<1>1. CASE CreateCompositeProduct \/ DeleteCompositeProduct
  BY <1>1, CallsNext, CallType
<1>2. CASE UNCHANGED vars
  BY <1>2 DEF vars, TypeOK, composite, consumer
<1> QED
  BY <1>1, <1>2, Steps, SendType, SendFailsType, ConsumerType

LEMMA HandledNext == TypeOK /\ HandledWaits /\ [Next]_vars => HandledWaits'
<1> SUFFICES ASSUME TypeOK, HandledWaits, [Next]_vars,
                    NEW u \in Topics, NEW r \in Partitions, handled'[u][r]
             PROVE  queue'[u][r] # <<>>
  BY DEF HandledWaits
<1>1. CASE UNCHANGED <<queue, handled>>
  BY <1>1 DEF HandledWaits
<1>2. ASSUME NEW c \in 1 .. Len(calls), Send(c)
      PROVE  queue'[u][r] # <<>>
  <2> DEFINE t == Head(unsent[c]).topic
             e == Head(unsent[c]).event
             p == PartitionOf(e)
  <2>1. t \in Topics /\ e \in Event /\ p \in Partitions
    BY <1>2, NextLetter DEF Send, LetterType
  <2>2. queue' = [queue EXCEPT ![t][p] = Append(@, e)] /\ handled' = handled
    BY <1>2 DEF Send, consumer
  <2> HIDE DEF t, e, p
  <2>3. queue[t][p] \in Seq(Event)
    BY <2>1 DEF TypeOK
  <2>4. Append(queue[t][p], e) # <<>>
    BY <2>1, <2>3, AppendProperties
  <2> QED
    BY <2>1, <2>2, <2>4 DEF TypeOK, HandledWaits
<1>3. ASSUME NEW t \in Topics, NEW p \in Partitions,
             Consume(t, p) \/ DatabaseFails(t, p) \/ Crash(t, p)
      PROVE  queue'[u][r] # <<>>
  <2>1. CASE Acknowledge(t, p)
    <3>1. /\ queue' = [queue EXCEPT ![t][p] = Tail(@)]
          /\ handled' = [handled EXCEPT ![t][p] = FALSE]
      BY <2>1 DEF Acknowledge
    <3> QED
      BY <3>1 DEF TypeOK, HandledWaits
  <2>2. CASE ~Acknowledge(t, p)
    <3>1. queue' = queue /\ queue[t][p] # <<>>
      BY <1>3, <2>2 DEF Consume, Create, Delete, EndDelete, Reject, DatabaseFails, Crash,
                        Waits
    <3>2. handled' \in {handled, [handled EXCEPT ![t][p] = TRUE],
                       [handled EXCEPT ![t][p] = FALSE]}
      BY <1>3, <2>2 DEF Consume, Create, Delete, EndDelete, Reject, DatabaseFails, Crash,
                        Failed
    <3>3. <<u, r>> # <<t, p>> => handled'[u][r] = handled[u][r]
      BY <3>2 DEF TypeOK
    <3> QED
      BY <3>1, <3>3 DEF HandledWaits
  <2> QED
    BY <2>1, <2>2
<1>4. \/ CreateCompositeProduct \/ DeleteCompositeProduct
      \/ (\E c \in 1 .. Len(calls) : SendFails(c)) \/ UNCHANGED vars
      => UNCHANGED <<queue, handled>>
  BY DEF CreateCompositeProduct, DeleteCompositeProduct, Call, SendFails, vars, consumer
<1> QED
  BY <1>1, <1>2, <1>3, <1>4, Steps

-----------------------------------------------------------------------------
(* What events leave *)

LEMMA FinalMember ==
  ASSUME NEW s, NEW product, NEW n, NEW x
  PROVE  x \in Final(s, product, n) <=>
           \E k \in 1 .. n : /\ Created(s, product, k) /\ x = Entity(s[k])
                             /\ \A l \in k + 1 .. n : ~Removes(s, product, l)
  BY DEF Final

LEMMA FinalSame ==
  ASSUME NEW s, NEW u, NEW product, NEW n \in Nat, \A k \in 1 .. n : s[k] = u[k]
  PROVE  Final(s, product, n) = Final(u, product, n)
<1>1. \A k \in 1 .. n : /\ Created(s, product, k) <=> Created(u, product, k)
                        /\ Removes(s, product, k) <=> Removes(u, product, k)
  BY DEF Created, Removes
<1>2. \A k \in 1 .. n : \A l \in k + 1 .. n : l \in 1 .. n
  OBVIOUS
<1> QED
  BY <1>1, <1>2 DEF Final

\* Events of other products leave a product as it is.
LEMMA FinalSkip ==
  ASSUME NEW s, NEW product, NEW m \in Nat, NEW n \in Nat, m <= n,
         \A k \in m + 1 .. n : s[k].key # product
  PROVE  Final(s, product, n) = Final(s, product, m)
<1>1. \A k \in m + 1 .. n : ~Created(s, product, k) /\ ~Removes(s, product, k)
  BY DEF Created, Removes
<1>2. ASSUME NEW x \in Final(s, product, n)
      PROVE  x \in Final(s, product, m)
  <2>1. PICK k \in 1 .. n : /\ Created(s, product, k) /\ x = Entity(s[k])
                            /\ \A l \in k + 1 .. n : ~Removes(s, product, l)
    BY FinalMember
  <2>2. k \in 1 .. m
    BY <1>1, <2>1
  <2>3. \A l \in k + 1 .. m : l \in k + 1 .. n
    OBVIOUS
  <2> QED
    BY <2>1, <2>2, <2>3, FinalMember
<1>3. ASSUME NEW x \in Final(s, product, m)
      PROVE  x \in Final(s, product, n)
  <2>1. PICK k \in 1 .. m : /\ Created(s, product, k) /\ x = Entity(s[k])
                            /\ \A l \in k + 1 .. m : ~Removes(s, product, l)
    BY FinalMember
  <2>2. k \in 1 .. n
    BY <2>1
  <2>3. \A l \in k + 1 .. n : l \in k + 1 .. m \/ l \in m + 1 .. n
    OBVIOUS
  <2> QED
    BY <1>1, <2>1, <2>2, <2>3, FinalMember
<1> QED
  BY <1>2, <1>3

\* One event more.
LEMMA FinalStep ==
  ASSUME NEW s, NEW product, NEW n \in Nat \ {0}
  PROVE  /\ s[n].key # product => Final(s, product, n) = Final(s, product, n - 1)
         /\ Created(s, product, n) =>
              Final(s, product, n) = Final(s, product, n - 1) \cup {Entity(s[n])}
         /\ Removes(s, product, n) => Final(s, product, n) = {}
<1>1. s[n].key # product => Final(s, product, n) = Final(s, product, n - 1)
  BY FinalSkip
<1>2. ASSUME Created(s, product, n), NEW x
      PROVE  x \in Final(s, product, n) <=>
               x \in Final(s, product, n - 1) \cup {Entity(s[n])}
  <2>1. ~Removes(s, product, n)
    BY <1>2 DEF Created, Removes
  <2>2. ASSUME x \in Final(s, product, n)
        PROVE  x \in Final(s, product, n - 1) \cup {Entity(s[n])}
    <3>1. PICK k \in 1 .. n : /\ Created(s, product, k) /\ x = Entity(s[k])
                              /\ \A l \in k + 1 .. n : ~Removes(s, product, l)
      BY <2>2, FinalMember
    <3>2. k = n \/ k \in 1 .. n - 1
      OBVIOUS
    <3>3. \A l \in k + 1 .. n - 1 : l \in k + 1 .. n
      OBVIOUS
    <3> QED
      BY <3>1, <3>2, <3>3, FinalMember
  <2>3. ASSUME x \in Final(s, product, n - 1)
        PROVE  x \in Final(s, product, n)
    <3>1. PICK k \in 1 .. n - 1 :
                    /\ Created(s, product, k) /\ x = Entity(s[k])
                    /\ \A l \in k + 1 .. n - 1 : ~Removes(s, product, l)
      BY <2>3, FinalMember
    <3>2. k \in 1 .. n /\ \A l \in k + 1 .. n : l = n \/ l \in k + 1 .. n - 1
      BY <3>1
    <3> QED
      BY <2>1, <3>1, <3>2, FinalMember
  <2>4. Entity(s[n]) \in Final(s, product, n)
    <3>1. n \in 1 .. n /\ \A l \in n + 1 .. n : FALSE
      OBVIOUS
    <3> QED
      BY <1>2, <3>1, FinalMember
  <2> QED
    BY <2>2, <2>3, <2>4
<1>3. ASSUME Removes(s, product, n), NEW x \in Final(s, product, n)
      PROVE  FALSE
  <2>1. PICK k \in 1 .. n : /\ Created(s, product, k)
                            /\ \A l \in k + 1 .. n : ~Removes(s, product, l)
    BY FinalMember
  <2>2. k # n
    BY <1>3, <2>1 DEF Created, Removes
  <2>3. n \in k + 1 .. n
    BY <2>2
  <2> QED
    BY <1>3, <2>1, <2>3
<1> QED
  BY <1>1, <1>2, <1>3

LEMMA FinalAppend ==
  ASSUME NEW s \in Seq(Event), NEW e \in Event, NEW product, NEW n \in 0 .. Len(s)
  PROVE  Final(Append(s, e), product, n) = Final(s, product, n)
<1>1. n \in Nat /\ n <= Len(s)
  OBVIOUS
<1>2. \A k \in 1 .. n : Append(s, e)[k] = s[k]
  BY <1>1, AppendProperties
<1> QED
  BY <1>1, <1>2, FinalSame

-----------------------------------------------------------------------------
(* Queues of events that were sent *)

LEMMA PlacedFirst ==
  ASSUME NEW s \in Seq(Event), NEW q \in Seq(Event), NEW r, NEW m,
         Placed(s, q, r, m), q # <<>>
  PROVE  /\ 1 \in 1 .. Len(q) /\ m[1] \in 1 .. Len(s)
         /\ m[1] \in Nat \ {0} /\ m[1] \in 0 .. Len(s) /\ m[1] - 1 \in 0 .. Len(s)
         /\ s[m[1]] = q[1] /\ q[1] \in Event /\ q[1].key % PartitionCount = r
<1>1. Len(q) \in Nat /\ Len(s) \in Nat /\ 1 \in 1 .. Len(q)
  BY EmptySeq
<1>2. m[1] \in 1 .. Len(s) /\ q[1] = s[m[1]] /\ InPartition(s, r, m[1])
  BY <1>1 DEF Placed
<1>3. q[1] \in Event
  BY <1>1
<1> QED
  BY <1>1, <1>2, <1>3 DEF InPartition, PartitionOf

\* An event for another partition is sent.
LEMMA AppendElsewhere ==
  ASSUME NEW s \in Seq(Event), NEW q \in Seq(Event), NEW e \in Event, NEW r, NEW m,
         Placed(s, q, r, m), PartitionOf(e) # r
  PROVE  /\ Placed(Append(s, e), q, r, m)
         /\ \A product \in Int : \A entities, done :
              /\ product % PartitionCount = r
              /\ Keeps(s, q, done, entities, m, product)
              => Keeps(Append(s, e), q, done, entities, m, product)
<1> DEFINE v == Append(s, e)
<1>1. /\ Len(s) \in Nat /\ Len(q) \in Nat /\ v \in Seq(Event)
      /\ Len(v) = Len(s) + 1 /\ v[Len(s) + 1] = e
      /\ \A k \in 1 .. Len(s) : v[k] = s[k]
  BY AppendProperties
<1>2. ASSUME NEW product, NEW k \in 0 .. Len(s)
      PROVE  Final(v, product, k) = Final(s, product, k)
  BY FinalAppend
<1> HIDE DEF v
<1>3. \A k \in 1 .. Len(v) : k = Len(v) \/ k \in 1 .. Len(s)
  BY <1>1
<1>4. \A k \in 1 .. Len(s) : InPartition(v, r, k) <=> InPartition(s, r, k)
  BY <1>1 DEF InPartition
<1>5. ~InPartition(v, r, Len(v))
  BY <1>1 DEF InPartition
<1>6. Placed(v, q, r, m)
  <2>1. /\ m \in [1 .. Len(q) -> 1 .. Len(v)]
        /\ \A i \in 1 .. Len(q) : m[i] \in 1 .. Len(s)
    <3>1. m \in [1 .. Len(q) -> 1 .. Len(s)]
      BY DEF Placed
    <3> HIDE DEF Placed
    <3>2. \A k \in 1 .. Len(s) : k \in 1 .. Len(v)
      BY <1>1
    <3> QED
      BY <3>1, <3>2
  <2> QED
    BY <1>1, <1>3, <1>4, <1>5, <2>1 DEF Placed
<1>7. ASSUME NEW product \in Int, NEW entities, NEW done,
             product % PartitionCount = r, Keeps(s, q, done, entities, m, product)
      PROVE  Keeps(v, q, done, entities, m, product)
  <2>1. CASE q = <<>>
    <3>1. v[Len(v)].key # product
      BY <1>1, <1>7 DEF PartitionOf
    <3>2. Len(v) \in Nat \ {0} /\ Len(v) - 1 = Len(s) /\ Len(s) \in 0 .. Len(s)
      BY <1>1
    <3>3. PICK n \in Nat \ {0} : n = Len(v)
      BY <3>2
    <3>4. Final(v, product, n) = Final(v, product, n - 1)
      BY <3>1, <3>3, FinalStep
    <3>5. Final(v, product, Len(v)) = Final(s, product, Len(s))
      BY <1>2, <3>2, <3>3, <3>4
    <3> QED
      BY <1>7, <2>1, <3>5 DEF Keeps
  <2>2. CASE q # <<>>
    <3>1. m[1] \in 0 .. Len(s) /\ m[1] - 1 \in 0 .. Len(s)
      BY <2>2, PlacedFirst
    <3>2. /\ Final(v, product, m[1]) = Final(s, product, m[1])
          /\ Final(v, product, m[1] - 1) = Final(s, product, m[1] - 1)
      BY <1>2, <3>1
    <3> QED
      BY <1>7, <2>2, <3>2 DEF Keeps
  <2> QED
    BY <2>1, <2>2
<1> QED
  BY <1>6, <1>7 DEF v

\* An event of the partition is sent.
LEMMA AppendPlaced ==
  ASSUME NEW s \in Seq(Event), NEW q \in Seq(Event), NEW e \in Event, NEW r, NEW m,
         Placed(s, q, r, m), PartitionOf(e) = r
  PROVE  \E n : /\ Placed(Append(s, e), Append(q, e), r, n)
                /\ n[1] = IF q = <<>> THEN Len(s) + 1 ELSE m[1]
<1> DEFINE v == Append(s, e)
           w == Append(q, e)
           n == [i \in 1 .. Len(q) + 1 |-> IF i <= Len(q) THEN m[i] ELSE Len(s) + 1]
<1>1. /\ Len(s) \in Nat /\ Len(q) \in Nat
      /\ Len(v) = Len(s) + 1 /\ v[Len(s) + 1] = e
      /\ \A k \in 1 .. Len(s) : v[k] = s[k]
      /\ Len(w) = Len(q) + 1 /\ w[Len(q) + 1] = e
      /\ \A i \in 1 .. Len(q) : w[i] = q[i]
  BY AppendProperties
<1> HIDE DEF v, w
<1>2. m \in [1 .. Len(q) -> 1 .. Len(s)]
  BY DEF Placed
<1>3. /\ n \in [1 .. Len(w) -> 1 .. Len(v)] /\ n[Len(w)] = Len(v)
      /\ \A i \in 1 .. Len(q) : n[i] = m[i] /\ n[i] \in 1 .. Len(s)
  BY <1>1, <1>2
<1>4. n[1] = IF q = <<>> THEN Len(s) + 1 ELSE m[1]
  BY <1>1, EmptySeq
<1> HIDE DEF n
<1>5. \A i \in 1 .. Len(w) : i = Len(w) \/ i \in 1 .. Len(q)
  BY <1>1
<1>6. \A k \in 1 .. Len(v) : k = Len(v) \/ k \in 1 .. Len(s)
  BY <1>1
<1>7. \A k \in 1 .. Len(s) : InPartition(v, r, k) <=> InPartition(s, r, k)
  BY <1>1 DEF InPartition
<1>8. InPartition(v, r, Len(v))
  BY <1>1 DEF InPartition
<1>9. \A i \in 1 .. Len(w) : w[i] = v[n[i]] /\ InPartition(v, r, n[i])
  <2>1. \A i \in 1 .. Len(q) : q[i] = s[m[i]] /\ InPartition(s, r, m[i])
    BY DEF Placed
  <2> QED
    BY <1>1, <1>3, <1>5, <1>7, <1>8, <2>1
<1>10. \A i, j \in 1 .. Len(w) : i < j => n[i] < n[j]
  <2>1. \A i, j \in 1 .. Len(q) : i < j => m[i] < m[j]
    BY DEF Placed
  <2>2. \A i \in 1 .. Len(q) : n[i] < Len(v)
    BY <1>1, <1>3
  <2> QED
    BY <1>1, <1>3, <1>5, <2>1, <2>2
<1>11. ASSUME NEW k \in 1 .. Len(v), InPartition(v, r, k)
       PROVE  \/ \E i \in 1 .. Len(w) : k = n[i]
              \/ \A i \in 1 .. Len(w) : k < n[i]
  <2>1. CASE k = Len(v)
    <3>1. Len(w) \in 1 .. Len(w)
      BY <1>1
    <3> QED
      BY <1>3, <2>1, <3>1
  <2>2. CASE k \in 1 .. Len(s)
    <3>1. \/ \E i \in 1 .. Len(q) : k = m[i]
          \/ \A i \in 1 .. Len(q) : k < m[i]
      BY <1>7, <1>11, <2>2 DEF Placed
    <3>2. k < Len(v)
      BY <1>1, <2>2
    <3>3. \A i \in 1 .. Len(q) : i \in 1 .. Len(w)
      BY <1>1
    <3> QED
      BY <1>3, <1>5, <3>1, <3>2, <3>3
  <2> QED
    BY <1>6, <2>1, <2>2
<1>12. Placed(v, w, r, n)
  BY <1>3, <1>9, <1>10, <1>11 DEF Placed
<1> QED
  BY <1>4, <1>12 DEF v, w

LEMMA AppendKeeps ==
  ASSUME NEW s \in Seq(Event), NEW q \in Seq(Event), NEW e \in Event, NEW r, NEW m,
         Placed(s, q, r, m), NEW n, Placed(Append(s, e), Append(q, e), r, n),
         n[1] = IF q = <<>> THEN Len(s) + 1 ELSE m[1],
         NEW product, NEW entities, NEW done, done => q # <<>>,
         Keeps(s, q, done, entities, m, product)
  PROVE  Keeps(Append(s, e), Append(q, e), done, entities, n, product)
<1> DEFINE v == Append(s, e)
           w == Append(q, e)
<1>1. Len(s) \in Nat /\ w # <<>>
  BY AppendProperties
<1>2. ASSUME NEW k \in 0 .. Len(s)
      PROVE  Final(v, product, k) = Final(s, product, k)
  BY FinalAppend
<1> HIDE DEF v, w
<1>3. CASE q = <<>>
  <2>1. n[1] - 1 = Len(s) /\ Len(s) \in 0 .. Len(s)
    BY <1>1, <1>3
  <2>2. entities = Final(v, product, n[1] - 1)
    BY <1>2, <1>3, <2>1 DEF Keeps
  <2>3. Between(entities, Final(v, product, n[1] - 1), Final(v, product, n[1]))
    BY <2>2 DEF Between
  <2> QED
    BY <1>1, <1>3, <2>3 DEF Keeps, v, w
<1>4. CASE q # <<>>
  <2>1. m[1] \in 0 .. Len(s) /\ m[1] - 1 \in 0 .. Len(s) /\ n[1] = m[1]
    BY <1>4, PlacedFirst
  <2>2. /\ Final(v, product, m[1]) = Final(s, product, m[1])
        /\ Final(v, product, m[1] - 1) = Final(s, product, m[1] - 1)
    BY <1>2, <2>1
  <2> QED
    BY <1>1, <1>4, <2>1, <2>2 DEF Keeps, v, w
<1> QED
  BY <1>3, <1>4

\* The event in front is acknowledged.
LEMMA TailPlaced ==
  ASSUME NEW s \in Seq(Event), NEW q \in Seq(Event), NEW r, NEW m,
         Placed(s, q, r, m), q # <<>>
  PROVE  \E n : Placed(s, Tail(q), r, n) /\ (Tail(q) # <<>> => n[1] = m[2])
<1> DEFINE w == Tail(q)
           n == [i \in 1 .. Len(q) - 1 |-> m[i + 1]]
<1>1. /\ Len(s) \in Nat /\ Len(q) \in Nat \ {0} /\ w \in Seq(Event)
      /\ Len(w) = Len(q) - 1
      /\ \A i \in 1 .. Len(q) - 1 : w[i] = q[i + 1]
  BY EmptySeq, HeadTailProperties
<1> HIDE DEF w
<1>2. m \in [1 .. Len(q) -> 1 .. Len(s)]
  BY DEF Placed
<1>3. /\ n \in [1 .. Len(w) -> 1 .. Len(s)]
      /\ \A i \in 1 .. Len(w) : n[i] = m[i + 1] /\ i + 1 \in 1 .. Len(q)
  BY <1>1, <1>2
<1>4. w # <<>> => n[1] = m[2]
  BY <1>1, EmptySeq
<1> HIDE DEF n
<1>5. \A i \in 1 .. Len(w) : w[i] = s[n[i]] /\ InPartition(s, r, n[i])
  BY <1>1, <1>3 DEF Placed
<1>6. \A i, j \in 1 .. Len(w) : i < j => n[i] < n[j]
  <2>1. \A i, j \in 1 .. Len(q) : i < j => m[i] < m[j]
    BY DEF Placed
  <2>2. ASSUME NEW i \in 1 .. Len(w), NEW j \in 1 .. Len(w), i < j
        PROVE  n[i] < n[j]
    <3>1. i + 1 < j + 1 /\ i + 1 \in 1 .. Len(q) /\ j + 1 \in 1 .. Len(q)
      BY <1>1, <2>2
    <3>2. m[i + 1] < m[j + 1]
      BY <2>1, <3>1
    <3> QED
      BY <1>3, <3>2
  <2> QED
    BY <2>2
<1>7. ASSUME NEW k \in 1 .. Len(s), InPartition(s, r, k)
      PROVE  \/ \E i \in 1 .. Len(w) : k = n[i]
             \/ \A i \in 1 .. Len(w) : k < n[i]
  <2>1. \/ \E i \in 1 .. Len(q) : k = m[i]
        \/ \A i \in 1 .. Len(q) : k < m[i]
    BY <1>7 DEF Placed
  <2>2. CASE k = m[1]
    <3>1. \A i \in 1 .. Len(w) : m[1] < m[i + 1]
      BY <1>1, <1>3 DEF Placed
    <3> QED
      BY <1>3, <2>2, <3>1
  <2>3. ASSUME NEW i \in 2 .. Len(q), k = m[i]
        PROVE  \E j \in 1 .. Len(w) : k = n[j]
    <3>1. i - 1 \in 1 .. Len(w) /\ (i - 1) + 1 = i
      BY <1>1
    <3> QED
      BY <1>3, <2>3, <3>1
  <2>4. CASE \A i \in 1 .. Len(q) : k < m[i]
    BY <1>3, <2>4
  <2>5. \A i \in 1 .. Len(q) : i = 1 \/ i \in 2 .. Len(q)
    BY <1>1
  <2> QED
    BY <2>1, <2>2, <2>3, <2>4, <2>5
<1>8. Placed(s, w, r, n)
  BY <1>3, <1>5, <1>6, <1>7 DEF Placed
<1> QED
  BY <1>4, <1>8 DEF w

LEMMA TailKeeps ==
  ASSUME NEW s \in Seq(Event), NEW q \in Seq(Event), NEW r, NEW m,
         Placed(s, q, r, m), q # <<>>, NEW n, Tail(q) # <<>> => n[1] = m[2],
         NEW product \in Int, NEW entities, product % PartitionCount = r,
         Keeps(s, q, TRUE, entities, m, product)
  PROVE  Keeps(s, Tail(q), FALSE, entities, n, product)
<1>1. /\ m \in [1 .. Len(q) -> 1 .. Len(s)]
      /\ \A i, j \in 1 .. Len(q) : i < j => m[i] < m[j]
      /\ \A k \in 1 .. Len(s) :
           InPartition(s, r, k) => \/ \E i \in 1 .. Len(q) : k = m[i]
                                   \/ \A i \in 1 .. Len(q) : k < m[i]
  BY DEF Placed
<1>2. entities = Final(s, product, m[1])
  BY DEF Keeps
<1>3. /\ Len(s) \in Nat /\ Len(q) \in Nat \ {0} /\ Tail(q) \in Seq(Event)
      /\ Len(Tail(q)) = Len(q) - 1
  BY EmptySeq, HeadTailProperties
<1>4. 1 \in 1 .. Len(q) /\ m[1] \in 1 .. Len(s)
  BY PlacedFirst
<1>5. ASSUME NEW k \in 1 .. Len(s), s[k].key = product
      PROVE  InPartition(s, r, k)
  BY <1>5 DEF InPartition, PartitionOf
<1>6. CASE Tail(q) = <<>>
  <2>1. Len(q) = 1
    BY <1>3, <1>6
  <2>2. ASSUME NEW k \in m[1] + 1 .. Len(s), s[k].key = product
        PROVE  FALSE
    <3>1. k \in 1 .. Len(s) /\ k > m[1]
      BY <1>3, <1>4
    <3>2. InPartition(s, r, k)
      BY <1>5, <2>2, <3>1
    <3>3. \A i \in 1 .. Len(q) : i = 1
      BY <2>1
    <3> QED
      BY <1>1, <1>4, <3>1, <3>2, <3>3
  <2>3. \A k \in m[1] + 1 .. Len(s) : s[k].key # product
    BY <2>2
  <2>4. m[1] \in Nat /\ m[1] <= Len(s)
    BY <1>3, <1>4
  <2>5. Final(s, product, Len(s)) = Final(s, product, m[1])
    BY <1>3, <2>3, <2>4, FinalSkip
  <2> QED
    BY <1>2, <1>6, <2>5 DEF Keeps
<1>7. CASE Tail(q) # <<>>
  <2>1. Len(q) >= 2 /\ 2 \in 1 .. Len(q)
    BY <1>3, <1>7, EmptySeq
  <2>2. m[2] \in 1 .. Len(s) /\ m[1] < m[2]
    BY <1>1, <1>4, <2>1
  <2>3. ASSUME NEW k \in m[1] + 1 .. m[2] - 1, s[k].key = product
        PROVE  FALSE
    <3>1. k \in 1 .. Len(s) /\ k > m[1] /\ k < m[2]
      BY <1>3, <1>4, <2>2
    <3>2. InPartition(s, r, k)
      BY <1>5, <2>3, <3>1
    <3>3. PICK i \in 1 .. Len(q) : k = m[i]
      BY <1>1, <1>4, <3>1, <3>2
    <3>4. i = 1 \/ i = 2 \/ i > 2
      OBVIOUS
    <3>5. i > 2 => m[2] < m[i]
      BY <1>1, <2>1
    <3> QED
      BY <1>1, <2>2, <3>1, <3>3, <3>4, <3>5
  <2>4. \A k \in m[1] + 1 .. m[2] - 1 : s[k].key # product
    BY <2>3
  <2>5. m[1] \in Nat /\ m[2] - 1 \in Nat /\ m[1] <= m[2] - 1
    BY <1>3, <1>4, <2>2
  <2>6. Final(s, product, m[2] - 1) = Final(s, product, m[1])
    BY <2>4, <2>5, FinalSkip
  <2>7. n[1] = m[2]
    BY <1>7
  <2> QED
    BY <1>2, <1>7, <2>6, <2>7 DEF Keeps, Between
<1> QED
  BY <1>6, <1>7

-----------------------------------------------------------------------------
(* What the databases hold *)

LEMMA Consistently ==
  ASSUME TypeOK, Stored, NEW t \in Topics, NEW p \in Partitions
  PROVE  /\ sent[t] \in Seq(Event) /\ queue[t][p] \in Seq(Event)
         /\ handled[t][p] \in BOOLEAN
         /\ \E m : /\ Placed(sent[t], queue[t][p], p, m)
                   /\ \A product \in Int \ spoiled :
                        product >= 1 /\ product % PartitionCount = p =>
                          Stores(t, p, m, product)
  BY DEF TypeOK, Stored, Consistent

\* To keep Stored, it is enough to give the places of the events in a queue.
LEMMA StoredIf ==
  ASSUME NEW t, NEW p, NEW m, Placed(sent'[t], queue'[t][p], p, m),
         \A product \in Int \ spoiled' :
           product >= 1 /\ product % PartitionCount = p =>
             Keeps(sent'[t], queue'[t][p], handled'[t][p],
                   EntitiesOf(t, product)', m, product)
  PROVE  \E n \in [1 .. Len(queue'[t][p]) -> 1 .. Len(sent'[t])] : Consistent(t, p, n)'
<1>1. Consistent(t, p, m)'
  BY DEF Consistent, Stores
<1>2. m \in [1 .. Len(queue'[t][p]) -> 1 .. Len(sent'[t])]
  BY DEF Placed
<1> QED
  BY <1>1, <1>2

LEMMA StoresSame ==
  ASSUME TypeOK, Stored, NEW t \in Topics, NEW p \in Partitions,
         sent'[t] = sent[t], queue'[t][p] = queue[t][p], handled'[t][p] = handled[t][p],
         spoiled \subseteq spoiled',
         \A product \in Int : product % PartitionCount = p =>
           EntitiesOf(t, product)' = EntitiesOf(t, product)
  PROVE  \E n \in [1 .. Len(queue'[t][p]) -> 1 .. Len(sent'[t])] : Consistent(t, p, n)'
<1>1. PICK m : /\ Placed(sent[t], queue[t][p], p, m)
               /\ \A product \in Int \ spoiled :
                    product >= 1 /\ product % PartitionCount = p =>
                      Stores(t, p, m, product)
  BY Consistently
<1>2. ASSUME NEW product \in Int \ spoiled', product >= 1, product % PartitionCount = p
      PROVE  Keeps(sent'[t], queue'[t][p], handled'[t][p],
                   EntitiesOf(t, product)', m, product)
  <2>1. product \in Int \ spoiled /\ EntitiesOf(t, product)' = EntitiesOf(t, product)
    BY <1>2
  <2> QED
    BY <1>1, <1>2, <2>1 DEF Stores
<1> QED
  BY <1>1, <1>2, StoredIf

LEMMA SendStored ==
  ASSUME TypeOK, HandledWaits, Stored, NEW c \in 1 .. Len(calls), Send(c),
         NEW u \in Topics, NEW r \in Partitions
  PROVE  \E n \in [1 .. Len(queue'[u][r]) -> 1 .. Len(sent'[u])] : Consistent(u, r, n)'
<1> DEFINE t == Head(unsent[c]).topic
           e == Head(unsent[c]).event
           p == PartitionOf(e)
<1>1. t \in Topics /\ e \in Event /\ p \in Partitions
  BY NextLetter DEF Send, LetterType
<1>2. /\ queue' = [queue EXCEPT ![t][p] = Append(@, e)]
      /\ sent' = [sent EXCEPT ![t] = Append(@, e)]
      /\ handled' = handled /\ db' = db /\ spoiled' = spoiled
  BY DEF Send, consumer
<1>3. \A product : EntitiesOf(u, product)' = EntitiesOf(u, product)
  BY <1>2 DEF EntitiesOf
<1>4. PICK x \in Topics, y \in Event, z \in Partitions : x = t /\ y = e /\ z = p
  BY <1>1
<1>5. /\ queue' = [queue EXCEPT ![x][z] = Append(@, y)]
      /\ sent' = [sent EXCEPT ![x] = Append(@, y)]
      /\ PartitionOf(y) = z
  BY <1>2, <1>4
<1> HIDE DEF t, e, p
<1>6. PICK m : /\ Placed(sent[u], queue[u][r], r, m)
               /\ \A product \in Int \ spoiled :
                    product >= 1 /\ product % PartitionCount = r =>
                      Stores(u, r, m, product)
  BY Consistently
<1>7. /\ sent[u] \in Seq(Event) /\ queue[u][r] \in Seq(Event)
      /\ handled[u][r] => queue[u][r] # <<>>
  BY Consistently DEF HandledWaits
<1>8. CASE u # x
  <2>1. sent'[u] = sent[u] /\ queue'[u][r] = queue[u][r] /\ handled'[u][r] = handled[u][r]
    BY <1>2, <1>5, <1>8 DEF TypeOK
  <2> QED
    BY <1>2, <1>3, <2>1, StoresSame
<1>9. CASE u = x /\ r # z
  <2>1. /\ sent'[u] = Append(sent[u], y) /\ queue'[u][r] = queue[u][r]
        /\ handled'[u][r] = handled[u][r]
    <3>1. sent'[u] = Append(sent[u], y)
      BY <1>5, <1>9 DEF TypeOK
    <3>2. queue'[u][r] = queue[u][r]
      BY <1>5, <1>9 DEF TypeOK
    <3> QED
      BY <1>2, <3>1, <3>2
  <2>2. /\ Placed(sent'[u], queue'[u][r], r, m)
        /\ \A product \in Int : \A entities, done :
             product % PartitionCount = r
               /\ Keeps(sent[u], queue[u][r], done, entities, m, product)
             => Keeps(sent'[u], queue'[u][r], done, entities, m, product)
    BY <1>5, <1>6, <1>7, <1>9, <2>1, AppendElsewhere
  <2>3. ASSUME NEW product \in Int \ spoiled', product >= 1, product % PartitionCount = r
        PROVE  Keeps(sent'[u], queue'[u][r], handled'[u][r],
                     EntitiesOf(u, product)', m, product)
    <3>1. Keeps(sent[u], queue[u][r], handled[u][r], EntitiesOf(u, product), m, product)
      BY <1>2, <1>6, <2>3 DEF Stores
    <3> QED
      BY <1>3, <2>1, <2>2, <2>3, <3>1
  <2> QED
    BY <2>2, <2>3, StoredIf
<1>10. CASE u = x /\ r = z
  <2>1. /\ sent'[u] = Append(sent[u], y) /\ queue'[u][r] = Append(queue[u][r], y)
        /\ handled'[u][r] = handled[u][r]
    <3>1. sent'[u] = Append(sent[u], y)
      BY <1>5, <1>10 DEF TypeOK
    <3>2. queue'[u][r] = Append(queue[u][r], y)
      BY <1>5, <1>10 DEF TypeOK
    <3> QED
      BY <1>2, <3>1, <3>2
  <2>2. PICK n : /\ Placed(sent'[u], queue'[u][r], r, n)
                 /\ n[1] = IF queue[u][r] = <<>> THEN Len(sent[u]) + 1 ELSE m[1]
    BY <1>5, <1>6, <1>7, <1>10, <2>1, AppendPlaced
  <2>3. ASSUME NEW product \in Int \ spoiled', product >= 1, product % PartitionCount = r
        PROVE  Keeps(sent'[u], queue'[u][r], handled'[u][r],
                     EntitiesOf(u, product)', n, product)
    <3>1. Keeps(sent[u], queue[u][r], handled[u][r], EntitiesOf(u, product), m, product)
      BY <1>2, <1>6, <2>3 DEF Stores
    <3>2. Keeps(sent'[u], queue'[u][r], handled[u][r], EntitiesOf(u, product), n, product)
      BY <1>6, <1>7, <2>1, <2>2, <3>1, AppendKeeps
    <3> QED
      BY <1>3, <2>1, <3>2
  <2> QED
    BY <2>2, <2>3, StoredIf
<1> QED
  BY <1>8, <1>9, <1>10

LEMMA AcknowledgeStored ==
  ASSUME TypeOK, HandledWaits, Stored, NEW t \in Topics, NEW p \in Partitions,
         Acknowledge(t, p)
  PROVE  \E n \in [1 .. Len(queue'[t][p]) -> 1 .. Len(sent'[t])] : Consistent(t, p, n)'
<1>1. /\ queue'[t][p] = Tail(queue[t][p]) /\ handled'[t][p] = FALSE
      /\ sent' = sent /\ db' = db /\ spoiled' = spoiled /\ handled[t][p] = TRUE
  BY DEF Acknowledge, TypeOK, composite
<1>2. PICK m : /\ Placed(sent[t], queue[t][p], p, m)
               /\ \A product \in Int \ spoiled :
                    product >= 1 /\ product % PartitionCount = p =>
                      Stores(t, p, m, product)
  BY Consistently
<1>3. /\ sent[t] \in Seq(Event) /\ queue[t][p] \in Seq(Event) /\ queue[t][p] # <<>>
  BY <1>1, Consistently DEF HandledWaits
<1>4. PICK n : /\ Placed(sent[t], Tail(queue[t][p]), p, n)
               /\ Tail(queue[t][p]) # <<>> => n[1] = m[2]
  BY <1>2, <1>3, TailPlaced
<1>5. ASSUME NEW product \in Int \ spoiled', product >= 1, product % PartitionCount = p
      PROVE  Keeps(sent'[t], queue'[t][p], handled'[t][p],
                   EntitiesOf(t, product)', n, product)
  <2>1. Keeps(sent[t], queue[t][p], TRUE, EntitiesOf(t, product), m, product)
    BY <1>1, <1>2, <1>5 DEF Stores
  <2>2. Keeps(sent[t], Tail(queue[t][p]), FALSE, EntitiesOf(t, product), n, product)
    BY <1>2, <1>3, <1>4, <1>5, <2>1, TailKeeps
  <2>3. EntitiesOf(t, product)' = EntitiesOf(t, product)
    BY <1>1 DEF EntitiesOf
  <2> QED
    BY <1>1, <2>2, <2>3
<1> QED
  BY <1>1, <1>4, <1>5, StoredIf

LEMMA FrontPartition ==
  ASSUME TypeOK, Stored, NEW t \in Topics, NEW p \in Partitions, queue[t][p] # <<>>
  PROVE  Front(t, p).key % PartitionCount = p
<1>1. PICK m : Placed(sent[t], queue[t][p], p, m)
  BY Consistently
<1> QED
  BY <1>1, Consistently, PlacedFirst, FrontEvent

\* A step of a consumer about the event in front leaves other products alone,
\* and brings its own from the entities before it to those after it.
LEMMA HandlingStored ==
  ASSUME TypeOK, Stored, NEW t \in Topics, NEW p \in Partitions,
         queue[t][p] # <<>>, sent' = sent, queue' = queue, spoiled \subseteq spoiled',
         NEW event, event = Front(t, p), NEW key, key = event.key,
         \A product \in Int : product # key =>
           EntitiesOf(t, product)' = EntitiesOf(t, product),
         \A before, after :
           /\ key \notin spoiled' /\ key >= 1
           /\ event.type = "CREATE" => after = before \cup {Entity(event)}
           /\ event.type = "DELETE" => after = {}
           /\ Between(EntitiesOf(t, key), before, after)
           /\ handled[t][p] => EntitiesOf(t, key) = after
           => /\ Between(EntitiesOf(t, key)', before, after)
              /\ handled'[t][p] => EntitiesOf(t, key)' = after
  PROVE  \E n \in [1 .. Len(queue'[t][p]) -> 1 .. Len(sent'[t])] : Consistent(t, p, n)'
<1>1. PICK m : /\ Placed(sent[t], queue[t][p], p, m)
               /\ \A product \in Int \ spoiled :
                    product >= 1 /\ product % PartitionCount = p =>
                      Stores(t, p, m, product)
  BY Consistently
<1>2. /\ sent[t] \in Seq(Event) /\ queue[t][p] \in Seq(Event)
      /\ event = queue[t][p][1]
  BY Consistently, FrontEvent
<1>3. ASSUME NEW product \in Int \ spoiled', product >= 1, product % PartitionCount = p
      PROVE  Keeps(sent'[t], queue'[t][p], handled'[t][p],
                   EntitiesOf(t, product)', m, product)
  <2>1. PICK before, after : /\ before = Final(sent[t], product, m[1] - 1)
                             /\ after = Final(sent[t], product, m[1])
    OBVIOUS
  <2>2. Stores(t, p, m, product)
    BY <1>1, <1>3
  <2>3. /\ Between(EntitiesOf(t, product), before, after)
        /\ handled[t][p] => EntitiesOf(t, product) = after
    BY <2>1, <2>2 DEF Stores, Keeps
  <2>4. /\ event.key # product => after = before
        /\ event.type = "CREATE" /\ event.key = product =>
             after = before \cup {Entity(event)}
        /\ event.type = "DELETE" /\ event.key = product => after = {}
    <3>1. m[1] \in Nat \ {0} /\ sent[t][m[1]] = event
      BY <1>1, <1>2, PlacedFirst
    <3>2. PICK k \in Nat \ {0} : k = m[1]
      BY <3>1
    <3>3. sent[t][k] = event
      BY <3>1, <3>2
    <3>4. before = Final(sent[t], product, k - 1) /\ after = Final(sent[t], product, k)
      BY <2>1, <3>2
    <3> QED
      BY <3>2, <3>3, <3>4, FinalStep DEF Created, Removes
  <2>5. Keeps(sent[t], queue[t][p], handled'[t][p], EntitiesOf(t, product)', m, product)
        <=> /\ Between(EntitiesOf(t, product)', before, after)
            /\ handled'[t][p] => EntitiesOf(t, product)' = after
    BY <2>1 DEF Keeps
  <2>6. CASE product # key
    <3>1. EntitiesOf(t, product)' = EntitiesOf(t, product) /\ after = before
      BY <2>4, <2>6
    <3>2. EntitiesOf(t, product) = before
      BY <2>3, <3>1 DEF Between
    <3> QED
      BY <2>5, <3>1, <3>2 DEF Between
  <2>7. CASE product = key
    <3>1. /\ Between(EntitiesOf(t, key)', before, after)
          /\ handled'[t][p] => EntitiesOf(t, key)' = after
      BY <1>3, <2>3, <2>4, <2>7
    <3> QED
      BY <2>5, <2>7, <3>1
  <2> QED
    BY <2>6, <2>7
<1> QED
  BY <1>1, <1>3, StoredIf

LEMMA ConsumerStored ==
  ASSUME TypeOK, HandledWaits, Stored, NEW t \in Topics, NEW p \in Partitions,
         Consume(t, p) \/ DatabaseFails(t, p) \/ Crash(t, p)
  PROVE  \E n \in [1 .. Len(queue'[t][p]) -> 1 .. Len(sent'[t])] : Consistent(t, p, n)'
<1>1. CASE Acknowledge(t, p)
  BY <1>1, AcknowledgeStored
<1> SUFFICES ASSUME ~Acknowledge(t, p)
             PROVE  \E n \in [1 .. Len(queue'[t][p]) -> 1 .. Len(sent'[t])] :
                      Consistent(t, p, n)'
  BY <1>1
<1>2. /\ queue[t][p] # <<>> /\ sent' = sent /\ queue' = queue
      /\ spoiled \subseteq spoiled'
  BY DEF Consume, Create, Delete, EndDelete, Reject, DatabaseFails, Crash, Waits, composite
<1>3. PICK event, key : event = Front(t, p) /\ key = event.key
  OBVIOUS
<1>4. /\ event \in Event /\ key \in Int /\ Entity(event).product = key
      /\ event.type \in Types
  BY <1>2, <1>3, FrontEvent DEF Event, Entity
<1>5. \A d : [handled EXCEPT ![t][p] = d][t][p] = d
  BY DEF TypeOK
<1>6. \A d : [db EXCEPT ![t] = d][t] = d
  BY DEF TypeOK
<1>7. Failed(t, p) => \/ handled'[t][p] = TRUE /\ Exhausted(t, p)
                      \/ handled' = handled
  BY <1>5 DEF Failed
<1>8. handled[t][p] \in BOOLEAN
  BY DEF TypeOK
<1>9. CASE Create(t, p)
  <2>1. /\ handled'[t][p] = TRUE /\ db'[t] = db[t] \cup {Entity(event)}
        /\ event.type = "CREATE"
    BY <1>3, <1>5, <1>6, <1>9 DEF Create
  <2>2. \A product \in Int : product # key =>
          EntitiesOf(t, product)' = EntitiesOf(t, product)
    BY <1>4, <2>1 DEF EntitiesOf
  <2>3. EntitiesOf(t, key)' = EntitiesOf(t, key) \cup {Entity(event)}
    BY <1>4, <2>1 DEF EntitiesOf
  <2>4. \A before, after :
          /\ after = before \cup {Entity(event)}
          /\ Between(EntitiesOf(t, key), before, after)
          => Between(EntitiesOf(t, key)', before, after) /\ EntitiesOf(t, key)' = after
    BY <2>3 DEF Between
  <2>5. \A before, after :
          /\ key \notin spoiled' /\ key >= 1
          /\ event.type = "CREATE" => after = before \cup {Entity(event)}
          /\ event.type = "DELETE" => after = {}
          /\ Between(EntitiesOf(t, key), before, after)
          /\ handled[t][p] => EntitiesOf(t, key) = after
          => /\ Between(EntitiesOf(t, key)', before, after)
             /\ handled'[t][p] => EntitiesOf(t, key)' = after
    BY <2>1, <2>4
  <2> QED
    BY <1>2, <1>3, <2>2, <2>5, HandlingStored
<1>10. CASE Delete(t, p)
  <2>1. PICK gone \in Removals(t, EntitiesOf(t, key)) : db'[t] = db[t] \ gone
    BY <1>3, <1>6, <1>10 DEF Delete
  <2>2. event.type = "DELETE" /\ handled' = handled /\ ~handled[t][p]
    BY <1>3, <1>10 DEF Delete, Waits
  <2>3. gone \subseteq EntitiesOf(t, key)
    BY <2>1 DEF Removals
  <2>4. \A product : product # key => EntitiesOf(t, product)' = EntitiesOf(t, product)
    BY <2>1, <2>3 DEF EntitiesOf
  <2>5. EntitiesOf(t, key)' \subseteq EntitiesOf(t, key)
    BY <2>1 DEF EntitiesOf
  <2>6. \A before, after :
          after = {} /\ Between(EntitiesOf(t, key), before, after)
          => Between(EntitiesOf(t, key)', before, after)
    BY <2>5 DEF Between
  <2>7. \A before, after :
          /\ key \notin spoiled' /\ key >= 1
          /\ event.type = "CREATE" => after = before \cup {Entity(event)}
          /\ event.type = "DELETE" => after = {}
          /\ Between(EntitiesOf(t, key), before, after)
          /\ handled[t][p] => EntitiesOf(t, key) = after
          => /\ Between(EntitiesOf(t, key)', before, after)
             /\ handled'[t][p] => EntitiesOf(t, key)' = after
    BY <2>2, <2>6
  <2> QED
    BY <1>2, <1>3, <2>4, <2>7, HandlingStored
<1>11. CASE EndDelete(t, p)
  <2>1. /\ event.type = "DELETE" /\ EntitiesOf(t, key) = {} /\ db' = db
    BY <1>3, <1>11 DEF EndDelete, Deleted
  <2>2. \A product \in Int : product # key =>
          EntitiesOf(t, product)' = EntitiesOf(t, product)
    BY <2>1 DEF EntitiesOf
  <2>3. \A before, after :
          /\ key \notin spoiled' /\ key >= 1
          /\ event.type = "CREATE" => after = before \cup {Entity(event)}
          /\ event.type = "DELETE" => after = {}
          /\ Between(EntitiesOf(t, key), before, after)
          /\ handled[t][p] => EntitiesOf(t, key) = after
          => /\ Between(EntitiesOf(t, key)', before, after)
             /\ handled'[t][p] => EntitiesOf(t, key)' = after
    BY <2>1 DEF Between, EntitiesOf
  <2> QED
    BY <1>2, <1>3, <2>2, <2>3, HandlingStored
<1>12. CASE Reject(t, p)
  <2>1. db' = db /\ Failed(t, p) /\ Rejected(t, event)
    BY <1>3, <1>12 DEF Reject
  <2>2. \A product \in Int : product # key =>
          EntitiesOf(t, product)' = EntitiesOf(t, product)
    BY <2>1 DEF EntitiesOf
  <2>3. key >= 1 => event.type = "CREATE" /\ Entity(event) \in EntitiesOf(t, key)
    BY <1>3, <1>4, <2>1 DEF Rejected, EntitiesOf
  <2>4. \A before, after :
          /\ key >= 1
          /\ event.type = "CREATE" => after = before \cup {Entity(event)}
          /\ Between(EntitiesOf(t, key), before, after)
          => EntitiesOf(t, key) = after
    BY <2>3 DEF Between
  <2>5. \A before, after :
          /\ key \notin spoiled' /\ key >= 1
          /\ event.type = "CREATE" => after = before \cup {Entity(event)}
          /\ event.type = "DELETE" => after = {}
          /\ Between(EntitiesOf(t, key), before, after)
          /\ handled[t][p] => EntitiesOf(t, key) = after
          => /\ Between(EntitiesOf(t, key)', before, after)
             /\ handled'[t][p] => EntitiesOf(t, key)' = after
    BY <2>1, <2>4 DEF Between, EntitiesOf
  <2> QED
    BY <1>2, <1>3, <2>2, <2>5, HandlingStored
<1>13. CASE DatabaseFails(t, p)
  <2>1. /\ db' = db /\ Failed(t, p)
        /\ spoiled' = IF Exhausted(t, p) THEN spoiled \cup {key} ELSE spoiled
    BY <1>3, <1>13 DEF DatabaseFails
  <2>2. \A product \in Int : product # key =>
          EntitiesOf(t, product)' = EntitiesOf(t, product)
    BY <2>1 DEF EntitiesOf
  <2>3. key \notin spoiled' => handled' = handled
    BY <1>7, <2>1
  <2>4. \A before, after :
          /\ key \notin spoiled' /\ key >= 1
          /\ event.type = "CREATE" => after = before \cup {Entity(event)}
          /\ event.type = "DELETE" => after = {}
          /\ Between(EntitiesOf(t, key), before, after)
          /\ handled[t][p] => EntitiesOf(t, key) = after
          => /\ Between(EntitiesOf(t, key)', before, after)
             /\ handled'[t][p] => EntitiesOf(t, key)' = after
    BY <2>1, <2>3 DEF EntitiesOf
  <2> QED
    BY <1>2, <1>3, <2>2, <2>4, HandlingStored
<1>14. CASE Crash(t, p)
  <2>1. db' = db /\ handled'[t][p] = FALSE
    BY <1>5, <1>14 DEF Crash
  <2>2. \A product \in Int : product # key =>
          EntitiesOf(t, product)' = EntitiesOf(t, product)
    BY <2>1 DEF EntitiesOf
  <2>3. \A before, after :
          /\ key \notin spoiled' /\ key >= 1
          /\ event.type = "CREATE" => after = before \cup {Entity(event)}
          /\ event.type = "DELETE" => after = {}
          /\ Between(EntitiesOf(t, key), before, after)
          /\ handled[t][p] => EntitiesOf(t, key) = after
          => /\ Between(EntitiesOf(t, key)', before, after)
             /\ handled'[t][p] => EntitiesOf(t, key)' = after
    BY <2>1 DEF EntitiesOf
  <2> QED
    BY <1>2, <1>3, <2>2, <2>3, HandlingStored
<1> QED
  BY <1>9, <1>10, <1>11, <1>12, <1>13, <1>14 DEF Consume

\* A consumer of one partition leaves the others alone.
LEMMA OthersStored ==
  ASSUME TypeOK, HandledWaits, Stored, NEW t \in Topics, NEW p \in Partitions,
         Consume(t, p) \/ DatabaseFails(t, p) \/ Crash(t, p),
         NEW u \in Topics, NEW r \in Partitions, <<u, r>> # <<t, p>>
  PROVE  \E n \in [1 .. Len(queue'[u][r]) -> 1 .. Len(sent'[u])] : Consistent(u, r, n)'
<1>1. sent' = sent /\ spoiled \subseteq spoiled'
  BY DEF Consume, Create, Delete, EndDelete, Reject, Acknowledge, DatabaseFails, Crash,
         composite
<1>2. queue' \in {queue, [queue EXCEPT ![t][p] = Tail(@)]}
  BY DEF Consume, Create, Delete, EndDelete, Reject, Acknowledge, DatabaseFails, Crash
<1>3. handled' \in {handled, [handled EXCEPT ![t][p] = TRUE],
                    [handled EXCEPT ![t][p] = FALSE]}
  BY DEF Consume, Create, Delete, EndDelete, Reject, Acknowledge, DatabaseFails, Crash,
         Failed
<1>4. u # t \/ r # p
  OBVIOUS
<1>5. queue'[u][r] = queue[u][r]
  BY <1>2, <1>4 DEF TypeOK
<1>6. handled'[u][r] = handled[u][r]
  BY <1>3, <1>4 DEF TypeOK
<1>7. ASSUME NEW product \in Int, product % PartitionCount = r
      PROVE  EntitiesOf(u, product)' = EntitiesOf(u, product)
  <2>1. CASE Create(t, p)
    <3>1. db' = [db EXCEPT ![t] = @ \cup {Entity(Front(t, p))}] /\ queue[t][p] # <<>>
      BY <2>1 DEF Create, Waits
    <3>2. u = t => Entity(Front(t, p)).product # product
      BY <1>4, <1>7, <3>1, FrontPartition DEF Entity
    <3>3. db'[u] = IF u = t THEN db[t] \cup {Entity(Front(t, p))} ELSE db[u]
      BY <3>1 DEF TypeOK
    <3> QED
      BY <3>2, <3>3 DEF EntitiesOf
  <2>2. CASE Delete(t, p)
    <3>1. PICK gone \in Removals(t, EntitiesOf(t, Front(t, p).key)) :
            db' = [db EXCEPT ![t] = @ \ gone]
      BY <2>2 DEF Delete
    <3>2. queue[t][p] # <<>>
      BY <2>2 DEF Delete, Waits
    <3>3. u = t => Front(t, p).key # product
      BY <1>4, <1>7, <3>2, FrontPartition
    <3>4. \A x \in gone : x.product = Front(t, p).key
      BY <3>1 DEF Removals, EntitiesOf
    <3>5. db'[u] = IF u = t THEN db[t] \ gone ELSE db[u]
      BY <3>1 DEF TypeOK
    <3> QED
      BY <3>3, <3>4, <3>5 DEF EntitiesOf
  <2>3. CASE ~Create(t, p) /\ ~Delete(t, p)
    <3>1. db' = db
      BY <2>3 DEF Consume, EndDelete, Reject, Acknowledge, DatabaseFails, Crash
    <3> QED
      BY <3>1 DEF EntitiesOf
  <2> QED
    BY <2>1, <2>2, <2>3
<1> QED
  BY <1>1, <1>5, <1>6, <1>7, StoresSame

LEMMA StoredNext == TypeOK /\ HandledWaits /\ Stored /\ [Next]_vars => Stored'
<1> SUFFICES ASSUME TypeOK, HandledWaits, Stored, [Next]_vars,
                    NEW u \in Topics, NEW r \in Partitions
             PROVE  \E n \in [1 .. Len(queue'[u][r]) -> 1 .. Len(sent'[u])] :
                      Consistent(u, r, n)'
  BY DEF Stored
<1>1. CASE UNCHANGED <<queue, sent, handled, db, spoiled>>
  BY <1>1, StoresSame DEF EntitiesOf
<1>2. \/ CreateCompositeProduct \/ DeleteCompositeProduct
      \/ (\E c \in 1 .. Len(calls) : SendFails(c)) \/ UNCHANGED vars
      => UNCHANGED <<queue, sent, handled, db, spoiled>>
  BY DEF CreateCompositeProduct, DeleteCompositeProduct, Call, SendFails, vars, composite,
         consumer
<1>3. ASSUME NEW t \in Topics, NEW p \in Partitions,
             Consume(t, p) \/ DatabaseFails(t, p) \/ Crash(t, p)
      PROVE  \E n \in [1 .. Len(queue'[u][r]) -> 1 .. Len(sent'[u])] :
               Consistent(u, r, n)'
  BY <1>3, ConsumerStored, OthersStored
<1> QED
  BY <1>1, <1>2, <1>3, Steps, SendStored

-----------------------------------------------------------------------------
(* The calls *)

\* A step of the call c leaves the others alone and sends or drops letters.
LEMMA UnsentStep ==
  ASSUME TypeOK, NEW c \in 1 .. Len(calls), Send(c) \/ SendFails(c),
         NEW d \in 1 .. Len(calls)
  PROVE  /\ calls' = calls
         /\ d # c => unsent'[d] = unsent[d]
         /\ unsent[c] # <<>> /\ unsent'[c] \in {<<>>, Tail(unsent[c])}
<1>1. PICK rest \in {<<>>, Tail(unsent[c])} : unsent' = [unsent EXCEPT ![c] = rest]
  BY DEF Send, SendFails
<1>2. c \in DOMAIN unsent /\ d \in DOMAIN unsent
  BY DEF TypeOK
<1>3. unsent[c] # <<>> /\ calls' = calls
  BY DEF Send, SendFails
<1> QED
  BY <1>1, <1>2, <1>3

LEMMA NewCall ==
  ASSUME TypeOK, NEW type \in Types, NEW product \in Int, NEW letters,
         CallLetters(letters, type, product), Call(type, product, letters)
  PROVE  \E n \in Nat : /\ n = Len(calls) + 1 /\ Len(calls') = n
                        /\ calls'[n].type = type /\ calls'[n].product = product
                        /\ unsent'[n] = letters
                        /\ \A c \in 1 .. Len(calls) :
                             calls'[c] = calls[c] /\ unsent'[c] = unsent[c]
<1>1. /\ calls \in Seq([type : Types, product : Int])
      /\ unsent \in Seq(Seq(LetterType)) /\ Len(unsent) = Len(calls)
      /\ letters \in Seq(LetterType)
  BY DEF TypeOK, CallLetters
<1>2. /\ calls' = Append(calls, [type |-> type, product |-> product])
      /\ unsent' = Append(unsent, letters)
  BY DEF Call
<1> QED
  BY <1>1, <1>2, AppendProperties

LEMMA LettersNext == TypeOK /\ HandledWaits /\ Letters /\ [Next]_vars => Letters'
<1> SUFFICES ASSUME TypeOK, HandledWaits, Letters, [Next]_vars PROVE Letters'
  OBVIOUS
<1>1. TypeOK'
  BY NextType
<1>2. CASE UNCHANGED <<calls, unsent>>
  BY <1>2 DEF Letters, Sends
<1>3. ASSUME NEW t \in Topics, NEW p \in Partitions,
             Consume(t, p) \/ DatabaseFails(t, p) \/ Crash(t, p)
      PROVE  UNCHANGED <<calls, unsent>>
  BY <1>3 DEF Consume, Create, Delete, EndDelete, Reject, Acknowledge, DatabaseFails,
              Crash, composite
<1>4. CASE CreateCompositeProduct \/ DeleteCompositeProduct
  <2>0. PICK type \in Types, product \in Int :
          \E l : Call(type, product, l) /\ CallLetters(l, type, product)
    BY <1>4, CallsNext
  <2>1. PICK letters :
          Call(type, product, letters) /\ CallLetters(letters, type, product)
    BY <2>0
  <2>2. PICK n \in Nat : /\ n = Len(calls) + 1 /\ Len(calls') = n
                         /\ calls'[n].type = type /\ calls'[n].product = product
                         /\ unsent'[n] = letters
                         /\ \A c \in 1 .. Len(calls) :
                              calls'[c] = calls[c] /\ unsent'[c] = unsent[c]
    BY <2>1, NewCall
  <2>3. ASSUME NEW c \in 1 .. Len(calls')
        PROVE  c = n \/ c \in 1 .. Len(calls)
    BY <2>2 DEF TypeOK
  <2>4. /\ \A i \in 1 .. Len(unsent'[n]) :
             /\ unsent'[n][i].event.key = calls'[n].product
             /\ unsent'[n][i].event.type = calls'[n].type
        /\ \A i \in 2 .. Len(unsent'[n]) : unsent'[n][i].topic # "products"
        /\ calls'[n].type = "DELETE" /\ Sends(n, "products")' =>
             \A t \in Topics : Sends(n, t)'
    <3>1. \A i \in 2 .. Len(letters) : i \in 1 .. Len(letters)
      OBVIOUS
    <3> QED
      BY <2>1, <2>2, <3>1 DEF CallLetters, Sends
  <2>5. ASSUME NEW c \in 1 .. Len(calls)
        PROVE  /\ \A i \in 1 .. Len(unsent'[c]) :
                    /\ unsent'[c][i].event.key = calls'[c].product
                    /\ unsent'[c][i].event.type = calls'[c].type
               /\ \A i \in 2 .. Len(unsent'[c]) : unsent'[c][i].topic # "products"
               /\ calls'[c].type = "DELETE" /\ Sends(c, "products")' =>
                    \A t \in Topics : Sends(c, t)'
    <3>1. /\ \A i \in 1 .. Len(unsent[c]) :
                 /\ unsent[c][i].event.key = calls[c].product
                 /\ unsent[c][i].event.type = calls[c].type
          /\ \A i \in 2 .. Len(unsent[c]) : unsent[c][i].topic # "products"
          /\ calls[c].type = "DELETE" /\ Sends(c, "products") =>
               \A t \in Topics : Sends(c, t)
      BY DEF Letters
    <3>2. calls'[c] = calls[c] /\ unsent'[c] = unsent[c]
      BY <2>2
    <3>3. \A t : Sends(c, t)' <=> Sends(c, t)
      BY <3>2 DEF Sends
    <3> QED
      BY <3>1, <3>2, <3>3
  <2> QED
    BY <2>3, <2>4, <2>5 DEF Letters
<1>5. ASSUME NEW c \in 1 .. Len(calls), Send(c) \/ SendFails(c)
      PROVE  Letters'
  <2>1. calls' = calls /\ \A d \in 1 .. Len(calls) : d # c => unsent'[d] = unsent[d]
    BY <1>5, UnsentStep
  <2>2. unsent[c] # <<>> /\ unsent'[c] \in {<<>>, Tail(unsent[c])}
    BY <1>5, UnsentStep
  <2>3. ASSUME NEW i \in 1 .. Len(unsent'[c])
        PROVE  /\ unsent'[c][i] = unsent[c][i + 1]
               /\ i + 1 \in 2 .. Len(unsent[c]) /\ i + 1 \in 1 .. Len(unsent[c])
    <3>1. unsent'[c] = Tail(unsent[c])
      <4>1. unsent'[c] # <<>>
        OBVIOUS
      <4> QED
        BY <2>2, <4>1
    <3>2. /\ Len(unsent[c]) \in Nat /\ Len(Tail(unsent[c])) = Len(unsent[c]) - 1
          /\ \A j \in 1 .. Len(unsent[c]) - 1 : Tail(unsent[c])[j] = unsent[c][j + 1]
      BY <2>2, NextLetter
    <3> QED
      BY <3>1, <3>2
  <2>4. ASSUME NEW d \in 1 .. Len(calls)
        PROVE  /\ \A i \in 1 .. Len(unsent'[d]) :
                    /\ unsent'[d][i].event.key = calls[d].product
                    /\ unsent'[d][i].event.type = calls[d].type
               /\ \A i \in 2 .. Len(unsent'[d]) : unsent'[d][i].topic # "products"
               /\ calls[d].type = "DELETE" /\ Sends(d, "products")' =>
                    \A t \in Topics : Sends(d, t)'
    <3>1. CASE d # c
      <4>1. unsent'[d] = unsent[d]
        BY <2>1, <3>1
      <4>2. \A t : Sends(d, t)' <=> Sends(d, t)
        BY <4>1 DEF Sends
      <4> QED
        BY <4>1, <4>2 DEF Letters
    <3>2. CASE d = c
      <4>1. \A i \in 1 .. Len(unsent'[c]) :
              /\ unsent'[c][i].event.key = calls[c].product
              /\ unsent'[c][i].event.type = calls[c].type
              /\ unsent'[c][i].topic # "products"
        BY <2>3 DEF Letters
      <4>2. \A i \in 2 .. Len(unsent'[c]) : i \in 1 .. Len(unsent'[c])
        OBVIOUS
      <4>3. ~Sends(c, "products")'
        BY <4>1 DEF Sends
      <4> QED
        BY <3>2, <4>1, <4>2, <4>3
    <3> QED
      BY <3>1, <3>2
  <2> QED
    BY <2>1, <2>4 DEF Letters
<1>6. CASE UNCHANGED vars
  BY <1>2, <1>6 DEF vars, composite
<1> QED
  BY <1>2, <1>3, <1>4, <1>5, <1>6, Steps

\* The product of an entity that is stored is valid.
LEMMA ValidNext == TypeOK /\ ValidOnly /\ [Next]_vars => ValidOnly'
<1> SUFFICES ASSUME TypeOK, ValidOnly, [Next]_vars, NEW u \in Topics, NEW x \in db'[u]
             PROVE  x.product >= 1
  BY DEF ValidOnly
<1>1. CASE UNCHANGED db
  BY <1>1 DEF ValidOnly
<1>2. ASSUME NEW t \in Topics, NEW p \in Partitions, Create(t, p)
      PROVE  x.product >= 1
  <2>1. /\ db' = [db EXCEPT ![t] = @ \cup {Entity(Front(t, p))}]
        /\ ~(Front(t, p).key < 1) /\ queue[t][p] # <<>>
    BY <1>2 DEF Create, Waits, Rejected
  <2>2. Front(t, p).key \in Int
    BY <2>1, FrontEvent DEF Event
  <2>3. Entity(Front(t, p)).product >= 1
    BY <2>1, <2>2 DEF Entity
  <2>4. x \in db[u] \/ x = Entity(Front(t, p))
    BY <2>1 DEF TypeOK
  <2> QED
    BY <2>3, <2>4 DEF ValidOnly
<1>3. ASSUME NEW t \in Topics, NEW p \in Partitions, Delete(t, p)
      PROVE  x.product >= 1
  <2>1. PICK gone : db' = [db EXCEPT ![t] = @ \ gone]
    BY <1>3 DEF Delete
  <2>2. x \in db[u]
    BY <2>1 DEF TypeOK
  <2> QED
    BY <2>2 DEF ValidOnly
<1>4. ASSUME NEW t \in Topics, NEW p \in Partitions,
             Consume(t, p) \/ DatabaseFails(t, p) \/ Crash(t, p),
             ~Create(t, p), ~Delete(t, p)
      PROVE  UNCHANGED db
  BY <1>4 DEF Consume, EndDelete, Reject, Acknowledge, DatabaseFails, Crash
<1>5. \/ CreateCompositeProduct \/ DeleteCompositeProduct
      \/ (\E c \in 1 .. Len(calls) : Send(c) \/ SendFails(c)) \/ UNCHANGED vars
      => UNCHANGED db
  BY DEF CreateCompositeProduct, DeleteCompositeProduct, Call, Send, SendFails, vars,
         consumer
<1> QED
  BY <1>1, <1>2, <1>3, <1>4, <1>5, Steps

-----------------------------------------------------------------------------
(* What was sent of a product that is not crossed *)

\* What a step other than sending leaves of a product, and who still sends.
LEMMA ApartSame ==
  ASSUME NEW product, Apart(product), sent' = sent,
         \A c, d \in 1 .. Len(calls') :
           ~(Active(c, "CREATE", product)' /\ Active(d, "DELETE", product)'),
         \A c \in 1 .. Len(calls') :
           Active(c, "CREATE", product)' /\ ~Sends(c, "products")' =>
             \E d \in 1 .. Len(calls) :
               Active(d, "CREATE", product) /\ ~Sends(d, "products"),
         \A t \in Topics, c \in 1 .. Len(calls) :
           Active(c, "DELETE", product) /\ Sends(c, t) =>
             \E d \in 1 .. Len(calls') : Active(d, "DELETE", product)' /\ Sends(d, t)'
  PROVE  Apart(product)'
<1>1. \A t : Left(t, product)' = Left(t, product)
  BY DEF Left
<1> QED
  BY <1>1 DEF Apart

LEMMA CallApart ==
  ASSUME TypeOK, NEW product \in Int, Apart(product), product \notin crossed',
         NEW type \in Types, NEW own \in Int, NEW letters,
         CallLetters(letters, type, own), Call(type, own, letters)
  PROVE  Apart(product)'
<1>1. PICK n \in Nat : /\ n = Len(calls) + 1 /\ Len(calls') = n
                       /\ calls'[n].type = type /\ calls'[n].product = own
                       /\ unsent'[n] = letters
                       /\ \A c \in 1 .. Len(calls) :
                            calls'[c] = calls[c] /\ unsent'[c] = unsent[c]
  BY NewCall
<1>2. ASSUME NEW c \in 1 .. Len(calls')
      PROVE  c = n \/ c \in 1 .. Len(calls)
  BY <1>1 DEF TypeOK
<1>3. ASSUME NEW c \in 1 .. Len(calls)
      PROVE  /\ c \in 1 .. Len(calls')
             /\ \A k : Active(c, k, product)' <=> Active(c, k, product)
             /\ \A t : Sends(c, t)' <=> Sends(c, t)
  <2>1. calls'[c] = calls[c] /\ unsent'[c] = unsent[c]
    BY <1>1
  <2>2. c \in 1 .. Len(calls')
    BY <1>1 DEF TypeOK
  <2> QED
    BY <2>1, <2>2 DEF Active, Sends
<1>4. sent' = sent
  BY DEF Call
<1>5. type = "CREATE" => Sends(n, "products")'
  <2> SUFFICES ASSUME type = "CREATE" PROVE Sends(n, "products")'
    OBVIOUS
  <2>1. letters[1].topic = "products" /\ 1 \in 1 .. Len(letters)
    BY DEF CallLetters
  <2> QED
    BY <1>1, <2>1 DEF Sends
<1>6. ASSUME NEW c \in 1 .. Len(calls), own = product,
             unsent[c] # <<>>, calls[c].product = product
      PROVE  calls[c].type = type
  <2>1. c \in DOMAIN calls
    BY DEF TypeOK
  <2>2. ASSUME calls[c].type # type PROVE crossed' = crossed \cup {own}
    BY <1>6, <2>1, <2>2 DEF Call
  <2> QED
    BY <1>6, <2>2
<1>7. \A k : Active(n, k, product)' => k = type /\ own = product
  BY <1>1 DEF Active
<1>8. ASSUME NEW c \in 1 .. Len(calls), own = product, NEW k, Active(c, k, product)
      PROVE  k = type
  BY <1>6, <1>8 DEF Active
<1>9. ASSUME NEW c \in 1 .. Len(calls'), NEW d \in 1 .. Len(calls'),
             Active(c, "CREATE", product)', Active(d, "DELETE", product)'
      PROVE  FALSE
  <2>1. CASE c \in 1 .. Len(calls) /\ d \in 1 .. Len(calls)
    BY <1>3, <1>9, <2>1 DEF Apart
  <2>2. CASE c = n
    <3>1. type = "CREATE" /\ own = product
      BY <1>7, <1>9, <2>2
    <3> QED
      BY <1>2, <1>3, <1>7, <1>8, <1>9, <3>1
  <2>3. CASE d = n
    <3>1. type = "DELETE" /\ own = product
      BY <1>7, <1>9, <2>3
    <3> QED
      BY <1>2, <1>3, <1>7, <1>8, <1>9, <3>1
  <2> QED
    BY <1>2, <2>1, <2>2, <2>3
<1>10. ASSUME NEW c \in 1 .. Len(calls'),
              Active(c, "CREATE", product)', ~Sends(c, "products")'
       PROVE  \E d \in 1 .. Len(calls) :
                Active(d, "CREATE", product) /\ ~Sends(d, "products")
  <2>1. c # n
    BY <1>5, <1>7, <1>10
  <2> QED
    BY <1>2, <1>3, <1>10, <2>1
<1>11. \A t \in Topics, c \in 1 .. Len(calls) :
         Active(c, "DELETE", product) /\ Sends(c, t) =>
           \E d \in 1 .. Len(calls') : Active(d, "DELETE", product)' /\ Sends(d, t)'
  BY <1>3
<1> QED
  BY <1>4, <1>9, <1>10, <1>11, ApartSame

\* The calls after a step of one of them.
LEMMA ActiveStep ==
  ASSUME TypeOK, NEW c \in 1 .. Len(calls), Send(c) \/ SendFails(c),
         NEW d \in 1 .. Len(calls), NEW product
  PROVE  /\ \A k : Active(d, k, product)' => Active(d, k, product)
         /\ d # c => /\ \A k : Active(d, k, product)' <=> Active(d, k, product)
                     /\ \A t : Sends(d, t)' <=> Sends(d, t)
<1>1. /\ calls' = calls /\ unsent[c] # <<>>
      /\ d # c => unsent'[d] = unsent[d]
  BY UnsentStep
<1> QED
  BY <1>1 DEF Active, Sends

LEMMA SendFailsApart ==
  ASSUME TypeOK, NEW product \in Int, Apart(product), NEW c \in 1 .. Len(calls),
         SendFails(c), product \notin cut'
  PROVE  Apart(product)'
<1>1. calls[c].product # product /\ sent' = sent /\ calls' = calls
  BY DEF SendFails
<1>2. \A k : ~Active(c, k, product) /\ ~Active(c, k, product)'
  BY <1>1 DEF Active
<1>3. ASSUME NEW d \in 1 .. Len(calls), d # c
      PROVE  /\ \A k : Active(d, k, product)' <=> Active(d, k, product)
             /\ \A t : Sends(d, t)' <=> Sends(d, t)
  BY <1>3, ActiveStep
<1>4. \A d, x \in 1 .. Len(calls') :
        ~(Active(d, "CREATE", product)' /\ Active(x, "DELETE", product)')
  BY <1>1, <1>2, <1>3 DEF Apart
<1>5. \A d \in 1 .. Len(calls') :
        Active(d, "CREATE", product)' /\ ~Sends(d, "products")' =>
          \E x \in 1 .. Len(calls) :
            Active(x, "CREATE", product) /\ ~Sends(x, "products")
  BY <1>1, <1>2, <1>3
<1>6. \A t \in Topics, d \in 1 .. Len(calls) :
        Active(d, "DELETE", product) /\ Sends(d, t) =>
          \E x \in 1 .. Len(calls') : Active(x, "DELETE", product)' /\ Sends(x, t)'
  BY <1>1, <1>2, <1>3
<1> QED
  BY <1>1, <1>4, <1>5, <1>6, ApartSame

\* What an event that is sent leaves of the products.
LEMMA SendLeaves ==
  ASSUME TypeOK, Letters, NEW c \in 1 .. Len(calls), Send(c), NEW t,
         t = Head(unsent[c]).topic, NEW product \in Int
  PROVE  /\ t \in Topics
         /\ \A u \in Topics : u # t \/ calls[c].product # product =>
              Left(u, product)' = Left(u, product)
         /\ calls[c].product = product /\ calls[c].type = "CREATE" =>
              Left(t, product)' # {}
         /\ calls[c].product = product /\ calls[c].type = "DELETE" =>
              Left(t, product)' = {}
<1>1. PICK e : e = Head(unsent[c]).event
  OBVIOUS
<1>2. /\ t \in Topics /\ e \in Event /\ unsent[c] # <<>> /\ Len(unsent[c]) >= 1
      /\ Head(unsent[c]) = unsent[c][1]
  BY <1>1, NextLetter DEF Send, LetterType
<1>3. e.key = calls[c].product /\ e.type = calls[c].type
  <2>1. 1 \in 1 .. Len(unsent[c])
    BY <1>2 DEF TypeOK
  <2> QED
    BY <1>1, <1>2, <2>1 DEF Letters
<1>4. sent' = [sent EXCEPT ![t] = Append(@, e)]
  BY <1>1 DEF Send
<1>5. \A u \in Topics : u # t => sent'[u] = sent[u]
  BY <1>4 DEF TypeOK
<1>6. sent'[t] = Append(sent[t], e) /\ sent[t] \in Seq(Event)
  BY <1>2, <1>4 DEF TypeOK
<1>7. \A u \in Topics : u # t => Left(u, product)' = Left(u, product)
  BY <1>5 DEF Left
<1>8. PICK s \in Seq(Event), v \in Seq(Event) : s = sent[t] /\ v = Append(s, e)
  BY <1>2, <1>6, AppendProperties
<1>9. PICK n \in Nat \ {0} : n = Len(v) /\ n - 1 = Len(s) /\ v[n] = e
  BY <1>2, <1>8, AppendProperties
<1>10. Left(t, product)' = Final(v, product, n) /\ Left(t, product) = Final(s, product, n - 1)
  BY <1>6, <1>8, <1>9 DEF Left
<1>11. Final(v, product, n - 1) = Final(s, product, n - 1)
  <2>1. n - 1 \in 0 .. Len(s)
    BY <1>9
  <2> QED
    BY <1>2, <1>8, <2>1, FinalAppend
<1>12. calls[c].product # product => Left(t, product)' = Left(t, product)
  BY <1>3, <1>9, <1>10, <1>11, FinalStep
<1>13. calls[c].product = product /\ calls[c].type = "CREATE" => Left(t, product)' # {}
  <2> SUFFICES ASSUME e.key = product, e.type = "CREATE"
               PROVE  Left(t, product)' # {}
    BY <1>3
  <2>1. Created(v, product, n)
    BY <1>9 DEF Created
  <2>2. Final(v, product, n) = Final(v, product, n - 1) \cup {Entity(v[n])}
    BY <2>1, FinalStep
  <2> QED
    BY <1>10, <2>2
<1>14. calls[c].product = product /\ calls[c].type = "DELETE" => Left(t, product)' = {}
  BY <1>3, <1>9, <1>10, FinalStep DEF Removes
<1> QED
  BY <1>2, <1>7, <1>12, <1>13, <1>14

LEMMA SendApart ==
  ASSUME TypeOK, Letters, NEW product \in Int, Apart(product),
         NEW c \in 1 .. Len(calls), Send(c)
  PROVE  Apart(product)'
<1>1. PICK t : t = Head(unsent[c]).topic
  OBVIOUS
<1>2. t \in Topics /\ calls' = calls /\ "products" \in Topics
  BY <1>1, SendLeaves DEF Send, Topics
<1>3. \A u \in Topics : u # t \/ calls[c].product # product =>
        Left(u, product)' = Left(u, product)
  BY <1>1, SendLeaves
<1>4. ASSUME NEW d \in 1 .. Len(calls)
      PROVE  \A k : Active(d, k, product)' => Active(d, k, product)
  BY ActiveStep
<1>5. ASSUME NEW d \in 1 .. Len(calls), d # c
      PROVE  /\ \A k : Active(d, k, product)' <=> Active(d, k, product)
             /\ \A u : Sends(d, u)' <=> Sends(d, u)
  BY <1>5, ActiveStep
<1>6. \A d, x \in 1 .. Len(calls') :
        ~(Active(d, "CREATE", product)' /\ Active(x, "DELETE", product)')
  BY <1>2, <1>4 DEF Apart
<1>7. CASE calls[c].product # product
  <2>1. \A k : ~Active(c, k, product) /\ ~Active(c, k, product)'
    BY <1>2, <1>7 DEF Active
  <2>2. \A u \in Topics : Left(u, product)' = Left(u, product)
    BY <1>3, <1>7
  <2>3. \A d \in 1 .. Len(calls') :
          Active(d, "CREATE", product)' /\ ~Sends(d, "products")'
            => Left("products", product)' # {}
    BY <1>2, <1>5, <2>1, <2>2 DEF Apart
  <2>4. \A u \in Topics :
          Left(u, product)' # {} =>
            \/ Left("products", product)' # {}
            \/ \E d \in 1 .. Len(calls') : Active(d, "DELETE", product)' /\ Sends(d, u)'
    BY <1>2, <1>5, <2>1, <2>2 DEF Apart
  <2> QED
    BY <1>6, <2>3, <2>4 DEF Apart
<1>8. CASE calls[c].product = product
  <2>1. unsent[c] # <<>> /\ calls[c].type \in Types /\ unsent[c] \in Seq(LetterType)
    <3>1. calls[c] \in [type : Types, product : Int]
      BY ElementOfSeq DEF TypeOK
    <3> QED
      BY <3>1 DEF Send, TypeOK
  <2>2. /\ Len(unsent[c]) >= 1 /\ Len(unsent[c]) \in Nat /\ unsent[c][1].topic = t
        /\ unsent'[c] = Tail(unsent[c]) /\ unsent'[c] \in Seq(LetterType)
        /\ Len(unsent'[c]) = Len(unsent[c]) - 1
        /\ \A i \in 1 .. Len(unsent[c]) - 1 : unsent'[c][i] = unsent[c][i + 1]
    BY <1>1, <2>1, NextLetter DEF Send, TypeOK
  <2>3. ASSUME NEW u \in Topics, Sends(c, u), u # t
        PROVE  Sends(c, u)' /\ unsent'[c] # <<>>
    <3>1. PICK i \in 1 .. Len(unsent[c]) : unsent[c][i].topic = u
      BY <2>3 DEF Sends
    <3>2. i # 1
      BY <2>2, <2>3, <3>1
    <3>3. i - 1 \in 1 .. Len(unsent'[c]) /\ unsent'[c][i - 1] = unsent[c][i]
      BY <2>2, <3>2
    <3>4. Sends(c, u)'
      BY <3>1, <3>3 DEF Sends
    <3>5. unsent'[c] # <<>>
      <4>1. Len(unsent'[c]) # 0
        BY <2>2, <3>3
      <4> QED
        BY <4>1
    <3> QED
      BY <3>4, <3>5
  <2>4. t # "products" => ~Sends(c, "products")
    <3> SUFFICES ASSUME t # "products", NEW i \in 1 .. Len(unsent[c]),
                        unsent[c][i].topic = "products"
                 PROVE  FALSE
      BY DEF Sends
    <3>1. i = 1 \/ i \in 2 .. Len(unsent[c])
      BY <2>2
    <3> QED
      BY <2>2, <3>1 DEF Letters
  <2>5. CASE calls[c].type = "CREATE"
    <3>1. Active(c, "CREATE", product)
      BY <1>8, <2>1, <2>5 DEF Active
    <3>2. Left("products", product)' # {}
      <4>1. CASE t = "products"
        BY <1>1, <1>8, <2>5, <4>1, SendLeaves
      <4>2. CASE t # "products"
        <5>1. Left("products", product) # {}
          BY <2>4, <3>1, <4>2 DEF Apart
        <5> QED
          BY <1>2, <1>3, <4>2, <5>1
      <4> QED
        BY <4>1, <4>2
    <3> QED
      BY <1>6, <3>2 DEF Apart
  <2>6. CASE calls[c].type = "DELETE"
    <3>1. Active(c, "DELETE", product)
      BY <1>8, <2>1, <2>6 DEF Active
    <3>2. \A d \in 1 .. Len(calls) : ~Active(d, "CREATE", product)
      BY <3>1 DEF Apart
    <3>3. Left(t, product)' = {}
      BY <1>1, <1>8, <2>6, SendLeaves
    <3>4. ASSUME NEW u \in Topics, Sends(c, u), u # t
          PROVE  \E d \in 1 .. Len(calls') : Active(d, "DELETE", product)' /\ Sends(d, u)'
      <4>1. Sends(c, u)' /\ unsent'[c] # <<>>
        BY <2>3, <3>4
      <4>2. Active(c, "DELETE", product)'
        BY <1>2, <1>8, <2>6, <4>1 DEF Active
      <4> QED
        BY <1>2, <4>1, <4>2
    <3>5. ASSUME NEW u \in Topics, Left(u, product)' # {}
          PROVE  \/ Left("products", product)' # {}
                 \/ \E d \in 1 .. Len(calls') : Active(d, "DELETE", product)' /\ Sends(d, u)'
      <4>1. u # t /\ Left(u, product) # {}
        BY <1>3, <3>3, <3>5
      <4>2. CASE t = "products"
        <5>1. Sends(c, "products")
          <6>1. 1 \in 1 .. Len(unsent[c])
            BY <2>2
          <6> QED
            BY <2>2, <4>2, <6>1 DEF Sends
        <5>2. Sends(c, u)
          BY <2>6, <5>1 DEF Letters
        <5> QED
          BY <3>4, <4>1, <5>2
      <4>3. CASE t # "products"
        <5>1. Left("products", product)' = Left("products", product)
          BY <1>2, <1>3, <4>3
        <5>2. CASE Left("products", product) # {}
          BY <5>1, <5>2
        <5>3. ASSUME NEW d \in 1 .. Len(calls), Active(d, "DELETE", product), Sends(d, u)
              PROVE  \E x \in 1 .. Len(calls') :
                       Active(x, "DELETE", product)' /\ Sends(x, u)'
          <6>1. CASE d # c
            BY <1>2, <1>5, <5>3, <6>1
          <6>2. CASE d = c
            BY <3>4, <4>1, <5>3, <6>2
          <6> QED
            BY <6>1, <6>2
        <5> QED
          BY <4>1, <5>2, <5>3 DEF Apart
      <4> QED
        BY <4>2, <4>3
    <3>6. \A d \in 1 .. Len(calls') : ~Active(d, "CREATE", product)'
      BY <1>2, <1>4, <3>2
    <3> QED
      BY <1>6, <3>5, <3>6 DEF Apart
  <2> QED
    BY <2>1, <2>5, <2>6 DEF Types
<1> QED
  BY <1>7, <1>8

LEMMA OrderedNext == TypeOK /\ Letters /\ Ordered /\ [Next]_vars => Ordered'
<1> SUFFICES ASSUME TypeOK, Letters, Ordered, [Next]_vars,
                    NEW product \in Int \ (cut' \cup crossed')
             PROVE  Apart(product)'
  BY DEF Ordered
<1>1. CASE UNCHANGED <<calls, unsent, sent, cut, crossed>>
  <2>1. Apart(product)
    BY <1>1 DEF Ordered
  <2> QED
    <3>1. \A c, k : Active(c, k, product)' <=> Active(c, k, product)
      BY <1>1 DEF Active
    <3>2. \A c, t : Sends(c, t)' <=> Sends(c, t)
      BY <1>1 DEF Sends
    <3>3. Len(calls') = Len(calls) /\ sent' = sent
      BY <1>1
    <3>4. \A c, d \in 1 .. Len(calls') :
            ~(Active(c, "CREATE", product)' /\ Active(d, "DELETE", product)')
      BY <2>1, <3>1, <3>3 DEF Apart
    <3> QED
      BY <2>1, <3>1, <3>2, <3>3, <3>4, ApartSame
<1>2. CASE CreateCompositeProduct \/ DeleteCompositeProduct
  <2>0. PICK type \in Types, own \in Int :
          \E l : Call(type, own, l) /\ CallLetters(l, type, own)
    BY <1>2, CallsNext
  <2>1. PICK letters :
          Call(type, own, letters) /\ CallLetters(letters, type, own)
    BY <2>0
  <2>2. crossed \subseteq crossed' /\ cut' = cut
    BY <2>1 DEF Call
  <2>3. Apart(product)
    BY <2>2 DEF Ordered
  <2> QED
    BY <2>1, <2>3, CallApart
<1>3. ASSUME NEW c \in 1 .. Len(calls), Send(c) \/ SendFails(c)
      PROVE  Apart(product)'
  <2>1. crossed' = crossed /\ cut \subseteq cut'
    BY <1>3 DEF Send, SendFails
  <2>2. Apart(product)
    BY <2>1 DEF Ordered
  <2> QED
    BY <1>3, <2>2, SendApart, SendFailsApart
<1>4. ASSUME NEW t \in Topics, NEW p \in Partitions,
             Consume(t, p) \/ DatabaseFails(t, p) \/ Crash(t, p)
      PROVE  UNCHANGED <<calls, unsent, sent, cut, crossed>>
  BY <1>4 DEF Consume, Create, Delete, EndDelete, Reject, Acknowledge, DatabaseFails,
              Crash, composite
<1>5. CASE UNCHANGED vars
  BY <1>1, <1>5 DEF vars, composite
<1> QED
  BY <1>1, <1>2, <1>3, <1>4, <1>5, Steps

-----------------------------------------------------------------------------
(* The theorems *)

LEMMA InitInvariant == Init => SInv
<1> SUFFICES ASSUME Init PROVE SInv
  OBVIOUS
<1>1. TypeOK
  BY DEF Init, TypeOK
<1>2. HandledWaits /\ ValidOnly
  BY DEF Init, HandledWaits, ValidOnly
<1>3. Letters
  BY DEF Init, Letters
<1>4. \A t, product : Final(<<>>, product, 0) = {}
  BY DEF Final
<1>5. Ordered
  <2>1. \A t \in Topics : sent[t] = <<>>
    BY DEF Init
  <2>2. \A t \in Topics : \A product : Left(t, product) = {}
    BY <1>4, <2>1 DEF Left
  <2> QED
    BY <2>2 DEF Init, Ordered, Apart
<1>6. ASSUME NEW t \in Topics, NEW p \in Partitions
      PROVE  \E m \in [1 .. Len(queue[t][p]) -> 1 .. Len(sent[t])] : Consistent(t, p, m)
  <2>1. sent[t] = <<>> /\ queue[t][p] = <<>> /\ db[t] = {} /\ ~handled[t][p]
    BY DEF Init
  <2>2. PICK m : m = [i \in 1 .. 0 |-> 1]
    OBVIOUS
  <2>3. m \in [1 .. Len(queue[t][p]) -> 1 .. Len(sent[t])]
    BY <2>1, <2>2
  <2>4. Placed(sent[t], queue[t][p], p, m)
    BY <2>1, <2>3 DEF Placed
  <2>5. \A product : Stores(t, p, m, product)
    BY <1>4, <2>1 DEF Stores, Keeps, EntitiesOf
  <2> QED
    BY <2>3, <2>4, <2>5 DEF Consistent
<1> QED
  BY <1>1, <1>2, <1>3, <1>5, <1>6 DEF SInv, Stored

LEMMA NextInvariant == SInv /\ [Next]_vars => SInv'
  BY NextType, HandledNext, StoredNext, LettersNext, OrderedNext, ValidNext DEF SInv

\* The calls, letters, events and entities have the shape the code gives them.
THEOREM TypeCorrect == Spec => []TypeOK
<1>1. SInv => TypeOK
  BY DEF SInv
<1> QED
  BY <1>1, InitInvariant, NextInvariant, PTL DEF Spec

\* What a service stores of a product all of whose events it has handled.
LEMMA SettledLeft ==
  ASSUME SInv, NEW t \in Topics, NEW product \in Int, product >= 1,
         Settled(t, product)
  PROVE  EntitiesOf(t, product) = Left(t, product)
<1> DEFINE p == product % PartitionCount
<1>1. TypeOK /\ Stored /\ p \in Partitions /\ product \notin spoiled
  BY Partition DEF SInv, Settled
<1>2. PICK m : Placed(sent[t], queue[t][p], p, m) /\ Stores(t, p, m, product)
  BY <1>1, Consistently
<1>3. PICK s \in Seq(Event), q \in Seq(Event) : s = sent[t] /\ q = queue[t][p]
  BY <1>1, Consistently
<1>4. Len(s) \in Nat /\ Len(q) \in Nat /\ Placed(s, q, p, m)
  BY <1>2, <1>3
<1>5. Left(t, product) = Final(s, product, Len(s))
  BY <1>3 DEF Left
<1>6. CASE q = <<>>
  BY <1>2, <1>3, <1>5, <1>6 DEF Stores, Keeps
<1>7. CASE q # <<>>
  <2>1. m[1] \in Nat \ {0} /\ m[1] \in 1 .. Len(s) /\ s[m[1]] = q[1] /\ 1 \in 1 .. Len(q)
    BY <1>4, <1>7, PlacedFirst
  <2>2. \A i \in 1 .. Len(q) : q[i].key # product
    BY <1>1, <1>3 DEF Settled
  <2>3. PICK k \in Nat \ {0} : k = m[1]
    BY <2>1
  <2>4. s[k].key # product
    BY <2>1, <2>2, <2>3
  <2>5. Final(s, product, k) = Final(s, product, k - 1)
    BY <2>4, FinalStep
  <2>6. EntitiesOf(t, product) = Final(s, product, k)
    BY <1>2, <1>3, <1>7, <2>3, <2>5 DEF Stores, Keeps, Between
  <2>7. ASSUME NEW l \in k + 1 .. Len(s), s[l].key = product
        PROVE  FALSE
    <3>1. l \in 1 .. Len(s) /\ l > m[1]
      BY <1>4, <2>3
    <3>2. InPartition(s, p, l)
      BY <2>7 DEF InPartition, PartitionOf
    <3>3. PICK i \in 1 .. Len(q) : l = m[i]
      BY <1>4, <2>1, <3>1, <3>2 DEF Placed
    <3>4. q[i] = s[l]
      BY <1>4, <3>3 DEF Placed
    <3> QED
      BY <2>2, <2>7, <3>4
  <2>8. k \in Nat /\ k <= Len(s)
    BY <2>1, <2>3
  <2>9. \A l \in k + 1 .. Len(s) : s[l].key # product
    BY <2>7
  <2>10. Final(s, product, Len(s)) = Final(s, product, k)
    BY <1>4, <2>8, <2>9, FinalSkip
  <2> QED
    BY <1>5, <2>6, <2>10
<1> QED
  BY <1>6, <1>7

LEMMA LeftLastSent ==
  ASSUME TypeOK, NEW t \in Topics, NEW product
  PROVE  Left(t, product) = LastSent(t, product)
<1>1. PICK s \in Seq(Event), n \in Nat : s = sent[t] /\ n = Len(s) /\ DOMAIN s = 1 .. n
  BY DEF TypeOK
<1>2. ASSUME NEW k \in 1 .. n
      PROVE  /\ Created(s, product, k) /\ \A l \in k + 1 .. n : ~Removes(s, product, l)
             <=> /\ s[k].type = "CREATE" /\ s[k].key = product
                 /\ \A l \in 1 .. n : s[l].type = "DELETE" /\ s[l].key = product => l < k
  <2>1. \A l \in 1 .. n : l < k \/ l = k \/ l \in k + 1 .. n
    OBVIOUS
  <2>2. \A l \in k + 1 .. n : l \in 1 .. n /\ ~(l < k)
    OBVIOUS
  <2> QED
    BY <2>1, <2>2 DEF Created, Removes
<1> QED
  BY <1>1, <1>2 DEF Left, LastSent, Final

\* StoredIsLastSent is an invariant for any products, partitions, attempts,
\* calls and failures: a service that has handled all events about a product
\* stores what was created last.
THEOREM StoresLastSent == Spec => []StoredIsLastSent
<1>1. SInv => StoredIsLastSent
  <2> SUFFICES ASSUME SInv, NEW t \in Topics, NEW product \in Products,
                      product >= 1, Settled(t, product)
               PROVE  EntitiesOf(t, product) = LastSent(t, product)
    BY DEF StoredIsLastSent
  <2>1. product \in Int /\ TypeOK
    BY AggregateAssumption DEF SInv
  <2> QED
    BY <2>1, SettledLeft, LeftLastSent
<1> QED
  BY <1>1, InitInvariant, NextInvariant, PTL DEF Spec

\* NoOrphans is an invariant: once all is quiet, the services agree about a
\* product whose calls sent all their events and did not cross each other.
THEOREM ServicesAgree == Spec => []NoOrphans
<1>1. SInv => NoOrphans
  <2> SUFFICES ASSUME SInv, NEW product \in Products \ (cut \cup crossed), Idle(product),
                      EntitiesOf("products", product) = {}, NEW t \in Topics
               PROVE  EntitiesOf(t, product) = {}
    BY DEF NoOrphans
  <2>1. product \in Int /\ TypeOK /\ ValidOnly /\ "products" \in Topics
    BY AggregateAssumption DEF SInv, Topics
  <2>2. CASE product < 1
    BY <2>1, <2>2 DEF ValidOnly, EntitiesOf
  <2>3. CASE product >= 1
    <3>1. \A u \in Topics : EntitiesOf(u, product) = Left(u, product)
      BY <2>1, <2>3, SettledLeft DEF Idle
    <3>2. \A c \in 1 .. Len(calls) : ~Active(c, "DELETE", product)
      <4>1. DOMAIN calls = 1 .. Len(calls)
        BY <2>1 DEF TypeOK
      <4> QED
        BY <4>1 DEF Idle, Active
    <3>3. Apart(product)
      BY <2>1 DEF SInv, Ordered
    <3>4. Left("products", product) = {}
      BY <2>1, <3>1
    <3> QED
      BY <3>1, <3>2, <3>3, <3>4 DEF Apart
  <2> QED
    BY <2>1, <2>2, <2>3
<1> QED
  BY <1>1, InitInvariant, NextInvariant, PTL DEF Spec

=============================================================================
