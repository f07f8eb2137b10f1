----------------------------- MODULE ShopEvents ----------------------------
(***************************************************************************)
(* The online shop's writes.  The composite service splits an aggregate    *)
(* into events to three topics (ProductCompositeServiceImpl,               *)
(* ProductCompositeIntegration); the message processors of the product,    *)
(* recommendation and review services apply them to their databases, each  *)
(* partition of a topic by one instance and in order.  An event that       *)
(* cannot be applied is tried maxAttempts times and then moved to a dead   *)
(* letter queue; one that was not acknowledged is delivered again.         *)
(*                                                                         *)
(* An entity is its product and, in the last two services, its own id.     *)
(* Product ids below 1 are invalid, which only the services look at.       *)
(***************************************************************************)
EXTENDS Integers, Sequences

CONSTANTS
  Products,        \* ids of the products that callers delete
  Aggregates,      \* bodies that are posted: product, recommendations, reviews
  PartitionCount,  \* partition-count of the producers
  MaxAttempts,     \* maxAttempts of the consumers
  MaxCalls,        \* bound: calls of the composite service
  MaxFaults        \* bound: sends that fail, crashes, failing databases

ASSUME AggregateAssumption ==
  /\ Products \subseteq Int
  /\ \A body \in Aggregates : /\ body.productId \in Int
                              /\ body.recommendations \in Seq(Nat)
                              /\ body.reviews \in Seq(Nat)

ASSUME CountAssumption ==
  /\ PartitionCount \in Nat \ {0} /\ MaxAttempts \in Nat \ {0}
  /\ MaxCalls \in Nat /\ MaxFaults \in Nat

Topics == {"products", "recommendations", "reviews"}

Partitions == 0 .. PartitionCount - 1

VARIABLES
  calls,       \* the calls made: what they do to which product
  unsent,      \* per call, the events it has still to send
  queue,       \* per topic and partition, the events not acknowledged
  attempts,    \* how often the one in front has failed
  handled,     \* it is applied or a dead letter, and not yet acknowledged
  db,          \* per topic, the entities in the service's database
  deadLetters, \* per topic, the events in its dead letter queue
  faults,
  sent,        \* history: per topic, the events sent, in order
  spoiled,     \* history: products of events given up as the database failed
  cut,         \* history: products of calls that did not send all events
  crossed      \* history: products that were created and deleted side by side

composite == <<calls, unsent, sent, cut, crossed>>
consumer == <<attempts, handled, db, deadLetters, spoiled>>
vars == <<composite, queue, consumer, faults>>

Init ==
  /\ calls = <<>> /\ unsent = <<>>
  /\ queue = [t \in Topics |-> [p \in Partitions |-> <<>>]]
  /\ attempts = [t \in Topics |-> [p \in Partitions |-> 0]]
  /\ handled = [t \in Topics |-> [p \in Partitions |-> FALSE]]
  /\ db = [t \in Topics |-> {}]
  /\ deadLetters = [t \in Topics |-> {}]
  /\ faults = 0
  /\ sent = [t \in Topics |-> <<>>]
  /\ spoiled = {} /\ cut = {} /\ crossed = {}

-----------------------------------------------------------------------------
(* ProductCompositeServiceImpl *)

Letter(topic, type, product, id) ==
  [topic |-> topic, event |-> [type |-> type, key |-> product, id |-> id]]

CreateEvents(body) ==
  LET Parts(topic, ids) ==
        [i \in DOMAIN ids |-> Letter(topic, "CREATE", body.productId, ids[i])]
  IN  <<Letter("products", "CREATE", body.productId, 0)>>
      \o Parts("recommendations", body.recommendations)
      \o Parts("reviews", body.reviews)

\* Mutant: the reviews stay.
DeleteEvents_WithoutReviews(product) ==
  <<Letter("products", "DELETE", product, 0),
    Letter("recommendations", "DELETE", product, 0)>>

DeleteEvents(product) ==
  <<Letter("products", "DELETE", product, 0),
    Letter("recommendations", "DELETE", product, 0),
    Letter("reviews", "DELETE", product, 0)>>

Call(type, product, letters) ==
  /\ Len(calls) < MaxCalls
  /\ calls' = Append(calls, [type |-> type, product |-> product])
  /\ unsent' = Append(unsent, letters)
  /\ crossed' =
       IF \E c \in DOMAIN calls : /\ unsent[c] # <<>>
                                  /\ calls[c].product = product
                                  /\ calls[c].type # type
       THEN crossed \cup {product} ELSE crossed
  /\ UNCHANGED <<queue, sent, cut, consumer, faults>>

CreateCompositeProduct ==
  \E body \in Aggregates : Call("CREATE", body.productId, CreateEvents(body))

DeleteCompositeProduct ==
  \E product \in Products : Call("DELETE", product, DeleteEvents(product))

-----------------------------------------------------------------------------
(* ProductCompositeIntegration: send() to the output channel of a topic *)

\* partition-key-expression: payload.key
PartitionOf(event) == event.key % PartitionCount

Send(c) ==
  /\ unsent[c] # <<>>
  /\ LET topic == Head(unsent[c]).topic
         event == Head(unsent[c]).event
     IN  /\ queue' = [queue EXCEPT ![topic][PartitionOf(event)] = Append(@, event)]
         /\ sent' = [sent EXCEPT ![topic] = Append(@, event)]
  /\ unsent' = [unsent EXCEPT ![c] = Tail(@)]
  /\ UNCHANGED <<calls, cut, crossed, consumer, faults>>

\* Either send() throws, which ends the call with an error, or the broker never
\* gets the event: nobody waits for a confirmation.
SendFails(c) ==
  /\ unsent[c] # <<>>
  /\ faults < MaxFaults /\ faults' = faults + 1
  /\ \E rest \in {<<>>, Tail(unsent[c])} : unsent' = [unsent EXCEPT ![c] = rest]
  /\ cut' = cut \cup {calls[c].product}
  /\ UNCHANGED <<calls, queue, sent, crossed, consumer>>

-----------------------------------------------------------------------------
(* MessageProcessor and the services *)

Waits(t, p) == queue[t][p] # <<>> /\ ~handled[t][p]

Front(t, p) == Head(queue[t][p])

Entity(event) == [product |-> event.key, id |-> event.id]

EntitiesOf(t, product) == {x \in db[t] : x.product = product}

\* InvalidInputException: an id below 1, or the unique index.
Rejected(t, event) ==
  \/ event.key < 1
  \/ event.type = "CREATE" /\ Entity(event) \in db[t]

Create(t, p) ==
  /\ Waits(t, p)
  /\ LET event == Front(t, p)
     IN  /\ event.type = "CREATE" /\ ~Rejected(t, event)
         /\ db' = [db EXCEPT ![t] = @ \cup {Entity(event)}]
  /\ handled' = [handled EXCEPT ![t][p] = TRUE]
  /\ UNCHANGED <<composite, queue, attempts, deadLetters, spoiled, faults>>

\* What deleteAll(findByProductId) removes in one step: one document after the
\* other in MongoDB, all rows in one transaction in MySQL.
Removals(t, entities) ==
  IF t = "reviews" THEN {entities} \ {{}} ELSE {{x} : x \in entities}

Delete(t, p) ==
  /\ Waits(t, p)
  /\ LET event == Front(t, p)
     IN  /\ event.type = "DELETE" /\ ~Rejected(t, event)
         /\ \E gone \in Removals(t, EntitiesOf(t, event.key)) :
              db' = [db EXCEPT ![t] = @ \ gone]
  /\ UNCHANGED <<composite, queue, attempts, handled, deadLetters, spoiled, faults>>

\* Mutant: one entity of a product is removed.
Deleted_AfterOne(t, product) == TRUE

Deleted(t, product) == EntitiesOf(t, product) = {}

EndDelete(t, p) ==
  /\ Waits(t, p)
  /\ LET event == Front(t, p)
     IN  event.type = "DELETE" /\ ~Rejected(t, event) /\ Deleted(t, event.key)
  /\ handled' = [handled EXCEPT ![t][p] = TRUE]
  /\ UNCHANGED <<composite, queue, attempts, db, deadLetters, spoiled, faults>>

\* Mutant: an event is tried until it succeeds.
Exhausted_Never(t, p) == FALSE

Exhausted(t, p) == attempts[t][p] + 1 = MaxAttempts

\* An attempt has failed: another one, or the dead letter queue.
Failed(t, p) ==
  IF Exhausted(t, p)
  THEN /\ deadLetters' = [deadLetters EXCEPT ![t] = @ \cup {Front(t, p)}]
       /\ handled' = [handled EXCEPT ![t][p] = TRUE]
       /\ attempts' = [attempts EXCEPT ![t][p] = 0]
  ELSE /\ attempts' = [attempts EXCEPT ![t][p] =
                         IF @ + 1 < MaxAttempts THEN @ + 1 ELSE @]
       /\ UNCHANGED <<deadLetters, handled>>

Reject(t, p) ==
  /\ Waits(t, p)
  /\ Rejected(t, Front(t, p))
  /\ Failed(t, p)
  /\ UNCHANGED <<composite, queue, db, spoiled, faults>>

DatabaseFails(t, p) ==
  /\ Waits(t, p)
  /\ faults < MaxFaults /\ faults' = faults + 1
  /\ Failed(t, p)
  /\ spoiled' = IF Exhausted(t, p) THEN spoiled \cup {Front(t, p).key} ELSE spoiled
  /\ UNCHANGED <<composite, queue, db>>

Acknowledge(t, p) ==
  /\ handled[t][p]
  /\ queue' = [queue EXCEPT ![t][p] = Tail(@)]
  /\ attempts' = [attempts EXCEPT ![t][p] = 0]
  /\ handled' = [handled EXCEPT ![t][p] = FALSE]
  /\ UNCHANGED <<composite, db, deadLetters, spoiled, faults>>

\* The instance is started again and gets the event once more.
Crash(t, p) ==
  /\ queue[t][p] # <<>>
  /\ faults < MaxFaults /\ faults' = faults + 1
  /\ attempts' = [attempts EXCEPT ![t][p] = 0]
  /\ handled' = [handled EXCEPT ![t][p] = FALSE]
  /\ UNCHANGED <<composite, queue, db, deadLetters, spoiled>>

Consume(t, p) ==
  Create(t, p) \/ Delete(t, p) \/ EndDelete(t, p) \/ Reject(t, p) \/ Acknowledge(t, p)

Next ==
  \/ CreateCompositeProduct
  \/ DeleteCompositeProduct
  \/ \E c \in DOMAIN calls : Send(c) \/ SendFails(c)
  \/ \E t \in Topics, p \in Partitions :
       Consume(t, p) \/ DatabaseFails(t, p) \/ Crash(t, p)

Spec == Init /\ [][Next]_vars

\* Every instance goes on consuming; nobody has to call.
FairSpec ==
  Spec /\ \A t \in Topics, p \in Partitions : WF_vars(Consume(t, p))

-----------------------------------------------------------------------------
(* Properties *)

\* All events about the product are acknowledged, and none was given up
\* because of a database.
Settled(t, product) ==
  /\ product \notin spoiled
  /\ \A p \in Partitions : \A i \in DOMAIN queue[t][p] :
       queue[t][p][i].key # product

\* The entities of a product that were created and not deleted since.
LastSent(t, product) ==
  {Entity(sent[t][i]) : i \in
     {k \in DOMAIN sent[t] :
        /\ sent[t][k].type = "CREATE" /\ sent[t][k].key = product
        /\ \A l \in DOMAIN sent[t] :
             sent[t][l].type = "DELETE" /\ sent[t][l].key = product => l < k}}

\* Once a service has handled what was sent about a product, it stores what was
\* created last, although events are delivered again after crashes, tried
\* again, rejected as duplicates and spread over partitions: no duplicate brings
\* back what was deleted, and no deletion stops half way.
StoredIsLastSent ==
  \A t \in Topics, product \in Products :
    product >= 1 /\ Settled(t, product) =>
      EntitiesOf(t, product) = LastSent(t, product)

Idle(product) ==
  /\ \A c \in DOMAIN calls : calls[c].product = product => unsent[c] = <<>>
  /\ \A t \in Topics : Settled(t, product)

\* The services agree: recommendations and reviews belong to a product that
\* exists, unless a call has not sent all its events, or one that creates the
\* product and one that deletes it sent theirs side by side.
NoOrphans ==
  \A product \in Products \ (cut \cup crossed) :
    Idle(product) /\ EntitiesOf("products", product) = {} =>
      \A t \in Topics : EntitiesOf(t, product) = {}

\* An event that can never be applied does not stop those behind it.
AllAcknowledged == \A t \in Topics, p \in Partitions : queue[t][p] = <<>>

QueuesDrain == ~AllAcknowledged ~> AllAcknowledged

=============================================================================
