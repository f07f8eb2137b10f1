------------------------------ MODULE CalcRpc ------------------------------
(***************************************************************************)
(* The calculation service: clients (send.cpp) publish requests, servers   *)
(* (receive.cpp) take them from the queue "requests", record them in the   *)
(* audit database, calculate, answer to the client's exclusive queue and   *)
(* acknowledge.  Servers crash and are restarted, connections break,       *)
(* clients come and go; the broker and the database survive.               *)
(*                                                                         *)
(* A frame that onData accepts waits in outBuffer until loop() sends it    *)
(* after the callback (PocoHandler), so publish and ack leave a server     *)
(* after everything the callback did.                                      *)
(***************************************************************************)
EXTENDS Integers, Sequences, FiniteSets

CONSTANTS
  Clients,       \* client processes
  Servers,       \* server processes; a restarted one keeps its name
  Cids,          \* the correlation ids that uuid() returns
  NoQueue,       \* the empty replyTo
  NoRequest,
  MaxCrashes,    \* bound: crashes of servers
  MaxLosses      \* bound: connections lost under a running server

ASSUME ServersAssumption == IsFiniteSet(Servers)

ASSUME NoneAssumption == NoQueue \notin Clients

ASSUME BoundAssumption == MaxCrashes \in Nat /\ MaxLosses \in Nat

\* A client's reply queue has the client's name.
Request == [cid : Cids, replyTo : Clients \cup {NoQueue}]

ASSUME NoRequestAssumption == NoRequest \notin Request

Frame == [method : {"publish", "ack"}, request : Request]

VARIABLES
  (* clients *)
  alive,         \* the process runs and its connection is up
  tempQueueName, \* known to the client, once declare-ok has come
  messagesSent,  \* the correlation ids in the map messagesSent
  timer,         \* where the timer thread is
  publishing,    \* the request the timer is about to publish
  received,      \* history: how often the response to each cid was accepted
  dropped,       \* history: the cids with a response that was not accepted
  (* broker *)
  replyQueue,    \* whether the client's exclusive queue exists
  requests,      \* the queue "requests"
  unacked,       \* delivered to a server and not acknowledged
  replies,       \* the clients' queues: how many responses to each cid
  connected,     \* the broker has a connection with the server
  wire,          \* what the server has sent and the broker not yet read
  published,     \* history: the requests that reached the broker
  (* audit database *)
  entries,       \* how many documents each cid has
  recorded,      \* the cids whose first document has response_sent = true
  (* servers *)
  server,        \* where the server is
  message,       \* the request the callback works on
  outBuffer,     \* the frames that wait for the end of the callback
  (* bounds *)
  crashes, losses

clientVars == <<alive, tempQueueName, messagesSent, timer, publishing, received,
                dropped>>
replyVars == <<replyQueue, replies>>
requestVars == <<requests, unacked, connected, wire, published>>
auditVars == <<entries, recorded>>
serverVars == <<server, message, outBuffer>>
boundVars == <<crashes, losses>>
vars == <<clientVars, replyVars, requestVars, auditVars, serverVars, boundVars>>

Init ==
  /\ alive = [c \in Clients |-> TRUE]
  /\ tempQueueName = [c \in Clients |-> NoQueue]
  /\ messagesSent = [c \in Clients |-> {}]
  /\ timer = [c \in Clients |-> "sleep"]
  /\ publishing = [c \in Clients |-> NoRequest]
  /\ received = [c \in Clients |-> [cid \in Cids |-> 0]]
  /\ dropped = [c \in Clients |-> {}]
  /\ replyQueue = [c \in Clients |-> FALSE]
  /\ replies = [c \in Clients |-> [cid \in Cids |-> 0]]
  /\ requests = {}
  /\ unacked = [s \in Servers |-> {}]
  /\ connected = [s \in Servers |-> TRUE]
  /\ wire = [s \in Servers |-> <<>>]
  /\ published = {}
  /\ entries = [cid \in Cids |-> 0]
  /\ recorded = {}
  /\ server = [s \in Servers |-> "idle"]
  /\ message = [s \in Servers |-> NoRequest]
  /\ outBuffer = [s \in Servers |-> <<>>]
  /\ crashes = 0 /\ losses = 0

-----------------------------------------------------------------------------
(* Clients: loop()'s thread runs the callbacks, the timer's thread         *)
(* publishes; tempQueueName and messagesSent are theirs without a lock.    *)

\* The broker creates the exclusive queue; its name is still on the way.
DeclareQueue(c) ==
  /\ alive[c] /\ ~replyQueue[c]
  /\ replyQueue' = [replyQueue EXCEPT ![c] = TRUE]
  /\ UNCHANGED <<clientVars, replies, requestVars, auditVars, serverVars,
                 boundVars>>

\* The queue callback stores the name.  A name that the timer reads half
\* written is no queue's, as the empty one.
QueueDeclared(c) ==
  /\ alive[c] /\ replyQueue[c]
  /\ tempQueueName[c] = NoQueue
  /\ tempQueueName' = [tempQueueName EXCEPT ![c] = c]
  /\ UNCHANGED <<alive, messagesSent, timer, publishing, received, dropped,
                 replyVars, requestVars, auditVars, serverVars, boundVars>>

\* Mutant: the correlation id is not remembered.
Remembered_Forgotten(c, cid) == messagesSent[c]

Remembered(c, cid) == messagesSent[c] \cup {cid}

Fresh(cid) == \A d \in Clients : cid \notin messagesSent[d]

\* The timer fires: messagesSent.insert begins.
TimerFires(c) ==
  /\ alive[c] /\ timer[c] = "sleep"
  /\ \E cid \in Cids : Fresh(cid)
  /\ timer' = [timer EXCEPT ![c] = "insert"]
  /\ UNCHANGED <<alive, tempQueueName, messagesSent, publishing, received,
                 dropped, replyVars, requestVars, auditVars, serverVars, boundVars>>

\* It ends: the correlation id is remembered before the request is published.
Remember(c) ==
  /\ alive[c] /\ timer[c] = "insert"
  /\ \E cid \in Cids :
       /\ Fresh(cid)
       /\ messagesSent' = [messagesSent EXCEPT ![c] = Remembered(c, cid)]
       /\ publishing' = [publishing EXCEPT
                           ![c] = [cid |-> cid, replyTo |-> NoQueue]]
  /\ timer' = [timer EXCEPT ![c] = "address"]
  /\ UNCHANGED <<alive, tempQueueName, received, dropped, replyVars, requestVars,
                 auditVars, serverVars, boundVars>>

\* setReplyTo: the timer does not wait for the reply queue.
SetReplyTo(c) ==
  /\ alive[c] /\ timer[c] = "address"
  /\ publishing' = [publishing EXCEPT ![c].replyTo = tempQueueName[c]]
  /\ timer' = [timer EXCEPT ![c] = "publish"]
  /\ UNCHANGED <<alive, tempQueueName, messagesSent, received, dropped, replyVars,
                 requestVars, auditVars, serverVars, boundVars>>

\* The request reaches the broker.
Publish(c) ==
  /\ alive[c] /\ timer[c] = "publish"
  /\ requests' = requests \cup {publishing[c]}
  /\ published' = published \cup {publishing[c]}
  /\ publishing' = [publishing EXCEPT ![c] = NoRequest]
  /\ timer' = [timer EXCEPT ![c] = "sleep"]
  /\ UNCHANGED <<alive, tempQueueName, messagesSent, received, dropped, replyVars,
                 unacked, connected, wire, auditVars, serverVars, boundVars>>

\* messagesSent.find: beside an insertion that rotates the tree, which needs
\* two other nodes, it can miss an element.
Found(c, cid) ==
  IF cid \notin messagesSent[c] THEN {FALSE}
  ELSE IF timer[c] = "insert" /\ Cardinality(messagesSent[c]) >= 2 THEN BOOLEAN
  ELSE {TRUE}

\* receiveCallback; the consumer starts after the queue is declared and needs
\* no acknowledgement.
ReceiveResponse(c) ==
  /\ alive[c] /\ tempQueueName[c] # NoQueue
  /\ \E cid \in Cids :
       /\ replies[c][cid] > 0
       /\ replies' = [replies EXCEPT ![c][cid] = @ - 1]
       /\ \E found \in Found(c, cid) :
            IF found
              THEN received' = [received EXCEPT ![c][cid] = @ + 1] /\ UNCHANGED dropped
              ELSE dropped' = [dropped EXCEPT ![c] = @ \cup {cid}] /\ UNCHANGED received
  /\ UNCHANGED <<alive, tempQueueName, messagesSent, timer, publishing, replyQueue,
                 requestVars, auditVars, serverVars, boundVars>>

\* The client ends or loses its connection: the exclusive queue goes too.
ClientEnds(c) ==
  /\ alive[c]
  /\ alive' = [alive EXCEPT ![c] = FALSE]
  /\ timer' = [timer EXCEPT ![c] = "sleep"]
  /\ publishing' = [publishing EXCEPT ![c] = NoRequest]
  /\ replyQueue' = [replyQueue EXCEPT ![c] = FALSE]
  /\ replies' = [replies EXCEPT ![c] = [cid \in Cids |-> 0]]
  /\ UNCHANGED <<tempQueueName, messagesSent, received, dropped, requestVars,
                 auditVars, serverVars, boundVars>>

-----------------------------------------------------------------------------
(* Servers: the callback of consume("requests") *)

\* Mutant: the consumer does not acknowledge (noack).
Deliver_Noack(s) ==
  /\ connected[s] /\ server[s] = "idle"
  /\ \E request \in requests :
       /\ requests' = requests \ {request}
       /\ message' = [message EXCEPT ![s] = request]
  /\ server' = [server EXCEPT ![s] = "audit"]
  /\ UNCHANGED <<clientVars, replyVars, unacked, connected, wire, published,
                 auditVars, outBuffer, boundVars>>

\* setQos(1): one delivery at a time.
Deliver(s) ==
  /\ connected[s] /\ server[s] = "idle"
  /\ unacked[s] = {}
  /\ \E request \in requests :
       /\ requests' = requests \ {request}
       /\ unacked' = [unacked EXCEPT ![s] = {request}]
       /\ message' = [message EXCEPT ![s] = request]
  /\ server' = [server EXCEPT ![s] = "audit"]
  /\ UNCHANGED <<clientVars, replyVars, connected, wire, published, auditVars,
                 outBuffer, boundVars>>

\* auditRequest: a document with response_sent = false, also for a request
\* that has one.
AuditRequest(s) ==
  /\ server[s] = "audit"
  /\ entries' = [entries EXCEPT ![message[s].cid] = @ + 1]
  /\ server' = [server EXCEPT ![s] = "calculate"]
  /\ UNCHANGED <<clientVars, replyVars, requestVars, recorded, message,
                 outBuffer, boundVars>>

\* Mutant: the request is acknowledged but not answered.
CallbackFrames_NoResponse(request) ==
  <<[method |-> "ack", request |-> request]>>

\* Mutant: the response is published twice.
CallbackFrames_Twice(request) ==
  <<[method |-> "publish", request |-> request],
    [method |-> "publish", request |-> request],
    [method |-> "ack", request |-> request]>>

CallbackFrames(request) ==
  <<[method |-> "publish", request |-> request],
    [method |-> "ack", request |-> request]>>

\* Mutant: onData sends at once instead of buffering.
PublishAndAck_Unbuffered(s) ==
  /\ server[s] = "calculate"
  /\ wire' = IF connected[s]
             THEN [wire EXCEPT ![s] = CallbackFrames(message[s])] ELSE wire
  /\ server' = [server EXCEPT ![s] = "record"]
  /\ UNCHANGED <<clientVars, replyVars, requests, unacked, connected, published,
                 auditVars, message, outBuffer, boundVars>>

\* doCalculation, addServerMetaData, publish and ack.  onData buffers the
\* frames: nothing is sent before the callback returns.
PublishAndAck(s) ==
  /\ server[s] = "calculate"
  /\ outBuffer' = [outBuffer EXCEPT ![s] = CallbackFrames(message[s])]
  /\ server' = [server EXCEPT ![s] = "record"]
  /\ UNCHANGED <<clientVars, replyVars, requestVars, auditVars, message,
                 boundVars>>

\* auditResponse: if the cid has a document, complete the first one.
AuditResponse(s) ==
  /\ server[s] = "record"
  /\ recorded' = IF entries[message[s].cid] > 0
                 THEN recorded \cup {message[s].cid} ELSE recorded
  /\ server' = [server EXCEPT ![s] = "return"]
  /\ UNCHANGED <<clientVars, replyVars, requestVars, entries, message,
                 outBuffer, boundVars>>

\* Mutant: the buffer is not drained.
AfterSending_Kept(s) == outBuffer[s]

AfterSending(s) == <<>>

\* The callback has returned: loop() sends.  On a lost connection the bytes
\* vanish, and sendBytes may throw, which ends loop() and the process.
Flush(s) ==
  /\ server[s] = "return"
  /\ outBuffer' = [outBuffer EXCEPT ![s] = AfterSending(s)]
  /\ IF connected[s]
     THEN /\ wire' = [wire EXCEPT ![s] = outBuffer[s]]
          /\ server' = [server EXCEPT ![s] = "idle"]
     ELSE /\ \E end \in {"idle", "down"} :
               server' = [server EXCEPT ![s] = end]
          /\ wire' = wire
  /\ UNCHANGED <<clientVars, replyVars, requests, unacked, connected, published,
                 auditVars, message, boundVars>>

\* A crash, or an exception of the database or of the JSON library, which
\* nobody catches.
Crash(s) ==
  /\ server[s] # "down"
  /\ crashes < MaxCrashes
  /\ crashes' = crashes + 1
  /\ server' = [server EXCEPT ![s] = "down"]
  /\ outBuffer' = [outBuffer EXCEPT ![s] = <<>>]
  /\ UNCHANGED <<clientVars, replyVars, requestVars, auditVars, message, losses>>

\* The container is restarted and consumes again.
Restart(s) ==
  /\ server[s] = "down" /\ ~connected[s]
  /\ server' = [server EXCEPT ![s] = "idle"]
  /\ connected' = [connected EXCEPT ![s] = TRUE]
  /\ UNCHANGED <<clientVars, replyVars, requests, unacked, wire, published,
                 auditVars, message, outBuffer, boundVars>>

-----------------------------------------------------------------------------
(* Broker *)

\* The broker reads a frame: it routes a response to the queue replyTo names,
\* or drops it if there is none; an acknowledged request is gone.
TakeFrame(s) ==
  /\ connected[s] /\ wire[s] # <<>>
  /\ wire' = [wire EXCEPT ![s] = Tail(@)]
  /\ LET frame == Head(wire[s])
         to    == frame.request.replyTo
     IN  IF frame.method = "publish"
         THEN /\ replies' = IF to \in Clients /\ replyQueue[to]
                            THEN [replies EXCEPT ![to][frame.request.cid] = @ + 1]
                            ELSE replies
              /\ unacked' = unacked
         ELSE /\ unacked' = [unacked EXCEPT ![s] = @ \ {frame.request}]
              /\ replies' = replies
  /\ UNCHANGED <<clientVars, replyQueue, requests, connected, published,
                 auditVars, serverVars, boundVars>>

\* The broker drops the connection and requeues what was not acknowledged.
Requeue(s) ==
  /\ connected[s]
  /\ connected' = [connected EXCEPT ![s] = FALSE]
  /\ requests' = requests \cup unacked[s]
  /\ unacked' = [unacked EXCEPT ![s] = {}]
  /\ wire' = [wire EXCEPT ![s] = <<>>]
  /\ UNCHANGED <<clientVars, replyVars, published, auditVars, serverVars>>

NoticeCrash(s) ==
  /\ server[s] = "down"
  /\ Requeue(s)
  /\ UNCHANGED boundVars

\* The connection breaks, or the broker gives it up, under a running server,
\* which does not notice before it sends.
ConnectionLost(s) ==
  /\ server[s] # "down"
  /\ losses < MaxLosses
  /\ losses' = losses + 1
  /\ Requeue(s)
  /\ crashes' = crashes

ClientStep(c) ==
  \/ DeclareQueue(c)
  \/ QueueDeclared(c)
  \/ TimerFires(c)
  \/ Remember(c)
  \/ SetReplyTo(c)
  \/ Publish(c)
  \/ ReceiveResponse(c)
  \/ ClientEnds(c)

CallbackStep(s) ==
  \/ AuditRequest(s)
  \/ PublishAndAck(s)
  \/ AuditResponse(s)
  \/ Flush(s)

ServerStep(s) ==
  \/ Deliver(s)
  \/ CallbackStep(s)
  \/ TakeFrame(s)
  \/ NoticeCrash(s)
  \/ Restart(s)
  \/ Crash(s)
  \/ ConnectionLost(s)

Next ==
  \/ \E c \in Clients : ClientStep(c)
  \/ \E s \in Servers : ServerStep(s)

Spec == Init /\ [][Next]_vars

\* The broker keeps serving, a crash is noticed, the platform restarts the
\* container, a callback ends, and a client that stays reads its queue.  Nobody
\* has to publish, crash or end.
FairSpec ==
  /\ Spec
  /\ \A s \in Servers :
       /\ WF_vars(Deliver(s))
       /\ WF_vars(CallbackStep(s))
       /\ WF_vars(TakeFrame(s))
       /\ WF_vars(NoticeCrash(s))
       /\ WF_vars(Restart(s))
  /\ \A c \in Clients : WF_vars(ReceiveResponse(c))

-----------------------------------------------------------------------------
(* Properties *)

\* Type correctness; the timer and the callback hold a request exactly while
\* they work on one, and nothing waits in a buffer between two callbacks.
TypeOK ==
  /\ alive \in [Clients -> BOOLEAN]
  /\ tempQueueName \in [Clients -> Clients \cup {NoQueue}]
  /\ messagesSent \in [Clients -> SUBSET Cids]
  /\ timer \in [Clients -> {"sleep", "insert", "address", "publish"}]
  /\ publishing \in [Clients -> Request \cup {NoRequest}]
  /\ \A c \in Clients :
       publishing[c] # NoRequest <=> timer[c] \in {"address", "publish"}
  /\ received \in [Clients -> [Cids -> Nat]]
  /\ dropped \in [Clients -> SUBSET Cids]
  /\ replyQueue \in [Clients -> BOOLEAN]
  /\ replies \in [Clients -> [Cids -> Nat]]
  /\ requests \subseteq Request
  /\ unacked \in [Servers -> SUBSET Request]
  /\ connected \in [Servers -> BOOLEAN]
  /\ wire \in [Servers -> Seq(Frame)]
  /\ published \subseteq Request
  /\ entries \in [Cids -> Nat]
  /\ recorded \subseteq Cids
  /\ server \in [Servers -> {"idle", "audit", "calculate", "record", "return",
                             "down"}]
  /\ message \in [Servers -> Request \cup {NoRequest}]
  /\ \A s \in Servers :
       server[s] \notin {"idle", "down"} => message[s] \in Request
  /\ outBuffer \in [Servers -> Seq(Frame)]
  /\ \A s \in Servers :
       server[s] \notin {"record", "return"} => outBuffer[s] = <<>>
  /\ crashes \in 0 .. MaxCrashes
  /\ losses \in 0 .. MaxLosses

\* No request is lost, whatever crashes: it waits in the queue, or it is with a
\* server and comes back if that fails, or its response is recorded.  So an
\* acknowledgement never overtakes the record in the database, although ack()
\* is called before auditResponse().
NoRequestLost ==
  \A request \in published :
    \/ request \in requests
    \/ \E s \in Servers : request \in unacked[s]
    \/ request.cid \in recorded

\* A client never sees a response that the audit database does not have.
\* InService!Spec says more: the service as a whole does what it promises.
Responses == {cid \in Cids : \E c \in Clients : received[c][cid] > 0}

InService == INSTANCE CalcService
               WITH requested <- {request.cid : request \in published},
                    recorded  <- recorded,
                    answered  <- Responses

ImplementsCalcService == InService!Spec

\* receiveCallback never has to drop a response: what is in a client's queue
\* answers a request this client remembers.
ResponsesExpected ==
  \A c \in Clients : \A cid \in Cids :
    replies[c][cid] > 0 => cid \in messagesSent[c]

\* Work is repeated only where something failed: a request has at most one
\* document more than there were failures, and its client gets at most one
\* response per document.
RepeatsNeedFailures ==
  \A cid \in Cids :
    /\ entries[cid] <= 1 + crashes + losses
    /\ \A c \in Clients : received[c][cid] + replies[c][cid] <= entries[cid]

\* Every request whose client knew its reply queue is answered while the client
\* stays, unless receiveCallback missed it in the map.
RequestsAreAnswered ==
  \A c \in Clients : \A cid \in Cids :
    ([cid |-> cid, replyTo |-> c] \in published)
      ~> (received[c][cid] > 0 \/ ~alive[c] \/ cid \in dropped[c])

\* Every request that reached the broker is recorded with its response.
RequestsAreRecorded ==
  \A cid \in Cids :
    (\E request \in published : request.cid = cid) ~> (cid \in recorded)

=============================================================================
