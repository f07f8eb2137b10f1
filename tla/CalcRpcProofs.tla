--------------------------- MODULE CalcRpcProofs ---------------------------
(***************************************************************************)
(* Proofs about CalcRpc for any clients, servers, correlation ids and      *)
(* numbers of failures.                                                    *)
(***************************************************************************)
EXTENDS CalcRpc, FiniteSetTheorems, TLAPS

\* What a server works on was published, and is recorded once the callback
\* has come that far.
Stages ==
  \A s \in Servers :
    /\ server[s] \in {"audit", "calculate", "record", "return"} =>
         message[s] \in published
    /\ server[s] \in {"calculate", "record", "return"} =>
         entries[message[s].cid] > 0
    /\ server[s] = "return" => message[s].cid \in recorded

\* Only a callback fills outBuffer, with frames of its own request.
BufferedFrames ==
  \A s \in Servers : \A i \in 1 .. Len(outBuffer[s]) :
    /\ server[s] \in {"record", "return"}
    /\ outBuffer[s][i].request = message[s]

\* What is on the wire has been recorded.
SentFrames ==
  \A s \in Servers : \A i \in 1 .. Len(wire[s]) :
    wire[s][i].request.cid \in recorded

Places ==
  /\ requests \subseteq published
  /\ \A s \in Servers : unacked[s] \subseteq published
  /\ \A cid \in recorded : \E request \in published : request.cid = cid

ResponsesRecorded ==
  \A c \in Clients : \A cid \in Cids :
    replies[c][cid] > 0 \/ received[c][cid] > 0 => cid \in recorded

\* The inductive invariant.
IInv ==
  /\ TypeOK
  /\ Stages
  /\ BufferedFrames
  /\ SentFrames
  /\ Places
  /\ NoRequestLost
  /\ ResponsesRecorded

-----------------------------------------------------------------------------
(* Initially *)

LEMMA InitIInv == Init => IInv
<1> SUFFICES ASSUME Init PROVE IInv
  OBVIOUS
<1>1. TypeOK
  BY BoundAssumption DEF Init, TypeOK
<1>2. Stages /\ BufferedFrames /\ SentFrames
  BY DEF Init, Stages, BufferedFrames, SentFrames
<1>3. Places /\ NoRequestLost /\ ResponsesRecorded
  BY DEF Init, Places, NoRequestLost, ResponsesRecorded
<1> QED
  BY <1>1, <1>2, <1>3 DEF IInv

-----------------------------------------------------------------------------
(* Every step of a client *)

\* What receiveCallback does, whether or not it finds the correlation id.
LEMMA ReceiveMeans ==
  ASSUME NEW c \in Clients, ReceiveResponse(c)
  PROVE  \E cid \in Cids :
           /\ replies[c][cid] > 0
           /\ replies' = [replies EXCEPT ![c][cid] = @ - 1]
           /\ received' \in {received, [received EXCEPT ![c][cid] = @ + 1]}
           /\ dropped' \in {dropped, [dropped EXCEPT ![c] = @ \cup {cid}]}
<1>1. PICK cid \in Cids :
        /\ replies[c][cid] > 0
        /\ replies' = [replies EXCEPT ![c][cid] = @ - 1]
        /\ \E found \in Found(c, cid) :
             IF found
               THEN received' = [received EXCEPT ![c][cid] = @ + 1] /\ UNCHANGED dropped
               ELSE dropped' = [dropped EXCEPT ![c] = @ \cup {cid}] /\ UNCHANGED received
  BY DEF ReceiveResponse
<1> QED
  BY <1>1

\* The request's address is set, and nothing else of it.
LEMMA AddressSet ==
  ASSUME TypeOK, NEW c \in Clients, SetReplyTo(c)
  PROVE  /\ publishing[c] \in Request /\ publishing[c] # NoRequest
         /\ publishing' = [publishing EXCEPT
                             ![c] = [cid |-> publishing[c].cid,
                                     replyTo |-> tempQueueName[c]]]
         /\ [cid |-> publishing[c].cid, replyTo |-> tempQueueName[c]] \in Request
<1>1. timer[c] = "address" /\ publishing[c] # NoRequest
  BY DEF SetReplyTo, TypeOK
<1>2. publishing[c] \in Request
  BY <1>1 DEF TypeOK
<1>3. [publishing[c] EXCEPT !.replyTo = tempQueueName[c]] =
        [cid |-> publishing[c].cid, replyTo |-> tempQueueName[c]]
  BY <1>2 DEF Request
<1>4. [cid |-> publishing[c].cid, replyTo |-> tempQueueName[c]] \in Request
  BY <1>2 DEF Request, TypeOK
<1>5. publishing' = [publishing EXCEPT
                      ![c] = [publishing[c] EXCEPT !.replyTo = tempQueueName[c]]]
  BY DEF SetReplyTo
<1> QED
  BY <1>1, <1>2, <1>3, <1>4, <1>5

LEMMA ClientIInv ==
  ASSUME IInv, NEW c \in Clients, ClientStep(c)
  PROVE  IInv'
<1> USE DEF IInv, replyVars, requestVars, auditVars, serverVars, boundVars,
            clientVars
<1>1. CASE DeclareQueue(c)
  BY <1>1 DEF DeclareQueue, TypeOK, Stages, BufferedFrames, SentFrames, Places,
              NoRequestLost, ResponsesRecorded
<1>2. CASE QueueDeclared(c)
  BY <1>2 DEF QueueDeclared, TypeOK, Stages, BufferedFrames, SentFrames, Places,
              NoRequestLost, ResponsesRecorded
<1>3. CASE Remember(c)
  <2>1. PICK cid \in Cids :
          /\ messagesSent' = [messagesSent EXCEPT ![c] = Remembered(c, cid)]
          /\ publishing' = [publishing EXCEPT
                              ![c] = [cid |-> cid, replyTo |-> NoQueue]]
    BY <1>3 DEF Remember
  <2>2. [cid |-> cid, replyTo |-> NoQueue] \in Request
    BY DEF Request
  <2>3. TypeOK'
    BY <1>3, <2>1, <2>2, NoRequestAssumption DEF Remember, TypeOK, Remembered
  <2> QED
    BY <1>3, <2>3 DEF Remember, Stages, BufferedFrames, SentFrames, Places,
                      NoRequestLost, ResponsesRecorded
<1>7. CASE TimerFires(c)
  <2>1. TypeOK'
    BY <1>7 DEF TimerFires, TypeOK
  <2> QED
    BY <1>7, <2>1 DEF TimerFires, Stages, BufferedFrames, SentFrames, Places,
                      NoRequestLost, ResponsesRecorded
<1>8. CASE SetReplyTo(c)
  <2>0. /\ publishing[c] # NoRequest
        /\ \E request \in Request \ {NoRequest} :
             publishing' = [publishing EXCEPT ![c] = request]
    BY <1>8, AddressSet, NoRequestAssumption
  <2>1. TypeOK'
    BY <1>8, <2>0 DEF SetReplyTo, TypeOK
  <2> QED
    BY <1>8, <2>1 DEF SetReplyTo, Stages, BufferedFrames, SentFrames, Places,
                      NoRequestLost, ResponsesRecorded
<1>4. CASE Publish(c)
  <2>1. publishing[c] \in Request
    BY <1>4 DEF Publish, TypeOK
  <2>2. TypeOK'
    BY <1>4, <2>1 DEF Publish, TypeOK
  <2> QED
    BY <1>4, <2>2 DEF Publish, Stages, BufferedFrames, SentFrames, Places,
                      NoRequestLost, ResponsesRecorded
<1>5. CASE ReceiveResponse(c)
  <2>1. PICK cid \in Cids :
          /\ replies[c][cid] > 0
          /\ replies' = [replies EXCEPT ![c][cid] = @ - 1]
          /\ received' \in {received, [received EXCEPT ![c][cid] = @ + 1]}
          /\ dropped' \in {dropped, [dropped EXCEPT ![c] = @ \cup {cid}]}
    BY <1>5, ReceiveMeans
  <2>2. /\ replies' \in [Clients -> [Cids -> Nat]]
        /\ received' \in [Clients -> [Cids -> Nat]]
        /\ dropped' \in [Clients -> SUBSET Cids]
    <3>1. replies' \in [Clients -> [Cids -> Nat]]
      BY <2>1 DEF TypeOK
    <3>2. received' \in [Clients -> [Cids -> Nat]]
      <4>1. received \in [Clients -> [Cids -> Nat]]
        BY DEF TypeOK
      <4>2. [received EXCEPT ![c][cid] = @ + 1] \in [Clients -> [Cids -> Nat]]
        BY <4>1
      <4> QED
        BY <2>1, <4>1, <4>2
    <3>3. dropped' \in [Clients -> SUBSET Cids]
      <4>1. dropped \in [Clients -> SUBSET Cids]
        BY DEF TypeOK
      <4>2. [dropped EXCEPT ![c] = @ \cup {cid}] \in [Clients -> SUBSET Cids]
        BY <4>1
      <4> QED
        BY <2>1, <4>1, <4>2
    <3> QED
      BY <3>1, <3>2, <3>3
  <2>3. TypeOK'
    BY <1>5, <2>2 DEF ReceiveResponse, TypeOK
  <2>4. cid \in recorded /\ recorded' = recorded
    BY <1>5, <2>1 DEF ReceiveResponse, ResponsesRecorded
  <2>5. ASSUME NEW d \in Clients, NEW id \in Cids, ~(d = c /\ id = cid)
        PROVE  /\ replies'[d][id] = replies[d][id]
               /\ received'[d][id] = received[d][id]
    BY <2>1, <2>5 DEF TypeOK
  <2>6. ResponsesRecorded'
    BY <2>4, <2>5 DEF ResponsesRecorded
  <2> QED
    BY <1>5, <2>3, <2>6 DEF ReceiveResponse, Stages, BufferedFrames, SentFrames,
                            Places, NoRequestLost
<1>6. CASE ClientEnds(c)
  <2>1. TypeOK'
    BY <1>6 DEF ClientEnds, TypeOK
  <2>2. ResponsesRecorded'
    BY <1>6 DEF ClientEnds, TypeOK, ResponsesRecorded
  <2> QED
    BY <1>6, <2>1, <2>2 DEF ClientEnds, Stages, BufferedFrames, SentFrames,
                            Places, NoRequestLost
<1> QED
  BY <1>1, <1>2, <1>3, <1>4, <1>5, <1>6, <1>7, <1>8 DEF ClientStep

-----------------------------------------------------------------------------
(* Every step of a server, of its connection, or of the broker about it *)

LEMMA CallbackFrameType ==
  ASSUME NEW request \in Request
  PROVE  /\ CallbackFrames(request) \in Seq(Frame)
         /\ \A i \in 1 .. Len(CallbackFrames(request)) :
              CallbackFrames(request)[i].request = request
  BY DEF CallbackFrames, Frame

LEMMA TailFrames ==
  ASSUME NEW frames \in Seq(Frame), frames # <<>>
  PROVE  /\ Head(frames) \in Frame
         /\ Head(frames) = frames[1]
         /\ Tail(frames) \in Seq(Frame)
         /\ 1 \in 1 .. Len(frames)
         /\ \A i \in 1 .. Len(Tail(frames)) :
              i + 1 \in 1 .. Len(frames) /\ Tail(frames)[i] = frames[i + 1]
  OBVIOUS

LEMMA ServerIInv ==
  ASSUME IInv, NEW s \in Servers, ServerStep(s)
  PROVE  IInv'
<1> USE DEF IInv, replyVars, requestVars, auditVars, serverVars, boundVars,
            clientVars
<1>1. CASE Deliver(s)
  <2>1. PICK request \in requests :
          /\ requests' = requests \ {request}
          /\ unacked' = [unacked EXCEPT ![s] = {request}]
          /\ message' = [message EXCEPT ![s] = request]
    BY <1>1 DEF Deliver
  <2>2. request \in Request /\ request \in published
    BY DEF TypeOK, Places
  <2>3. TypeOK'
    BY <1>1, <2>1, <2>2 DEF Deliver, TypeOK
  <2>4. Stages'
    BY <1>1, <2>1, <2>2 DEF Deliver, TypeOK, Stages
  <2>5. BufferedFrames' /\ SentFrames' /\ ResponsesRecorded'
    BY <1>1, <2>1 DEF Deliver, TypeOK, BufferedFrames, SentFrames,
                      ResponsesRecorded
  <2>6. Places' /\ NoRequestLost'
    BY <1>1, <2>1, <2>2 DEF Deliver, TypeOK, Places, NoRequestLost
  <2> QED
    BY <2>3, <2>4, <2>5, <2>6
<1>2. CASE AuditRequest(s)
  <2>1. message[s].cid \in Cids
    BY <1>2 DEF AuditRequest, TypeOK, Request
  <2>2. TypeOK'
    BY <1>2, <2>1 DEF AuditRequest, TypeOK
  <2>3. Stages'
    BY <1>2, <2>1 DEF AuditRequest, TypeOK, Stages, Request
  <2>4. BufferedFrames'
    BY <1>2 DEF AuditRequest, TypeOK, BufferedFrames
  <2> QED
    BY <1>2, <2>2, <2>3, <2>4 DEF AuditRequest, SentFrames, Places, NoRequestLost,
                                  ResponsesRecorded
<1>3. CASE PublishAndAck(s)
  <2>1. message[s] \in Request
    BY <1>3 DEF PublishAndAck, TypeOK
  <2>2. TypeOK'
    BY <1>3, <2>1, CallbackFrameType DEF PublishAndAck, TypeOK
  <2>3. BufferedFrames'
    BY <1>3, <2>1, CallbackFrameType DEF PublishAndAck, TypeOK, BufferedFrames
  <2> QED
    BY <1>3, <2>2, <2>3 DEF PublishAndAck, TypeOK, Stages, SentFrames, Places,
                            NoRequestLost, ResponsesRecorded
<1>4. CASE AuditResponse(s)
  <2>1. /\ message[s] \in published
        /\ message[s].cid \in Cids
        /\ recorded' = recorded \cup {message[s].cid}
    BY <1>4 DEF AuditResponse, Stages, TypeOK, Request
  <2>2. TypeOK'
    BY <1>4, <2>1 DEF AuditResponse, TypeOK
  <2>3. Stages'
    BY <1>4, <2>1 DEF AuditResponse, TypeOK, Stages
  <2>4. BufferedFrames'
    BY <1>4 DEF AuditResponse, TypeOK, BufferedFrames
  <2> QED
    BY <1>4, <2>1, <2>2, <2>3, <2>4
    DEF AuditResponse, SentFrames, Places, NoRequestLost, ResponsesRecorded
<1>5. CASE Flush(s)
  <2>1. /\ wire' \in [Servers -> Seq(Frame)]
        /\ outBuffer' = [outBuffer EXCEPT ![s] = <<>>]
        /\ server'[s] \in {"idle", "down"}
        /\ server' = [server EXCEPT ![s] = server'[s]]
    BY <1>5 DEF Flush, AfterSending, TypeOK
  <2>2. TypeOK'
    <3>1. /\ server' \in [Servers -> {"idle", "audit", "calculate", "record",
                                      "return", "down"}]
          /\ \A t \in Servers :
               server'[t] \notin {"idle", "down"} => message[t] \in Request
      BY <2>1 DEF TypeOK
    <3>2. outBuffer' \in [Servers -> Seq(Frame)]
      BY <2>1 DEF TypeOK
    <3> QED
      BY <1>5, <2>1, <3>1, <3>2 DEF Flush, TypeOK
  <2>3. Stages'
    BY <1>5, <2>1 DEF Flush, TypeOK, Stages
  <2>4. BufferedFrames'
    BY <1>5, <2>1 DEF Flush, TypeOK, BufferedFrames
  <2>5. \A i \in 1 .. Len(outBuffer[s]) :
          outBuffer[s][i].request.cid \in recorded
    BY <1>5 DEF Flush, Stages, BufferedFrames
  <2>6. SentFrames'
    BY <1>5, <2>5 DEF Flush, TypeOK, SentFrames
  <2> QED
    BY <1>5, <2>2, <2>3, <2>4, <2>6
    DEF Flush, Places, NoRequestLost, ResponsesRecorded
<1>6. CASE TakeFrame(s)
  <2> DEFINE frame == Head(wire[s])
  <2>1. /\ frame \in Frame
        /\ frame.request.cid \in recorded
        /\ frame.request \in Request
        /\ frame.request.cid \in Cids
    <3>1. wire[s] \in Seq(Frame) /\ wire[s] # <<>>
      BY <1>6 DEF TakeFrame, TypeOK
    <3>2. frame \in Frame /\ frame = wire[s][1] /\ 1 \in 1 .. Len(wire[s])
      BY <3>1, TailFrames
    <3>3. wire[s][1].request.cid \in recorded
      BY <3>2 DEF SentFrames
    <3> QED
      BY <3>2, <3>3 DEF Frame, Request
  <2>2. SentFrames' /\ wire' \in [Servers -> Seq(Frame)]
    <3>1. wire[s] \in Seq(Frame) /\ wire[s] # <<>>
      BY <1>6 DEF TakeFrame, TypeOK
    <3>2. wire' = [wire EXCEPT ![s] = Tail(wire[s])] /\ recorded' = recorded
      BY <1>6 DEF TakeFrame
    <3>3. \A i \in 1 .. Len(Tail(wire[s])) :
            Tail(wire[s])[i].request.cid \in recorded
      BY <3>1, TailFrames DEF SentFrames
    <3> QED
      BY <3>1, <3>2, <3>3, TailFrames DEF TypeOK, SentFrames
  <2>3. /\ replies' \in [Clients -> [Cids -> Nat]]
        /\ ResponsesRecorded'
    <3> HIDE DEF frame
    <3>1. \/ replies' = replies
          \/ \E to \in Clients :
               replies' = [replies EXCEPT ![to][frame.request.cid] = @ + 1]
      BY <1>6 DEF TakeFrame, frame
    <3>2. replies \in [Clients -> [Cids -> Nat]]
      BY DEF TypeOK
    <3>3. received' = received /\ recorded' = recorded
      BY <1>6 DEF TakeFrame
    <3>4. CASE replies' = replies
      BY <3>2, <3>3, <3>4 DEF ResponsesRecorded
    <3>5. ASSUME NEW to \in Clients,
                 replies' = [replies EXCEPT ![to][frame.request.cid] = @ + 1]
          PROVE  /\ replies' \in [Clients -> [Cids -> Nat]]
                 /\ ResponsesRecorded'
      <4>1. replies' \in [Clients -> [Cids -> Nat]]
        BY <2>1, <3>2, <3>5
      <4>2. ASSUME NEW d \in Clients, NEW id \in Cids, id # frame.request.cid
            PROVE  replies'[d][id] = replies[d][id]
        BY <2>1, <3>2, <3>5, <4>2
      <4> QED
        BY <2>1, <3>3, <4>1, <4>2 DEF ResponsesRecorded
    <3> QED
      BY <3>1, <3>4, <3>5
  <2>4. \/ unacked' = unacked
        \/ unacked' = [unacked EXCEPT ![s] = @ \ {frame.request}]
    BY <1>6 DEF TakeFrame
  <2>5. TypeOK'
    BY <1>6, <2>2, <2>3, <2>4 DEF TakeFrame, TypeOK
  <2>6. Places' /\ NoRequestLost'
    <3> HIDE DEF frame
    <3>1. UNCHANGED <<requests, published, recorded>>
      BY <1>6 DEF TakeFrame
    <3>2. unacked \in [Servers -> SUBSET Request]
      BY DEF TypeOK
    <3>3. \A t \in Servers :
            /\ unacked'[t] \subseteq unacked[t]
            /\ unacked[t] \subseteq unacked'[t] \cup {frame.request}
      BY <2>4, <3>2
    <3>4. Places'
      BY <3>1, <3>3 DEF Places
    <3>5. NoRequestLost'
      BY <2>1, <3>1, <3>3 DEF NoRequestLost
    <3> QED
      BY <3>4, <3>5
  <2> QED
    BY <1>6, <2>2, <2>3, <2>5, <2>6 DEF TakeFrame, Stages, BufferedFrames
<1>7. ASSUME Requeue(s), UNCHANGED crashes, losses' \in 0 .. MaxLosses
      PROVE  IInv'
  <2>1. TypeOK'
    BY <1>7 DEF Requeue, TypeOK
  <2>2. Places' /\ NoRequestLost'
    BY <1>7 DEF Requeue, TypeOK, Places, NoRequestLost
  <2>3. SentFrames'
    BY <1>7 DEF Requeue, TypeOK, SentFrames
  <2> QED
    BY <1>7, <2>1, <2>2, <2>3
    DEF Requeue, Stages, BufferedFrames, ResponsesRecorded
<1>8. CASE NoticeCrash(s)
  BY <1>7, <1>8 DEF NoticeCrash, TypeOK
<1>9. CASE ConnectionLost(s)
  BY <1>7, <1>9, BoundAssumption DEF ConnectionLost, TypeOK
<1>10. CASE Restart(s)
  <2>1. TypeOK'
    BY <1>10 DEF Restart, TypeOK
  <2> QED
    BY <1>10, <2>1 DEF Restart, TypeOK, Stages, BufferedFrames, SentFrames,
                       Places, NoRequestLost, ResponsesRecorded
<1>11. CASE Crash(s)
  <2>1. TypeOK'
    BY <1>11, BoundAssumption DEF Crash, TypeOK
  <2> QED
    BY <1>11, <2>1 DEF Crash, TypeOK, Stages, BufferedFrames, SentFrames,
                       Places, NoRequestLost, ResponsesRecorded
<1> QED
  BY <1>1, <1>2, <1>3, <1>4, <1>5, <1>6, <1>8, <1>9, <1>10, <1>11
  DEF ServerStep, CallbackStep

-----------------------------------------------------------------------------
(* Theorems *)

LEMMA StutterIInv ==
  ASSUME IInv, UNCHANGED vars
  PROVE  IInv'
BY DEF IInv, vars, clientVars, replyVars, requestVars, auditVars, serverVars,
       boundVars, TypeOK, Stages, BufferedFrames, SentFrames, Places,
       NoRequestLost, ResponsesRecorded

LEMMA Invariance == Spec => []IInv
<1>1. IInv /\ [Next]_vars => IInv'
  BY ClientIInv, ServerIInv, StutterIInv DEF Next
<1> QED
  BY InitIInv, <1>1, PTL DEF Spec

\* Every reachable state is type correct, for any number of processes,
\* crashes and lost connections.
THEOREM TypeCorrect == Spec => []TypeOK
<1>1. IInv => TypeOK
  BY DEF IInv
<1> QED
  BY Invariance, <1>1, PTL

\* No request that reached the broker is lost: publish and ack wait in
\* outBuffer until auditResponse has returned, so what a crash can interrupt
\* is either not acknowledged or recorded.
THEOREM RequestsKept == Spec => []NoRequestLost
<1>1. IInv => NoRequestLost
  BY DEF IInv
<1> QED
  BY Invariance, <1>1, PTL

LEMMA InitRefines == Init => InService!Init
BY DEF Init, InService!Init, Responses

\* What the three sets of CalcService can do in a step of the detailed service.
LEMMA StepRefines ==
  ASSUME IInv, IInv', [Next]_vars
  PROVE  [InService!Next]_(InService!vars)
<1> DEFINE requested == {request.cid : request \in published}
<1> USE DEF replyVars, requestVars, auditVars, serverVars, boundVars, clientVars
<1>1. ASSUME UNCHANGED <<published, recorded, received>>
      PROVE  UNCHANGED InService!vars
  BY <1>1 DEF InService!vars, Responses
<1>2. CASE UNCHANGED vars
  BY <1>1, <1>2 DEF vars
<1>3. ASSUME NEW c \in Clients, Publish(c)
      PROVE  InService!Next \/ UNCHANGED InService!vars
  <2>1. /\ publishing[c] \in Request
        /\ published' = published \cup {publishing[c]}
        /\ UNCHANGED <<recorded, received>>
    BY <1>3 DEF Publish, IInv, TypeOK
  <2>2. publishing[c].cid \in Cids
    BY <2>1 DEF Request
  <2>3. requested' = requested \cup {publishing[c].cid}
    BY <2>1
  <2>4. Responses' = Responses
    BY <2>1 DEF Responses
  <2> HIDE DEF requested
  <2>5. CASE publishing[c].cid \in requested
    BY <2>1, <2>3, <2>4, <2>5 DEF InService!vars, requested
  <2>6. CASE publishing[c].cid \notin requested
    <3>1. InService!Request
      BY <2>1, <2>2, <2>3, <2>4, <2>6 DEF InService!Request, requested
    <3> QED
      BY <3>1 DEF InService!Next
  <2> QED
    BY <2>5, <2>6
<1>4. ASSUME NEW s \in Servers, AuditResponse(s)
      PROVE  InService!Next \/ UNCHANGED InService!vars
  <2>1. /\ message[s] \in published
        /\ recorded' = recorded \cup {message[s].cid}
        /\ UNCHANGED <<published, received>>
    BY <1>4 DEF AuditResponse, IInv, Stages
  <2>2. Responses' = Responses
    BY <2>1 DEF Responses
  <2>3. CASE message[s].cid \in recorded
    BY <2>1, <2>2, <2>3 DEF InService!vars
  <2>4. CASE message[s].cid \notin recorded
    <3>1. InService!Record
      BY <2>1, <2>2, <2>4 DEF InService!Record
    <3> QED
      BY <3>1 DEF InService!Next
  <2> QED
    BY <2>3, <2>4
<1>5. ASSUME NEW c \in Clients, ReceiveResponse(c)
      PROVE  InService!Next \/ UNCHANGED InService!vars
  <2>1. PICK cid \in Cids :
          /\ replies[c][cid] > 0
          /\ received' \in {received, [received EXCEPT ![c][cid] = @ + 1]}
    BY <1>5, ReceiveMeans
  <2>2. UNCHANGED <<published, recorded>>
    BY <1>5 DEF ReceiveResponse
  <2>3. cid \in recorded
    BY <2>1 DEF IInv, ResponsesRecorded
  <2>4. received \in [Clients -> [Cids -> Nat]]
    BY DEF IInv, TypeOK
  <2>5. CASE received' = received
    BY <1>1, <2>2, <2>5
  <2>6. CASE received' = [received EXCEPT ![c][cid] = @ + 1]
    <3>1. received'[c][cid] > 0
      BY <2>4, <2>6
    <3>2. ASSUME NEW d \in Clients, NEW id \in Cids, id # cid
          PROVE  received'[d][id] = received[d][id]
      BY <2>4, <2>6, <3>2
    <3>3. ASSUME NEW d \in Clients, received[d][cid] > 0
          PROVE  received'[d][cid] > 0
      BY <2>4, <2>6, <3>3
    <3>4. Responses' = Responses \cup {cid}
      BY <3>1, <3>2, <3>3 DEF Responses
    <3>5. CASE cid \in Responses
      BY <2>2, <3>4, <3>5 DEF InService!vars
    <3>6. CASE cid \notin Responses
      <4>1. InService!Answer
        BY <2>2, <2>3, <3>4, <3>6 DEF InService!Answer
      <4> QED
        BY <4>1 DEF InService!Next
    <3> QED
      BY <3>5, <3>6
  <2> QED
    BY <2>1, <2>5, <2>6
<1>6. ASSUME NEW c \in Clients,
             \/ DeclareQueue(c) \/ QueueDeclared(c) \/ TimerFires(c)
             \/ Remember(c) \/ SetReplyTo(c) \/ ClientEnds(c)
      PROVE  UNCHANGED <<published, recorded, received>>
  BY <1>6 DEF DeclareQueue, QueueDeclared, TimerFires, Remember, SetReplyTo, ClientEnds
<1>7. ASSUME NEW s \in Servers,
             \/ Deliver(s) \/ AuditRequest(s) \/ PublishAndAck(s) \/ Flush(s)
             \/ TakeFrame(s) \/ NoticeCrash(s) \/ Restart(s) \/ Crash(s)
             \/ ConnectionLost(s)
      PROVE  UNCHANGED <<published, recorded, received>>
  BY <1>7 DEF Deliver, AuditRequest, PublishAndAck, Flush, TakeFrame,
              NoticeCrash, Restart, Crash, ConnectionLost, Requeue
<1> HIDE DEF requested
<1>8. CASE Next
  BY <1>1, <1>3, <1>4, <1>5, <1>6, <1>7, <1>8
  DEF Next, ClientStep, ServerStep, CallbackStep
<1> QED
  BY <1>2, <1>8

\* The service keeps CalcService's promise: what a client sees was recorded
\* before, what is recorded was requested.
THEOREM ServiceImplemented == Spec => ImplementsCalcService
<1>1. IInv /\ IInv' /\ [Next]_vars => [InService!Next]_(InService!vars)
  BY StepRefines
<1> QED
  BY Invariance, InitRefines, <1>1, PTL
  DEF Spec, ImplementsCalcService, InService!Spec

-----------------------------------------------------------------------------
(* Responses and repeats: what a server has, sends and may do again *)

AckFrame(request) == <<[method |-> "ack", request |-> request]>>

Working(s) == server[s] \in {"audit", "calculate", "record", "return"}

\* What is not acknowledged is the last request a server got, its frames are
\* buffered while the callback ends, and sent when it has returned.
Deliveries ==
  \A s \in Servers :
    /\ server[s] \in {"record", "return"} =>
         outBuffer[s] = CallbackFrames(message[s])
    /\ unacked[s] \subseteq {message[s]}
    /\ wire[s] \in {<<>>, CallbackFrames(message[s]), AckFrame(message[s])}
    /\ wire[s] # <<>> => ~Working(s) /\ unacked[s] = {message[s]}
    /\ ~connected[s] => unacked[s] = {}
    /\ connected[s] /\ Working(s) => unacked[s] = {message[s]}

\* A correlation id belongs to one request, which its client remembers.
Identified ==
  /\ \A c \in Clients : tempQueueName[c] \in {c, NoQueue}
  /\ \A request \in published :
       /\ \E c \in Clients : request.cid \in messagesSent[c]
       /\ request.replyTo \in Clients =>
            request.cid \in messagesSent[request.replyTo]
       /\ \A other \in published : other.cid = request.cid => other = request
  /\ \A c \in Clients : publishing[c] # NoRequest =>
       /\ publishing[c].cid \in messagesSent[c]
       /\ publishing[c].replyTo \in {c, NoQueue}
       /\ \A request \in published : request.cid # publishing[c].cid
       /\ \A d \in Clients :
            publishing[d] # NoRequest /\ publishing[d].cid = publishing[c].cid
              => d = c

LEMMA InitDeliveries == Init => Deliveries /\ Identified /\ ResponsesExpected
<1> SUFFICES ASSUME Init PROVE Deliveries /\ Identified /\ ResponsesExpected
  OBVIOUS
<1>1. Deliveries
  BY DEF Init, Deliveries, Working
<1>2. Identified
  BY DEF Init, Identified
<1>3. ResponsesExpected
  BY DEF Init, ResponsesExpected
<1> QED
  BY <1>1, <1>2, <1>3

LEMMA Frames ==
  ASSUME NEW request
  PROVE  /\ CallbackFrames(request) # <<>>
         /\ AckFrame(request) # <<>>
         /\ CallbackFrames(request) # AckFrame(request)
         /\ Head(CallbackFrames(request)) =
              [method |-> "publish", request |-> request]
         /\ Tail(CallbackFrames(request)) = AckFrame(request)
         /\ Head(AckFrame(request)) = [method |-> "ack", request |-> request]
         /\ Tail(AckFrame(request)) = <<>>
<1>1. Len(CallbackFrames(request)) = 2 /\ Len(AckFrame(request)) = 1
  BY DEF CallbackFrames, AckFrame
<1>2. CallbackFrames(request) # AckFrame(request)
  BY <1>1
<1> QED
  BY <1>2 DEF CallbackFrames, AckFrame

-----------------------------------------------------------------------------
LEMMA ClientDeliveries ==
  ASSUME IInv, Deliveries, NEW c \in Clients, ClientStep(c)
  PROVE  Deliveries'
<1> UNCHANGED <<unacked, connected, wire, server, message, outBuffer>>
  BY DEF ClientStep, DeclareQueue, QueueDeclared, TimerFires, Remember, SetReplyTo,
         Publish, ReceiveResponse, ClientEnds, replyVars, requestVars, auditVars,
         serverVars, boundVars, clientVars
<1> QED
  BY DEF Deliveries, Working

LEMMA ServerDeliveries ==
  ASSUME IInv, Deliveries, NEW s \in Servers, ServerStep(s)
  PROVE  Deliveries'
<1> USE DEF replyVars, requestVars, auditVars, serverVars, boundVars,
            clientVars
<1>0. /\ unacked \in [Servers -> SUBSET Request]
      /\ connected \in [Servers -> BOOLEAN]
      /\ wire \in [Servers -> Seq(Frame)]
      /\ server \in [Servers -> {"idle", "audit", "calculate", "record",
                                 "return", "down"}]
      /\ message \in [Servers -> Request \cup {NoRequest}]
      /\ outBuffer \in [Servers -> Seq(Frame)]
  BY DEF IInv, TypeOK
<1>1. CASE Deliver(s)
  <2>1. wire[s] = <<>>
    BY <1>1 DEF Deliver, Deliveries
  <2> QED
    BY <1>0, <1>1, <2>1 DEF Deliver, Deliveries, Working
<1>2. CASE AuditRequest(s)
  BY <1>0, <1>2 DEF AuditRequest, Deliveries, Working
<1>3. CASE PublishAndAck(s)
  BY <1>0, <1>3 DEF PublishAndAck, Deliveries, Working
<1>4. CASE AuditResponse(s)
  BY <1>0, <1>4 DEF AuditResponse, Deliveries, Working
<1>5. CASE Flush(s)
  <2>1. /\ server'[s] \in {"idle", "down"}
        /\ server' = [server EXCEPT ![s] = server'[s]]
        /\ wire' \in {wire, [wire EXCEPT ![s] = CallbackFrames(message[s])]}
        /\ ~connected[s] => wire' = wire
        /\ outBuffer' = [outBuffer EXCEPT ![s] = <<>>]
        /\ UNCHANGED <<message, unacked, connected>>
    BY <1>0, <1>5 DEF Flush, AfterSending, Deliveries
  <2>2. connected[s] => unacked[s] = {message[s]}
    BY <1>5 DEF Flush, Deliveries, Working
  <2> QED
    BY <1>0, <2>1, <2>2 DEF Deliveries, Working
<1>6. CASE TakeFrame(s)
  <2>1. /\ wire' = [wire EXCEPT ![s] = Tail(wire[s])]
        /\ UNCHANGED <<message, connected, server, outBuffer>>
        /\ wire[s] # <<>>
    BY <1>6 DEF TakeFrame
  <2>2. ~Working(s) /\ unacked[s] = {message[s]} /\ connected[s]
    BY <1>6, <2>1 DEF Deliveries, TakeFrame
  <2>3. CASE wire[s] = CallbackFrames(message[s])
    <3>1. Head(wire[s]).method = "publish" /\ Tail(wire[s]) = AckFrame(message[s])
      BY <2>3, Frames
    <3>2. unacked' = unacked
      BY <1>6, <3>1 DEF TakeFrame
    <3> QED
      BY <1>0, <2>1, <2>2, <3>1, <3>2 DEF Deliveries, Working
  <2>4. CASE wire[s] = AckFrame(message[s])
    <3>1. /\ Head(wire[s]).method = "ack"
          /\ Head(wire[s]).request = message[s]
          /\ Tail(wire[s]) = <<>>
      BY <2>4, Frames
    <3>2. unacked' = [unacked EXCEPT ![s] = @ \ {message[s]}]
      BY <1>6, <3>1 DEF TakeFrame
    <3> QED
      BY <1>0, <2>1, <2>2, <3>1, <3>2 DEF Deliveries, Working
  <2> QED
    BY <2>1, <2>3, <2>4 DEF Deliveries
<1>7. CASE NoticeCrash(s)
  BY <1>0, <1>7 DEF NoticeCrash, Requeue, Deliveries, Working
<1>8. CASE ConnectionLost(s)
  BY <1>0, <1>8 DEF ConnectionLost, Requeue, Deliveries, Working
<1>9. CASE Restart(s)
  BY <1>0, <1>9 DEF Restart, Deliveries, Working
<1>10. CASE Crash(s)
  BY <1>0, <1>10 DEF Crash, Deliveries, Working
<1> QED
  BY <1>1, <1>2, <1>3, <1>4, <1>5, <1>6, <1>7, <1>8, <1>9, <1>10
  DEF ServerStep, CallbackStep

-----------------------------------------------------------------------------
LEMMA NextIdentified ==
  ASSUME IInv, Deliveries, Identified, [Next]_vars
  PROVE  Identified'
<1> USE DEF replyVars, requestVars, auditVars, serverVars, boundVars,
            clientVars
<1>0. /\ tempQueueName \in [Clients -> Clients \cup {NoQueue}]
      /\ messagesSent \in [Clients -> SUBSET Cids]
      /\ publishing \in [Clients -> Request \cup {NoRequest}]
      /\ published \subseteq Request
  BY DEF IInv, TypeOK
<1>1. ASSUME UNCHANGED <<tempQueueName, messagesSent, publishing, published>>
      PROVE  Identified'
  BY <1>1 DEF Identified
<1>2. ASSUME NEW c \in Clients, QueueDeclared(c)
      PROVE  Identified'
  BY <1>0, <1>2 DEF QueueDeclared, Identified
<1>3. ASSUME NEW c \in Clients, Remember(c)
      PROVE  Identified'
  <2>1. PICK cid \in Cids :
          /\ \A d \in Clients : cid \notin messagesSent[d]
          /\ messagesSent' = [messagesSent EXCEPT ![c] = @ \cup {cid}]
          /\ publishing' = [publishing EXCEPT
                              ![c] = [cid |-> cid, replyTo |-> NoQueue]]
    BY <1>3 DEF Remember, Fresh, Remembered
  <2> DEFINE request == [cid |-> cid, replyTo |-> NoQueue]
  <2>2. request.cid = cid /\ request.replyTo \in {c, NoQueue}
    BY DEF Identified
  <2> HIDE DEF request
  <2>3. UNCHANGED <<tempQueueName, published>>
    BY <1>3 DEF Remember
  <2>4. \A d \in Clients : messagesSent[d] \subseteq messagesSent'[d]
    BY <1>0, <2>1
  <2>5. \A other \in published : other.cid # cid
    BY <2>1 DEF Identified
  <2>6. cid \in messagesSent'[c] /\ publishing'[c] = request
    BY <1>0, <2>1 DEF request
  <2>7. \A d \in Clients : d # c => publishing'[d] = publishing[d]
    BY <1>0, <2>1
  <2>8. \A d \in Clients :
          d # c /\ publishing[d] # NoRequest => publishing[d].cid # cid
    BY <2>1 DEF Identified
  <2>9. \A other \in published :
          /\ \E d \in Clients : other.cid \in messagesSent'[d]
          /\ other.replyTo \in Clients =>
               other.cid \in messagesSent'[other.replyTo]
    BY <2>4 DEF Identified
  <2>10. ASSUME NEW d \in Clients, publishing'[d] # NoRequest
         PROVE  /\ publishing'[d].cid \in messagesSent'[d]
                /\ publishing'[d].replyTo \in {d, NoQueue}
                /\ \A other \in published : other.cid # publishing'[d].cid
                /\ \A e \in Clients :
                     publishing'[e] # NoRequest
                       /\ publishing'[e].cid = publishing'[d].cid => e = d
    BY <2>2, <2>4, <2>5, <2>6, <2>7, <2>8, <2>10 DEF Identified
  <2> QED
    BY <2>3, <2>9, <2>10 DEF Identified
<1>4. ASSUME NEW c \in Clients, Publish(c)
      PROVE  Identified'
  <2>1. /\ publishing[c] # NoRequest
        /\ published' = published \cup {publishing[c]}
        /\ publishing' = [publishing EXCEPT ![c] = NoRequest]
        /\ UNCHANGED <<tempQueueName, messagesSent>>
    BY <1>4 DEF Publish, IInv, TypeOK
  <2>2. publishing[c].replyTo \in Clients => publishing[c].replyTo = c
    BY <2>1, NoneAssumption DEF Identified
  <2> QED
    BY <1>0, <2>1, <2>2 DEF Identified
<1>5. ASSUME NEW c \in Clients, ClientEnds(c)
      PROVE  Identified'
  BY <1>0, <1>5 DEF ClientEnds, Identified
<1>6. ASSUME NEW c \in Clients,
             DeclareQueue(c) \/ ReceiveResponse(c) \/ TimerFires(c)
      PROVE  Identified'
  BY <1>1, <1>6 DEF DeclareQueue, ReceiveResponse, TimerFires
<1>9. ASSUME NEW c \in Clients, SetReplyTo(c)
      PROVE  Identified'
  <2> DEFINE request == [cid |-> publishing[c].cid, replyTo |-> tempQueueName[c]]
  <2>1. /\ publishing[c] # NoRequest /\ request # NoRequest
        /\ publishing' = [publishing EXCEPT ![c] = request]
        /\ request.cid = publishing[c].cid
        /\ request.replyTo \in {c, NoQueue}
    BY <1>9, AddressSet, NoRequestAssumption DEF IInv, Identified
  <2> HIDE DEF request
  <2>2. UNCHANGED <<tempQueueName, messagesSent, published>>
    BY <1>9 DEF SetReplyTo
  <2>3. /\ publishing'[c] = request
        /\ \A d \in Clients : d # c => publishing'[d] = publishing[d]
    BY <1>0, <2>1
  <2>4. \A d \in Clients :
          /\ publishing'[d] # NoRequest <=> publishing[d] # NoRequest
          /\ publishing[d] # NoRequest => publishing'[d].cid = publishing[d].cid
    BY <2>1, <2>3
  <2> QED
    BY <2>1, <2>2, <2>3, <2>4 DEF Identified
<1>7. ASSUME NEW s \in Servers, ServerStep(s)
      PROVE  Identified'
  BY <1>1, <1>7 DEF ServerStep, CallbackStep, Deliver, AuditRequest,
     PublishAndAck, AuditResponse, Flush, TakeFrame, NoticeCrash, Restart,
     Crash, ConnectionLost, Requeue
<1>8. CASE UNCHANGED vars
  BY <1>1, <1>8 DEF vars
<1> QED
  BY <1>2, <1>3, <1>4, <1>5, <1>6, <1>7, <1>8, <1>9 DEF Next, ClientStep

\* What the broker takes of a server's frames: a response to a request that
\* was published, or its acknowledgement.
LEMMA FrameTaken ==
  ASSUME IInv, Deliveries, NEW s \in Servers, TakeFrame(s)
  PROVE  /\ ~Working(s)
         /\ message[s] \in published /\ unacked[s] = {message[s]}
         /\ \/ /\ wire[s] = CallbackFrames(message[s])
               /\ wire' = [wire EXCEPT ![s] = AckFrame(message[s])]
               /\ unacked' = unacked
               /\ replies' =
                    IF /\ message[s].replyTo \in Clients
                       /\ replyQueue[message[s].replyTo]
                    THEN [replies EXCEPT
                            ![message[s].replyTo][message[s].cid] = @ + 1]
                    ELSE replies
            \/ /\ wire[s] = AckFrame(message[s])
               /\ wire' = [wire EXCEPT ![s] = <<>>]
               /\ unacked' = [unacked EXCEPT ![s] = {}]
               /\ replies' = replies
<1>1. /\ wire[s] # <<>>
      /\ wire' = [wire EXCEPT ![s] = Tail(wire[s])]
  BY DEF TakeFrame
<1>2. ~Working(s) /\ unacked[s] = {message[s]}
  BY <1>1 DEF Deliveries
<1>3. message[s] \in published
  BY <1>2 DEF IInv, Places
<1>4. CASE wire[s] = CallbackFrames(message[s])
  <2>1. /\ Head(wire[s]).method = "publish"
        /\ Head(wire[s]).request = message[s]
        /\ Tail(wire[s]) = AckFrame(message[s])
    BY <1>4, Frames
  <2> QED
    BY <1>1, <1>2, <1>3, <1>4, <2>1 DEF TakeFrame
<1>5. CASE wire[s] = AckFrame(message[s])
  <2>1. /\ Head(wire[s]).method = "ack"
        /\ Head(wire[s]).request = message[s]
        /\ Tail(wire[s]) = <<>>
    BY <1>5, Frames
  <2> QED
    BY <1>1, <1>2, <1>3, <1>5, <2>1 DEF TakeFrame
<1> QED
  BY <1>1, <1>4, <1>5 DEF Deliveries

LEMMA NextExpected ==
  ASSUME IInv, Deliveries, Identified, ResponsesExpected, [Next]_vars
  PROVE  ResponsesExpected'
<1> USE DEF replyVars, requestVars, auditVars, serverVars, boundVars,
            clientVars
<1>0. /\ replies \in [Clients -> [Cids -> Nat]]
      /\ messagesSent \in [Clients -> SUBSET Cids]
  BY DEF IInv, TypeOK
<1>1. ASSUME replies' = replies,
             \A c \in Clients : messagesSent[c] \subseteq messagesSent'[c]
      PROVE  ResponsesExpected'
  BY <1>1 DEF ResponsesExpected
<1>2. ASSUME NEW c \in Clients, ReceiveResponse(c)
      PROVE  ResponsesExpected'
  <2>1. PICK cid \in Cids :
          replies[c][cid] > 0 /\ replies' = [replies EXCEPT ![c][cid] = @ - 1]
    BY <1>2, ReceiveMeans
  <2>2. messagesSent' = messagesSent
    BY <1>2 DEF ReceiveResponse
  <2>3. ASSUME NEW d \in Clients, NEW id \in Cids, replies'[d][id] > 0
        PROVE  replies[d][id] > 0
    BY <1>0, <2>1, <2>3
  <2> QED
    BY <2>2, <2>3 DEF ResponsesExpected
<1>3. ASSUME NEW c \in Clients, ClientEnds(c)
      PROVE  ResponsesExpected'
  BY <1>0, <1>3 DEF ClientEnds, ResponsesExpected
<1>4. ASSUME NEW s \in Servers, TakeFrame(s)
      PROVE  ResponsesExpected'
  <2> DEFINE to == message[s].replyTo  id == message[s].cid
  <2>1. messagesSent' = messagesSent
    BY <1>4 DEF TakeFrame
  <2>2. CASE replies' = replies
    BY <1>1, <2>1, <2>2
  <2>3. CASE to \in Clients /\ replies' = [replies EXCEPT ![to][id] = @ + 1]
    <3>1. id \in messagesSent[to]
      BY <1>4, <2>3, FrameTaken DEF Identified
    <3> HIDE DEF to, id
    <3>2. ASSUME NEW d \in Clients, NEW e \in Cids, ~(d = to /\ e = id)
          PROVE  replies'[d][e] = replies[d][e]
      BY <1>0, <2>3, <3>2
    <3> QED
      BY <2>1, <3>1, <3>2 DEF ResponsesExpected
  <2> QED
    BY <1>4, <2>2, <2>3, FrameTaken
<1>5. ASSUME NEW c \in Clients, Remember(c)
      PROVE  ResponsesExpected'
  BY <1>0, <1>1, <1>5 DEF Remember, Remembered
<1>6. ASSUME NEW c \in Clients,
             \/ DeclareQueue(c) \/ QueueDeclared(c) \/ TimerFires(c)
             \/ SetReplyTo(c) \/ Publish(c)
      PROVE  ResponsesExpected'
  BY <1>1, <1>6 DEF DeclareQueue, QueueDeclared, TimerFires, SetReplyTo, Publish
<1>7. ASSUME NEW s \in Servers,
             \/ Deliver(s) \/ AuditRequest(s) \/ PublishAndAck(s)
             \/ AuditResponse(s) \/ Flush(s) \/ NoticeCrash(s) \/ Restart(s)
             \/ Crash(s) \/ ConnectionLost(s)
      PROVE  ResponsesExpected'
  BY <1>1, <1>7 DEF Deliver, AuditRequest, PublishAndAck, AuditResponse, Flush,
     NoticeCrash, Restart, Crash, ConnectionLost, Requeue
<1>8. CASE UNCHANGED vars
  BY <1>1, <1>8 DEF vars
<1> QED
  BY <1>2, <1>3, <1>4, <1>5, <1>6, <1>7, <1>8
  DEF Next, ClientStep, ServerStep, CallbackStep

-----------------------------------------------------------------------------
(* Counting what can still be repeated *)

\* The servers that will add a document to cid: by a callback that has not yet
\* done so, or by a delivery that a dead server leaves to be repeated.
Repeating(cid) ==
  {s \in Servers :
     \/ server[s] = "audit" /\ message[s].cid = cid
     \/ server[s] = "down" /\ \E request \in unacked[s] : request.cid = cid}

Waiting(cid) == IF \E request \in requests : request.cid = cid THEN 1 ELSE 0

\* The servers that have added a document and may still answer.
Owing(cid) ==
  {s \in Servers :
     /\ message[s].cid = cid
     /\ \/ server[s] \in {"calculate", "record", "return"}
        \/ wire[s] = CallbackFrames(message[s])}

DocumentsBounded ==
  \A cid \in Cids :
    /\ entries[cid] + Waiting(cid) + Cardinality(Repeating(cid))
         <= 1 + crashes + losses
    /\ (\A request \in published : request.cid # cid) => entries[cid] = 0

ResponsesBounded ==
  \A c \in Clients : \A cid \in Cids :
    received[c][cid] + replies[c][cid] + Cardinality(Owing(cid)) <= entries[cid]

LEMMA ServerSets ==
  ASSUME NEW S \in SUBSET Servers, NEW T \in SUBSET Servers
  PROVE  /\ Cardinality(S) \in Nat /\ Cardinality(T) \in Nat
         /\ T \subseteq S => Cardinality(T) <= Cardinality(S)
         /\ \A s : T \subseteq S \cup {s} => Cardinality(T) <= Cardinality(S) + 1
         /\ \A s : s \in S /\ T \subseteq S \ {s} =>
                 Cardinality(T) + 1 <= Cardinality(S)
<1>1. IsFiniteSet(S) /\ IsFiniteSet(T)
  BY ServersAssumption, FS_Subset
<1>2. Cardinality(S) \in Nat /\ Cardinality(T) \in Nat
  BY <1>1, FS_CardinalityType
<1>3. T \subseteq S => Cardinality(T) <= Cardinality(S)
  BY <1>1, FS_Subset
<1>4. ASSUME NEW s, T \subseteq S \cup {s}
      PROVE  Cardinality(T) <= Cardinality(S) + 1
  <2>1. /\ IsFiniteSet(S \cup {s})
        /\ Cardinality(S \cup {s}) <= Cardinality(S) + 1
    <3>1. /\ IsFiniteSet(S \cup {s})
          /\ Cardinality(S \cup {s}) =
               IF s \in S THEN Cardinality(S) ELSE Cardinality(S) + 1
      BY <1>1, FS_AddElement
    <3> QED
      BY <1>2, <3>1
  <2>2. Cardinality(T) <= Cardinality(S \cup {s})
    BY <1>4, <2>1, FS_Subset
  <2>3. Cardinality(S \cup {s}) \in Nat
    BY <2>1, FS_CardinalityType
  <2> QED
    BY <1>2, <2>1, <2>2, <2>3
<1>5. ASSUME NEW s, s \in S, T \subseteq S \ {s}
      PROVE  Cardinality(T) + 1 <= Cardinality(S)
  <2>1. IsFiniteSet(S \ {s}) /\ Cardinality(S \ {s}) = Cardinality(S) - 1
    BY <1>1, <1>5, FS_RemoveElement
  <2>2. Cardinality(T) <= Cardinality(S \ {s})
    BY <1>5, <2>1, FS_Subset
  <2> QED
    BY <1>2, <2>1, <2>2
<1> QED
  BY <1>2, <1>3, <1>4, <1>5

LEMMA InitBounded == Init => DocumentsBounded /\ ResponsesBounded
<1> SUFFICES ASSUME Init PROVE DocumentsBounded /\ ResponsesBounded
  OBVIOUS
<1>1. ASSUME NEW cid \in Cids
      PROVE  Repeating(cid) = {} /\ Owing(cid) = {} /\ Waiting(cid) = 0
  BY Frames DEF Init, Repeating, Owing, Waiting
<1>2. Cardinality({}) = 0
  BY FS_EmptySet
<1>3. ASSUME NEW cid \in Cids
      PROVE  /\ entries[cid] = 0
             /\ Waiting(cid) = 0
             /\ Cardinality(Repeating(cid)) = 0
             /\ Cardinality(Owing(cid)) = 0
  <2>1. Repeating(cid) = {} /\ Owing(cid) = {} /\ Waiting(cid) = 0
    BY <1>1
  <2> QED
    BY <1>2, <2>1 DEF Init
<1>4. crashes = 0 /\ losses = 0
  BY DEF Init
<1>5. DocumentsBounded
  BY <1>3, <1>4 DEF DocumentsBounded
<1>6. ASSUME NEW c \in Clients, NEW cid \in Cids
      PROVE  received[c][cid] = 0 /\ replies[c][cid] = 0
  BY DEF Init
<1>7. ResponsesBounded
  BY <1>3, <1>6 DEF ResponsesBounded
<1> QED
  BY <1>5, <1>7

\* What a step about server s does to the documents of one correlation id.
LEMMA DocumentStep ==
  ASSUME IInv, DocumentsBounded, NEW cid \in Cids, NEW s,
         \/ /\ entries'[cid] = entries[cid] /\ Waiting(cid)' <= Waiting(cid)
            /\ Repeating(cid)' \subseteq Repeating(cid)
            /\ UNCHANGED <<crashes, losses>>
         \/ /\ entries[cid] = 0 /\ entries' = entries
            /\ Repeating(cid)' = {}
            /\ UNCHANGED <<crashes, losses>>
         \/ /\ entries' = entries /\ Waiting(cid) = 1 /\ Waiting(cid)' = 0
            /\ Repeating(cid)' \subseteq Repeating(cid) \cup {s}
            /\ UNCHANGED <<crashes, losses>>
         \/ /\ entries'[cid] = entries[cid] + 1
            /\ Waiting(cid)' = Waiting(cid)
            /\ s \in Repeating(cid)
            /\ Repeating(cid)' \subseteq Repeating(cid) \ {s}
            /\ UNCHANGED <<crashes, losses>>
         \/ /\ entries' = entries
            /\ s \in Repeating(cid)
            /\ Repeating(cid)' \subseteq Repeating(cid) \ {s}
            /\ UNCHANGED <<crashes, losses>>
         \/ /\ entries' = entries
            /\ Repeating(cid)' \subseteq Repeating(cid)
            /\ losses' = losses + 1 /\ crashes' = crashes
         \/ /\ entries' = entries /\ Waiting(cid)' = Waiting(cid)
            /\ Repeating(cid)' \subseteq Repeating(cid) \cup {s}
            /\ crashes' = crashes + 1 /\ losses' = losses
  PROVE  entries'[cid] + Waiting(cid)' + Cardinality(Repeating(cid)')
           <= 1 + crashes' + losses'
<1> DEFINE R == Repeating(cid)  R1 == Repeating(cid)'
           e == entries[cid]  e1 == entries'[cid]
           w == Waiting(cid)  w1 == Waiting(cid)'
           k == Cardinality(R)  k1 == Cardinality(R1)
           a == crashes  b == losses  a1 == crashes'  b1 == losses'
<1>1. /\ k \in Nat /\ k1 \in Nat
      /\ R1 \subseteq R => k1 <= k
      /\ R1 \subseteq R \cup {s} => k1 <= k + 1
      /\ s \in R /\ R1 \subseteq R \ {s} => k1 + 1 <= k
      /\ R1 = {} => k1 = 0
  <2>1. R \in SUBSET Servers /\ R1 \in SUBSET Servers
    BY DEF Repeating
  <2>2. Cardinality({}) = 0
    BY FS_EmptySet
  <2> HIDE DEF R, R1
  <2> QED
    BY <2>1, <2>2, ServerSets
<1>2. w \in {0, 1} /\ w1 \in {0, 1}
  BY DEF Waiting
<1>3. e \in Nat /\ a \in Nat /\ b \in Nat
  BY BoundAssumption DEF IInv, TypeOK
<1>4. e + w + k <= 1 + a + b
  BY DEF DocumentsBounded
<1>5. \/ e1 = e /\ w1 <= w /\ R1 \subseteq R /\ a1 = a /\ b1 = b
      \/ e = 0 /\ e1 = e /\ R1 = {} /\ a1 = a /\ b1 = b
      \/ /\ e1 = e /\ w = 1 /\ w1 = 0 /\ R1 \subseteq R \cup {s}
         /\ a1 = a /\ b1 = b
      \/ /\ e1 = e + 1 /\ w1 = w /\ s \in R /\ R1 \subseteq R \ {s}
         /\ a1 = a /\ b1 = b
      \/ e1 = e /\ s \in R /\ R1 \subseteq R \ {s} /\ a1 = a /\ b1 = b
      \/ e1 = e /\ R1 \subseteq R /\ b1 = b + 1 /\ a1 = a
      \/ e1 = e /\ w1 = w /\ R1 \subseteq R \cup {s} /\ a1 = a + 1 /\ b1 = b
  OBVIOUS
<1> HIDE DEF R, R1, e, e1, w, w1, k, k1, a, b, a1, b1
<1>6. e1 + w1 + k1 <= 1 + a1 + b1
  BY <1>1, <1>2, <1>3, <1>4, <1>5
<1> QED
  BY <1>6 DEF e1, w1, k1, R1, a1, b1

\* What a step about server s does to the responses of one correlation id.
LEMMA ResponseStep ==
  ASSUME IInv, ResponsesBounded, NEW c \in Clients, NEW cid \in Cids, NEW s,
         received'[c][cid] \in Nat, replies'[c][cid] \in Nat,
         \/ /\ entries'[cid] = entries[cid]
            /\ Owing(cid)' \subseteq Owing(cid)
            /\ received'[c][cid] + replies'[c][cid]
                 <= received[c][cid] + replies[c][cid]
         \/ /\ entries'[cid] = entries[cid] + 1
            /\ Owing(cid)' \subseteq Owing(cid) \cup {s}
            /\ received' = received /\ replies' = replies
         \/ /\ entries'[cid] = entries[cid]
            /\ s \in Owing(cid) /\ Owing(cid)' \subseteq Owing(cid) \ {s}
            /\ received' = received
            /\ replies'[c][cid] = replies[c][cid] + 1
  PROVE  received'[c][cid] + replies'[c][cid] + Cardinality(Owing(cid)')
           <= entries'[cid]
<1> DEFINE R == Owing(cid)  R1 == Owing(cid)'
           e == entries[cid]  e1 == entries'[cid]
           k == Cardinality(R)  k1 == Cardinality(R1)
           a == received[c][cid]  a1 == received'[c][cid]
           b == replies[c][cid]  b1 == replies'[c][cid]
<1>1. /\ k \in Nat /\ k1 \in Nat
      /\ R1 \subseteq R => k1 <= k
      /\ R1 \subseteq R \cup {s} => k1 <= k + 1
      /\ s \in R /\ R1 \subseteq R \ {s} => k1 + 1 <= k
  <2>1. R \in SUBSET Servers /\ R1 \in SUBSET Servers
    BY DEF Owing
  <2> HIDE DEF R, R1
  <2> QED
    BY <2>1, ServerSets
<1>2. e \in Nat /\ a \in Nat /\ b \in Nat
  BY DEF IInv, TypeOK
<1>3. a1 \in Nat /\ b1 \in Nat
  OBVIOUS
<1>4. a + b + k <= e
  BY DEF ResponsesBounded
<1>5. \/ e1 = e /\ R1 \subseteq R /\ a1 + b1 <= a + b
      \/ e1 = e + 1 /\ R1 \subseteq R \cup {s} /\ a1 = a /\ b1 = b
      \/ e1 = e /\ s \in R /\ R1 \subseteq R \ {s} /\ a1 = a /\ b1 = b + 1
  OBVIOUS
<1> HIDE DEF R, R1, e, e1, k, k1, a, b, a1, b1
<1>6. a1 + b1 + k1 <= e1
  BY <1>1, <1>2, <1>3, <1>4, <1>5
<1> QED
  BY <1>6 DEF e1, k1, R1, a1, b1

LEMMA NextResponses ==
  ASSUME IInv, Deliveries, ResponsesBounded, [Next]_vars
  PROVE  ResponsesBounded'
<1> USE DEF replyVars, requestVars, auditVars, serverVars, boundVars,
            clientVars
<1>0. /\ received \in [Clients -> [Cids -> Nat]]
      /\ replies \in [Clients -> [Cids -> Nat]]
      /\ entries \in [Cids -> Nat]
      /\ server \in [Servers -> {"idle", "audit", "calculate", "record",
                                 "return", "down"}]
      /\ message \in [Servers -> Request \cup {NoRequest}]
      /\ wire \in [Servers -> Seq(Frame)]
  BY DEF IInv, TypeOK
<1>1. ASSUME UNCHANGED <<entries, received, replies>>,
             \A cid \in Cids : Owing(cid)' \subseteq Owing(cid)
      PROVE  ResponsesBounded'
  <2>1. ASSUME NEW c \in Clients, NEW cid \in Cids
        PROVE  /\ received'[c][cid] = received[c][cid]
               /\ replies'[c][cid] = replies[c][cid]
               /\ received[c][cid] \in Nat /\ replies[c][cid] \in Nat
               /\ received'[c][cid] + replies'[c][cid]
                    <= received[c][cid] + replies[c][cid]
               /\ entries'[cid] = entries[cid]
    BY <1>0, <1>1
  <2> QED
    BY <1>1, <2>1, ResponseStep DEF ResponsesBounded
<1>2. ASSUME UNCHANGED <<server, message, wire>>, NEW cid \in Cids
      PROVE  Owing(cid)' \subseteq Owing(cid)
  BY <1>2 DEF Owing
<1>3. ASSUME NEW c \in Clients, ReceiveResponse(c)
      PROVE  ResponsesBounded'
  <2>1. PICK id \in Cids :
          /\ replies[c][id] > 0
          /\ replies' = [replies EXCEPT ![c][id] = @ - 1]
          /\ received' \in {received, [received EXCEPT ![c][id] = @ + 1]}
    BY <1>3, ReceiveMeans
  <2>2. entries' = entries
    BY <1>3 DEF ReceiveResponse
  <2>3. ASSUME NEW d \in Clients, NEW cid \in Cids
        PROVE  /\ received'[d][cid] \in Nat /\ replies'[d][cid] \in Nat
               /\ received'[d][cid] + replies'[d][cid]
                    <= received[d][cid] + replies[d][cid]
               /\ Owing(cid)' \subseteq Owing(cid)
    <3>1. Owing(cid)' \subseteq Owing(cid)
      BY <1>2, <1>3 DEF ReceiveResponse
    <3>2. CASE d = c /\ cid = id
      <4>1. replies[c][id] \in Nat /\ received[c][id] \in Nat
        BY <1>0
      <4>2. /\ replies'[c][id] = replies[c][id] - 1
            /\ received'[c][id] \in {received[c][id], received[c][id] + 1}
        BY <1>0, <2>1
      <4> QED
        BY <2>1, <3>1, <3>2, <4>1, <4>2
    <3>3. CASE ~(d = c /\ cid = id)
      <4>1. replies'[d][cid] = replies[d][cid] /\ received'[d][cid] = received[d][cid]
        BY <1>0, <2>1, <3>3
      <4>2. replies[d][cid] \in Nat /\ received[d][cid] \in Nat
        BY <1>0
      <4> QED
        BY <3>1, <4>1, <4>2
    <3> QED
      BY <3>2, <3>3
  <2>4. ASSUME NEW d \in Clients, NEW cid \in Cids
        PROVE  received'[d][cid] + replies'[d][cid] + Cardinality(Owing(cid)')
                 <= entries'[cid]
    BY <2>2, <2>3, ResponseStep
  <2> QED
    BY <2>4 DEF ResponsesBounded
<1>4. ASSUME NEW c \in Clients, ClientEnds(c)
      PROVE  ResponsesBounded'
  <2>1. /\ replies' = [replies EXCEPT ![c] = [cid \in Cids |-> 0]]
        /\ UNCHANGED <<entries, received>>
    BY <1>4 DEF ClientEnds
  <2>2. ASSUME NEW d \in Clients, NEW cid \in Cids
        PROVE  /\ received'[d][cid] \in Nat /\ replies'[d][cid] \in Nat
               /\ received'[d][cid] + replies'[d][cid]
                    <= received[d][cid] + replies[d][cid]
               /\ Owing(cid)' \subseteq Owing(cid)
    <3>1. Owing(cid)' \subseteq Owing(cid)
      BY <1>2, <1>4 DEF ClientEnds
    <3>2. /\ replies'[d][cid] \in {0, replies[d][cid]}
          /\ received'[d][cid] = received[d][cid]
          /\ replies[d][cid] \in Nat /\ received[d][cid] \in Nat
      BY <1>0, <2>1
    <3> QED
      BY <3>1, <3>2
  <2>3. ASSUME NEW d \in Clients, NEW cid \in Cids
        PROVE  received'[d][cid] + replies'[d][cid] + Cardinality(Owing(cid)')
                 <= entries'[cid]
    BY <2>1, <2>2, ResponseStep
  <2> QED
    BY <2>3 DEF ResponsesBounded
<1>5. ASSUME NEW c \in Clients,
             \/ DeclareQueue(c) \/ QueueDeclared(c) \/ TimerFires(c)
             \/ Remember(c) \/ SetReplyTo(c) \/ Publish(c)
      PROVE  ResponsesBounded'
  BY <1>1, <1>2, <1>5
  DEF DeclareQueue, QueueDeclared, TimerFires, Remember, SetReplyTo, Publish
<1>6. ASSUME NEW s \in Servers, NEW cid \in Cids,
             \/ Deliver(s) \/ PublishAndAck(s) \/ AuditResponse(s)
             \/ Flush(s) \/ NoticeCrash(s) \/ ConnectionLost(s)
             \/ Restart(s) \/ Crash(s)
      PROVE  /\ Owing(cid)' \subseteq Owing(cid)
             /\ UNCHANGED <<entries, received, replies>>
  <2>1. CASE Deliver(s)
    <3>1. wire[s] = <<>>
      BY <2>1 DEF Deliver, Deliveries
    <3> QED
      BY <1>0, <2>1, <3>1, Frames DEF Deliver, Owing
  <2>2. CASE PublishAndAck(s)
    BY <1>0, <2>2 DEF PublishAndAck, Owing
  <2>3. CASE AuditResponse(s)
    BY <1>0, <2>3 DEF AuditResponse, Owing
  <2>4. CASE Flush(s)
    <3>1. /\ server[s] = "return"
          /\ server'[s] \in {"idle", "down"}
          /\ server' = [server EXCEPT ![s] = server'[s]]
          /\ wire' = [wire EXCEPT ![s] = wire'[s]]
          /\ UNCHANGED <<message, entries, received, replies>>
      BY <1>0, <2>4 DEF Flush
    <3> QED
      BY <1>0, <3>1 DEF Owing
  <2>5. CASE NoticeCrash(s)
    BY <1>0, <2>5, Frames DEF NoticeCrash, Requeue, Owing
  <2>6. CASE ConnectionLost(s)
    BY <1>0, <2>6, Frames DEF ConnectionLost, Requeue, Owing
  <2>7. CASE Restart(s)
    BY <1>0, <2>7 DEF Restart, Owing
  <2>8. CASE Crash(s)
    BY <1>0, <2>8 DEF Crash, Owing
  <2> QED
    BY <1>6, <2>1, <2>2, <2>3, <2>4, <2>5, <2>6, <2>7, <2>8
<1>7. ASSUME NEW s \in Servers, AuditRequest(s)
      PROVE  ResponsesBounded'
  <2> DEFINE id == message[s].cid
  <2>1. /\ server[s] = "audit"
        /\ server' = [server EXCEPT ![s] = "calculate"]
        /\ entries' = [entries EXCEPT ![id] = @ + 1]
        /\ UNCHANGED <<message, wire, received, replies>>
    BY <1>7 DEF AuditRequest
  <2>2. id \in Cids
    BY <2>1 DEF IInv, TypeOK, Request
  <2>3. ASSUME NEW cid \in Cids
        PROVE  Owing(cid)' \subseteq Owing(cid) \cup {s}
    BY <1>0, <2>1 DEF Owing
  <2>4. ASSUME NEW cid \in Cids, cid # id
        PROVE  Owing(cid)' \subseteq Owing(cid)
    BY <1>0, <2>1, <2>4 DEF Owing
  <2> HIDE DEF id
  <2>5. ASSUME NEW c \in Clients, NEW cid \in Cids
        PROVE  received'[c][cid] + replies'[c][cid] + Cardinality(Owing(cid)')
                 <= entries'[cid]
    <3>1. /\ received[c][cid] \in Nat /\ replies[c][cid] \in Nat
          /\ received'[c][cid] = received[c][cid]
          /\ replies'[c][cid] = replies[c][cid]
          /\ received'[c][cid] + replies'[c][cid]
               <= received[c][cid] + replies[c][cid]
      BY <1>0, <2>1
    <3>2. CASE cid = id
      <4>1. entries'[cid] = entries[cid] + 1
        BY <1>0, <2>1, <2>2, <3>2
      <4> QED
        BY <2>1, <2>3, <3>1, <3>2, <4>1, ResponseStep
    <3>3. CASE cid # id
      <4>1. entries'[cid] = entries[cid]
        BY <1>0, <2>1, <3>3
      <4> QED
        BY <2>4, <3>1, <3>3, <4>1, ResponseStep
    <3> QED
      BY <3>2, <3>3
  <2> QED
    BY <2>5 DEF ResponsesBounded
<1>8. ASSUME NEW s \in Servers, TakeFrame(s)
      PROVE  ResponsesBounded'
  <2> DEFINE to == message[s].replyTo  id == message[s].cid
  <2>1. UNCHANGED <<message, server, entries, received>>
    BY <1>8 DEF TakeFrame
  <2>2. CASE /\ wire[s] = AckFrame(message[s])
             /\ wire' = [wire EXCEPT ![s] = <<>>]
             /\ replies' = replies
    <3>1. \A cid \in Cids : Owing(cid)' \subseteq Owing(cid)
      BY <1>0, <2>1, <2>2, Frames DEF Owing
    <3> QED
      BY <1>1, <2>1, <2>2, <3>1
  <2>3. CASE /\ wire[s] = CallbackFrames(message[s])
             /\ wire' = [wire EXCEPT ![s] = AckFrame(message[s])]
             /\ replies' = IF to \in Clients /\ replyQueue[to]
                           THEN [replies EXCEPT ![to][id] = @ + 1]
                           ELSE replies
    <3>1. ~Working(s) /\ message[s] \in published
      BY <1>8, FrameTaken
    <3>2. id \in Cids
      BY <3>1 DEF IInv, TypeOK, Request
    <3>3. ASSUME NEW cid \in Cids, cid = id
          PROVE  s \in Owing(cid) /\ Owing(cid)' \subseteq Owing(cid) \ {s}
      BY <1>0, <2>1, <2>3, <3>1, <3>3, Frames DEF Owing, Working
    <3>4. ASSUME NEW cid \in Cids
          PROVE  Owing(cid)' \subseteq Owing(cid)
      BY <1>0, <2>1, <2>3, Frames DEF Owing
    <3>5. CASE replies' = replies
      BY <1>1, <2>1, <3>4, <3>5
    <3>6. CASE to \in Clients /\ replies' = [replies EXCEPT ![to][id] = @ + 1]
      <4> HIDE DEF to, id
      <4>1. ASSUME NEW c \in Clients, NEW cid \in Cids
            PROVE  received'[c][cid] + replies'[c][cid]
                     + Cardinality(Owing(cid)') <= entries'[cid]
        <5>1. /\ received[c][cid] \in Nat /\ replies[c][cid] \in Nat
              /\ received'[c][cid] = received[c][cid]
              /\ entries'[cid] = entries[cid]
          BY <1>0, <2>1
        <5>2. CASE c = to /\ cid = id
          <6>1. replies'[c][cid] = replies[c][cid] + 1
            BY <1>0, <3>2, <3>6, <5>2
          <6> QED
            BY <2>1, <3>3, <5>1, <5>2, <6>1, ResponseStep
        <5>3. CASE ~(c = to /\ cid = id)
          <6>1. replies'[c][cid] = replies[c][cid]
            BY <1>0, <3>6, <5>3
          <6>2. received'[c][cid] + replies'[c][cid]
                  <= received[c][cid] + replies[c][cid]
            BY <5>1, <6>1
          <6> QED
            BY <3>4, <5>1, <6>1, <6>2, ResponseStep
        <5> QED
          BY <5>2, <5>3
      <4> QED
        BY <4>1 DEF ResponsesBounded
    <3> QED
      BY <2>3, <3>5, <3>6
  <2> QED
    BY <1>8, <2>2, <2>3, FrameTaken
<1>9. ASSUME NEW s \in Servers,
             \/ Deliver(s) \/ PublishAndAck(s) \/ AuditResponse(s)
             \/ Flush(s) \/ NoticeCrash(s) \/ ConnectionLost(s)
             \/ Restart(s) \/ Crash(s)
      PROVE  ResponsesBounded'
  <2>1. UNCHANGED <<entries, received, replies>>
    BY <1>9 DEF Deliver, PublishAndAck, AuditResponse, Flush, NoticeCrash,
                ConnectionLost, Requeue, Restart, Crash
  <2> QED
    BY <1>1, <1>6, <1>9, <2>1
<1>10. CASE UNCHANGED vars
  BY <1>1, <1>2, <1>10 DEF vars
<1> QED
  BY <1>3, <1>4, <1>5, <1>7, <1>8, <1>9, <1>10
  DEF Next, ClientStep, ServerStep, CallbackStep

LEMMA NextDocuments ==
  ASSUME IInv, Deliveries, Identified, DocumentsBounded, [Next]_vars
  PROVE  DocumentsBounded'
<1> USE DEF replyVars, requestVars, auditVars, serverVars, boundVars,
            clientVars
<1>0. /\ entries \in [Cids -> Nat]
      /\ server \in [Servers -> {"idle", "audit", "calculate", "record",
                                 "return", "down"}]
      /\ message \in [Servers -> Request \cup {NoRequest}]
      /\ unacked \in [Servers -> SUBSET Request]
      /\ connected \in [Servers -> BOOLEAN]
      /\ \A cid \in Cids : Waiting(cid) \in {0, 1}
  BY DEF IInv, TypeOK, Waiting
<1> DEFINE Bound(cid) == entries[cid] + Waiting(cid) + Cardinality(Repeating(cid))
                           <= 1 + crashes + losses
           Unseen(cid) == \A request \in published : request.cid # cid
<1>1. ASSUME \A cid \in Cids : Bound(cid)',
             \A cid \in Cids : Unseen(cid)' => entries'[cid] = 0
      PROVE  DocumentsBounded'
  BY <1>1 DEF DocumentsBounded
<1>2. ASSUME entries' = entries, published \subseteq published', NEW cid \in Cids
      PROVE  Unseen(cid)' => entries'[cid] = 0
  BY <1>2 DEF DocumentsBounded
<1>3. ASSUME entries' = entries, requests' = requests, published' = published,
             UNCHANGED <<crashes, losses>>,
             \A cid \in Cids : Repeating(cid)' \subseteq Repeating(cid)
      PROVE  DocumentsBounded'
  <2>1. ASSUME NEW cid \in Cids
        PROVE  Waiting(cid)' <= Waiting(cid)
    <3>1. Waiting(cid)' = Waiting(cid) /\ Waiting(cid) \in {0, 1}
      BY <1>0, <1>3 DEF Waiting
    <3> QED
      BY <3>1
  <2>2. ASSUME NEW cid \in Cids
        PROVE  Bound(cid)'
    BY <1>3, <2>1, DocumentStep
  <2> QED
    BY <1>1, <1>2, <1>3, <2>2
<1>4. ASSUME NEW c \in Clients, Publish(c)
      PROVE  DocumentsBounded'
  <2> DEFINE request == publishing[c]
  <2>1. /\ request # NoRequest
        /\ requests' = requests \cup {request}
        /\ published' = published \cup {request}
        /\ UNCHANGED <<entries, crashes, losses, server, message, unacked>>
    BY <1>4 DEF Publish, IInv, TypeOK
  <2>2. Unseen(request.cid)
    BY <2>1 DEF Identified
  <2> HIDE DEF request
  <2>3. ASSUME NEW cid \in Cids
        PROVE  Repeating(cid)' \subseteq Repeating(cid)
    BY <2>1 DEF Repeating
  <2>4. ASSUME NEW cid \in Cids
        PROVE  Bound(cid)'
    <3>1. CASE cid = request.cid
      <4>1. Repeating(cid) = {}
        BY <2>2, <3>1 DEF Repeating, IInv, Stages, Places
      <4>2. entries[cid] = 0
        BY <2>2, <3>1 DEF DocumentsBounded
      <4>3. Repeating(cid)' = {}
        BY <2>3, <4>1
      <4> QED
        BY <2>1, <4>2, <4>3, DocumentStep
    <3>2. CASE cid # request.cid
      <4>1. Waiting(cid)' = Waiting(cid) /\ Waiting(cid) \in {0, 1}
        BY <1>0, <2>1, <3>2 DEF Waiting
      <4>2. Waiting(cid)' <= Waiting(cid)
        BY <4>1
      <4> QED
        BY <2>1, <2>3, <4>2, DocumentStep
    <3> QED
      BY <3>1, <3>2
  <2> QED
    BY <1>1, <1>2, <2>1, <2>4
<1>5. ASSUME NEW s \in Servers, Deliver(s)
      PROVE  DocumentsBounded'
  <2>1. PICK request \in requests :
          /\ requests' = requests \ {request}
          /\ unacked' = [unacked EXCEPT ![s] = {request}]
          /\ message' = [message EXCEPT ![s] = request]
    BY <1>5 DEF Deliver
  <2>2. /\ server[s] = "idle"
        /\ server' = [server EXCEPT ![s] = "audit"]
        /\ UNCHANGED <<entries, crashes, losses, published>>
    BY <1>5 DEF Deliver
  <2>3. requests \subseteq published
    BY DEF IInv, Places
  <2>4. ASSUME NEW cid \in Cids
        PROVE  Bound(cid)'
    <3>1. CASE cid = request.cid
      <4>1. Waiting(cid) = 1 /\ Waiting(cid)' = 0
        BY <2>1, <2>3, <3>1 DEF Waiting, Identified
      <4>2. Repeating(cid)' \subseteq Repeating(cid) \cup {s}
        BY <1>0, <2>1, <2>2 DEF Repeating
      <4> QED
        BY <2>2, <4>1, <4>2, DocumentStep
    <3>2. CASE cid # request.cid
      <4>1. Waiting(cid)' = Waiting(cid) /\ Waiting(cid) \in {0, 1}
        BY <1>0, <2>1, <3>2 DEF Waiting
      <4>2. Waiting(cid)' <= Waiting(cid)
        BY <4>1
      <4>3. Repeating(cid)' \subseteq Repeating(cid)
        BY <1>0, <2>1, <2>2, <3>2 DEF Repeating
      <4> QED
        BY <2>2, <4>2, <4>3, DocumentStep
    <3> QED
      BY <3>1, <3>2
  <2> QED
    BY <1>1, <1>2, <2>2, <2>4
<1>6. ASSUME NEW s \in Servers, AuditRequest(s)
      PROVE  DocumentsBounded'
  <2> DEFINE id == message[s].cid
  <2>1. /\ server[s] = "audit"
        /\ server' = [server EXCEPT ![s] = "calculate"]
        /\ entries' = [entries EXCEPT ![id] = @ + 1]
        /\ UNCHANGED <<message, unacked, requests, published, crashes, losses>>
    BY <1>6 DEF AuditRequest
  <2>2. id \in Cids /\ message[s] \in published
    BY <2>1 DEF IInv, TypeOK, Request, Stages
  <2>3. ASSUME NEW cid \in Cids
        PROVE  Waiting(cid)' = Waiting(cid) /\ Waiting(cid)' <= Waiting(cid)
    <3>1. Waiting(cid)' = Waiting(cid) /\ Waiting(cid) \in {0, 1}
      BY <1>0, <2>1 DEF Waiting
    <3> QED
      BY <3>1
  <2>4. ASSUME NEW cid \in Cids
        PROVE  Bound(cid)' /\ (Unseen(cid)' => entries'[cid] = 0)
    <3>1. CASE cid = id
      <4>1. s \in Repeating(cid) /\ Repeating(cid)' \subseteq Repeating(cid) \ {s}
        BY <1>0, <2>1, <3>1 DEF Repeating
      <4>2. entries'[cid] = entries[cid] + 1
        BY <1>0, <2>1, <2>2, <3>1
      <4>3. ~Unseen(cid)'
        BY <2>1, <2>2, <3>1
      <4>4. Bound(cid)'
        BY <2>1, <2>3, <4>1, <4>2, DocumentStep
      <4> QED
        BY <4>3, <4>4
    <3>2. CASE cid # id
      <4>1. Repeating(cid)' \subseteq Repeating(cid)
        BY <1>0, <2>1 DEF Repeating
      <4>2. entries'[cid] = entries[cid]
        BY <1>0, <2>1, <3>2
      <4>3. Unseen(cid)' => entries'[cid] = 0
        BY <2>1, <4>2 DEF DocumentsBounded
      <4>4. Bound(cid)'
        BY <2>1, <2>3, <4>1, <4>2, DocumentStep
      <4> QED
        BY <4>3, <4>4
    <3> QED
      BY <3>1, <3>2
  <2> QED
    BY <1>1, <2>4
<1>7. ASSUME NEW s \in Servers, NoticeCrash(s)
      PROVE  DocumentsBounded'
  <2>1. /\ server[s] = "down"
        /\ requests' = requests \cup unacked[s]
        /\ unacked' = [unacked EXCEPT ![s] = {}]
        /\ UNCHANGED <<server, message, entries, published, crashes, losses>>
    BY <1>7 DEF NoticeCrash, Requeue
  <2>2. ASSUME NEW cid \in Cids
        PROVE  Bound(cid)'
    <3>1. CASE \E request \in unacked[s] : request.cid = cid
      <4>1. s \in Repeating(cid) /\ Repeating(cid)' \subseteq Repeating(cid) \ {s}
        BY <1>0, <2>1, <3>1 DEF Repeating
      <4> QED
        BY <2>1, <4>1, DocumentStep
    <3>2. CASE ~ \E request \in unacked[s] : request.cid = cid
      <4>1. Waiting(cid)' = Waiting(cid) /\ Waiting(cid) \in {0, 1}
        BY <1>0, <2>1, <3>2 DEF Waiting
      <4>2. Waiting(cid)' <= Waiting(cid)
        BY <4>1
      <4>3. Repeating(cid)' \subseteq Repeating(cid)
        BY <1>0, <2>1 DEF Repeating
      <4> QED
        BY <2>1, <4>2, <4>3, DocumentStep
    <3> QED
      BY <3>1, <3>2
  <2> QED
    BY <1>1, <1>2, <2>1, <2>2
<1>8. ASSUME NEW s \in Servers, ConnectionLost(s)
      PROVE  DocumentsBounded'
  <2>1. /\ unacked' = [unacked EXCEPT ![s] = {}]
        /\ losses' = losses + 1 /\ crashes' = crashes
        /\ UNCHANGED <<server, message, entries, published>>
    BY <1>8 DEF ConnectionLost, Requeue
  <2>2. ASSUME NEW cid \in Cids
        PROVE  Repeating(cid)' \subseteq Repeating(cid)
    BY <1>0, <2>1 DEF Repeating
  <2>3. ASSUME NEW cid \in Cids
        PROVE  Bound(cid)'
    BY <2>1, <2>2, DocumentStep
  <2> QED
    BY <1>1, <1>2, <2>1, <2>3
<1>9. ASSUME NEW s \in Servers, Crash(s)
      PROVE  DocumentsBounded'
  <2>1. /\ server' = [server EXCEPT ![s] = "down"]
        /\ crashes' = crashes + 1 /\ losses' = losses
        /\ UNCHANGED <<message, unacked, requests, entries, published>>
    BY <1>9 DEF Crash
  <2>2. ASSUME NEW cid \in Cids
        PROVE  /\ Repeating(cid)' \subseteq Repeating(cid) \cup {s}
               /\ Waiting(cid)' = Waiting(cid)
    BY <1>0, <2>1 DEF Repeating, Waiting
  <2>3. ASSUME NEW cid \in Cids
        PROVE  Bound(cid)'
    BY <2>1, <2>2, DocumentStep
  <2> QED
    BY <1>1, <1>2, <2>1, <2>3
<1>10. ASSUME NEW s \in Servers, NEW cid \in Cids,
              \/ PublishAndAck(s) \/ AuditResponse(s) \/ Flush(s)
              \/ TakeFrame(s) \/ Restart(s)
       PROVE  Repeating(cid)' \subseteq Repeating(cid)
  <2>1. CASE PublishAndAck(s)
    BY <1>0, <2>1 DEF PublishAndAck, Repeating
  <2>2. CASE AuditResponse(s)
    BY <1>0, <2>2 DEF AuditResponse, Repeating
  <2>3. CASE Flush(s)
    <3>1. /\ server'[s] = "idle" \/ unacked[s] = {}
          /\ server' = [server EXCEPT ![s] = server'[s]]
          /\ server'[s] \in {"idle", "down"}
          /\ UNCHANGED <<message, unacked>>
      BY <1>0, <2>3 DEF Flush, Deliveries
    <3> QED
      BY <1>0, <3>1 DEF Repeating
  <2>4. CASE TakeFrame(s)
    <3>1. UNCHANGED <<message, server>>
      BY <2>4 DEF TakeFrame
    <3>2. \A t \in Servers : unacked'[t] \subseteq unacked[t]
      BY <1>0, <2>4 DEF TakeFrame
    <3> QED
      BY <3>1, <3>2 DEF Repeating
  <2>5. CASE Restart(s)
    BY <1>0, <2>5 DEF Restart, Repeating
  <2> QED
    BY <1>10, <2>1, <2>2, <2>3, <2>4, <2>5
<1>11. ASSUME NEW s \in Servers,
              \/ PublishAndAck(s) \/ AuditResponse(s) \/ Flush(s)
              \/ TakeFrame(s) \/ Restart(s)
       PROVE  DocumentsBounded'
  <2>1. UNCHANGED <<entries, requests, published, crashes, losses>>
    BY <1>11 DEF PublishAndAck, AuditResponse, Flush, TakeFrame, Restart
  <2> QED
    BY <1>3, <1>10, <1>11, <2>1
<1>12. ASSUME NEW c \in Clients,
              \/ DeclareQueue(c) \/ QueueDeclared(c) \/ TimerFires(c)
              \/ Remember(c) \/ SetReplyTo(c)
              \/ ReceiveResponse(c) \/ ClientEnds(c)
       PROVE  DocumentsBounded'
  <2>1. UNCHANGED <<entries, requests, published, crashes, losses, server,
                    message, unacked>>
    BY <1>12 DEF DeclareQueue, QueueDeclared, TimerFires, Remember, SetReplyTo,
                 ReceiveResponse, ClientEnds
  <2>2. ASSUME NEW cid \in Cids
        PROVE  Repeating(cid)' \subseteq Repeating(cid)
    BY <2>1 DEF Repeating
  <2> QED
    BY <1>3, <2>1, <2>2
<1>13. CASE UNCHANGED vars
  <2>1. ASSUME NEW cid \in Cids
        PROVE  Repeating(cid)' \subseteq Repeating(cid)
    BY <1>13 DEF vars, Repeating
  <2> QED
    BY <1>3, <1>13, <2>1 DEF vars
<1> QED
  BY <1>4, <1>5, <1>6, <1>7, <1>8, <1>9, <1>11, <1>12, <1>13
  DEF Next, ClientStep, ServerStep, CallbackStep

-----------------------------------------------------------------------------
\* The inductive invariant of the two theorems below.
CInv ==
  /\ IInv
  /\ Deliveries
  /\ Identified
  /\ ResponsesExpected
  /\ DocumentsBounded
  /\ ResponsesBounded

LEMMA CountedInvariance == Spec => []CInv
<1>1. Init => CInv
  BY InitIInv, InitDeliveries, InitBounded DEF CInv
<1>2. CInv /\ [Next]_vars => CInv'
  <2> SUFFICES ASSUME CInv, [Next]_vars
               PROVE  CInv'
    OBVIOUS
  <2>1. IInv'
    BY ClientIInv, ServerIInv, StutterIInv DEF Next, CInv
  <2>2. Deliveries'
    <3>1. CASE UNCHANGED vars
      BY <3>1 DEF CInv, Deliveries, Working, vars, requestVars, serverVars
    <3> QED
      BY <3>1, ClientDeliveries, ServerDeliveries DEF Next, CInv
  <2>3. Identified' /\ ResponsesExpected'
    BY NextIdentified, NextExpected DEF CInv
  <2>4. DocumentsBounded' /\ ResponsesBounded'
    BY NextDocuments, NextResponses DEF CInv
  <2> QED
    BY <2>1, <2>2, <2>3, <2>4 DEF CInv
<1> QED
  BY <1>1, <1>2, PTL DEF Spec

\* A client never has to drop a response: what arrives in its queue answers a
\* request that is in messagesSent, since a temporary queue has one owner and
\* the correlation id is remembered before the request is published.
THEOREM NoStrayResponse == Spec => []ResponsesExpected
<1>1. CInv => ResponsesExpected
  BY DEF CInv
<1> QED
  BY CountedInvariance, <1>1, PTL

\* For any servers and failures: a request is recorded at most once more than
\* there were crashes and lost connections, and answered at most once for each
\* record.
THEOREM RepeatsCounted == Spec => []RepeatsNeedFailures
<1>1. CInv => RepeatsNeedFailures
  <2> SUFFICES ASSUME CInv, NEW cid \in Cids
               PROVE  /\ entries[cid] <= 1 + crashes + losses
                      /\ \A c \in Clients :
                           received[c][cid] + replies[c][cid] <= entries[cid]
    BY DEF RepeatsNeedFailures
  <2>1. /\ Cardinality(Repeating(cid)) \in Nat
        /\ Cardinality(Owing(cid)) \in Nat
        /\ Waiting(cid) \in Nat
    <3>1. Repeating(cid) \in SUBSET Servers /\ Owing(cid) \in SUBSET Servers
      BY DEF Repeating, Owing
    <3> QED
      BY <3>1, ServerSets DEF Waiting
  <2>2. /\ entries[cid] \in Nat /\ crashes \in Nat /\ losses \in Nat
        /\ \A c \in Clients : received[c][cid] \in Nat /\ replies[c][cid] \in Nat
    BY BoundAssumption DEF CInv, IInv, TypeOK
  <2>3. entries[cid] <= 1 + crashes + losses
    BY <2>1, <2>2 DEF CInv, DocumentsBounded
  <2>4. ASSUME NEW c \in Clients
        PROVE  received[c][cid] + replies[c][cid] <= entries[cid]
    BY <2>1, <2>2 DEF CInv, ResponsesBounded
  <2> QED
    BY <2>3, <2>4
<1> QED
  BY CountedInvariance, <1>1, PTL

=============================================================================
