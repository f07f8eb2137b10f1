---------------------------- MODULE AmqpChannel ----------------------------
(***************************************************************************)
(* The outgoing side of an AMQP channel (ChannelImpl of AMQP-CPP) as the   *)
(* C++ programs use it.  A synchronous frame waits for its answer; what is *)
(* sent meanwhile waits in a queue that onSynchronized() empties.  In      *)
(* receive.cpp everything happens in the thread of loop(): it publishes    *)
(* in the callback of a delivery.  In send.cpp a detached timer thread,    *)
(* started when the channel is open, publishes beside loop().  Nothing in  *)
(* the channel is locked.                                                  *)
(***************************************************************************)
EXTENDS Integers, Sequences, FiniteSets

CONSTANTS
  Setup,         \* the synchronous frames main() causes, in order
  Call,          \* the frames of one publishing callback, in order
  Publisher,     \* the thread that publishes: "loop" or "timer"
  MaxMessages    \* bound: messages published

ASSUME ChannelAssumption ==
  /\ Setup \in Seq(STRING) /\ Setup # <<>>
  /\ Call \in Seq(STRING) /\ Call # <<>>
  /\ \A i \in DOMAIN Setup, j \in DOMAIN Call : Setup[i] # Call[j]
  /\ Publisher \in {"loop", "timer"}
  /\ MaxMessages \in Nat

VARIABLES
  synchronous,   \* _synchronous: an answer is awaited
  queue,         \* _queue: the frames that wait
  closed,        \* _state = state_closed
  wire,          \* the frames handed to the connection, in order
  answered,      \* how many synchronous frames the broker has answered
  messages,      \* how many messages were published
  given,         \* history: the frames send() accepted, in order
  todo,          \* the caller of send(): the frames of its call still to give
  caller,        \* where it is in send()
  loop,          \* where loop() is in onSynchronized()
  popped         \* onSynchronized(): the local variable pair

callerVars == <<todo, caller, messages, given>>
loopVars == <<loop, popped, answered, closed>>
channelVars == <<synchronous, queue, wire, callerVars, loopVars>>

Kinds == {Setup[i] : i \in DOMAIN Setup} \cup {Call[i] : i \in DOMAIN Call}

ChannelFrame == [kind : Kinds, message : 0 .. MaxMessages]

\* Frame::synchronous(): what main() sends wants an answer, publish and ack do
\* not.
Synchronous(frame) == frame.message = 0

SetupFrames == [i \in DOMAIN Setup |-> [kind |-> Setup[i], message |-> 0]]

\* publish() sends a method, a header and a body frame.
CallFrames(m) == [i \in DOMAIN Call |-> [kind |-> Call[i], message |-> m]]

ChannelInit ==
  /\ synchronous = FALSE
  /\ queue = <<>>
  /\ closed = FALSE
  /\ wire = <<>>
  /\ answered = 0
  /\ messages = 0
  /\ given = <<>>
  /\ todo = SetupFrames
  /\ caller = "idle"
  /\ loop = "idle"
  /\ popped = <<>>

-----------------------------------------------------------------------------
(* Who may run *)

\* main() has made all its calls and is in loop().
Looping == messages = 0 => todo = <<>>

\* One thread is in a callback or in loop(), never in both.
LoopMayRun == Looping /\ (Publisher = "loop" => todo = <<>>)

\* A delivery comes once the last setup frame, consume, is answered; the timer
\* starts in the callback of the first, open.
PublisherMayRun ==
  /\ Looping
  /\ IF Publisher = "loop"
     THEN answered = Len(Setup) /\ loop = "idle" /\ ~closed
     ELSE answered > 0

-----------------------------------------------------------------------------
(* ChannelImpl::send, for the frames of a call one after the other *)

\* The timer fires or a message is delivered, and the callback publishes.
Publish ==
  /\ todo = <<>>
  /\ PublisherMayRun
  /\ messages < MaxMessages
  /\ messages' = messages + 1
  /\ todo' = CallFrames(messages + 1)
  /\ UNCHANGED <<synchronous, queue, wire, caller, given, loopVars>>

\* Mutant: a frame does not wait for the answer to another.
Busy_Never == FALSE

Busy == synchronous \/ queue # <<>>

\* send() on a closed channel fails, publish() gives up, and nobody looks at it.
Check ==
  /\ todo # <<>> /\ caller = "idle"
  /\ IF closed
     THEN todo' = <<>> /\ UNCHANGED <<caller, given>>
     ELSE /\ given' = Append(given, Head(todo))
          /\ caller' = IF Busy THEN "emplace" ELSE "transmit"
          /\ todo' = todo
  /\ UNCHANGED <<synchronous, queue, wire, messages, loopVars>>

Emplace ==
  /\ caller = "emplace"
  /\ queue' = Append(queue, Head(todo))
  /\ todo' = Tail(todo)
  /\ caller' = "idle"
  /\ UNCHANGED <<synchronous, wire, messages, given, loopVars>>

Transmit ==
  /\ caller = "transmit"
  /\ wire' = Append(wire, Head(todo))
  /\ caller' = "mark"
  /\ UNCHANGED <<synchronous, queue, todo, messages, given, loopVars>>

\* _synchronous = frame.synchronous()
Mark ==
  /\ caller = "mark"
  /\ synchronous' = Synchronous(Head(todo))
  /\ todo' = Tail(todo)
  /\ caller' = "idle"
  /\ UNCHANGED <<queue, wire, messages, given, loopVars>>

-----------------------------------------------------------------------------
(* loop(): the answers of the broker *)

\* How many of the first n frames on the wire are synchronous.
SynchronousAmong(n) == Cardinality({i \in 1 .. n : Synchronous(wire[i])})

SynchronousSent == SynchronousAmong(Len(wire))

\* The broker answers the oldest synchronous frame; the callback of the answer
\* runs before onSynchronized().
Answer ==
  /\ loop = "idle" /\ LoopMayRun
  /\ ~closed
  /\ answered < SynchronousSent
  /\ answered' = answered + 1
  /\ loop' = "synchronized"
  /\ UNCHANGED <<synchronous, queue, wire, callerVars, popped, closed>>

\* Mutant: the flag is not reset.
AfterAnswer_Kept == synchronous

AfterAnswer == FALSE

OnSynchronized ==
  /\ loop = "synchronized" /\ LoopMayRun
  /\ synchronous' = AfterAnswer
  /\ loop' = "drain"
  /\ UNCHANGED <<queue, wire, callerVars, popped, answered, closed>>

\* Mutant: the frame that waited least goes first.
Turn_Newest == Len(queue)

Turn == 1

\* Take the first frame off the queue.
Pop ==
  /\ loop = "drain" /\ LoopMayRun
  /\ ~synchronous /\ queue # <<>>
  /\ popped' = <<queue[Turn]>>
  /\ queue' = [i \in 1 .. Len(queue) - 1 |->
                 IF i < Turn THEN queue[i] ELSE queue[i + 1]]
  /\ loop' = "mark"
  /\ UNCHANGED <<synchronous, wire, callerVars, answered, closed>>

\* _synchronous = pair.first
MarkPopped ==
  /\ loop = "mark" /\ LoopMayRun
  /\ synchronous' = Synchronous(Head(popped))
  /\ loop' = "transmit"
  /\ UNCHANGED <<queue, wire, callerVars, popped, answered, closed>>

TransmitPopped ==
  /\ loop = "transmit" /\ LoopMayRun
  /\ wire' = wire \o popped
  /\ popped' = <<>>
  /\ loop' = "drain"
  /\ UNCHANGED <<synchronous, queue, callerVars, answered, closed>>

EndDrain ==
  /\ loop = "drain" /\ LoopMayRun
  /\ synchronous \/ queue = <<>>
  /\ loop' = "idle"
  /\ UNCHANGED <<synchronous, queue, wire, callerVars, popped, answered, closed>>

\* The broker closes the channel, for instance because the queue to consume
\* from does not exist: reportError() drops what waits.  The programs install
\* no error callback.
ChannelClosed ==
  /\ loop = "idle" /\ LoopMayRun
  /\ answered > 0 /\ ~closed
  /\ closed' = TRUE
  /\ synchronous' = FALSE
  /\ queue' = <<>>
  /\ UNCHANGED <<wire, callerVars, loop, popped, answered>>

CallerSteps == Check \/ Emplace \/ Transmit \/ Mark

LoopSteps ==
  Answer \/ OnSynchronized \/ Pop \/ MarkPopped \/ TransmitPopped \/ EndDrain

ChannelNext == Publish \/ CallerSteps \/ LoopSteps \/ ChannelClosed

ChannelSpec == ChannelInit /\ [][ChannelNext]_channelVars

\* Both threads keep running and the broker answers; nobody has to publish.
ChannelFairSpec == ChannelSpec /\ WF_channelVars(CallerSteps) /\ WF_channelVars(LoopSteps)

-----------------------------------------------------------------------------
(* Properties *)

\* Frames reach the connection in the order in which send() accepted them,
\* whether they had to wait or not: "are there other frames waiting for their
\* turn to be sent?" (channelimpl.cpp).  A body before its header would be a
\* protocol error.
FramesInOrder == wire = SubSeq(given, 1, Len(wire))

\* Nothing is sent behind a synchronous frame before its answer has come: "After a
\* synchronous frame no more frames may be sent until the accompanying -ok
\* frame arrives" (methodframe.h).
SynchronousAlone ==
  \A i \in DOMAIN wire :
    Synchronous(wire[i]) /\ i < Len(wire) => SynchronousAmong(i) <= answered

\* A frame that send() "pretends" to have sent is sent later, unless the
\* channel is closed.
QueuedFrameIsSent ==
  \A n \in 1 .. Len(Setup) + MaxMessages * Len(Call) :
    (Len(given) >= n) ~> (Len(wire) >= n \/ closed)

=============================================================================
