---------------------------- MODULE PocoHandler ----------------------------
(***************************************************************************)
(* SimplePocoHandler: the socket loop under every C++ program of           *)
(* apps/cpp-rabbitmq-sample, used from one thread (receive.cpp,            *)
(* worker.cpp).  loop() polls the socket into inputBuffer, lets the AMQP   *)
(* library parse the complete frames in it, whose callbacks call onData to *)
(* fill outBuffer, and then sends outBuffer.                               *)
(*                                                                         *)
(* A frame of n bytes is the sequence n-1, n-2, ..., 0: a byte says how    *)
(* many of its frame follow, which is what the parser learns from the      *)
(* frame header.                                                           *)
(***************************************************************************)
EXTENDS Integers, Sequences

CONSTANTS
  Capacity,      \* BUFFER_SIZE, the size of inputBuffer and outBuffer
  FrameMax,      \* the longest frame either side sends
  SocketMax,     \* what the kernel holds for a socket that is not read
  MaxIn,         \* bound: bytes the peer sends
  MaxOut         \* bound: bytes the library hands to onData

ASSUME SizeAssumption ==
  /\ Capacity \in Nat /\ FrameMax \in Nat \ {0} /\ SocketMax \in Nat
  /\ MaxIn \in Nat /\ MaxOut \in Nat

\* 8 MB hold a frame, and what may be left of one in inputBuffer together with
\* all that the kernel can hand over in one read.
ASSUME FitAssumption ==
  /\ FrameMax <= Capacity
  /\ FrameMax - 1 + SocketMax <= Capacity

Byte == 0 .. FrameMax - 1

Frame(n) == [i \in 1 .. n |-> n - i]

Frames == {Frame(n) : n \in 1 .. FrameMax}

VARIABLES
  pc,            \* where the thread is: main() or inside loop()
  quit,          \* m_impl->quit
  connection,    \* m_impl->connection is not null
  usable,        \* the AMQP connection is not in state_closed
  socketIn,      \* bytes the kernel received and loop() has not read
  owed,          \* bytes the peer still owes of the frame it is sending
  inputBuffer,
  outBuffer,
  parsed,        \* history: the bytes parse() consumed
  sent           \* history: the bytes given to sendBytes()

vars == <<pc, quit, connection, usable, socketIn, owed, inputBuffer,
          outBuffer, parsed, sent>>

Control == {"construct", "receive", "parse", "callback", "send", "flush",
            "done", "failed"}

-----------------------------------------------------------------------------
(* Buffer *)

Smaller(a, b) == IF a < b THEN a ELSE b

\* Mutant: the capacity is not looked at.
Written_Unbounded(buffer, data) == Len(data)

\* Buffer::write: what does not fit is dropped; the caller may look at the
\* number of bytes written.
Written(buffer, data) == Smaller(Len(data), Capacity - Len(buffer))

Write(buffer, data) == buffer \o SubSeq(data, 1, Written(buffer, data))

\* Mutant: once something was parsed the whole buffer is drained.
Shl_Drains(buffer, count) == IF count > 0 THEN <<>> ELSE buffer

\* Buffer::shl (and drain, when count is everything)
Shl(buffer, count) == SubSeq(buffer, count + 1, Len(buffer))

\* The bytes parse() consumes: up to the end of the last complete frame.
FrameEnds(buffer) == {k \in 1 .. Len(buffer) : buffer[k] = 0}

\* Mutant: frames are parsed only when no part of another follows them.
ParsedCount_NoneIfPartial(buffer) ==
  IF Len(buffer) \in FrameEnds(buffer) THEN Len(buffer) ELSE 0

ParsedCount(buffer) ==
  IF FrameEnds(buffer) = {} THEN 0
  ELSE CHOOSE k \in FrameEnds(buffer) : \A j \in FrameEnds(buffer) : j <= k

-----------------------------------------------------------------------------
Init ==
  /\ pc = "construct"
  /\ quit = FALSE /\ connection = FALSE /\ usable = TRUE
  /\ socketIn = <<>> /\ owed = 0
  /\ inputBuffer = <<>> /\ outBuffer = <<>>
  /\ parsed = <<>> /\ sent = <<>>

\* The kernel receives one more byte from the peer, if it has room.
Arrive ==
  /\ connection
  /\ Len(socketIn) < SocketMax
  /\ Len(parsed) + Len(inputBuffer) + Len(socketIn) < MaxIn
  /\ \E b \in Byte :
       /\ owed > 0 => b = owed - 1
       /\ socketIn' = Append(socketIn, b)
       /\ owed' = b
  /\ UNCHANGED <<pc, quit, connection, usable, inputBuffer, outBuffer,
                 parsed, sent>>

\* Mutant: a buffer that is not full waits for more.
SendDataFromBuffer_WhenFull ==
  IF Len(outBuffer) = Capacity
  THEN sent' = sent \o outBuffer /\ outBuffer' = <<>>
  ELSE UNCHANGED <<sent, outBuffer>>

\* sendDataFromBuffer
SendDataFromBuffer ==
  /\ sent' = sent \o outBuffer
  /\ outBuffer' = <<>>

\* Mutant: after the flush the rest of the frame is forgotten.
OnData_ForgetsRest(data) ==
  /\ Len(sent) + Len(outBuffer) + Len(data) <= MaxOut
  /\ connection' = TRUE
  /\ IF Written(outBuffer, data) # Len(data)
     THEN sent' = sent \o Write(outBuffer, data) /\ outBuffer' = <<>>
     ELSE sent' = sent /\ outBuffer' = Write(outBuffer, data)

\* onData: if the frame does not fit, send what is buffered and buffer the
\* rest of the frame.
OnData(data) ==
  LET writen == Written(outBuffer, data)
      rest   == SubSeq(data, writen + 1, Len(data))
  IN  /\ Len(sent) + Len(outBuffer) + Len(data) <= MaxOut
      /\ connection' = TRUE
      /\ IF writen # Len(data)
         THEN /\ sent' = sent \o Write(outBuffer, data)
              /\ outBuffer' = Write(<<>>, rest)
         ELSE /\ outBuffer' = Write(outBuffer, data)
              /\ sent' = sent

\* main() constructs the AMQP::Connection, which sends the protocol header,
\* and enters loop().
Construct ==
  /\ pc = "construct"
  /\ \E data \in Frames : OnData(data)
  /\ pc' = "receive"
  /\ UNCHANGED <<quit, usable, socketIn, owed, inputBuffer, parsed>>

\* while (!quit): read everything the socket has.
Receive ==
  /\ pc = "receive"
  /\ ~quit
  /\ inputBuffer' = Write(inputBuffer, socketIn)
  /\ socketIn' = <<>>
  /\ pc' = "parse"
  /\ UNCHANGED <<quit, connection, usable, owed, outBuffer, parsed, sent>>

\* parse() is called only when there is a connection and some input.
Parse ==
  /\ pc = "parse"
  /\ pc' = IF connection /\ Len(inputBuffer) > 0 THEN "callback" ELSE "send"
  /\ UNCHANGED <<quit, connection, usable, socketIn, owed, inputBuffer,
                 outBuffer, parsed, sent>>

\* Inside parse(), while complete frames are processed.
InCallback == pc = "callback" /\ usable /\ ParsedCount(inputBuffer) > 0

\* A callback of a parsed frame makes the library send a frame.
CallbackSends ==
  /\ InCallback
  /\ \E data \in Frames : OnData(data)
  /\ UNCHANGED <<pc, quit, usable, socketIn, owed, inputBuffer, parsed>>

\* parse() gave up at a frame that ends the connection: the frames before it,
\* perhaps it too, are consumed, the rest stays in inputBuffer.
ParseGivesUp ==
  /\ InCallback
  /\ \E count \in {0} \cup FrameEnds(inputBuffer) :
       /\ parsed' = parsed \o SubSeq(inputBuffer, 1, count)
       /\ inputBuffer' = Shl(inputBuffer, count)
  /\ usable' = FALSE
  /\ pc' = "send"
  /\ UNCHANGED <<connection, socketIn, owed, outBuffer, sent>>

\* onClosed: the frame is connection.close-ok.
OnClosed == ParseGivesUp /\ quit' = TRUE

\* onError: the frame breaks the protocol or is a close from the broker.  It
\* is only logged, loop() goes on.
OnError == ParseGivesUp /\ quit' = quit

\* parse() returns the count of processed bytes: drain() if it is all of
\* them, shl(count) if it is some, nothing if it is none.  An unusable
\* connection parses nothing.
ParseReturns ==
  LET count == IF usable THEN ParsedCount(inputBuffer) ELSE 0
  IN  /\ pc = "callback"
      /\ parsed' = parsed \o SubSeq(inputBuffer, 1, count)
      /\ inputBuffer' = Shl(inputBuffer, count)
      /\ pc' = "send"
      /\ UNCHANGED <<quit, connection, usable, socketIn, owed, outBuffer,
                     sent>>

Send ==
  /\ pc = "send"
  /\ SendDataFromBuffer
  /\ pc' = "receive"
  /\ UNCHANGED <<quit, connection, usable, socketIn, owed, inputBuffer,
                 parsed>>

\* The loop condition fails: one more flush after the loop.
LeaveLoop ==
  /\ pc = "receive"
  /\ quit
  /\ pc' = "flush"
  /\ UNCHANGED <<quit, connection, usable, socketIn, owed, inputBuffer,
                 outBuffer, parsed, sent>>

Flush ==
  /\ pc = "flush"
  /\ SendDataFromBuffer
  /\ pc' = "done"
  /\ UNCHANGED <<quit, connection, usable, socketIn, owed, inputBuffer,
                 parsed>>

\* quit(), the handler's public operation.
Quit ==
  /\ ~quit
  /\ pc \notin {"construct", "done", "failed"}
  /\ quit' = TRUE
  /\ UNCHANGED <<pc, connection, usable, socketIn, owed, inputBuffer,
                 outBuffer, parsed, sent>>

\* receiveBytes or sendBytes throws a Poco::Exception, which ends loop().
SocketFails ==
  /\ \/ pc = "receive" /\ ~quit
     \/ pc \in {"send", "flush"} /\ outBuffer # <<>>
     \/ InCallback /\ Capacity - Len(outBuffer) < FrameMax
  /\ pc' = "failed"
  /\ UNCHANGED <<quit, connection, usable, socketIn, owed, inputBuffer,
                 outBuffer, parsed, sent>>

LoopThread ==
  \/ Construct
  \/ Receive
  \/ Parse
  \/ ParseReturns
  \/ Send
  \/ LeaveLoop
  \/ Flush

Next ==
  \/ LoopThread
  \/ CallbackSends
  \/ OnClosed
  \/ OnError
  \/ Arrive
  \/ Quit
  \/ SocketFails

Spec == Init /\ [][Next]_vars

\* The loop is an endless while: its thread keeps running.
FairSpec == Spec /\ WF_vars(LoopThread)

-----------------------------------------------------------------------------
(* Properties *)

TypeOK ==
  /\ pc \in Control
  /\ quit \in BOOLEAN /\ connection \in BOOLEAN /\ usable \in BOOLEAN
  /\ socketIn \in Seq(Byte) /\ owed \in Byte
  /\ inputBuffer \in Seq(Byte) /\ outBuffer \in Seq(Byte)
  /\ parsed \in Seq(Byte) /\ sent \in Seq(Byte)
  /\ Len(socketIn) <= SocketMax
  /\ Len(inputBuffer) <= Capacity /\ Len(outBuffer) <= Capacity

\* Buffer::write drops what does not fit, and loop() ignores how much that
\* was.  None of it shows: what the peer sent reaches parse() complete and in
\* order, until the connection ends, although frames arrive in pieces and
\* several at once.
InStream == INSTANCE LosslessStream
              WITH Chunks    <- {<<b>> : b \in Byte},
                   pending   <- IF usable THEN inputBuffer \o socketIn ELSE <<>>,
                   delivered <- parsed,
                   open      <- usable

InputIsLossless == InStream!Spec

\* What the library hands to onData reaches the socket complete and in order,
\* also when it does not fit in outBuffer and onData has to send in the
\* middle of a frame.
OutStream == INSTANCE LosslessStream
               WITH Chunks    <- Frames,
                    pending   <- outBuffer,
                    delivered <- sent,
                    open      <- TRUE

OutputIsLossless == OutStream!Spec

\* parse() never swallows a part of a frame: while the connection is usable
\* the bytes consumed so far end with the end of a frame.
WholeFramesParsed ==
  usable /\ parsed # <<>> => parsed[Len(parsed)] = 0

Stopped == quit \/ ~usable \/ pc = "failed"

\* A frame that has arrived completely is eventually parsed, whatever arrives
\* behind it.
FrameIsParsed ==
  \A n \in 1 .. MaxIn :
    (Len(parsed) + ParsedCount(inputBuffer \o socketIn) >= n)
      ~> (Len(parsed) >= n \/ Stopped)

\* What onData accepted is eventually on its way, also when the loop is
\* quitting, unless the socket fails.
AcceptedIsSent ==
  \A n \in 1 .. MaxOut :
    (Len(sent) + Len(outBuffer) >= n) ~> (Len(sent) >= n \/ pc = "failed")

=============================================================================
