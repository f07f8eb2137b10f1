-------------------------- MODULE SharedOutBuffer --------------------------
(***************************************************************************)
(* outBuffer of SimplePocoHandler, access of m_use by access.  onData      *)
(* fills the buffer in every thread that publishes; loop() sends and       *)
(* drains it in its thread.  In receive.cpp and worker.cpp only callbacks  *)
(* of loop()'s thread publish.  In send.cpp the detached timer thread      *)
(* publishes too, and loop()'s thread still calls onData, when it answers  *)
(* the handshake and when an answer lets queued frames go.  No lock        *)
(* protects the buffer.                                                    *)
(*                                                                         *)
(* The bytes handed to onData are numbered 1, 2, 3, ... in that order.     *)
(***************************************************************************)
EXTENDS Integers, Sequences

CONSTANTS
  Capacity,      \* BUFFER_SIZE
  FrameMax,      \* the longest frame
  MaxOut,        \* bound: bytes handed to onData
  Threads        \* the threads that call onData; "loop" also runs loop()

\* What the theorems assume of the constants.
SharedOutBufferAssumption ==
  /\ FrameMax \in Nat \ {0} /\ Capacity \in Nat /\ FrameMax <= Capacity
  /\ MaxOut \in Nat
  /\ "loop" \in Threads

VARIABLES
  data,          \* m_data: the memory of the buffer
  use,           \* m_use
  accepted,      \* how many bytes onData was given
  sent,          \* history: what sendBytes() was given
  overrun,       \* memory outside m_data or the frame was accessed
  frame,         \* onData: what is still to be written, per thread
  second,        \* onData is in its second write
  count,         \* the local variable write, or the length for sendBytes
  seen,          \* m_use as += has read it
  pc             \* where the thread is

shared == <<data, use, accepted, sent, overrun>>
local == <<frame, second, count, seen>>
vars == <<shared, local, pc>>

Smaller(a, b) == IF a < b THEN a ELSE b

\* What the first n places of m_data hold.
Bytes(n) == [i \in 1 .. Smaller(n, Capacity) |-> data[i]]

Init ==
  /\ data = [i \in 1 .. Capacity |-> 0]
  /\ use = 0
  /\ accepted = 0
  /\ sent = <<>>
  /\ overrun = FALSE
  /\ frame = [t \in Threads |-> <<>>]
  /\ second = [t \in Threads |-> FALSE]
  /\ count = [t \in Threads |-> 0]
  /\ seen = [t \in Threads |-> 0]
  /\ pc = [t \in Threads |-> "idle"]

\* Thread t goes on at the place to.
Go(t, from, to) == pc[t] = from /\ pc' = [pc EXCEPT ![t] = to]

-----------------------------------------------------------------------------
(* onData and Buffer::write *)

CallOnData(t) ==
  /\ Go(t, "idle", "full")
  /\ \E n \in 1 .. FrameMax :
       /\ accepted + n <= MaxOut
       /\ frame' = [frame EXCEPT ![t] = [i \in 1 .. n |-> accepted + i]]
       /\ accepted' = accepted + n
  /\ UNCHANGED <<data, use, sent, overrun, second, count, seen>>

\* write() returns n: a short first write makes onData flush and write the
\* rest; what a short second write leaves is forgotten.
Return(t, n, from) ==
  LET rest == SubSeq(frame[t], n + 1, Len(frame[t]))
      done == rest = <<>> \/ second[t]
  IN  /\ Go(t, from, IF done THEN "idle" ELSE "available")
      /\ frame' = [frame EXCEPT ![t] = IF done THEN <<>> ELSE rest]
      /\ second' = [second EXCEPT ![t] = FALSE]

\* if (m_use == m_data.size()) return 0
WriteNothing(t) ==
  /\ use = Capacity
  /\ Return(t, 0, "full")
  /\ UNCHANGED <<shared, count, seen>>

WriteSome(t) ==
  /\ use # Capacity
  /\ Go(t, "full", "fits")
  /\ UNCHANGED <<shared, local>>

\* length < m_data.size()
FrameFits(t) ==
  /\ Len(frame[t]) + use < Capacity
  /\ Go(t, "fits", "copy")
  /\ count' = [count EXCEPT ![t] = Len(frame[t])]
  /\ UNCHANGED <<shared, frame, second, seen>>

FrameTooLong(t) ==
  /\ Len(frame[t]) + use >= Capacity
  /\ Go(t, "fits", "room")
  /\ UNCHANGED <<shared, local>>

\* m_data.size() - m_use; a negative number stands for the huge one that the
\* unsigned subtraction yields.
Room == Capacity - use

MeasureRoom(t) ==
  /\ Go(t, "room", "copy")
  /\ count' = [count EXCEPT ![t] = Room]
  /\ UNCHANGED <<shared, frame, second, seen>>

\* memcpy(m_data + m_use, ...)
Copy(t) ==
  /\ Go(t, "copy", "load")
  /\ IF count[t] \in 0 .. Len(frame[t]) /\ use + count[t] <= Capacity
       THEN /\ data' = [i \in DOMAIN data |->
                          IF i \in use + 1 .. use + count[t] THEN frame[t][i - use]
                          ELSE data[i]]
            /\ UNCHANGED overrun
       ELSE overrun' = TRUE /\ UNCHANGED data
  /\ UNCHANGED <<use, accepted, sent, local>>

\* m_use += write reads ...
LoadUse(t) ==
  /\ Go(t, "load", "store")
  /\ seen' = [seen EXCEPT ![t] = use]
  /\ UNCHANGED <<shared, frame, second, count>>

\* ... and writes.
StoreUse(t) ==
  /\ use' = seen[t] + count[t]
  /\ Return(t, count[t], "store")
  /\ UNCHANGED <<data, accepted, sent, overrun, count, seen>>

-----------------------------------------------------------------------------
(* sendDataFromBuffer, called by onData and in every round of loop() *)

LoopSends ==
  /\ Go("loop", "idle", "available")
  /\ UNCHANGED <<shared, local>>

\* Back to the caller: onData has the rest of its frame to write.
BackFromSending(t, from) ==
  /\ Go(t, from, IF frame[t] = <<>> THEN "idle" ELSE "full")
  /\ second' = [second EXCEPT ![t] = frame[t] # <<>>]

NothingAvailable(t) ==
  /\ use = 0
  /\ BackFromSending(t, "available")
  /\ UNCHANGED <<shared, frame, count, seen>>

SomethingAvailable(t) ==
  /\ use # 0
  /\ Go(t, "available", "measure")
  /\ UNCHANGED <<shared, local>>

MeasureContents(t) ==
  /\ Go(t, "measure", "send")
  /\ count' = [count EXCEPT ![t] = use]
  /\ UNCHANGED <<shared, frame, second, seen>>

SendBytes(t) ==
  /\ Go(t, "send", "drain")
  /\ sent' = sent \o Bytes(count[t])
  /\ overrun' = (overrun \/ count[t] > Capacity)
  /\ UNCHANGED <<data, use, accepted, local>>

UseAfterDrain == 0

Drain(t) ==
  /\ use' = UseAfterDrain
  /\ BackFromSending(t, "drain")
  /\ UNCHANGED <<data, accepted, sent, overrun, frame, count, seen>>

\* After an overrun anything may happen, so nothing is said of it.
Step(t) ==
  \/ CallOnData(t)
  \/ WriteNothing(t)
  \/ WriteSome(t)
  \/ FrameFits(t)
  \/ FrameTooLong(t)
  \/ MeasureRoom(t)
  \/ Copy(t)
  \/ LoadUse(t)
  \/ StoreUse(t)
  \/ NothingAvailable(t)
  \/ SomethingAvailable(t)
  \/ MeasureContents(t)
  \/ SendBytes(t)
  \/ Drain(t)

Next == ~overrun /\ (LoopSends \/ \E t \in Threads : Step(t))

Spec == Init /\ [][Next]_vars

-----------------------------------------------------------------------------
(* Properties *)

\* Buffer::write and sendBytes stay inside m_data at every fill level: an empty
\* buffer, one that a frame fills exactly, one in which only a part of it fits,
\* a full one (when one thread publishes).
InsideBuffer == use <= Capacity /\ ~overrun

Quiet == \A t \in Threads : pc[t] = "idle"

\* The socket sees the bytes onData was given, each once and in order; when
\* nobody is busy with the buffer, those not sent are in it (when one thread
\* publishes).
StreamIntact ==
  /\ \A i \in DOMAIN sent : sent[i] = i
  /\ Quiet => sent \o Bytes(use) = [i \in 1 .. accepted |-> i]

\* When nobody is busy with the buffer every byte that onData was given was
\* sent or is in the buffer, once, in whatever order the threads' frames come.
\* connectionhandler.h asks this of onData: "this method should always send out
\* all data or do the buffering itself".
AllSentOrBuffered ==
  Quiet =>
    LET all == sent \o Bytes(use)
    IN  /\ Len(all) = accepted
        /\ \A b \in 1 .. accepted : \E i \in 1 .. Len(all) : all[i] = b

=============================================================================
