----------------------- MODULE SharedOutBufferProofs -----------------------
(***************************************************************************)
(* outBuffer for all sizes, when one thread publishes and sends, as in     *)
(* receive.cpp and worker.cpp: its counters stay inside the memory and the *)
(* socket sees every byte once and in order.  With a second thread neither *)
(* holds.                                                                  *)
(***************************************************************************)
EXTENDS SharedOutBuffer, SequenceTheorems, TLAPS

Byte == 0 .. MaxOut

\* The thread's place and its local variables.
Pc == pc["loop"]
Frame == frame["loop"]
Count == count["loop"]
Seen == seen["loop"]
Second == second["loop"]

Numbers ==
  /\ data \in [1 .. Capacity -> Byte]
  /\ use \in 0 .. Capacity
  /\ accepted \in Byte
  /\ sent \in Seq(Byte)
  /\ overrun = FALSE
  /\ frame \in [Threads -> Seq(Byte)]
  /\ Len(Frame) <= FrameMax
  /\ count \in [Threads -> 0 .. Capacity]
  /\ seen \in [Threads -> 0 .. Capacity]
  /\ second \in [Threads -> BOOLEAN]
  /\ pc \in [Threads -> {"idle", "full", "fits", "room", "copy", "load", "store",
                         "available", "measure", "send", "drain"}]

\* What was measured fits in what is to be written and in the room, and is
\* still the length of what is to be sent.
Measured ==
  /\ Pc = "room" => Len(Frame) + use >= Capacity
  /\ Pc \in {"copy", "load", "store"} =>
       Count <= Len(Frame) /\ use + Count <= Capacity
  /\ Pc = "store" => Seen = use
  /\ Pc = "send" => Count = use

Inside == Numbers /\ Measured

Places == {"idle", "full", "fits", "room", "copy", "load", "store",
           "available", "measure", "send", "drain"}

LEMMA Sizes ==
  ASSUME SharedOutBufferAssumption
  PROVE  /\ Capacity \in Nat /\ FrameMax \in Nat /\ FrameMax >= 1
         /\ FrameMax <= Capacity /\ MaxOut \in Nat
BY DEF SharedOutBufferAssumption

LEMMA NumbersMeans ==
  ASSUME SharedOutBufferAssumption, Threads = {"loop"}, Numbers
  PROVE  /\ data \in [1 .. Capacity -> Byte]
         /\ use \in Nat /\ use <= Capacity
         /\ accepted \in Nat /\ accepted <= MaxOut
         /\ sent \in Seq(Byte) /\ Len(sent) \in Nat
         /\ Frame \in Seq(Byte)
         /\ Len(Frame) \in Nat /\ Len(Frame) <= FrameMax
         /\ Count \in Nat /\ Count <= Capacity
         /\ Seen \in Nat /\ Second \in BOOLEAN /\ Pc \in Places
<1>1. /\ use \in 0 .. Capacity /\ accepted \in 0 .. MaxOut
      /\ Count \in 0 .. Capacity /\ Seen \in 0 .. Capacity
      /\ Frame \in Seq(Byte) /\ sent \in Seq(Byte)
      /\ Second \in BOOLEAN /\ Pc \in Places
  BY DEF Numbers, Byte, Count, Seen, Frame, Second, Pc, Places
<1>2. Len(Frame) \in Nat /\ Len(sent) \in Nat
  BY <1>1, LenProperties
<1> QED
  BY <1>1, <1>2, Sizes DEF Numbers

LEMMA BytesType ==
  ASSUME SharedOutBufferAssumption, Threads = {"loop"}, Numbers
  PROVE  /\ Bytes(use) \in Seq(Byte)
         /\ Len(Bytes(use)) = use
         /\ \A i \in 1 .. use : Bytes(use)[i] = data[i]
<1>1. use \in Nat /\ use <= Capacity
  BY NumbersMeans
<1>2. Smaller(use, Capacity) = use
  BY <1>1, Sizes DEF Smaller
<1>3. Bytes(use) = [i \in 1 .. use |-> data[i]]
  BY <1>2 DEF Bytes
<1>4. \A i \in 1 .. use : data[i] \in Byte
  BY <1>1, NumbersMeans, Sizes
<1>5. Bytes(use) \in [1 .. use -> Byte]
  BY <1>3, <1>4
<1>6. Bytes(use) \in Seq(Byte)
  BY <1>1, <1>5, SeqDef
<1>7. Len(Bytes(use)) = use
  BY <1>1, <1>5, <1>6, LenProperties
<1> QED
  BY <1>3, <1>6, <1>7

LEMMA ConcatBytes ==
  ASSUME NEW s \in Seq(Byte), NEW t \in Seq(Byte)
  PROVE  /\ s \o t \in Seq(Byte)
         /\ Len(s \o t) = Len(s) + Len(t)
         /\ \A i \in 1 .. Len(s) : (s \o t)[i] = s[i]
         /\ \A i \in Len(s) + 1 .. Len(s) + Len(t) :
              (s \o t)[i] = t[i - Len(s)]
<1>1. Len(s) \in Nat /\ Len(t) \in Nat
  BY LenProperties
<1> QED
  BY <1>1, ConcatProperties

\* Cutting k bytes off the frame.
LEMMA CutFrame ==
  ASSUME NEW s \in Seq(Byte), NEW k \in 0 .. Len(s)
  PROVE  /\ SubSeq(s, k + 1, Len(s)) \in Seq(Byte)
         /\ Len(SubSeq(s, k + 1, Len(s))) = Len(s) - k
         /\ \A i \in 1 .. Len(s) - k :
              SubSeq(s, k + 1, Len(s))[i] = s[k + i]
<1>0. Len(s) \in Nat
  BY LenProperties
<1>1. \A i \in k + 1 .. Len(s) : s[i] \in Byte
  BY <1>0, ElementOfSeq
<1> QED
  BY <1>0, <1>1, SubSeqProperties

\* Where a step of the one thread takes it.
LEMMA GoMeans ==
  ASSUME SharedOutBufferAssumption, Threads = {"loop"}, Numbers, NEW from \in Places, NEW to \in Places,
         Go("loop", from, to)
  PROVE  /\ Pc = from /\ Pc' = to
         /\ pc' \in [Threads -> {"idle", "full", "fits", "room", "copy", "load",
                                 "store", "available", "measure", "send", "drain"}]
BY DEF Numbers, Pc, Go, Places

-----------------------------------------------------------------------------
(* What the steps do, in the terms of the one thread *)

SentInOrder == \A i \in 1 .. Len(sent) : sent[i] = i

\* What was sent, what is in the buffer and what onData has still to write
\* follow each other without a gap.
Stored ==
  /\ Len(sent) + use + Len(Frame) = accepted
  /\ \A i \in 1 .. use : data[i] = Len(sent) + i
  /\ \A i \in 1 .. Len(Frame) : Frame[i] = Len(sent) + use + i

\* Between sendBytes and drain() the buffer holds what was just sent.
Sent ==
  /\ Len(sent) + Len(Frame) = accepted
  /\ \A i \in 1 .. Len(Frame) : Frame[i] = Len(sent) + i

\* Before m_use is advanced the memory behind it is written.
Copied ==
  Pc \in {"load", "store"} =>
    \A i \in 1 .. Count : data[use + i] = Len(sent) + use + i

\* The second write of onData meets an empty buffer, in which a frame fits.
RestFits ==
  /\ Second => /\ use = 0
               /\ Pc \in {"full", "fits", "room", "copy", "load", "store"}
  /\ Second /\ Pc \in {"copy", "load", "store"} => Count = Len(Frame)
  /\ Pc = "idle" => Frame = <<>>

InOrder ==
  /\ SentInOrder
  /\ Pc = "drain" => Sent
  /\ Pc # "drain" => Stored
  /\ Copied
  /\ RestFits

Inv == Inside /\ InOrder

LEMMA InitInv ==
  SharedOutBufferAssumption /\ Threads = {"loop"} /\ Init => Inv
<1> SUFFICES ASSUME SharedOutBufferAssumption, Threads = {"loop"}, Init PROVE Inv
  OBVIOUS
<1>1. Pc = "idle" /\ Frame = <<>> /\ Count = 0 /\ Seen = 0 /\ Second = FALSE
  BY DEF Init, Pc, Frame, Count, Seen, Second
<1>2. Numbers
  BY <1>1, Sizes DEF Init, Numbers, Byte
<1>3. Measured
  BY <1>1 DEF Measured
<1>4. InOrder
  BY <1>1, Sizes DEF Init, InOrder, SentInOrder, Stored, Copied, RestFits
<1> QED
  BY <1>2, <1>3, <1>4 DEF Inv, Inside

\* A call of onData appends its frame to what is stored.
LEMMA CallKeeps ==
  ASSUME SharedOutBufferAssumption, Threads = {"loop"}, Inv, CallOnData("loop")
  PROVE  Inv'
<1>0. Numbers /\ SentInOrder /\ RestFits
  BY DEF Inv, Inside, InOrder
<1>1. /\ Pc = "idle" /\ Pc' = "full"
      /\ pc' \in [Threads -> {"idle", "full", "fits", "room", "copy", "load",
                              "store", "available", "measure", "send", "drain"}]
  BY <1>0, GoMeans DEF CallOnData, Places
<1>2. PICK n \in 1 .. FrameMax :
        /\ accepted + n <= MaxOut
        /\ frame' = [frame EXCEPT !["loop"] = [i \in 1 .. n |-> accepted + i]]
        /\ accepted' = accepted + n
  BY DEF CallOnData
<1>3. /\ UNCHANGED <<data, use, sent, overrun, second, count, seen>>
      /\ UNCHANGED <<Count, Seen, Second>>
  BY DEF CallOnData, Count, Seen, Second
<1>4. n \in Nat /\ n <= FrameMax /\ accepted \in Nat
  BY <1>0, NumbersMeans, Sizes
<1>5. Frame' = [i \in 1 .. n |-> accepted + i]
  BY <1>0, <1>2 DEF Numbers, Frame
<1>6. \A i \in 1 .. n : accepted + i \in Byte
  BY <1>2, <1>4, Sizes DEF Byte
<1>7. Frame' \in Seq(Byte) /\ Len(Frame') = n
  <2>1. Frame' \in [1 .. n -> Byte]
    BY <1>5, <1>6
  <2>2. Frame' \in Seq(Byte)
    BY <1>4, <2>1, SeqDef
  <2> QED
    BY <1>4, <2>1, <2>2, LenProperties
<1>8. frame' \in [Threads -> Seq(Byte)]
  BY <1>0, <1>2, <1>5, <1>7 DEF Numbers, Frame
<1>9. accepted' \in Byte
  BY <1>2, <1>4, Sizes DEF Byte
<1>10. Numbers'
  BY <1>0, <1>1, <1>3, <1>4, <1>7, <1>8, <1>9 DEF Numbers
<1>11. Measured' /\ Copied'
  BY <1>1 DEF Measured, Copied
<1>12. Stored'
  <2>1. Stored /\ Frame = <<>>
    BY <1>0, <1>1 DEF Inv, InOrder, RestFits
  <2>2. Len(sent) + use = accepted
    BY <1>0, <2>1, NumbersMeans DEF Stored
  <2>3. \A i \in 1 .. n : Frame'[i] = Len(sent) + use + i
    BY <1>5, <2>2
  <2> QED
    BY <1>0, <1>2, <1>3, <1>4, <1>7, <2>1, <2>2, <2>3, NumbersMeans DEF Stored
<1>13. RestFits'
  BY <1>0, <1>1, <1>3 DEF RestFits
<1>14. SentInOrder'
  BY <1>0, <1>3 DEF SentInOrder
<1> QED
  BY <1>1, <1>10, <1>11, <1>12, <1>13, <1>14 DEF Inv, Inside, InOrder

\* Steps that only compare or measure.
LEMMA LookKeeps ==
  ASSUME SharedOutBufferAssumption, Threads = {"loop"}, Inv,
         \/ WriteSome("loop") \/ FrameFits("loop") \/ FrameTooLong("loop")
         \/ MeasureRoom("loop") \/ LoopSends \/ SomethingAvailable("loop")
         \/ MeasureContents("loop") \/ LoadUse("loop")
  PROVE  Inv'
<1>0. Numbers /\ Measured /\ SentInOrder /\ RestFits /\ Copied
  BY DEF Inv, Inside, InOrder
<1>a. /\ use \in Nat /\ use <= Capacity
      /\ Len(Frame) \in Nat /\ Len(Frame) <= FrameMax /\ Pc \in Places
  BY <1>0, NumbersMeans
<1>b. DOMAIN count = Threads /\ DOMAIN seen = Threads
  BY <1>0 DEF Numbers
<1>1. /\ UNCHANGED <<data, use, accepted, sent, overrun, frame, second>>
      /\ UNCHANGED <<Frame, Second>>
  BY DEF WriteSome, FrameFits, FrameTooLong, MeasureRoom, LoopSends,
         SomethingAvailable, MeasureContents, LoadUse, shared, local, Frame, Second
<1>2. \/ /\ Go("loop", "full", "fits") /\ UNCHANGED <<count, seen>>
      \/ /\ Go("loop", "fits", "copy") /\ UNCHANGED seen
         /\ Len(Frame) + use < Capacity
         /\ count' = [count EXCEPT !["loop"] = Len(Frame)]
      \/ /\ Go("loop", "fits", "room") /\ UNCHANGED <<count, seen>>
         /\ Len(Frame) + use >= Capacity
      \/ /\ Go("loop", "room", "copy") /\ UNCHANGED seen
         /\ count' = [count EXCEPT !["loop"] = Capacity - use]
      \/ /\ Go("loop", "idle", "available") /\ UNCHANGED <<count, seen>>
      \/ /\ Go("loop", "available", "measure") /\ UNCHANGED <<count, seen>>
      \/ /\ Go("loop", "measure", "send") /\ UNCHANGED seen
         /\ count' = [count EXCEPT !["loop"] = use]
      \/ /\ Go("loop", "load", "store") /\ UNCHANGED count
         /\ seen' = [seen EXCEPT !["loop"] = use]
  BY DEF WriteSome, FrameFits, FrameTooLong, MeasureRoom, LoopSends, Room,
         SomethingAvailable, MeasureContents, LoadUse, shared, local, Frame
<1>3. /\ Pc # "drain" /\ Pc' # "drain"
      /\ pc' \in [Threads -> {"idle", "full", "fits", "room", "copy", "load",
                              "store", "available", "measure", "send", "drain"}]
  BY <1>0, <1>2, GoMeans DEF Places
<1>4. Stored'
  BY <1>1, <1>3 DEF Stored, Inv, InOrder
<1>5. SentInOrder'
  BY <1>0, <1>1 DEF SentInOrder
<1>6. \/ /\ Pc = "full" /\ Pc' = "fits" /\ UNCHANGED <<count, seen, Count, Seen>>
      \/ /\ Pc = "fits" /\ Pc' = "copy" /\ UNCHANGED <<seen, Seen>>
         /\ Len(Frame) + use < Capacity
         /\ count' \in [Threads -> 0 .. Capacity] /\ Count' = Len(Frame)
      \/ /\ Pc = "fits" /\ Pc' = "room" /\ UNCHANGED <<count, seen, Count, Seen>>
         /\ Len(Frame) + use >= Capacity
      \/ /\ Pc = "room" /\ Pc' = "copy" /\ UNCHANGED <<seen, Seen>>
         /\ count' \in [Threads -> 0 .. Capacity] /\ Count' = Capacity - use
      \/ /\ Pc = "idle" /\ Pc' = "available" /\ UNCHANGED <<count, seen, Count, Seen>>
      \/ /\ Pc = "available" /\ Pc' = "measure" /\ UNCHANGED <<count, seen, Count, Seen>>
      \/ /\ Pc = "measure" /\ Pc' = "send" /\ UNCHANGED <<seen, Seen>>
         /\ count' \in [Threads -> 0 .. Capacity] /\ Count' = use
      \/ /\ Pc = "load" /\ Pc' = "store" /\ UNCHANGED <<count, Count>>
         /\ seen' \in [Threads -> 0 .. Capacity] /\ Seen' = use
  <2>1. ASSUME NEW n \in 0 .. Capacity, count' = [count EXCEPT !["loop"] = n]
        PROVE  count' \in [Threads -> 0 .. Capacity] /\ Count' = n
    BY <1>0, <1>b, <2>1 DEF Numbers, Count
  <2>2. ASSUME NEW n \in 0 .. Capacity, seen' = [seen EXCEPT !["loop"] = n]
        PROVE  seen' \in [Threads -> 0 .. Capacity] /\ Seen' = n
    BY <1>0, <1>b, <2>2 DEF Numbers, Seen
  <2>3. /\ use \in 0 .. Capacity /\ Capacity - use \in 0 .. Capacity
        /\ Len(Frame) \in 0 .. Capacity
    BY <1>a, Sizes
  <2>4. /\ UNCHANGED count => UNCHANGED Count
        /\ UNCHANGED seen => UNCHANGED Seen
    BY DEF Count, Seen
  <2> QED
    BY <1>0, <1>2, <2>1, <2>2, <2>3, <2>4, GoMeans DEF Places
<1>7. Numbers'
  BY <1>0, <1>1, <1>3, <1>6 DEF Numbers
<1>8. Measured'
  BY <1>0, <1>1, <1>6, <1>a, Sizes DEF Measured
<1>9. Copied'
  BY <1>0, <1>1, <1>6 DEF Copied
<1>10. RestFits'
  BY <1>0, <1>1, <1>6, <1>a, Sizes DEF RestFits, Measured
<1> QED
  BY <1>3, <1>4, <1>5, <1>7, <1>8, <1>9, <1>10 DEF Inv, Inside, InOrder

\* What write() returns leaves the frame without its first n bytes, also when
\* nothing of it is left.
LEMMA ReturnMeans ==
  ASSUME SharedOutBufferAssumption, Threads = {"loop"}, Numbers, NEW from \in Places, NEW n \in 0 .. Len(Frame),
         Return("loop", n, from), Second => n = Len(Frame)
  PROVE  /\ Pc = from /\ Pc' \in {"idle", "available"}
         /\ pc' \in [Threads -> {"idle", "full", "fits", "room", "copy", "load",
                                 "store", "available", "measure", "send", "drain"}]
         /\ frame' \in [Threads -> Seq(Byte)]
         /\ Len(Frame') = Len(Frame) - n
         /\ \A i \in 1 .. Len(Frame) - n : Frame'[i] = Frame[n + i]
         /\ Pc' = "idle" => Frame' = <<>>
         /\ second' \in [Threads -> BOOLEAN] /\ Second' = FALSE
<1> DEFINE rest == SubSeq(Frame, n + 1, Len(Frame))
           done == rest = <<>> \/ Second
<1>0. Frame \in Seq(Byte) /\ Len(Frame) \in Nat
  BY NumbersMeans
<1>1. /\ rest \in Seq(Byte) /\ Len(rest) = Len(Frame) - n
      /\ \A i \in 1 .. Len(Frame) - n : rest[i] = Frame[n + i]
  BY <1>0, CutFrame
<1>2. /\ Go("loop", from, IF done THEN "idle" ELSE "available")
      /\ frame' = [frame EXCEPT !["loop"] = IF done THEN <<>> ELSE rest]
      /\ second' = [second EXCEPT !["loop"] = FALSE]
  BY DEF Return, Frame, Second
<1>3. Second => rest = <<>>
  <2> SUFFICES ASSUME Second PROVE rest = <<>>
    OBVIOUS
  <2>1. Len(rest) = 0
    BY <1>0, <1>1
  <2> QED
    BY <1>1, <2>1, EmptySeq
<1>4. (IF done THEN <<>> ELSE rest) = rest
  BY <1>3
<1>5. Frame' = rest /\ frame' \in [Threads -> Seq(Byte)]
  <2>1. frame' = [frame EXCEPT !["loop"] = rest]
    BY <1>2, <1>4
  <2> HIDE DEF rest
  <2> QED
    BY <1>1, <2>1 DEF Numbers, Frame
<1>6. second' \in [Threads -> BOOLEAN] /\ Second' = FALSE
  BY <1>2 DEF Numbers, Second
<1>7. /\ Pc = from /\ Pc' = (IF done THEN "idle" ELSE "available")
      /\ pc' \in [Threads -> {"idle", "full", "fits", "room", "copy", "load",
                              "store", "available", "measure", "send", "drain"}]
  <2>1. (IF done THEN "idle" ELSE "available") \in Places
    BY DEF Places
  <2> QED
    BY <1>2, <2>1, GoMeans
<1>8. Pc' = "idle" => Frame' = <<>>
  BY <1>3, <1>5, <1>7
<1> HIDE DEF rest, done
<1> QED
  BY <1>1, <1>5, <1>6, <1>7, <1>8

\* A write that stores nothing or ends with m_use += write.
LEMMA WriteKeeps ==
  ASSUME SharedOutBufferAssumption, Threads = {"loop"}, Inv, WriteNothing("loop") \/ StoreUse("loop")
  PROVE  Inv'
<1>0. /\ Numbers /\ Measured /\ SentInOrder /\ RestFits /\ Copied
      /\ use \in Nat /\ use <= Capacity
      /\ Len(Frame) \in Nat /\ Len(Frame) <= FrameMax
      /\ Len(sent) \in Nat /\ accepted \in Nat /\ Count \in Nat
  BY NumbersMeans DEF Inv, Inside, InOrder
<1>1. PICK n \in 0 .. Len(Frame), from \in {"full", "store"} :
        /\ Return("loop", n, from)
        /\ Second => n = Len(Frame)
        /\ use' = use + n /\ use + n <= Capacity
        /\ from = "store" => n = Count
        /\ from = "full" => n = 0
        /\ UNCHANGED <<data, accepted, sent, overrun, count, seen>>
  <2>1. CASE WriteNothing("loop")
    <3>1. /\ use = Capacity /\ Return("loop", 0, "full")
          /\ UNCHANGED <<data, use, accepted, sent, overrun, count, seen>>
      BY <2>1 DEF WriteNothing, shared
    <3>2. ~Second
      BY <1>0, <3>1, Sizes DEF RestFits
    <3>3. 0 \in 0 .. Len(Frame) /\ use' = use + 0 /\ use + 0 <= Capacity
      BY <1>0, <3>1
    <3> QED
      BY <3>1, <3>2, <3>3
  <2>2. CASE StoreUse("loop")
    <3>1. /\ use' = Seen + Count /\ Return("loop", Count, "store")
          /\ UNCHANGED <<data, accepted, sent, overrun, count, seen>>
      BY <2>2 DEF StoreUse, Seen, Count
    <3>2. Pc = "store"
      BY <3>1 DEF Return, Go, Pc
    <3>3. Seen = use /\ Count <= Len(Frame) /\ use + Count <= Capacity
      BY <1>0, <3>2 DEF Measured
    <3>4. Count \in 0 .. Len(Frame)
      BY <1>0, <3>3
    <3>5. Second => Count = Len(Frame)
      BY <1>0, <3>2 DEF RestFits
    <3> QED
      BY <3>1, <3>3, <3>4, <3>5
  <2> QED
    BY <2>1, <2>2
<1>2. /\ Pc = from /\ Pc' \in {"idle", "available"}
      /\ pc' \in [Threads -> {"idle", "full", "fits", "room", "copy", "load",
                              "store", "available", "measure", "send", "drain"}]
      /\ frame' \in [Threads -> Seq(Byte)]
      /\ Len(Frame') = Len(Frame) - n
      /\ \A i \in 1 .. Len(Frame) - n : Frame'[i] = Frame[n + i]
      /\ Pc' = "idle" => Frame' = <<>>
      /\ second' \in [Threads -> BOOLEAN] /\ Second' = FALSE
  BY <1>0, <1>1, ReturnMeans DEF Places
<1>3. use' \in 0 .. Capacity /\ Len(Frame') <= FrameMax
  BY <1>0, <1>1, <1>2, Sizes
<1>4. Numbers'
  BY <1>0, <1>1, <1>2, <1>3 DEF Numbers
<1>5. Measured' /\ Copied' /\ RestFits'
  BY <1>2 DEF Measured, Copied, RestFits
<1>6. SentInOrder'
  BY <1>0, <1>1 DEF SentInOrder
<1>7. Stored
  BY <1>1, <1>2 DEF Inv, InOrder
<1>8. \A i \in 1 .. use + n : data[i] = Len(sent) + i
  <2> SUFFICES ASSUME NEW i \in 1 .. use + n PROVE data[i] = Len(sent) + i
    OBVIOUS
  <2>1. CASE i <= use
    <3>1. i \in 1 .. use
      BY <1>0, <2>1
    <3> QED
      BY <1>7, <3>1 DEF Stored
  <2>2. CASE i > use
    <3>1. /\ i - use \in 1 .. n /\ use + (i - use) = i
          /\ Len(sent) + use + (i - use) = Len(sent) + i
      BY <1>0, <1>1, <2>2
    <3>2. from = "store" /\ n = Count
      BY <1>1, <3>1
    <3>3. data[use + (i - use)] = Len(sent) + use + (i - use)
      BY <1>0, <1>2, <3>1, <3>2 DEF Copied
    <3> QED
      BY <3>1, <3>3
  <2> QED
    BY <1>0, <2>1, <2>2
<1>9. \A i \in 1 .. Len(Frame') : Frame'[i] = Len(sent) + use' + i
  <2> SUFFICES ASSUME NEW i \in 1 .. Len(Frame')
               PROVE  Frame'[i] = Len(sent) + use' + i
    OBVIOUS
  <2>1. n + i \in 1 .. Len(Frame) /\ i \in 1 .. Len(Frame) - n
    BY <1>0, <1>1, <1>2
  <2>2. Frame[n + i] = Len(sent) + use + (n + i)
    BY <1>7, <2>1 DEF Stored
  <2> QED
    BY <1>0, <1>1, <1>2, <2>1, <2>2
<1>10. Len(sent) + use' + Len(Frame') = accepted
  <2>1. Len(sent) + use + Len(Frame) = accepted
    BY <1>7 DEF Stored
  <2>2. use' = use + n /\ Len(Frame') = Len(Frame) - n /\ n \in Nat
    BY <1>0, <1>1, <1>2
  <2> QED
    BY <1>0, <2>1, <2>2
<1>11. Stored'
  BY <1>1, <1>8, <1>9, <1>10 DEF Stored
<1> QED
  BY <1>2, <1>4, <1>5, <1>6, <1>11 DEF Inv, Inside, InOrder

\* memcpy writes the frame behind what the buffer holds.
LEMMA CopyKeeps ==
  ASSUME SharedOutBufferAssumption, Threads = {"loop"}, Inv, Copy("loop")
  PROVE  Inv'
<1>0. /\ Numbers /\ Measured /\ SentInOrder /\ RestFits
      /\ use \in Nat /\ use <= Capacity /\ data \in [1 .. Capacity -> Byte]
      /\ Frame \in Seq(Byte) /\ Len(Frame) \in Nat /\ Count \in Nat
      /\ Len(sent) \in Nat
  BY NumbersMeans DEF Inv, Inside, InOrder
<1>1. /\ Pc = "copy" /\ Pc' = "load"
      /\ pc' \in [Threads -> {"idle", "full", "fits", "room", "copy", "load",
                              "store", "available", "measure", "send", "drain"}]
  BY <1>0, GoMeans DEF Copy, Places
<1>2. /\ UNCHANGED <<use, accepted, sent, frame, second, count, seen>>
      /\ UNCHANGED <<Frame, Second, Count, Seen>>
  BY DEF Copy, local, Frame, Second, Count, Seen
<1>3. Count <= Len(Frame) /\ use + Count <= Capacity
  BY <1>0, <1>1 DEF Measured
<1>4. /\ data' = [i \in 1 .. Capacity |->
                    IF i \in use + 1 .. use + Count THEN Frame[i - use] ELSE data[i]]
      /\ UNCHANGED overrun
  <2>1. Count \in 0 .. Len(Frame)
    BY <1>0, <1>3
  <2> QED
    BY <1>0, <1>3, <2>1 DEF Copy, Count, Frame
<1>5. data' \in [1 .. Capacity -> Byte]
  <2>1. \A i \in use + 1 .. use + Count : Frame[i - use] \in Byte
    <3> SUFFICES ASSUME NEW i \in use + 1 .. use + Count PROVE Frame[i - use] \in Byte
      OBVIOUS
    <3>1. i - use \in 1 .. Len(Frame)
      BY <1>0, <1>3
    <3> QED
      BY <1>0, <3>1, ElementOfSeq
  <2> QED
    BY <1>0, <1>4, <2>1
<1>6. Numbers'
  BY <1>0, <1>1, <1>2, <1>4, <1>5 DEF Numbers
<1>7. Measured' /\ RestFits'
  BY <1>0, <1>1, <1>2 DEF Measured, RestFits
<1>8. Stored /\ Stored'
  <2>1. Stored
    BY <1>1 DEF Inv, InOrder
  <2>2. \A i \in 1 .. use : data'[i] = data[i]
    BY <1>0, <1>4, Sizes
  <2> QED
    BY <1>2, <2>1, <2>2 DEF Stored
<1>9. Copied'
  <2> SUFFICES ASSUME NEW i \in 1 .. Count
               PROVE  data'[use + i] = Len(sent) + use + i
    BY <1>2 DEF Copied
  <2>1. /\ use + i \in 1 .. Capacity /\ use + i \in use + 1 .. use + Count
        /\ (use + i) - use = i /\ i \in 1 .. Len(Frame)
    BY <1>0, <1>3, Sizes
  <2>2. data'[use + i] = Frame[i]
    BY <1>4, <2>1
  <2> QED
    BY <1>8, <2>1, <2>2 DEF Stored
<1>10. SentInOrder'
  BY <1>0, <1>2 DEF SentInOrder
<1> QED
  BY <1>1, <1>6, <1>7, <1>8, <1>9, <1>10 DEF Inv, Inside, InOrder

\* sendBytes of a buffer whose contents follow what was sent.
LEMMA SendKeeps ==
  ASSUME SharedOutBufferAssumption, Threads = {"loop"}, Inv, SendBytes("loop")
  PROVE  Inv'
<1>0. /\ Numbers /\ Measured /\ SentInOrder /\ RestFits
      /\ use \in Nat /\ use <= Capacity
      /\ sent \in Seq(Byte) /\ Len(sent) \in Nat /\ Len(Frame) \in Nat
  BY NumbersMeans DEF Inv, Inside, InOrder
<1>1. /\ Pc = "send" /\ Pc' = "drain"
      /\ pc' \in [Threads -> {"idle", "full", "fits", "room", "copy", "load",
                              "store", "available", "measure", "send", "drain"}]
  BY <1>0, GoMeans DEF SendBytes, Places
<1>2. /\ UNCHANGED <<data, use, accepted, frame, second, count, seen>>
      /\ UNCHANGED <<Frame, Second, Count, Seen>>
  BY DEF SendBytes, local, Frame, Second, Count, Seen
<1>3. Count = use /\ Stored
  BY <1>0, <1>1 DEF Measured, Inv, InOrder
<1>4. sent' = sent \o Bytes(use)
  BY <1>3 DEF SendBytes, Count
<1>5. overrun' = FALSE
  <2>1. ~(Count > Capacity)
    BY <1>0, <1>3, Sizes
  <2> QED
    BY <1>0, <2>1 DEF SendBytes, Count, Numbers
<1>6. /\ Bytes(use) \in Seq(Byte) /\ Len(Bytes(use)) = use
      /\ \A i \in 1 .. use : Bytes(use)[i] = data[i]
  BY <1>0, BytesType
<1>7. sent' \in Seq(Byte) /\ Len(sent') = Len(sent) + use
  BY <1>0, <1>4, <1>6, ConcatBytes
<1>8. ASSUME NEW i \in 1 .. Len(sent) + use
      PROVE  sent'[i] = i
  <2>1. CASE i <= Len(sent)
    <3>1. i \in 1 .. Len(sent)
      BY <1>0, <2>1
    <3>2. sent'[i] = sent[i]
      BY <1>0, <1>4, <1>6, <3>1, ConcatBytes
    <3> QED
      BY <1>0, <3>1, <3>2 DEF SentInOrder
  <2>2. CASE i > Len(sent)
    <3>1. /\ i \in Len(sent) + 1 .. Len(sent) + use
          /\ i - Len(sent) \in 1 .. use
      BY <1>0, <2>2
    <3>2. sent'[i] = Bytes(use)[i - Len(sent)]
      BY <1>0, <1>4, <1>6, <3>1, ConcatBytes
    <3>3. data[i - Len(sent)] = Len(sent) + (i - Len(sent))
      BY <1>3, <3>1 DEF Stored
    <3> QED
      BY <1>0, <1>6, <3>1, <3>2, <3>3
  <2> QED
    BY <1>0, <2>1, <2>2
<1>9. SentInOrder'
  BY <1>7, <1>8 DEF SentInOrder
<1>10. Numbers'
  BY <1>0, <1>1, <1>2, <1>5, <1>7 DEF Numbers
<1>11. Measured' /\ Copied' /\ RestFits'
  BY <1>0, <1>1, <1>2 DEF Measured, Copied, RestFits
<1>12. Sent'
  BY <1>0, <1>2, <1>3, <1>7 DEF Sent, Stored
<1> QED
  BY <1>1, <1>9, <1>10, <1>11, <1>12 DEF Inv, Inside, InOrder

\* sendDataFromBuffer returns: it found nothing to send or has drained.
LEMMA BackKeeps ==
  ASSUME SharedOutBufferAssumption, Threads = {"loop"}, Inv, NothingAvailable("loop") \/ Drain("loop")
  PROVE  Inv'
<1>0. /\ Numbers /\ Measured /\ SentInOrder /\ RestFits
      /\ Len(sent) \in Nat /\ Len(Frame) \in Nat
  BY NumbersMeans DEF Inv, Inside, InOrder
<1>1. PICK from \in {"available", "drain"} :
        /\ Go("loop", from, IF Frame = <<>> THEN "idle" ELSE "full")
        /\ second' = [second EXCEPT !["loop"] = Frame # <<>>]
        /\ from = "available" => use = 0
        /\ use' = 0
        /\ UNCHANGED <<data, accepted, sent, overrun, frame, count, seen>>
  BY DEF NothingAvailable, Drain, BackFromSending, UseAfterDrain, shared, Frame
<1>2. /\ Pc = from /\ Pc' = (IF Frame = <<>> THEN "idle" ELSE "full")
      /\ pc' \in [Threads -> {"idle", "full", "fits", "room", "copy", "load",
                              "store", "available", "measure", "send", "drain"}]
  <2>1. (IF Frame = <<>> THEN "idle" ELSE "full") \in Places /\ from \in Places
    BY DEF Places
  <2> QED
    BY <1>0, <1>1, <2>1, GoMeans
<1>3. second' \in [Threads -> BOOLEAN] /\ Second' = (Frame # <<>>)
  BY <1>0, <1>1 DEF Numbers, Second
<1>4. UNCHANGED <<Frame, Count, Seen>>
  BY <1>1 DEF Frame, Count, Seen
<1>5. Numbers'
  <2>1. use' \in 0 .. Capacity
    BY <1>1, Sizes
  <2> QED
    BY <1>0, <1>1, <1>2, <1>3, <1>4, <2>1 DEF Numbers
<1>6. Measured' /\ Copied' /\ RestFits'
  BY <1>1, <1>2, <1>3, <1>4 DEF Measured, Copied, RestFits
<1>7. /\ Len(sent) + Len(Frame) = accepted
      /\ \A i \in 1 .. Len(Frame) : Frame[i] = Len(sent) + i
  <2>1. CASE from = "drain"
    BY <1>2, <2>1 DEF Inv, InOrder, Sent
  <2>2. CASE from = "available"
    <3>1. Stored /\ use = 0
      BY <1>1, <1>2, <2>2 DEF Inv, InOrder
    <3> QED
      BY <1>0, <3>1 DEF Stored
  <2> QED
    BY <2>1, <2>2
<1>8. Stored'
  <2>1. /\ use' = 0 /\ sent' = sent /\ Frame' = Frame /\ accepted' = accepted
    BY <1>1, <1>4
  <2> QED
    BY <1>0, <1>7, <2>1 DEF Stored
<1>9. SentInOrder'
  BY <1>0, <1>1 DEF SentInOrder
<1> QED
  BY <1>2, <1>5, <1>6, <1>8, <1>9 DEF Inv, Inside, InOrder

LEMMA StepInv ==
  SharedOutBufferAssumption /\ Threads = {"loop"} /\ Inv /\ [Next]_vars => Inv'
<1> SUFFICES ASSUME SharedOutBufferAssumption, Threads = {"loop"}, Inv, [Next]_vars PROVE Inv'
  OBVIOUS
<1>1. CASE Next
  <2>1. LoopSends \/ Step("loop")
    BY <1>1 DEF Next
  <2> QED
    BY <2>1, CallKeeps, LookKeeps, WriteKeeps, CopyKeeps, SendKeeps, BackKeeps DEF Step
<1>2. CASE UNCHANGED vars
  BY <1>2 DEF vars, shared, local, Inv, Inside, Numbers, Measured, InOrder,
              SentInOrder, Sent, Stored, Copied, RestFits, Pc, Frame, Count, Seen, Second
<1> QED
  BY <1>1, <1>2

-----------------------------------------------------------------------------
(* The theorems *)

\* With callbacks publishing in loop()'s own thread (receive.cpp, worker.cpp)
\* memcpy and sendBytes stay inside m_data, for every size of the buffer and of
\* the frames that fit in it.
THEOREM StaysInside ==
  SharedOutBufferAssumption /\ Threads = {"loop"} => (Spec => []InsideBuffer)
<1> SUFFICES ASSUME SharedOutBufferAssumption, Threads = {"loop"} PROVE Spec => []InsideBuffer
  OBVIOUS
<1>1. Inv => InsideBuffer
  BY NumbersMeans DEF Inv, Inside, Numbers, InsideBuffer
<1>2. (Init => Inv) /\ (Inv /\ [Next]_vars => Inv')
  BY InitInv, StepInv
<1> QED
  BY <1>1, <1>2, PTL DEF Spec

LEMMA InOrderMeans ==
  ASSUME SharedOutBufferAssumption, Threads = {"loop"}, Inv
  PROVE  StreamIntact
<1>1. /\ Numbers /\ SentInOrder /\ RestFits
      /\ sent \in Seq(Byte) /\ Len(sent) \in Nat /\ use \in Nat
      /\ Bytes(use) \in Seq(Byte) /\ Len(Bytes(use)) = use
      /\ \A i \in 1 .. use : Bytes(use)[i] = data[i]
  BY NumbersMeans, BytesType DEF Inv, Inside, InOrder
<1>2. \A i \in DOMAIN sent : sent[i] = i
  BY <1>1, LenProperties DEF SentInOrder
<1>3. ASSUME Quiet
      PROVE  sent \o Bytes(use) = [i \in 1 .. accepted |-> i]
  <2>1. Pc = "idle"
    BY <1>3 DEF Quiet, Pc
  <2>2. Stored /\ Len(Frame) = 0
    BY <1>1, <2>1 DEF Inv, InOrder, RestFits
  <2>3. Len(sent) + use = accepted
    BY <1>1, <2>2 DEF Stored
  <2> DEFINE all == sent \o Bytes(use)
  <2>4. all \in Seq(Byte) /\ Len(all) = accepted
    BY <1>1, <2>3, ConcatBytes
  <2>5. \A i \in 1 .. accepted : all[i] = i
    <3>1. \A i \in 1 .. Len(sent) : all[i] = sent[i] /\ sent[i] = i
      BY <1>1, ConcatBytes DEF SentInOrder
    <3>2. \A i \in Len(sent) + 1 .. Len(sent) + use :
            all[i] = Bytes(use)[i - Len(sent)]
      BY <1>1, ConcatBytes
    <3>3. \A i \in 1 .. use : Bytes(use)[i] = Len(sent) + i
      BY <1>1, <2>2 DEF Stored
    <3> HIDE DEF all
    <3> SUFFICES ASSUME NEW i \in 1 .. accepted PROVE all[i] = i
      OBVIOUS
    <3>4. CASE i <= Len(sent)
      <4>1. i \in 1 .. Len(sent)
        BY <1>1, <2>3, <3>4
      <4> QED
        BY <3>1, <4>1
    <3>5. CASE i > Len(sent)
      <4>1. /\ i \in Len(sent) + 1 .. Len(sent) + use
            /\ i - Len(sent) \in 1 .. use
        BY <1>1, <2>3, <3>5
      <4>2. all[i] = Len(sent) + (i - Len(sent))
        BY <3>2, <3>3, <4>1
      <4> QED
        BY <1>1, <4>1, <4>2
    <3> QED
      BY <1>1, <2>3, <3>4, <3>5
  <2>6. all \in [1 .. accepted -> Byte]
    BY <2>4, LenProperties
  <2> HIDE DEF all
  <2>7. all = [i \in 1 .. accepted |-> i]
    BY <2>5, <2>6
  <2> QED
    BY <2>7 DEF all
<1> QED
  BY <1>2, <1>3 DEF StreamIntact

\* With callbacks publishing in loop()'s own thread (receive.cpp, worker.cpp)
\* the socket sees every byte that onData was given once and in order, for
\* every size of the buffer and of the frames that fit in it.
THEOREM OneThreadInOrder ==
  SharedOutBufferAssumption /\ Threads = {"loop"} => (Spec => []StreamIntact)
<1> SUFFICES ASSUME SharedOutBufferAssumption, Threads = {"loop"} PROVE Spec => []StreamIntact
  OBVIOUS
<1>1. Inv => StreamIntact
  BY InOrderMeans
<1>2. (Init => Inv) /\ (Inv /\ [Next]_vars => Inv')
  BY InitInv, StepInv
<1> QED
  BY <1>1, <1>2, PTL DEF Spec

=============================================================================
