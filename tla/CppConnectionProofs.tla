------------------------ MODULE CppConnectionProofs ------------------------
(***************************************************************************)
(* Theorems about the connection of the C++ programs to the broker.        *)
(*                                                                         *)
(* Below, SimplePocoHandler, for every buffer, frame and socket size that  *)
(* satisfies SizeAssumption and FitAssumption: the state is type correct,  *)
(* and neither direction of the connection loses, repeats or reorders a    *)
(* byte.                                                                   *)
(*                                                                         *)
(* Above it, the outgoing channel when one thread uses it, for any setup   *)
(* and call and any number of messages: frames reach the connection in the *)
(* order in which send() accepted them, also those that had to wait, and   *)
(* none is sent behind a synchronous frame before its answer has come.     *)
(***************************************************************************)
EXTENDS PocoHandler, AmqpChannel, SequenceTheorems, WellFoundedInduction,
        FiniteSetTheorems, TLAPS


-----------------------------------------------------------------------------
(* The buffer operations *)

\* Buffer::write never overflows the buffer, and writes a prefix of the data.
LEMMA WriteBounds ==
  ASSUME NEW buffer \in Seq(Byte), Len(buffer) <= Capacity,
         NEW data \in Seq(Byte)
  PROVE  /\ Written(buffer, data) \in 0 .. Len(data)
         /\ Write(buffer, data) \in Seq(Byte)
         /\ Len(Write(buffer, data)) <= Capacity
<1>1. Written(buffer, data) \in 0 .. Len(data)
  BY SizeAssumption, LenProperties DEF Written, Smaller
<1>2. \A i \in 1 .. Written(buffer, data) : data[i] \in Byte
  BY <1>1, ElementOfSeq, LenProperties
<1>3. /\ SubSeq(data, 1, Written(buffer, data)) \in Seq(Byte)
      /\ Len(SubSeq(data, 1, Written(buffer, data))) = Written(buffer, data)
  BY <1>1, <1>2, SubSeqProperties
<1>4. Len(buffer) + Written(buffer, data) <= Capacity
  BY SizeAssumption, LenProperties DEF Written, Smaller
<1> QED
  BY <1>1, <1>3, <1>4, ConcatProperties DEF Write

\* Data that fits is written completely.
LEMMA WriteFits ==
  ASSUME NEW buffer \in Seq(Byte), NEW data \in Seq(Byte),
         Len(buffer) + Len(data) <= Capacity
  PROVE  /\ Written(buffer, data) = Len(data)
         /\ Write(buffer, data) = buffer \o data
<1>1. Written(buffer, data) = Len(data)
  BY SizeAssumption, LenProperties DEF Written, Smaller
<1>2. SubSeq(data, 1, Len(data)) = data
  BY SubSeqFull
<1> QED
  BY <1>1, <1>2 DEF Write

\* A sequence is what was cut off its front and what Shl leaves.
LEMMA SplitAt ==
  ASSUME NEW s \in Seq(Byte), NEW k \in 0 .. Len(s)
  PROVE  /\ SubSeq(s, 1, k) \in Seq(Byte)
         /\ Len(SubSeq(s, 1, k)) = k
         /\ \A i \in 1 .. k : SubSeq(s, 1, k)[i] = s[i]
         /\ Shl(s, k) \in Seq(Byte)
         /\ Len(Shl(s, k)) = Len(s) - k
         /\ \A i \in 1 .. Len(s) - k : Shl(s, k)[i] = s[k + i]
         /\ SubSeq(s, 1, k) \o Shl(s, k) = s
<1>0. Len(s) \in Nat
  BY LenProperties
<1>1. \A i \in 1 .. Len(s) : s[i] \in Byte
  BY ElementOfSeq
<1>2. /\ SubSeq(s, 1, k) \in Seq(Byte)
      /\ Len(SubSeq(s, 1, k)) = k
      /\ \A i \in 1 .. k : SubSeq(s, 1, k)[i] = s[i]
  BY <1>0, <1>1, SubSeqProperties
<1>3. /\ Shl(s, k) \in Seq(Byte)
      /\ Len(Shl(s, k)) = Len(s) - k
      /\ \A i \in 1 .. Len(s) - k : Shl(s, k)[i] = s[k + i]
  <2>1. \A i \in k + 1 .. Len(s) : s[i] \in Byte
    BY <1>0, <1>1
  <2> QED
    BY <1>0, <2>1, SubSeqProperties DEF Shl
<1>4. SubSeq(s, 1, k) \o SubSeq(s, k + 1, Len(s)) = SubSeq(s, 1, Len(s))
  <2>1. /\ 1 \in 1 .. Len(s) + 1
        /\ k \in 1 - 1 .. Len(s)
        /\ Len(s) \in k .. Len(s)
    BY <1>0
  <2> QED
    BY <2>1, ConcatAdjacentSubSeq, Zenon
<1> QED
  BY <1>2, <1>3, <1>4, SubSeqFull DEF Shl

\* parse() consumes up to the last end of a frame.
LEMMA ParsedCountIsLast ==
  ASSUME NEW s \in Seq(Byte)
  PROVE  /\ ParsedCount(s) \in 0 .. Len(s)
         /\ ParsedCount(s) > 0 => s[ParsedCount(s)] = 0
         /\ \A j \in ParsedCount(s) + 1 .. Len(s) : s[j] # 0
<1>0. Len(s) \in Nat
  BY LenProperties
<1>1. CASE FrameEnds(s) = {}
  BY <1>0, <1>1 DEF ParsedCount, FrameEnds
<1>2. CASE FrameEnds(s) # {}
  <2> DEFINE From(k) == k .. Len(s)
             T == {From(k) : k \in FrameEnds(s)}
  <2>1. \A k \in FrameEnds(s) : k \in 1 .. Len(s)
    BY DEF FrameEnds
  <2>2. T \subseteq FiniteSubsetsOf(Nat) /\ T # {}
    <3>1. \A k \in FrameEnds(s) : From(k) \subseteq Nat /\ IsFiniteSet(From(k))
      BY <1>0, <2>1, FS_Interval
    <3> QED
      BY <1>2, <3>1 DEF FiniteSubsetsOf
  <2> HIDE DEF T
  <2>3. PICK x \in T : \A y \in T : ~(<<y, x>> \in StrictSubsetOrdering(Nat))
    BY <2>2, WFMin, FS_StrictSubsetOrderingWellFounded
  <2>4. PICK k \in FrameEnds(s) : x = From(k)
    BY <2>3 DEF T
  <2>5. ASSUME NEW j \in FrameEnds(s), j > k
        PROVE  FALSE
    <3>1. From(j) \in T
      BY DEF T
    <3>2. From(j) \in SUBSET Nat /\ From(k) \in SUBSET Nat
      BY <1>0, <2>1
    <3>3. From(j) \subseteq From(k) /\ k \in From(k) /\ k \notin From(j)
      BY <1>0, <2>1, <2>5
    <3>4. <<From(j), From(k)>> \in StrictSubsetOrdering(Nat)
      BY <3>2, <3>3 DEF StrictSubsetOrdering
    <3> QED
      BY <2>3, <2>4, <3>1, <3>4
  <2>6. \A j \in FrameEnds(s) : j <= k
    BY <2>1, <2>4, <2>5
  <2>7. /\ ParsedCount(s) \in FrameEnds(s)
        /\ \A j \in FrameEnds(s) : j <= ParsedCount(s)
    BY <1>2, <2>1, <2>4, <2>6 DEF ParsedCount
  <2> QED
    BY <1>0, <2>7 DEF FrameEnds
<1> QED
  BY <1>1, <1>2

-----------------------------------------------------------------------------
(* The inductive invariant *)

\* Within a frame the bytes count down to the end of the frame.
CountsDown(s) ==
  \A i, j \in 1 .. Len(s) :
    i <= j /\ j - i <= s[i] => s[j] = s[i] - (j - i)

\* The unparsed input is a sequence of frames, of which the last may be
\* incomplete: the peer owes the rest.
Framing ==
  usable =>
    LET input == inputBuffer \o socketIn
    IN  /\ CountsDown(input)
        /\ input = <<>> => owed = 0
        /\ input # <<>> => input[Len(input)] = owed

\* Outside parse() no complete frame waits in inputBuffer: what is left of the
\* last read is a part of one frame.
OnlyRestBuffered ==
  usable /\ pc \in {"construct", "receive", "send", "flush"}
    => FrameEnds(inputBuffer) = {}

\* loop() runs with a connection, and nothing is read before it runs.
Connected ==
  /\ connection <=> pc # "construct"
  /\ ~connection => socketIn = <<>> /\ inputBuffer = <<>>

IInv ==
  TypeOK /\ Framing /\ OnlyRestBuffered /\ Connected /\ WholeFramesParsed

\* The rest of one frame is shorter than a frame.
LEMMA RestIsShort ==
  ASSUME NEW s \in Seq(Byte), CountsDown(s), FrameEnds(s) = {}
  PROVE  Len(s) <= FrameMax - 1
<1>0. Len(s) \in Nat
  BY LenProperties
<1> SUFFICES ASSUME Len(s) > FrameMax - 1
             PROVE  FALSE
  BY <1>0, SizeAssumption
<1>1. 1 \in 1 .. Len(s) /\ s[1] \in 0 .. FrameMax - 1
  BY <1>0, SizeAssumption, ElementOfSeq DEF Byte
<1>2. 1 + s[1] \in 1 .. Len(s)
  BY <1>0, <1>1, SizeAssumption
<1>3. s[1 + s[1]] = s[1] - s[1]
  BY <1>1, <1>2 DEF CountsDown
<1> QED
  BY <1>1, <1>2, <1>3 DEF FrameEnds

\* Any part of a sequence that counts down counts down.
LEMMA PartCountsDown ==
  ASSUME NEW s \in Seq(Byte), NEW t \in Seq(Byte), NEW k \in Nat,
         k + Len(t) <= Len(s),
         \A i \in 1 .. Len(t) : t[i] = s[k + i],
         CountsDown(s)
  PROVE  CountsDown(t)
<1>0. Len(s) \in Nat /\ Len(t) \in Nat
  BY LenProperties
<1> SUFFICES ASSUME NEW i \in 1 .. Len(t), NEW j \in 1 .. Len(t),
                    i <= j, j - i <= t[i]
             PROVE  t[j] = t[i] - (j - i)
  BY DEF CountsDown
<1>1. /\ k + i \in 1 .. Len(s) /\ k + j \in 1 .. Len(s)
      /\ k + i <= k + j /\ (k + j) - (k + i) = j - i
  BY <1>0
<1>2. t[i] = s[k + i] /\ t[j] = s[k + j]
  OBVIOUS
<1> QED
  BY <1>1, <1>2 DEF CountsDown

\* One more byte of the frame that is being sent keeps the count.
LEMMA AppendCountsDown ==
  ASSUME NEW s \in Seq(Byte), NEW b \in Byte, CountsDown(s),
         s # <<>> /\ s[Len(s)] > 0 => b = s[Len(s)] - 1
  PROVE  CountsDown(Append(s, b))
<1> DEFINE t == Append(s, b)
<1>0. Len(s) \in Nat
  BY LenProperties
<1>1. /\ t \in Seq(Byte) /\ Len(t) = Len(s) + 1
      /\ \A i \in 1 .. Len(s) : t[i] = s[i]
      /\ t[Len(s) + 1] = b
  BY AppendProperties
<1>2. \A i \in 1 .. Len(s) : s[i] \in Nat
  BY ElementOfSeq, SizeAssumption DEF Byte
<1>3. b \in Nat
  BY SizeAssumption DEF Byte
<1> HIDE DEF t
<1> SUFFICES ASSUME NEW i \in 1 .. Len(t), NEW j \in 1 .. Len(t),
                    i <= j, j - i <= t[i]
             PROVE  t[j] = t[i] - (j - i)
  BY DEF CountsDown, t
<1>4. CASE j <= Len(s)
  BY <1>0, <1>1, <1>4 DEF CountsDown
<1>5. CASE i = Len(s) + 1
  BY <1>0, <1>1, <1>3, <1>5
<1>6. CASE i <= Len(s) /\ j = Len(s) + 1
  <2>1. Len(s) \in 1 .. Len(s) /\ i \in 1 .. Len(s) /\ s # <<>>
    BY <1>0, <1>6, EmptySeq
  <2>2. t[i] = s[i] /\ t[j] = b
    BY <1>1, <1>6, <2>1
  <2>3. s[Len(s)] = s[i] - (Len(s) - i)
    BY <1>0, <1>2, <1>6, <2>1, <2>2 DEF CountsDown
  <2>4. s[Len(s)] > 0
    BY <1>0, <1>2, <1>6, <2>1, <2>2, <2>3
  <2>5. b = s[Len(s)] - 1
    BY <2>1, <2>4
  <2> QED
    BY <1>0, <1>2, <1>6, <2>1, <2>2, <2>3, <2>5
<1> QED
  BY <1>0, <1>1, <1>4, <1>5, <1>6

-----------------------------------------------------------------------------
(* The two operations that move bytes *)

\* Concatenation of byte sequences is associative.
LEMMA ConcatBytes ==
  ASSUME NEW s \in Seq(Byte), NEW t \in Seq(Byte), NEW u \in Seq(Byte)
  PROVE  (s \o t) \o u = s \o (t \o u)
BY ConcatAssociative

\* Cutting a concatenation where it was joined gives back its parts.
LEMMA CutConcat ==
  ASSUME NEW p \in Seq(Byte), NEW r \in Seq(Byte)
  PROVE  /\ SubSeq(p \o r, 1, Len(p)) = p
         /\ SubSeq(p \o r, Len(p) + 1, Len(p \o r)) = r
<1> DEFINE q == p \o r
<1>0. Len(p) \in Nat /\ Len(r) \in Nat
  BY LenProperties
<1>1. /\ q \in Seq(Byte) /\ Len(q) = Len(p) + Len(r)
      /\ \A i \in 1 .. Len(p) + Len(r) :
           q[i] = IF i <= Len(p) THEN p[i] ELSE r[i - Len(p)]
  BY ConcatProperties
<1> HIDE DEF q
<1>2. Len(p) \in 0 .. Len(q)
  BY <1>0, <1>1
<1>3. SubSeq(q, 1, Len(p)) = p
  <2>1. \A i \in 1 .. Len(p) : SubSeq(q, 1, Len(p))[i] = p[i]
    BY <1>0, <1>1, <1>2, SplitAt
  <2> QED
    BY <1>1, <1>2, <2>1, SplitAt, SeqEqual
<1>4. Shl(q, Len(p)) = r
  <2>1. Len(q) - Len(p) = Len(r)
    BY <1>0, <1>1
  <2>2. \A i \in 1 .. Len(r) : Shl(q, Len(p))[i] = r[i]
    <3> TAKE i \in 1 .. Len(r)
    <3>0. q \in Seq(Byte) /\ i \in 1 .. Len(q) - Len(p)
      BY <1>1, <2>1
    <3>1. Shl(q, Len(p))[i] = q[Len(p) + i]
      BY <1>2, <3>0, SplitAt
    <3> QED
      BY <1>0, <1>1, <3>1
  <2> QED
    BY <1>1, <1>2, <2>1, <2>2, SplitAt, SeqEqual
<1> QED
  BY <1>3, <1>4 DEF Shl, q

\* A frame is a sequence of bytes that an empty buffer holds.
LEMMA FramesAreBytes ==
  ASSUME NEW data \in Frames
  PROVE  data \in Seq(Byte) /\ Len(data) <= Capacity
<1>1. PICK n \in 1 .. FrameMax : data = [i \in 1 .. n |-> n - i]
  BY DEF Frames, Frame
<1>2. \A i \in 1 .. n : n - i \in Byte
  BY SizeAssumption DEF Byte
<1>3. data \in [1 .. n -> Byte] /\ n \in Nat
  BY <1>1, <1>2, SizeAssumption
<1>4. data \in Seq(Byte) /\ Len(data) = n
  BY <1>3, SeqDef
<1> QED
  BY <1>4, FitAssumption, SizeAssumption

\* onData appends the frame to what is buffered, and sends a prefix of that.
LEMMA OnDataMoves ==
  ASSUME TypeOK, NEW data \in Frames, OnData(data)
  PROVE  /\ connection' = TRUE
         /\ outBuffer' \in Seq(Byte) /\ Len(outBuffer') <= Capacity
         /\ sent' \in Seq(Byte)
         /\ \E k \in 0 .. Len(outBuffer \o data) :
              /\ sent' = sent \o SubSeq(outBuffer \o data, 1, k)
              /\ outBuffer' = SubSeq(outBuffer \o data, k + 1,
                                     Len(outBuffer \o data))
<1> DEFINE q == outBuffer \o data
           w == Written(outBuffer, data)
           rest == SubSeq(data, w + 1, Len(data))
<1>0. /\ outBuffer \in Seq(Byte) /\ sent \in Seq(Byte)
      /\ Len(outBuffer) <= Capacity
  BY DEF TypeOK
<1>1. data \in Seq(Byte) /\ Len(data) <= Capacity
  BY FramesAreBytes
<1>2. /\ w \in 0 .. Len(data)
      /\ Write(outBuffer, data) \in Seq(Byte)
      /\ Len(Write(outBuffer, data)) <= Capacity
  BY <1>0, <1>1, WriteBounds
<1>3. q \in Seq(Byte) /\ Len(q) \in Nat
  BY <1>0, <1>1, ConcatProperties, LenProperties
<1>4. connection' = TRUE
  BY DEF OnData
<1>5. CASE w = Len(data)
  <2>1. outBuffer' = Write(outBuffer, data) /\ sent' = sent
    BY <1>5 DEF OnData
  <2>2. Write(outBuffer, data) = q
    BY <1>1, <1>5, SubSeqFull DEF Write
  <2>3. SubSeq(q, 1, 0) = <<>> /\ SubSeq(q, 1, Len(q)) = q
    BY <1>3, SubSeqFull, SubSeqEmpty
  <2>4. sent' = sent \o SubSeq(q, 1, 0) /\ outBuffer' = SubSeq(q, 0 + 1, Len(q))
    BY <1>0, <2>1, <2>2, <2>3, ConcatEmptySeq
  <2>5. 0 \in 0 .. Len(q)
    BY <1>3
  <2> HIDE DEF q, w
  <2>6. \E k \in 0 .. Len(q) : /\ sent' = sent \o SubSeq(q, 1, k)
                               /\ outBuffer' = SubSeq(q, k + 1, Len(q))
    BY <2>4, <2>5
  <2> QED
    BY <1>0, <1>2, <1>4, <2>1, <2>6 DEF q
<1>6. CASE w # Len(data)
  <2> DEFINE p == Write(outBuffer, data)
  <2>1. sent' = sent \o p /\ outBuffer' = Write(<<>>, rest)
    BY <1>6 DEF OnData
  <2>2. /\ SubSeq(data, 1, w) \in Seq(Byte)
        /\ rest \in Seq(Byte) /\ Len(rest) = Len(data) - w
        /\ SubSeq(data, 1, w) \o rest = data
    BY <1>1, <1>2, SplitAt DEF Shl
  <2>3. outBuffer' = rest
    <3>1. <<>> \in Seq(Byte) /\ Len(<<>>) = 0
      BY EmptySeq
    <3>2. Len(<<>>) + Len(rest) <= Capacity
      BY <1>1, <1>2, <2>2, <3>1, SizeAssumption, LenProperties
    <3>3. Write(<<>>, rest) = <<>> \o rest
      BY <2>2, <3>1, <3>2, WriteFits
    <3> QED
      BY <2>1, <2>2, <3>3, ConcatEmptySeq
  <2>4. p \o rest = q
    <3> DEFINE a == SubSeq(data, 1, w)
    <3>1. p = outBuffer \o a
      BY DEF Write
    <3>2. a \in Seq(Byte) /\ rest \in Seq(Byte) /\ a \o rest = data
      BY <2>2
    <3> HIDE DEF a, p, rest
    <3>3. (outBuffer \o a) \o rest = outBuffer \o (a \o rest)
      BY <1>0, <3>2, ConcatBytes
    <3> QED
      BY <3>1, <3>2, <3>3, Zenon
  <2>5. p \in Seq(Byte)
    BY <1>2
  <2> HIDE DEF p, rest
  <2>6. SubSeq(q, 1, Len(p)) = p /\ SubSeq(q, Len(p) + 1, Len(q)) = rest
    <3>1. /\ SubSeq(p \o rest, 1, Len(p)) = p
          /\ SubSeq(p \o rest, Len(p) + 1, Len(p \o rest)) = rest
      BY <2>2, <2>5, CutConcat, Zenon
    <3> QED
      BY <2>4, <3>1, Zenon
  <2>7. Len(p) \in 0 .. Len(q)
    BY <2>2, <2>4, <2>5, ConcatProperties, LenProperties
  <2>8. sent' \in Seq(Byte) /\ Len(outBuffer') <= Capacity
    <3>1. Len(rest) <= Capacity
      BY <1>1, <1>2, <2>2, SizeAssumption, LenProperties
    <3> QED
      BY <1>0, <2>1, <2>3, <2>5, <3>1, ConcatProperties
  <2> HIDE DEF q
  <2>9. \E k \in 0 .. Len(q) : /\ sent' = sent \o SubSeq(q, 1, k)
                               /\ outBuffer' = SubSeq(q, k + 1, Len(q))
    BY <2>1, <2>3, <2>6, <2>7
  <2> QED
    BY <1>4, <2>2, <2>3, <2>8, <2>9 DEF q
<1> QED
  BY <1>5, <1>6

\* parse() takes a prefix off the input.
LEMMA ParseMoves ==
  ASSUME TypeOK, NEW count \in 0 .. Len(inputBuffer)
  PROVE  /\ SubSeq(inputBuffer, 1, count) \in Seq(Byte)
         /\ Shl(inputBuffer, count) \in Seq(Byte)
         /\ Len(Shl(inputBuffer, count)) = Len(inputBuffer) - count
         /\ parsed \o SubSeq(inputBuffer, 1, count) \in Seq(Byte)
         /\ count \in 0 .. Len(inputBuffer \o socketIn)
         /\ SubSeq(inputBuffer, 1, count)
              = SubSeq(inputBuffer \o socketIn, 1, count)
         /\ Shl(inputBuffer, count) \o socketIn
              = SubSeq(inputBuffer \o socketIn, count + 1,
                       Len(inputBuffer \o socketIn))
<1> DEFINE p == SubSeq(inputBuffer, 1, count)
           r == Shl(inputBuffer, count)
<1>1. /\ inputBuffer \in Seq(Byte) /\ socketIn \in Seq(Byte)
      /\ parsed \in Seq(Byte)
  BY DEF TypeOK
<1>2. /\ p \in Seq(Byte) /\ Len(p) = count
      /\ r \in Seq(Byte) /\ Len(r) = Len(inputBuffer) - count
      /\ p \o r = inputBuffer
  BY <1>1, SplitAt
<1> HIDE DEF p, r
<1>3. p \o (r \o socketIn) = inputBuffer \o socketIn
  <2>1. p \in Seq(Byte) /\ r \in Seq(Byte) /\ socketIn \in Seq(Byte)
    BY <1>1, <1>2
  <2>2. (p \o r) \o socketIn = p \o (r \o socketIn)
    BY <2>1, ConcatBytes
  <2>3. p \o r = inputBuffer
    BY <1>2
  <2> QED
    BY <2>2, <2>3, Zenon
<1>4. r \o socketIn \in Seq(Byte) /\ parsed \o p \in Seq(Byte)
  BY <1>1, <1>2, ConcatProperties
<1>5. /\ SubSeq(inputBuffer \o socketIn, 1, count) = p
      /\ SubSeq(inputBuffer \o socketIn, count + 1, Len(inputBuffer \o socketIn))
           = r \o socketIn
  <2> DEFINE rs == r \o socketIn
  <2>1. p \in Seq(Byte) /\ rs \in Seq(Byte) /\ Len(p) = count
    BY <1>2, <1>4
  <2>2. p \o rs = inputBuffer \o socketIn
    BY <1>3
  <2> HIDE DEF rs
  <2>3. /\ SubSeq(p \o rs, 1, Len(p)) = p
        /\ SubSeq(p \o rs, Len(p) + 1, Len(p \o rs)) = rs
    BY <2>1, CutConcat, Zenon
  <2>4. /\ SubSeq(inputBuffer \o socketIn, 1, count) = p
        /\ SubSeq(inputBuffer \o socketIn, count + 1,
                  Len(inputBuffer \o socketIn)) = rs
    BY <2>1, <2>2, <2>3, Zenon
  <2> QED
    BY <2>4 DEF rs
<1>6. count \in 0 .. Len(inputBuffer \o socketIn)
  BY <1>1, ConcatProperties, LenProperties
<1> QED
  BY <1>2, <1>4, <1>5, <1>6 DEF p, r

-----------------------------------------------------------------------------
(* The invariant holds initially and every step keeps it *)

\* What was parsed ends with the end of a frame.
LEMMA ParsedEndsFrame ==
  ASSUME TypeOK, WholeFramesParsed, usable,
         NEW count \in {0} \cup FrameEnds(inputBuffer)
  PROVE  LET p == parsed \o SubSeq(inputBuffer, 1, count)
         IN  p # <<>> => p[Len(p)] = 0
<1> DEFINE a == SubSeq(inputBuffer, 1, count)
<1>0. /\ parsed \in Seq(Byte) /\ inputBuffer \in Seq(Byte)
      /\ Len(parsed) \in Nat /\ Len(inputBuffer) \in Nat
  BY LenProperties DEF TypeOK
<1>1. count \in 0 .. Len(inputBuffer)
  BY <1>0 DEF FrameEnds
<1>2. /\ a \in Seq(Byte) /\ Len(a) = count
      /\ \A i \in 1 .. count : a[i] = inputBuffer[i]
  BY <1>0, <1>1, SplitAt
<1>3. CASE count = 0
  <2>1. a = <<>>
    BY <1>3, SubSeqEmpty
  <2>2. parsed \o a = parsed
    BY <1>0, <2>1, ConcatEmptySeq
  <2> QED
    BY <2>2 DEF WholeFramesParsed
<1>4. CASE count # 0
  <2>1. inputBuffer[count] = 0 /\ count \in 1 .. count
    BY <1>0, <1>4 DEF FrameEnds
  <2> HIDE DEF a
  <2>2. /\ Len(parsed \o a) = Len(parsed) + Len(a)
        /\ \A i \in 1 .. Len(parsed) + Len(a) : (parsed \o a)[i] =
             IF i <= Len(parsed) THEN parsed[i] ELSE a[i - Len(parsed)]
    BY <1>0, <1>2, ConcatProperties
  <2>3. (parsed \o a)[Len(parsed) + count] = a[count]
    BY <1>0, <1>1, <1>2, <1>4, <2>2
  <2> QED
    BY <1>2, <2>1, <2>2, <2>3 DEF a
<1> QED
  BY <1>3, <1>4

\* parse() leaves no complete frame behind.
LEMMA NoFrameLeft ==
  ASSUME NEW s \in Seq(Byte)
  PROVE  FrameEnds(Shl(s, ParsedCount(s))) = {}
<1> DEFINE k == ParsedCount(s)
<1>1. /\ k \in 0 .. Len(s) /\ Len(s) \in Nat
      /\ \A j \in k + 1 .. Len(s) : s[j] # 0
  BY ParsedCountIsLast, LenProperties
<1> HIDE DEF k
<1>2. /\ Len(Shl(s, k)) = Len(s) - k
      /\ \A i \in 1 .. Len(s) - k : Shl(s, k)[i] = s[k + i]
  BY <1>1, SplitAt
<1>3. \A i \in 1 .. Len(s) - k : Shl(s, k)[i] # 0
  BY <1>1, <1>2
<1> QED
  BY <1>2, <1>3 DEF FrameEnds, k

\* What is left of the input after a parse counts down, and still ends with
\* the byte that arrived last.
LEMMA ParseKeepsFraming ==
  ASSUME TypeOK, Framing, usable,
         NEW count \in 0 .. Len(inputBuffer),
         count > 0 => inputBuffer[count] = 0
  PROVE  LET input == Shl(inputBuffer, count) \o socketIn
         IN  /\ CountsDown(input)
             /\ input = <<>> => owed = 0
             /\ input # <<>> => input[Len(input)] = owed
<1> DEFINE old == inputBuffer \o socketIn
           new == Shl(inputBuffer, count) \o socketIn
<1>0. /\ inputBuffer \in Seq(Byte) /\ socketIn \in Seq(Byte)
      /\ Len(inputBuffer) \in Nat /\ Len(socketIn) \in Nat
  BY LenProperties DEF TypeOK
<1>1. /\ old \in Seq(Byte) /\ Len(old) = Len(inputBuffer) + Len(socketIn)
      /\ \A i \in 1 .. Len(inputBuffer) : old[i] = inputBuffer[i]
  BY <1>0, ConcatProperties
<1>2. count \in 0 .. Len(old) /\ new = Shl(old, count)
  BY ParseMoves DEF Shl
<1>3. /\ CountsDown(old)
      /\ old = <<>> => owed = 0
      /\ old # <<>> => old[Len(old)] = owed
  BY DEF Framing
<1> HIDE DEF old, new
<1>4. /\ new \in Seq(Byte) /\ Len(new) = Len(old) - count
      /\ \A i \in 1 .. Len(new) : new[i] = old[count + i]
  BY <1>1, <1>2, SplitAt
<1>5. CountsDown(new)
  <2>1. count \in Nat /\ count + Len(new) <= Len(old)
    BY <1>0, <1>1, <1>2, <1>4
  <2> QED
    BY <1>1, <1>3, <1>4, <2>1, PartCountsDown
<1>6. ASSUME new = <<>> PROVE owed = 0
  <2>1. count = Len(old)
    BY <1>0, <1>1, <1>2, <1>4, <1>6
  <2>2. CASE count = 0
    <3>1. old = <<>>
      BY <1>1, <2>1, <2>2, EmptySeq
    <3> QED
      BY <1>3, <3>1
  <2>3. CASE count > 0
    <3>1. count \in 1 .. Len(inputBuffer) /\ old # <<>>
      BY <1>0, <1>1, <2>1, <2>3, EmptySeq
    <3> QED
      BY <1>1, <1>3, <2>1, <2>3, <3>1
  <2> QED
    BY <1>0, <2>2, <2>3
<1>7. ASSUME new # <<>> PROVE new[Len(new)] = owed
  <2>1. Len(new) \in Nat \ {0}
    BY <1>4, <1>7, EmptySeq
  <2>2. /\ Len(new) \in 1 .. Len(new) /\ count + Len(new) = Len(old)
        /\ old # <<>>
    BY <1>0, <1>1, <1>4, <2>1, EmptySeq
  <2> QED
    BY <1>3, <1>4, <2>2
<1> QED
  BY <1>5, <1>6, <1>7 DEF new

\* One read fits in inputBuffer.
LEMMA ReadFits ==
  ASSUME IInv, usable, pc = "receive"
  PROVE  Write(inputBuffer, socketIn) = inputBuffer \o socketIn
<1>1. /\ inputBuffer \in Seq(Byte) /\ socketIn \in Seq(Byte)
      /\ Len(inputBuffer) \in Nat /\ Len(socketIn) \in Nat
      /\ Len(socketIn) <= SocketMax
      /\ FrameEnds(inputBuffer) = {}
  BY LenProperties DEF IInv, TypeOK, OnlyRestBuffered
<1>2. CountsDown(inputBuffer)
  <2> DEFINE s == inputBuffer \o socketIn
  <2>1. /\ s \in Seq(Byte) /\ Len(s) = Len(inputBuffer) + Len(socketIn)
        /\ \A i \in 1 .. Len(inputBuffer) : s[i] = inputBuffer[i]
    BY <1>1, ConcatProperties
  <2>2. CountsDown(s)
    BY DEF IInv, Framing
  <2> HIDE DEF s
  <2>3. /\ 0 + Len(inputBuffer) <= Len(s)
        /\ \A i \in 1 .. Len(inputBuffer) : inputBuffer[i] = s[0 + i]
    BY <1>1, <2>1
  <2> QED
    BY <1>1, <2>1, <2>2, <2>3, PartCountsDown
<1>3. Len(inputBuffer) + Len(socketIn) <= Capacity
  BY <1>1, <1>2, RestIsShort, FitAssumption, SizeAssumption
<1> QED
  BY <1>1, <1>3, WriteFits

LEMMA InitInvariant == Init => IInv
<1> SUFFICES ASSUME Init PROVE IInv
  OBVIOUS
<1>1. <<>> \in Seq(Byte) /\ Len(<<>>) = 0
  BY EmptySeq
<1>2. TypeOK
  <2>1. 0 \in Byte /\ 0 <= SocketMax /\ 0 <= Capacity
    BY SizeAssumption DEF Byte
  <2> QED
    BY <1>1, <2>1 DEF Init, TypeOK, Control
<1>3. Framing
  <2>1. <<>> \o <<>> = <<>>
    BY <1>1, ConcatEmptySeq
  <2> QED
    BY <1>1, <2>1 DEF Init, Framing, CountsDown
<1>4. OnlyRestBuffered /\ Connected /\ WholeFramesParsed
  BY <1>1 DEF Init, OnlyRestBuffered, Connected, FrameEnds, WholeFramesParsed
<1> QED
  BY <1>2, <1>3, <1>4 DEF IInv

LEMMA StepInvariant == IInv /\ [Next]_vars => IInv'
<1> SUFFICES ASSUME IInv, [Next]_vars PROVE IInv'
  OBVIOUS
<1> USE DEF IInv
<1>0. /\ inputBuffer \in Seq(Byte) /\ socketIn \in Seq(Byte)
      /\ outBuffer \in Seq(Byte) /\ sent \in Seq(Byte)
      /\ Len(inputBuffer) \in Nat /\ Len(socketIn) \in Nat
      /\ <<>> \in Seq(Byte) /\ Len(<<>>) = 0
  BY LenProperties, EmptySeq DEF TypeOK
<1>1. CASE Construct
  <2>1. PICK data \in Frames : OnData(data)
    BY <1>1 DEF Construct
  <2>2. /\ connection' = TRUE
        /\ outBuffer' \in Seq(Byte) /\ Len(outBuffer') <= Capacity
        /\ sent' \in Seq(Byte)
    BY <2>1, OnDataMoves
  <2>3. TypeOK'
    BY <1>1, <2>2 DEF Construct, TypeOK, Control
  <2>4. FrameEnds(inputBuffer)' = {}
    BY <1>0, <1>1 DEF Construct, OnlyRestBuffered, Connected, FrameEnds
  <2> QED
    BY <1>1, <2>2, <2>3, <2>4
    DEF Construct, Framing, OnlyRestBuffered, Connected, WholeFramesParsed
<1>2. CASE Receive
  <2>1. /\ inputBuffer' = Write(inputBuffer, socketIn) /\ socketIn' = <<>>
        /\ pc = "receive" /\ pc' = "parse"
        /\ UNCHANGED <<quit, connection, usable, owed, outBuffer, parsed, sent>>
    BY <1>2 DEF Receive
  <2>2. /\ Write(inputBuffer, socketIn) \in Seq(Byte)
        /\ Len(Write(inputBuffer, socketIn)) <= Capacity
    BY <1>0, WriteBounds DEF TypeOK
  <2>3. TypeOK'
    BY <1>0, <2>1, <2>2, SizeAssumption DEF TypeOK, Control
  <2>4. Framing'
    <3> SUFFICES ASSUME usable
                 PROVE  inputBuffer' \o socketIn' = inputBuffer \o socketIn
      BY <2>1 DEF Framing
    <3>1. inputBuffer' = inputBuffer \o socketIn
      BY <2>1, ReadFits
    <3> QED
      BY <2>1, <2>2, <3>1, ConcatEmptySeq
  <2> QED
    BY <2>1, <2>3, <2>4 DEF OnlyRestBuffered, Connected, WholeFramesParsed
<1>3. CASE Parse
  <2>1. TypeOK'
    BY <1>3 DEF Parse, TypeOK, Control
  <2>2. OnlyRestBuffered'
    BY <1>0, <1>3 DEF Parse, OnlyRestBuffered, Connected, FrameEnds
  <2>3. Connected' /\ Framing' /\ WholeFramesParsed'
    BY <1>3 DEF Parse, Framing, Connected, WholeFramesParsed
  <2> QED
    BY <2>1, <2>2, <2>3
<1>4. CASE ParseReturns
  <2> DEFINE count == IF usable THEN ParsedCount(inputBuffer) ELSE 0
  <2>1. /\ count \in 0 .. Len(inputBuffer)
        /\ usable => (count > 0 => inputBuffer[count] = 0)
        /\ usable => count \in {0} \cup FrameEnds(inputBuffer)
    BY <1>0, ParsedCountIsLast DEF FrameEnds
  <2>2. /\ parsed' = parsed \o SubSeq(inputBuffer, 1, count)
        /\ inputBuffer' = Shl(inputBuffer, count)
        /\ pc = "callback" /\ pc' = "send"
        /\ UNCHANGED <<quit, connection, usable, socketIn, owed, outBuffer, sent>>
    BY <1>4 DEF ParseReturns
  <2>3. usable => FrameEnds(Shl(inputBuffer, count)) = {}
    BY <1>0, NoFrameLeft
  <2> HIDE DEF count
  <2>4. TypeOK'
    <3>1. /\ parsed' \in Seq(Byte) /\ inputBuffer' \in Seq(Byte)
          /\ Len(inputBuffer') = Len(inputBuffer) - count
      BY <2>1, <2>2, ParseMoves
    <3> QED
      BY <1>0, <2>1, <2>2, <3>1, SizeAssumption DEF TypeOK, Control
  <2>5. Framing'
    BY <2>1, <2>2, ParseKeepsFraming DEF Framing
  <2>6. OnlyRestBuffered'
    BY <2>2, <2>3 DEF OnlyRestBuffered
  <2>7. Connected'
    BY <2>2 DEF Connected
  <2>8. WholeFramesParsed'
    BY <2>1, <2>2, ParsedEndsFrame DEF WholeFramesParsed
  <2> QED
    BY <2>4, <2>5, <2>6, <2>7, <2>8
<1>5. CASE Send \/ Flush
  <2>1. sent' = sent \o outBuffer /\ outBuffer' = <<>>
    BY <1>5 DEF Send, Flush, SendDataFromBuffer
  <2>2. sent \o outBuffer \in Seq(Byte)
    BY <1>0, ConcatProperties
  <2>3. /\ pc \in {"send", "flush"} /\ pc' \in {"receive", "done"}
        /\ UNCHANGED <<quit, connection, usable, socketIn, owed, inputBuffer, parsed>>
    BY <1>5 DEF Send, Flush
  <2>4. TypeOK'
    BY <1>0, <2>1, <2>2, <2>3, SizeAssumption DEF TypeOK, Control
  <2> QED
    BY <2>3, <2>4
    DEF Framing, OnlyRestBuffered, Connected, WholeFramesParsed
<1>6. CASE LeaveLoop \/ Quit \/ SocketFails \/ UNCHANGED vars
  <2>1. /\ UNCHANGED <<connection, usable, socketIn, owed, inputBuffer,
                       outBuffer, parsed, sent>>
        /\ quit' \in BOOLEAN
        /\ \/ pc' = pc
           \/ pc = "receive" /\ pc' = "flush"
           \/ pc # "construct" /\ pc' = "failed"
    BY <1>6
    DEF LeaveLoop, Quit, SocketFails, vars, InCallback, TypeOK
  <2>2. TypeOK'
    BY <2>1 DEF TypeOK, Control
  <2> QED
    BY <2>1, <2>2
    DEF Framing, OnlyRestBuffered, Connected, WholeFramesParsed
<1>7. CASE CallbackSends
  <2>1. PICK data \in Frames : OnData(data)
    BY <1>7 DEF CallbackSends
  <2>2. /\ connection' = TRUE
        /\ outBuffer' \in Seq(Byte) /\ Len(outBuffer') <= Capacity
        /\ sent' \in Seq(Byte)
    BY <2>1, OnDataMoves
  <2>3. /\ pc = "callback" /\ pc' = pc
        /\ UNCHANGED <<quit, usable, socketIn, owed, inputBuffer, parsed>>
    BY <1>7 DEF CallbackSends, InCallback
  <2>4. TypeOK'
    BY <2>2, <2>3 DEF TypeOK, Control
  <2> QED
    BY <2>2, <2>3, <2>4
    DEF Framing, OnlyRestBuffered, Connected, WholeFramesParsed
<1>8. CASE OnClosed \/ OnError
  <2>1. PICK count \in {0} \cup FrameEnds(inputBuffer) :
          /\ parsed' = parsed \o SubSeq(inputBuffer, 1, count)
          /\ inputBuffer' = Shl(inputBuffer, count)
    BY <1>8 DEF OnClosed, OnError, ParseGivesUp
  <2>2. /\ usable' = FALSE /\ pc = "callback" /\ pc' = "send" /\ quit' \in BOOLEAN
        /\ UNCHANGED <<connection, socketIn, owed, outBuffer, sent>>
    BY <1>8 DEF OnClosed, OnError, ParseGivesUp, InCallback, TypeOK
  <2>3. count \in 0 .. Len(inputBuffer)
    BY <1>0 DEF FrameEnds
  <2>4. TypeOK'
    <3>1. /\ parsed' \in Seq(Byte) /\ inputBuffer' \in Seq(Byte)
          /\ Len(inputBuffer') = Len(inputBuffer) - count
      BY <2>1, <2>3, ParseMoves
    <3>2. Len(inputBuffer') <= Capacity
      BY <1>0, <2>3, <3>1, SizeAssumption DEF TypeOK
    <3>3. /\ usable' \in BOOLEAN /\ quit' \in BOOLEAN /\ connection' \in BOOLEAN
      BY <2>2 DEF TypeOK
    <3> QED
      BY <2>2, <3>1, <3>2, <3>3 DEF TypeOK, Control
  <2> QED
    BY <2>2, <2>4
    DEF Framing, OnlyRestBuffered, Connected, WholeFramesParsed
<1>9. CASE Arrive
  <2>1. PICK b \in Byte : /\ owed > 0 => b = owed - 1
                          /\ socketIn' = Append(socketIn, b)
                          /\ owed' = b
    BY <1>9 DEF Arrive
  <2>2. /\ connection /\ Len(socketIn) < SocketMax
        /\ UNCHANGED <<pc, quit, connection, usable, inputBuffer, outBuffer,
                       parsed, sent>>
    BY <1>9 DEF Arrive
  <2>3. /\ socketIn' \in Seq(Byte) /\ Len(socketIn') = Len(socketIn) + 1
    BY <1>0, <2>1, AppendProperties
  <2>4. TypeOK'
    BY <1>0, <2>1, <2>2, <2>3, SizeAssumption DEF TypeOK, Control
  <2>5. Framing'
    <3> SUFFICES ASSUME usable
                 PROVE  LET input == inputBuffer' \o socketIn'
                        IN  /\ CountsDown(input)
                            /\ input # <<>> /\ input[Len(input)] = owed'
      BY <2>2 DEF Framing, CountsDown
    <3> DEFINE s == inputBuffer \o socketIn
    <3>1. /\ s \in Seq(Byte) /\ CountsDown(s)
          /\ s # <<>> => s[Len(s)] = owed
      BY <1>0, ConcatProperties DEF Framing
    <3>2. inputBuffer' \o socketIn' = Append(s, b)
      <4>1. /\ Append(socketIn, b) = socketIn \o <<b>>
            /\ Append(s, b) = s \o <<b>>
        BY <1>0, <3>1, AppendIsConcat
      <4>2. <<b>> \in Seq(Byte)
        BY <1>0
      <4>3. s \o <<b>> = inputBuffer \o (socketIn \o <<b>>)
        BY <1>0, <4>2, ConcatBytes
      <4> QED
        BY <2>1, <2>2, <4>1, <4>3, Zenon
    <3> HIDE DEF s
    <3>3. CountsDown(Append(s, b))
      BY <2>1, <3>1, AppendCountsDown
    <3>4. Append(s, b) # <<>> /\ Append(s, b)[Len(Append(s, b))] = b
      BY <3>1, AppendProperties
    <3> QED
      BY <2>1, <3>2, <3>3, <3>4
  <2> QED
    BY <2>2, <2>4, <2>5 DEF OnlyRestBuffered, Connected, WholeFramesParsed
<1> QED
  BY <1>1, <1>2, <1>3, <1>4, <1>5, <1>6, <1>7, <1>8, <1>9
  DEF Next, LoopThread

\* The strengthened invariant holds in every reachable state.
LEMMA Invariant == Spec => []IInv
BY InitInvariant, StepInvariant, PTL DEF Spec

\* The state is type correct; in particular neither buffer ever holds more
\* than BUFFER_SIZE bytes (SimplePocoHandler.cpp, Buffer::write).
THEOREM TypeCorrect == Spec => []TypeOK
<1>1. IInv => TypeOK
  BY DEF IInv
<1> QED
  BY <1>1, Invariant, PTL

\* parse() never swallows a part of a frame, however the frames were cut into
\* reads: loop()'s drain and shl keep exactly the incomplete frame.
THEOREM WholeFrames == Spec => []WholeFramesParsed
<1>1. IInv => WholeFramesParsed
  BY DEF IInv
<1> QED
  BY <1>1, Invariant, PTL

-----------------------------------------------------------------------------
(* Refinement: both directions are lossless streams *)

\* A sequence is also a move of nothing.
LEMMA NothingTaken ==
  ASSUME NEW s \in Seq(Byte), NEW q \in Seq(Byte)
  PROVE  s = s \o SubSeq(q, 1, 0) /\ q = SubSeq(q, 0 + 1, Len(q))
BY SubSeqEmpty, SubSeqFull, ConcatEmptySeq

LEMMA InputInit == Init => InStream!Init
<1>1. <<>> \o <<>> = <<>>
  BY EmptySeq, ConcatEmptySeq
<1> QED
  BY <1>1 DEF Init, InStream!Init

LEMMA InputStep == IInv /\ [Next]_vars => [InStream!Next]_(InStream!streamVars)
<1> SUFFICES ASSUME IInv, [Next]_vars
             PROVE  InStream!Next \/ UNCHANGED InStream!streamVars
  BY DEF InStream!streamVars
<1> DEFINE input == inputBuffer \o socketIn
<1>0. /\ inputBuffer \in Seq(Byte) /\ socketIn \in Seq(Byte)
      /\ parsed \in Seq(Byte) /\ usable \in BOOLEAN
      /\ Len(inputBuffer) \in Nat
      /\ input \in Seq(Byte) /\ Len(input) \in Nat
  BY LenProperties, ConcatProperties DEF IInv, TypeOK
<1>1. CASE UNCHANGED <<usable, parsed, inputBuffer, socketIn>>
  BY <1>1 DEF InStream!streamVars
<1>2. CASE Receive
  <2>1. UNCHANGED <<usable, parsed>>
    BY <1>2 DEF Receive
  <2>2. usable => inputBuffer' \o socketIn' = inputBuffer \o socketIn
    <3> SUFFICES ASSUME usable
                 PROVE  inputBuffer' \o socketIn' = inputBuffer \o socketIn
      OBVIOUS
    <3>1. /\ inputBuffer' = Write(inputBuffer, socketIn) /\ socketIn' = <<>>
          /\ pc = "receive"
      BY <1>2 DEF Receive
    <3>2. inputBuffer' = input
      BY <3>1, ReadFits
    <3> QED
      BY <1>0, <3>1, <3>2, ConcatEmptySeq
  <2> QED
    BY <2>1, <2>2 DEF InStream!streamVars
<1>3. CASE Arrive
  <2>1. PICK b \in Byte : socketIn' = Append(socketIn, b)
    BY <1>3 DEF Arrive
  <2>2. UNCHANGED <<usable, parsed, inputBuffer>>
    BY <1>3 DEF Arrive
  <2>3. CASE ~usable
    BY <2>2, <2>3 DEF InStream!streamVars
  <2>4. CASE usable
    <3>1. <<b>> \in Seq(Byte) /\ Append(socketIn, b) = socketIn \o <<b>>
      BY <1>0, AppendIsConcat
    <3>2. inputBuffer' \o socketIn' = input \o <<b>>
      <4>1. (inputBuffer \o socketIn) \o <<b>>
              = inputBuffer \o (socketIn \o <<b>>)
        BY <1>0, <3>1, ConcatBytes
      <4> QED
        BY <2>1, <2>2, <3>1, <4>1, Zenon
    <3> DEFINE q == input \o <<b>>
    <3>3. q \in Seq(Byte) /\ Len(q) \in Nat
      BY <1>0, <3>1, ConcatProperties, LenProperties
    <3> HIDE DEF q
    <3>4. /\ parsed' = parsed \o SubSeq(q, 1, 0)
          /\ inputBuffer' \o socketIn' = SubSeq(q, 0 + 1, Len(q))
          /\ 0 \in 0 .. Len(q)
      BY <1>0, <2>2, <3>2, <3>3, NothingTaken DEF q
    <3>5. InStream!Move(<<b>>)
      BY <2>2, <2>4, <3>4 DEF InStream!Move, q
    <3> QED
      BY <3>5 DEF InStream!Next
  <2> QED
    BY <1>0, <2>3, <2>4
<1>4. CASE ParseReturns
  <2>1. UNCHANGED <<usable, socketIn>>
    BY <1>4 DEF ParseReturns
  <2>2. CASE ~usable
    <3>1. parsed' = parsed \o SubSeq(inputBuffer, 1, 0)
      BY <1>4, <2>2 DEF ParseReturns
    <3>2. parsed' = parsed
      BY <1>0, <3>1, NothingTaken
    <3> QED
      BY <2>1, <2>2, <3>2 DEF InStream!streamVars
  <2>3. CASE usable
    <3> DEFINE count == ParsedCount(inputBuffer)
    <3>1. /\ parsed' = parsed \o SubSeq(inputBuffer, 1, count)
          /\ inputBuffer' = Shl(inputBuffer, count)
      BY <1>4, <2>3 DEF ParseReturns
    <3>2. count \in 0 .. Len(inputBuffer)
      BY <1>0, ParsedCountIsLast
    <3> HIDE DEF count
    <3>3. /\ parsed' = parsed \o SubSeq(input, 1, count)
          /\ inputBuffer' \o socketIn' = SubSeq(input, count + 1, Len(input))
          /\ count \in 0 .. Len(input)
      BY <2>1, <3>1, <3>2, ParseMoves DEF IInv
    <3>4. input \o <<>> = input
      BY <1>0, ConcatEmptySeq
    <3>5. InStream!Move(<<>>)
      BY <2>1, <2>3, <3>3, <3>4 DEF InStream!Move
    <3> QED
      BY <3>5 DEF InStream!Next
  <2> QED
    BY <1>0, <2>2, <2>3
<1>5. CASE OnClosed \/ OnError
  <2>1. PICK count \in {0} \cup FrameEnds(inputBuffer) :
          /\ parsed' = parsed \o SubSeq(inputBuffer, 1, count)
          /\ inputBuffer' = Shl(inputBuffer, count)
    BY <1>5 DEF OnClosed, OnError, ParseGivesUp
  <2>2. usable /\ usable' = FALSE
    BY <1>5 DEF OnClosed, OnError, ParseGivesUp, InCallback
  <2>3. count \in 0 .. Len(inputBuffer)
    BY <1>0 DEF FrameEnds
  <2>4. parsed' = parsed \o SubSeq(input, 1, count) /\ count \in 0 .. Len(input)
    BY <2>1, <2>3, ParseMoves DEF IInv
  <2>5. InStream!Abandon
    BY <2>2, <2>4 DEF InStream!Abandon
  <2> QED
    BY <2>5 DEF InStream!Next
<1> QED
  BY <1>1, <1>2, <1>3, <1>4, <1>5
  DEF Next, LoopThread, vars, Construct, Parse, Send, LeaveLoop, Flush,
      CallbackSends, Quit, SocketFails

\* The input of the connection is a lossless stream although loop() ignores
\* how much Buffer::write could take: every read fits, because it meets at
\* most the rest of one frame (SimplePocoHandler.cpp, loop).
THEOREM InputLossless == Spec => InputIsLossless
BY Invariant, InputInit, InputStep, PTL
DEF Spec, InputIsLossless, InStream!Spec

LEMMA OutputInit == Init => OutStream!Init
BY DEF Init, OutStream!Init

LEMMA OutputStep ==
  IInv /\ [Next]_vars => [OutStream!Next]_(OutStream!streamVars)
<1> SUFFICES ASSUME IInv, [Next]_vars
             PROVE  OutStream!Next \/ UNCHANGED OutStream!streamVars
  BY DEF OutStream!streamVars
<1>0. /\ outBuffer \in Seq(Byte) /\ sent \in Seq(Byte)
      /\ Len(outBuffer) \in Nat
  BY LenProperties DEF IInv, TypeOK
<1>1. CASE UNCHANGED <<outBuffer, sent>>
  BY <1>1 DEF OutStream!streamVars
<1>2. CASE Construct \/ CallbackSends
  <2>1. PICK data \in Frames : OnData(data)
    BY <1>2 DEF Construct, CallbackSends
  <2>2. \E k \in 0 .. Len(outBuffer \o data) :
          /\ sent' = sent \o SubSeq(outBuffer \o data, 1, k)
          /\ outBuffer' = SubSeq(outBuffer \o data, k + 1,
                                 Len(outBuffer \o data))
    BY <2>1, OnDataMoves DEF IInv
  <2>3. OutStream!Move(data)
    BY <2>2 DEF OutStream!Move
  <2> QED
    BY <2>3 DEF OutStream!Next
<1>3. CASE Send \/ Flush
  <2>1. sent' = sent \o outBuffer /\ outBuffer' = <<>>
    BY <1>3 DEF Send, Flush, SendDataFromBuffer
  <2>2. /\ outBuffer \o <<>> = outBuffer
        /\ SubSeq(outBuffer, 1, Len(outBuffer)) = outBuffer
        /\ SubSeq(outBuffer, Len(outBuffer) + 1, Len(outBuffer)) = <<>>
        /\ Len(outBuffer) \in 0 .. Len(outBuffer)
    BY <1>0, ConcatEmptySeq, SubSeqFull, SubSeqEmpty
  <2>3. OutStream!Move(<<>>)
    BY <2>1, <2>2 DEF OutStream!Move
  <2> QED
    BY <2>3 DEF OutStream!Next
<1> QED
  BY <1>1, <1>2, <1>3
  DEF Next, LoopThread, vars, Receive, Parse, ParseReturns, LeaveLoop, OnClosed,
      OnError, ParseGivesUp, Arrive, Quit, SocketFails

\* The output of the connection is a lossless stream, also when a frame does
\* not fit and onData sends in the middle of it: ConnectionHandler asks onData
\* to send everything or to buffer it (connectionhandler.h).
THEOREM OutputLossless == Spec => OutputIsLossless
BY Invariant, OutputInit, OutputStep, PTL
DEF Spec, OutputIsLossless, OutStream!Spec

-----------------------------------------------------------------------------
(* The outgoing channel: the order of the frames *)

Types ==
  /\ wire \in Seq(ChannelFrame) /\ popped \in Seq(ChannelFrame) /\ queue \in Seq(ChannelFrame)
  /\ given \in Seq(ChannelFrame) /\ todo \in Seq(ChannelFrame)
  /\ messages \in Nat

\* send() is inside a call, and loop() is not inside onSynchronized() then.
OneAtATime ==
  /\ caller \in {"idle", "emplace", "transmit", "mark"}
  /\ caller # "idle" => todo # <<>>
  /\ todo # <<>> => loop = "idle"

\* The frame that send() has accepted and not yet placed.
InHand == IF caller \in {"emplace", "transmit"} THEN <<Head(todo)>> ELSE <<>>

\* What was accepted is what was sent, what onSynchronized() is sending, what
\* waits, and what send() has in hand, in this order.
Accounted == given = ((wire \o popped) \o queue) \o InHand

InOrder ==
  /\ Types
  /\ OneAtATime
  /\ loop \notin {"mark", "transmit"} => popped = <<>>
  /\ caller = "transmit" => queue = <<>>
  /\ closed => loop = "idle" /\ caller = "idle" /\ FramesInOrder
  /\ ~closed => Accounted

-----------------------------------------------------------------------------
(* Sequences of frames *)

\* Three parts without what is empty.
LEMMA EmptyParts ==
  ASSUME NEW s \in Seq(ChannelFrame)
  PROVE  s \o <<>> = s /\ <<>> \o s = s
BY ConcatEmptySeq

LEMMA ConcatFrames ==
  ASSUME NEW s \in Seq(ChannelFrame), NEW t \in Seq(ChannelFrame)
  PROVE  s \o t \in Seq(ChannelFrame)
BY ConcatProperties

LEMMA Regroup ==
  \A s, t, u \in Seq(ChannelFrame) : (s \o t) \o u = s \o (t \o u)
BY ConcatAssociative

\* The beginning of a concatenation.
LEMMA BeginsWith ==
  ASSUME NEW s \in Seq(ChannelFrame), NEW t \in Seq(ChannelFrame)
  PROVE  SubSeq(s \o t, 1, Len(s)) = s
<1> DEFINE all == s \o t
<1>1. Len(s) \in Nat /\ Len(t) \in Nat
  BY LenProperties
<1>2. /\ all \in Seq(ChannelFrame) /\ Len(all) = Len(s) + Len(t)
      /\ \A i \in 1 .. Len(s) + Len(t) :
           all[i] = IF i <= Len(s) THEN s[i] ELSE t[i - Len(s)]
  BY ConcatProperties
<1> HIDE DEF all
<1>3. \A i \in 1 .. Len(s) : all[i] = s[i] /\ all[i] \in ChannelFrame
  BY <1>1, <1>2, ElementOfSeq
<1>4. /\ SubSeq(all, 1, Len(s)) \in Seq(ChannelFrame)
      /\ Len(SubSeq(all, 1, Len(s))) = Len(s)
      /\ \A i \in 1 .. Len(s) : SubSeq(all, 1, Len(s))[i] = all[i]
  BY <1>1, <1>3, SubSeqProperties, Z3
<1>5. SubSeq(all, 1, Len(s)) = s
  BY <1>3, <1>4, SeqEqual
<1> QED
  BY <1>5 DEF all

\* A queue is its first frame and what Pop leaves.
LEMMA FirstAndRest ==
  ASSUME NEW s \in Seq(ChannelFrame), s # <<>>
  PROVE  LET rest == [i \in 1 .. Len(s) - 1 |->
                        IF i < 1 THEN s[i] ELSE s[i + 1]]
         IN  /\ <<s[1]>> \in Seq(ChannelFrame)
             /\ rest \in Seq(ChannelFrame)
             /\ <<s[1]>> \o rest = s
<1> DEFINE rest == [i \in 1 .. Len(s) - 1 |->
                      IF i < 1 THEN s[i] ELSE s[i + 1]]
<1>1. Len(s) \in Nat \ {0}
  BY EmptySeq
<1>2. \A i \in 1 .. Len(s) - 1 : rest[i] = s[i + 1] /\ rest[i] \in ChannelFrame
  BY <1>1, ElementOfSeq
<1>3. rest \in [1 .. Len(s) - 1 -> ChannelFrame]
  BY <1>2
<1>4. rest \in Seq(ChannelFrame) /\ Len(rest) = Len(s) - 1
  BY <1>1, <1>3, SeqDef
<1>5. s[1] \in ChannelFrame
  BY <1>1, ElementOfSeq
<1>6. <<s[1]>> \in Seq(ChannelFrame) /\ Len(<<s[1]>>) = 1
  BY <1>5
<1> HIDE DEF rest
<1> DEFINE first == <<s[1]>>
<1>7. first[1] = s[1]
  OBVIOUS
<1>8. first \in Seq(ChannelFrame) /\ Len(first) = 1
  BY <1>6
<1> HIDE DEF first
<1>9. /\ first \o rest \in Seq(ChannelFrame) /\ Len(first \o rest) = Len(s)
      /\ \A i \in 1 .. Len(s) :
           (first \o rest)[i] = IF i <= 1 THEN first[i] ELSE rest[i - 1]
  <2>1. /\ first \o rest \in Seq(ChannelFrame)
        /\ Len(first \o rest) = Len(first) + Len(rest)
        /\ \A i \in 1 .. Len(first) + Len(rest) :
             (first \o rest)[i] = IF i <= Len(first) THEN first[i]
                                  ELSE rest[i - Len(first)]
    BY <1>4, <1>8, ConcatProperties
  <2>2. Len(first) = 1 /\ Len(first) + Len(rest) = Len(s)
    BY <1>1, <1>4, <1>8
  <2> QED
    BY <2>1, <2>2
<1>10. \A i \in 1 .. Len(s) : (first \o rest)[i] = s[i]
  BY <1>1, <1>2, <1>7, <1>9
<1>11. first \o rest = s
  BY <1>9, <1>10, SeqEqual
<1> QED
  BY <1>4, <1>6, <1>11 DEF first, rest

LEMMA SetupType == SetupFrames \in Seq(ChannelFrame)
<1>1. Setup \in Seq(STRING) /\ MaxMessages \in Nat
  BY ChannelAssumption DEF ChannelAssumption
<1>2. Len(Setup) \in Nat /\ DOMAIN Setup = 1 .. Len(Setup)
  BY <1>1, LenProperties
<1>3. \A i \in DOMAIN Setup : [kind |-> Setup[i], message |-> 0] \in ChannelFrame
  BY <1>1, 0 \in 0 .. MaxMessages DEF ChannelFrame, Kinds
<1>4. SetupFrames \in [1 .. Len(Setup) -> ChannelFrame]
  BY <1>2, <1>3 DEF SetupFrames
<1> QED
  BY <1>2, <1>4, SeqDef

LEMMA CallType ==
  ASSUME NEW m \in 0 .. MaxMessages
  PROVE  CallFrames(m) \in Seq(ChannelFrame)
<1>1. Call \in Seq(STRING)
  BY ChannelAssumption DEF ChannelAssumption
<1>2. Len(Call) \in Nat /\ DOMAIN Call = 1 .. Len(Call)
  BY <1>1, LenProperties
<1>3. \A i \in DOMAIN Call : [kind |-> Call[i], message |-> m] \in ChannelFrame
  BY DEF ChannelFrame, Kinds
<1>4. CallFrames(m) \in [1 .. Len(Call) -> ChannelFrame]
  BY <1>2, <1>3 DEF CallFrames
<1> QED
  BY <1>2, <1>4, SeqDef

-----------------------------------------------------------------------------
(* The invariant *)

LEMMA InitInOrder == ChannelInit => InOrder
<1> SUFFICES ASSUME ChannelInit PROVE InOrder
  OBVIOUS
<1>1. Types
  BY SetupType, EmptySeq DEF ChannelInit, Types
<1>2. Accounted
  BY EmptyParts, EmptySeq DEF ChannelInit, Accounted, InHand
<1> QED
  BY <1>1, <1>2 DEF ChannelInit, InOrder, OneAtATime

LEMMA StepInOrder ==
  ASSUME Publisher = "loop", InOrder, [ChannelNext]_channelVars
  PROVE  InOrder'
<1>0. /\ Types /\ OneAtATime
      /\ loop \notin {"mark", "transmit"} => popped = <<>>
      /\ caller = "transmit" => queue = <<>>
      /\ closed => loop = "idle" /\ caller = "idle" /\ FramesInOrder
      /\ ~closed => Accounted
  BY DEF InOrder
<1>a. /\ wire \in Seq(ChannelFrame) /\ popped \in Seq(ChannelFrame) /\ queue \in Seq(ChannelFrame)
      /\ given \in Seq(ChannelFrame) /\ todo \in Seq(ChannelFrame) /\ messages \in Nat
  BY <1>0 DEF Types
<1>b. todo # <<>> => /\ Head(todo) \in ChannelFrame /\ Tail(todo) \in Seq(ChannelFrame)
                     /\ <<Head(todo)>> \in Seq(ChannelFrame)
  BY <1>a, HeadTailProperties
<1>c. wire \o popped \in Seq(ChannelFrame) /\ (wire \o popped) \o queue \in Seq(ChannelFrame)
  <2>1. wire \o popped \in Seq(ChannelFrame)
    BY <1>a, ConcatFrames
  <2> QED
    BY <1>a, <2>1, ConcatFrames
<1>1. CASE Publish
  <2>1. /\ todo = <<>> /\ loop = "idle" /\ caller = "idle"
    BY <1>0, <1>1 DEF Publish, PublisherMayRun, OneAtATime
  <2>2. messages' \in 0 .. MaxMessages /\ messages' = messages + 1
    BY <1>a, <1>1, ChannelAssumption DEF Publish, ChannelAssumption
  <2>3. todo' \in Seq(ChannelFrame)
    BY <1>1, <2>2, CallType DEF Publish
  <2>4. UNCHANGED <<queue, wire, caller, given, loop, popped, closed>>
    BY <1>1 DEF Publish, loopVars
  <2>5. Types'
    BY <1>a, <2>2, <2>3, <2>4 DEF Types
  <2> QED
    BY <1>0, <2>1, <2>4, <2>5
    DEF InOrder, OneAtATime, Accounted, InHand, FramesInOrder
<1>2. CASE Check /\ closed
  <2>1. /\ caller = "idle" /\ closed /\ todo' = <<>>
        /\ UNCHANGED <<queue, wire, caller, given, messages, loop, popped, closed>>
    BY <1>2 DEF Check, loopVars
  <2>2. Types'
    BY <1>a, <2>1, EmptySeq DEF Types
  <2> QED
    BY <1>0, <2>1, <2>2 DEF InOrder, OneAtATime, FramesInOrder
<1>3. CASE Check /\ ~closed
  <2>1. /\ todo # <<>> /\ caller = "idle" /\ ~closed
        /\ given' = Append(given, Head(todo))
        /\ caller' = IF Busy THEN "emplace" ELSE "transmit"
        /\ UNCHANGED <<queue, wire, todo, messages, loop, popped, closed>>
    BY <1>3 DEF Check, loopVars
  <2>2. given' = given \o <<Head(todo)>> /\ given' \in Seq(ChannelFrame)
    BY <1>a, <1>b, <2>1, AppendIsConcat, AppendProperties
  <2>3. given = (wire \o popped) \o queue
    <3>1. given = ((wire \o popped) \o queue) \o <<>>
      BY <1>0, <2>1 DEF Accounted, InHand
    <3> QED
      BY <1>c, <3>1, EmptyParts
  <2>4. Accounted'
    BY <2>1, <2>2, <2>3 DEF Accounted, InHand
  <2>5. Types'
    BY <1>a, <2>1, <2>2 DEF Types
  <2>6. caller' = "transmit" => queue' = <<>>
    BY <2>1 DEF Busy
  <2> QED
    BY <1>0, <2>1, <2>4, <2>5, <2>6 DEF InOrder, OneAtATime
<1>4. CASE Emplace
  <2>1. /\ caller = "emplace" /\ caller' = "idle" /\ todo # <<>> /\ ~closed
        /\ queue' = Append(queue, Head(todo)) /\ todo' = Tail(todo)
        /\ UNCHANGED <<wire, messages, given, loop, popped, closed>>
    BY <1>0, <1>4 DEF Emplace, OneAtATime, loopVars
  <2>2. queue' = queue \o <<Head(todo)>> /\ queue' \in Seq(ChannelFrame)
    BY <1>a, <1>b, <2>1, AppendIsConcat, AppendProperties
  <2>3. given = ((wire \o popped) \o queue) \o <<Head(todo)>>
    BY <1>0, <2>1 DEF Accounted, InHand
  <2>4. given = (wire \o popped) \o queue'
    <3> DEFINE before == wire \o popped
               last == <<Head(todo)>>
    <3>1. before \in Seq(ChannelFrame) /\ last \in Seq(ChannelFrame)
      BY <1>b, <1>c, <2>1
    <3>a. queue \in Seq(ChannelFrame)
      BY <1>a
    <3> HIDE DEF before, last
    <3>2. (before \o queue) \o last = before \o (queue \o last)
      BY <3>a, <3>1, Regroup
    <3> QED
      BY <2>2, <2>3, <3>2 DEF before, last
  <2>5. Accounted'
    BY <1>a, <2>1, <2>2, <2>4, ConcatFrames, EmptyParts DEF Accounted, InHand
  <2>6. Types'
    BY <1>a, <1>b, <2>1, <2>2 DEF Types
  <2> QED
    BY <1>0, <2>1, <2>5, <2>6 DEF InOrder, OneAtATime
<1>5. CASE Transmit
  <2>1. /\ caller = "transmit" /\ caller' = "mark" /\ todo # <<>> /\ ~closed
        /\ queue = <<>> /\ popped = <<>>
        /\ wire' = Append(wire, Head(todo))
        /\ UNCHANGED <<queue, todo, messages, given, loop, popped, closed>>
    BY <1>0, <1>5 DEF Transmit, OneAtATime, loopVars
  <2>2. wire' = wire \o <<Head(todo)>> /\ wire' \in Seq(ChannelFrame)
    BY <1>a, <1>b, <2>1, AppendIsConcat, AppendProperties
  <2>3. given = ((wire \o <<>>) \o <<>>) \o <<Head(todo)>>
    BY <1>0, <2>1 DEF Accounted, InHand
  <2>4. given = wire'
    BY <1>a, <2>2, <2>3, EmptyParts
  <2>5. Accounted'
    BY <2>1, <2>2, <2>4, EmptyParts DEF Accounted, InHand
  <2>6. Types'
    BY <1>a, <2>1, <2>2 DEF Types
  <2> QED
    BY <1>0, <2>1, <2>5, <2>6 DEF InOrder, OneAtATime
<1>6. CASE Mark
  <2>1. /\ caller = "mark" /\ caller' = "idle" /\ todo # <<>> /\ ~closed
        /\ todo' = Tail(todo)
        /\ UNCHANGED <<queue, wire, messages, given, loop, popped, closed>>
    BY <1>0, <1>6 DEF Mark, OneAtATime, loopVars
  <2>2. Types'
    BY <1>a, <1>b, <2>1 DEF Types
  <2> QED
    BY <1>0, <2>1, <2>2 DEF InOrder, OneAtATime, Accounted, InHand
<1>11. CASE Answer \/ OnSynchronized \/ EndDrain
  <2>1. /\ todo = <<>> /\ ~closed
        /\ loop \notin {"mark", "transmit"} /\ loop' \notin {"mark", "transmit"}
        /\ UNCHANGED <<queue, wire, todo, caller, messages, given, popped, closed>>
    BY <1>0, <1>11
    DEF Answer, OnSynchronized, EndDrain, LoopMayRun, callerVars
  <2> QED
    BY <1>0, <2>1 DEF InOrder, Types, OneAtATime, Accounted, InHand
<1>7. CASE Pop
  <2>1. /\ todo = <<>> /\ ~closed /\ popped = <<>> /\ queue # <<>>
        /\ loop' = "mark"
        /\ popped' = <<queue[1]>>
        /\ queue' = [i \in 1 .. Len(queue) - 1 |->
                       IF i < 1 THEN queue[i] ELSE queue[i + 1]]
        /\ UNCHANGED <<wire, todo, caller, messages, given, closed>>
    BY <1>0, <1>7 DEF Pop, LoopMayRun, Turn, callerVars
  <2>2. /\ popped' \in Seq(ChannelFrame) /\ queue' \in Seq(ChannelFrame)
        /\ popped' \o queue' = queue
    BY <1>a, <2>1, FirstAndRest
  <2>3. caller = "idle"
    BY <1>0, <2>1 DEF OneAtATime
  <2>4. given = wire \o queue
    <3>1. given = ((wire \o <<>>) \o queue) \o <<>>
      BY <1>0, <2>1, <2>3 DEF Accounted, InHand
    <3>2. wire \o <<>> = wire /\ wire \o queue \in Seq(ChannelFrame)
      BY <1>a, EmptyParts, ConcatFrames
    <3> QED
      BY <3>1, <3>2, EmptyParts
  <2>5. given = (wire \o popped') \o queue'
    <3>0. /\ wire \in Seq(ChannelFrame) /\ popped' \in Seq(ChannelFrame)
          /\ queue' \in Seq(ChannelFrame)
      BY <1>a, <2>2
    <3>1. (wire \o popped') \o queue' = wire \o (popped' \o queue')
      BY <3>0, Regroup
    <3> QED
      BY <2>2, <2>4, <3>1
  <2>6. Accounted'
    BY <1>a, <2>1, <2>2, <2>3, <2>5, ConcatFrames, EmptyParts
    DEF Accounted, InHand
  <2>7. Types'
    BY <1>a, <2>1, <2>2 DEF Types
  <2> QED
    BY <1>0, <2>1, <2>3, <2>6, <2>7 DEF InOrder, OneAtATime
<1>12. CASE MarkPopped
  <2>1. /\ todo = <<>> /\ ~closed /\ loop' = "transmit"
        /\ UNCHANGED <<queue, wire, todo, caller, messages, given, popped, closed>>
    BY <1>0, <1>12 DEF MarkPopped, LoopMayRun, callerVars
  <2> QED
    BY <1>0, <2>1 DEF InOrder, Types, OneAtATime, Accounted, InHand
<1>8. CASE TransmitPopped
  <2>1. /\ todo = <<>> /\ ~closed
        /\ loop' = "drain" /\ wire' = wire \o popped /\ popped' = <<>>
        /\ UNCHANGED <<queue, todo, caller, messages, given, closed>>
    BY <1>0, <1>8 DEF TransmitPopped, LoopMayRun, callerVars
  <2>2. wire' \in Seq(ChannelFrame) /\ wire' \o popped' = wire'
    BY <1>a, <2>1, ConcatFrames, EmptyParts
  <2>3. Accounted'
    BY <1>0, <2>1, <2>2 DEF Accounted, InHand
  <2>4. Types'
    BY <1>a, <2>1, <2>2, EmptySeq DEF Types
  <2> QED
    BY <1>0, <2>1, <2>3, <2>4 DEF InOrder, OneAtATime
<1>9. CASE ChannelClosed
  <2>1. /\ todo = <<>> /\ ~closed /\ closed' /\ loop = "idle" /\ queue' = <<>>
        /\ UNCHANGED <<wire, todo, caller, messages, given, loop, popped>>
    BY <1>9 DEF ChannelClosed, LoopMayRun, callerVars
  <2>2. caller = "idle" /\ popped = <<>>
    BY <1>0, <2>1 DEF OneAtATime
  <2>3. given = wire \o queue
    <3>1. given = ((wire \o <<>>) \o queue) \o <<>>
      BY <1>0, <2>1, <2>2 DEF Accounted, InHand
    <3>2. wire \o <<>> = wire /\ wire \o queue \in Seq(ChannelFrame)
      BY <1>a, EmptyParts, ConcatFrames
    <3> QED
      BY <3>1, <3>2, EmptyParts
  <2>4. FramesInOrder'
    BY <1>a, <2>1, <2>3, BeginsWith DEF FramesInOrder
  <2>5. Types'
    BY <1>a, <2>1, EmptySeq DEF Types
  <2> QED
    BY <1>0, <2>1, <2>2, <2>4, <2>5 DEF InOrder, OneAtATime
<1>10. CASE UNCHANGED channelVars
  BY <1>0, <1>10
  DEF channelVars, callerVars, loopVars, InOrder, Types, OneAtATime, Accounted,
      InHand, FramesInOrder
<1> QED
  BY <1>1, <1>2, <1>3, <1>4, <1>5, <1>6, <1>7, <1>8, <1>9, <1>10, <1>11,
     <1>12
  DEF ChannelNext, CallerSteps, LoopSteps

LEMMA InOrderMeans ==
  ASSUME InOrder
  PROVE  FramesInOrder
<1>1. CASE closed
  BY <1>1 DEF InOrder
<1>2. CASE ~closed
  <2>1. /\ wire \in Seq(ChannelFrame) /\ popped \in Seq(ChannelFrame) /\ queue \in Seq(ChannelFrame)
        /\ todo \in Seq(ChannelFrame)
        /\ given = ((wire \o popped) \o queue) \o InHand
    BY <1>2 DEF InOrder, Types, Accounted
  <2>2. InHand \in Seq(ChannelFrame)
    <3>1. caller \in {"emplace", "transmit"} => <<Head(todo)>> \in Seq(ChannelFrame)
      <4>1. caller \in {"emplace", "transmit"} => todo # <<>>
        BY DEF InOrder, OneAtATime
      <4>2. todo # <<>> => Head(todo) \in ChannelFrame
        BY <2>1, HeadTailProperties
      <4> QED
        BY <4>1, <4>2
    <3> QED
      BY <3>1, EmptySeq DEF InHand
  <2>3. given = wire \o (popped \o (queue \o InHand))
    <3>1. popped \o queue \in Seq(ChannelFrame) /\ queue \o InHand \in Seq(ChannelFrame)
          /\ wire \o popped \in Seq(ChannelFrame)
      BY <2>1, <2>2, ConcatFrames
    <3>2. ((wire \o popped) \o queue) \o InHand
            = (wire \o popped) \o (queue \o InHand)
      <4> DEFINE before == wire \o popped
      <4>1. before \in Seq(ChannelFrame)
        BY <3>1
      <4> HIDE DEF before
      <4>2. (before \o queue) \o InHand = before \o (queue \o InHand)
        BY <2>1, <2>2, <4>1, Regroup
      <4> QED
        BY <4>2 DEF before
    <3>3. (wire \o popped) \o (queue \o InHand)
            = wire \o (popped \o (queue \o InHand))
      <4> DEFINE after == queue \o InHand
      <4>1. wire \in Seq(ChannelFrame) /\ popped \in Seq(ChannelFrame) /\ after \in Seq(ChannelFrame)
        BY <2>1, <3>1
      <4> HIDE DEF after
      <4>2. (wire \o popped) \o after = wire \o (popped \o after)
        BY <4>1, Regroup
      <4> QED
        BY <4>2 DEF after
    <3> QED
      BY <2>1, <3>2, <3>3
  <2>4. popped \o (queue \o InHand) \in Seq(ChannelFrame)
    BY <2>1, <2>2, ConcatFrames
  <2> QED
    BY <2>1, <2>3, <2>4, BeginsWith DEF FramesInOrder
<1> QED
  BY <1>1, <1>2

\* With one thread (receive.cpp, worker.cpp) frames reach the connection in
\* the order in which ChannelImpl::send accepted them, those that waited for
\* an answer and those that did not, until the channel is closed.
THEOREM OneThreadInOrder == Publisher = "loop" => (ChannelSpec => []FramesInOrder)
<1> SUFFICES ASSUME Publisher = "loop" PROVE ChannelSpec => []FramesInOrder
  OBVIOUS
<1>1. InOrder /\ [ChannelNext]_channelVars => InOrder'
  BY StepInOrder
<1>2. InOrder => FramesInOrder
  BY InOrderMeans
<1> QED
  BY <1>1, <1>2, InitInOrder, PTL DEF ChannelSpec

-----------------------------------------------------------------------------
(* Synchronous frames *)

PoppedIsMarked ==
  \E f \in ChannelFrame : popped = <<f>> /\ synchronous = Synchronous(f)

\* No synchronous frame more is on the wire than is answered once the flag is
\* reset, and one more at most while it is set or about to be set.
Counted ==
  /\ answered \in Nat /\ synchronous \in BOOLEAN
  /\ SynchronousAlone
  /\ ~closed =>
       /\ SynchronousSent <= answered + 1
       /\ ~synchronous /\ caller # "mark" => SynchronousSent <= answered
       /\ loop \in {"synchronized", "mark", "transmit"} => SynchronousSent <= answered
       /\ caller = "transmit" => ~synchronous
       /\ caller = "mark" /\ ~Synchronous(Head(todo)) =>
            SynchronousSent <= answered
       /\ loop = "mark" => \E f \in ChannelFrame : popped = <<f>>
       /\ loop = "transmit" => PoppedIsMarked

\* Counting up to an end counts what is before it.
LEMMA CountIsMonotonic ==
  ASSUME NEW i \in Nat, NEW n \in Nat, i <= n
  PROVE  SynchronousAmong(i) \in Nat /\ SynchronousAmong(i) <= SynchronousAmong(n)
<1> DEFINE C(m) == {j \in 1 .. m : Synchronous(wire[j])}
<1>1. \A m \in Nat : IsFiniteSet(C(m))
  <2> TAKE m \in Nat
  <2>1. IsFiniteSet(1 .. m) /\ C(m) \subseteq 1 .. m
    BY FS_Interval
  <2> QED
    BY <2>1, FS_Subset
<1>2. C(i) \subseteq C(n)
  OBVIOUS
<1>3. Cardinality(C(i)) \in Nat /\ Cardinality(C(i)) <= Cardinality(C(n))
  BY <1>1, <1>2, FS_Subset, FS_CardinalityType
<1> QED
  BY <1>3 DEF SynchronousAmong

\* A frame more on the wire.
LEMMA CountOneMore ==
  ASSUME NEW f \in ChannelFrame, wire \in Seq(ChannelFrame),
         wire' = Append(wire, f)
  PROVE  /\ \A i \in 0 .. Len(wire) : SynchronousAmong(i)' = SynchronousAmong(i)
         /\ Synchronous(f) => SynchronousSent' = SynchronousSent + 1
         /\ ~Synchronous(f) => SynchronousSent' = SynchronousSent
<1> DEFINE n == Len(wire)
           C(m) == {j \in 1 .. m : Synchronous(wire[j])}
<1>1. /\ n \in Nat /\ Len(wire') = n + 1
      /\ wire'[n + 1] = f
      /\ \A j \in 1 .. n : wire'[j] = wire[j]
  BY LenProperties, AppendProperties
<1>2. ASSUME NEW i \in 0 .. n
      PROVE  {j \in 1 .. i : Synchronous(wire'[j])} = C(i)
  BY <1>1, <1>2 DEF Synchronous
<1>3. \A i \in 0 .. n : SynchronousAmong(i)' = SynchronousAmong(i)
  BY <1>2 DEF SynchronousAmong, Synchronous
<1>4. IsFiniteSet(C(n)) /\ Cardinality(C(n)) \in Nat
  <2>1. IsFiniteSet(1 .. n) /\ C(n) \subseteq 1 .. n
    BY <1>1, FS_Interval
  <2> QED
    BY <2>1, FS_Subset, FS_CardinalityType
<1>5. SynchronousSent' = Cardinality({j \in 1 .. n + 1 : Synchronous(wire'[j])})
  BY <1>1 DEF SynchronousSent, SynchronousAmong, Synchronous
<1>6. CASE Synchronous(f)
  <2>1. {j \in 1 .. n + 1 : Synchronous(wire'[j])} = C(n) \cup {n + 1}
    BY <1>1, <1>6
  <2>2. n + 1 \notin C(n)
    BY <1>1
  <2>3. Cardinality(C(n) \cup {n + 1}) = Cardinality(C(n)) + 1
    BY <1>4, <2>2, FS_AddElement
  <2> QED
    BY <1>3, <1>5, <1>6, <2>1, <2>3 DEF SynchronousSent, SynchronousAmong
<1>7. CASE ~Synchronous(f)
  <2>1. {j \in 1 .. n + 1 : Synchronous(wire'[j])} = C(n)
    BY <1>1, <1>7
  <2> QED
    BY <1>3, <1>5, <1>7, <2>1 DEF SynchronousSent, SynchronousAmong
<1> QED
  BY <1>6, <1>7

\* A frame goes out when every synchronous one before it is answered.
LEMMA SendAlone ==
  ASSUME NEW f \in ChannelFrame, wire \in Seq(ChannelFrame),
         wire' = Append(wire, f), answered \in Nat, answered' = answered,
         SynchronousSent <= answered
  PROVE  /\ SynchronousAlone'
         /\ SynchronousSent' <= answered' + 1
         /\ ~Synchronous(f) => SynchronousSent' <= answered'
<1>1. /\ Len(wire) \in Nat /\ DOMAIN wire' = 1 .. Len(wire) + 1
      /\ Len(wire') = Len(wire) + 1
  BY LenProperties, AppendProperties
<1>2. ASSUME NEW i \in 1 .. Len(wire)
      PROVE  SynchronousAmong(i)' <= answered'
  <2>1. SynchronousAmong(i) <= SynchronousAmong(Len(wire))
        /\ SynchronousAmong(i) \in Nat /\ SynchronousAmong(Len(wire)) \in Nat
    BY <1>1, CountIsMonotonic
  <2>2. SynchronousAmong(i)' = SynchronousAmong(i)
    BY <1>1, CountOneMore
  <2> QED
    BY <2>1, <2>2 DEF SynchronousSent
<1>3. SynchronousAlone'
  BY <1>1, <1>2 DEF SynchronousAlone
<1>4. SynchronousSent \in Nat
  BY <1>1, CountIsMonotonic DEF SynchronousSent
<1> QED
  BY <1>3, <1>4, CountOneMore

\* The same frames on the wire, and no answer less.
LEMMA NothingSent ==
  ASSUME wire' = wire, answered \in Nat, answered' \in Nat,
         answered <= answered', SynchronousAlone, wire \in Seq(ChannelFrame)
  PROVE  SynchronousAlone' /\ SynchronousSent' = SynchronousSent
         /\ SynchronousSent \in Nat
<1>0. Len(wire) \in Nat /\ DOMAIN wire = 1 .. Len(wire)
  BY LenProperties
<1>1. \A i \in Nat : SynchronousAmong(i)' = SynchronousAmong(i)
  BY DEF SynchronousAmong, Synchronous
<1>2. \A i \in Nat : SynchronousAmong(i) \in Nat
  BY CountIsMonotonic
<1>3. SynchronousAlone'
  <2>1. \A i \in 1 .. Len(wire) :
          Synchronous(wire[i]) /\ i < Len(wire) => SynchronousAmong(i) <= answered
    BY <1>0 DEF SynchronousAlone
  <2>2. \A i \in 1 .. Len(wire) :
          Synchronous(wire[i]) /\ i < Len(wire) => SynchronousAmong(i)' <= answered'
    BY <1>0, <1>1, <1>2, <2>1
  <2> QED
    BY <1>0, <2>2 DEF SynchronousAlone, Synchronous
<1>4. SynchronousSent' = SynchronousSent
  BY DEF SynchronousSent, SynchronousAmong, Synchronous
<1> QED
  BY <1>0, <1>2, <1>3, <1>4 DEF SynchronousSent

LEMMA InitCounted == ChannelInit => Counted
<1> SUFFICES ASSUME ChannelInit PROVE Counted
  OBVIOUS
<1>1. wire = <<>> /\ Len(wire) = 0 /\ DOMAIN wire = {}
  BY EmptySeq DEF ChannelInit
<1>2. {i \in 1 .. 0 : Synchronous(wire[i])} = {}
  OBVIOUS
<1>3. SynchronousSent = 0
  BY <1>1, <1>2, FS_EmptySet DEF SynchronousSent, SynchronousAmong
<1>4. SynchronousAlone
  BY <1>1 DEF SynchronousAlone
<1>5. /\ answered = 0 /\ synchronous = FALSE
      /\ caller = "idle" /\ loop = "idle"
  BY DEF ChannelInit
<1>6. answered \in Nat /\ synchronous \in BOOLEAN
  BY <1>5
<1>7. /\ SynchronousSent <= answered + 1
      /\ SynchronousSent <= answered
  BY <1>3, <1>5
<1>8. loop \notin {"mark", "transmit"} /\ caller # "transmit" /\ ~synchronous
  BY <1>5
<1> QED
  BY <1>4, <1>6, <1>7, <1>8 DEF Counted

LEMMA StepCounted ==
  ASSUME Publisher = "loop", InOrder, Counted, [ChannelNext]_channelVars
  PROVE  Counted'
<1>0. /\ wire \in Seq(ChannelFrame) /\ queue \in Seq(ChannelFrame)
      /\ todo \in Seq(ChannelFrame) /\ OneAtATime
      /\ closed => loop = "idle" /\ caller = "idle"
  BY DEF InOrder, Types
<1>1. answered \in Nat /\ synchronous \in BOOLEAN /\ SynchronousAlone
  BY DEF Counted
<1>2. /\ SynchronousAlone /\ SynchronousSent \in Nat
      /\ wire' = wire /\ answered' \in Nat /\ answered <= answered' =>
           SynchronousAlone' /\ SynchronousSent' = SynchronousSent
  <2>1. Len(wire) \in Nat
    BY <1>0, LenProperties
  <2>2. SynchronousSent \in Nat
    BY <2>1, CountIsMonotonic DEF SynchronousSent
  <2> QED
    BY <1>0, <1>1, <2>2, NothingSent
<1>3. CASE Publish
  BY <1>0, <1>1, <1>2, <1>3 DEF Counted, Publish, PublisherMayRun, loopVars, OneAtATime
<1>4. CASE Check
  BY <1>0, <1>1, <1>2, <1>4 DEF Counted, Check, Busy, loopVars, OneAtATime
<1>5. CASE Emplace
  BY <1>0, <1>1, <1>2, <1>5 DEF Counted, Emplace, loopVars, OneAtATime
<1>6. CASE Transmit
  <2>1. /\ caller = "transmit" /\ caller' = "mark" /\ ~closed /\ loop = "idle"
        /\ wire' = Append(wire, Head(todo)) /\ Head(todo) \in ChannelFrame
        /\ UNCHANGED <<synchronous, todo, loop, closed, answered>>
    BY <1>0, <1>6, HeadTailProperties DEF Transmit, OneAtATime, loopVars
  <2>2. SynchronousSent <= answered
    BY <2>1 DEF Counted
  <2>3. /\ SynchronousAlone' /\ SynchronousSent' <= answered' + 1
        /\ ~Synchronous(Head(todo)) => SynchronousSent' <= answered'
    BY <1>0, <1>1, <2>1, <2>2, SendAlone
  <2> QED
    BY <1>1, <2>1, <2>3 DEF Counted, Synchronous
<1>7. CASE Mark
  <2>1. /\ caller = "mark" /\ caller' = "idle" /\ ~closed /\ loop = "idle"
        /\ synchronous' = Synchronous(Head(todo))
        /\ UNCHANGED <<wire, loop, closed, answered>>
    BY <1>0, <1>7 DEF Mark, OneAtATime, loopVars
  <2>2. /\ SynchronousSent <= answered + 1
        /\ ~Synchronous(Head(todo)) => SynchronousSent <= answered
    BY <2>1 DEF Counted
  <2>3. /\ SynchronousAlone' /\ SynchronousSent' = SynchronousSent
        /\ answered' \in Nat
    BY <1>1, <1>2, <2>1
  <2>4. synchronous' \in BOOLEAN
    BY <2>1 DEF Synchronous
  <2>5. ~synchronous' => SynchronousSent' <= answered'
    BY <2>1, <2>2, <2>3
  <2> QED
    BY <2>1, <2>2, <2>3, <2>4, <2>5 DEF Counted
<1>8. CASE Answer
  <2>1. /\ caller = "idle" /\ ~closed /\ loop = "idle"
        /\ answered < SynchronousSent /\ answered' = answered + 1
        /\ loop' = "synchronized"
        /\ UNCHANGED <<wire, synchronous, caller, todo, closed>>
    BY <1>0, <1>8 DEF Answer, LoopMayRun, OneAtATime, callerVars
  <2>2. SynchronousSent <= answered + 1
    BY <2>1 DEF Counted
  <2>3. /\ SynchronousAlone' /\ SynchronousSent' = SynchronousSent
        /\ answered' \in Nat /\ synchronous' \in BOOLEAN
    BY <1>1, <1>2, <2>1
  <2>4. SynchronousSent' <= answered' /\ SynchronousSent' <= answered' + 1
    BY <1>1, <1>2, <2>1, <2>2, <2>3
  <2>5. loop' \notin {"mark", "transmit"} /\ caller' # "transmit"
    BY <2>1
  <2> QED
    BY <2>3, <2>4, <2>5 DEF Counted
<1>9. CASE OnSynchronized
  <2>1. /\ caller = "idle" /\ ~closed /\ loop = "synchronized"
        /\ loop' = "drain" /\ synchronous' = FALSE
        /\ UNCHANGED <<wire, answered, caller, todo, closed>>
    BY <1>0, <1>9 DEF OnSynchronized, AfterAnswer, LoopMayRun, OneAtATime, callerVars
  <2>a. answered' \in Nat /\ answered <= answered' /\ wire' = wire
    BY <1>1, <2>1
  <2>b. synchronous' \in BOOLEAN
    BY <2>1
  <2>c. SynchronousAlone' /\ SynchronousSent' = SynchronousSent
    BY <1>1, <1>2, <2>a
  <2>2. /\ SynchronousAlone' /\ SynchronousSent' = SynchronousSent
        /\ answered' \in Nat /\ synchronous' \in BOOLEAN
    BY <2>a, <2>b, <2>c
  <2>3. SynchronousSent <= answered
    BY <2>1 DEF Counted
  <2>4. SynchronousSent' <= answered' /\ SynchronousSent' <= answered' + 1
    BY <1>1, <1>2, <2>1, <2>2, <2>3
  <2>5. loop' \notin {"mark", "transmit"} /\ caller' # "transmit"
    BY <2>1
  <2> QED
    BY <2>2, <2>4, <2>5 DEF Counted
<1>10. CASE Pop
  <2>1. /\ caller = "idle" /\ ~closed /\ loop' = "mark" /\ ~synchronous
        /\ queue # <<>> /\ popped' = <<queue[1]>>
        /\ UNCHANGED <<synchronous, wire, answered, caller, todo, closed>>
    BY <1>0, <1>10 DEF Pop, Turn, LoopMayRun, OneAtATime, callerVars
  <2>2. SynchronousSent <= answered
    BY <2>1 DEF Counted
  <2>3. queue[1] \in ChannelFrame
    BY <1>0, <2>1, EmptySeq, ElementOfSeq, LenProperties
  <2>4. \E f \in ChannelFrame : popped' = <<f>>
    BY <2>1, <2>3
  <2> QED
    BY <1>1, <1>2, <2>1, <2>2, <2>4 DEF Counted
<1>15. CASE MarkPopped
  <2>1. /\ caller = "idle" /\ ~closed /\ loop = "mark" /\ loop' = "transmit"
        /\ synchronous' = Synchronous(Head(popped))
        /\ UNCHANGED <<wire, answered, caller, todo, closed, popped>>
    BY <1>0, <1>15 DEF MarkPopped, LoopMayRun, OneAtATime, callerVars
  <2>2. SynchronousSent <= answered
    BY <2>1 DEF Counted
  <2>3. PICK f \in ChannelFrame : popped = <<f>>
    BY <2>1 DEF Counted
  <2>4. popped' = <<f>> /\ synchronous' = Synchronous(f)
    BY <2>1, <2>3
  <2>5. synchronous' \in BOOLEAN
    BY <2>1 DEF Synchronous
  <2>6. PoppedIsMarked'
    BY <2>4 DEF PoppedIsMarked, Synchronous
  <2> QED
    BY <1>1, <1>2, <2>1, <2>2, <2>5, <2>6 DEF Counted
<1>11. CASE TransmitPopped
  <2>1. /\ caller = "idle" /\ ~closed /\ loop = "transmit" /\ loop' = "drain"
        /\ wire' = wire \o popped
        /\ UNCHANGED <<synchronous, caller, todo, closed, answered>>
    BY <1>0, <1>11 DEF TransmitPopped, LoopMayRun, OneAtATime, callerVars
  <2>2. PICK f \in ChannelFrame : popped = <<f>> /\ synchronous = Synchronous(f)
    BY <2>1 DEF Counted, PoppedIsMarked
  <2>3. wire' = Append(wire, f)
    BY <1>0, <2>1, <2>2, AppendIsConcat
  <2>4. SynchronousSent <= answered
    BY <2>1 DEF Counted
  <2>5. /\ SynchronousAlone' /\ SynchronousSent' <= answered' + 1
        /\ ~Synchronous(f) => SynchronousSent' <= answered'
    BY <1>0, <1>1, <2>1, <2>3, <2>4, SendAlone
  <2> QED
    BY <1>1, <2>1, <2>2, <2>5 DEF Counted
<1>12. CASE EndDrain
  BY <1>0, <1>1, <1>2, <1>12 DEF Counted, EndDrain, callerVars, LoopMayRun, OneAtATime
<1>13. CASE ChannelClosed
  <2>1. /\ closed' /\ synchronous' = FALSE
        /\ UNCHANGED <<wire, answered>>
    BY <1>13 DEF ChannelClosed
  <2>2. SynchronousAlone'
    BY <1>1, <1>2, <2>1
  <2> QED
    BY <1>1, <2>1, <2>2 DEF Counted
<1>14. CASE UNCHANGED channelVars
  BY <1>0, <1>1, <1>2, <1>14
  DEF Counted, channelVars, callerVars, loopVars, PoppedIsMarked, Synchronous
<1> QED
  BY <1>3, <1>4, <1>5, <1>6, <1>7, <1>8, <1>9, <1>10, <1>11, <1>12, <1>13, <1>14,
     <1>15
  DEF ChannelNext, CallerSteps, LoopSteps

\* With one thread nothing is sent behind a synchronous frame before its answer
\* has come, although send() decides without a lock whether to wait: for any
\* setup and call and any number of messages.
THEOREM OneThreadWaits == Publisher = "loop" => (ChannelSpec => []SynchronousAlone)
<1> SUFFICES ASSUME Publisher = "loop" PROVE ChannelSpec => []SynchronousAlone
  OBVIOUS
<1>1. ChannelInit => InOrder /\ Counted
  BY InitInOrder, InitCounted
<1>2. InOrder /\ Counted /\ [ChannelNext]_channelVars => (InOrder /\ Counted)'
  BY StepInOrder, StepCounted
<1>3. Counted => SynchronousAlone
  BY DEF Counted
<1> QED
  BY <1>1, <1>2, <1>3, PTL DEF ChannelSpec

=============================================================================
