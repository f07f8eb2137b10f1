---------------------- MODULE DisplayAndStreamerProofs ----------------------
(***************************************************************************)
(* Theorems about the two programs that users see: the log displayer and   *)
(* the C++ streamer.  Both pick elements out of a sequence and rely on     *)
(* what the order of those that are left is.                               *)
(*                                                                         *)
(* The log displayer, for any collection, clocks, numbers typed and orders *)
(* of responses: what is on the screen is what was asked, and durations    *)
(* and percentiles are what they should be.  Of the durations themselves:  *)
(* what the conversions keep of the time between two stamps.               *)
(*                                                                         *)
(* The streamer, for any clients, messages and size of int: its answers    *)
(* are right and its vector of connections is exact.                       *)
(***************************************************************************)
EXTENDS LogDisplay, WebsocketServer, SequenceTheorems, FiniteSetTheorems,
        TLAPS

-----------------------------------------------------------------------------
(* Ranks and subsequences *)

\* upto[i] are the elements of K that come no later than i; of two elements
\* one comes first.
Ordering(K, upto) ==
  /\ upto \in [K -> SUBSET K]
  /\ \A i \in K : i \in upto[i]
  /\ \A i, j \in K : i # j =>
       \/ i \notin upto[j] /\ upto[j] \subseteq upto[i]
       \/ j \notin upto[i] /\ upto[i] \subseteq upto[j]

\* The sizes of these sets number the elements.
Numbering(K, upto) ==
  /\ Cardinality(K) \in Nat
  /\ \A i \in K : Cardinality(upto[i]) \in 1 .. Cardinality(K)
  /\ \A i, j \in K : Cardinality(upto[i]) = Cardinality(upto[j]) => i = j
  /\ \A n \in 1 .. Cardinality(K) : \E i \in K : Cardinality(upto[i]) = n

LEMMA RanksNumber ==
  ASSUME NEW K, IsFiniteSet(K), NEW upto, Ordering(K, upto)
  PROVE  Numbering(K, upto)
<1>0. /\ upto \in [K -> SUBSET K]
      /\ \A i \in K : i \in upto[i]
      /\ \A i, j \in K : i # j =>
           \/ i \notin upto[j] /\ upto[j] \subseteq upto[i]
           \/ j \notin upto[i] /\ upto[i] \subseteq upto[j]
  BY DEF Ordering
<1> DEFINE N == Cardinality(K)
<1>1. N \in Nat
  BY FS_CardinalityType
<1>2. ASSUME NEW i \in K
      PROVE  IsFiniteSet(upto[i]) /\ Cardinality(upto[i]) \in 1 .. N
  <2>1. upto[i] \subseteq K /\ i \in upto[i]
    BY <1>0
  <2>2. IsFiniteSet(upto[i]) /\ Cardinality(upto[i]) <= N
    BY <2>1, FS_Subset
  <2>3. Cardinality(upto[i]) \in Nat /\ upto[i] # {}
    BY <2>1, <2>2, FS_CardinalityType
  <2>4. Cardinality(upto[i]) # 0
    BY <2>2, <2>3, FS_EmptySet
  <2> QED
    BY <1>1, <2>2, <2>3, <2>4
<1>3. ASSUME NEW i \in K, NEW j \in K, i \notin upto[j], upto[j] \subseteq upto[i]
      PROVE  Cardinality(upto[j]) # Cardinality(upto[i])
  <2>1. upto[j] # upto[i]
    BY <1>0, <1>3
  <2> QED
    BY <1>2, <1>3, <2>1, FS_Subset
<1>4. ASSUME NEW i \in K, NEW j \in K,
             Cardinality(upto[i]) = Cardinality(upto[j])
      PROVE  i = j
  BY <1>0, <1>3, <1>4
<1> DEFINE rank == [i \in K |-> Cardinality(upto[i])]
<1>5. rank \in [K -> 1 .. N]
  BY <1>2
<1>6. rank \in Injection(K, 1 .. N)
  BY <1>4, <1>5 DEF Injection, IsInjective
<1>7. IsFiniteSet(1 .. N) /\ Cardinality(1 .. N) = N
  BY <1>1, FS_Interval
<1>8. rank \in Surjection(K, 1 .. N)
  BY <1>6, <1>7, FS_Injection
<1>9. \A n \in 1 .. N : \E i \in K : rank[i] = n
  BY <1>8 DEF Surjection
<1> QED
  BY <1>1, <1>2, <1>4, <1>9 DEF Numbering

\* The positions of a sequence in their order.
LEMMA NthPosition ==
  ASSUME NEW positions, IsFiniteSet(positions), positions \subseteq Nat
  PROVE  /\ Cardinality(positions) \in Nat
         /\ \A n \in 1 .. Cardinality(positions) : Nth(positions, n) \in positions
         /\ \A m, n \in 1 .. Cardinality(positions) :
              m < n => Nth(positions, m) < Nth(positions, n)
         /\ \A i \in positions :
              \E n \in 1 .. Cardinality(positions) : Nth(positions, n) = i
<1> DEFINE N == Cardinality(positions)
           upto == [i \in positions |-> {j \in positions : j <= i}]
<1>1. upto \in [positions -> SUBSET positions]
  OBVIOUS
<1>2. \A i \in positions : i \in upto[i]
  OBVIOUS
<1>3. \A i, j \in positions : i # j =>
        \/ i \notin upto[j] /\ upto[j] \subseteq upto[i]
        \/ j \notin upto[i] /\ upto[i] \subseteq upto[j]
  <2> TAKE i, j \in positions
  <2>1. i \in Nat /\ j \in Nat
    OBVIOUS
  <2>2. CASE i < j
    <3>1. \A k \in Nat : k <= i => k <= j
      BY <2>1, <2>2
    <3>2. ~(j <= i)
      BY <2>1, <2>2
    <3> QED
      BY <3>1, <3>2
  <2>3. CASE j < i
    <3>1. \A k \in Nat : k <= j => k <= i
      BY <2>1, <2>3
    <3>2. ~(i <= j)
      BY <2>1, <2>3
    <3> QED
      BY <3>1, <3>2
  <2> QED
    BY <2>1, <2>2, <2>3
<1>4. /\ N \in Nat
      /\ \A i \in positions : Cardinality(upto[i]) \in 1 .. N
      /\ \A i, j \in positions : Cardinality(upto[i]) = Cardinality(upto[j]) => i = j
      /\ \A n \in 1 .. N : \E i \in positions : Cardinality(upto[i]) = n
  <2>1. Ordering(positions, upto)
    BY <1>1, <1>2, <1>3 DEF Ordering
  <2> HIDE DEF upto
  <2>2. Numbering(positions, upto)
    BY <2>1, RanksNumber
  <2> QED
    BY <2>2 DEF Numbering
<1>5. \A i \in positions : upto[i] = {j \in positions : j <= i}
  OBVIOUS
<1> HIDE DEF upto
<1>6. ASSUME NEW n \in 1 .. N
      PROVE  Nth(positions, n) \in positions
             /\ Cardinality(upto[Nth(positions, n)]) = n
  <2>1. \E i \in positions : Cardinality({j \in positions : j <= i}) = n
    BY <1>4, <1>5
  <2>2. Nth(positions, n) \in positions
        /\ Cardinality({j \in positions : j <= Nth(positions, n)}) = n
    BY <2>1 DEF Nth
  <2> QED
    BY <1>5, <2>2
<1>7. ASSUME NEW m \in 1 .. N, NEW n \in 1 .. N, m < n
      PROVE  Nth(positions, m) < Nth(positions, n)
  <2> DEFINE a == Nth(positions, m)  b == Nth(positions, n)
  <2>1. /\ a \in positions /\ b \in positions
        /\ Cardinality(upto[a]) = m /\ Cardinality(upto[b]) = n
    BY <1>6
  <2>4. m \in Nat /\ n \in Nat
    BY <1>4
  <2>5. a \in Nat /\ b \in Nat
    BY <2>1
  <2>3. a \in Nat /\ b \in Nat /\ m \in Nat /\ n \in Nat
    BY <2>4, <2>5
  <2> HIDE DEF a, b
  <2>2. ASSUME b <= a
        PROVE  FALSE
    <3>1. upto[b] \subseteq upto[a]
      <4>1. \A k \in positions : k <= b => k <= a
        BY <2>2, <2>3
      <4> QED
        BY <1>5, <2>1, <4>1
    <3>2. IsFiniteSet(upto[a])
      BY <1>1, <2>1, FS_Subset
    <3>3. Cardinality(upto[b]) <= Cardinality(upto[a])
      BY <3>1, <3>2, FS_Subset
    <3> QED
      BY <1>7, <2>1, <2>3, <3>3
  <2> QED
    BY <2>2, <2>3 DEF a, b
<1>8. ASSUME NEW i \in positions
      PROVE  \E n \in 1 .. N : Nth(positions, n) = i
  BY <1>4, <1>6
<1> QED
  BY <1>4, <1>6, <1>7, <1>8

\* What Subsequence picks: exactly the elements at the positions, in order.
LEMMA SubsequencePicks ==
  ASSUME NEW S, NEW s \in Seq(S), NEW positions \in SUBSET (DOMAIN s)
  PROVE  /\ Subsequence(s, positions) \in Seq(S)
         /\ Len(Subsequence(s, positions)) = Cardinality(positions)
         /\ Cardinality(positions) \in Nat
         /\ \A n \in 1 .. Cardinality(positions) :
              /\ Nth(positions, n) \in positions
              /\ Subsequence(s, positions)[n] = s[Nth(positions, n)]
         /\ \A m, n \in 1 .. Cardinality(positions) :
              m < n => Nth(positions, m) < Nth(positions, n)
         /\ \A i \in positions :
              \E n \in 1 .. Cardinality(positions) : Nth(positions, n) = i
<1> DEFINE N == Cardinality(positions)
<1>1. Len(s) \in Nat /\ DOMAIN s = 1 .. Len(s)
  BY LenProperties
<1>2. IsFiniteSet(positions) /\ positions \subseteq Nat
  <2>1. IsFiniteSet(1 .. Len(s)) /\ positions \subseteq 1 .. Len(s)
    BY <1>1, FS_Interval
  <2> QED
    BY <2>1, FS_Subset
<1>3. /\ N \in Nat
      /\ \A n \in 1 .. N : Nth(positions, n) \in positions
      /\ \A m, n \in 1 .. N : m < n => Nth(positions, m) < Nth(positions, n)
      /\ \A i \in positions : \E n \in 1 .. N : Nth(positions, n) = i
  BY <1>2, NthPosition
<1>4. \A n \in 1 .. N : s[Nth(positions, n)] \in S
  BY <1>1, <1>3, ElementOfSeq
<1>5. Subsequence(s, positions) = [n \in 1 .. N |-> s[Nth(positions, n)]]
  BY DEF Subsequence
<1>6. Subsequence(s, positions) \in [1 .. N -> S]
  BY <1>4, <1>5
<1>7. Subsequence(s, positions) \in Seq(S) /\ Len(Subsequence(s, positions)) = N
  BY <1>3, <1>6, SeqDef
<1> QED
  BY <1>3, <1>5, <1>7

-----------------------------------------------------------------------------
(* The durations *)

\* Parts of an hour, a minute and a second make up a time of day, with the
\* ranges that the two-digit fields of a text have.
LEMMA TimeOfDay ==
  ASSUME NEW t \in Nat, t < Day
  PROVE  /\ t \div Hour \in 0 .. 23
         /\ (t % Hour) \div Minute \in 0 .. 59
         /\ (t % Minute) \div Second \in 0 .. 59
         /\ t % Second \in 0 .. 999
         /\ t = (t \div Hour) * Hour + ((t % Hour) \div Minute) * Minute
                + ((t % Minute) \div Second) * Second + (t % Second)
  BY SMT DEF Day, Hour, Minute, Second

\* What getCalDuration reads in a stamp is the time since midnight.
LEMMA MilliOfStamp ==
  ASSUME NEW instant \in Int
  PROVE  MilliOfDay(GetCurrentTime(instant)) = instant % Day
<1> DEFINE t == instant % Day
<1>1. t \in Nat /\ t < Day
  BY SMT DEF Day
<1> HIDE DEF t
<1>2. t = (t \div Hour) * Hour + ((t % Hour) \div Minute) * Minute
          + ((t % Minute) \div Second) * Second + (t % Second)
  BY <1>1, TimeOfDay
<1>3. GetCurrentTime(instant) =
        [hr |-> t \div Hour, min |-> (t % Hour) \div Minute,
         sec |-> (t % Minute) \div Second, milli |-> t % Second]
  BY DEF GetCurrentTime, t
<1>4. MilliOfDay(GetCurrentTime(instant)) =
        (((t \div Hour) * 60 * 60) + (((t % Hour) \div Minute) * 60)
          + (t % Minute) \div Second) * 1000 + (t % Second)
  BY <1>3, SMT DEF MilliOfDay
<1>5. MilliOfDay(GetCurrentTime(instant)) = t
  BY <1>1, <1>2, <1>4, SMT DEF Hour, Minute, Second, Day
<1> QED
  BY <1>5 DEF t

LEMMA Quotients ==
  ASSUME NEW a \in Int, NEW b \in {Hour, Minute, Second}
  PROVE  /\ Quotient(a, b) \in Int
         /\ a >= 0 => /\ Quotient(a, b) >= 0
                      /\ 0 <= a - b * Quotient(a, b)
                      /\ a - b * Quotient(a, b) < b
         /\ a < 0 => /\ Quotient(a, b) <= 0
                     /\ 0 <= -(a - b * Quotient(a, b))
                     /\ -(a - b * Quotient(a, b)) < b
<1>1. CASE b = Hour
  BY <1>1, SMT DEF Quotient, Hour
<1>2. CASE b = Minute
  BY <1>2, SMT DEF Quotient, Minute
<1>3. CASE b = Second
  BY <1>3, SMT DEF Quotient, Second
<1> QED
  BY <1>1, <1>2, <1>3

\* convertMilliToTime loses nothing, also of a negative duration: its fields,
\* read again as getCalDuration reads a stamp, are the duration, and none but
\* the hours is longer than its two or three digits.
THEOREM DurationRecomposes ==
  ASSUME NEW duration \in Int
  PROVE  LET t == ConvertMilliToTime(duration)
         IN  /\ t \in Field
             /\ MilliOfDay(t) = duration
             /\ t.min \in -59 .. 59
             /\ t.sec \in -59 .. 59
             /\ t.milli \in -999 .. 999
             /\ duration >= 0 =>
                  t.hr >= 0 /\ t.min >= 0 /\ t.sec >= 0 /\ t.milli >= 0
<1> DEFINE hr == Quotient(duration, Hour)
           afterHr == duration - Hour * hr
           min == Quotient(afterHr, Minute)
           afterMin == afterHr - Minute * min
           sec == Quotient(afterMin, Second)
           milli == afterMin - Second * sec
<1>1. /\ hr \in Int
      /\ duration >= 0 => hr >= 0 /\ 0 <= afterHr /\ afterHr < Hour
      /\ duration < 0 => 0 <= -afterHr /\ -afterHr < Hour
  BY Quotients
<1>2. afterHr \in Int
  BY <1>1, SMT DEF Hour
<1>3. ConvertMilliToTime(duration) =
        [hr |-> hr, min |-> min, sec |-> sec, milli |-> milli]
  BY DEF ConvertMilliToTime
<1> HIDE DEF hr
<1>4. /\ min \in Int
      /\ afterHr >= 0 => min >= 0 /\ 0 <= afterMin /\ afterMin < Minute
      /\ afterHr < 0 => min <= 0 /\ 0 <= -afterMin /\ -afterMin < Minute
  BY <1>2, Quotients
<1>5. afterHr = duration - Hour * hr /\ afterMin = afterHr - Minute * min
  OBVIOUS
<1>6. afterMin \in Int
  BY <1>2, <1>4, <1>5, SMT DEF Minute
<1> HIDE DEF min, afterHr
<1>7. /\ sec \in Int
      /\ afterMin >= 0 => sec >= 0 /\ 0 <= milli /\ milli < Second
      /\ afterMin < 0 => sec <= 0 /\ 0 <= -milli /\ -milli < Second
  BY <1>6, Quotients
<1>8. milli = afterMin - Second * sec
  OBVIOUS
<1> HIDE DEF sec, afterMin, milli
<1>9. milli \in Int
  BY <1>6, <1>7, <1>8, SMT DEF Second
<1>10. /\ min \in -59 .. 59 /\ sec \in -59 .. 59 /\ milli \in -999 .. 999
       /\ duration >= 0 => hr >= 0 /\ min >= 0 /\ sec >= 0 /\ milli >= 0
  BY <1>1, <1>2, <1>4, <1>5, <1>6, <1>7, <1>8, <1>9, SMT
     DEF Hour, Minute, Second
<1>11. ((hr * 60 * 60) + (min * 60) + sec) * 1000 + milli = duration
  BY <1>1, <1>2, <1>4, <1>5, <1>6, <1>7, <1>8, <1>9, SMT
     DEF Hour, Minute, Second
<1> QED
  BY <1>1, <1>3, <1>4, <1>7, <1>9, <1>10, <1>11, SMT DEF Field, MilliOfDay

\* The duration that receive.cpp stores is the time that passed, whenever no
\* midnight lies between the stamps, and a day less for each midnight.
THEOREM DurationElapsed ==
  ASSUME NEW requested \in Int, NEW responded \in Int
  PROVE  MilliOfDay(GetCalDuration(GetCurrentTime(requested),
                                   GetCurrentTime(responded)))
           = (responded - requested)
             - Day * ((responded \div Day) - (requested \div Day))
<1>1. /\ MilliOfDay(GetCurrentTime(requested)) = requested % Day
      /\ MilliOfDay(GetCurrentTime(responded)) = responded % Day
  BY MilliOfStamp
<1>2. (responded % Day) - (requested % Day) \in Int
  BY SMT DEF Day
<1>3. MilliOfDay(GetCalDuration(GetCurrentTime(requested),
                                GetCurrentTime(responded)))
        = (responded % Day) - (requested % Day)
  BY <1>1, <1>2, DurationRecomposes DEF GetCalDuration
<1>4. /\ responded % Day = responded - Day * (responded \div Day)
      /\ requested % Day = requested - Day * (requested \div Day)
  BY SMT DEF Day
<1> QED
  BY <1>3, <1>4, SMT DEF Day

\* What the log displayer reads in a duration of less than a minute of one day
\* is the time that passed.
THEOREM ShortDurationShown ==
  ASSUME NEW requested \in Int, NEW responded \in Int,
         requested <= responded, responded - requested < Minute,
         requested \div Day = responded \div Day
  PROVE  CalToMS(GetCalDuration(GetCurrentTime(requested),
                                GetCurrentTime(responded)))
           = responded - requested
<1> DEFINE d == (responded % Day) - (requested % Day)
           t == ConvertMilliToTime(d)
<1>1. /\ responded % Day = responded - Day * (responded \div Day)
      /\ requested % Day = requested - Day * (requested \div Day)
  BY SMT DEF Day
<1>2. d = responded - requested /\ d \in Nat /\ d < Minute
  BY <1>1, SMT DEF Day, Minute
<1>3. GetCalDuration(GetCurrentTime(requested), GetCurrentTime(responded)) = t
  BY MilliOfStamp DEF GetCalDuration
<1> HIDE DEF d
<1>4. /\ t \in Field
      /\ MilliOfDay(t) = d
      /\ t.min \in -59 .. 59 /\ t.sec \in -59 .. 59 /\ t.milli \in -999 .. 999
      /\ t.hr >= 0 /\ t.min >= 0 /\ t.sec >= 0 /\ t.milli >= 0
  BY <1>2, DurationRecomposes, SMT DEF Minute
<1> HIDE DEF t
<1>5. t.hr \in Nat /\ t.min \in Nat /\ t.sec \in Nat /\ t.milli \in Nat
  BY <1>4 DEF Field
<1>6. ((t.hr * 60 * 60) + (t.min * 60) + t.sec) * 1000 + t.milli = d
  BY <1>4, SMT DEF MilliOfDay
<1>7. t.hr = 0 /\ t.min = 0
  <2> DEFINE h == t.hr  m == t.min  s == t.sec  k == t.milli
  <2>1. h \in Nat /\ m \in Nat /\ s \in Nat /\ k \in Nat
    BY <1>5
  <2>2. ((h * 60 * 60) + (m * 60) + s) * 1000 + k = d
    BY <1>6
  <2> HIDE DEF h, m, s, k
  <2>3. h = 0 /\ m = 0
    BY <1>2, <2>1, <2>2, SMT DEF Minute
  <2> QED
    BY <2>3 DEF h, m
<1>8. t.sec * 1000 + t.milli = d
  BY <1>5, <1>6, <1>7, SMT
<1>9. CalToMS(t) = d
  BY <1>4, <1>5, <1>7, <1>8, SMT DEF CalToMS, Second
<1> QED
  BY <1>2, <1>3, <1>9

-----------------------------------------------------------------------------
(* The answers of the streamer *)

MessagesTyped ==
  /\ incoming \in [Clients -> Seq(Messages)]
  /\ handled \in [Clients -> Seq(Messages)]
  /\ replies \in [Clients -> Seq(Reply)]

\* The inductive invariant; what is in the vector does not matter to answers.
AInv == MessagesTyped /\ AnswersAreRight

LEMMA Parts ==
  ASSUME NEW m \in Messages
  PROVE  /\ FirstPart(m) \in Int \cup {NotANumber}
         /\ SecondPart(m) \in Int \cup {NotANumber}
  BY MessageAssumption DEF FirstPart, SecondPart

\* What onMessage answers if no exception leaves it.
LEMMA AnswerIsRight ==
  ASSUME NEW m \in Messages, ~Throws(m), NEW r \in Answers(m)
  PROVE  /\ r \in Reply
         /\ r.says = "number 1 invalid" <=> FirstPart(m) = NotANumber
         /\ r.says = "number 2 invalid" =>
              FirstPart(m) \in Integer /\ SecondPart(m) = NotANumber
         /\ r.says = "sum" /\ FirstPart(m) + SecondPart(m) \in Integer
              => r.value = FirstPart(m) + SecondPart(m)
<1> DEFINE a == FirstPart(m)  b == SecondPart(m)
<1>1. a \in Int \cup {NotANumber} /\ b \in Int \cup {NotANumber}
  BY Parts
<1>2. NotANumber \notin Int /\ MaxInt \in Nat /\ 0 \in Integer
  BY MessageAssumption DEF Integer
<1>3. /\ a # NotANumber => a \in Integer
      /\ a # NotANumber /\ b # NotANumber => b \in Integer
  BY DEF Throws, OutOfRange
<1>4. CASE a = NotANumber
  <2>1. r = [says |-> "number 1 invalid", value |-> 0]
    BY <1>4 DEF Answers, Error
  <2>2. r \in Reply /\ r.says = "number 1 invalid"
    BY <1>2, <2>1 DEF Reply
  <2> QED
    BY <1>2, <1>4, <2>2
<1>5. CASE a # NotANumber /\ b = NotANumber
  <2>1. r = [says |-> "number 2 invalid", value |-> 0]
    BY <1>5 DEF Answers, Error
  <2>2. r \in Reply /\ r.says = "number 2 invalid"
    BY <1>2, <2>1 DEF Reply
  <2> QED
    BY <1>2, <1>3, <1>5, <2>2
<1>6. CASE a # NotANumber /\ b # NotANumber
  <2>1. r \in [says : {"sum"}, value : Sums(a, b)]
    BY <1>6 DEF Answers
  <2>2. Sums(a, b) \subseteq Integer /\ (a + b \in Integer => Sums(a, b) = {a + b})
    BY DEF Sums
  <2> HIDE DEF a, b
  <2>3. /\ r \in Reply
        /\ r.says = "sum"
        /\ a + b \in Integer => r.value = a + b
    BY <2>1, <2>2 DEF Reply
  <2> QED
    BY <1>6, <2>3 DEF a, b
<1> QED
  BY <1>4, <1>5, <1>6

LEMMA InitAnswers == ServerInit => AInv
BY DEF ServerInit, AInv, MessagesTyped, AnswersAreRight

LEMMA NextAnswers == AInv /\ [ServerNext]_serverVars => AInv'
<1> SUFFICES ASSUME AInv, [ServerNext]_serverVars
             PROVE  AInv'
  OBVIOUS
<1> USE DEF messageVars
<1>1. ASSUME UNCHANGED <<incoming, handled, replies>>
      PROVE  AInv'
  BY <1>1 DEF AInv, MessagesTyped, AnswersAreRight
<1>2. ASSUME NEW c \in Clients, Ask(c)
      PROVE  AInv'
  <2>1. PICK m \in Messages : incoming' = [incoming EXCEPT ![c] = Append(@, m)]
    BY <1>2 DEF Ask
  <2>2. Append(incoming[c], m) \in Seq(Messages)
    BY DEF AInv, MessagesTyped
  <2>3. incoming' \in [Clients -> Seq(Messages)] /\ UNCHANGED <<handled, replies>>
    BY <1>2, <2>1, <2>2 DEF AInv, MessagesTyped, Ask
  <2> QED
    BY <2>3 DEF AInv, MessagesTyped, AnswersAreRight
<1>3. ASSUME NEW c \in Clients, OnMessage(c)
      PROVE  AInv'
  <2> DEFINE m == Head(incoming[c])
  <2>1. incoming[c] \in Seq(Messages) /\ incoming[c] # <<>>
    BY <1>3 DEF OnMessage, AInv, MessagesTyped
  <2>2. m \in Messages /\ Tail(incoming[c]) \in Seq(Messages)
    BY <2>1
  <2>3. incoming' \in [Clients -> Seq(Messages)]
    BY <1>3, <2>2 DEF OnMessage, AInv, MessagesTyped
  <2> HIDE DEF m
  <2>4. CASE Throws(m)
    <3>1. UNCHANGED <<handled, replies>>
      BY <1>3, <2>4 DEF OnMessage, m
    <3> QED
      BY <2>3, <3>1 DEF AInv, MessagesTyped, AnswersAreRight
  <2>5. CASE ~Throws(m)
    <3>1. PICK r \in Answers(m) :
            /\ replies' = [replies EXCEPT ![c] = Append(@, r)]
            /\ handled' = [handled EXCEPT ![c] = Append(@, m)]
      BY <1>3, <2>5 DEF OnMessage, Replied, m
    <3> DEFINE h == handled[c]  p == replies[c]
    <3>2. /\ r \in Reply
          /\ r.says = "number 1 invalid" <=> FirstPart(m) = NotANumber
          /\ r.says = "number 2 invalid" =>
               FirstPart(m) \in Integer /\ SecondPart(m) = NotANumber
          /\ r.says = "sum" /\ FirstPart(m) + SecondPart(m) \in Integer
               => r.value = FirstPart(m) + SecondPart(m)
      BY <2>2, <2>5, AnswerIsRight
    <3>3. h \in Seq(Messages) /\ p \in Seq(Reply) /\ Len(p) = Len(h)
      BY DEF AInv, MessagesTyped, AnswersAreRight
    <3>4. handled'[c] = Append(h, m) /\ replies'[c] = Append(p, r)
      BY <3>1 DEF AInv, MessagesTyped
    <3> HIDE DEF h, p
    <3>5. /\ Append(h, m) \in Seq(Messages) /\ Append(p, r) \in Seq(Reply)
          /\ DOMAIN h = 1 .. Len(h)
          /\ DOMAIN Append(h, m) = 1 .. Len(h) + 1
          /\ Len(Append(h, m)) = Len(Append(p, r))
          /\ Append(h, m)[Len(h) + 1] = m
          /\ Append(p, r)[Len(h) + 1] = r
          /\ \A k \in 1 .. Len(h) :
               Append(h, m)[k] = h[k] /\ Append(p, r)[k] = p[k]
      <4>1. /\ Append(h, m) \in Seq(Messages)
            /\ Len(Append(h, m)) = Len(h) + 1
            /\ \A k \in 1 .. Len(h) : Append(h, m)[k] = h[k]
            /\ Append(h, m)[Len(h) + 1] = m
        BY <2>2, <3>3
      <4>0. r \in Reply /\ p \in Seq(Reply)
        BY <3>2, <3>3
      <4>2. /\ Append(p, r) \in Seq(Reply)
            /\ Len(Append(p, r)) = Len(p) + 1
            /\ \A k \in 1 .. Len(p) : Append(p, r)[k] = p[k]
            /\ Append(p, r)[Len(p) + 1] = r
        BY <4>0
      <4> QED
        BY <3>3, <4>1, <4>2
    <3>6. MessagesTyped'
      BY <2>3, <3>1, <3>5 DEF AInv, MessagesTyped, h, p
    <3>7. ASSUME NEW d \in Clients
          PROVE  /\ Len(replies'[d]) = Len(handled'[d])
                 /\ \A k \in DOMAIN handled'[d] :
                      LET q == handled'[d][k]  a == replies'[d][k]
                      IN  /\ a.says = "number 1 invalid" <=>
                               FirstPart(q) = NotANumber
                          /\ a.says = "number 2 invalid" =>
                               FirstPart(q) \in Integer
                                 /\ SecondPart(q) = NotANumber
                          /\ a.says = "sum"
                               /\ FirstPart(q) + SecondPart(q) \in Integer =>
                               a.value = FirstPart(q) + SecondPart(q)
      <4>1. CASE d = c
        <5>1. Len(replies'[d]) = Len(handled'[d])
          BY <3>4, <3>5, <4>1
        <5>2. ASSUME NEW k \in DOMAIN handled'[d]
              PROVE  \/ /\ k \in DOMAIN handled[c]
                        /\ handled'[d][k] = handled[c][k]
                        /\ replies'[d][k] = replies[c][k]
                     \/ handled'[d][k] = m /\ replies'[d][k] = r
          <6>1. k \in 1 .. Len(h) \/ k = Len(h) + 1
            BY <3>3, <3>4, <3>5, <4>1
          <6> QED
            BY <3>4, <3>5, <4>1, <6>1 DEF h, p
        <5> QED
          BY <3>2, <5>1, <5>2 DEF AInv, AnswersAreRight
      <4>2. CASE d # c
        <5>1. handled'[d] = handled[d] /\ replies'[d] = replies[d]
          BY <3>1, <4>2 DEF AInv, MessagesTyped
        <5> QED
          BY <5>1 DEF AInv, AnswersAreRight
      <4> QED
        BY <4>1, <4>2
    <3> QED
      BY <3>6, <3>7 DEF AInv, AnswersAreRight
  <2> QED
    BY <2>4, <2>5
<1>4. ASSUME NEW c \in Clients, Closing(c) \/ OnOpen(c) \/ OnClose(c)
      PROVE  AInv'
  BY <1>1, <1>4 DEF Closing, OnOpen, OnClose
<1>5. CASE UNCHANGED serverVars
  BY <1>1, <1>5 DEF serverVars
<1> QED
  BY <1>2, <1>3, <1>4, <1>5 DEF ServerNext

\* For any size of int and any messages: what onMessage has answered is the
\* exact sum whenever an int can hold it, and an error names the first number
\* that is none.
THEOREM AnswersCorrect == ServerSpec => []AnswersAreRight
<1>1. AInv => AnswersAreRight
  BY DEF AInv
<1> QED
  BY InitAnswers, NextAnswers, <1>1, PTL DEF ServerSpec

-----------------------------------------------------------------------------
(* The vector of connections *)

\* The inductive invariant.
VInv ==
  /\ openConnections \in Seq(Clients)
  /\ state \in [Clients -> {"new", "open", "closing", "closed"}]
  /\ ConnectionsListed

LEMMA InitVector == ServerInit => VInv
<1> SUFFICES ASSUME ServerInit PROVE VInv
  OBVIOUS
<1>1. openConnections = <<>> /\ DOMAIN openConnections = {}
  BY EmptySeq DEF ServerInit
<1> QED
  BY <1>1, EmptySeq DEF ServerInit, VInv, ConnectionsListed

\* onOpen: the new connection is the last.
LEMMA OpenVector ==
  ASSUME VInv, NEW c \in Clients, OnOpen(c)
  PROVE  VInv'
<1> DEFINE v == openConnections  n == Len(openConnections)
<1>1. /\ v \in Seq(Clients) /\ n \in Nat /\ DOMAIN v = 1 .. n
      /\ state \in [Clients -> {"new", "open", "closing", "closed"}]
  BY LenProperties DEF VInv
<1>2. /\ state[c] = "new"
      /\ state' = [state EXCEPT ![c] = "open"]
      /\ openConnections' = Append(v, c)
  BY DEF OnOpen
<1>3. /\ openConnections' \in Seq(Clients)
      /\ DOMAIN openConnections' = 1 .. n + 1
      /\ \A i \in 1 .. n : openConnections'[i] = v[i]
      /\ openConnections'[n + 1] = c
  BY <1>1, <1>2, AppendProperties, LenProperties
<1>4. /\ \A d \in Clients : state[d] \in {"open", "closing"} <=>
           \E i \in 1 .. n : v[i] = d
      /\ \A i, j \in 1 .. n : v[i] = v[j] => i = j
  BY <1>1 DEF VInv, ConnectionsListed
<1>5. \A i \in 1 .. n : v[i] # c
  BY <1>2, <1>4
<1> HIDE DEF v, n
<1>6. \A i \in 1 .. n + 1 : i \in 1 .. n \/ i = n + 1
  BY <1>1
<1>7. n + 1 \in 1 .. n + 1 /\ \A i \in 1 .. n : i \in 1 .. n + 1 /\ i < n + 1
  BY <1>1
<1>8. ASSUME NEW d \in Clients
      PROVE  state'[d] \in {"open", "closing"} <=>
               \E i \in 1 .. n + 1 : openConnections'[i] = d
  <2>1. CASE d = c
    BY <1>1, <1>2, <1>3, <1>7, <2>1
  <2>2. CASE d # c
    <3>1. state'[d] = state[d]
      BY <1>1, <1>2, <2>2
    <3> QED
      BY <1>3, <1>4, <1>6, <1>7, <2>2, <3>1
  <2> QED
    BY <2>1, <2>2
<1>9. \A i, j \in 1 .. n + 1 : openConnections'[i] = openConnections'[j] => i = j
  BY <1>3, <1>4, <1>5, <1>6
<1>10. state' \in [Clients -> {"new", "open", "closing", "closed"}]
  BY <1>1, <1>2
<1> QED
  BY <1>3, <1>8, <1>9, <1>10 DEF VInv, ConnectionsListed

\* onClose: remove_if keeps the others.
LEMMA CloseVector ==
  ASSUME VInv, NEW c \in Clients, OnClose(c)
  PROVE  VInv'
<1>1. /\ openConnections \in Seq(Clients) /\ DOMAIN openConnections \subseteq Nat
      /\ state \in [Clients -> {"new", "open", "closing", "closed"}]
  BY LenProperties DEF VInv
<1>2. /\ state[c] = "closing"
      /\ state' = [state EXCEPT ![c] = "closed"]
      /\ openConnections' = Remaining(c)
  BY DEF OnClose
<1>3. PICK v \in Seq(Clients) : v = openConnections
  BY <1>1
<1>4. PICK kept \in SUBSET (DOMAIN v) :
        kept = {i \in DOMAIN v : state[v[i]] # "closed" /\ v[i] # c}
  OBVIOUS
<1>5. openConnections' = Subsequence(v, kept)
  BY <1>2, <1>3, <1>4 DEF Remaining
<1>6. /\ \A d \in Clients : state[d] \in {"open", "closing"} <=>
           \E i \in DOMAIN v : v[i] = d
      /\ \A i, j \in DOMAIN v : v[i] = v[j] => i = j
  BY <1>3 DEF VInv, ConnectionsListed
<1>7. \A i \in DOMAIN v : v[i] \in Clients
  BY LenProperties, ElementOfSeq
<1>8. \A i \in DOMAIN v : i \in kept <=> v[i] # c
  BY <1>4, <1>6, <1>7
<1>9. PICK n \in Nat : n = Cardinality(kept)
  BY SubsequencePicks
<1>10. PICK at : at = [k \in 1 .. n |-> Nth(kept, k)]
  OBVIOUS
<1>11. /\ openConnections' \in Seq(Clients)
       /\ DOMAIN openConnections' = 1 .. n
       /\ \A k \in 1 .. n : at[k] \in kept /\ openConnections'[k] = v[at[k]]
       /\ \A k, m \in 1 .. n : k < m => at[k] < at[m]
       /\ \A i \in kept : \E k \in 1 .. n : at[k] = i
  <2>1. /\ Subsequence(v, kept) \in Seq(Clients)
        /\ Len(Subsequence(v, kept)) = n
        /\ \A k \in 1 .. n : /\ Nth(kept, k) \in kept
                             /\ Subsequence(v, kept)[k] = v[Nth(kept, k)]
        /\ \A k, m \in 1 .. n : k < m => Nth(kept, k) < Nth(kept, m)
        /\ \A i \in kept : \E k \in 1 .. n : Nth(kept, k) = i
    BY <1>9, SubsequencePicks
  <2>2. DOMAIN openConnections' = 1 .. n
    BY <1>5, <2>1, LenProperties
  <2> QED
    BY <1>5, <1>10, <2>1, <2>2
<1>12. ASSUME NEW d \in Clients
       PROVE  state'[d] \in {"open", "closing"} <=>
                \E k \in 1 .. n : openConnections'[k] = d
  <2>1. CASE d = c
    <3>1. state'[d] = "closed"
      BY <1>1, <1>2, <2>1
    <3> QED
      BY <1>8, <1>11, <2>1, <3>1
  <2>2. CASE d # c
    <3>1. state'[d] = state[d]
      BY <1>1, <1>2, <2>2
    <3>2. (\E i \in DOMAIN v : v[i] = d) <=> \E i \in kept : v[i] = d
      BY <1>8, <2>2
    <3>3. (\E i \in kept : v[i] = d) <=> \E k \in 1 .. n : openConnections'[k] = d
      BY <1>11
    <3> QED
      BY <1>6, <3>1, <3>2, <3>3
  <2> QED
    BY <2>1, <2>2
<1>13. ASSUME NEW k \in 1 .. n, NEW m \in 1 .. n,
              openConnections'[k] = openConnections'[m]
       PROVE  k = m
  <2>1. at[k] = at[m]
    BY <1>6, <1>11, <1>13
  <2>2. ~(k < m) /\ ~(m < k)
    <3>1. at[k] \in Nat /\ at[m] \in Nat
      BY <1>1, <1>3, <1>11
    <3> QED
      BY <1>11, <2>1, <3>1
  <2> QED
    BY <2>2
<1>14. state' \in [Clients -> {"new", "open", "closing", "closed"}]
  BY <1>1, <1>2
<1> QED
  BY <1>11, <1>12, <1>13, <1>14 DEF VInv, ConnectionsListed

LEMMA NextVector == VInv /\ [ServerNext]_serverVars => VInv'
<1> SUFFICES ASSUME VInv, [ServerNext]_serverVars
             PROVE  VInv'
  OBVIOUS
<1>1. ASSUME UNCHANGED <<state, openConnections>>
      PROVE  VInv'
  BY <1>1 DEF VInv, ConnectionsListed
<1>2. ASSUME NEW c \in Clients, Ask(c) \/ OnMessage(c)
      PROVE  UNCHANGED <<state, openConnections>>
  BY <1>2 DEF Ask, OnMessage
<1>3. ASSUME NEW c \in Clients, Closing(c)
      PROVE  VInv'
  <2>1. /\ state[c] = "open" /\ state' = [state EXCEPT ![c] = "closing"]
        /\ openConnections' = openConnections
    BY <1>3 DEF Closing
  <2>2. /\ state \in [Clients -> {"new", "open", "closing", "closed"}]
        /\ state' \in [Clients -> {"new", "open", "closing", "closed"}]
    BY <2>1 DEF VInv
  <2>3. \A d \in Clients :
          state'[d] \in {"open", "closing"} <=> state[d] \in {"open", "closing"}
    BY <2>1, <2>2
  <2> QED
    BY <2>1, <2>2, <2>3 DEF VInv, ConnectionsListed
<1>4. CASE UNCHANGED serverVars
  BY <1>1, <1>4 DEF serverVars
<1> QED
  BY <1>1, <1>2, <1>3, <1>4, OpenVector, CloseVector DEF ServerNext

\* For any number of clients that come and go: the vector lists each from
\* onOpen to onClose, once.
THEOREM VectorExact == ServerSpec => []ConnectionsListed
<1>1. VInv => ConnectionsListed
  BY DEF VInv
<1> QED
  BY InitVector, NextVector, <1>1, PTL DEF ServerSpec

-----------------------------------------------------------------------------
(* The durations drawn and their percentiles *)

\* The documents of a page that are answered, each with its stamps.
LEMMA AnsweredAreStamped ==
  ASSUME NEW page \in Seq(Document)
  PROVE  /\ Len(Answered(page)) \in Nat
         /\ DOMAIN Answered(page) = 1 .. Len(Answered(page))
         /\ \A k \in 1 .. Len(Answered(page)) :
              /\ Answered(page)[k] \in Document
              /\ Answered(page)[k].requested \in Int
              /\ Answered(page)[k].responded \in Int
<1>1. PICK kept \in SUBSET (DOMAIN page) :
        kept = {i \in DOMAIN page : page[i].responded # Unanswered}
  OBVIOUS
<1>2. PICK a : a = Answered(page)
  OBVIOUS
<1>3. a = Subsequence(page, kept)
  BY <1>1, <1>2 DEF Answered
<1>4. /\ a \in Seq(Document) /\ Len(a) = Cardinality(kept)
      /\ \A k \in 1 .. Len(a) : Nth(kept, k) \in kept /\ a[k] = page[Nth(kept, k)]
  BY <1>3, SubsequencePicks
<1>5. Len(a) \in Nat /\ DOMAIN a = 1 .. Len(a)
  BY <1>4, LenProperties
<1>6. ASSUME NEW k \in 1 .. Len(a)
      PROVE  /\ a[k] \in Document
             /\ a[k].requested \in Int /\ a[k].responded \in Int
  <2>1. a[k] \in Document /\ a[k].responded # Unanswered
    BY <1>1, <1>4, <1>5, ElementOfSeq
  <2>2. a[k].requested \in Instants /\ a[k].responded \in Instants
    BY <2>1 DEF Document
  <2>3. Instants \subseteq Int
    BY InstantAssumption
  <2> QED
    BY <2>1, <2>2, <2>3
<1> QED
  BY <1>2, <1>5, <1>6

\* What the displayer computes from two stamps is a number.
LEMMA CalToMSType ==
  ASSUME NEW requested \in Int, NEW responded \in Int
  PROVE  CalToMS(GetCalDuration(GetCurrentTime(requested),
                                GetCurrentTime(responded))) \in Int
<1>1. PICK a \in Int : a = MilliOfDay(GetCurrentTime(requested))
  BY MilliOfStamp DEF Day
<1>2. PICK b \in Int : b = MilliOfDay(GetCurrentTime(responded))
  BY MilliOfStamp DEF Day
<1>3. PICK t : t = ConvertMilliToTime(b - a)
  OBVIOUS
<1>4. t \in Field
  BY <1>3, DurationRecomposes
<1>5. GetCalDuration(GetCurrentTime(requested), GetCurrentTime(responded)) = t
  BY <1>1, <1>2, <1>3 DEF GetCalDuration
<1> QED
  BY <1>4, <1>5 DEF Field, CalToMS, Second

LEMMA DurationsType ==
  ASSUME NEW page \in Seq(Document)
  PROVE  /\ CalDurations(page) \in Seq(Int)
         /\ DOMAIN CalDurations(page) = DOMAIN Answered(page)
<1>1. /\ Len(Answered(page)) \in Nat
      /\ DOMAIN Answered(page) = 1 .. Len(Answered(page))
      /\ \A k \in 1 .. Len(Answered(page)) :
           /\ Answered(page)[k].requested \in Int
           /\ Answered(page)[k].responded \in Int
  BY AnsweredAreStamped
<1>2. \A k \in DOMAIN Answered(page) : CalToMS(CalDuration(Answered(page)[k])) \in Int
  BY <1>1, CalToMSType DEF CalDuration
<1>3. CalDurations(page) \in [1 .. Len(Answered(page)) -> Int]
  BY <1>1, <1>2 DEF CalDurations
<1> QED
  BY <1>1, <1>3, SeqDef DEF CalDurations

\* A duration drawn is the time between the two stamps, if it is less than a
\* minute of one day.
LEMMA DrawnIsElapsed ==
  ASSUME NEW page \in Seq(Document), NEW k \in DOMAIN CalDurations(page),
         InOneDay(Answered(page)[k]),
         Answered(page)[k].responded - Answered(page)[k].requested < Minute
  PROVE  CalDurations(page)[k]
           = Answered(page)[k].responded - Answered(page)[k].requested
<1>1. PICK log : log = Answered(page)[k]
  OBVIOUS
<1>2. k \in DOMAIN Answered(page)
  BY DurationsType
<1>3. log.requested \in Int /\ log.responded \in Int
  BY <1>1, <1>2, AnsweredAreStamped
<1>4. CalDurations(page)[k] = CalToMS(CalDuration(log))
  BY <1>1, <1>2 DEF CalDurations
<1>5. CalToMS(CalDuration(log)) = log.responded - log.requested
  BY <1>1, <1>3, ShortDurationShown DEF InOneDay, CalDuration
<1> QED
  BY <1>1, <1>4, <1>5

\* Durations of which at most one text has a minus sign.
OneMinus(d) ==
  \A i, j \in 1 .. Len(d) : d[i] < 0 /\ d[j] < 0 => d[i] = d[j]

\* Their texts have the order of their numbers.
LEMMA TextsAsNumbers ==
  ASSUME NEW v \in Int, NEW w \in Int, v < 0 /\ w < 0 => v = w
  PROVE  TextLess(v, w) <=> v < w
<1>1. CASE v < 0 /\ w < 0
  <2>1. v = w /\ ~(v < w)
    BY <1>1
  <2>2. Place(v) \in Int
    <3>1. PICK s \in Int : s = (-v) \div Second
      BY DEF Second
    <3> QED
      BY <3>1 DEF Place
  <2>3. ~(Place(v) < Place(w))
    BY <2>1, <2>2
  <2> QED
    BY <1>1, <2>1, <2>3 DEF TextLess
<1>2. CASE ~(v < 0 /\ w < 0)
  BY <1>2 DEF TextLess
<1> QED
  BY <1>1, <1>2

\* Of n such durations sorted, the one at position r, from 0, has the rank r.
LEMMA SortedHasRank ==
  ASSUME NEW d \in Seq(Int), OneMinus(d), NEW r \in 0 .. Len(d) - 1
  PROVE  LET x == Sorted(d)[r + 1]
         IN  /\ Cardinality({i \in 1 .. Len(d) : d[i] < x}) <= r
             /\ r < Cardinality({i \in 1 .. Len(d) : d[i] <= x})
<1> DEFINE n == Len(d)
           upto == [i \in 1 .. n |-> {j \in 1 .. n : \/ d[j] < d[i]
                                                     \/ d[j] = d[i] /\ j <= i}]
<1>0. n \in Nat /\ \A i \in 1 .. n : d[i] \in Int
  BY LenProperties, ElementOfSeq
<1>1. /\ n \in Nat /\ IsFiniteSet(1 .. n) /\ Cardinality(1 .. n) = n
      /\ \A i \in 1 .. n : d[i] \in Int
  <2>1. \A m \in Nat : IsFiniteSet(1 .. m) /\ Cardinality(1 .. m) = m
    BY FS_Interval
  <2> QED
    BY <1>0, <2>1
<1>2. Ordering(1 .. n, upto)
  <2>1. upto \in [1 .. n -> SUBSET (1 .. n)]
    OBVIOUS
  <2>2. \A i \in 1 .. n : i \in upto[i]
    BY <1>1
  <2>3. ASSUME NEW i \in 1 .. n, NEW j \in 1 .. n,
               d[j] < d[i] \/ (d[j] = d[i] /\ j < i)
        PROVE  i \notin upto[j] /\ upto[j] \subseteq upto[i]
    <3>1. d[i] \in Int /\ d[j] \in Int /\ i \in Int /\ j \in Int
      BY <1>1
    <3>2. i \notin upto[j]
      BY <2>3, <3>1
    <3>3. ASSUME NEW k \in 1 .. n, d[k] < d[j] \/ (d[k] = d[j] /\ k <= j)
          PROVE  d[k] < d[i] \/ (d[k] = d[i] /\ k <= i)
      <4>1. d[k] \in Int /\ k \in Int
        BY <1>1
      <4> QED
        BY <2>3, <3>1, <3>3, <4>1
    <3> QED
      BY <3>2, <3>3
  <2>4. \A i, j \in 1 .. n : i # j =>
          \/ d[j] < d[i] \/ (d[j] = d[i] /\ j < i)
          \/ d[i] < d[j] \/ (d[i] = d[j] /\ i < j)
    <3> TAKE i, j \in 1 .. n
    <3>1. d[i] \in Int /\ d[j] \in Int /\ i \in Int /\ j \in Int
      BY <1>1
    <3> QED
      BY <3>1
  <2> HIDE DEF upto
  <2> QED
    BY <2>1, <2>2, <2>3, <2>4 DEF Ordering
<1>3. \A k \in 1 .. n : \E i \in 1 .. n : Cardinality(upto[i]) = k
  <2> HIDE DEF upto
  <2>1. Numbering(1 .. n, upto)
    BY <1>1, <1>2, RanksNumber
  <2> QED
    BY <1>1, <2>1 DEF Numbering
<1>4. PICK at \in 1 .. n : /\ Sorted(d)[r + 1] = d[at]
                           /\ Cardinality(upto[at]) = r + 1
  <2>1. r + 1 \in 1 .. n
    BY <1>1
  <2> DEFINE texts(i) == {j \in 1 .. n : \/ TextLess(d[j], d[i])
                                         \/ d[j] = d[i] /\ j <= i}
  <2>2. PICK at : at = CHOOSE i \in 1 .. n : Cardinality(texts(i)) = r + 1
    OBVIOUS
  <2>3. at \in 1 .. n /\ Cardinality(upto[at]) = r + 1
    <3>1. ASSUME NEW i \in 1 .. n
          PROVE  texts(i) = upto[i]
      <4>1. \A j \in 1 .. n : TextLess(d[j], d[i]) <=> d[j] < d[i]
        BY <1>1, TextsAsNumbers DEF OneMinus
      <4> QED
        BY <4>1
    <3> HIDE DEF texts, upto
    <3> QED
      BY <1>3, <2>1, <2>2, <3>1
  <2>4. Sorted(d)[r + 1] = d[at]
    BY <2>1, <2>2 DEF Sorted
  <2> QED
    BY <2>3, <2>4
<1>5. upto[at] = {j \in 1 .. n : d[j] < d[at] \/ (d[j] = d[at] /\ j <= at)}
  OBVIOUS
<1> HIDE DEF upto
<1>6. PICK x \in Int : x = d[at]
  BY <1>1
<1>7. Cardinality({i \in 1 .. n : d[i] < x}) <= r
  <2> DEFINE below == {i \in 1 .. n : d[i] < x}
  <2>1. at \notin below /\ below \cup {at} \subseteq upto[at]
    BY <1>1, <1>5, <1>6
  <2>2. IsFiniteSet(upto[at]) /\ IsFiniteSet(below)
    <3>1. upto[at] \subseteq 1 .. n /\ below \subseteq 1 .. n
      BY <1>5
    <3> QED
      BY <1>1, <3>1, FS_Subset
  <2> HIDE DEF below
  <2>3. Cardinality(below \cup {at}) = Cardinality(below) + 1
    BY <2>1, <2>2, FS_AddElement
  <2>4. Cardinality(below \cup {at}) <= r + 1
    BY <1>4, <2>1, <2>2, FS_Subset
  <2>5. Cardinality(below) \in Nat
    BY <2>2, FS_CardinalityType
  <2>6. Cardinality(below) <= r
    BY <2>3, <2>4, <2>5
  <2> QED
    BY <2>6 DEF below
<1>8. r < Cardinality({i \in 1 .. n : d[i] <= x})
  <2> DEFINE within == {i \in 1 .. n : d[i] <= x}
  <2>1. upto[at] \subseteq within
    BY <1>1, <1>5, <1>6
  <2>2. IsFiniteSet(within)
    <3>1. within \subseteq 1 .. n
      OBVIOUS
    <3> QED
      BY <1>1, <3>1, FS_Subset
  <2> HIDE DEF within
  <2>3. r + 1 <= Cardinality(within)
    BY <1>4, <2>1, <2>2, FS_Subset
  <2>4. Cardinality(within) \in Nat
    BY <2>2, FS_CardinalityType
  <2>5. r < Cardinality(within)
    BY <2>3, <2>4
  <2> QED
    BY <2>5 DEF within
<1> QED
  BY <1>4, <1>6, <1>7, <1>8

LEMMA PercentilesHaveRank ==
  ASSUME NEW d \in Seq(Int), OneMinus(d), Len(d) > 0, NEW k \in 1 .. 4
  PROVE  LET n == Len(d)
             rank == <<n \div 2, (n * 3) \div 4, (n * 19) \div 20, (n * 99) \div 100>>
         IN  /\ Cardinality({i \in 1 .. n : d[i] < Percentiles(d)[k]}) <= rank[k]
             /\ rank[k] < Cardinality({i \in 1 .. n : d[i] <= Percentiles(d)[k]})
<1>1. PICK n \in Nat : n = Len(d) /\ n > 0
  BY LenProperties
<1>2. PICK rank : rank = <<n \div 2, (n * 3) \div 4, (n * 19) \div 20, (n * 99) \div 100>>
  OBVIOUS
<1>3. rank[k] \in 0 .. n - 1
  <2>1. /\ n \div 2 \in 0 .. n - 1
        /\ (n * 3) \div 4 \in 0 .. n - 1
        /\ (n * 19) \div 20 \in 0 .. n - 1
        /\ (n * 99) \div 100 \in 0 .. n - 1
    BY <1>1
  <2> QED
    BY <1>2, <2>1
<1>4. Percentiles(d)[k] = Sorted(d)[rank[k] + 1]
  BY <1>1, <1>2 DEF Percentiles
<1>5. /\ Cardinality({i \in 1 .. n : d[i] < Sorted(d)[rank[k] + 1]}) <= rank[k]
      /\ rank[k] < Cardinality({i \in 1 .. n : d[i] <= Sorted(d)[rank[k] + 1]})
  BY <1>1, <1>3, SortedHasRank
<1> QED
  BY <1>1, <1>2, <1>4, <1>5

-----------------------------------------------------------------------------
(* The log displayer *)

Request ==
  [id : Nat, num : Nat \ {0}, read : BOOLEAN, page : Seq(Document)]

\* A page has as many documents as were wanted, or all there were.
IsPage(p, num) ==
  /\ p \in Seq(Document) /\ Len(p) <= num
  /\ p # <<>> => collection # <<>>
  /\ p # <<>> /\ Len(p) < num =>
       p[Len(p)].requested = collection[1].requested

\* The request that was sent last is for the number the user wants now; while
\* any is in flight and all came in order, it is.
Requests ==
  /\ inFlight \subseteq Request
  /\ \A r \in inFlight :
       /\ r.id <= sent
       /\ r.id = sent => r.num = numLogs
       /\ r.read => IsPage(r.page, r.num)
       /\ \A s \in inFlight : s.id = r.id => s = r
  /\ inOrder /\ inFlight # {} => \E r \in inFlight : r.id = sent

Displayed ==
  /\ logs \in Seq(Document)
  /\ graph = CalDurations(logs)
  /\ graph # <<>> => pc = Percentiles(graph)
  /\ numCards \in Nat
  /\ cards = SubSeq(logs, 1, IF numCards < Len(logs) THEN numCards ELSE Len(logs))

\* The inductive invariant.
DInv ==
  /\ collection \in Seq(Document)
  /\ numLogs \in Nat \ {0} /\ sent \in Nat
  /\ Requests
  /\ Displayed
  /\ inFlight = {} /\ inOrder => IsPage(logs, numLogs)

\* A page without documents draws nothing.
LEMMA EmptyPage ==
  CalDurations(<<>>) = <<>> /\ SubSeq(<<>>, 1, 0) = <<>> /\ <<>> \in Seq(Document)
<1>1. <<>> \in Seq(Document) /\ DOMAIN <<>> = {}
  BY EmptySeq
<1>2. PICK kept : kept = {i \in DOMAIN <<>> : <<>>[i].responded # Unanswered}
  OBVIOUS
<1>3. kept = {}
  BY <1>1, <1>2
<1>4. Answered(<<>>) = Subsequence(<<>>, kept)
  BY <1>2 DEF Answered
<1>5. /\ Subsequence(<<>>, kept) \in Seq(Document)
      /\ Len(Subsequence(<<>>, kept)) = Cardinality(kept)
  BY <1>1, <1>3, SubsequencePicks
<1>6. Len(Answered(<<>>)) = 0
  BY <1>3, <1>4, <1>5, FS_EmptySet
<1>7. DOMAIN CalDurations(<<>>) = 1 .. 0 /\ CalDurations(<<>>) \in Seq(Int)
  BY <1>1, <1>6, AnsweredAreStamped, DurationsType
<1> QED
  BY <1>1, <1>7, EmptySeq, LenProperties

LEMMA InitDisplay == Init => DInv
<1> SUFFICES ASSUME Init PROVE DInv
  OBVIOUS
<1>1. InitialLogs \in Nat \ {0}
  BY NumberAssumption
<1>2. PICK first : first = [id |-> 1, num |-> InitialLogs, read |-> FALSE, page |-> <<>>]
  OBVIOUS
<1>3. /\ first \in Request /\ first.id = 1 /\ first.num = InitialLogs
      /\ first.read = FALSE
  BY <1>1, <1>2, EmptyPage DEF Request
<1>4. Requests
  BY <1>2, <1>3 DEF Init, Requests
<1>5. Displayed
  BY EmptyPage, EmptySeq DEF Init, Displayed
<1> QED
  BY <1>1, <1>4, <1>5, EmptyPage DEF Init, DInv

\* What was a page remains one when documents are added or answered.
LEMMA PageRemains ==
  ASSUME NEW p, NEW num, IsPage(p, num),
         collection # <<>> => /\ collection' # <<>>
                              /\ collection'[1].requested = collection[1].requested
  PROVE  IsPage(p, num)'
  BY DEF IsPage, Document

\* The collection changes, the page and its requests do not.
LEMMA CollectionChanges ==
  ASSUME DInv, collection' \in Seq(Document),
         collection # <<>> => /\ collection' # <<>>
                              /\ collection'[1].requested = collection[1].requested,
         UNCHANGED <<wantedVars, inFlight, sent, displayVars, inOrder>>
  PROVE  DInv'
<1>1. \A p, num : IsPage(p, num) => IsPage(p, num)'
  BY PageRemains
<1>2. Requests'
  BY <1>1 DEF DInv, Requests, Request, Document, wantedVars
<1>3. Displayed'
  BY DEF DInv, Displayed, displayVars
<1> QED
  BY <1>1, <1>2, <1>3 DEF DInv, displayVars, wantedVars

\* The server answers with a page.
LEMMA NewestIsPage ==
  ASSUME collection \in Seq(Document), NEW num \in Nat \ {0}
  PROVE  IsPage(Newest(num), num)
<1> DEFINE n == Len(collection)
<1>1. n \in Nat /\ \A i \in 1 .. n : collection[i] \in Document
  BY LenProperties, ElementOfSeq
<1>2. PICK k \in Nat : k = (IF num < n THEN num ELSE n)
  BY <1>1
<1>3. \A i \in 1 .. k : n + 1 - i \in 1 .. n
  BY <1>1, <1>2
<1>4. Newest(num) = [i \in 1 .. k |-> collection[n + 1 - i]]
  BY <1>2 DEF Newest
<1>5. Newest(num) \in [1 .. k -> Document]
  BY <1>1, <1>3, <1>4
<1>6. Newest(num) \in Seq(Document) /\ Len(Newest(num)) = k
  BY <1>5, SeqDef
<1>7. k <= num
  BY <1>1, <1>2
<1>8. Newest(num) # <<>> => k # 0
  BY <1>6, EmptySeq
<1>9. k # 0 => collection # <<>>
  BY <1>1, <1>2, EmptySeq
<1>10. k # 0 /\ k < num => Newest(num)[k] = collection[1]
  <2>1. k # 0 => k \in 1 .. k
    OBVIOUS
  <2>2. k # 0 /\ k < num => n + 1 - k = 1
    BY <1>1, <1>2
  <2> QED
    BY <1>4, <2>1, <2>2
<1> QED
  BY <1>6, <1>7, <1>8, <1>9, <1>10 DEF IsPage

LEMMA ServeDisplay ==
  ASSUME DInv, NEW r \in inFlight, Serve(r)
  PROVE  DInv'
<1>1. /\ UNCHANGED <<collection, wantedVars, sent, displayVars, inOrder>>
      /\ collection \in Seq(Document) /\ inFlight \subseteq Request
  BY DEF Serve, DInv, Requests
<1>2. PICK s : s = [r EXCEPT !.read = TRUE, !.page = Newest(r.num)]
  OBVIOUS
<1>3. inFlight' = (inFlight \ {r}) \cup {s}
  BY <1>2 DEF Serve
<1>4. r.id \in Nat /\ r.num \in Nat \ {0}
  BY <1>1 DEF Request
<1>5. IsPage(Newest(r.num), r.num)
  BY <1>1, <1>4, NewestIsPage
<1>6. /\ s \in Request /\ s.id = r.id /\ s.num = r.num /\ s.page = Newest(r.num)
  BY <1>1, <1>2, <1>4, <1>5 DEF Request, IsPage
<1>7. \A p, num : IsPage(p, num)' <=> IsPage(p, num)
  BY <1>1 DEF IsPage
<1>8. Requests'
  <2>1. inFlight' \subseteq Request
    BY <1>1, <1>3, <1>6
  <2>2. ASSUME NEW q \in inFlight'
        PROVE  /\ q.id <= sent
               /\ q.id = sent => q.num = numLogs
               /\ q.read => IsPage(q.page, q.num)
               /\ \A o \in inFlight' : o.id = q.id => o = q
    <3>1. /\ r.id <= sent /\ (r.id = sent => r.num = numLogs)
          /\ \A o \in inFlight : o.id = r.id => o = r
      BY DEF DInv, Requests
    <3>2. CASE q = s
      BY <1>3, <1>5, <1>6, <3>1, <3>2
    <3>3. CASE q \in inFlight /\ q # r
      <4>1. /\ q.id <= sent /\ (q.id = sent => q.num = numLogs)
            /\ q.read => IsPage(q.page, q.num)
            /\ \A o \in inFlight : o.id = q.id => o = q
        BY <3>3 DEF DInv, Requests
      <4>2. q.id # r.id
        BY <3>1, <3>3
      <4> QED
        BY <1>3, <1>6, <4>1, <4>2
    <3> QED
      BY <1>3, <3>2, <3>3
  <2>3. inOrder /\ inFlight # {} => \E q \in inFlight' : q.id = sent
    BY <1>3, <1>6 DEF DInv, Requests
  <2> QED
    BY <1>1, <1>7, <2>1, <2>2, <2>3 DEF Requests, wantedVars
<1>9. Displayed'
  BY <1>1 DEF DInv, Displayed, displayVars
<1>10. inFlight' # {}
  BY <1>3
<1> QED
  BY <1>1, <1>8, <1>9, <1>10 DEF DInv, wantedVars

LEMMA ChangeDisplay ==
  ASSUME DInv, NEW num \in TypedNumbers, ChangeLogNum(num)
  PROVE  DInv'
<1>1. /\ UNCHANGED <<collection, displayVars, inOrder>>
      /\ inFlight \subseteq Request /\ sent \in Nat
  BY DEF ChangeLogNum, DInv, Requests
<1>2. \A p, n : IsPage(p, n)' <=> IsPage(p, n)
  BY <1>1 DEF IsPage
<1>3. Displayed'
  BY <1>1 DEF DInv, Displayed, displayVars
<1>4. CASE UNCHANGED <<numLogs, inFlight, sent>>
  BY <1>1, <1>2, <1>3, <1>4 DEF DInv, Requests, displayVars
<1>5. CASE num >= 1 /\ ~(typed /\ num = numLogs)
  <2>1. num \in Nat \ {0}
    BY <1>5, NumberAssumption
  <2>2. PICK q : q = [id |-> sent + 1, num |-> num, read |-> FALSE, page |-> <<>>]
    OBVIOUS
  <2>3. /\ numLogs' = num /\ sent' = sent + 1 /\ inFlight' = inFlight \cup {q}
    BY <1>5, <2>1, <2>2 DEF ChangeLogNum, Fetched
  <2>4. /\ q \in Request /\ q.id = sent + 1 /\ q.num = num /\ q.read = FALSE
    BY <1>1, <2>1, <2>2, EmptyPage DEF Request
  <2>5. \A o \in inFlight : o.id \in Nat /\ o.id <= sent
    BY <1>1 DEF DInv, Requests, Request
  <2>6. ASSUME NEW o \in inFlight'
        PROVE  /\ o.id <= sent'
               /\ o.id = sent' => o.num = numLogs'
               /\ o.read => IsPage(o.page, o.num)
               /\ \A p \in inFlight' : p.id = o.id => p = o
    <3>1. CASE o = q
      BY <1>1, <2>3, <2>4, <2>5, <3>1
    <3>2. CASE o \in inFlight
      <4>1. /\ o.read => IsPage(o.page, o.num)
            /\ \A p \in inFlight : p.id = o.id => p = o
        BY <3>2 DEF DInv, Requests
      <4>2. o.id <= sent' /\ o.id # sent' /\ o.id # q.id
        BY <1>1, <2>3, <2>4, <2>5, <3>2
      <4> QED
        BY <2>3, <4>1, <4>2
    <3> QED
      BY <2>3, <3>1, <3>2
  <2>7. \E o \in inFlight' : o.id = sent'
    BY <2>3, <2>4
  <2>8. inFlight' \subseteq Request
    BY <1>1, <2>3, <2>4
  <2>9. Requests'
    BY <1>2, <2>6, <2>7, <2>8 DEF Requests
  <2>10. inFlight' # {}
    BY <2>7
  <2>11. sent' \in Nat
    BY <1>1, <2>3
  <2> QED
    BY <1>1, <1>3, <2>1, <2>3, <2>9, <2>10, <2>11 DEF DInv
<1>6. num \in Nat /\ numLogs \in Nat \ {0}
  BY NumberAssumption DEF DInv
<1> QED
  BY <1>4, <1>5, <1>6 DEF ChangeLogNum, Fetched

LEMMA ExpandDisplay ==
  ASSUME DInv, ExpandCards
  PROVE  DInv'
<1>1. UNCHANGED <<collection, wantedVars, inFlight, sent, logs, graph, pc, inOrder>>
  BY DEF ExpandCards
<1>2. \A p, n : IsPage(p, n)' <=> IsPage(p, n)
  BY <1>1 DEF IsPage
<1>3. Requests'
  BY <1>1, <1>2 DEF DInv, Requests, wantedVars
<1>4. numCards \in Nat /\ numLogs \in Nat /\ MoreCards \in Nat
  BY NumberAssumption DEF DInv, Displayed
<1>5. PICK num \in Nat : Expanded(num)
  BY <1>4 DEF ExpandCards
<1>6. Displayed'
  BY <1>1, <1>5 DEF DInv, Displayed, Expanded
<1> QED
  BY <1>1, <1>2, <1>3, <1>6 DEF DInv, wantedVars

\* A response arrives or fails: the others remain.
LEMMA OneLess ==
  ASSUME DInv, NEW r \in inFlight, inFlight' = inFlight \ {r},
         UNCHANGED <<collection, numLogs, sent>>,
         inOrder' => inOrder /\ \A s \in inFlight : s.id >= r.id
  PROVE  Requests'
<1>1. \A p, n : IsPage(p, n)' <=> IsPage(p, n)
  BY DEF IsPage
<1>2. inFlight' \subseteq Request
  BY DEF DInv, Requests
<1>3. ASSUME inOrder', inFlight' # {}
      PROVE  \E s \in inFlight' : s.id = sent
  <2>1. PICK last \in inFlight : last.id = sent
    BY <1>3 DEF DInv, Requests
  <2>2. PICK s \in inFlight : s # r
    BY <1>3
  <2>3. s.id >= r.id /\ s.id <= sent /\ s.id # r.id
    BY <1>3, <2>2 DEF DInv, Requests
  <2>4. s.id \in Nat /\ r.id \in Nat /\ sent \in Nat
    BY DEF DInv, Requests, Request
  <2>5. r.id # sent
    BY <2>3, <2>4
  <2> QED
    BY <2>1, <2>5
<1> QED
  BY <1>1, <1>2, <1>3 DEF DInv, Requests

LEMMA ArriveDisplay ==
  ASSUME DInv, NEW r \in inFlight, Arrive(r)
  PROVE  DInv'
<1>1. /\ r.read /\ inFlight' = inFlight \ {r}
      /\ UNCHANGED <<collection, numLogs, sent>>
      /\ inOrder' => /\ inOrder
                     /\ \A s \in inFlight : s.id >= r.id
                     /\ r.page = <<>> => logs = <<>>
  BY DEF Arrive, wantedVars
<1>2. \A p, n : IsPage(p, n)' <=> IsPage(p, n)
  BY <1>1 DEF IsPage
<1>3. Requests'
  BY <1>1, OneLess
<1>4. IsPage(r.page, r.num)
  BY <1>1 DEF DInv, Requests
<1>5. r.page \in Seq(Document) /\ Len(r.page) \in Nat
  BY <1>4, LenProperties DEF IsPage
<1>6. ASSUME inOrder', inFlight' = {}
      PROVE  r.num = numLogs
  BY <1>1, <1>6 DEF DInv, Requests
<1>7. CASE r.page = <<>>
  <2>1. UNCHANGED displayVars
    BY <1>7 DEF Arrive
  <2>2. Displayed'
    BY <2>1 DEF DInv, Displayed, displayVars
  <2>3. inFlight' = {} /\ inOrder' => IsPage(logs, numLogs)'
    BY <1>1, <1>4, <1>6, <1>7, <2>1 DEF displayVars, IsPage
  <2> QED
    BY <1>1, <1>3, <2>2, <2>3 DEF DInv
<1>8. CASE r.page # <<>>
  <2>1. /\ logs' = r.page /\ graph' = CalDurations(r.page)
        /\ pc' = IF graph' = <<>> THEN pc ELSE Percentiles(graph')
        /\ cards' = SubSeq(r.page, 1, IF FirstCards < Len(r.page)
                                      THEN FirstCards ELSE Len(r.page))
        /\ numCards' = FirstCards
    BY <1>8 DEF Arrive
  <2>2. FirstCards \in Nat
    BY NumberAssumption
  <2>3. Displayed'
    BY <1>5, <2>1, <2>2 DEF Displayed
  <2>4. inFlight' = {} /\ inOrder' => IsPage(logs, numLogs)'
    BY <1>1, <1>4, <1>6, <2>1 DEF IsPage
  <2> QED
    BY <1>1, <1>3, <2>3, <2>4 DEF DInv
<1> QED
  BY <1>7, <1>8

LEMMA NextDisplay == DInv /\ [Next]_vars => DInv'
<1> SUFFICES ASSUME DInv, [Next]_vars PROVE DInv'
  OBVIOUS
<1>0. collection \in Seq(Document)
  BY DEF DInv
<1>1. CASE Insert
  <2>1. PICK t \in Instants :
          collection' = Append(collection, [requested |-> t, responded |-> Unanswered])
    BY <1>1 DEF Insert
  <2>2. PICK d \in Document : d = [requested |-> t, responded |-> Unanswered]
    BY DEF Document
  <2>3. /\ collection' = Append(collection, d) /\ collection' \in Seq(Document)
    BY <1>0, <2>1, <2>2, AppendProperties
  <2>4. collection # <<>> => collection' # <<>> /\ collection'[1] = collection[1]
    <3>1. Len(collection) \in Nat
      BY <1>0, LenProperties
    <3>2. collection # <<>> => 1 \in 1 .. Len(collection)
      BY <1>0, <3>1, EmptySeq
    <3>3. collection' # <<>> /\ \A i \in 1 .. Len(collection) : collection'[i] = collection[i]
      BY <1>0, <2>3, AppendProperties, EmptySeq
    <3> QED
      BY <3>2, <3>3
  <2> QED
    BY <1>1, <2>3, <2>4, CollectionChanges DEF Insert
<1>2. CASE Complete
  <2>1. PICK i \in DOMAIN collection, t \in Instants :
          collection' = [collection EXCEPT ![i].responded = t]
    BY <1>2 DEF Complete
  <2>2. collection[i] \in Document
    BY <1>0, LenProperties, ElementOfSeq
  <2>3. PICK d \in Document : d = [collection[i] EXCEPT !.responded = t]
    BY <2>2 DEF Document
  <2>4. d.requested = collection[i].requested
    BY <2>2, <2>3 DEF Document
  <2>5. collection' = [collection EXCEPT ![i] = d]
    BY <2>1, <2>3
  <2>6. /\ collection' \in Seq(Document) /\ Len(collection') = Len(collection)
    BY <1>0, <2>5, ExceptSeq
  <2>7. \A j \in DOMAIN collection : collection'[j].requested = collection[j].requested
    BY <1>0, <2>4, <2>5
  <2>8. collection # <<>> => /\ collection' # <<>>
                             /\ collection'[1].requested = collection[1].requested
    <3>1. Len(collection) \in Nat /\ DOMAIN collection = 1 .. Len(collection)
      BY <1>0, LenProperties
    <3>2. collection # <<>> => Len(collection) # 0 /\ 1 \in DOMAIN collection
      BY <1>0, <3>1, EmptySeq
    <3> QED
      BY <2>6, <2>7, <3>2, EmptySeq
  <2> QED
    BY <1>2, <2>6, <2>8, CollectionChanges DEF Complete
<1>3. ASSUME NEW r \in inFlight, Fail(r)
      PROVE  DInv'
  <2>1. /\ inFlight' = inFlight \ {r} /\ inOrder' = FALSE
        /\ UNCHANGED <<collection, wantedVars, sent, displayVars>>
    BY <1>3 DEF Fail
  <2>2. Requests'
    BY <2>1, OneLess DEF wantedVars
  <2>3. Displayed'
    BY <2>1 DEF DInv, Displayed, displayVars
  <2> QED
    BY <2>1, <2>2, <2>3 DEF DInv, wantedVars
<1>4. CASE UNCHANGED vars
  <2>1. UNCHANGED <<collection, numLogs, inFlight, sent, logs, cards, numCards,
                    graph, pc, inOrder>>
    BY <1>4 DEF vars, displayVars, wantedVars
  <2>2. \A p, n : IsPage(p, n)' <=> IsPage(p, n)
    BY <2>1 DEF IsPage
  <2> QED
    BY <2>1, <2>2 DEF DInv, Requests, Displayed
<1> QED
  BY <1>1, <1>2, <1>3, <1>4, ServeDisplay, ChangeDisplay, ExpandDisplay,
     ArriveDisplay DEF Next

LEMMA DisplayInvariant == Spec => []DInv
  BY InitDisplay, NextDisplay, PTL DEF Spec

\* For any numbers the user types, any collection and any order of requests:
\* while nothing is fetched the page has the number of logs asked for, or all
\* there were, if responses came in the order of their requests.
THEOREM WantedIsShown == Spec => []ShowsWhatWasAsked
<1>1. DInv => ShowsWhatWasAsked
  BY DEF DInv, IsPage, ShowsWhatWasAsked
<1> QED
  BY <1>1, DisplayInvariant, PTL

\* Whatever numbers of cards the page starts with and adds: when "See more" is
\* gone, nothing is fetched and no response was overtaken, failed or null, all
\* logs are on the screen.
THEOREM AllIsShown == Spec => []NothingHidden
<1>1. ASSUME DInv
      PROVE  NothingHidden
  <2>1. /\ logs \in Seq(Document) /\ numCards \in Nat /\ numLogs \in Nat
        /\ cards = SubSeq(logs, 1, IF numCards < Len(logs) THEN numCards
                                   ELSE Len(logs))
    BY <1>1 DEF DInv, Displayed
  <2>2. Len(logs) \in Nat /\ SubSeq(logs, 1, Len(logs)) = logs
    BY <2>1, LenProperties, SubSeqFull
  <2>3. ASSUME inFlight = {}, inOrder, numCards >= numLogs
        PROVE  cards = logs
    <3>1. Len(logs) <= numLogs
      BY <1>1, <2>3 DEF DInv, IsPage
    <3>2. ~(numCards < Len(logs))
      BY <2>1, <2>2, <2>3, <3>1
    <3> QED
      BY <2>1, <2>2, <3>2
  <2> QED
    BY <2>3 DEF NothingHidden
<1> QED
  BY <1>1, DisplayInvariant, PTL

\* For any page on which at most one of the durations drawn is below zero: each
\* percentile shown has its rank among them, although sort() compares texts.
THEOREM PercentilesShown == Spec => []PercentilesAreRight
<1>1. ASSUME DInv
      PROVE  PercentilesAreRight
  <2>1. graph \in Seq(Int) /\ (graph # <<>> => pc = Percentiles(graph))
    BY <1>1, DurationsType DEF DInv, Displayed
  <2>2. Len(graph) > 0 => graph # <<>>
    BY EmptySeq
  <2>3. OneBelowZero => OneMinus(graph)
    BY <2>1, LenProperties DEF OneBelowZero, OneMinus
  <2> QED
    BY <2>1, <2>2, <2>3, PercentilesHaveRank DEF PercentilesAreRight
<1> QED
  BY <1>1, DisplayInvariant, PTL

\* For any instants of the clocks: a duration drawn is the time between the two
\* stamps of its log, if it is less than a minute of one day.
THEOREM ElapsedIsShown == Spec => []ShownIsElapsed
<1>1. ASSUME DInv
      PROVE  ShownIsElapsed
  <2>1. logs \in Seq(Document) /\ graph = CalDurations(logs)
    BY <1>1 DEF DInv, Displayed
  <2> QED
    BY <2>1, DrawnIsElapsed DEF ShownIsElapsed
<1> QED
  BY <1>1, DisplayInvariant, PTL

=============================================================================
