----------------------------- MODULE Durations -----------------------------
(***************************************************************************)
(* Times of day and durations of the calculation programs (utils.cpp and   *)
(* receive.cpp) and what the log displayer (Home.js) reads in them.        *)
(*                                                                         *)
(* A text "hh:mm:ss.mmm" is the record of its four numbers, which are what *)
(* atoi and split get back from it.  An instant is the number of           *)
(* milliseconds of a local clock since some midnight.                      *)
(***************************************************************************)
EXTENDS Integers

Second == 1000
Minute == 60000
Hour == 3600000
Day == 86400000

Field == [hr : Int, min : Int, sec : Int, milli : Int]

\* Division of C++, which rounds towards zero.
Quotient(a, b) == IF a >= 0 THEN a \div b ELSE -((-a) \div b)

\* The time of day in getCurrentTime; nothing computes with the date.
GetCurrentTime(instant) ==
  LET t == instant % Day
  IN  [hr    |-> t \div Hour,
       min   |-> (t % Hour) \div Minute,
       sec   |-> (t % Minute) \div Second,
       milli |-> t % Second]

ConvertMilliToTime(duration) ==
  LET hr == Quotient(duration, Hour)
      afterHr == duration - Hour * hr
      min == Quotient(afterHr, Minute)
      afterMin == afterHr - Minute * min
      sec == Quotient(afterMin, Second)
  IN  [hr |-> hr, min |-> min, sec |-> sec, milli |-> afterMin - Second * sec]

\* Mutant: the minutes are left out.
MilliOfDay_NoMinutes(t) == (t.hr * 60 * 60 + t.sec) * 1000 + t.milli

\* millisec1 and millisec2
MilliOfDay(t) == ((t.hr * 60 * 60) + (t.min * 60) + t.sec) * 1000 + t.milli

GetCalDuration(request_time, response_time) ==
  ConvertMilliToTime(MilliOfDay(response_time) - MilliOfDay(request_time))

\* calToMS, in milliseconds.  times[2] is a text, so += appends the seconds
\* in the minutes and in the hours to it as further digits, behind the
\* milliseconds, which are dropped here.  A minus sign that is not the first
\* character makes the text no number, and the result is 0.
CalToMS(t) ==
  IF t.hr < 0 \/ t.min < 0 \/ t.milli < 0 THEN 0 ELSE t.sec * Second + t.milli

=============================================================================
