--------------------------- MODULE MCLogDisplay ----------------------------
(* Model checking of LogDisplay: requests that overlap while the collection *)
(* fills with stamps that lie apart in every way.                           *)
EXTENDS LogDisplay

\* Two seconds and parts of them, the same backwards, a minute and a midnight
\* that are crossed.
ClockInstants == {58400, 59900, 60400, 86400200}

=============================================================================
