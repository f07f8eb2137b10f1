---------------------------- MODULE MCLogServer ----------------------------
(* Model checking of LogServer: a request beside the servers' writes. Atoi  *)
(* accepts a negative start, too.                                           *)
EXTENDS LogServer

FirstParameters == {-1, 0, 1, 2, 4}

=============================================================================
