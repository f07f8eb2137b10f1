---------------------------- MODULE CalcService ----------------------------
(***************************************************************************)
(* What the calculation service promises, whatever crashes: a request that *)
(* is answered was recorded in the audit database before, with its         *)
(* response, and only what was requested is recorded.                      *)
(***************************************************************************)
CONSTANT Cids    \* correlation ids

VARIABLES
  requested,     \* the requests that have reached the broker
  recorded,      \* the requests whose response is in the audit database
  answered       \* the requests whose client has seen the response

vars == <<requested, recorded, answered>>

Init ==
  /\ requested = {}
  /\ recorded = {}
  /\ answered = {}

Request ==
  /\ \E cid \in Cids \ requested : requested' = requested \cup {cid}
  /\ UNCHANGED <<recorded, answered>>

Record ==
  /\ \E cid \in requested \ recorded : recorded' = recorded \cup {cid}
  /\ UNCHANGED <<requested, answered>>

Answer ==
  /\ \E cid \in recorded \ answered : answered' = answered \cup {cid}
  /\ UNCHANGED <<requested, recorded>>

Next == Request \/ Record \/ Answer

Spec == Init /\ [][Next]_vars

=============================================================================
