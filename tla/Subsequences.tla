---------------------------- MODULE Subsequences ----------------------------
(***************************************************************************)
(* What is left of a sequence when some of its elements are taken out, as  *)
(* remove_if and resize (WebsocketServer.cpp) and the loop with a filter   *)
(* (Home.js) do it: the elements that are kept stay in their order.        *)
(*                                                                         *)
(* SelectSeq gives the same, but is recursive; here the n-th element comes *)
(* from the n-th of the positions that are kept.                           *)
(***************************************************************************)
EXTENDS Integers, Sequences, FiniteSets

Nth(positions, n) ==
  CHOOSE i \in positions : Cardinality({j \in positions : j <= i}) = n

Subsequence(s, positions) ==
  [n \in 1 .. Cardinality(positions) |-> s[Nth(positions, n)]]

=============================================================================
