----------------------------- MODULE MCCalcRpc -----------------------------
(* Model checking of CalcRpc.                                              *)
EXTENDS CalcRpc, TLC

=============================================================================
