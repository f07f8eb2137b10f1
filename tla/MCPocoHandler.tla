--------------------------- MODULE MCPocoHandler ---------------------------
(* Model checking of PocoHandler with the smallest buffers for which a      *)
(* frame can arrive in pieces and outBuffer can overflow.                   *)
EXTENDS PocoHandler

=============================================================================
