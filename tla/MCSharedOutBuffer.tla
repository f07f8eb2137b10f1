------------------------- MODULE MCSharedOutBuffer -------------------------
(* Model checking of SharedOutBuffer with one thread and with two.         *)
EXTENDS SharedOutBuffer

=============================================================================
