--------------------------- MODULE LosslessStream ---------------------------
(***************************************************************************)
(* What one direction of the RabbitMQ connection promises: bytes come out  *)
(* in the order they went in, none is lost, duplicated or invented, for as *)
(* long as the stream is open.  Once it is abandoned (the connection is in *)
(* an error state, or the socket failed) what was pending is given up and  *)
(* nothing is delivered any more.                                          *)
(***************************************************************************)
EXTENDS Naturals, Sequences

CONSTANT Chunks      \* the sequences of bytes one call may put in

VARIABLES
  pending,           \* put in, not yet delivered
  delivered,         \* everything delivered so far
  open               \* FALSE once the stream is abandoned

streamVars == <<pending, delivered, open>>

Init ==
  /\ pending = <<>>
  /\ delivered = <<>>
  /\ open = TRUE

\* One step puts a chunk (perhaps none) in, and delivers a prefix (perhaps
\* empty) of all that is then pending.
Move(chunk) ==
  LET queue == pending \o chunk
  IN  /\ open
      /\ \E k \in 0 .. Len(queue) :
           /\ delivered' = delivered \o SubSeq(queue, 1, k)
           /\ pending' = SubSeq(queue, k + 1, Len(queue))
      /\ open' = open

\* The stream ends, perhaps after a last delivery.
Abandon ==
  /\ open
  /\ open' = FALSE
  /\ \E k \in 0 .. Len(pending) :
       delivered' = delivered \o SubSeq(pending, 1, k)
  /\ pending' = <<>>

Next ==
  \/ \E chunk \in Chunks \cup {<<>>} : Move(chunk)
  \/ Abandon

Spec == Init /\ [][Next]_streamVars

=============================================================================
