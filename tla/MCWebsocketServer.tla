------------------------- MODULE MCWebsocketServer -------------------------
(* Model checking of WebsocketServer with an int of three bits, -4 .. 3.    *)
EXTENDS WebsocketServer

\* A lone number, which is added to itself and too large, a sum, each error, a
\* number too long for an int, and one behind a number that is none.
SentMessages ==
  {<<3>>, <<-4, 3>>, <<NotANumber, 1>>, <<1, NotANumber>>, <<1, 4>>,
   <<NotANumber, 4>>}

=============================================================================
