-------------------------- MODULE WebsocketServer --------------------------
(***************************************************************************)
(* The C++ streamer (apps/cpp-streamer): one event loop runs the open,     *)
(* close and message handlers of all connections, answers "a+b" with a sum *)
(* and keeps the list of connections.  An exception that a handler lets    *)
(* out ends the loop and, with it, the process.  broadcastMessage, which   *)
(* reads the list, is left out: nothing calls it.                          *)
(*                                                                         *)
(* A message is the sequence of its parts between the plus signs.  stoi    *)
(* reads no further than the second.  A part is the number it begins with, *)
(* or NotANumber.                                                          *)
(***************************************************************************)
EXTENDS Subsequences

CONSTANTS
  Clients,       \* connections; a client that comes back is another one
  MaxInt,        \* the largest int; the smallest is -MaxInt - 1
  NotANumber,    \* text for which stoi throws invalid_argument
  Messages,      \* what clients send, also numbers too long for an int
  MaxMessages    \* bound: messages of all clients together

ASSUME MessageAssumption ==
  /\ MaxInt \in Nat
  /\ NotANumber \notin Int
  /\ \A m \in Messages : m \in Seq(Int \cup {NotANumber}) /\ Len(m) \in {1, 2}

ASSUME BoundAssumption == MaxMessages \in Nat

Integer == -MaxInt - 1 .. MaxInt
Reply == [says : {"sum", "number 1 invalid", "number 2 invalid"},
          value : Integer]

VARIABLES
  state,           \* the connection's state in websocketpp
  openConnections, \* the vector of handles
  asked,           \* how many messages were sent
  incoming,        \* messages sent by the client and not yet handled
  handled,         \* history: the messages onMessage has answered
  replies,         \* what the client was sent in answer
  running          \* the event loop

messageVars == <<asked, incoming, handled, replies>>
serverVars == <<state, openConnections, messageVars, running>>

ServerInit ==
  /\ state = [c \in Clients |-> "new"]
  /\ openConnections = <<>>
  /\ asked = 0
  /\ incoming = [c \in Clients |-> <<>>]
  /\ handled = [c \in Clients |-> <<>>]
  /\ replies = [c \in Clients |-> <<>>]
  /\ running = TRUE

-----------------------------------------------------------------------------
(* Clients and websocketpp *)

Ask(c) ==
  /\ running /\ state[c] = "open"
  /\ asked < MaxMessages /\ asked' = asked + 1
  /\ \E m \in Messages : incoming' = [incoming EXCEPT ![c] = Append(@, m)]
  /\ UNCHANGED <<state, openConnections, handled, replies, running>>

\* A close frame or the end of the TCP connection: nothing more is handled, and
\* the close handler runs later, when the socket is shut down.
Closing(c) ==
  /\ running /\ state[c] = "open"
  /\ state' = [state EXCEPT ![c] = "closing"]
  /\ UNCHANGED <<openConnections, messageVars, running>>

-----------------------------------------------------------------------------
(* Handlers *)

OnOpen(c) ==
  /\ running /\ state[c] = "new"
  /\ state' = [state EXCEPT ![c] = "open"]
  /\ openConnections' = Append(openConnections, c)
  /\ UNCHANGED <<messageVars, running>>

\* Mutant: the vector is not truncated.
Remaining_Untruncated(c) == openConnections

\* remove_if and resize: without the handle c and those that have expired.
Remaining(c) ==
  LET Stays(elem) == state[elem] # "closed" /\ elem # c
  IN  Subsequence(openConnections, {i \in DOMAIN openConnections :
                                      Stays(openConnections[i])})

OnClose(c) ==
  /\ running /\ state[c] = "closing"
  /\ state' = [state EXCEPT ![c] = "closed"]
  /\ openConnections' = Remaining(c)
  /\ UNCHANGED <<messageVars, running>>

\* Without a plus sign both substrings are the whole message.
FirstPart(m) == m[1]
SecondPart(m) == m[Len(m)]

\* stoi throws out_of_range, which nobody catches.
OutOfRange(part) == part # NotANumber /\ part \notin Integer
Throws(m) ==
  \/ OutOfRange(FirstPart(m))
  \/ FirstPart(m) # NotANumber /\ OutOfRange(SecondPart(m))

\* What firstNum + secondNum may be: a sum that is no int is undefined.
Sums(a, b) == IF a + b \in Integer THEN {a + b} ELSE Integer

Error(text) == {[says |-> text, value |-> 0]}

\* Mutant: the text of the second error is a copy of the first.
Answers_Copied(m) ==
  IF NotANumber \in {FirstPart(m), SecondPart(m)} THEN Error("number 1 invalid")
  ELSE [says : {"sum"}, value : Sums(FirstPart(m), SecondPart(m))]

Answers(m) ==
  CASE FirstPart(m) = NotANumber -> Error("number 1 invalid")
    [] FirstPart(m) # NotANumber /\ SecondPart(m) = NotANumber
                                 -> Error("number 2 invalid")
    [] OTHER -> [says : {"sum"}, value : Sums(FirstPart(m), SecondPart(m))]

\* Mutant: an invalid message is skipped without an answer.
Replied_Silently(c, m) ==
  IF NotANumber \in {FirstPart(m), SecondPart(m)}
  THEN UNCHANGED <<replies, handled>>
  ELSE \E answer \in Answers(m) :
         /\ replies' = [replies EXCEPT ![c] = Append(@, answer)]
         /\ handled' = [handled EXCEPT ![c] = Append(@, m)]

Replied(c, m) ==
  /\ \E answer \in Answers(m) :
       replies' = [replies EXCEPT ![c] = Append(@, answer)]
  /\ handled' = [handled EXCEPT ![c] = Append(@, m)]

OnMessage(c) ==
  /\ running /\ state[c] = "open" /\ incoming[c] # <<>>
  /\ incoming' = [incoming EXCEPT ![c] = Tail(@)]
  /\ IF Throws(Head(incoming[c]))
     THEN running' = FALSE /\ UNCHANGED <<handled, replies>>
     ELSE Replied(c, Head(incoming[c])) /\ running' = TRUE
  /\ UNCHANGED <<state, openConnections, asked>>

ServerNext ==
  \/ \E c \in Clients :
       \/ Ask(c)
       \/ Closing(c)
       \/ OnOpen(c)
       \/ OnClose(c)
       \/ OnMessage(c)

ServerSpec == ServerInit /\ [][ServerNext]_serverVars

\* The loop handles what has arrived.  Nobody has to connect, ask or leave.
ServerFairSpec ==
  /\ ServerSpec
  /\ \A c \in Clients : WF_serverVars(OnMessage(c)) /\ WF_serverVars(OnClose(c))

-----------------------------------------------------------------------------
(* Properties *)

\* The vector holds each connection from onOpen to onClose, once.
ConnectionsListed ==
  /\ \A c \in Clients :
       state[c] \in {"open", "closing"} <=>
         \E i \in DOMAIN openConnections : openConnections[i] = c
  /\ \A i, j \in DOMAIN openConnections :
       openConnections[i] = openConnections[j] => i = j

\* onMessage answers what was asked, in order: the exact sum whenever it is an
\* int, and an error that names the first number that is none.
AnswersAreRight ==
  \A c \in Clients :
    /\ Len(replies[c]) = Len(handled[c])
    /\ \A k \in DOMAIN handled[c] :
         LET m == handled[c][k]  r == replies[c][k]
         IN  /\ r.says = "number 1 invalid" <=> FirstPart(m) = NotANumber
             /\ r.says = "number 2 invalid" =>
                  FirstPart(m) \in Integer /\ SecondPart(m) = NotANumber
             /\ r.says = "sum" /\ FirstPart(m) + SecondPart(m) \in Integer =>
                  r.value = FirstPart(m) + SecondPart(m)

\* A client that stays is answered, whatever others do short of sending a
\* number that is too long for an int.
StayersAreAnswered ==
  \A c \in Clients : \A n \in 1 .. MaxMessages :
    Len(incoming[c]) + Len(handled[c]) >= n
      ~> (Len(replies[c]) >= n \/ state[c] # "open" \/ ~running)

=============================================================================
