--------------------------- MODULE MCAmqpChannel ---------------------------
(* Model checking of AmqpChannel: the frames of receive.cpp and of send.cpp. *)
EXTENDS AmqpChannel

ReceiveSetup == <<"open", "qos", "consume">>
ReceiveCall == <<"publish", "header", "body", "ack">>

SendSetup == <<"open", "declare", "consume">>
SendCall == <<"publish", "header", "body">>

=============================================================================
