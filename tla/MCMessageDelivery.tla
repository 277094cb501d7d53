------------------------- MODULE MCMessageDelivery -------------------------
(* Instances of MessageDelivery for TLC: which messages are user messages,  *)
(* which of those run quietly, and which arrive over the WebSocket.          *)
EXTENDS MessageDelivery

First       == {1}
FirstSecond == {1, 2}
Second      == {2}
NoMsg       == {}

=============================================================================
