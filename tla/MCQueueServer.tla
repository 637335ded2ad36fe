--------------------------- MODULE MCQueueServer ----------------------------
(* Two senders, one with a packet larger than a socket's buffer, and two   *)
(* receivers: writes are suspended half way on both sides of the server.   *)
EXTENDS QueueServer

CONSTANTS s1, s2

MCPieces == [s \in Senders |-> IF s = s1 THEN <<2, 1>> ELSE <<1>>]
=============================================================================
