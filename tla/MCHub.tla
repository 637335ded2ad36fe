------------------------------- MODULE MCHub -------------------------------
(* Two instances that may be killed once each, and a broker: the smallest  *)
(* deployment in which one instance's question disturbs the other one's.    *)
(* Two connections of the watchdog's code per instance, two ids, so that a  *)
(* second question can draw the id of the first, two messages to send.      *)
EXTENDS Hub
=============================================================================
