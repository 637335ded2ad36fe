---------------------------- MODULE MCBackendWS -----------------------------
(* Two requests for one action, answered in turn, and one for an action of *)
(* which the server also notifies; two connections.                        *)
EXTENDS BackendWS

CONSTANTS q1, q2, q3

MCAction == [q \in Requests |-> IF q = q3 THEN "updateOption" ELSE "uploadLogs"]
=============================================================================
