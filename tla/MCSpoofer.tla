----------------------------- MODULE MCSpoofer ------------------------------
(* Three devices; the scan has found one of them or all; the user excludes *)
(* nobody or the first, which leaves two devices or none.                  *)
EXTENDS Spoofer

CONSTANTS d1, d2, d3

MCNodeLists == {<<d1>>, <<d1, d2, d3>>}
MCBlacklists == {{}, {d1}}
MCTwoNodes == {<<d1, d2>>}
MCNobody == {{}}
=============================================================================
