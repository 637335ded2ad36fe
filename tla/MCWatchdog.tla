----------------------------- MODULE MCWatchdog -----------------------------
(* Two devices in the table, two (one of them known and ignored) to report, *)
(* two addons and three filters, two modules and one addon at the master,   *)
(* three log messages, two blacklists and three requests; two answers to    *)
(* mDNS and three descriptions, two of one location.                        *)
EXTENDS Watchdog

CONSTANTS o1, o2        \* the classes of addons; the first may have two processes

MCProcesses == {<<o1, 1>>, <<o1, 2>>, <<o2, 1>>}

MCProperties == {<<>>, <<[n |-> "cast", fn |-> "", md |-> ""], [n |-> "c", fn |-> "tv", md |-> "t1"]>>}

MCDescriptions ==
    {[location |-> "80", friendlyName |-> "nas", modelDescription |-> "", modelName |-> "d2", manufacturer |-> ""],
     [location |-> "80", friendlyName |-> "tv", modelDescription |-> "a tv", modelName |-> "t1", manufacturer |-> "m"],
     [location |-> "81", friendlyName |-> "", modelDescription |-> "", modelName |-> "", manufacturer |-> "m"]}

MCLists == <<{"ad"}, {"spy"}>>

MCQueries ==
    {[name |-> "ad",  device |-> "d1", via |-> "interceptor"],
     [name |-> "spy", device |-> "d2", via |-> "resolver"],
     [name |-> "ad",  device |-> "d2", via |-> "resolver"]}
=============================================================================
