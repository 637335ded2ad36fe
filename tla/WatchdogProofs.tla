--------------------------- MODULE WatchdogProofs ---------------------------
(***************************************************************************)
(* Proofs about the parts of the watchdog (module Watchdog): for each part *)
(* an inductive invariant, and that it implies what the part promises when *)
(* nothing is under way in it; in the end all of them of the whole.        *)
(***************************************************************************)
EXTENDS Watchdog, SequenceFacts

-----------------------------------------------------------------------------
(* The table of devices.  A change that the bridge has not been told of is *)
(* in the hands of a handler that is about to report this device, or was   *)
(* hidden; and data waits only where no device is, at every moment.        *)

Node == Macs \X Addrs
Reporters == {"new", "sent", "updated"}
KnownMacs == {m \in Macs : byId[m] # None}
HandlerOK(r, known) ==
    \/ r = Idle
    \/ r \in [at : {"run"}, nodes : Seq(Node) \ {<<>>}]
    \/ r \in [at : Reporters, mac : known, nodes : Seq(Node)]
InHand(h, m) == handler[h].at \in Reporters /\ handler[h].mac = m

TableTypes ==
    /\ TableTypeOK /\ cache \in Seq(Node)
    /\ DOMAIN handler = Slots /\ \A h \in Slots : HandlerOK(handler[h], KnownMacs)
    /\ \A a \in Addrs : byIp[a] # None => byId[byIp[a]] # None
InHands ==
    \A m \in Macs : last[m] = byId[m] \/ m \in masked \/ \E h \in Slots : InHand(h, m)
WaitsApart ==
    \A a \in Addrs : data[a] # None => byIp[a] = None \/ byId[byIp[a]].ip # a
TableInv == TableTypes /\ InHands /\ WaitsApart

LEMMA SettledFromTableInv == TableInv => TableTypeOK /\ TableSettled
BY DEF TableInv, TableTypes, InHands, WaitsApart, InHand, Reporters, TableSettled, EveryChangeReported,
       DataTakenUp, Quiet, Idle

LEMMA InitTableInv == TableInit => TableInv
<1> SUFFICES ASSUME TableInit PROVE TableInv
  OBVIOUS
<1>1. TableTypes
  <2>1. <<>> \in Seq(Node)
    OBVIOUS
  <2> QED
    BY <2>1 DEF TableInit, TableTypes, TableTypeOK, HandlerOK
<1>2. InHands /\ WaitsApart
  BY DEF TableInit, InHands, WaitsApart
<1> QED
  BY <1>1, <1>2 DEF TableInv

\* What a handler becomes, and what is left alone, when no device is forgotten.
LEMMA HandlersStayOK ==
    ASSUME NEW h \in Slots, NEW r, NEW before, NEW after, NEW known, NEW later,
           DOMAIN before = Slots, \A s \in Slots : HandlerOK(before[s], known),
           after = [before EXCEPT ![h] = r], HandlerOK(r, later), known \subseteq later
    PROVE  DOMAIN after = Slots /\ \A s \in Slots : HandlerOK(after[s], later)
<1> SUFFICES ASSUME NEW s \in Slots PROVE HandlerOK(after[s], later)
  OBVIOUS
<1>1. CASE s = h
  BY <1>1
<1>2. CASE s # h
  <2>1. after[s] = before[s] /\ HandlerOK(before[s], known)
    BY <1>2
  <2> QED
    BY <2>1 DEF HandlerOK
<1> QED
  BY <1>1, <1>2

LEMMA WhatHandlersBecome ==
    ASSUME NEW m, NEW known, m \in known, NEW nodes \in Seq(Node), NEW at \in Reporters
    PROVE  HandlerOK(Reporting(at, m, nodes), known) /\ HandlerOK(Run(nodes), known)
BY DEF HandlerOK, Reporting, Run

LEMMA HandlersKeepOK ==
    ASSUME TableTypes, NEW h \in Slots, NEW r, handler' = [handler EXCEPT ![h] = r],
           HandlerOK(r, KnownMacs'), KnownMacs \subseteq KnownMacs'
    PROVE  DOMAIN handler' = Slots /\ \A s \in Slots : HandlerOK(handler'[s], KnownMacs')
<1>1. DOMAIN handler = Slots /\ \A s \in Slots : HandlerOK(handler[s], KnownMacs)
  BY DEF TableTypes
<1> QED
  BY <1>1, HandlersStayOK, ZenonT(60)

\* What holds wherever add ends for a device.
Finishable(h, m, d, updated, naming, rest) ==
    /\ h \in Slots /\ m \in Macs /\ byId[m] # None /\ d \in Device /\ updated \in BOOLEAN
    /\ naming \in [Addrs -> Names \cup {None}] /\ rest \in Seq(Node)
    /\ d = byId[m] \/ updated
    /\ InHand(h, m) => updated
    /\ \A x \in Macs \ {m} : ~InHand(h, x)
    /\ \A a \in Addrs : naming[a] # None => byIp[a] \in {None, m} \/ byId[byIp[a]].ip # a

LEMMA FinishTableInv ==
    ASSUME TableInv, NEW h, NEW m, NEW d, NEW updated, NEW naming, NEW rest,
           Finishable(h, m, d, updated, naming, rest), Finish(h, m, d, updated, naming, rest),
           UNCHANGED <<cache, raw, last>>
    PROVE  TableInv'
<1> USE DEF Finishable
<1> h \in Slots /\ m \in Macs /\ byId[m] # None /\ d \in Device /\ updated \in BOOLEAN
    /\ naming \in [Addrs -> Names \cup {None}] /\ rest \in Seq(Node)
  OBVIOUS
<1> DEFINE new == IF naming[d.ip] # None THEN [d EXCEPT !.name = naming[d.ip]] ELSE d
           tells == IF naming[d.ip] # None THEN new # d ELSE updated
           r == IF tells THEN Reporting("updated", m, rest) ELSE Run(rest)
<1>1. new \in Device /\ new.ip = d.ip
  BY DEF Device
<1>2. new # None
  BY <1>1, TableAssumption DEF Device
<1>3. /\ byIp' = [byIp EXCEPT ![d.ip] = m] /\ byId' = [byId EXCEPT ![m] = new]
      /\ data' = [naming EXCEPT ![d.ip] = None]
      /\ masked' = IF naming[d.ip] # None /\ updated /\ ~tells THEN masked \cup {m} ELSE masked
      /\ handler' = [handler EXCEPT ![h] = r]
  BY DEF Finish, Becomes
<1> d.ip \in Addrs
  BY DEF Device
<1>4. tells \/ new = byId[m] \/ m \in masked'
  BY <1>3
<1> HIDE DEF new
<1>5. TableTypeOK'
  BY <1>1, <1>3 DEF TableInv, TableTypes, TableTypeOK
<1>6. \A x \in Macs : byId[x] # None => byId'[x] # None
  BY <1>2, <1>3 DEF TableInv, TableTypes, TableTypeOK
<1>7. HandlerOK(r, KnownMacs')
  <2>1. m \in KnownMacs'
    BY <1>2, <1>3 DEF TableInv, TableTypes, TableTypeOK, KnownMacs
  <2>2. "updated" \in Reporters
    BY DEF Reporters
  <2> QED
    BY <2>1, <2>2, WhatHandlersBecome
<1>8. TableTypes'
  <2>1. DOMAIN handler' = Slots /\ \A s \in Slots : HandlerOK(handler'[s], KnownMacs')
    <3>1. KnownMacs \subseteq KnownMacs'
      BY <1>6 DEF KnownMacs
    <3> QED
      BY <1>3, <1>7, <3>1, HandlersKeepOK DEF TableInv
  <2>2. \A a \in Addrs : byIp'[a] # None => byId'[byIp'[a]] # None
    BY <1>2, <1>3, <1>6 DEF TableInv, TableTypes, TableTypeOK
  <2> QED
    BY <1>5, <2>1, <2>2 DEF TableInv, TableTypes
<1>9. InHands'
  <2> SUFFICES ASSUME NEW x \in Macs PROVE last'[x] = byId'[x] \/ x \in masked' \/ \E s \in Slots : InHand(s, x)'
    BY DEF InHands
  <2>1. CASE x = m
    <3>1. CASE tells
      BY <1>3, <2>1, <3>1 DEF InHand, Reporting, Reporters, TableInv, TableTypes
    <3>2. CASE ~tells /\ new = byId[m]
      <4>1. byId'[x] = byId[x]
        BY <1>3, <2>1, <3>2 DEF TableInv, TableTypes, TableTypeOK
      <4>2. CASE last[x] = byId[x] \/ x \in masked
        BY <1>3, <4>1, <4>2
      <4>3. CASE \E s \in Slots \ {h} : InHand(s, x)
        BY <1>3, <4>3 DEF InHand, TableInv, TableTypes
      <4>4. CASE InHand(h, x)
        BY <1>3, <2>1, <3>2, <4>4
      <4> QED
        BY <4>2, <4>3, <4>4 DEF TableInv, InHands
    <3> QED
      BY <1>4, <2>1, <3>1, <3>2
  <2>2. CASE x # m
    <3>1. byId'[x] = byId[x] /\ ~InHand(h, x)
      BY <1>3, <2>2 DEF TableInv, TableTypes, TableTypeOK
    <3> QED
      BY <1>3, <3>1 DEF InHand, TableInv, TableTypes, InHands
  <2> QED
    BY <2>1, <2>2
<1>10. WaitsApart'
  <2> SUFFICES ASSUME NEW a \in Addrs, data'[a] # None PROVE byIp'[a] = None \/ byId'[byIp'[a]].ip # a
    BY DEF WaitsApart
  <2>1. a # d.ip /\ naming[a] # None /\ byIp'[a] = byIp[a]
    BY <1>3 DEF TableInv, TableTypes, TableTypeOK
  <2>2. CASE byIp[a] = m
    BY <1>1, <1>3, <2>1, <2>2 DEF TableInv, TableTypes, TableTypeOK
  <2>3. CASE byIp[a] # m /\ byIp[a] # None
    BY <1>3, <2>1, <2>3 DEF TableInv, TableTypes, TableTypeOK
  <2> QED
    BY <2>1, <2>2, <2>3
<1> QED
  BY <1>8, <1>9, <1>10 DEF TableInv

LEMMA HeadTailNode ==
    ASSUME NEW s \in Seq(Node), s # <<>>
    PROVE  Head(s)[1] \in Macs /\ Head(s)[2] \in Addrs /\ Tail(s) \in Seq(Node)
BY DEF Node

\* A handler that is free or walks through its nodes has no device in hand.
LEMMA NoneInHand ==
    ASSUME NEW h \in Slots, NEW m, handler[h] = Idle \/ handler[h].at = "run" PROVE ~InHand(h, m)
BY DEF InHand, Reporters, Idle

LEMMA AddNodeTableInv ==
    ASSUME TableInv, NEW h \in Slots, NEW owed \in BOOLEAN, AddNode(h, owed) PROVE TableInv'
<1> DEFINE m == Head(handler[h].nodes)[1]
           a == Head(handler[h].nodes)[2]
           rest == Tail(handler[h].nodes)
<1>1. handler[h].at = "run" /\ handler[h].nodes \in Seq(Node) /\ handler[h].nodes # <<>>
  BY DEF AddNode, TableInv, TableTypes, HandlerOK, Reporters, Idle
<1>2. m \in Macs /\ a \in Addrs /\ rest \in Seq(Node)
  BY <1>1, HeadTailNode
<1>3. \A x : ~InHand(h, x)
  BY <1>1, NoneInHand
<1>4. IF byId[m] = None
      THEN /\ byId' = [byId EXCEPT ![m] = [ip |-> a, name |-> None]]
           /\ handler' = [handler EXCEPT ![h] = Reporting("new", m, rest)]
           /\ UNCHANGED <<byIp, data, masked>>
      ELSE Finish(h, m, Merged(m, a), owed \/ Merged(m, a) # byId[m], data, rest)
  BY DEF AddNode, Becomes
<1>5. UNCHANGED <<cache, raw, last>>
  BY DEF AddNode
<1> HIDE DEF m, a, rest
<1>6. CASE byId[m] # None
  <2>1. Merged(m, a) \in Device
    BY <1>2, <1>6 DEF Merged, Device, TableInv, TableTypes, TableTypeOK
  <2>2. data \in [Addrs -> Names \cup {None}]
    BY DEF TableInv, TableTypes, TableTypeOK
  <2>3. \A x \in Addrs : data[x] # None => byIp[x] \in {None, m} \/ byId[byIp[x]].ip # x
    BY DEF TableInv, WaitsApart
  <2> DEFINE updated == owed \/ Merged(m, a) # byId[m]
  <2>4. updated \in BOOLEAN /\ (Merged(m, a) = byId[m] \/ updated)
    OBVIOUS
  <2>5. Finish(h, m, Merged(m, a), updated, data, rest)
    BY <1>4, <1>6
  <2>6. InHand(h, m) => updated
    BY <1>3
  <2> HIDE DEF updated
  <2>7. Finishable(h, m, Merged(m, a), updated, data, rest)
    BY <1>2, <1>3, <1>6, <2>1, <2>2, <2>3, <2>4, <2>6 DEF Finishable
  <2> QED
    BY <1>5, <2>5, <2>7, FinishTableInv
<1>7. CASE byId[m] = None
  <2> DEFINE r == Reporting("new", m, rest)
  <2>1. /\ byId' = [byId EXCEPT ![m] = [ip |-> a, name |-> None]]
        /\ handler' = [handler EXCEPT ![h] = r]
        /\ UNCHANGED <<byIp, data, masked, cache, raw, last>>
    BY <1>4, <1>5, <1>7
  <2>2. [ip |-> a, name |-> None] \in Device /\ [ip |-> a, name |-> None] # None
    BY <1>2, TableAssumption DEF Device
  <2>3. byId'[m] # None /\ \A x \in Macs : byId[x] # None => byId'[x] = byId[x]
    BY <1>2, <1>7, <2>1, <2>2 DEF TableInv, TableTypes, TableTypeOK
  <2>4. TableTypeOK'
    BY <1>2, <2>1, <2>2 DEF TableInv, TableTypes, TableTypeOK
  <2>5. HandlerOK(r, KnownMacs')
    <3>1. m \in KnownMacs' /\ "new" \in Reporters
      BY <1>2, <2>3 DEF KnownMacs, Reporters
    <3> QED
      BY <1>2, <3>1, WhatHandlersBecome
  <2>6. TableTypes'
    <3>1. DOMAIN handler' = Slots /\ \A s \in Slots : HandlerOK(handler'[s], KnownMacs')
      <4>1. KnownMacs \subseteq KnownMacs'
        BY <2>3 DEF KnownMacs
      <4> QED
        BY <2>1, <2>5, <4>1, HandlersKeepOK DEF TableInv
    <3>2. \A x \in Addrs : byIp'[x] # None => byId'[byIp'[x]] # None
      BY <2>1, <2>3 DEF TableInv, TableTypes, TableTypeOK
    <3> QED
      BY <2>1, <2>4, <3>1, <3>2 DEF TableInv, TableTypes
  <2>7. InHands'
    <3> SUFFICES ASSUME NEW x \in Macs PROVE last'[x] = byId'[x] \/ x \in masked' \/ \E s \in Slots : InHand(s, x)'
      BY DEF InHands
    <3>1. CASE x = m
      BY <2>1, <3>1 DEF InHand, Reporting, Reporters, TableInv, TableTypes
    <3>2. CASE x # m
      <4>1. byId'[x] = byId[x] /\ ~InHand(h, x)
        BY <1>2, <1>3, <2>1, <3>2 DEF TableInv, TableTypes, TableTypeOK
      <4> QED
        BY <2>1, <4>1 DEF InHand, TableInv, TableTypes, InHands
    <3> QED
      BY <3>1, <3>2
  <2>8. WaitsApart'
    BY <2>1, <2>3, <1>7 DEF TableInv, TableTypes, TableTypeOK, WaitsApart
  <2> QED
    BY <2>6, <2>7, <2>8 DEF TableInv
<1> QED
  BY <1>6, <1>7

LEMMA ReportTableInv == ASSUME TableInv, NEW h \in Slots, Report(h) PROVE TableInv'
<1> DEFINE m == handler[h].mac
           r == IF handler[h].at = "new" THEN [handler[h] EXCEPT !.at = "sent"] ELSE Run(handler[h].nodes)
<1>1. /\ handler[h] \in [at : Reporters, mac : KnownMacs, nodes : Seq(Node)]
  BY DEF Report, TableInv, TableTypes, HandlerOK, Idle
<1>2. /\ last' = [last EXCEPT ![m] = byId[m]] /\ masked' = masked \ {m}
      /\ handler' = [handler EXCEPT ![h] = r]
      /\ UNCHANGED <<cache, byId, byIp, data, raw>>
  BY DEF Report, Becomes
<1>3. HandlerOK(r, KnownMacs')
  <2>1. KnownMacs' = KnownMacs
    BY <1>2 DEF KnownMacs
  <2>2. CASE handler[h].at = "new"
    BY <1>1, <2>1, <2>2 DEF HandlerOK, Reporters
  <2>3. CASE handler[h].at # "new"
    BY <1>1, <2>1, <2>3 DEF HandlerOK, Run
  <2> QED
    BY <2>2, <2>3
<1>4. m \in Macs
  BY <1>1 DEF KnownMacs
<1> HIDE DEF r, m
<1>5. TableTypes'
  <2>1. DOMAIN handler' = Slots /\ \A s \in Slots : HandlerOK(handler'[s], KnownMacs')
    <3>1. KnownMacs \subseteq KnownMacs'
      BY <1>2 DEF KnownMacs
    <3> QED
      BY <1>2, <1>3, <3>1, HandlersKeepOK DEF TableInv
  <2>2. TableTypeOK'
    BY <1>2, <1>4 DEF TableInv, TableTypes, TableTypeOK
  <2> QED
    BY <1>2, <2>1, <2>2 DEF TableInv, TableTypes
<1>6. InHands'
  <2> SUFFICES ASSUME NEW x \in Macs PROVE last'[x] = byId'[x] \/ x \in masked' \/ \E s \in Slots : InHand(s, x)'
    BY DEF InHands
  <2>1. CASE x = m
    BY <1>2, <2>1 DEF TableInv, TableTypes, TableTypeOK
  <2>2. CASE x # m
    <3>1. ~InHand(h, x)
      BY <2>2 DEF InHand, m
    <3> QED
      BY <1>2, <2>2, <3>1 DEF InHand, TableInv, TableTypes, TableTypeOK, InHands
  <2> QED
    BY <2>1, <2>2
<1>7. WaitsApart'
  BY <1>2 DEF TableInv, WaitsApart
<1> QED
  BY <1>5, <1>6, <1>7 DEF TableInv

LEMMA AddResumesTableInv == ASSUME TableInv, NEW h \in Slots, AddResumes(h) PROVE TableInv'
<1> DEFINE m == handler[h].mac
<1>1. handler[h] \in [at : Reporters, mac : KnownMacs, nodes : Seq(Node)]
  BY DEF AddResumes, TableInv, TableTypes, HandlerOK, Idle
<1>2. m \in Macs /\ byId[m] # None /\ handler[h].nodes \in Seq(Node)
  BY <1>1 DEF KnownMacs
<1>3. byId[m] \in Device /\ data \in [Addrs -> Names \cup {None}]
  BY <1>2 DEF TableInv, TableTypes, TableTypeOK
<1>4. \A x \in Macs \ {m} : ~InHand(h, x)
  BY DEF InHand
<1>5. \A x \in Addrs : data[x] # None => byIp[x] \in {None, m} \/ byId[byIp[x]].ip # x
  BY DEF TableInv, WaitsApart
<1>6. Finish(h, m, byId[m], TRUE, data, handler[h].nodes) /\ UNCHANGED <<cache, raw, last>>
  BY DEF AddResumes
<1> HIDE DEF m
<1>7. Finishable(h, m, byId[m], TRUE, data, handler[h].nodes)
  BY <1>2, <1>3, <1>4, <1>5 DEF Finishable
<1> QED
  BY <1>6, <1>7, FinishTableInv

LEMMA OnNetdiscoTableInv ==
    ASSUME TableInv, NEW h \in Slots, NEW a \in Addrs, NEW n \in Names, OnNetdisco(h, a, n) PROVE TableInv'
<1> DEFINE naming == [data EXCEPT ![a] = n]
           m == byIp[a]
<1>1. naming \in [Addrs -> Names \cup {None}] /\ <<>> \in Seq(Node)
  BY DEF TableInv, TableTypes, TableTypeOK
<1>2. UNCHANGED <<cache, raw, last>>
  BY DEF OnNetdisco
<1>3. CASE m = None
  <2>1. data' = naming /\ UNCHANGED <<byId, byIp, handler, masked>>
    BY <1>3 DEF OnNetdisco
  <2>2. TableTypes'
    BY <1>1, <1>2, <2>1 DEF TableInv, TableTypes, TableTypeOK, KnownMacs
  <2>3. InHands'
    BY <1>2, <2>1 DEF TableInv, InHands, InHand
  <2>4. WaitsApart'
    BY <1>3, <2>1 DEF TableInv, TableTypes, TableTypeOK, WaitsApart
  <2> QED
    BY <2>2, <2>3, <2>4 DEF TableInv
<1>4. CASE m # None
  <2>1. Finish(h, m, byId[m], FALSE, naming, <<>>) /\ handler[h] = Idle
    BY <1>4 DEF OnNetdisco, Free
  <2>2. m \in Macs /\ byId[m] # None /\ byId[m] \in Device
    BY <1>4 DEF TableInv, TableTypes, TableTypeOK
  <2>3. \A x : ~InHand(h, x)
    BY <2>1, NoneInHand
  <2>4. \A x \in Addrs : naming[x] # None => byIp[x] \in {None, m} \/ byId[byIp[x]].ip # x
    BY DEF TableInv, TableTypes, TableTypeOK, WaitsApart
  <2>5. FALSE \in BOOLEAN /\ byId[m] = byId[m] /\ (InHand(h, m) => FALSE) /\ \A x \in Macs \ {m} : ~InHand(h, x)
    BY <2>3
  <2> HIDE DEF m, naming
  <2>6. Finishable(h, m, byId[m], FALSE, naming, <<>>)
    BY <1>1, <2>2, <2>4, <2>5 DEF Finishable
  <2> QED
    BY <1>2, <2>1, <2>6, FinishTableInv
<1> QED
  BY <1>3, <1>4

LEMMA OnNodeconfigTableInv == ASSUME TableInv, NEW h \in Slots, OnNodeconfig(h) PROVE TableInv'
<1>1. handler[h] = Idle /\ cache # <<>> /\ handler' = [handler EXCEPT ![h] = Run(cache)]
      /\ UNCHANGED <<cache, byId, byIp, data, raw, last, masked>>
  BY DEF OnNodeconfig, Free, Becomes
<1>2. HandlerOK(Run(cache), KnownMacs')
  BY <1>1 DEF HandlerOK, Run, TableInv, TableTypes
<1>3. TableTypes'
  <2>1. DOMAIN handler' = Slots /\ \A s \in Slots : HandlerOK(handler'[s], KnownMacs')
    <3>1. KnownMacs \subseteq KnownMacs'
      BY <1>1 DEF KnownMacs
    <3> QED
      BY <1>1, <1>2, <3>1, HandlersKeepOK DEF TableInv
  <2> QED
    BY <1>1, <2>1 DEF TableInv, TableTypes, TableTypeOK
<1>4. \A x : ~InHand(h, x)
  BY <1>1, NoneInHand
<1>5. InHands'
  BY <1>1, <1>4 DEF TableInv, TableTypes, InHands, InHand
<1>6. WaitsApart'
  BY <1>1 DEF TableInv, WaitsApart
<1> QED
  BY <1>3, <1>5, <1>6 DEF TableInv

LEMMA ArpReplyTableInv == ASSUME TableInv, NEW m \in Macs, NEW a \in Addrs, ArpReply(m, a) PROVE TableInv'
<1>1. UNCHANGED <<byId, byIp, data, raw, handler, last, masked>>
  BY DEF ArpReply
<1>2. <<m, a>> \in Node
  BY DEF Node
<1>3. cache' \in Seq(Node)
  <2>1. CASE KnownAt(m) = {}
    BY <1>2, <2>1 DEF ArpReply, TableInv, TableTypes
  <2>2. CASE KnownAt(m) # {}
    <3> DEFINE k == CHOOSE k \in KnownAt(m) : TRUE
    <3>1. k \in DOMAIN cache
      BY <2>2 DEF KnownAt
    <3>2. cache' = [cache EXCEPT ![k] = <<m, a>>]
      BY <2>2 DEF ArpReply
    <3> QED
      BY <1>2, <3>1, <3>2 DEF TableInv, TableTypes
  <2> QED
    BY <2>1, <2>2
<1> QED
  BY <1>1, <1>3 DEF TableInv, TableTypes, TableTypeOK, KnownMacs, InHands, InHand, WaitsApart

LEMMA UnchangedTableInv == TableInv /\ UNCHANGED tableVars => TableInv'
BY DEF TableInv, TableTypes, TableTypeOK, KnownMacs, InHands, InHand, WaitsApart, tableVars

LEMMA NextTableInv == ASSUME TableInv, TableNext PROVE TableInv'
<1>1. CASE OnDhcp
  BY <1>1 DEF OnDhcp, TableInv, TableTypes, TableTypeOK, KnownMacs, InHands, InHand, WaitsApart
<1> QED
  BY <1>1, ArpReplyTableInv, OnNodeconfigTableInv, AddNodeTableInv, ReportTableInv, AddResumesTableInv,
     OnNetdiscoTableInv DEF TableNext, HandlerStep

\* Between two events the bridge has been told of every device as it is, unless
\* a change was hidden, and data waits only where no device is
\* (deviceid.py): for any number of handlers, devices and addresses.
THEOREM TableStaysSettled == TableSpec => [](TableTypeOK /\ TableSettled)
<1>1. TableInv /\ [TableNext]_tableVars => TableInv'
  BY NextTableInv, UnchangedTableInv
<1> QED
  BY <1>1, InitTableInv, SettledFromTableInv, PTL DEF TableSpec

-----------------------------------------------------------------------------
(* The bridge.  A report is told, its handler registers the device, then   *)
(* uploads.  Of one device the later report is always behind the earlier   *)
(* one, until its address is sent; so what is sent last is the last one,   *)
(* or that one's handler has died.                                         *)

ReportOf     == [dev : Reported, ver : Nat]
OptionKeys   == {"mac", "ipv4", "first_seen"}
AddressAhead == {<<"ipv4">>, <<"ipv4", "first_seen">>}
AddressSent  == {<<>>, <<"first_seen">>}

Uploads(r)  == r.at = "option" /\ r.left \in AddressAhead
Unfinished(r) == r.at = "register" \/ Uploads(r)

HandlerTask(r) ==
    \/ r = Resting
    \/ r.at = "register" /\ r.ev \in ReportOf
    \/ r.at = "option" /\ r.ev \in ReportOf /\ r.left \in AddressAhead \cup AddressSent

Askers == Tasks \cup {"nobody"}
RegisterMsgs == [action : {"registerDevice"}, dev : Reported, by : Askers]
OptionMsgs   == [action : {"updateOption"}, dev : Reported, key : OptionKeys, value : Nat, by : Askers]
InfoMsgs     == [action : {"requestInfo"}, by : Askers]
Answered     == [action : {"registerDevice", "updateOption", "updateStatus"}, from : {"push", "reply"},
                 success : BOOLEAN]
Infos        == [action : {"requestInfo"}, from : {"reply"}, ignored : SUBSET Reported, fails : BOOLEAN]

ReportTypes ==
    /\ told \in Seq(ReportOf)
    /\ version \in [Reported -> Nat] /\ gone \in [Reported -> Nat]
    /\ seen \in 0 .. MaxReports
    /\ DOMAIN task = Tasks /\ waiting \in [Actions -> Seq(Tasks)]
    /\ \A h \in Handlers : HandlerTask(task[h])
    /\ \A t \in Tasks \ Handlers : task[t].at \in {"rest", "info", "failed"}
    /\ up \in Seq(RegisterMsgs \cup OptionMsgs \cup InfoMsgs)
    /\ down \in Seq(Answered \cup Infos)
    /\ status \in [Reported -> {0, 1, Unknown}]
    /\ options \in [Reported -> [OptionKeys -> Nat \cup {Unknown}]]
    /\ stray \subseteq {d \in Reported : status[d] = Unknown}
    /\ whitelist \subseteq Reported

\* Nothing is newer than the last report.
ReportBounds ==
    /\ \A d \in Reported : version[d] <= seen /\ gone[d] <= version[d]
    /\ \A i \in DOMAIN told : told[i].ver <= version[told[i].dev]
    /\ \A h \in Handlers : task[h] # Resting => task[h].ev.ver <= version[task[h].ev.dev]
    /\ \A i \in DOMAIN up : up[i].action = "updateOption" => up[i].value <= version[up[i].dev]

\* Who waits for a message, by what it does.
InLine(q, tk, at) ==
    /\ q \in Seq(Tasks) /\ IsInjective(q)
    /\ \A i \in DOMAIN q : tk[q[i]].at = at
    /\ \A t \in Tasks : tk[t].at = at => \E i \in DOMAIN q : q[i] = t

\* In the order of their reports.
Orderly(q, tk) ==
    \A i, j \in DOMAIN q :
        /\ i < j /\ Unfinished(tk[q[i]]) /\ Unfinished(tk[q[j]])
        /\ tk[q[i]].ev.dev = tk[q[j]].ev.dev
        => tk[q[i]].ev.ver < tk[q[j]].ev.ver

Lines(wait, tk) ==
    /\ InLine(wait["requestInfo"], tk, "info")
    /\ InLine(wait["registerDevice"], tk, "register")
    /\ InLine(wait["updateOption"], tk, "option")
    /\ Orderly(wait["registerDevice"], tk)
    /\ Orderly(wait["updateOption"], tk)

Behind(r, q) == r.at = "register" /\ Uploads(q) /\ r.ev.dev = q.ev.dev => q.ev.ver < r.ev.ver
UploadsFirst(tk) == \A h, k \in Handlers : Behind(tk[h], tk[k])

Rising(line) ==
    \A i, j \in DOMAIN line : i < j /\ line[i].dev = line[j].dev => line[i].ver < line[j].ver
ToldLater(r, line) ==
    \A i \in DOMAIN line : Unfinished(r) /\ r.ev.dev = line[i].dev => r.ev.ver < line[i].ver

ReportOrder ==
    /\ Lines(waiting, task) /\ UploadsFirst(task)
    /\ Rising(told) /\ \A h \in Handlers : ToldLater(task[h], told)

\* What becomes of a device's last report.
IsAddress(m, d) == m.action = "updateOption" /\ m.dev = d /\ m.key = "ipv4"
Pending(d, v, tell, tk) ==
    \/ \E i \in DOMAIN tell : tell[i] = [dev |-> d, ver |-> v]
    \/ \E h \in Handlers : Unfinished(tk[h]) /\ tk[h].ev = [dev |-> d, ver |-> v]
AllTold(d, tell, tk) ==
    /\ \A i \in DOMAIN tell : tell[i].dev # d
    /\ \A h \in Handlers : ~(Unfinished(tk[h]) /\ tk[h].ev.dev = d)
Shown(d, v, sent, opts) ==
    \/ \E i \in DOMAIN sent :
         /\ IsAddress(sent[i], d) /\ sent[i].value = v
         /\ \A j \in DOMAIN sent : j > i => ~IsAddress(sent[j], d)
    \/ opts[d].ipv4 = v /\ \A j \in DOMAIN sent : ~IsAddress(sent[j], d)

Destiny(d) ==
    \/ gone[d] = version[d]
    \/ Pending(d, version[d], told, task)
    \/ AllTold(d, told, task) /\ Shown(d, version[d], up, options)
ReportFate == \A d \in Reported : Destiny(d)

ReportInv == ReportTypes /\ ReportBounds /\ ReportOrder /\ ReportFate

(* Of the lines.  tk2 is tk but for the task t.                            *)

OnlyOf(t, tk, tk2) == \A u \in Tasks : u # t => tk2[u] = tk[u]

LEMMA HeadGone ==
    ASSUME NEW S, NEW q \in Seq(S), IsInjective(q), q # <<>>
    PROVE  /\ Head(q) \in S /\ Head(q) = q[1] /\ 1 \in DOMAIN q /\ Tail(q) \in Seq(S) /\ IsInjective(Tail(q))
           /\ \A i \in DOMAIN Tail(q) : i \in Nat /\ i + 1 \in DOMAIN q /\ Tail(q)[i] = q[i + 1] /\ Tail(q)[i] # Head(q)
           /\ \A k \in DOMAIN q : k \in Nat /\ (q[k] # Head(q) => \E i \in DOMAIN Tail(q) : Tail(q)[i] = q[k])
<1>1. /\ Head(q) \in S /\ Head(q) = q[1] /\ 1 \in DOMAIN q /\ Tail(q) \in Seq(S)
      /\ \A i \in DOMAIN Tail(q) : i \in Nat /\ i + 1 \in DOMAIN q /\ Tail(q)[i] = q[i + 1]
      /\ \A k \in DOMAIN q : k \in Nat /\ (k = 1 \/ (k - 1 \in DOMAIN Tail(q) /\ Tail(q)[k - 1] = q[k]))
  BY TailFacts
<1> DEFINE r == Tail(q)
           h == Head(q)
<1> HIDE DEF r, h
<1>2. \A i, j \in DOMAIN q : q[i] = q[j] => i = j
  BY DEF IsInjective
<1>3. \A i, j \in DOMAIN r : r[i] = r[j] => i = j
  <2> SUFFICES ASSUME NEW i \in DOMAIN r, NEW j \in DOMAIN r, r[i] = r[j] PROVE i = j
    OBVIOUS
  <2>1. i \in Nat /\ j \in Nat /\ i + 1 = j + 1
    BY <1>1, <1>2 DEF r
  <2> QED
    BY <2>1
<1>4. \A i \in DOMAIN r : r[i] # h
  <2> SUFFICES ASSUME NEW i \in DOMAIN r, r[i] = h PROVE FALSE
    OBVIOUS
  <2>1. i \in Nat /\ i + 1 = 1
    BY <1>1, <1>2 DEF r, h
  <2>2. i # 0
    BY <1>1 DEF r
  <2> QED
    BY <2>1, <2>2
<1>5. IsInjective(r)
  BY <1>3 DEF IsInjective
<1>6. \A k \in DOMAIN q : q[k] # h => \E i \in DOMAIN r : r[i] = q[k]
  BY <1>1 DEF r, h
<1> QED
  BY <1>1, <1>4, <1>5, <1>6 DEF r, h

LEMMA LineJoins ==
    ASSUME NEW q, NEW tk, NEW tk2, NEW t \in Tasks, NEW at,
           InLine(q, tk, at), tk[t].at # at, tk2[t].at = at, OnlyOf(t, tk, tk2)
    PROVE  InLine(Append(q, t), tk2, at)
<1>1. /\ q \in Seq(Tasks) /\ IsInjective(q) /\ (\A i \in DOMAIN q : tk[q[i]].at = at)
      /\ \A u \in Tasks : tk[u].at = at => \E i \in DOMAIN q : q[i] = u
  BY DEF InLine
<1>2. \A i \in DOMAIN q : q[i] \in Tasks /\ q[i] # t /\ tk2[q[i]] = tk[q[i]]
  <2> TAKE i \in DOMAIN q
  <2>1. q[i] \in Tasks
    BY <1>1
  <2>2. q[i] # t
    BY <1>1
  <2> QED
    BY <2>1, <2>2 DEF OnlyOf
<1> DEFINE r == Append(q, t)
<1>3. /\ r \in Seq(Tasks) /\ Len(q) + 1 \in DOMAIN r /\ r[Len(q) + 1] = t
      /\ \A k \in DOMAIN q : k \in DOMAIN r /\ r[k] = q[k]
      /\ \A k \in DOMAIN r : (k \in DOMAIN q /\ r[k] = q[k]) \/ (k = Len(q) + 1 /\ r[k] = t)
      /\ (t \notin ToSet(q) => IsInjective(r))
  BY <1>1, AppendFacts
<1>4. t \notin ToSet(q)
  BY <1>2 DEF ToSet
<1> HIDE DEF r
<1>5. \A i \in DOMAIN r : tk2[r[i]].at = at
  BY <1>1, <1>2, <1>3
<1>6. \A u \in Tasks : tk2[u].at = at => \E i \in DOMAIN r : r[i] = u
  BY <1>1, <1>2, <1>3 DEF OnlyOf
<1>7. InLine(r, tk2, at)
  BY <1>3, <1>4, <1>5, <1>6 DEF InLine
<1> QED
  BY <1>7 DEF r

LEMMA LineStays ==
    ASSUME NEW q, NEW tk, NEW tk2, NEW t \in Tasks, NEW at,
           InLine(q, tk, at), tk[t].at # at, tk2[t].at # at, OnlyOf(t, tk, tk2)
    PROVE  InLine(q, tk2, at)
<1>1. \A i \in DOMAIN q : q[i] \in Tasks /\ q[i] # t
  BY DEF InLine
<1> QED
  BY <1>1 DEF InLine, OnlyOf

LEMMA LineMoves ==
    ASSUME NEW q, NEW tk, NEW tk2, NEW at, q # <<>>,
           InLine(q, tk, at), tk2[Head(q)].at # at, OnlyOf(Head(q), tk, tk2)
    PROVE  InLine(Tail(q), tk2, at)
<1> DEFINE t == Head(q)
           r == Tail(q)
<1>1. /\ t \in Tasks /\ r \in Seq(Tasks) /\ IsInjective(r) /\ tk2[t].at # at /\ OnlyOf(t, tk, tk2)
      /\ \A i \in DOMAIN r : i + 1 \in DOMAIN q /\ r[i] = q[i + 1] /\ r[i] # t
      /\ \A k \in DOMAIN q : q[k] # t => \E i \in DOMAIN r : r[i] = q[k]
  BY HeadGone DEF InLine
<1>2. \A i \in DOMAIN r : r[i] \in Tasks
  BY <1>1
<1> HIDE DEF t, r
<1>3. \A i \in DOMAIN r : tk2[r[i]].at = at
  <2> TAKE i \in DOMAIN r
  <2>1. tk2[r[i]] = tk[r[i]]
    BY <1>1, <1>2 DEF OnlyOf
  <2>2. tk[q[i + 1]].at = at
    BY <1>1 DEF InLine
  <2>3. r[i] = q[i + 1]
    BY <1>1
  <2> QED
    BY <2>1, <2>2, <2>3
<1>4. \A u \in Tasks : tk2[u].at = at => \E i \in DOMAIN r : r[i] = u
  <2> SUFFICES ASSUME NEW u \in Tasks, tk2[u].at = at PROVE \E i \in DOMAIN r : r[i] = u
    OBVIOUS
  <2>1. u # t /\ tk[u].at = at
    BY <1>1 DEF OnlyOf
  <2>2. PICK k \in DOMAIN q : q[k] = u
    BY <2>1 DEF InLine
  <2> QED
    BY <1>1, <2>1, <2>2
<1> QED
  BY <1>1, <1>3, <1>4 DEF InLine, r

LEMMA LineTurns ==
    ASSUME NEW q, NEW tk, NEW tk2, NEW at, q # <<>>,
           InLine(q, tk, at), tk2[Head(q)].at = at, OnlyOf(Head(q), tk, tk2)
    PROVE  InLine(Append(Tail(q), Head(q)), tk2, at)
<1> DEFINE t == Head(q)
           r == Tail(q)
           s == Append(r, t)
<1>1. /\ t \in Tasks /\ r \in Seq(Tasks) /\ IsInjective(r) /\ tk2[t].at = at /\ OnlyOf(t, tk, tk2)
      /\ \A i \in DOMAIN r : i + 1 \in DOMAIN q /\ r[i] = q[i + 1] /\ r[i] # t
      /\ \A k \in DOMAIN q : q[k] # t => \E i \in DOMAIN r : r[i] = q[k]
  BY HeadGone DEF InLine
<1>2. \A i \in DOMAIN r : r[i] \in Tasks
  BY <1>1
<1> HIDE DEF t, r
<1>3. /\ s \in Seq(Tasks) /\ Len(r) + 1 \in DOMAIN s /\ s[Len(r) + 1] = t
      /\ \A k \in DOMAIN r : k \in DOMAIN s /\ s[k] = r[k]
      /\ \A k \in DOMAIN s : (k \in DOMAIN r /\ s[k] = r[k]) \/ (k = Len(r) + 1 /\ s[k] = t)
      /\ (t \notin ToSet(r) => IsInjective(s))
  BY <1>1, AppendFacts
<1>4. t \notin ToSet(r)
  BY <1>1 DEF ToSet
<1> HIDE DEF s
<1>5. \A i \in DOMAIN r : tk2[r[i]].at = at
  <2> TAKE i \in DOMAIN r
  <2>1. tk2[r[i]] = tk[r[i]]
    BY <1>1, <1>2 DEF OnlyOf
  <2>2. tk[q[i + 1]].at = at
    BY <1>1 DEF InLine
  <2>3. r[i] = q[i + 1]
    BY <1>1
  <2> QED
    BY <2>1, <2>2, <2>3
<1>6. \A i \in DOMAIN s : tk2[s[i]].at = at
  BY <1>1, <1>3, <1>5, SMTT(40)
<1>7. \A u \in Tasks : tk2[u].at = at => \E i \in DOMAIN s : s[i] = u
  <2> SUFFICES ASSUME NEW u \in Tasks, tk2[u].at = at, u # t PROVE \E i \in DOMAIN s : s[i] = u
    BY <1>3
  <2>1. tk[u].at = at
    BY <1>1 DEF OnlyOf
  <2>2. PICK k \in DOMAIN q : q[k] = u
    BY <2>1 DEF InLine
  <2>3. PICK i \in DOMAIN r : r[i] = u
    BY <1>1, <2>2
  <2> QED
    BY <1>3, <2>3
<1>8. InLine(s, tk2, at)
  BY <1>3, <1>4, <1>6, <1>7 DEF InLine
<1> QED
  BY <1>8 DEF s, r, t

\* What is unfinished was so before.
LEMMA OrderlyStays ==
    ASSUME NEW q, NEW tk, NEW tk2, Orderly(q, tk),
           \A i \in DOMAIN q : Unfinished(tk2[q[i]]) => tk2[q[i]] = tk[q[i]]
    PROVE  Orderly(q, tk2)
BY DEF Orderly

LEMMA OrderlyMoves ==
    ASSUME NEW S, NEW q \in Seq(S), q # <<>>, NEW tk, Orderly(q, tk)
    PROVE  Orderly(Tail(q), tk)
<1> DEFINE r == Tail(q)
<1>1. \A i \in DOMAIN r : i \in Nat /\ i + 1 \in DOMAIN q /\ r[i] = q[i + 1]
  BY TailFacts
<1> HIDE DEF r
<1> SUFFICES ASSUME NEW i \in DOMAIN r, NEW j \in DOMAIN r, i < j, Unfinished(tk[r[i]]), Unfinished(tk[r[j]]),
                    tk[r[i]].ev.dev = tk[r[j]].ev.dev
             PROVE  tk[r[i]].ev.ver < tk[r[j]].ev.ver
  BY DEF Orderly, r
<1>2. i + 1 \in DOMAIN q /\ j + 1 \in DOMAIN q /\ i + 1 < j + 1 /\ r[i] = q[i + 1] /\ r[j] = q[j + 1]
  BY <1>1
<1> QED
  BY <1>2 DEF Orderly

LEMMA OrderlyJoins ==
    ASSUME NEW S, NEW q \in Seq(S), NEW t \in S, NEW tk, Orderly(q, tk),
           \A i \in DOMAIN q : Unfinished(tk[q[i]]) /\ Unfinished(tk[t]) /\ tk[q[i]].ev.dev = tk[t].ev.dev
                                 => tk[q[i]].ev.ver < tk[t].ev.ver
    PROVE  Orderly(Append(q, t), tk)
<1> DEFINE r == Append(q, t)
<1>1. /\ DOMAIN q = 1 .. Len(q) /\ Len(q) \in Nat
      /\ \A k \in DOMAIN r : (k \in DOMAIN q /\ r[k] = q[k]) \/ (k = Len(q) + 1 /\ r[k] = t)
  BY AppendFacts
<1> HIDE DEF r
<1> SUFFICES ASSUME NEW i \in DOMAIN r, NEW j \in DOMAIN r, i < j, Unfinished(tk[r[i]]), Unfinished(tk[r[j]]),
                    tk[r[i]].ev.dev = tk[r[j]].ev.dev
             PROVE  tk[r[i]].ev.ver < tk[r[j]].ev.ver
  BY DEF Orderly, r
<1>2. i \in DOMAIN q /\ r[i] = q[i]
  <2>1. CASE i = Len(q) + 1
    BY <1>1, <2>1
  <2> QED
    BY <1>1, <2>1
<1>3. CASE j \in DOMAIN q
  BY <1>1, <1>2, <1>3 DEF Orderly
<1>4. CASE j = Len(q) + 1 /\ r[j] = t
  BY <1>2, <1>4
<1> QED
  BY <1>1, <1>3, <1>4
-----------------------------------------------------------------------------
(* Of the requests.                                                        *)

RequestMsgs == RegisterMsgs \cup OptionMsgs \cup InfoMsgs

LEMMA ShownAppend ==
    ASSUME NEW d, NEW v, NEW sent \in Seq(RequestMsgs), NEW opts, NEW m \in RequestMsgs,
           Shown(d, v, sent, opts), ~IsAddress(m, d)
    PROVE  Shown(d, v, Append(sent, m), opts)
<1> DEFINE s == Append(sent, m)
<1>1. /\ \A k \in DOMAIN sent : k \in DOMAIN s /\ s[k] = sent[k]
      /\ \A k \in DOMAIN s : (k \in DOMAIN sent /\ s[k] = sent[k]) \/ s[k] = m
  BY AppendFacts
<1> HIDE DEF s
<1>2. CASE \E i \in DOMAIN sent : /\ IsAddress(sent[i], d) /\ sent[i].value = v
                                  /\ \A j \in DOMAIN sent : j > i => ~IsAddress(sent[j], d)
  <2>1. PICK i \in DOMAIN sent : /\ IsAddress(sent[i], d) /\ sent[i].value = v
                                 /\ \A j \in DOMAIN sent : j > i => ~IsAddress(sent[j], d)
    BY <1>2
  <2>2. i \in DOMAIN s /\ s[i] = sent[i] /\ \A j \in DOMAIN s : j > i => ~IsAddress(s[j], d)
    BY <1>1, <2>1
  <2>3. Shown(d, v, s, opts)
    BY <2>1, <2>2 DEF Shown
  <2> QED
    BY <2>3 DEF s
<1>3. CASE opts[d].ipv4 = v /\ \A j \in DOMAIN sent : ~IsAddress(sent[j], d)
  <2>1. \A j \in DOMAIN s : ~IsAddress(s[j], d)
    BY <1>1, <1>3
  <2>2. Shown(d, v, s, opts)
    BY <1>3, <2>1 DEF Shown
  <2> QED
    BY <2>2 DEF s
<1> QED
  BY <1>2, <1>3 DEF Shown

LEMMA ShownSent ==
    ASSUME NEW d, NEW v, NEW sent \in Seq(RequestMsgs), NEW opts, NEW m \in RequestMsgs,
           IsAddress(m, d), m.value = v
    PROVE  Shown(d, v, Append(sent, m), opts)
<1> DEFINE s == Append(sent, m)
<1>1. Len(sent) \in Nat /\ DOMAIN s = 1 .. Len(sent) + 1 /\ s[Len(sent) + 1] = m
  BY AppendFacts
<1> HIDE DEF s
<1>2. Len(sent) + 1 \in DOMAIN s /\ \A j \in DOMAIN s : ~(j > Len(sent) + 1)
  BY <1>1
<1>3. Shown(d, v, s, opts)
  BY <1>1, <1>2 DEF Shown
<1> QED
  BY <1>3 DEF s

LEMMA ShownServed ==
    ASSUME NEW d, NEW v, NEW sent \in Seq(RequestMsgs), sent # <<>>, NEW opts, NEW opts2,
           Shown(d, v, sent, opts),
           opts2[d].ipv4 = IF IsAddress(Head(sent), d) THEN Head(sent).value ELSE opts[d].ipv4
    PROVE  Shown(d, v, Tail(sent), opts2)
<1> DEFINE s == Tail(sent)
           m == Head(sent)
<1>1. /\ m = sent[1] /\ 1 \in DOMAIN sent
      /\ \A k \in DOMAIN s : k \in Nat /\ k + 1 \in DOMAIN sent /\ s[k] = sent[k + 1]
      /\ \A k \in DOMAIN sent : k \in Nat /\ (k = 1 \/ (k - 1 \in DOMAIN s /\ s[k - 1] = sent[k]))
  BY TailFacts
<1>4. \A k \in DOMAIN s : k # 0
  <2>1. s \in Seq(RequestMsgs)
    BY TailFacts
  <2> HIDE DEF s
  <2>2. DOMAIN s = 1 .. Len(s)
    BY <2>1
  <2> QED
    BY <2>2
<1> HIDE DEF s, m
<1>0. opts2[d].ipv4 = IF IsAddress(m, d) THEN m.value ELSE opts[d].ipv4
  BY DEF m
<1>2. CASE \E i \in DOMAIN sent : /\ IsAddress(sent[i], d) /\ sent[i].value = v
                                  /\ \A j \in DOMAIN sent : j > i => ~IsAddress(sent[j], d)
  <2>1. PICK i \in DOMAIN sent : /\ IsAddress(sent[i], d) /\ sent[i].value = v
                                 /\ \A j \in DOMAIN sent : j > i => ~IsAddress(sent[j], d)
    BY <1>2
  <2>2. CASE i = 1
    <3>1. \A j \in DOMAIN s : ~IsAddress(s[j], d)
      <4> TAKE j \in DOMAIN s
      <4>1. j \in Nat /\ j + 1 \in DOMAIN sent /\ s[j] = sent[j + 1] /\ j # 0
        BY <1>1, <1>4
      <4>2. j + 1 > i
        BY <2>2, <4>1
      <4> QED
        BY <2>1, <4>1, <4>2
    <3>2. opts2[d].ipv4 = v
      BY <1>0, <1>1, <2>1, <2>2
    <3>3. Shown(d, v, s, opts2)
      BY <3>1, <3>2 DEF Shown
    <3> QED
      BY <3>3 DEF s
  <2>3. CASE i # 1
    <3>1. i - 1 \in DOMAIN s /\ s[i - 1] = sent[i] /\ i \in Nat
      BY <1>1, <2>3
    <3>2. \A j \in DOMAIN s : j > i - 1 => ~IsAddress(s[j], d)
      <4> SUFFICES ASSUME NEW j \in DOMAIN s, j > i - 1 PROVE ~IsAddress(s[j], d)
        OBVIOUS
      <4>1. j \in Nat /\ j + 1 \in DOMAIN sent /\ s[j] = sent[j + 1]
        BY <1>1
      <4>2. j + 1 > i
        BY <3>1, <4>1
      <4> QED
        BY <2>1, <4>1, <4>2
    <3>3. Shown(d, v, s, opts2)
      BY <2>1, <3>1, <3>2 DEF Shown
    <3> QED
      BY <3>3 DEF s
  <2> QED
    BY <2>2, <2>3
<1>3. CASE opts[d].ipv4 = v /\ \A j \in DOMAIN sent : ~IsAddress(sent[j], d)
  <2>1. opts2[d].ipv4 = v /\ \A j \in DOMAIN s : ~IsAddress(s[j], d)
    BY <1>0, <1>1, <1>3
  <2>2. Shown(d, v, s, opts2)
    BY <2>1 DEF Shown
  <2> QED
    BY <2>2 DEF s
<1> QED
  BY <1>2, <1>3 DEF Shown

\* The same addresses in the same order.
Alike(sent, sent2) ==
    /\ DOMAIN sent2 = DOMAIN sent
    /\ \A i \in DOMAIN sent : \A d : /\ (IsAddress(sent2[i], d) <=> IsAddress(sent[i], d))
                                     /\ (IsAddress(sent[i], d) => sent2[i].value = sent[i].value)
LEMMA ShownAlike ==
    ASSUME NEW d, NEW v, NEW sent, NEW sent2, NEW opts, Shown(d, v, sent, opts), Alike(sent, sent2)
    PROVE  Shown(d, v, sent2, opts)
<1>1. DOMAIN sent2 = DOMAIN sent
  BY DEF Alike
<1>2. \A i \in DOMAIN sent : /\ IsAddress(sent2[i], d) <=> IsAddress(sent[i], d)
                             /\ IsAddress(sent[i], d) => sent2[i].value = sent[i].value
  BY DEF Alike
<1>3. CASE \E i \in DOMAIN sent : /\ IsAddress(sent[i], d) /\ sent[i].value = v
                                  /\ \A j \in DOMAIN sent : j > i => ~IsAddress(sent[j], d)
  <2>1. PICK i \in DOMAIN sent : /\ IsAddress(sent[i], d) /\ sent[i].value = v
                                 /\ \A j \in DOMAIN sent : j > i => ~IsAddress(sent[j], d)
    BY <1>3
  <2>2. IsAddress(sent2[i], d) /\ sent2[i].value = v /\ \A j \in DOMAIN sent2 : j > i => ~IsAddress(sent2[j], d)
    BY <1>1, <1>2, <2>1
  <2> QED
    BY <1>1, <2>2 DEF Shown
<1>4. CASE opts[d].ipv4 = v /\ \A j \in DOMAIN sent : ~IsAddress(sent[j], d)
  BY <1>1, <1>2, <1>4 DEF Shown
<1> QED
  BY <1>3, <1>4 DEF Shown

\* What an interrupted report counts for.
Lost(reports) == \A r \in reports : r \in ReportOf /\ r.ver <= version[r.dev]

LEMMA LargestOf ==
    ASSUME NEW n \in Nat, NEW T, \A x \in T : x \in 0 .. n, T # {}
    PROVE  \E x \in T : \A y \in T : y <= x
<1> DEFINE U == {n - x : x \in T}
<1>1. U \subseteq Nat /\ U # {}
  OBVIOUS
<1> HIDE DEF U
<1>2. PICK u \in U : \A w \in U : u <= w
  BY <1>1, LeastElement
<1>3. PICK x \in T : u = n - x
  BY DEF U
<1>4. \A y \in T : y <= x
  <2> TAKE y \in T
  <2>1. n - y \in U
    BY DEF U
  <2>2. n - x <= n - y
    BY <1>2, <1>3, <2>1
  <2> QED
    BY <2>2
<1> QED
  BY <1>4

LEMMA MissingFacts ==
    ASSUME ReportTypes, ReportBounds, NEW reports, Lost(reports), Missing(reports)
    PROVE  /\ gone' \in [Reported -> Nat] /\ \A d \in Reported : gone'[d] <= version[d]
           /\ \A d \in Reported : gone[d] = version[d] => gone'[d] = version[d]
           /\ \A r \in reports : r.ver = version[r.dev] => gone'[r.dev] = version[r.dev]
<1> DEFINE vers(d) == {gone[d]} \cup {r.ver : r \in {s \in reports : s.dev = d}}
<1>1. gone' = [d \in Reported |-> CHOOSE v \in vers(d) : \A w \in vers(d) : w <= v]
  BY DEF Missing
<1>2. ASSUME NEW d \in Reported
      PROVE  gone'[d] \in vers(d) /\ (\A w \in vers(d) : w <= gone'[d]) /\ \A w \in vers(d) : w \in Nat /\ w <= version[d]
  <2>1. \A w \in vers(d) : w \in Nat /\ w <= version[d]
    BY DEF ReportTypes, ReportBounds, Lost, ReportOf
  <2>2. version[d] \in Nat /\ vers(d) # {}
    BY DEF ReportTypes
  <2>3. gone'[d] = CHOOSE v \in vers(d) : \A w \in vers(d) : w <= v
    BY <1>1
  <2> HIDE DEF vers
  <2>4. \A w \in vers(d) : w \in 0 .. version[d]
    BY <2>1, <2>2
  <2>5. \E v \in vers(d) : \A w \in vers(d) : w <= v
    BY <2>2, <2>4, LargestOf
  <2> QED
    BY <2>1, <2>3, <2>5
<1>3. gone' \in [Reported -> Nat]
  <2>1. DOMAIN gone' = Reported /\ gone' = [d \in Reported |-> gone'[d]]
    BY <1>1
  <2> HIDE DEF vers
  <2>2. \A d \in Reported : gone'[d] \in Nat
    BY <1>2
  <2> QED
    BY <2>1, <2>2
<1>4. \A d \in Reported : version[d] \in Nat
  BY DEF ReportTypes
<1>5. ASSUME NEW d \in Reported PROVE gone'[d] <= version[d] /\ (version[d] \in vers(d) => gone'[d] = version[d])
  <2> HIDE DEF vers
  <2>1. gone'[d] \in Nat /\ gone'[d] <= version[d]
    BY <1>2
  <2>2. version[d] \in vers(d) => version[d] <= gone'[d]
    BY <1>2
  <2> QED
    BY <1>4, <2>1, <2>2
<1>6. \A d \in Reported : gone[d] \in vers(d)
  OBVIOUS
<1>7. \A r \in reports : r.dev \in Reported /\ r.ver \in vers(r.dev)
  BY DEF Lost, ReportOf
<1> HIDE DEF vers
<1>8. \A d \in Reported : gone[d] = version[d] => gone'[d] = version[d]
  BY <1>5, <1>6
<1>9. \A r \in reports : r.ver = version[r.dev] => gone'[r.dev] = version[r.dev]
  BY <1>5, <1>7
<1> QED
  BY <1>3, <1>5, <1>8, <1>9

-----------------------------------------------------------------------------
(* Of the tasks.                                                           *)

LEMMA TaskFacts ==
    ASSUME ReportTypes
    PROVE  /\ Handlers \subseteq Tasks /\ Callbacks \subseteq Tasks /\ "heartbeat" \in Tasks
           /\ Handlers \cap Callbacks = {} /\ "heartbeat" \notin Handlers
           /\ \A t \in Tasks : task[t].at \in {"register", "option"} => t \in Handlers
           /\ \A h \in Handlers :
                /\ task[h].at \in {"rest", "register", "option"} /\ (task[h].at = "rest" => task[h] = Resting)
                /\ task[h].at # "rest" => task[h].ev \in ReportOf /\ task[h].ev.dev \in Reported /\ task[h].ev.ver \in Nat
                /\ task[h].at = "option" => task[h].left \in AddressAhead \cup AddressSent
<1>1. /\ Handlers \subseteq Tasks /\ Callbacks \subseteq Tasks /\ "heartbeat" \in Tasks
      /\ Handlers \cap Callbacks = {} /\ "heartbeat" \notin Handlers
  BY ReportAssumption DEF Tasks
<1>2. \A t \in Tasks : task[t].at \in {"register", "option"} => t \in Handlers
  BY DEF ReportTypes
<1>3. ASSUME NEW h \in Handlers
      PROVE  /\ task[h].at \in {"rest", "register", "option"} /\ (task[h].at = "rest" => task[h] = Resting)
             /\ task[h].at # "rest" => task[h].ev \in ReportOf /\ task[h].ev.dev \in Reported /\ task[h].ev.ver \in Nat
             /\ task[h].at = "option" => task[h].left \in AddressAhead \cup AddressSent
  <2>1. HandlerTask(task[h])
    BY DEF ReportTypes
  <2> QED
    BY <2>1 DEF HandlerTask, Resting, ReportOf
<1> QED
  BY <1>1, <1>2, <1>3

LEMMA InitReportInv == ReportInit => ReportInv
<1> SUFFICES ASSUME ReportInit PROVE ReportInv
  OBVIOUS
<1>1. /\ told = <<>> /\ version = [d \in Reported |-> 0] /\ task = [t \in Tasks |-> Resting]
      /\ waiting = [a \in Actions |-> <<>>] /\ up = <<>> /\ down = <<>> /\ stray = {} /\ whitelist = {}
      /\ gone = [d \in Reported |-> 0] /\ seen = 0
      /\ status = [d \in Reported |-> IF d \in Known THEN 0 ELSE Unknown]
      /\ options = [d \in Reported |-> [key \in {"mac", "ipv4", "first_seen"} |-> status[d]]]
  BY DEF ReportInit
<1>2. \A S : <<>> \in Seq(S)
  OBVIOUS
<1>3. DOMAIN <<>> = {}
  OBVIOUS
<1>4. Handlers \subseteq Tasks /\ \A t \in Tasks : task[t] = Resting /\ Resting.at = "rest"
  BY <1>1 DEF Tasks, Resting
<1>5. ReportTypes
  <2>1. /\ told \in Seq(ReportOf) /\ up \in Seq(RegisterMsgs \cup OptionMsgs \cup InfoMsgs)
        /\ down \in Seq(Answered \cup Infos)
    BY <1>1, <1>2
  <2>2. version \in [Reported -> Nat] /\ gone \in [Reported -> Nat] /\ seen \in 0 .. MaxReports
    BY <1>1, ReportAssumption
  <2>3. DOMAIN task = Tasks
    BY <1>1
  <2>4. waiting \in [Actions -> Seq(Tasks)]
    BY <1>1, <1>2
  <2>5. \A h \in Handlers : HandlerTask(task[h])
    BY <1>4 DEF HandlerTask
  <2>6. \A t \in Tasks \ Handlers : task[t].at \in {"rest", "info", "failed"}
    BY <1>4
  <2>7. \A d \in Reported : status[d] \in {0, 1, Unknown}
    BY <1>1
  <2>8. status \in [Reported -> {0, 1, Unknown}] /\ stray \subseteq {d \in Reported : status[d] = Unknown} /\ whitelist \subseteq Reported
    BY <1>1
  <2>9. options \in [Reported -> [OptionKeys -> Nat \cup {Unknown}]]
    BY <1>1, <2>7 DEF OptionKeys
  <2> QED
    BY <2>1, <2>2, <2>3, <2>4, <2>5, <2>6, <2>8, <2>9 DEF ReportTypes
<1>6. ReportBounds
  BY <1>1, <1>3, <1>4 DEF ReportBounds
<1>7. ReportOrder
  <2>1. \A at, a \in {"requestInfo", "registerDevice", "updateOption"} : waiting[a] = <<>> /\ IsInjective(waiting[a])
    BY <1>1 DEF Actions, IsInjective
  <2>2. Lines(waiting, task)
    BY <1>2, <1>3, <1>4, <2>1 DEF Lines, InLine, Orderly
  <2>3. UploadsFirst(task)
    BY <1>4 DEF UploadsFirst, Behind
  <2>4. Rising(told) /\ \A h \in Handlers : ToldLater(task[h], told)
    BY <1>1, <1>3 DEF Rising, ToldLater
  <2> QED
    BY <2>2, <2>3, <2>4 DEF ReportOrder
<1>8. ReportFate
  BY <1>1 DEF ReportFate, Destiny
<1> QED
  BY <1>5, <1>6, <1>7, <1>8 DEF ReportInv

\* Steps that do not touch the handlers.
Aside ==
    /\ UNCHANGED <<told, version, gone, seen>>
    /\ DOMAIN task' = Tasks /\ \A h \in Handlers : task'[h] = task[h]
    /\ \A t \in Tasks \ Handlers : task'[t].at \in {"rest", "info", "failed"}
    /\ waiting' \in [Actions -> Seq(Tasks)] /\ InLine(waiting'["requestInfo"], task', "info")
    /\ waiting'["registerDevice"] = waiting["registerDevice"]
    /\ waiting'["updateOption"] = waiting["updateOption"]
    /\ up' \in Seq(RequestMsgs) /\ down' \in Seq(Answered \cup Infos)
    /\ \A i \in DOMAIN up' : up'[i].action = "updateOption" => up'[i].value <= version[up'[i].dev]
    /\ status' \in [Reported -> {0, 1, Unknown}]
    /\ options' \in [Reported -> [OptionKeys -> Nat \cup {Unknown}]]
    /\ stray' \subseteq {d \in Reported : status'[d] = Unknown}
    /\ whitelist' \subseteq Reported
    /\ \A d \in Reported : Shown(d, version[d], up, options) => Shown(d, version[d], up', options')

LEMMA AsideInv == ASSUME ReportInv, Aside PROVE ReportInv'
<1>0. ReportTypes /\ ReportBounds /\ ReportOrder /\ ReportFate
  BY DEF ReportInv
<1>1. ReportTypes'
  BY <1>0 DEF ReportTypes, Aside, RequestMsgs
<1>2. ReportBounds'
  BY <1>0 DEF ReportBounds, Aside
<1>3. \A t \in Tasks : t \notin Handlers => task[t].at \notin {"register", "option"} /\ task'[t].at \notin {"register", "option"}
  BY <1>0 DEF ReportTypes, Aside
<1>4. \A t \in Tasks : task'[t].at \in {"register", "option"} \/ task[t].at \in {"register", "option"} => task'[t] = task[t]
  BY <1>3 DEF Aside
<1>5. ASSUME NEW q, NEW at \in {"register", "option"}, InLine(q, task, at), Orderly(q, task)
      PROVE  InLine(q, task', at) /\ Orderly(q, task')
  <2>1. \A i \in DOMAIN q : q[i] \in Tasks /\ task'[q[i]] = task[q[i]]
    BY <1>4, <1>5 DEF InLine
  <2> QED
    BY <1>4, <1>5, <2>1 DEF InLine, Orderly
<1>6. Lines(waiting', task')
  BY <1>0, <1>5 DEF ReportOrder, Lines, Aside
<1>7. /\ UploadsFirst(task') /\ Rising(told')
      /\ \A h \in Handlers : ToldLater(task'[h], told')
  BY <1>0 DEF ReportOrder, UploadsFirst, Aside
<1>8. ReportOrder'
  BY <1>6, <1>7 DEF ReportOrder
<1>9. ReportFate'
  <2> SUFFICES ASSUME NEW d \in Reported PROVE Destiny(d)'
    BY DEF ReportFate
  <2>1. \/ gone[d] = version[d] \/ Pending(d, version[d], told, task)
        \/ AllTold(d, told, task) /\ Shown(d, version[d], up, options)
    BY <1>0 DEF ReportFate, Destiny
  <2>2. \/ gone'[d] = version'[d] \/ Pending(d, version'[d], told', task')
        \/ AllTold(d, told', task') /\ Shown(d, version'[d], up', options')
    BY <2>1 DEF Aside, Pending, AllTold
  <2> QED
    BY <2>2 DEF Destiny
<1> QED
  BY <1>1, <1>2, <1>8, <1>9 DEF ReportInv

\* One more request is on its way, one that is no upload of an address of d.
LEMMA RequestAppend ==
    ASSUME ReportTypes, ReportBounds, NEW m \in RequestMsgs, up' = Append(up, m),
           m.action = "updateOption" => m.value <= version[m.dev]
    PROVE  /\ up' \in Seq(RequestMsgs)
           /\ \A i \in DOMAIN up' : up'[i].action = "updateOption" => up'[i].value <= version[up'[i].dev]
           /\ \A d, v : Shown(d, v, up, options) /\ ~IsAddress(m, d) => Shown(d, v, up', options)
<1>1. up \in Seq(RequestMsgs)
  BY DEF ReportTypes, RequestMsgs
<1>2. /\ up' \in Seq(RequestMsgs)
      /\ \A i \in DOMAIN up' : (i \in DOMAIN up /\ up'[i] = up[i]) \/ up'[i] = m
  BY <1>1, AppendFacts
<1>3. \A i \in DOMAIN up' : up'[i].action = "updateOption" => up'[i].value <= version[up'[i].dev]
  BY <1>2 DEF ReportBounds
<1>4. \A d, v : Shown(d, v, up, options) /\ ~IsAddress(m, d) => Shown(d, v, up', options)
  BY <1>1, ShownAppend
<1> QED
  BY <1>2, <1>3, <1>4

LEMMA AskInfoAside ==
    ASSUME ReportInv, NEW t \in Callbacks \cup {"heartbeat"}, task[t] = Resting,
           Sends(t, [at |-> "info"], [action |-> "requestInfo", by |-> t]),
           waiting' = [waiting EXCEPT !["requestInfo"] = Append(@, t)],
           UNCHANGED <<told, version, gone, seen, cloudSide, whitelist>>, down' \in Seq(Answered \cup Infos)
    PROVE  Aside
<1>0. ReportTypes /\ ReportBounds /\ ReportOrder
  BY DEF ReportInv
<1>1. t \in Tasks /\ t \notin Handlers /\ Handlers \subseteq Tasks
  BY <1>0, TaskFacts
<1> DEFINE m == [action |-> "requestInfo", by |-> t]
           r == [at |-> "info"]
<1>2. task' = [task EXCEPT ![t] = r] /\ up' = Append(up, m) /\ r.at = "info"
  BY DEF Sends
<1>3. m \in RequestMsgs /\ m.action = "requestInfo"
  BY <1>1 DEF RequestMsgs, InfoMsgs, Askers
<1> HIDE DEF m, r
<1>4. DOMAIN task' = Tasks /\ task'[t] = r /\ OnlyOf(t, task, task')
  BY <1>0, <1>1, <1>2 DEF ReportTypes, OnlyOf
<1>5. /\ waiting' \in [Actions -> Seq(Tasks)] /\ waiting'["requestInfo"] = Append(waiting["requestInfo"], t)
      /\ waiting'["registerDevice"] = waiting["registerDevice"]
      /\ waiting'["updateOption"] = waiting["updateOption"]
  BY <1>0, <1>1 DEF ReportTypes, Actions
<1>6. InLine(waiting'["requestInfo"], task', "info")
  <2>1. task[t].at # "info" /\ InLine(waiting["requestInfo"], task, "info")
    BY <1>0 DEF Resting, ReportOrder, Lines
  <2>2. task'[t].at = "info"
    BY <1>2, <1>4
  <2>3. InLine(Append(waiting["requestInfo"], t), task', "info")
    BY <1>1, <1>4, <2>1, <2>2, LineJoins
  <2> QED
    BY <1>5, <2>3
<1>7. /\ \A h \in Handlers : task'[h] = task[h]
      /\ \A u \in Tasks \ Handlers : task'[u].at \in {"rest", "info", "failed"}
  BY <1>0, <1>1, <1>2, <1>4 DEF OnlyOf, ReportTypes
<1>8. /\ up' \in Seq(RequestMsgs)
      /\ \A i \in DOMAIN up' : up'[i].action = "updateOption" => up'[i].value <= version[up'[i].dev]
      /\ \A d, v : Shown(d, v, up, options) /\ ~IsAddress(m, d) => Shown(d, v, up', options)
  BY <1>0, <1>2, <1>3, RequestAppend
<1>9. \A d, v : Shown(d, v, up, options) => Shown(d, v, up', options')
  BY <1>3, <1>8 DEF IsAddress, cloudSide
<1>10. /\ status' \in [Reported -> {0, 1, Unknown}]
       /\ options' \in [Reported -> [OptionKeys -> Nat \cup {Unknown}]]
       /\ stray' \subseteq {d \in Reported : status'[d] = Unknown}
       /\ whitelist' \subseteq Reported
  BY <1>0 DEF ReportTypes, cloudSide
<1> QED
  BY <1>4, <1>5, <1>6, <1>7, <1>8, <1>9, <1>10 DEF Aside

\* What is left of the messages from the backend.
LEMMA DownTail ==
    ASSUME ReportTypes, down # <<>>
    PROVE  Tail(down) \in Seq(Answered \cup Infos) /\ Head(down) \in Answered \cup Infos
BY TailFacts DEF ReportTypes

\* Steps that leave all tasks alone, but for the tables.
LEMMA TasksAsideInv ==
    ASSUME ReportInv, UNCHANGED <<told, version, gone, seen, task, waiting>>,
           up' \in Seq(RequestMsgs), down' \in Seq(Answered \cup Infos),
           \A i \in DOMAIN up' : up'[i].action = "updateOption" => up'[i].value <= version[up'[i].dev],
           status' \in [Reported -> {0, 1, Unknown}],
           options' \in [Reported -> [OptionKeys -> Nat \cup {Unknown}]],
           stray' \subseteq {d \in Reported : status'[d] = Unknown}, whitelist' \subseteq Reported,
           \A d \in Reported : Shown(d, version[d], up, options) => Shown(d, version[d], up', options')
    PROVE  ReportInv'
<1>1. InLine(waiting'["requestInfo"], task', "info")
  <2>1. waiting' = waiting /\ task' = task
    OBVIOUS
  <2>2. InLine(waiting["requestInfo"], task, "info")
    BY DEF ReportInv, ReportOrder, Lines
  <2> QED
    BY <2>1, <2>2
<1>2. Aside
  BY <1>1 DEF Aside, ReportInv, ReportTypes
<1> QED
  BY <1>2, AsideInv

LEMMA BeatInv == ASSUME ReportInv, Beat PROVE ReportInv'
<1>1. /\ task["heartbeat"] = Resting
      /\ Sends("heartbeat", [at |-> "info"], [action |-> "requestInfo", by |-> "heartbeat"])
      /\ waiting' = [waiting EXCEPT !["requestInfo"] = Append(@, "heartbeat")]
      /\ UNCHANGED <<told, version, gone, seen, cloudSide, whitelist>>
  BY DEF Beat, counters
<1>2. down' \in Seq(Answered \cup Infos)
  BY DEF Beat, ReportInv, ReportTypes
<1> QED
  BY <1>1, <1>2, AskInfoAside, AsideInv

LEMMA ReceivePushInv == ASSUME ReportInv, ReceivePush PROVE ReportInv'
<1>1. /\ down # <<>> /\ down' = Tail(down)
      /\ UNCHANGED <<told, version, gone, seen, cloudSide, whitelist>>
  BY DEF ReceivePush, counters
<1>2. down' \in Seq(Answered \cup Infos)
  BY <1>1, DownTail DEF ReportInv
<1>3. CASE \E c \in Callbacks :
             /\ task[c] = Resting
             /\ Sends(c, [at |-> "info"], [action |-> "requestInfo", by |-> c])
             /\ waiting' = [waiting EXCEPT !["requestInfo"] = Append(@, c)]
  BY <1>1, <1>2, <1>3, AskInfoAside, AsideInv
<1>4. CASE UNCHANGED <<task, waiting, up>>
  <2>1. /\ up' \in Seq(RequestMsgs)
        /\ \A i \in DOMAIN up' : up'[i].action = "updateOption" => up'[i].value <= version[up'[i].dev]
        /\ status' \in [Reported -> {0, 1, Unknown}]
        /\ options' \in [Reported -> [OptionKeys -> Nat \cup {Unknown}]]
        /\ stray' \subseteq {d \in Reported : status'[d] = Unknown} /\ whitelist' \subseteq Reported
        /\ up' = up /\ options' = options
    BY <1>1, <1>4 DEF ReportInv, ReportTypes, ReportBounds, RequestMsgs, cloudSide
  <2> QED
    BY <1>1, <1>2, <1>4, <2>1, TasksAsideInv
<1>5. \/ \E c \in Callbacks :
             /\ task[c] = Resting
             /\ Sends(c, [at |-> "info"], [action |-> "requestInfo", by |-> c])
             /\ waiting' = [waiting EXCEPT !["requestInfo"] = Append(@, c)]
      \/ UNCHANGED <<task, waiting, up>>
  BY DEF ReceivePush
<1> QED
  BY <1>3, <1>4, <1>5

\* Of the tables and the messages nothing has to be said when they stay.
Still == UNCHANGED <<up, status, options, stray>>
LEMMA StillTyped ==
    ASSUME ReportInv, Still, UNCHANGED version
    PROVE  /\ up' \in Seq(RequestMsgs)
           /\ \A i \in DOMAIN up' : up'[i].action = "updateOption" => up'[i].value <= version[up'[i].dev]
           /\ status' \in [Reported -> {0, 1, Unknown}]
           /\ options' \in [Reported -> [OptionKeys -> Nat \cup {Unknown}]]
           /\ stray' \subseteq {d \in Reported : status'[d] = Unknown}
           /\ \A d \in Reported : Shown(d, version[d], up, options) => Shown(d, version[d], up', options')
<1>1. ReportTypes /\ ReportBounds
  BY DEF ReportInv
<1>2. up' = up /\ status' = status /\ options' = options /\ stray' = stray
  BY DEF Still
<1> QED
  BY <1>1, <1>2 DEF ReportTypes, ReportBounds, RequestMsgs

LEMMA RestartInv == ASSUME ReportInv, Restart PROVE ReportInv'
<1>1. /\ Still /\ UNCHANGED <<told, version, gone, seen, task, waiting>>
      /\ down' = down /\ whitelist' = whitelist
  BY DEF Restart, Still, counters, cloudSide
<1>2. down' \in Seq(Answered \cup Infos) /\ whitelist' \subseteq Reported
  BY <1>1 DEF ReportInv, ReportTypes
<1> QED
  BY <1>1, <1>2, StillTyped, TasksAsideInv

\* A request of a user.
LEMMA ByUserFacts ==
    ASSUME ReportInv, NEW a \in {"updateStatus", "updateOption"}, ByUser(Push(a))
    PROVE  /\ UNCHANGED <<told, version, gone, seen, task, waiting, up>>
           /\ down' \in Seq(Answered \cup Infos) /\ whitelist' \subseteq Reported
<1>1. Push(a) \in Answered \cup Infos
  BY DEF Push, Answered
<1>2. down \in Seq(Answered \cup Infos)
  BY DEF ReportInv, ReportTypes
<1>3. Append(down, Push(a)) \in Seq(Answered \cup Infos)
  BY <1>1, <1>2, AppendFacts
<1>4. down' \in Seq(Answered \cup Infos)
  BY <1>2, <1>3 DEF ByUser
<1> QED
  BY <1>4 DEF ByUser, ReportInv, ReportTypes

LEMMA UserStatusInv ==
    ASSUME ReportInv, NEW d \in Reported, NEW s \in {0, 1}, UserStatus(d, s) PROVE ReportInv'
<1>1. /\ status[d] # Unknown /\ status' = [status EXCEPT ![d] = s] /\ options' = options /\ stray' = stray
      /\ ByUser(Push("updateStatus"))
  BY DEF UserStatus
<1>2. /\ UNCHANGED <<told, version, gone, seen, task, waiting, up>>
      /\ down' \in Seq(Answered \cup Infos) /\ whitelist' \subseteq Reported
  BY <1>1, ByUserFacts
<1>3. /\ status' \in [Reported -> {0, 1, Unknown}]
      /\ stray' \subseteq {e \in Reported : status'[e] = Unknown}
  BY <1>1 DEF ReportInv, ReportTypes
<1>4. /\ up' \in Seq(RequestMsgs)
      /\ \A i \in DOMAIN up' : up'[i].action = "updateOption" => up'[i].value <= version[up'[i].dev]
      /\ options' \in [Reported -> [OptionKeys -> Nat \cup {Unknown}]]
      /\ up' = up
  BY <1>1, <1>2 DEF ReportInv, ReportTypes, ReportBounds, RequestMsgs
<1> QED
  BY <1>1, <1>2, <1>3, <1>4, TasksAsideInv

LEMMA UserOptionInv ==
    ASSUME ReportInv, NEW d \in Reported, UserOption(d) PROVE ReportInv'
<1>1. /\ stray' = (IF status[d] = Unknown THEN stray \cup {d} ELSE stray)
      /\ status' = status /\ options' = options /\ ByUser(Push("updateOption"))
  BY DEF UserOption
<1>2. /\ UNCHANGED <<told, version, gone, seen, task, waiting, up>>
      /\ down' \in Seq(Answered \cup Infos) /\ whitelist' \subseteq Reported
  BY <1>1, ByUserFacts
<1>3. /\ status' \in [Reported -> {0, 1, Unknown}]
      /\ stray' \subseteq {e \in Reported : status'[e] = Unknown}
  BY <1>1 DEF ReportInv, ReportTypes
<1>4. /\ up' \in Seq(RequestMsgs)
      /\ \A i \in DOMAIN up' : up'[i].action = "updateOption" => up'[i].value <= version[up'[i].dev]
      /\ options' \in [Reported -> [OptionKeys -> Nat \cup {Unknown}]]
      /\ up' = up
  BY <1>1, <1>2 DEF ReportInv, ReportTypes, ReportBounds, RequestMsgs
<1> QED
  BY <1>1, <1>2, <1>3, <1>4, TasksAsideInv

\* The backend executes the request it got first.
LEMMA ServeInv == ASSUME ReportInv, Serve PROVE ReportInv'
<1>0. ReportTypes /\ ReportBounds
  BY DEF ReportInv
<1> DEFINE m == Head(up)
<1>1. /\ up # <<>> /\ UNCHANGED <<told, version, task, waiting, whitelist, seen>>
      /\ RegisterDevice(m) \/ UpdateOption(m) \/ RequestInfo(m)
  BY DEF Serve, counters
<1>2. up' = Tail(up) /\ gone' = gone /\ up \in Seq(RequestMsgs)
  BY <1>0, <1>1 DEF RegisterDevice, UpdateOption, RequestInfo, ReportTypes, RequestMsgs
<1>3. /\ up' \in Seq(RequestMsgs) /\ m = up[1] /\ 1 \in DOMAIN up /\ m \in RequestMsgs
      /\ \A i \in DOMAIN up' : i + 1 \in DOMAIN up /\ up'[i] = up[i + 1]
  BY <1>1, <1>2, TailFacts
<1>4. \A i \in DOMAIN up' : up'[i].action = "updateOption" => up'[i].value <= version[up'[i].dev]
  BY <1>0, <1>3 DEF ReportBounds
<1>5. ASSUME NEW d \in Reported,
             options'[d].ipv4 = IF IsAddress(m, d) THEN m.value ELSE options[d].ipv4
      PROVE  Shown(d, version[d], up, options) => Shown(d, version[d], up', options')
  <2>1. up # <<>> /\ up \in Seq(RequestMsgs) /\ up' = Tail(up)
    BY <1>1, <1>2
  <2> QED
    BY <1>5, <2>1, ShownServed
<1>6. whitelist' \subseteq Reported
  BY <1>0, <1>1 DEF ReportTypes
<1>7. \A messages \in Seq(Answered \cup Infos) : Answers(m, messages) => down' \in Seq(Answered \cup Infos)
  <2> TAKE messages \in Seq(Answered \cup Infos)
  <2>1. down \in Seq(Answered \cup Infos)
    BY <1>0 DEF ReportTypes
  <2>2. down \o messages \in Seq(Answered \cup Infos)
    BY <2>1
  <2> QED
    BY <2>1, <2>2 DEF Answers
<1>8. \A a \in {"registerDevice", "updateOption"}, ok \in BOOLEAN : Reply(a, ok) \in Answered \cup Infos /\ Push(a) \in Answered \cup Infos
  BY DEF Reply, Push, Answered
<1>9. \A x, y \in Answered \cup Infos : <<x>> \in Seq(Answered \cup Infos) /\ <<x, y>> \in Seq(Answered \cup Infos)
  OBVIOUS
<1> HIDE DEF m
<1>10. CASE RegisterDevice(m)
  <2>1. /\ m.action = "registerDevice" /\ options' = options
        /\ \/ Answers(m, <<Reply("registerDevice", FALSE)>>) /\ status' = status /\ stray' = stray
           \/ /\ status' = [status EXCEPT ![m.dev] = 1] /\ stray' = stray \ {m.dev}
              /\ Answers(m, <<Push("registerDevice"), Reply("registerDevice", TRUE)>>)
    BY <1>10 DEF RegisterDevice
  <2>2. down' \in Seq(Answered \cup Infos)
    BY <1>7, <1>8, <1>9, <2>1
  <2>3. m.dev \in Reported
    BY <1>3, <2>1 DEF RequestMsgs, RegisterMsgs, OptionMsgs, InfoMsgs
  <2>4. /\ status' \in [Reported -> {0, 1, Unknown}] /\ stray' \subseteq {d \in Reported : status'[d] = Unknown}
        /\ options' \in [Reported -> [OptionKeys -> Nat \cup {Unknown}]]
    BY <1>0, <2>1, <2>3 DEF ReportTypes
  <2>5. \A d \in Reported : options'[d].ipv4 = IF IsAddress(m, d) THEN m.value ELSE options[d].ipv4
    BY <2>1 DEF IsAddress
  <2> QED
    BY <1>1, <1>2, <1>3, <1>4, <1>5, <1>6, <2>2, <2>4, <2>5, TasksAsideInv
<1>11. CASE UpdateOption(m)
  <2>1. /\ m.action = "updateOption" /\ options' = [options EXCEPT ![m.dev][m.key] = m.value]
        /\ Answers(m, <<Push("updateOption"), Reply("updateOption", TRUE)>>)
        /\ status' = status /\ stray' = stray
    BY <1>11 DEF UpdateOption
  <2>2. down' \in Seq(Answered \cup Infos)
    BY <1>7, <1>8, <1>9, <2>1
  <2>3. m.dev \in Reported /\ m.key \in OptionKeys /\ m.value \in Nat
    BY <1>3, <2>1 DEF RequestMsgs, RegisterMsgs, OptionMsgs, InfoMsgs
  <2>4. /\ status' \in [Reported -> {0, 1, Unknown}] /\ stray' \subseteq {d \in Reported : status'[d] = Unknown}
        /\ options' \in [Reported -> [OptionKeys -> Nat \cup {Unknown}]]
        /\ \A d \in Reported, k \in OptionKeys :
              options'[d][k] = IF d = m.dev /\ k = m.key THEN m.value ELSE options[d][k]
    BY <1>0, <2>1, <2>3 DEF ReportTypes
  <2>5. \A d \in Reported : options'[d].ipv4 = IF IsAddress(m, d) THEN m.value ELSE options[d].ipv4
    <3>1. "ipv4" \in OptionKeys
      BY DEF OptionKeys
    <3>2. \A d \in Reported : options'[d]["ipv4"] = IF d = m.dev /\ "ipv4" = m.key THEN m.value ELSE options[d]["ipv4"]
      BY <2>4, <3>1
    <3> QED
      BY <2>1, <3>2 DEF IsAddress
  <2> QED
    BY <1>1, <1>2, <1>3, <1>4, <1>5, <1>6, <2>2, <2>4, <2>5, TasksAsideInv
<1>12. CASE RequestInfo(m)
  <2>1. m.action = "requestInfo" /\ Answers(m, <<Info>>) /\ options' = options /\ status' = status /\ stray' = stray
    BY <1>12 DEF RequestInfo, cloudSide
  <2>2. Info \in Answered \cup Infos
    BY DEF Info, Infos, Ignored, NoMac
  <2>3. down' \in Seq(Answered \cup Infos)
    BY <1>7, <1>9, <2>1, <2>2
  <2>4. /\ status' \in [Reported -> {0, 1, Unknown}] /\ stray' \subseteq {d \in Reported : status'[d] = Unknown}
        /\ options' \in [Reported -> [OptionKeys -> Nat \cup {Unknown}]]
    BY <1>0, <2>1 DEF ReportTypes
  <2>5. \A d \in Reported : options'[d].ipv4 = IF IsAddress(m, d) THEN m.value ELSE options[d].ipv4
    BY <2>1 DEF IsAddress
  <2> QED
    BY <1>1, <1>2, <1>3, <1>4, <1>5, <1>6, <2>3, <2>4, <2>5, TasksAsideInv
<1> QED
  BY <1>1, <1>10, <1>11, <1>12 DEF m

-----------------------------------------------------------------------------
(* Of the reports, and of what ends their handlers.                        *)

LEMMA ReportDeviceInv == ASSUME ReportInv, NEW d \in Reported, ReportDevice(d) PROVE ReportInv'
<1>0. ReportTypes /\ ReportBounds /\ ReportOrder /\ ReportFate
  BY DEF ReportInv
<1> DEFINE e == [dev |-> d, ver |-> version[d] + 1]
<1>1. /\ seen < MaxReports /\ seen' = seen + 1 /\ version' = [version EXCEPT ![d] = @ + 1] /\ told' = Append(told, e)
      /\ UNCHANGED <<task, waiting, up, down, status, options, stray, whitelist, gone>>
  BY DEF ReportDevice, cloudSide
<1>2. e \in ReportOf /\ e.dev = d /\ e.ver = version[d] + 1 /\ version[d] \in Nat /\ gone[d] \in Nat
  BY <1>0 DEF ReportTypes, ReportOf
<1> HIDE DEF e
<1>3. /\ told \in Seq(ReportOf) /\ told' \in Seq(ReportOf) /\ Len(told) \in Nat /\ DOMAIN told = 1 .. Len(told)
      /\ DOMAIN told' = 1 .. Len(told) + 1
      /\ \A i \in DOMAIN told : i \in DOMAIN told' /\ told'[i] = told[i] /\ told[i] \in ReportOf
      /\ Len(told) + 1 \in DOMAIN told' /\ told'[Len(told) + 1] = e
      /\ \A i \in DOMAIN told' : (i \in DOMAIN told /\ told'[i] = told[i]) \/ (i = Len(told) + 1 /\ told'[i] = e)
  <2>1. told \in Seq(ReportOf)
    BY <1>0 DEF ReportTypes
  <2>2. \A i \in DOMAIN told : told[i] \in ReportOf
    BY <2>1
  <2> QED
    BY <1>1, <1>2, <2>1, <2>2, AppendFacts
<1>4. /\ version' \in [Reported -> Nat] /\ version'[d] = version[d] + 1
      /\ \A c \in Reported : version[c] \in Nat /\ version[c] <= version'[c] /\ (c # d => version'[c] = version[c])
  BY <1>0, <1>1, <1>2 DEF ReportTypes
<1>5. seen' \in 0 .. MaxReports /\ seen \in Nat
  BY <1>0, <1>1, ReportAssumption DEF ReportTypes
<1>6. ReportTypes'
  BY <1>0, <1>1, <1>3, <1>4, <1>5 DEF ReportTypes
<1>7. ReportBounds'
  <2>1. \A c \in Reported : version'[c] <= seen' /\ gone'[c] <= version'[c]
    <3> TAKE c \in Reported
    <3>1. version[c] <= seen /\ gone[c] <= version[c] /\ version[c] \in Nat /\ gone[c] \in Nat /\ version'[c] \in Nat
      BY <1>0, <1>4 DEF ReportBounds, ReportTypes
    <3>2. version'[c] = version[c] \/ version'[c] = version[c] + 1
      BY <1>4
    <3>3. gone' = gone /\ seen' = seen + 1
      BY <1>1
    <3> QED
      BY <1>5, <3>1, <3>2, <3>3
  <2>2. \A i \in DOMAIN told' : told'[i].ver <= version'[told'[i].dev]
    <3> TAKE i \in DOMAIN told'
    <3>1. CASE i \in DOMAIN told /\ told'[i] = told[i]
      <4>1. told[i].dev \in Reported /\ told[i].ver \in Nat
        BY <1>3, <3>1 DEF ReportOf
      <4>2. told[i].ver <= version[told[i].dev]
        BY <1>0, <3>1 DEF ReportBounds
      <4> QED
        BY <1>4, <3>1, <4>1, <4>2
    <3>2. CASE told'[i] = e
      BY <1>2, <1>4, <3>2
    <3> QED
      BY <1>3, <3>1, <3>2
  <2>3. \A h \in Handlers : task'[h] # Resting => task'[h].ev.ver <= version'[task'[h].ev.dev]
    <3> SUFFICES ASSUME NEW h \in Handlers, task[h] # Resting PROVE task[h].ev.ver <= version'[task[h].ev.dev]
      BY <1>1
    <3>1. task[h].ev.dev \in Reported /\ task[h].ev.ver \in Nat /\ task[h].ev.ver <= version[task[h].ev.dev]
      BY <1>0, TaskFacts DEF ReportBounds
    <3> QED
      BY <1>4, <3>1
  <2>4. \A i \in DOMAIN up' : up'[i].action = "updateOption" => up'[i].value <= version'[up'[i].dev]
    <3> SUFFICES ASSUME NEW i \in DOMAIN up, up[i].action = "updateOption" PROVE up[i].value <= version'[up[i].dev]
      BY <1>1
    <3>1. up[i] \in RegisterMsgs \cup OptionMsgs \cup InfoMsgs
      BY <1>0 DEF ReportTypes
    <3>2. up[i].dev \in Reported /\ up[i].value \in Nat
      BY <3>1 DEF RegisterMsgs, OptionMsgs, InfoMsgs
    <3>3. up[i].value <= version[up[i].dev]
      BY <1>0 DEF ReportBounds
    <3> QED
      BY <1>4, <3>2, <3>3
  <2> QED
    BY <2>1, <2>2, <2>3, <2>4 DEF ReportBounds
<1>8. ReportOrder'
  <2>1. Lines(waiting', task') /\ UploadsFirst(task')
    BY <1>0, <1>1 DEF ReportOrder
  <2>2. Rising(told')
    <3> SUFFICES ASSUME NEW i \in DOMAIN told', NEW j \in DOMAIN told', i < j, told'[i].dev = told'[j].dev
                 PROVE  told'[i].ver < told'[j].ver
      BY DEF Rising
    <3>1. i \in DOMAIN told /\ told'[i] = told[i]
      BY <1>3
    <3>2. CASE j \in DOMAIN told /\ told'[j] = told[j]
      BY <1>0, <3>1, <3>2 DEF ReportOrder, Rising
    <3>3. CASE told'[j] = e
      <4>1. told[i].dev = d /\ told[i].ver <= version[d] /\ told[i].ver \in Nat
        BY <1>0, <1>2, <1>3, <3>1, <3>3 DEF ReportBounds, ReportOf
      <4> QED
        BY <1>2, <3>1, <3>3, <4>1
    <3> QED
      BY <1>3, <3>2, <3>3
  <2>3. \A h \in Handlers : ToldLater(task'[h], told')
    <3> SUFFICES ASSUME NEW h \in Handlers, NEW i \in DOMAIN told', Unfinished(task[h]), task[h].ev.dev = told'[i].dev
                 PROVE  task[h].ev.ver < told'[i].ver
      BY <1>1 DEF ToldLater
    <3>1. CASE i \in DOMAIN told /\ told'[i] = told[i]
      BY <1>0, <3>1 DEF ReportOrder, ToldLater
    <3>2. CASE told'[i] = e
      <4>1. task[h].at # "rest" /\ task[h] # Resting
        BY DEF Unfinished, Uploads, Resting
      <4>2. task[h].ev.ver \in Nat /\ task[h].ev.ver <= version[d]
        BY <1>0, <1>2, <3>2, <4>1, TaskFacts DEF ReportBounds
      <4> QED
        BY <1>2, <3>2, <4>2
    <3> QED
      BY <1>3, <3>1, <3>2
  <2> QED
    BY <2>1, <2>2, <2>3 DEF ReportOrder
<1>9. ReportFate'
  <2> SUFFICES ASSUME NEW c \in Reported PROVE Destiny(c)'
    BY DEF ReportFate
  <2>1. CASE c = d
    <3>1. told'[Len(told) + 1] = [dev |-> d, ver |-> version'[d]]
      BY <1>3, <1>4 DEF e
    <3>2. Pending(c, version'[c], told', task')
      BY <1>3, <2>1, <3>1 DEF Pending
    <3> QED
      BY <3>2 DEF Destiny
  <2>2. CASE c # d
    <3>1. version'[c] = version[c] /\ task' = task /\ up' = up /\ options' = options /\ gone' = gone
      BY <1>1, <1>4, <2>2
    <3>2. Pending(c, version[c], told, task) => Pending(c, version[c], told', task)
      BY <1>3 DEF Pending
    <3>3. AllTold(c, told, task) => AllTold(c, told', task)
      BY <1>2, <1>3, <2>2 DEF AllTold
    <3>4. \/ gone[c] = version[c] \/ Pending(c, version[c], told, task)
          \/ AllTold(c, told, task) /\ Shown(c, version[c], up, options)
      BY <1>0 DEF ReportFate, Destiny
    <3> QED
      BY <3>1, <3>2, <3>3, <3>4 DEF Destiny
  <2> QED
    BY <2>1, <2>2
<1> QED
  BY <1>6, <1>7, <1>8, <1>9 DEF ReportInv

\* The tasks are gone.
LEMMA HandledLost == ASSUME ReportTypes, ReportBounds PROVE Lost(Handled)
<1> SUFFICES ASSUME NEW h \in Handlers, task[h] # Resting
             PROVE  task[h].ev \in ReportOf /\ task[h].ev.ver <= version[task[h].ev.dev]
  BY DEF Lost, Handled
<1>1. task[h].at # "rest"
  BY TaskFacts
<1> QED
  BY <1>1, TaskFacts DEF ReportBounds

LEMMA UnsentLost ==
    ASSUME ReportTypes, ReportBounds
    PROVE  /\ Lost(Unsent)
           /\ \A d \in Reported, i \in DOMAIN up : IsAddress(up[i], d) => [dev |-> d, ver |-> up[i].value] \in Unsent
<1>1. ASSUME NEW i \in DOMAIN up, up[i].action = "updateOption"
      PROVE  up[i].dev \in Reported /\ up[i].value \in Nat /\ up[i].value <= version[up[i].dev]
  <2>1. up[i] \in RegisterMsgs \cup OptionMsgs \cup InfoMsgs
    BY DEF ReportTypes
  <2> QED
    BY <1>1, <2>1 DEF RegisterMsgs, OptionMsgs, InfoMsgs, ReportBounds
<1>2. Lost(Unsent)
  BY <1>1 DEF Lost, Unsent, ReportOf
<1>3. \A d \in Reported, i \in DOMAIN up : IsAddress(up[i], d) => [dev |-> d, ver |-> up[i].value] \in Unsent
  BY DEF IsAddress, Unsent
<1> QED
  BY <1>2, <1>3

LEMMA CrashedInv ==
    ASSUME ReportInv, Crashed, UNCHANGED <<told, version, status, options, stray, whitelist, seen>>,
           NEW reports, Handled \subseteq reports, Lost(reports), Missing(reports),
           up' = Orphans \/ (up' = <<>> /\ Unsent \subseteq reports)
    PROVE  ReportInv'
<1>0. ReportTypes /\ ReportBounds /\ ReportOrder /\ ReportFate
  BY DEF ReportInv
<1>1. /\ task' = [t \in Tasks |-> Resting] /\ waiting' = [a \in Actions |-> <<>>] /\ down' = <<>>
  BY DEF Crashed
<1>2. /\ gone' \in [Reported -> Nat] /\ \A d \in Reported : gone'[d] <= version[d]
      /\ \A d \in Reported : gone[d] = version[d] => gone'[d] = version[d]
      /\ \A r \in reports : r.ver = version[r.dev] => gone'[r.dev] = version[r.dev]
  BY <1>0, MissingFacts
<1>3. \A t \in Tasks : task'[t] = Resting /\ Resting.at = "rest"
  BY <1>1 DEF Resting
<1>4. Handlers \subseteq Tasks
  BY DEF Tasks
<1>5. /\ up' \in Seq(RequestMsgs)
      /\ \A i \in DOMAIN up' : up'[i].action = "updateOption" => up'[i].value <= version[up'[i].dev]
      /\ up' = Orphans => Alike(up, up')
  <2>1. CASE up' = <<>> /\ up' # Orphans
    <3>1. up' \in Seq(RequestMsgs) /\ DOMAIN up' = {}
      BY <2>1
    <3> QED
      BY <2>1, <3>1
  <2>2. CASE up' = Orphans
    <3>1. up \in Seq(RequestMsgs) /\ Len(up) \in Nat /\ DOMAIN up = 1 .. Len(up)
      BY <1>0 DEF ReportTypes, RequestMsgs
    <3>2. up' = [i \in 1 .. Len(up) |-> [up[i] EXCEPT !.by = "nobody"]]
      BY <2>2, <3>1 DEF Orphans
    <3>3. ASSUME NEW i \in 1 .. Len(up)
          PROVE  /\ up'[i] \in RequestMsgs /\ up'[i].action = up[i].action
                 /\ up[i].action = "updateOption" => up'[i].dev = up[i].dev /\ up'[i].key = up[i].key /\ up'[i].value = up[i].value
      <4>1. up[i] \in RegisterMsgs \/ up[i] \in OptionMsgs \/ up[i] \in InfoMsgs
        BY <3>1, <3>3 DEF RequestMsgs
      <4>2. up'[i] = [up[i] EXCEPT !.by = "nobody"]
        BY <3>2, <3>3
      <4>3. CASE up[i] \in RegisterMsgs
        BY <4>2, <4>3 DEF RequestMsgs, RegisterMsgs, Askers
      <4>4. CASE up[i] \in OptionMsgs
        BY <4>2, <4>4 DEF RequestMsgs, OptionMsgs, Askers
      <4>5. CASE up[i] \in InfoMsgs
        BY <4>2, <4>5 DEF RequestMsgs, InfoMsgs, Askers
      <4> QED
        BY <4>1, <4>3, <4>4, <4>5
    <3>4. DOMAIN up' = 1 .. Len(up) /\ up' \in Seq(RequestMsgs)
      BY <3>1, <3>2, <3>3
    <3>5. \A i \in DOMAIN up' : up'[i].action = "updateOption" => up'[i].value <= version[up'[i].dev]
      BY <1>0, <3>1, <3>3, <3>4 DEF ReportBounds
    <3>6. Alike(up, up')
      BY <3>1, <3>3, <3>4 DEF IsAddress, Alike
    <3> QED
      BY <3>1, <3>4, <3>5, <3>6
  <2> QED
    BY <2>1, <2>2
<1>6. ReportTypes'
  <2>1. <<>> \in Seq(Answered \cup Infos) /\ <<>> \in Seq(Tasks)
    OBVIOUS
  <2>2. DOMAIN task' = Tasks /\ waiting' \in [Actions -> Seq(Tasks)] /\ down' \in Seq(Answered \cup Infos)
    BY <1>1, <2>1
  <2>3. /\ \A h \in Handlers : HandlerTask(task'[h])
        /\ \A t \in Tasks \ Handlers : task'[t].at \in {"rest", "info", "failed"}
    BY <1>3, <1>4 DEF HandlerTask
  <2> QED
    BY <1>0, <1>2, <1>5, <2>2, <2>3 DEF ReportTypes, RequestMsgs
<1>7. ReportBounds'
  BY <1>0, <1>2, <1>3, <1>4, <1>5 DEF ReportBounds
<1>8. ReportOrder'
  <2>1. \A a \in {"requestInfo", "registerDevice", "updateOption"} : waiting'[a] = <<>> /\ IsInjective(waiting'[a])
    BY <1>1 DEF Actions, IsInjective
  <2>2. <<>> \in Seq(Tasks) /\ DOMAIN <<>> = {}
    OBVIOUS
  <2>3. Lines(waiting', task')
    BY <1>3, <2>1, <2>2 DEF Lines, InLine, Orderly
  <2>4. UploadsFirst(task')
    BY <1>3, <1>4 DEF UploadsFirst, Behind
  <2>5. Rising(told') /\ \A h \in Handlers : ToldLater(task'[h], told')
    BY <1>0, <1>3, <1>4 DEF ReportOrder, ToldLater, Unfinished, Uploads
  <2> QED
    BY <2>3, <2>4, <2>5 DEF ReportOrder
<1>9. ReportFate'
  <2> SUFFICES ASSUME NEW d \in Reported, gone'[d] # version[d] PROVE Destiny(d)'
    BY DEF ReportFate, Destiny
  <2>1. \/ Pending(d, version[d], told, task)
        \/ AllTold(d, told, task) /\ Shown(d, version[d], up, options)
    BY <1>0, <1>2 DEF ReportFate, Destiny
  <2>2. ASSUME NEW h \in Handlers, Unfinished(task[h]), task[h].ev = [dev |-> d, ver |-> version[d]] PROVE FALSE
    <3>1. task[h] # Resting
      BY <2>2 DEF Unfinished, Uploads, Resting
    <3>2. task[h].ev \in reports
      BY <3>1 DEF Handled
    <3>3. task[h].ev.dev = d /\ task[h].ev.ver = version[d]
      BY <2>2
    <3> QED
      BY <1>2, <3>2, <3>3
  <2>3. CASE Pending(d, version[d], told, task)
    <3>1. Pending(d, version[d], told, task')
      BY <2>2, <2>3 DEF Pending
    <3> QED
      BY <3>1 DEF Destiny
  <2>4. CASE AllTold(d, told, task) /\ Shown(d, version[d], up, options)
    <3>1. AllTold(d, told, task')
      BY <1>3, <1>4, <2>4 DEF AllTold, Unfinished, Uploads
    <3>2. Shown(d, version[d], up', options)
      <4>1. CASE up' = Orphans
        <5>1. Alike(up, up')
          BY <1>5, <4>1
        <5> QED
          BY <2>4, <5>1, ShownAlike
      <4>2. CASE up' = <<>> /\ Unsent \subseteq reports
        <5>1. \A i \in DOMAIN up : ~(IsAddress(up[i], d) /\ up[i].value = version[d])
          <6> SUFFICES ASSUME NEW i \in DOMAIN up, IsAddress(up[i], d), up[i].value = version[d] PROVE FALSE
            OBVIOUS
          <6> DEFINE r == [dev |-> d, ver |-> up[i].value]
          <6>1. r \in reports
            BY <1>0, <4>2, UnsentLost
          <6>2. r.dev = d /\ r.ver = version[d]
            OBVIOUS
          <6> HIDE DEF r
          <6> QED
            BY <1>2, <6>1, <6>2
        <5>2. options[d].ipv4 = version[d]
          BY <2>4, <5>1 DEF Shown
        <5>3. DOMAIN up' = {}
          BY <4>2
        <5> QED
          BY <5>2, <5>3 DEF Shown
      <4> QED
        BY <4>1, <4>2
    <3>3. version' = version /\ told' = told /\ options' = options
      OBVIOUS
    <3> QED
      BY <3>1, <3>2, <3>3 DEF Destiny
  <2> QED
    BY <2>1, <2>3, <2>4
<1> QED
  BY <1>6, <1>7, <1>8, <1>9 DEF ReportInv

\* The connection is gone, the tasks wait on.
LEMMA EndedInv ==
    ASSUME ReportInv, Ended, Missing(Unsent),
           UNCHANGED <<told, version, task, waiting, status, options, stray, whitelist, seen>>
    PROVE  ReportInv'
<1>0. ReportTypes /\ ReportBounds /\ ReportOrder /\ ReportFate
  BY DEF ReportInv
<1>1. up' = <<>> /\ down' = <<>>
  BY DEF Ended
<1>2. /\ gone' \in [Reported -> Nat] /\ \A d \in Reported : gone'[d] <= version[d]
      /\ \A d \in Reported : gone[d] = version[d] => gone'[d] = version[d]
      /\ \A r \in Unsent : r.ver = version[r.dev] => gone'[r.dev] = version[r.dev]
  BY <1>0, MissingFacts, UnsentLost
<1>3. /\ up' \in Seq(RegisterMsgs \cup OptionMsgs \cup InfoMsgs) /\ down' \in Seq(Answered \cup Infos)
      /\ DOMAIN up' = {}
  BY <1>1
<1>4. ReportTypes'
  BY <1>0, <1>2, <1>3 DEF ReportTypes
<1>5. ReportBounds'
  BY <1>0, <1>2, <1>3 DEF ReportBounds
<1>6. ReportOrder'
  BY <1>0 DEF ReportOrder
<1>7. ReportFate'
  <2> SUFFICES ASSUME NEW d \in Reported, gone'[d] # version[d] PROVE Destiny(d)'
    BY DEF ReportFate, Destiny
  <2>1. \/ Pending(d, version[d], told, task)
        \/ AllTold(d, told, task) /\ Shown(d, version[d], up, options)
    BY <1>0, <1>2 DEF ReportFate, Destiny
  <2>2. Shown(d, version[d], up, options) => Shown(d, version[d], up', options)
    <3>1. \A i \in DOMAIN up : ~(IsAddress(up[i], d) /\ up[i].value = version[d])
      <4> SUFFICES ASSUME NEW i \in DOMAIN up, IsAddress(up[i], d), up[i].value = version[d] PROVE FALSE
        OBVIOUS
      <4> DEFINE r == [dev |-> d, ver |-> up[i].value]
      <4>1. r \in Unsent
        BY <1>0, UnsentLost
      <4>2. r.dev = d /\ r.ver = version[d]
        OBVIOUS
      <4> HIDE DEF r
      <4> QED
        BY <1>2, <4>1, <4>2
    <3> QED
      BY <1>3, <3>1 DEF Shown
  <2>3. version' = version /\ told' = told /\ options' = options /\ task' = task
    OBVIOUS
  <2> QED
    BY <2>1, <2>2, <2>3 DEF Destiny
<1> QED
  BY <1>4, <1>5, <1>6, <1>7 DEF ReportInv

LEMMA BridgeFailsInv == ASSUME ReportInv, BridgeFails PROVE ReportInv'
<1>1. /\ Crashed /\ up' = Orphans /\ Missing(Handled)
      /\ UNCHANGED <<told, version, status, options, stray, whitelist, seen>>
  BY DEF BridgeFails, cloudSide
<1> QED
  BY <1>1, CrashedInv, HandledLost DEF ReportInv

LEMMA LoseConnectionInv == ASSUME ReportInv, LoseConnection PROVE ReportInv'
<1>1. /\ Ended /\ Missing(Unsent)
      /\ UNCHANGED <<told, version, task, waiting, status, options, stray, whitelist, seen>>
  BY DEF LoseConnection, cloudSide
<1> QED
  BY <1>1, EndedInv

LEMMA InfoFailsInv == ASSUME ReportInv, InfoFails PROVE ReportInv'
<1>1. UNCHANGED <<told, version, status, options, stray, whitelist, seen>>
  BY DEF InfoFails, cloudSide, counters
<1>2. CASE Crashed /\ up' = <<>> /\ Missing(Handled \cup Unsent)
  <2>1. Lost(Handled \cup Unsent)
    BY HandledLost, UnsentLost DEF ReportInv, Lost
  <2>2. Handled \subseteq Handled \cup Unsent /\ Unsent \subseteq Handled \cup Unsent
    OBVIOUS
  <2> QED
    BY <1>1, <1>2, <2>1, <2>2, CrashedInv
<1>3. CASE Ended /\ Missing(Unsent) /\ UNCHANGED <<task, waiting>>
  BY <1>1, <1>3, EndedInv
<1>4. \/ Crashed /\ up' = <<>> /\ Missing(Handled \cup Unsent)
      \/ Ended /\ Missing(Unsent) /\ UNCHANGED <<task, waiting>>
  BY DEF InfoFails
<1> QED
  BY <1>2, <1>3, <1>4

-----------------------------------------------------------------------------
(* Of the handlers.                                                        *)

\* What an unfinished handler is.
LEMMA UnfinishedFacts ==
    ASSUME ReportTypes, ReportBounds, NEW t \in Tasks, Unfinished(task[t])
    PROVE  /\ t \in Handlers /\ task[t] # Resting /\ task[t].ev \in ReportOf /\ task[t].ev.dev \in Reported
           /\ task[t].ev.ver \in Nat /\ task[t].ev.ver <= version[task[t].ev.dev]
           /\ version[task[t].ev.dev] \in Nat
           /\ task[t].ev = [dev |-> task[t].ev.dev, ver |-> task[t].ev.ver]
<1>1. task[t].at \in {"register", "option"} /\ task[t] # Resting /\ task[t].at # "rest"
  BY DEF Unfinished, Uploads, Resting
<1>2. t \in Handlers
  BY <1>1, TaskFacts
<1>3. task[t].ev \in ReportOf /\ task[t].ev.dev \in Reported /\ task[t].ev.ver \in Nat
  BY <1>1, <1>2, TaskFacts
<1>4. version[task[t].ev.dev] \in Nat /\ task[t].ev.ver <= version[task[t].ev.dev]
  BY <1>1, <1>2, <1>3 DEF ReportTypes, ReportBounds
<1>5. task[t].ev = [dev |-> task[t].ev.dev, ver |-> task[t].ev.ver]
  BY <1>3 DEF ReportOf
<1> QED
  BY <1>1, <1>2, <1>3, <1>4, <1>5

LEMMA TakeReportInv == ASSUME ReportInv, NEW h \in Handlers, TakeReport(h) PROVE ReportInv'
<1>0. ReportTypes /\ ReportBounds /\ ReportOrder /\ ReportFate
  BY DEF ReportInv
<1> DEFINE e == Head(told)
           r == [at |-> "register", ev |-> e]
           m == [action |-> "registerDevice", dev |-> e.dev, by |-> h]
           reg == waiting["registerDevice"]
           upd == waiting["updateOption"]
           inf == waiting["requestInfo"]
<1>1. /\ told # <<>> /\ task[h] = Resting /\ told' = Tail(told)
      /\ task' = [task EXCEPT ![h] = r] /\ up' = Append(up, m)
      /\ waiting' = [waiting EXCEPT !["registerDevice"] = Append(reg, h)]
      /\ UNCHANGED <<version, down, status, options, stray, whitelist, gone, seen>>
  BY DEF TakeReport, Sends, cloudSide, counters
<1>2. /\ told \in Seq(ReportOf) /\ told' \in Seq(ReportOf) /\ e = told[1] /\ e \in ReportOf /\ 1 \in DOMAIN told
      /\ e.dev \in Reported /\ e.ver \in Nat
      /\ \A k \in DOMAIN told' : k \in Nat /\ k # 0 /\ k + 1 \in DOMAIN told /\ told'[k] = told[k + 1]
      /\ \A k \in DOMAIN told : k = 1 \/ \E i \in DOMAIN told' : told'[i] = told[k]
  <2>1. told \in Seq(ReportOf)
    BY <1>0 DEF ReportTypes
  <2>2. /\ told' \in Seq(ReportOf) /\ e = told[1] /\ e \in ReportOf /\ 1 \in DOMAIN told
        /\ \A k \in DOMAIN told' : k \in Nat /\ k + 1 \in DOMAIN told /\ told'[k] = told[k + 1]
        /\ \A k \in DOMAIN told : k = 1 \/ \E i \in DOMAIN told' : told'[i] = told[k]
    BY <1>1, <2>1, TailFacts
  <2>3. DOMAIN told' = 1 .. Len(told')
    BY <2>2
  <2> HIDE DEF e
  <2>4. e.dev \in Reported /\ e.ver \in Nat
    BY <2>2 DEF ReportOf
  <2>5. \A k \in DOMAIN told' : k # 0
    BY <2>3
  <2> QED
    BY <2>1, <2>2, <2>4, <2>5
<1>3. h \in Tasks /\ task[h].at = "rest" /\ r.at = "register" /\ r.ev = e
  BY <1>0, <1>1, TaskFacts DEF Resting
<1>4. m \in RequestMsgs /\ m.action = "registerDevice"
  <2> HIDE DEF e
  <2> QED
    BY <1>2, <1>3 DEF RequestMsgs, RegisterMsgs, Askers
<1>r. ~Uploads(r)
  BY DEF Uploads
<1> HIDE DEF e, r, m
<1>5. DOMAIN task' = Tasks /\ task'[h] = r /\ OnlyOf(h, task, task')
  BY <1>0, <1>1, <1>3 DEF ReportTypes, OnlyOf
<1>6. /\ waiting' \in [Actions -> Seq(Tasks)] /\ reg \in Seq(Tasks) /\ upd \in Seq(Tasks)
      /\ waiting'["registerDevice"] = Append(reg, h) /\ waiting'["updateOption"] = upd /\ waiting'["requestInfo"] = inf
  BY <1>0, <1>1, <1>3 DEF ReportTypes, Actions
<1>7. /\ up' \in Seq(RequestMsgs)
      /\ \A i \in DOMAIN up' : up'[i].action = "updateOption" => up'[i].value <= version[up'[i].dev]
      /\ \A d, v : Shown(d, v, up, options) => Shown(d, v, up', options)
  BY <1>0, <1>1, <1>4, RequestAppend DEF IsAddress
<1>8. ReportTypes'
  <2>1. HandlerTask(r)
    BY <1>2, <1>3 DEF HandlerTask
  <2>2. /\ \A k \in Handlers : HandlerTask(task'[k])
        /\ \A t \in Tasks \ Handlers : task'[t].at \in {"rest", "info", "failed"}
    BY <1>0, <1>5, <2>1, TaskFacts DEF ReportTypes, OnlyOf
  <2> QED
    BY <1>0, <1>1, <1>2, <1>5, <1>6, <1>7, <2>2 DEF ReportTypes, RequestMsgs
<1>e. e.ver <= version[e.dev]
  BY <1>0, <1>2 DEF ReportBounds
<1>9. ReportBounds'
  <2>1. \A i \in DOMAIN told' : told'[i].ver <= version[told'[i].dev]
    BY <1>0, <1>2 DEF ReportBounds
  <2>2. \A k \in Handlers : task'[k] # Resting => task'[k].ev.ver <= version[task'[k].ev.dev]
    BY <1>0, <1>3, <1>5, <1>e, TaskFacts DEF ReportBounds, OnlyOf
  <2> QED
    BY <1>0, <1>1, <1>7, <2>1, <2>2 DEF ReportBounds
\* No unfinished report of this device is newer.
<1>10. \A k \in Handlers : Unfinished(task[k]) /\ task[k].ev.dev = e.dev => task[k].ev.ver < e.ver
  BY <1>0, <1>2 DEF ReportOrder, ToldLater
<1>11. \A k \in Handlers : Unfinished(task[k]) => k # h
  BY <1>3 DEF Unfinished, Uploads
<1>12. Lines(waiting', task')
  <2>1. /\ InLine(inf, task, "info") /\ InLine(reg, task, "register") /\ InLine(upd, task, "option")
        /\ Orderly(reg, task) /\ Orderly(upd, task)
    BY <1>0 DEF ReportOrder, Lines
  <2>2. InLine(inf, task', "info") /\ InLine(upd, task', "option")
    <3>1. task[h].at # "info" /\ task'[h].at # "info" /\ task[h].at # "option" /\ task'[h].at # "option"
      BY <1>3, <1>5
    <3> QED
      BY <1>3, <1>5, <2>1, <3>1, LineStays
  <2>3. InLine(Append(reg, h), task', "register")
    <3>1. task[h].at # "register" /\ task'[h].at = "register"
      BY <1>3, <1>5
    <3> QED
      BY <1>3, <1>5, <2>1, <3>1, LineJoins
  <2>4. \A i \in DOMAIN reg : reg[i] \in Handlers /\ reg[i] # h /\ task'[reg[i]] = task[reg[i]]
    <3> TAKE i \in DOMAIN reg
    <3>1. reg[i] \in Tasks /\ task[reg[i]].at = "register"
      BY <1>6, <2>1 DEF InLine
    <3>2. reg[i] \in Handlers /\ reg[i] # h
      BY <1>0, <1>3, <3>1, TaskFacts
    <3> QED
      BY <1>5, <3>1, <3>2 DEF OnlyOf
  <2>5. Orderly(upd, task')
    <3>1. \A i \in DOMAIN upd : task'[upd[i]] = task[upd[i]]
      BY <1>3, <1>5, <1>6, <2>1 DEF InLine, OnlyOf
    <3> QED
      BY <2>1, <3>1, OrderlyStays
  <2>6. Orderly(Append(reg, h), task')
    <3>1. Orderly(reg, task')
      BY <2>1, <2>4, OrderlyStays
    <3>2. \A i \in DOMAIN reg : Unfinished(task'[reg[i]]) /\ Unfinished(task'[h]) /\ task'[reg[i]].ev.dev = task'[h].ev.dev
                                   => task'[reg[i]].ev.ver < task'[h].ev.ver
      BY <1>3, <1>5, <1>10, <2>4
    <3> QED
      BY <1>3, <1>6, <3>1, <3>2, OrderlyJoins
  <2> QED
    BY <1>6, <2>2, <2>3, <2>5, <2>6 DEF Lines
<1>13. UploadsFirst(task')
  <2> SUFFICES ASSUME NEW k \in Handlers, NEW q \in Handlers PROVE Behind(task'[k], task'[q])
    BY DEF UploadsFirst
  <2>1. CASE q = h
    BY <1>5, <1>r, <2>1 DEF Behind
  <2>2. CASE q # h /\ k = h
    <3>1. task'[q] = task[q] /\ task'[k] = r
      BY <1>0, <1>5, <2>2, TaskFacts DEF OnlyOf
    <3> QED
      BY <1>3, <1>10, <3>1 DEF Behind, Unfinished
  <2>3. CASE q # h /\ k # h
    <3>1. task'[q] = task[q] /\ task'[k] = task[k]
      BY <1>0, <1>5, <2>3, TaskFacts DEF OnlyOf
    <3> QED
      BY <1>0, <3>1 DEF ReportOrder, UploadsFirst
  <2> QED
    BY <2>1, <2>2, <2>3
<1>14. Rising(told') /\ \A k \in Handlers : ToldLater(task'[k], told')
  <2>1. Rising(told')
    <3> SUFFICES ASSUME NEW i \in DOMAIN told', NEW j \in DOMAIN told', i < j, told'[i].dev = told'[j].dev
                 PROVE  told'[i].ver < told'[j].ver
      BY DEF Rising
    <3>1. i \in Nat /\ j \in Nat /\ i + 1 < j + 1 /\ i + 1 \in DOMAIN told /\ j + 1 \in DOMAIN told
          /\ told'[i] = told[i + 1] /\ told'[j] = told[j + 1]
      BY <1>2
    <3> QED
      BY <1>0, <3>1 DEF ReportOrder, Rising
  <2>2. \A i \in DOMAIN told' : told'[i].dev = e.dev => e.ver < told'[i].ver
    <3> TAKE i \in DOMAIN told'
    <3>1. i \in Nat /\ 1 < i + 1 /\ i + 1 \in DOMAIN told /\ told'[i] = told[i + 1]
      BY <1>2
    <3> QED
      BY <1>0, <1>2, <3>1 DEF ReportOrder, Rising
  <2>3. ASSUME NEW k \in Handlers PROVE ToldLater(task'[k], told')
    <3>1. CASE k = h
      BY <1>3, <1>5, <2>2, <3>1 DEF ToldLater
    <3>2. CASE k # h
      <4>1. task'[k] = task[k]
        BY <1>0, <1>5, <3>2, TaskFacts DEF OnlyOf
      <4> QED
        BY <1>0, <1>2, <4>1, SMTT(40) DEF ReportOrder, ToldLater
    <3> QED
      BY <3>1, <3>2
  <2> QED
    BY <2>1, <2>3
<1>15. ReportFate'
  <2> SUFFICES ASSUME NEW d \in Reported PROVE Destiny(d)'
    BY DEF ReportFate
  <2>1. \/ gone[d] = version[d] \/ Pending(d, version[d], told, task)
        \/ AllTold(d, told, task) /\ Shown(d, version[d], up, options)
    BY <1>0 DEF ReportFate, Destiny
  <2>2. \A k \in Handlers : k # h => task'[k] = task[k]
    BY <1>0, <1>5, TaskFacts DEF OnlyOf
  <2>3. Pending(d, version[d], told, task) => Pending(d, version[d], told', task')
    <3>1. ASSUME NEW k \in Handlers, Unfinished(task[k]), task[k].ev = [dev |-> d, ver |-> version[d]]
          PROVE  Pending(d, version[d], told', task')
      BY <1>11, <2>2, <3>1 DEF Pending
    <3>2. ASSUME NEW k \in DOMAIN told, told[k] = [dev |-> d, ver |-> version[d]]
          PROVE  Pending(d, version[d], told', task')
      <4>1. CASE k = 1
        <5>1. Unfinished(task'[h]) /\ task'[h].ev = [dev |-> d, ver |-> version[d]]
          BY <1>2, <1>3, <1>5, <3>2, <4>1 DEF Unfinished
        <5> QED
          BY <5>1 DEF Pending
      <4>2. CASE k # 1
        BY <1>2, <3>2, <4>2 DEF Pending
      <4> QED
        BY <4>1, <4>2
    <3> QED
      BY <3>1, <3>2 DEF Pending
  <2>4. AllTold(d, told, task) => AllTold(d, told', task')
    <3> SUFFICES ASSUME AllTold(d, told, task) PROVE AllTold(d, told', task')
      OBVIOUS
    <3>1. \A i \in DOMAIN told' : told'[i].dev # d
      BY <1>2 DEF AllTold
    <3>2. e.dev # d
      BY <1>2 DEF AllTold
    <3>3. \A k \in Handlers : ~(Unfinished(task'[k]) /\ task'[k].ev.dev = d)
      BY <1>3, <1>5, <2>2, <3>2 DEF AllTold
    <3> QED
      BY <3>1, <3>3 DEF AllTold
  <2>5. \/ gone'[d] = version'[d] \/ Pending(d, version'[d], told', task')
        \/ AllTold(d, told', task') /\ Shown(d, version'[d], up', options')
    BY <1>1, <1>7, <2>1, <2>3, <2>4
  <2> QED
    BY <2>5 DEF Destiny
<1>16. ReportOrder'
  BY <1>12, <1>13, <1>14 DEF ReportOrder
<1> QED
  BY <1>8, <1>9, <1>15, <1>16 DEF ReportInv

\* Handler t was the first in its line.
Turn(t, a, r) ==
    /\ <<a, task[t].at>> \in {<<"registerDevice", "register">>, <<"updateOption", "option">>}
    /\ waiting[a] # <<>> /\ t = Head(waiting[a])
    /\ task' = [task EXCEPT ![t] = r]
    /\ UNCHANGED <<told, version, status, options, stray, whitelist, seen>>
    /\ down' \in Seq(Answered \cup Infos)

LEMMA TurnFacts ==
    ASSUME ReportInv, NEW t, NEW a, NEW r, Turn(t, a, r), HandlerTask(r),
           r # Resting => r.ev = task[t].ev
    PROVE  /\ t \in Handlers /\ t \in Tasks /\ DOMAIN task' = Tasks /\ task'[t] = r /\ OnlyOf(t, task, task')
           /\ \A h \in Handlers : HandlerTask(task'[h]) /\ (h # t => task'[h] = task[h])
           /\ \A u \in Tasks \ Handlers : task'[u].at \in {"rest", "info", "failed"}
           /\ task[t].ev \in ReportOf /\ task[t].ev.dev \in Reported /\ task[t].ev.ver \in Nat
           /\ task[t].ev.ver <= version[task[t].ev.dev]
           /\ \A h \in Handlers : task'[h] # Resting => task'[h].ev.ver <= version[task'[h].ev.dev]
<1>0. ReportTypes /\ ReportBounds /\ ReportOrder
  BY DEF ReportInv
<1>1. InLine(waiting[a], task, task[t].at) /\ waiting[a] # <<>> /\ t = Head(waiting[a])
  BY <1>0 DEF Turn, ReportOrder, Lines
<1>2. t \in Tasks
  BY <1>1, HeadGone DEF InLine
<1>3. t \in Handlers /\ task[t].at # "rest" /\ task[t] # Resting
  BY <1>0, <1>2, TaskFacts DEF Turn, Resting
<1>4. DOMAIN task' = Tasks /\ task'[t] = r /\ OnlyOf(t, task, task')
  BY <1>0, <1>2 DEF Turn, OnlyOf, ReportTypes
<1>5. Handlers \subseteq Tasks
  BY DEF Tasks
<1>6. /\ \A h \in Handlers : HandlerTask(task'[h]) /\ (h # t => task'[h] = task[h])
      /\ \A u \in Tasks \ Handlers : task'[u].at \in {"rest", "info", "failed"}
  BY <1>0, <1>3, <1>4, <1>5 DEF OnlyOf, ReportTypes
<1>7. /\ task[t].ev \in ReportOf /\ task[t].ev.dev \in Reported /\ task[t].ev.ver \in Nat
      /\ task[t].ev.ver <= version[task[t].ev.dev]
  BY <1>0, <1>3, TaskFacts DEF ReportBounds
<1>8. \A h \in Handlers : task'[h] # Resting => task'[h].ev.ver <= version[task'[h].ev.dev]
  BY <1>0, <1>4, <1>6, <1>7 DEF ReportBounds
<1> QED
  BY <1>2, <1>3, <1>4, <1>6, <1>7, <1>8

\* The others' order does not depend on a handler that has sent the address.
LEMMA DoneOrder ==
    ASSUME ReportInv, NEW t, NEW a, NEW r, Turn(t, a, r), HandlerTask(r), r # Resting => r.ev = task[t].ev,
           ~Unfinished(r), Lines(waiting', task')
    PROVE  ReportOrder'
<1>0. ReportOrder
  BY DEF ReportInv
<1>1. task'[t] = r /\ told' = told /\ \A h \in Handlers : h # t => task'[h] = task[h]
  BY TurnFacts DEF Turn
<1>2. r.at # "register" /\ ~Uploads(r)
  BY DEF Unfinished
<1>3. UploadsFirst(task')
  <2> SUFFICES ASSUME NEW k \in Handlers, NEW q \in Handlers PROVE Behind(task'[k], task'[q])
    BY DEF UploadsFirst
  <2>1. CASE k = t \/ q = t
    BY <1>1, <1>2, <2>1 DEF Behind
  <2>2. CASE k # t /\ q # t
    <3>1. task'[k] = task[k] /\ task'[q] = task[q]
      BY <1>1, <2>2
    <3> QED
      BY <1>0, <3>1 DEF ReportOrder, UploadsFirst
  <2> QED
    BY <2>1, <2>2
<1>4. ASSUME NEW k \in Handlers PROVE ToldLater(task'[k], told)
  <2>1. CASE k = t
    BY <1>1, <2>1 DEF ToldLater
  <2>2. CASE k # t
    <3>1. task'[k] = task[k]
      BY <1>1, <2>2
    <3> QED
      BY <1>0, <3>1 DEF ReportOrder
  <2> QED
    BY <2>1, <2>2
<1>5. Rising(told') /\ \A k \in Handlers : ToldLater(task'[k], told')
  BY <1>0, <1>1, <1>4 DEF ReportOrder
<1> QED
  BY <1>3, <1>5 DEF ReportOrder

\* Handler t is done with its report, or gives it up.
LEMMA FinishInv ==
    ASSUME ReportInv, NEW t, NEW a, Turn(t, a, Resting), waiting' = [waiting EXCEPT ![a] = Tail(waiting[a])],
           up' = up, Missing({task[t].ev}) \/ (gone' = gone /\ ~Unfinished(task[t]))
    PROVE  ReportInv'
<1>0. ReportTypes /\ ReportBounds /\ ReportOrder /\ ReportFate
  BY DEF ReportInv
<1> DEFINE e == task[t].ev
<1>1. HandlerTask(Resting) /\ ~Unfinished(Resting) /\ Resting.at = "rest"
  BY DEF HandlerTask, Resting, Unfinished, Uploads
<1>2. /\ t \in Handlers /\ t \in Tasks /\ DOMAIN task' = Tasks /\ task'[t] = Resting /\ OnlyOf(t, task, task')
      /\ \A h \in Handlers : HandlerTask(task'[h]) /\ (h # t => task'[h] = task[h])
      /\ \A u \in Tasks \ Handlers : task'[u].at \in {"rest", "info", "failed"}
      /\ e \in ReportOf /\ e.dev \in Reported /\ e.ver \in Nat /\ e.ver <= version[e.dev]
      /\ \A h \in Handlers : task'[h] # Resting => task'[h].ev.ver <= version[task'[h].ev.dev]
  BY <1>1, TurnFacts
<1> HIDE DEF e
<1>3. /\ UNCHANGED <<told, version, status, options, stray, whitelist, seen>>
      /\ down' \in Seq(Answered \cup Infos)
      /\ waiting[a] # <<>> /\ t = Head(waiting[a])
  BY DEF Turn
<1>4. /\ gone' \in [Reported -> Nat] /\ \A d \in Reported : gone'[d] <= version[d]
      /\ \A d \in Reported : gone[d] = version[d] => gone'[d] = version[d]
      /\ Unfinished(task[t]) /\ e.ver = version[e.dev] => gone'[e.dev] = version[e.dev]
  <2>1. CASE gone' = gone /\ ~Unfinished(task[t])
    BY <1>0, <2>1 DEF ReportTypes, ReportBounds
  <2>2. CASE Missing({e})
    <3>1. Lost({e})
      BY <1>2 DEF Lost
    <3> QED
      BY <1>0, <2>2, <3>1, MissingFacts
  <2> QED
    BY <2>1, <2>2 DEF e
<1> DEFINE reg == waiting["registerDevice"]
           upd == waiting["updateOption"]
           inf == waiting["requestInfo"]
<1>5. /\ InLine(inf, task, "info") /\ InLine(reg, task, "register") /\ InLine(upd, task, "option")
      /\ Orderly(reg, task) /\ Orderly(upd, task) /\ reg \in Seq(Tasks) /\ upd \in Seq(Tasks)
  BY <1>0 DEF ReportOrder, Lines, InLine
<1>6. \A q : Orderly(q, task) /\ q \in Seq(Tasks) => Orderly(q, task')
  <2> TAKE q
  <2> SUFFICES ASSUME Orderly(q, task), q \in Seq(Tasks) PROVE Orderly(q, task')
    OBVIOUS
  <2>1. \A i \in DOMAIN q : q[i] \in Tasks
    OBVIOUS
  <2>2. \A i \in DOMAIN q : Unfinished(task'[q[i]]) => task'[q[i]] = task[q[i]]
    BY <1>1, <1>2, <2>1 DEF OnlyOf
  <2> QED
    BY <2>2, OrderlyStays
<1>7. Lines(waiting', task') /\ waiting' \in [Actions -> Seq(Tasks)]
  <2>1. CASE a = "registerDevice"
    <3>1. task[t].at = "register"
      BY <2>1 DEF Turn
    <3>2. waiting'["requestInfo"] = inf /\ waiting'["registerDevice"] = Tail(reg) /\ waiting'["updateOption"] = upd
      BY <1>0, <2>1 DEF ReportTypes, Actions
    <3>3. InLine(inf, task', "info") /\ InLine(upd, task', "option")
      <4>1. task[t].at # "info" /\ task'[t].at # "info" /\ task[t].at # "option" /\ task'[t].at # "option"
        BY <1>1, <1>2, <3>1
      <4> QED
        BY <1>2, <1>5, <4>1, LineStays
    <3>4. reg # <<>> /\ t = Head(reg)
      BY <1>3, <2>1
    <3>5. InLine(Tail(reg), task', "register")
      <4>1. task'[Head(reg)].at # "register" /\ OnlyOf(Head(reg), task, task')
        BY <1>1, <1>2, <3>4
      <4> QED
        BY <1>5, <3>4, <4>1, LineMoves
    <3>6. Orderly(Tail(reg), task') /\ Orderly(upd, task')
      <4>1. Orderly(Tail(reg), task) /\ Tail(reg) \in Seq(Tasks)
        BY <1>5, <3>4, OrderlyMoves, TailFacts
      <4> QED
        BY <1>5, <1>6, <4>1
    <3>7. waiting' \in [Actions -> Seq(Tasks)]
      BY <1>0, <1>5, <2>1, <3>4, TailFacts DEF ReportTypes, Actions
    <3> QED
      BY <3>2, <3>3, <3>5, <3>6, <3>7 DEF Lines
  <2>2. CASE a = "updateOption"
    <3>1. task[t].at = "option"
      BY <2>2 DEF Turn
    <3>2. waiting'["requestInfo"] = inf /\ waiting'["registerDevice"] = reg /\ waiting'["updateOption"] = Tail(upd)
      BY <1>0, <2>2 DEF ReportTypes, Actions
    <3>3. InLine(inf, task', "info") /\ InLine(reg, task', "register")
      <4>1. task[t].at # "info" /\ task'[t].at # "info" /\ task[t].at # "register" /\ task'[t].at # "register"
        BY <1>1, <1>2, <3>1
      <4> QED
        BY <1>2, <1>5, <4>1, LineStays
    <3>4. upd # <<>> /\ t = Head(upd)
      BY <1>3, <2>2
    <3>5. InLine(Tail(upd), task', "option")
      <4>1. task'[Head(upd)].at # "option" /\ OnlyOf(Head(upd), task, task')
        BY <1>1, <1>2, <3>4
      <4> QED
        BY <1>5, <3>4, <4>1, LineMoves
    <3>6. Orderly(reg, task') /\ Orderly(Tail(upd), task')
      <4>1. Orderly(Tail(upd), task) /\ Tail(upd) \in Seq(Tasks)
        BY <1>5, <3>4, OrderlyMoves, TailFacts
      <4> QED
        BY <1>5, <1>6, <4>1
    <3>7. waiting' \in [Actions -> Seq(Tasks)]
      BY <1>0, <1>5, <2>2, <3>4, TailFacts DEF ReportTypes, Actions
    <3> QED
      BY <3>2, <3>3, <3>5, <3>6, <3>7 DEF Lines
  <2> QED
    BY <2>1, <2>2 DEF Turn
<1>8. ReportOrder'
  BY <1>1, <1>7, DoneOrder
<1>9. ReportTypes'
  BY <1>0, <1>2, <1>3, <1>4, <1>7 DEF ReportTypes
<1>10. ReportBounds'
  BY <1>0, <1>2, <1>3, <1>4 DEF ReportBounds
<1>11. ReportFate'
  <2> SUFFICES ASSUME NEW d \in Reported, gone'[d] # version[d] PROVE Destiny(d)'
    BY <1>3 DEF ReportFate, Destiny
  <2>1. \/ Pending(d, version[d], told, task)
        \/ AllTold(d, told, task) /\ Shown(d, version[d], up, options)
    BY <1>0, <1>4 DEF ReportFate, Destiny
  <2>2. Pending(d, version[d], told, task) => Pending(d, version[d], told, task')
    <3>1. ASSUME NEW k \in Handlers, Unfinished(task[k]), task[k].ev = [dev |-> d, ver |-> version[d]]
          PROVE  k # t
      <4>1. CASE k = t
        <5>1. Unfinished(task[t]) /\ e = [dev |-> d, ver |-> version[d]]
          BY <3>1, <4>1 DEF e
        <5>2. e.dev = d /\ e.ver = version[d]
          BY <5>1
        <5> QED
          BY <1>4, <5>1, <5>2
      <4> QED
        BY <4>1
    <3> QED
      BY <1>2, <3>1 DEF Pending
  <2>3. AllTold(d, told, task) => AllTold(d, told, task')
    BY <1>1, <1>2 DEF AllTold
  <2>4. \/ Pending(d, version'[d], told', task')
        \/ AllTold(d, told', task') /\ Shown(d, version'[d], up', options')
    BY <1>3, <2>1, <2>2, <2>3
  <2> QED
    BY <2>4 DEF Destiny
<1> QED
  BY <1>8, <1>9, <1>10, <1>11 DEF ReportInv

\* A request for a property of the handler's device.
LEMMA OptionSent ==
    ASSUME ReportTypes, ReportBounds, NEW t \in Tasks, NEW e \in ReportOf, e.ver <= version[e.dev],
           NEW k \in OptionKeys, NEW m,
           m = [action |-> "updateOption", dev |-> e.dev, key |-> k, value |-> e.ver, by |-> t],
           up' = Append(up, m)
    PROVE  /\ up' \in Seq(RequestMsgs)
           /\ \A i \in DOMAIN up' : up'[i].action = "updateOption" => up'[i].value <= version[up'[i].dev]
           /\ \A d, v : Shown(d, v, up, options) /\ (k # "ipv4" \/ d # e.dev) => Shown(d, v, up', options)
           /\ k = "ipv4" => Shown(e.dev, e.ver, up', options)
<1>1. e.dev \in Reported /\ e.ver \in Nat
  BY DEF ReportOf
<1>2. m \in RequestMsgs /\ m.value <= version[m.dev]
  BY <1>1 DEF RequestMsgs, OptionMsgs, Askers
<1>3. /\ up' \in Seq(RequestMsgs)
      /\ \A i \in DOMAIN up' : up'[i].action = "updateOption" => up'[i].value <= version[up'[i].dev]
      /\ \A d, v : Shown(d, v, up, options) /\ ~IsAddress(m, d) => Shown(d, v, up', options)
  BY <1>2, RequestAppend
<1>4. \A d : IsAddress(m, d) <=> k = "ipv4" /\ d = e.dev
  BY DEF IsAddress
<1>5. k = "ipv4" => Shown(e.dev, e.ver, up', options)
  <2> SUFFICES ASSUME k = "ipv4" PROVE Shown(e.dev, e.ver, up', options)
    OBVIOUS
  <2>1. IsAddress(m, e.dev) /\ m.value = e.ver
    BY <1>4
  <2>2. up \in Seq(RequestMsgs)
    BY DEF ReportTypes, RequestMsgs
  <2> QED
    BY <1>2, <2>1, <2>2, ShownSent
<1> QED
  BY <1>3, <1>4, <1>5

\* Handler t, registered, starts to upload.
LEMMA UploadInv ==
    ASSUME ReportInv, NEW t, NEW left \in AddressAhead, NEW r,
           r = [at |-> "option", ev |-> task[t].ev, left |-> left],
           Turn(t, "registerDevice", r), gone' = gone,
           waiting' = [[waiting EXCEPT !["registerDevice"] = Tail(waiting["registerDevice"])]
                           EXCEPT !["updateOption"] = Append(@, t)],
           up' = Append(up, [action |-> "updateOption", dev |-> task[t].ev.dev, key |-> "mac",
                             value |-> task[t].ev.ver, by |-> t])
    PROVE  ReportInv'
<1>0. ReportTypes /\ ReportBounds /\ ReportOrder /\ ReportFate
  BY DEF ReportInv
<1> DEFINE e == task[t].ev
           m == [action |-> "updateOption", dev |-> e.dev, key |-> "mac", value |-> e.ver, by |-> t]
           reg == waiting["registerDevice"]
           upd == waiting["updateOption"]
           inf == waiting["requestInfo"]
<1>r. r.at = "option" /\ r.ev = e /\ r.left = left
  OBVIOUS
<1>t. task[t].at = "register" /\ Unfinished(task[t]) /\ ~Uploads(task[t])
  BY DEF Turn, Unfinished, Uploads
<1>u. Unfinished(r) /\ Uploads(r)
  BY <1>r DEF Unfinished, Uploads
<1>1. t \in Handlers /\ t \in Tasks /\ e \in ReportOf
  <2>1. InLine(reg, task, "register") /\ reg # <<>> /\ t = Head(reg)
    BY <1>0 DEF Turn, ReportOrder, Lines
  <2>2. t \in Tasks
    BY <2>1, HeadGone DEF InLine
  <2>3. t \in Handlers /\ task[t].at # "rest"
    BY <1>0, <1>t, <2>2, TaskFacts
  <2> QED
    BY <1>0, <2>2, <2>3, TaskFacts
<1>h. HandlerTask(r)
  BY <1>1, <1>r DEF HandlerTask
<1>2. /\ DOMAIN task' = Tasks /\ task'[t] = r /\ OnlyOf(t, task, task')
      /\ \A h \in Handlers : HandlerTask(task'[h]) /\ (h # t => task'[h] = task[h])
      /\ \A u \in Tasks \ Handlers : task'[u].at \in {"rest", "info", "failed"}
      /\ e \in ReportOf /\ e.dev \in Reported /\ e.ver \in Nat /\ e.ver <= version[e.dev]
      /\ \A h \in Handlers : task'[h] # Resting => task'[h].ev.ver <= version[task'[h].ev.dev]
  BY <1>h, <1>r, TurnFacts
<1>3. /\ UNCHANGED <<told, version, status, options, stray, whitelist, seen>>
      /\ down' \in Seq(Answered \cup Infos) /\ reg # <<>> /\ t = Head(reg)
  BY DEF Turn
<1>4. /\ up' \in Seq(RequestMsgs)
      /\ \A i \in DOMAIN up' : up'[i].action = "updateOption" => up'[i].value <= version[up'[i].dev]
      /\ \A d, v : Shown(d, v, up, options) => Shown(d, v, up', options)
  <2>1. "mac" \in OptionKeys /\ up' = Append(up, m)
    BY DEF OptionKeys
  <2>2. m = [action |-> "updateOption", dev |-> e.dev, key |-> "mac", value |-> e.ver, by |-> t]
    OBVIOUS
  <2> HIDE DEF e, m
  <2> QED
    BY <1>0, <1>1, <1>2, <2>1, <2>2, OptionSent
<1> HIDE DEF e, m
<1>5. /\ InLine(inf, task, "info") /\ InLine(reg, task, "register") /\ InLine(upd, task, "option")
      /\ Orderly(reg, task) /\ Orderly(upd, task) /\ reg \in Seq(Tasks) /\ upd \in Seq(Tasks)
  BY <1>0 DEF ReportOrder, Lines, InLine
<1>6. /\ Tail(reg) \in Seq(Tasks) /\ reg[1] = t /\ 1 \in DOMAIN reg
      /\ \A i \in DOMAIN Tail(reg) : Tail(reg)[i] \in Tasks /\ Tail(reg)[i] # t
      /\ \A k \in DOMAIN reg : k \in Nat /\ k # 0
  <2>1. IsInjective(reg)
    BY <1>5 DEF InLine
  <2>2. /\ Tail(reg) \in Seq(Tasks) /\ reg[1] = t /\ 1 \in DOMAIN reg
        /\ \A i \in DOMAIN Tail(reg) : Tail(reg)[i] # t
    BY <1>3, <1>5, <2>1, HeadGone
  <2>3. DOMAIN reg = 1 .. Len(reg)
    BY <1>5
  <2> QED
    BY <2>2, <2>3
<1>7. /\ waiting'["requestInfo"] = inf /\ waiting'["registerDevice"] = Tail(reg) /\ waiting'["updateOption"] = Append(upd, t)
      /\ waiting' \in [Actions -> Seq(Tasks)]
  <2>1. Append(upd, t) \in Seq(Tasks)
    BY <1>1, <1>5
  <2> QED
    BY <1>0, <1>5, <1>6, <2>1 DEF ReportTypes, Actions
\* Who waits to upload is before t, who waits to register is behind it.
<1>8. \A k \in Handlers : Uploads(task[k]) /\ task[k].ev.dev = e.dev => task[k].ev.ver < e.ver
  BY <1>0, <1>1, <1>t DEF ReportOrder, UploadsFirst, Behind, e
<1>9. \A k \in Handlers : k # t /\ task[k].at = "register" /\ task[k].ev.dev = e.dev => e.ver < task[k].ev.ver
  <2> SUFFICES ASSUME NEW k \in Handlers, k # t, task[k].at = "register", task[k].ev.dev = e.dev
               PROVE  e.ver < task[k].ev.ver
    OBVIOUS
  <2>1. PICK j \in DOMAIN reg : reg[j] = k
    BY <1>5 DEF InLine, Tasks
  <2>2. 1 < j /\ 1 \in DOMAIN reg /\ reg[1] = t
    BY <1>6, <2>1
  <2>3. Unfinished(task[k])
    BY DEF Unfinished
  <2> QED
    BY <1>5, <1>t, <2>1, <2>2, <2>3 DEF Orderly, e
<1>10. Lines(waiting', task')
  <2>1. InLine(inf, task', "info")
    <3>1. task[t].at # "info" /\ task'[t].at # "info"
      BY <1>2, <1>r, <1>t
    <3> QED
      BY <1>1, <1>2, <1>5, <3>1, LineStays
  <2>2. InLine(Tail(reg), task', "register")
    <3>1. task'[Head(reg)].at # "register" /\ OnlyOf(Head(reg), task, task')
      BY <1>2, <1>3, <1>r
    <3> QED
      BY <1>3, <1>5, <3>1, LineMoves
  <2>3. InLine(Append(upd, t), task', "option")
    <3>1. task[t].at # "option" /\ task'[t].at = "option"
      BY <1>2, <1>r, <1>t
    <3> QED
      BY <1>1, <1>2, <1>5, <3>1, LineJoins
  <2>4. Orderly(Tail(reg), task')
    <3>1. Orderly(Tail(reg), task)
      BY <1>3, <1>5, OrderlyMoves
    <3> DEFINE q == Tail(reg)
    <3>2. \A i \in DOMAIN q : task'[q[i]] = task[q[i]]
      BY <1>2, <1>6 DEF OnlyOf
    <3> HIDE DEF q
    <3>3. Orderly(q, task)
      BY <3>1 DEF q
    <3>4. Orderly(q, task')
      BY <3>2, <3>3, OrderlyStays
    <3> QED
      BY <3>4 DEF q
  <2>5. \A i \in DOMAIN upd : upd[i] \in Tasks /\ task[upd[i]].at = "option" /\ upd[i] # t /\ task'[upd[i]] = task[upd[i]]
    <3> TAKE i \in DOMAIN upd
    <3>1. upd[i] \in Tasks /\ task[upd[i]].at = "option"
      BY <1>5 DEF InLine
    <3>2. upd[i] # t
      BY <1>t, <3>1
    <3> QED
      BY <1>2, <3>1, <3>2 DEF OnlyOf
  <2>6. Orderly(Append(upd, t), task')
    <3>1. Orderly(upd, task')
      BY <1>5, <2>5, OrderlyStays
    <3>2. \A i \in DOMAIN upd : Unfinished(task'[upd[i]]) /\ Unfinished(task'[t]) /\ task'[upd[i]].ev.dev = task'[t].ev.dev
                                   => task'[upd[i]].ev.ver < task'[t].ev.ver
      <4> SUFFICES ASSUME NEW i \in DOMAIN upd, Unfinished(task'[upd[i]]), task'[upd[i]].ev.dev = task'[t].ev.dev
                   PROVE  task'[upd[i]].ev.ver < task'[t].ev.ver
        OBVIOUS
      <4>1. task'[upd[i]] = task[upd[i]] /\ task[upd[i]].at = "option" /\ upd[i] \in Handlers
        BY <1>0, <2>5, TaskFacts
      <4>2. Uploads(task[upd[i]])
        BY <4>1 DEF Unfinished
      <4> QED
        BY <1>2, <1>8, <1>r, <4>1, <4>2
    <3> QED
      BY <1>1, <1>5, <3>1, <3>2, OrderlyJoins
  <2> QED
    BY <1>7, <2>1, <2>2, <2>3, <2>4, <2>6 DEF Lines
<1>11. UploadsFirst(task')
  <2> SUFFICES ASSUME NEW k \in Handlers, NEW q \in Handlers PROVE Behind(task'[k], task'[q])
    BY DEF UploadsFirst
  <2>1. CASE k = t
    BY <1>2, <1>r, <2>1 DEF Behind
  <2>2. CASE k # t /\ q = t
    <3>1. task'[k] = task[k] /\ task'[q] = r
      BY <1>2, <2>2
    <3> QED
      BY <1>9, <1>r, <2>2, <3>1 DEF Behind
  <2>3. CASE k # t /\ q # t
    <3>1. task'[k] = task[k] /\ task'[q] = task[q]
      BY <1>2, <2>3
    <3> QED
      BY <1>0, <3>1 DEF ReportOrder, UploadsFirst
  <2> QED
    BY <2>1, <2>2, <2>3
<1>12. ASSUME NEW k \in Handlers PROVE ToldLater(task'[k], told)
  <2>0. ToldLater(task[k], told)
    BY <1>0 DEF ReportOrder
  <2>1. CASE k = t
    <3>1. task'[k] = r /\ task[k].ev = e
      BY <1>2, <2>1 DEF e
    <3> QED
      BY <1>r, <1>t, <2>0, <2>1, <3>1 DEF ToldLater
  <2>2. CASE k # t
    BY <1>2, <2>0, <2>2
  <2> QED
    BY <2>1, <2>2
<1>13. ReportOrder'
  BY <1>0, <1>3, <1>10, <1>11, <1>12 DEF ReportOrder
<1>14. ReportTypes'
  BY <1>0, <1>2, <1>3, <1>4, <1>7 DEF ReportTypes, RequestMsgs
<1>15. ReportBounds'
  <2>1. \A d \in Reported : version'[d] <= seen' /\ gone'[d] <= version'[d]
    BY <1>0, <1>3 DEF ReportBounds
  <2>2. \A i \in DOMAIN told' : told'[i].ver <= version'[told'[i].dev]
    BY <1>0, <1>3 DEF ReportBounds
  <2>3. /\ \A h \in Handlers : task'[h] # Resting => task'[h].ev.ver <= version'[task'[h].ev.dev]
        /\ \A i \in DOMAIN up' : up'[i].action = "updateOption" => up'[i].value <= version'[up'[i].dev]
    BY <1>2, <1>3, <1>4
  <2> QED
    BY <2>1, <2>2, <2>3 DEF ReportBounds
<1>16. ReportFate'
  <2> SUFFICES ASSUME NEW d \in Reported PROVE Destiny(d)'
    BY DEF ReportFate
  <2>1. \/ gone[d] = version[d] \/ Pending(d, version[d], told, task)
        \/ AllTold(d, told, task) /\ Shown(d, version[d], up, options)
    BY <1>0 DEF ReportFate, Destiny
  <2>2. \A k \in Handlers : (Unfinished(task'[k]) <=> Unfinished(task[k])) /\ task'[k].ev = task[k].ev
    <3> TAKE k \in Handlers
    <3>1. CASE k = t
      BY <1>2, <1>r, <1>t, <1>u, <3>1 DEF e
    <3>2. CASE k # t
      BY <1>2, <3>2
    <3> QED
      BY <3>1, <3>2
  <2>3. Pending(d, version[d], told, task) => Pending(d, version[d], told, task')
    BY <2>2 DEF Pending
  <2>4. AllTold(d, told, task) => AllTold(d, told, task')
    BY <2>2 DEF AllTold
  <2>5. \/ gone'[d] = version'[d] \/ Pending(d, version'[d], told', task')
        \/ AllTold(d, told', task') /\ Shown(d, version'[d], up', options')
    BY <1>3, <1>4, <2>1, <2>3, <2>4
  <2> QED
    BY <2>5 DEF Destiny
<1> QED
  BY <1>13, <1>14, <1>15, <1>16 DEF ReportInv

\* The properties to upload, one after the other.
LEMMA KeysFacts ==
    /\ \A new : /\ Keys(new) # <<>> /\ Head(Keys(new)) = "mac" /\ Tail(Keys(new)) \in AddressAhead
    /\ \A left \in AddressAhead : left # <<>> /\ Head(left) = "ipv4" /\ Tail(left) \in AddressSent
    /\ \A left \in AddressSent : left # <<>> => Head(left) = "first_seen" /\ Tail(left) \in AddressSent
<1>1. Tail(<<"mac", "ipv4", "first_seen">>) = <<"ipv4", "first_seen">> /\ Tail(<<"mac", "ipv4">>) = <<"ipv4">>
  OBVIOUS
<1>2. Tail(<<"ipv4", "first_seen">>) = <<"first_seen">> /\ Tail(<<"ipv4">>) = <<>> /\ Tail(<<"first_seen">>) = <<>>
  OBVIOUS
<1>3. \A new : Keys(new) = <<"mac", "ipv4", "first_seen">> \/ Keys(new) = <<"mac", "ipv4">>
  BY DEF Keys
<1>4. /\ Head(<<"mac", "ipv4", "first_seen">>) = "mac" /\ Head(<<"mac", "ipv4">>) = "mac"
      /\ Head(<<"ipv4", "first_seen">>) = "ipv4" /\ Head(<<"ipv4">>) = "ipv4" /\ Head(<<"first_seen">>) = "first_seen"
  OBVIOUS
<1>5. /\ <<"mac", "ipv4", "first_seen">> # <<>> /\ <<"mac", "ipv4">> # <<>> /\ <<"ipv4", "first_seen">> # <<>>
      /\ <<"ipv4">> # <<>>
  OBVIOUS
<1>6. \A new : /\ Keys(new) # <<>> /\ Head(Keys(new)) = "mac" /\ Tail(Keys(new)) \in AddressAhead
  BY <1>1, <1>3, <1>4, <1>5 DEF AddressAhead
<1>7. \A left \in AddressAhead : left # <<>> /\ Head(left) = "ipv4" /\ Tail(left) \in AddressSent
  BY <1>2, <1>4, <1>5 DEF AddressAhead, AddressSent
<1>8. \A left \in AddressSent : left # <<>> => Head(left) = "first_seen" /\ Tail(left) \in AddressSent
  BY <1>2, <1>4 DEF AddressSent
<1> QED
  BY <1>6, <1>7, <1>8

\* Handler t sends the address, or what comes after it.
LEMMA TurnOptionInv ==
    ASSUME ReportInv, NEW t, NEW left \in AddressSent, NEW k \in OptionKeys, NEW r,
           r = [at |-> "option", ev |-> task[t].ev, left |-> left],
           Turn(t, "updateOption", r), gone' = gone,
           (k = "ipv4" /\ Uploads(task[t])) \/ (k # "ipv4" /\ ~Unfinished(task[t])),
           waiting' = [[waiting EXCEPT !["updateOption"] = Tail(waiting["updateOption"])]
                           EXCEPT !["updateOption"] = Append(@, t)],
           up' = Append(up, [action |-> "updateOption", dev |-> task[t].ev.dev, key |-> k,
                             value |-> task[t].ev.ver, by |-> t])
    PROVE  ReportInv'
<1>0. ReportTypes /\ ReportBounds /\ ReportOrder /\ ReportFate
  BY DEF ReportInv
<1> DEFINE e == task[t].ev
           m == [action |-> "updateOption", dev |-> e.dev, key |-> k, value |-> e.ver, by |-> t]
           reg == waiting["registerDevice"]
           upd == waiting["updateOption"]
           inf == waiting["requestInfo"]
<1>r. r.at = "option" /\ r.ev = e /\ r.left = left
  OBVIOUS
<1>t. task[t].at = "option"
  BY DEF Turn
<1>u. ~Unfinished(r)
  <2>1. left \notin AddressAhead
    BY KeysFacts
  <2> QED
    BY <1>r, <2>1 DEF Unfinished, Uploads
<1>1. t \in Handlers /\ t \in Tasks /\ e \in ReportOf
  <2>1. InLine(upd, task, "option") /\ upd # <<>> /\ t = Head(upd)
    BY <1>0 DEF Turn, ReportOrder, Lines
  <2>2. t \in Tasks
    BY <2>1, HeadGone DEF InLine
  <2>3. t \in Handlers /\ task[t].at # "rest"
    BY <1>0, <1>t, <2>2, TaskFacts
  <2> QED
    BY <1>0, <2>2, <2>3, TaskFacts
<1>h. HandlerTask(r)
  BY <1>1, <1>r DEF HandlerTask
<1>2. /\ DOMAIN task' = Tasks /\ task'[t] = r /\ OnlyOf(t, task, task')
      /\ \A h \in Handlers : HandlerTask(task'[h]) /\ (h # t => task'[h] = task[h])
      /\ \A u \in Tasks \ Handlers : task'[u].at \in {"rest", "info", "failed"}
      /\ e \in ReportOf /\ e.dev \in Reported /\ e.ver \in Nat /\ e.ver <= version[e.dev]
      /\ \A h \in Handlers : task'[h] # Resting => task'[h].ev.ver <= version[task'[h].ev.dev]
  BY <1>h, <1>r, TurnFacts
<1>3. /\ UNCHANGED <<told, version, status, options, stray, whitelist, seen>>
      /\ down' \in Seq(Answered \cup Infos) /\ upd # <<>> /\ t = Head(upd)
  BY DEF Turn
<1>4. /\ up' \in Seq(RequestMsgs)
      /\ \A i \in DOMAIN up' : up'[i].action = "updateOption" => up'[i].value <= version[up'[i].dev]
      /\ \A d, v : Shown(d, v, up, options) /\ (k # "ipv4" \/ d # e.dev) => Shown(d, v, up', options)
      /\ k = "ipv4" => Shown(e.dev, e.ver, up', options)
  <2>1. up' = Append(up, m)
    OBVIOUS
  <2>2. m = [action |-> "updateOption", dev |-> e.dev, key |-> k, value |-> e.ver, by |-> t]
    OBVIOUS
  <2> HIDE DEF e, m
  <2> QED
    BY <1>0, <1>1, <1>2, <2>1, <2>2, OptionSent
<1> HIDE DEF e, m
<1>5. /\ InLine(inf, task, "info") /\ InLine(reg, task, "register") /\ InLine(upd, task, "option")
      /\ Orderly(reg, task) /\ Orderly(upd, task) /\ reg \in Seq(Tasks) /\ upd \in Seq(Tasks)
  BY <1>0 DEF ReportOrder, Lines, InLine
<1> DEFINE rest == Tail(upd)
<1>6. /\ rest \in Seq(Tasks) /\ upd[1] = t /\ 1 \in DOMAIN upd
      /\ \A i \in DOMAIN rest : rest[i] \in Tasks /\ rest[i] # t
      /\ \A j \in DOMAIN upd : j \in Nat /\ j # 0
  <2>1. IsInjective(upd)
    BY <1>5 DEF InLine
  <2>2. /\ rest \in Seq(Tasks) /\ upd[1] = t /\ 1 \in DOMAIN upd
        /\ \A i \in DOMAIN rest : rest[i] # t
    BY <1>3, <1>5, <2>1, HeadGone
  <2>3. DOMAIN upd = 1 .. Len(upd)
    BY <1>5
  <2> QED
    BY <2>2, <2>3
<1>o. Orderly(rest, task)
  BY <1>3, <1>5, OrderlyMoves
<1>l. InLine(Append(rest, t), task', "option")
  <2>1. task'[Head(upd)].at = "option" /\ OnlyOf(Head(upd), task, task')
    BY <1>2, <1>3, <1>r
  <2> QED
    BY <1>3, <1>5, <2>1, LineTurns
<1>7. /\ waiting'["requestInfo"] = inf /\ waiting'["registerDevice"] = reg /\ waiting'["updateOption"] = Append(rest, t)
      /\ waiting' \in [Actions -> Seq(Tasks)]
  <2>1. Append(rest, t) \in Seq(Tasks)
    BY <1>1, <1>6
  <2> QED
    BY <1>0, <1>5, <1>6, <2>1 DEF ReportTypes, Actions
<1> HIDE DEF rest
<1>8. Lines(waiting', task')
  <2>1. InLine(inf, task', "info") /\ InLine(reg, task', "register")
    <3>1. task[t].at # "info" /\ task'[t].at # "info" /\ task[t].at # "register" /\ task'[t].at # "register"
      BY <1>2, <1>r, <1>t
    <3> QED
      BY <1>1, <1>2, <1>5, <3>1, LineStays
  <2>2. Orderly(reg, task')
    <3>1. \A i \in DOMAIN reg : task'[reg[i]] = task[reg[i]]
      <4> TAKE i \in DOMAIN reg
      <4>1. reg[i] \in Tasks /\ task[reg[i]].at = "register"
        BY <1>5 DEF InLine
      <4>2. reg[i] # t
        BY <1>t, <4>1
      <4> QED
        BY <1>2, <4>1, <4>2 DEF OnlyOf
    <3> QED
      BY <1>5, <3>1, OrderlyStays
  <2>3. Orderly(Append(rest, t), task')
    <3>1. \A i \in DOMAIN rest : task'[rest[i]] = task[rest[i]]
      BY <1>2, <1>6 DEF OnlyOf
    <3>2. Orderly(rest, task')
      BY <1>o, <3>1, OrderlyStays
    <3>3. ~Unfinished(task'[t])
      BY <1>2, <1>u
    <3> QED
      BY <1>1, <1>6, <3>2, <3>3, OrderlyJoins
  <2> QED
    BY <1>7, <1>l, <2>1, <2>2, <2>3 DEF Lines
<1>9. ReportOrder'
  BY <1>8, <1>h, <1>r, <1>u, DoneOrder DEF e
<1>10. ReportTypes'
  BY <1>0, <1>2, <1>3, <1>4, <1>7 DEF ReportTypes, RequestMsgs
<1>11. ReportBounds'
  <2>1. \A d \in Reported : version'[d] <= seen' /\ gone'[d] <= version'[d]
    BY <1>0, <1>3 DEF ReportBounds
  <2>2. \A i \in DOMAIN told' : told'[i].ver <= version'[told'[i].dev]
    BY <1>0, <1>3 DEF ReportBounds
  <2>3. /\ \A h \in Handlers : task'[h] # Resting => task'[h].ev.ver <= version'[task'[h].ev.dev]
        /\ \A i \in DOMAIN up' : up'[i].action = "updateOption" => up'[i].value <= version'[up'[i].dev]
    BY <1>2, <1>3, <1>4
  <2> QED
    BY <2>1, <2>2, <2>3 DEF ReportBounds
\* No other report of the device is to be sent after the last one.
<1>12. ASSUME k = "ipv4", e.ver = version[e.dev] PROVE AllTold(e.dev, told, task')
  <2>0. Uploads(task[t]) /\ Unfinished(task[t]) /\ version[e.dev] \in Nat
    BY <1>0, <1>2, <1>12 DEF Unfinished, ReportTypes
  <2>1. ASSUME NEW i \in DOMAIN told, told[i].dev = e.dev PROVE FALSE
    <3>0. told[i] \in ReportOf
      BY <1>0 DEF ReportTypes
    <3>1. told[i].ver <= e.ver /\ told[i].ver \in Nat
      BY <1>0, <1>12, <2>1, <3>0 DEF ReportBounds, ReportOf
    <3>2. e.ver < told[i].ver
      BY <1>0, <1>1, <2>0, <2>1 DEF ReportOrder, ToldLater, e
    <3> QED
      BY <1>2, <3>1, <3>2
  <2>2. ASSUME NEW h \in Handlers, Unfinished(task'[h]), task'[h].ev.dev = e.dev PROVE FALSE
    <3>1. h # t
      BY <1>2, <1>u, <2>2
    <3>2. task'[h] = task[h] /\ h \in Tasks
      BY <1>2, <3>1 DEF Tasks
    <3>3. Unfinished(task[h]) /\ task[h].ev.dev = e.dev
      BY <2>2, <3>2
    <3>4. task[h].ev.ver \in Nat /\ task[h].ev.ver <= e.ver
      BY <1>0, <1>12, <3>2, <3>3, UnfinishedFacts
    <3>5. CASE task[h].at = "register"
      <4>1. e.ver < task[h].ev.ver
        BY <1>0, <1>1, <2>0, <3>3, <3>5 DEF ReportOrder, UploadsFirst, Behind, e
      <4> QED
        BY <1>2, <3>4, <4>1
    <3>6. CASE Uploads(task[h])
      <4>1. PICK j \in DOMAIN upd : upd[j] = h
        BY <1>5, <3>2, <3>6 DEF InLine, Uploads
      <4>2. 1 < j /\ 1 \in DOMAIN upd /\ upd[1] = t
        BY <1>6, <3>1, <4>1
      <4>3. e.ver < task[h].ev.ver
        BY <1>5, <2>0, <3>3, <4>1, <4>2 DEF Orderly, e
      <4> QED
        BY <1>2, <3>4, <4>3
    <3> QED
      BY <3>3, <3>5, <3>6 DEF Unfinished
  <2> QED
    BY <2>1, <2>2 DEF AllTold
<1>13. ReportFate'
  <2> SUFFICES ASSUME NEW d \in Reported PROVE Destiny(d)'
    BY DEF ReportFate
  <2>1. \/ gone[d] = version[d] \/ Pending(d, version[d], told, task)
        \/ AllTold(d, told, task) /\ Shown(d, version[d], up, options)
    BY <1>0 DEF ReportFate, Destiny
  <2>2. AllTold(d, told, task) => AllTold(d, told, task')
    BY <1>2, <1>u DEF AllTold
  <2>3. CASE k = "ipv4" /\ e = [dev |-> d, ver |-> version[d]]
    <3>1. e.dev = d /\ e.ver = version[d]
      BY <2>3
    <3>2. AllTold(d, told, task') /\ Shown(d, version[d], up', options)
      BY <1>4, <1>12, <2>3, <3>1
    <3> QED
      BY <1>3, <3>2 DEF Destiny
  <2>4. CASE ~(k = "ipv4" /\ e = [dev |-> d, ver |-> version[d]])
    <3>1. Pending(d, version[d], told, task) => Pending(d, version[d], told, task')
      <4>1. ASSUME NEW h \in Handlers, Unfinished(task[h]), task[h].ev = [dev |-> d, ver |-> version[d]]
            PROVE  task'[h] = task[h]
        <5>1. CASE h = t
          <6>1. k # "ipv4"
            BY <2>4, <4>1, <5>1 DEF e
          <6> QED
            BY <4>1, <5>1, <6>1
        <5>2. CASE h # t
          BY <1>2, <5>2
        <5> QED
          BY <5>1, <5>2
      <4> QED
        BY <4>1 DEF Pending
    <3>2. AllTold(d, told, task) /\ Shown(d, version[d], up, options) => Shown(d, version[d], up', options)
      <4>1. CASE k = "ipv4" /\ d = e.dev
        <5>1. Unfinished(task[t]) /\ task[t].ev.dev = d
          BY <4>1 DEF Unfinished, e
        <5> QED
          BY <1>1, <5>1 DEF AllTold
      <4>2. CASE k # "ipv4" \/ d # e.dev
        BY <1>4, <4>2
      <4> QED
        BY <4>1, <4>2
    <3>3. \/ gone'[d] = version'[d] \/ Pending(d, version'[d], told', task')
          \/ AllTold(d, told', task') /\ Shown(d, version'[d], up', options')
      BY <1>3, <2>1, <2>2, <3>1, <3>2
    <3> QED
      BY <3>3 DEF Destiny
  <2> QED
    BY <2>3, <2>4
<1> QED
  BY <1>9, <1>10, <1>11, <1>13 DEF ReportInv

\* What the handler t does with its answer.
LEMMA NextOptionInv ==
    ASSUME ReportInv, NEW t, NEW a, NEW left, gone' = gone,
           <<a, task[t].at>> \in {<<"registerDevice", "register">>, <<"updateOption", "option">>},
           waiting[a] # <<>>, t = Head(waiting[a]),
           UNCHANGED <<told, version, status, options, stray, whitelist, seen>>,
           down' \in Seq(Answered \cup Infos),
           NextOption(t, task[t].ev, left, [waiting EXCEPT ![a] = Tail(waiting[a])]),
           \/ a = "registerDevice" /\ \E new : left = Keys(new)
           \/ a = "updateOption" /\ left = task[t].left
    PROVE  ReportInv'
<1>0. ReportTypes /\ ReportBounds /\ ReportOrder /\ ReportFate
  BY DEF ReportInv
<1> DEFINE r == [at |-> "option", ev |-> task[t].ev, left |-> Tail(left)]
           rest == [waiting EXCEPT ![a] = Tail(waiting[a])]
<1>1. CASE left = <<>>
  <2>1. task' = [task EXCEPT ![t] = Resting] /\ waiting' = rest /\ up' = up
    BY <1>1 DEF NextOption
  <2>2. a = "updateOption" /\ left = task[t].left
    BY <1>1, KeysFacts
  <2>3. ~Unfinished(task[t])
    <3>1. task[t].left \notin AddressAhead /\ task[t].at # "register"
      BY <1>1, <2>2, KeysFacts
    <3> QED
      BY <3>1 DEF Unfinished, Uploads
  <2>4. Turn(t, a, Resting)
    BY <2>1 DEF Turn
  <2> QED
    BY <2>1, <2>3, <2>4, FinishInv
<1>2. CASE left # <<>>
  <2>1. /\ task' = [task EXCEPT ![t] = r]
        /\ up' = Append(up, [action |-> "updateOption", dev |-> task[t].ev.dev, key |-> Head(left),
                             value |-> task[t].ev.ver, by |-> t])
        /\ waiting' = [rest EXCEPT !["updateOption"] = Append(@, t)]
    BY <1>2 DEF NextOption, Sends
  <2>2. Turn(t, a, r)
    BY <2>1 DEF Turn
  <2>3. CASE a = "registerDevice"
    <3>1. Head(left) = "mac" /\ Tail(left) \in AddressAhead
      BY <2>3, KeysFacts
    <3> QED
      BY <2>1, <2>2, <2>3, <3>1, UploadInv
  <2>4. CASE a = "updateOption"
    <3>1. left = task[t].left /\ task[t].at = "option"
      BY <2>4
    <3>2. left \in AddressAhead \cup AddressSent
      <4>1. InLine(waiting[a], task, "option")
        BY <1>0, <2>4 DEF ReportOrder, Lines
      <4>2. t \in Tasks
        BY <4>1, HeadGone DEF InLine
      <4> QED
        BY <1>0, <3>1, <4>2, TaskFacts
    <3>3. CASE left \in AddressAhead
      <4>1. Head(left) = "ipv4" /\ Tail(left) \in AddressSent /\ Uploads(task[t]) /\ "ipv4" \in OptionKeys
        BY <3>1, <3>3, KeysFacts DEF Uploads, OptionKeys
      <4> QED
        BY <2>1, <2>2, <2>4, <4>1, TurnOptionInv
    <3>4. CASE left \in AddressSent
      <4>1. Head(left) = "first_seen" /\ Tail(left) \in AddressSent /\ "first_seen" \in OptionKeys
        BY <1>2, <3>4, KeysFacts DEF OptionKeys
      <4>2. left \notin AddressAhead
        BY <3>4, KeysFacts
      <4>3. ~Unfinished(task[t])
        BY <3>1, <4>2 DEF Unfinished, Uploads
      <4> QED
        BY <2>1, <2>2, <2>4, <4>1, <4>3, TurnOptionInv
    <3> QED
      BY <3>2, <3>3, <3>4
  <2> QED
    BY <2>3, <2>4
<1> QED
  BY <1>1, <1>2

\* What a reload of the device information does.
LEMMA ReloadInv ==
    ASSUME ReportInv, NEW msg, msg \in Infos, NEW t, waiting["requestInfo"] # <<>>, t = Head(waiting["requestInfo"]),
           down # <<>>, Reload(t, msg, [waiting EXCEPT !["requestInfo"] = Tail(waiting["requestInfo"])]),
           UNCHANGED <<told, version, status, options, stray, seen>>
    PROVE  ReportInv'
<1>0. ReportTypes /\ ReportBounds /\ ReportOrder
  BY DEF ReportInv
<1> DEFINE q == waiting["requestInfo"]
           rest == [waiting EXCEPT !["requestInfo"] = Tail(waiting["requestInfo"])]
<1>1. InLine(q, task, "info") /\ q # <<>> /\ t = Head(q)
  BY <1>0 DEF ReportOrder, Lines
<1>2. t \in Tasks /\ task[t].at = "info" /\ Tail(q) \in Seq(Tasks)
  <2>1. t \in Tasks /\ 1 \in DOMAIN q /\ q[1] = t /\ Tail(q) \in Seq(Tasks)
    BY <1>1, HeadGone DEF InLine
  <2> QED
    BY <1>1, <2>1 DEF InLine
<1>3. t \notin Handlers /\ Handlers \subseteq Tasks
  BY <1>0, <1>2, TaskFacts
<1>4. Tail(down) \in Seq(Answered \cup Infos)
  BY <1>0, DownTail
<1>5. CASE /\ \E r : task' = [task EXCEPT ![t] = r] /\ r.at \in {"rest", "failed"}
           /\ waiting' = rest /\ down' = Tail(down) /\ up' = up /\ gone' = gone /\ whitelist' \subseteq Reported
  <2>1. PICK r : task' = [task EXCEPT ![t] = r] /\ r.at \in {"rest", "failed"}
    BY <1>5
  <2>2. DOMAIN task' = Tasks /\ task'[t] = r /\ OnlyOf(t, task, task')
    BY <1>0, <1>2, <2>1 DEF ReportTypes, OnlyOf
  <2>3. /\ \A h \in Handlers : task'[h] = task[h]
        /\ \A u \in Tasks \ Handlers : task'[u].at \in {"rest", "info", "failed"}
    BY <1>0, <1>3, <2>1, <2>2 DEF OnlyOf, ReportTypes
  <2>4. /\ waiting' \in [Actions -> Seq(Tasks)] /\ waiting'["requestInfo"] = Tail(q)
        /\ waiting'["registerDevice"] = waiting["registerDevice"]
        /\ waiting'["updateOption"] = waiting["updateOption"]
    BY <1>0, <1>2, <1>5 DEF ReportTypes, Actions
  <2>5. InLine(Tail(q), task', "info")
    <3>1. task'[Head(q)].at # "info" /\ OnlyOf(Head(q), task, task')
      BY <1>1, <2>1, <2>2
    <3> QED
      BY <1>1, <3>1, LineMoves
  <2>6. Still
    BY <1>5 DEF Still
  <2>7. Aside
    BY <1>4, <1>5, <2>2, <2>3, <2>4, <2>5, <2>6, StillTyped DEF Aside
  <2> QED
    BY <2>7, AsideInv
<1>6. CASE Crashed /\ up' = Orphans /\ Missing(Handled) /\ whitelist' = whitelist
  BY <1>0, <1>6, CrashedInv, HandledLost
<1>7. msg.ignored \subseteq Reported
  BY DEF Infos
<1>8. whitelist \subseteq Reported
  BY <1>0 DEF ReportTypes
<1>9. \/ /\ \E r : task' = [task EXCEPT ![t] = r] /\ r.at \in {"rest", "failed"}
         /\ waiting' = rest /\ down' = Tail(down) /\ up' = up /\ gone' = gone /\ whitelist' \subseteq Reported
      \/ Crashed /\ up' = Orphans /\ Missing(Handled) /\ whitelist' = whitelist
  <2>1. CASE /\ whitelist' = WhitelistOf(msg.ignored) /\ task' = [task EXCEPT ![t] = Resting]
             /\ waiting' = rest /\ down' = Tail(down) /\ UNCHANGED <<up, gone>>
    <3>1. Resting.at = "rest"
      BY DEF Resting
    <3> QED
      BY <1>7, <2>1, <3>1 DEF WhitelistOf
  <2>2. CASE /\ task' = [task EXCEPT ![t] = [at |-> "failed"]] /\ waiting' = rest /\ down' = Tail(down)
             /\ UNCHANGED <<up, gone, whitelist>>
    <3>1. [at |-> "failed"].at = "failed"
      OBVIOUS
    <3> QED
      BY <1>8, <2>2, <3>1
  <2>3. CASE Crashed /\ up' = Orphans /\ Missing(Handled) /\ UNCHANGED whitelist
    BY <2>3
  <2> QED
    BY <2>1, <2>2, <2>3 DEF Reload
<1> QED
  BY <1>5, <1>6, <1>9

LEMMA ReceiveInv == ASSUME ReportInv, Receive PROVE ReportInv'
<1>0. ReportTypes /\ ReportBounds /\ ReportOrder
  BY DEF ReportInv
<1> DEFINE msg == Head(down)
           a == msg.action
           line == waiting[a]
           t == Head(line)
           rest == [waiting EXCEPT ![a] = Tail(line)]
<1>1. /\ down # <<>> /\ a \in Actions /\ line # <<>>
      /\ UNCHANGED <<told, version, status, options, stray, seen>>
      /\ IF a = "requestInfo" THEN Reload(t, msg, rest)
         ELSE /\ \/ /\ task[t].at = "register" /\ msg.from = "push"
                    /\ task' = [task EXCEPT ![t] = Resting]
                    /\ waiting' = rest
                    /\ Missing({task[t].ev})
                    /\ UNCHANGED up
                 \/ /\ task[t].at = "register" /\ msg.from = "reply"
                    /\ NextOption(t, task[t].ev, Keys(msg.success), rest)
                    /\ UNCHANGED gone
                 \/ /\ task[t].at = "option"
                    /\ NextOption(t, task[t].ev, task[t].left, rest)
                    /\ UNCHANGED gone
              /\ down' = Tail(down)
              /\ UNCHANGED <<bridge, whitelist>>
  BY DEF Receive, cloudSide, counters
<1>2. msg \in Answered \cup Infos /\ Tail(down) \in Seq(Answered \cup Infos)
  BY <1>0, <1>1, DownTail
<1>3. CASE a = "requestInfo"
  <2>1. msg \in Infos
    BY <1>2, <1>3 DEF Answered
  <2>2. waiting["requestInfo"] # <<>> /\ t = Head(waiting["requestInfo"])
        /\ Reload(t, msg, [waiting EXCEPT !["requestInfo"] = Tail(waiting["requestInfo"])])
    BY <1>1, <1>3
  <2> HIDE DEF msg, t
  <2> QED
    BY <1>1, <2>1, <2>2, ReloadInv
<1>4. CASE a # "requestInfo"
  <2>1. a \in {"registerDevice", "updateOption"} /\ down' = Tail(down) /\ whitelist' = whitelist
    BY <1>1, <1>4 DEF Actions
  <2>2. task[t].at = IF a = "registerDevice" THEN "register" ELSE "option"
    <3>1. InLine(line, task, IF a = "registerDevice" THEN "register" ELSE "option")
      BY <1>0, <2>1 DEF ReportOrder, Lines
    <3>2. 1 \in DOMAIN line /\ t = line[1]
      BY <1>1, <3>1, HeadGone DEF InLine
    <3> QED
      BY <3>1, <3>2 DEF InLine
  <2>3. <<a, task[t].at>> \in {<<"registerDevice", "register">>, <<"updateOption", "option">>}
    BY <2>1, <2>2
  <2>4. UNCHANGED <<told, version, status, options, stray, whitelist, seen>> /\ down' \in Seq(Answered \cup Infos)
    BY <1>1, <1>2, <2>1
  <2>5. \/ /\ task' = [task EXCEPT ![t] = Resting] /\ waiting' = rest /\ Missing({task[t].ev}) /\ up' = up
        \/ /\ task[t].at = "register" /\ NextOption(t, task[t].ev, Keys(msg.success), rest) /\ gone' = gone
        \/ /\ task[t].at = "option" /\ NextOption(t, task[t].ev, task[t].left, rest) /\ gone' = gone
    BY <1>1, <1>4
  <2>6. \E new : Keys(msg.success) = Keys(new)
    OBVIOUS
  <2>7. /\ task[t].at = "register" => a = "registerDevice"
        /\ task[t].at = "option" => a = "updateOption"
    BY <2>1, <2>2
  <2>8. waiting[a] # <<>> /\ t = Head(waiting[a]) /\ rest = [waiting EXCEPT ![a] = Tail(waiting[a])]
    BY <1>1
  <2> HIDE DEF msg, a, t, rest, line
  <2>9. CASE task' = [task EXCEPT ![t] = Resting] /\ waiting' = rest /\ Missing({task[t].ev}) /\ up' = up
    <3>1. Turn(t, a, Resting)
      BY <2>3, <2>4, <2>8, <2>9 DEF Turn
    <3> QED
      BY <2>8, <2>9, <3>1, FinishInv
  <2>10. CASE task[t].at = "register" /\ NextOption(t, task[t].ev, Keys(msg.success), rest) /\ gone' = gone
    BY <2>3, <2>4, <2>6, <2>7, <2>8, <2>10, NextOptionInv
  <2>11. CASE task[t].at = "option" /\ NextOption(t, task[t].ev, task[t].left, rest) /\ gone' = gone
    BY <2>3, <2>4, <2>7, <2>8, <2>11, NextOptionInv
  <2> QED
    BY <2>5, <2>9, <2>10, <2>11
<1> QED
  BY <1>3, <1>4

LEMMA NextReportInv == ASSUME ReportInv, ReportNext PROVE ReportInv'
<1>1. CASE \E d \in Reported : ReportDevice(d) \/ UserOption(d) \/ \E s \in {0, 1} : UserStatus(d, s)
  BY <1>1, ReportDeviceInv, UserOptionInv, UserStatusInv
<1>2. CASE \E h \in Handlers : TakeReport(h)
  BY <1>2, TakeReportInv
<1> QED
  BY <1>1, <1>2, BeatInv, ReceiveInv, ReceivePushInv, RestartInv, ServeInv, InfoFailsInv, BridgeFailsInv,
     LoseConnectionInv DEF ReportNext, Dispatch

LEMMA UnchangedReportInv == ASSUME ReportInv, UNCHANGED reportVars PROVE ReportInv'
<1>1. /\ told' = told /\ version' = version /\ task' = task /\ waiting' = waiting /\ up' = up /\ down' = down
      /\ status' = status /\ options' = options /\ stray' = stray /\ whitelist' = whitelist /\ gone' = gone
      /\ seen' = seen
  BY DEF reportVars
<1>2. ReportTypes' /\ ReportBounds' /\ ReportOrder'
  BY <1>1 DEF ReportInv, ReportTypes, ReportBounds, ReportOrder
<1>3. ReportFate'
  BY <1>1 DEF ReportInv, ReportFate, Destiny
<1> QED
  BY <1>2, <1>3 DEF ReportInv

LEMMA SettledFromReportInv == ReportInv => ReportTypeOK /\ ReportSettled
<1> SUFFICES ASSUME ReportInv PROVE ReportTypeOK /\ ReportSettled
  OBVIOUS
<1>0. ReportTypes /\ ReportBounds /\ ReportOrder /\ ReportFate
  BY DEF ReportInv
<1>1. \A d \in Reported : version[d] \in 0 .. MaxReports /\ gone[d] \in 0 .. MaxReports
  <2> TAKE d \in Reported
  <2>1. version[d] \in Nat /\ gone[d] \in Nat /\ seen \in 0 .. MaxReports
    BY <1>0 DEF ReportTypes
  <2>2. version[d] <= seen /\ gone[d] <= version[d]
    BY <1>0 DEF ReportBounds
  <2>3. MaxReports \in Nat
    BY ReportAssumption
  <2> QED
    BY <2>1, <2>2, <2>3
<1>2. version \in [Reported -> 0 .. MaxReports] /\ gone \in [Reported -> 0 .. MaxReports]
  BY <1>0, <1>1 DEF ReportTypes
<1>3. \A i \in 1 .. Len(waiting["requestInfo"]) : task[waiting["requestInfo"][i]].at = "info"
  BY <1>0 DEF ReportOrder, Lines, InLine
<1>4. ReportTypeOK
  BY <1>0, <1>2, <1>3 DEF ReportTypeOK, ReportTypes
<1>5. ASSUME told = <<>>, up = <<>>, \A h \in Handlers : task[h] = Resting, NEW d \in Reported
      PROVE  gone[d] = version[d] \/ options[d].ipv4 = version[d]
  <2>1. \/ gone[d] = version[d] \/ Pending(d, version[d], told, task)
        \/ AllTold(d, told, task) /\ Shown(d, version[d], up, options)
    BY <1>0 DEF ReportFate, Destiny
  <2>2. DOMAIN told = {} /\ DOMAIN up = {}
    BY <1>5
  <2>3. \A h \in Handlers : ~Unfinished(task[h])
    BY <1>5 DEF Unfinished, Uploads, Resting
  <2>4. ~Pending(d, version[d], told, task)
    BY <2>2, <2>3 DEF Pending
  <2>5. Shown(d, version[d], up, options) => options[d].ipv4 = version[d]
    BY <2>2 DEF Shown
  <2> QED
    BY <2>1, <2>4, <2>5
<1>6. ReportSettled
  BY <1>5 DEF ReportSettled
<1> QED
  BY <1>4, <1>6

\* When nothing is under way the cloud shows the last report of every device
\* whose handler lived (bridge.py).
THEOREM ReportStaysSettled == ReportSpec => [](ReportTypeOK /\ ReportSettled)
<1>1. ReportInv /\ [ReportNext]_reportVars => ReportInv'
  BY NextReportInv, UnchangedReportInv
<1> QED
  BY <1>1, InitReportInv, SettledFromReportInv, PTL DEF ReportSpec

-----------------------------------------------------------------------------
(* The filters.  On every stretch of the way the last thing sent is what   *)
(* its sender has; and a filter made for an address the box no longer has  *)
(* belongs to a socket that is closed or about to be, or was missed.       *)

OrderSet(n) == [filters : SUBSET Filters, number : 1 .. n]
JobOK(j, n, s) ==
    \/ j = Rest
    \/ j \in [at : {"wait"}, order : OrderSet(n)]
    \/ j \in [at : {"compile"}, order : OrderSet(n), conf : Nat, serial : 0 .. s]
Socket == [serial : Nat \ {0}, conf : Nat, filters : SUBSET Filters]
SerialOf(s) == IF s = Absent THEN 0 ELSE s.serial

ICTypes ==
    /\ InterceptionTypeOK /\ address \in Nat /\ address > 0 /\ forwards \in Nat /\ started \in Nat
    /\ updates \in Seq([owner : Owners, filters : SUBSET Filters]) /\ orders \in Seq(SUBSET Filters)
    /\ sock = Absent \/ sock \in Socket
    /\ \/ listener.at \in {"asleep", "run"}
       \/ listener \in [at : {"attach"}, conf : Nat]
    /\ DOMAIN job = Compilers /\ \A c \in Compilers : JobOK(job[c], started, SerialOf(sock))
    /\ behind \in BOOLEAN /\ reload \in BOOLEAN /\ missed \in BOOLEAN

AllMerged == UNION {merged[o] : o \in Owners}
\* The last update of o on the way, or what the manager has, is what o said last.
Arrives(o, sent, known, f) ==
    \/ (\A i \in DOMAIN sent : sent[i].owner # o) /\ known[o] = Active(f)
    \/ \E i \in DOMAIN sent :
         /\ sent[i].owner = o /\ sent[i].filters = Active(f)
         /\ \A j \in DOMAIN sent : i < j => sent[j].owner # o
Spoken(o) == registered[<<o, voice[o]>>]
UpdatesArrive == \A o \in Owners \ forgotten : Arrives(o, updates, merged, Spoken(o))
LastOrdered == forwards = 0 /\ ~mute => ordered = AllMerged
OrdersArrive ==
    /\ orders # <<>> => orders[Len(orders)] = ordered
    /\ orders = <<>> =>
         /\ started = 0 => ordered = {}
         /\ \A c \in Compilers : job[c] # Rest /\ job[c].order.number = started =>
                                   job[c].order.filters = ordered
         /\ ~behind /\ listener.at = "run" => sock.filters = ordered
AddressesArrive ==
    /\ OwnPacketsKeptOut
    /\ listener.at = "attach" => listener.conf = conf \/ missed
    /\ \A c \in Compilers :
         job[c].at = "compile" /\ sock # Absent /\ job[c].serial = SerialOf(sock)
             /\ (listener.at = "attach" \/ (listener.at = "run" /\ ~reload)) =>
                 job[c].conf = conf \/ missed

ICInv == ICTypes /\ UpdatesArrive /\ LastOrdered /\ OrdersArrive /\ AddressesArrive

LEMMA SettledFromICInv == ICInv => InterceptionTypeOK /\ InterceptionSettled
<1> SUFFICES ASSUME ICInv PROVE InterceptionTypeOK /\ InterceptionSettled
  OBVIOUS
<1>1. ASSUME updates = <<>>, forwards = 0, ~mute
      PROVE  ordered = UNION {IF o \in forgotten THEN merged[o]
                              ELSE Active(registered[<<o, voice[o]>>]) : o \in Owners}
  <2>1. ordered = AllMerged
    BY <1>1 DEF ICInv, LastOrdered
  <2>2. \A o \in Owners \ forgotten : merged[o] = Active(registered[<<o, voice[o]>>])
    <3>1. \A i \in DOMAIN updates : FALSE
      BY <1>1
    <3> QED
      BY <3>1 DEF ICInv, UpdatesArrive, Arrives, Spoken
  <2>3. \A o \in Owners :
          merged[o] = IF o \in forgotten THEN merged[o] ELSE Active(registered[<<o, voice[o]>>])
    BY <2>2
  <2> QED
    BY <2>1, <2>3 DEF AllMerged
<1>2. OrdersFollow
  BY <1>1 DEF OrdersFollow
<1>3. SocketFollows
  BY DEF SocketFollows, ICInv, OrdersArrive
<1> QED
  BY <1>2, <1>3 DEF InterceptionSettled, ICInv, ICTypes, AddressesArrive

LEMMA InitICInv == InterceptionInit => ICInv
<1> SUFFICES ASSUME InterceptionInit PROVE ICInv
  OBVIOUS
<1> USE DEF InterceptionInit
<1>0. updates = <<>> /\ orders = <<>> /\ (\A i \in DOMAIN <<>> : FALSE)
      /\ <<>> \in Seq([owner : Owners, filters : SUBSET Filters]) /\ <<>> \in Seq(SUBSET Filters)
  OBVIOUS
<1>1. ICTypes
  <2>1. InterceptionTypeOK
    BY InterceptionAssumption DEF InterceptionTypeOK
  <2>2. \A c \in Compilers : JobOK(job[c], started, SerialOf(sock))
    BY DEF JobOK
  <2>3. updates \in Seq([owner : Owners, filters : SUBSET Filters]) /\ orders \in Seq(SUBSET Filters)
    BY <1>0
  <2>4. listener.at \in {"asleep", "run"} /\ DOMAIN job = Compilers
    OBVIOUS
  <2>5. address \in Nat /\ address > 0 /\ forwards \in Nat /\ started \in Nat
    OBVIOUS
  <2>6. behind \in BOOLEAN /\ reload \in BOOLEAN /\ missed \in BOOLEAN
    OBVIOUS
  <2>7. sock = Absent
    OBVIOUS
  <2> HIDE DEF InterceptionInit
  <2> QED
    BY <2>1, <2>2, <2>3, <2>4, <2>5, <2>6, <2>7 DEF ICTypes
<1>2. UpdatesArrive
  <2>1. \A o \in Owners : Spoken(o) = Absent /\ merged[o] = {} /\ Active(Absent) = {}
    BY InterceptionAssumption DEF Spoken, Active
  <2> QED
    BY <1>0, <2>1 DEF UpdatesArrive, Arrives
<1>3. AllMerged = {}
  BY DEF AllMerged
<1>4. LastOrdered /\ OrdersArrive
  BY <1>0, <1>3 DEF LastOrdered, OrdersArrive
<1>5. AddressesArrive
  BY DEF AddressesArrive, OwnPacketsKeptOut, Rest
<1> QED
  BY <1>1, <1>2, <1>4, <1>5 DEF ICInv

LEMMA JobsOlder ==
    ASSUME NEW j, NEW n \in Nat, NEW m \in Nat, n <= m, NEW s \in Nat, NEW t \in Nat, s <= t, JobOK(j, n, s)
    PROVE  JobOK(j, m, t)
<1>1. 1 .. n \subseteq 1 .. m /\ 0 .. s \subseteq 0 .. t
  OBVIOUS
<1>2. OrderSet(n) \subseteq OrderSet(m)
  BY <1>1 DEF OrderSet
<1> QED
  BY <1>1, <1>2 DEF JobOK

\* Steps of the addons.
LEMMA AnnounceICInv ==
    ASSUME ICInv, NEW p \in Processes, NEW f \in Filters \cup {Absent}, Announce(p, f) PROVE ICInv'
<1> USE DEF ICInv
<1> DEFINE o == p[1]
           new == [owner |-> o, filters |-> Active(f)]
<1>1. /\ registered' = [registered EXCEPT ![p] = f] /\ voice' = [voice EXCEPT ![o] = p[2]]
      /\ updates' = Append(updates, new) /\ forgotten' = forgotten \ {o}
      /\ UNCHANGED <<died, merged, forwards, ordered, mute, orders, address, boxSide>>
  BY DEF Announce, managerSide
<1>2. o \in Owners /\ p[2] \in Nat /\ p = <<o, p[2]>> /\ new \in [owner : Owners, filters : SUBSET Filters]
  BY InterceptionAssumption DEF Active
<1>3. /\ updates \in Seq([owner : Owners, filters : SUBSET Filters])
      /\ registered \in [Processes -> Filters \cup {Absent}] /\ voice \in [Owners -> Nat]
      /\ \A q \in Owners : <<q, voice[q]>> \in Processes
  BY DEF ICTypes, InterceptionTypeOK
<1>4. new.owner = o /\ new.filters = Active(f)
  OBVIOUS
<1>5. Spoken(o)' = f /\ \A q \in Owners : q # o => Spoken(q)' = Spoken(q)
  <2>1. voice'[o] = p[2] /\ registered'[p] = f
    BY <1>1, <1>2, <1>3
  <2>2. Spoken(o)' = f
    BY <1>2, <2>1 DEF Spoken
  <2>3. ASSUME NEW q \in Owners, q # o PROVE Spoken(q)' = Spoken(q)
    <3>1. voice'[q] = voice[q] /\ <<q, voice[q]>> # p
      BY <1>1, <1>2, <1>3, <2>3
    <3>2. registered'[<<q, voice[q]>>] = registered[<<q, voice[q]>>]
      BY <1>1, <1>3, <2>3, <3>1, InterceptionAssumption
    <3> QED
      BY <3>1, <3>2 DEF Spoken
  <2> QED
    BY <2>2, <2>3
<1> HIDE DEF new, o
<1>6. /\ updates' \in Seq([owner : Owners, filters : SUBSET Filters])
      /\ Len(updates) \in Nat /\ Len(updates) + 1 \in DOMAIN updates' /\ updates'[Len(updates) + 1] = new
      /\ DOMAIN updates = 1 .. Len(updates) /\ DOMAIN updates' = 1 .. Len(updates) + 1
      /\ \A k \in 1 .. Len(updates) : updates'[k] = updates[k]
  BY <1>1, <1>2, <1>3, AppendFacts
<1>7. ICTypes'
  <2>1. \A q \in Owners : <<q, voice'[q]>> \in Processes
    BY <1>1, <1>2, <1>3
  <2>2. registered' \in [Processes -> Filters \cup {Absent}] /\ voice' \in [Owners -> Nat]
    BY <1>1, <1>2, <1>3
  <2> QED
    BY <1>1, <1>2, <1>3, <1>6, <2>1, <2>2 DEF ICTypes, InterceptionTypeOK, boxSide
<1>8. UpdatesArrive'
  <2> SUFFICES ASSUME NEW q \in Owners \ forgotten'
      PROVE Arrives(q, updates', merged', Spoken(q)')
    BY DEF UpdatesArrive
  <2>1. CASE q = o
    BY <1>4, <1>5, <1>6, <2>1 DEF Arrives
  <2>2. CASE q # o
    <3>1. q \notin forgotten /\ Spoken(q)' = Spoken(q) /\ new.owner # q /\ merged'[q] = merged[q]
      BY <1>1, <1>4, <1>5, <2>2
    <3>2. CASE (\A i \in DOMAIN updates : updates[i].owner # q) /\ merged[q] = Active(Spoken(q))
      BY <1>6, <3>1, <3>2 DEF Arrives
    <3>3. CASE \E i \in DOMAIN updates :
             /\ updates[i].owner = q /\ updates[i].filters = Active(Spoken(q))
             /\ \A j \in DOMAIN updates : i < j => updates[j].owner # q
      BY <1>6, <3>1, <3>3 DEF Arrives
    <3> QED
      BY <3>1, <3>2, <3>3 DEF UpdatesArrive, Arrives
  <2> QED
    BY <2>1, <2>2
<1>9. LastOrdered' /\ OrdersArrive' /\ AddressesArrive'
  BY <1>1 DEF LastOrdered, OrdersArrive, AddressesArrive, OwnPacketsKeptOut, AllMerged, SerialOf, boxSide
<1> QED
  BY <1>7, <1>8, <1>9

LEMMA OwnerDiesICInv == ASSUME ICInv, NEW p \in Processes, OwnerDies(p) PROVE ICInv'
<1> USE DEF ICInv
<1>1. /\ died' = died \cup {p}
      /\ UNCHANGED <<registered, voice, updates, forgotten, merged, forwards, ordered, mute, orders, address, boxSide>>
  BY DEF OwnerDies, between, managerSide
<1>2. ICTypes'
  BY <1>1 DEF ICTypes, InterceptionTypeOK, boxSide
<1>3. UpdatesArrive' /\ LastOrdered' /\ OrdersArrive' /\ AddressesArrive'
  BY <1>1 DEF UpdatesArrive, Spoken, LastOrdered, OrdersArrive, AddressesArrive, OwnPacketsKeptOut, AllMerged,
              SerialOf, boxSide
<1> QED
  BY <1>2, <1>3

\* Steps of the manager.
LEMMA OnUpdateICInv == ASSUME ICInv, OnUpdate PROVE ICInv'
<1> USE DEF ICInv
<1> DEFINE o == Head(updates).owner
           f == Head(updates).filters
<1>1. /\ updates # <<>> /\ merged' = [merged EXCEPT ![o] = f] /\ updates' = Tail(updates)
      /\ forwards' = forwards + 1
      /\ UNCHANGED <<forgotten, ordered, mute, orders, registered, died, voice, address, boxSide>>
  BY DEF OnUpdate, Merge, addonSide
<1>2. updates \in Seq([owner : Owners, filters : SUBSET Filters]) /\ merged \in [Owners -> SUBSET Filters]
      /\ forwards \in Nat
  BY DEF ICTypes, InterceptionTypeOK
<1>3. /\ updates' \in Seq([owner : Owners, filters : SUBSET Filters]) /\ Head(updates) = updates[1]
      /\ Head(updates) \in [owner : Owners, filters : SUBSET Filters] /\ 1 \in DOMAIN updates
      /\ \A k \in DOMAIN updates' : k \in Nat /\ k + 1 \in DOMAIN updates /\ updates'[k] = updates[k + 1]
      /\ \A k \in DOMAIN updates : k \in Nat /\ (k = 1 \/ (k - 1 \in DOMAIN updates' /\ updates'[k - 1] = updates[k]))
  BY <1>1, <1>2, TailFacts
<1>4. o \in Owners /\ f \in SUBSET Filters /\ o = updates[1].owner /\ f = updates[1].filters
  BY <1>3
<1> HIDE DEF o, f
<1>5. ICTypes'
  BY <1>1, <1>2, <1>3, <1>4 DEF ICTypes, InterceptionTypeOK, boxSide
<1>6. UpdatesArrive'
  <2> SUFFICES ASSUME NEW p \in Owners \ forgotten'
      PROVE Arrives(p, updates', merged', Spoken(p)')
    BY DEF UpdatesArrive
  <2>0. p \in Owners \ forgotten /\ Spoken(p)' = Spoken(p) /\ merged'[p] = IF p = o THEN f ELSE merged[p]
    BY <1>1, <1>2, <1>4 DEF Spoken
  <2>1. CASE (\A i \in DOMAIN updates : updates[i].owner # p) /\ merged[p] = Active(Spoken(p))
    BY <1>3, <1>4, <2>0, <2>1 DEF Arrives
  <2>2. ASSUME NEW i \in DOMAIN updates,
             updates[i].owner = p, updates[i].filters = Active(Spoken(p)),
             \A j \in DOMAIN updates : i < j => updates[j].owner # p
        PROVE Arrives(p, updates', merged', Spoken(p)')
    <3>1. \A j \in DOMAIN updates' : i < j + 1 => updates'[j].owner # p
      BY <1>3, <2>2
    <3>2. CASE i = 1
      <4>1. \A j \in DOMAIN updates' : updates'[j].owner # p
        <5> SUFFICES ASSUME NEW j \in DOMAIN updates' PROVE updates'[j].owner # p
          OBVIOUS
        <5>1. j + 1 \in DOMAIN updates /\ j \in Nat /\ (j + 1 # 1 \/ j = 0)
          BY <1>3
        <5> QED
          BY <1>3, <3>1, <3>2, <5>1
      <4> QED
        BY <1>4, <2>0, <2>2, <3>2, <4>1 DEF Arrives
    <3>3. CASE i # 1
      <4>1. i \in Nat /\ i - 1 \in DOMAIN updates' /\ updates'[i - 1] = updates[i]
        BY <1>3, <3>3
      <4>2. \A j \in DOMAIN updates' : i - 1 < j => updates'[j].owner # p
        <5> SUFFICES ASSUME NEW j \in DOMAIN updates', i - 1 < j PROVE updates'[j].owner # p
          OBVIOUS
        <5>1. j \in Nat /\ i < j + 1
          BY <1>3, <4>1
        <5> QED
          BY <3>1, <5>1
      <4> QED
        BY <2>0, <2>2, <4>1, <4>2 DEF Arrives
    <3> QED
      BY <3>2, <3>3
  <2> QED
    BY <2>0, <2>1, <2>2 DEF UpdatesArrive, Arrives
<1>7. LastOrdered'
  BY <1>1, <1>2 DEF LastOrdered
<1>8. OrdersArrive' /\ AddressesArrive'
  BY <1>1 DEF OrdersArrive, AddressesArrive, OwnPacketsKeptOut, SerialOf, boxSide
<1> QED
  BY <1>5, <1>6, <1>7, <1>8

LEMMA ForwardICInv == ASSUME ICInv, Forward PROVE ICInv'
<1> USE DEF ICInv
<1>1. /\ forwards > 0 /\ forwards' = forwards - 1 /\ ordered' = AllMerged /\ orders' = Append(orders, AllMerged)
      /\ UNCHANGED <<updates, forgotten, merged, registered, died, voice, address, boxSide>>
  BY DEF Forward, AllMerged, addonSide
<1>2. orders \in Seq(SUBSET Filters) /\ AllMerged \in SUBSET Filters /\ forwards \in Nat
  BY DEF ICTypes, InterceptionTypeOK, AllMerged
<1>3. AllMerged' = AllMerged
  BY <1>1 DEF AllMerged
<1>4. orders' \in Seq(SUBSET Filters) /\ orders' # <<>> /\ orders'[Len(orders')] = AllMerged'
  <2> DEFINE new == AllMerged
  <2> HIDE DEF new
  <2>1. orders' = Append(orders, new) /\ new \in SUBSET Filters
    BY <1>1, <1>2 DEF new
  <2>2. orders' \in Seq(SUBSET Filters) /\ orders' # <<>> /\ orders'[Len(orders')] = new
    BY <1>2, <2>1
  <2> QED
    BY <1>3, <2>2 DEF new
<1>5. ICTypes'
  BY <1>1, <1>2, <1>4 DEF ICTypes, InterceptionTypeOK, boxSide
<1>6. UpdatesArrive' /\ LastOrdered' /\ OrdersArrive'
  BY <1>1, <1>3, <1>4 DEF UpdatesArrive, Spoken, LastOrdered, OrdersArrive
<1>7. AddressesArrive'
  BY <1>1 DEF AddressesArrive, OwnPacketsKeptOut, SerialOf, boxSide
<1> QED
  BY <1>5, <1>6, <1>7

LEMMA ManagerFailsICInv == ASSUME ICInv, ManagerFails PROVE ICInv'
<1> USE DEF ICInv
<1>1. /\ merged' = [o \in Owners |-> {}] /\ forwards' = 0 /\ mute'
      /\ forgotten' = forgotten \cup {o \in Owners : ~Waiting(o) /\ merged[o] # {}}
      /\ UNCHANGED <<registered, died, voice, updates, ordered, orders, address, boxSide>>
  BY DEF ManagerFails, addonSide
<1>2. ICTypes'
  BY <1>1 DEF ICTypes, InterceptionTypeOK, boxSide
<1>3. UpdatesArrive'
  <2> SUFFICES ASSUME NEW o \in Owners \ forgotten' PROVE Arrives(o, updates, merged', Spoken(o))
    BY <1>1 DEF UpdatesArrive, Spoken
  <2>1. /\ o \notin forgotten /\ merged'[o] = {} /\ Arrives(o, updates, merged, Spoken(o))
        /\ Waiting(o) \/ merged[o] = {}
    BY <1>1 DEF UpdatesArrive
  <2> QED
    BY <2>1 DEF Arrives, Waiting
<1>4. LastOrdered' /\ OrdersArrive' /\ AddressesArrive'
  BY <1>1 DEF LastOrdered, OrdersArrive, AddressesArrive, OwnPacketsKeptOut, SerialOf, boxSide
<1> QED
  BY <1>2, <1>3, <1>4

LEMMA UpdateLostICInv == ASSUME ICInv, UpdateLost PROVE ICInv'
<1> USE DEF ICInv
<1> DEFINE o == Head(updates).owner
<1>1. /\ updates # <<>> /\ updates' = Tail(updates)
      /\ forgotten' = IF \E i \in DOMAIN updates' : updates'[i].owner = o THEN forgotten ELSE forgotten \cup {o}
      /\ UNCHANGED <<merged, forwards, ordered, mute, orders, registered, died, voice, address, boxSide>>
  BY DEF UpdateLost, addonSide, managerSide
<1>2. updates \in Seq([owner : Owners, filters : SUBSET Filters])
  BY DEF ICTypes
<1>3. /\ updates' \in Seq([owner : Owners, filters : SUBSET Filters]) /\ Head(updates) = updates[1]
      /\ Head(updates) \in [owner : Owners, filters : SUBSET Filters]
      /\ \A k \in DOMAIN updates' : k \in Nat /\ k + 1 \in DOMAIN updates /\ updates'[k] = updates[k + 1]
      /\ \A k \in DOMAIN updates : k \in Nat /\ (k = 1 \/ (k - 1 \in DOMAIN updates' /\ updates'[k - 1] = updates[k]))
  BY <1>1, <1>2, TailFacts
<1>4. o \in Owners /\ updates[1].owner = o
  BY <1>3
<1> HIDE DEF o
<1>5. ICTypes'
  BY <1>1, <1>3, <1>4 DEF ICTypes, InterceptionTypeOK, boxSide
<1>6. UpdatesArrive'
  <2> SUFFICES ASSUME NEW p \in Owners \ forgotten' PROVE Arrives(p, updates', merged, Spoken(p))
    BY <1>1 DEF UpdatesArrive, Spoken
  <2>0. p \notin forgotten /\ Arrives(p, updates, merged, Spoken(p))
    BY <1>1 DEF UpdatesArrive
  <2>1. CASE (\A i \in DOMAIN updates : updates[i].owner # p) /\ merged[p] = Active(Spoken(p))
    BY <1>3, <2>1 DEF Arrives
  <2>2. ASSUME NEW i \in DOMAIN updates,
             updates[i].owner = p, updates[i].filters = Active(Spoken(p)),
             \A j \in DOMAIN updates : i < j => updates[j].owner # p
        PROVE Arrives(p, updates', merged, Spoken(p))
    <3>1. \A j \in DOMAIN updates' : i < j + 1 => updates'[j].owner # p
      BY <1>3, <2>2
    <3>2. i # 1
      <4> SUFFICES ASSUME i = 1 PROVE FALSE
        OBVIOUS
      <4>1. \A j \in DOMAIN updates' : updates'[j].owner # p
        <5> SUFFICES ASSUME NEW j \in DOMAIN updates' PROVE updates'[j].owner # p
          OBVIOUS
        <5>1. j \in DOMAIN updates' /\ j \in Nat /\ j + 1 \in DOMAIN updates
          BY <1>3
        <5>2. DOMAIN updates' = 1 .. Len(updates')
          BY <1>3
        <5>3. i < j + 1
          BY <5>1, <5>2
        <5> QED
          BY <3>1, <5>3
      <4>2. p = o
        BY <1>4, <2>2
      <4> QED
        BY <1>1, <4>1, <4>2
    <3>3. i \in Nat /\ i - 1 \in DOMAIN updates' /\ updates'[i - 1] = updates[i]
      BY <1>3, <3>2
    <3>4. \A j \in DOMAIN updates' : i - 1 < j => updates'[j].owner # p
      <4> SUFFICES ASSUME NEW j \in DOMAIN updates', i - 1 < j PROVE updates'[j].owner # p
        OBVIOUS
      <4>1. j \in Nat /\ i < j + 1
        BY <1>3, <3>3
      <4> QED
        BY <3>1, <4>1
    <3> QED
      BY <2>2, <3>3, <3>4 DEF Arrives
  <2> QED
    BY <2>0, <2>1, <2>2 DEF Arrives
<1>7. LastOrdered' /\ OrdersArrive' /\ AddressesArrive'
  BY <1>1 DEF LastOrdered, OrdersArrive, AddressesArrive, OwnPacketsKeptOut, AllMerged, SerialOf, boxSide
<1> QED
  BY <1>5, <1>6, <1>7

\* Steps of the interceptor.
LEMMA AddressICInv == ASSUME ICInv, AddressChanges \/ OnNewAddress PROVE ICInv'
<1> USE DEF ICInv
<1>1. UNCHANGED <<updates, forgotten, merged, forwards, ordered, mute, orders, registered, died, voice, sock, listener, job, started, behind>>
  BY DEF AddressChanges, OnNewAddress, between, managerSide, addonSide, boxSide
<1>2. UpdatesArrive' /\ LastOrdered' /\ OrdersArrive'
  BY <1>1 DEF UpdatesArrive, Spoken, LastOrdered, OrdersArrive, AllMerged
<1>3. address \in Nat /\ address > 0 /\ conf \in 0 .. address
  BY DEF ICTypes, InterceptionTypeOK
<1>4. CASE AddressChanges
  <2>1. address' = address + 1 /\ UNCHANGED <<conf, reload, missed>>
    BY <1>4 DEF AddressChanges, boxSide
  <2>2. ICTypes'
    BY <1>1, <1>3, <2>1 DEF ICTypes, InterceptionTypeOK
  <2> QED
    BY <1>1, <1>2, <2>1, <2>2 DEF AddressesArrive, OwnPacketsKeptOut
<1>5. CASE OnNewAddress
  <2>1. address' = address /\ conf' = address /\ reload' = TRUE /\ missed' = (missed \/ listener.at = "attach")
    BY <1>5 DEF OnNewAddress
  <2>2. ICTypes'
    BY <1>1, <1>3, <2>1 DEF ICTypes, InterceptionTypeOK
  <2>3. AddressesArrive'
    BY <1>1, <2>1 DEF AddressesArrive, OwnPacketsKeptOut, ICTypes, InterceptionTypeOK
  <2> QED
    BY <1>2, <2>2, <2>3
<1> QED
  BY <1>4, <1>5

LEMMA OpenICInv == ASSUME ICInv, Open PROVE ICInv'
<1> USE DEF ICInv
<1>1. UNCHANGED <<updates, forgotten, merged, forwards, ordered, mute, orders, registered, died, voice, address, conf, reload, job, started, behind, missed>>
  BY DEF Open, between, managerSide, addonSide
<1>2. sock' = [serial |-> SerialOf(sock) + 1, conf |-> 0, filters |-> {}] /\ listener' = [at |-> "attach", conf |-> conf]
  BY DEF Open, SerialOf
<1>3. SerialOf(sock) \in Nat /\ conf # 0 /\ conf \in Nat
  BY DEF ICTypes, InterceptionTypeOK, Socket, SerialOf, Open
<1>4. sock' \in Socket /\ sock' # Absent /\ SerialOf(sock') = SerialOf(sock) + 1
  <2>1. sock' \in Socket
    BY <1>2, <1>3 DEF Socket
  <2>2. sock' \in [serial : Nat, conf : Nat, filters : SUBSET Filters]
    BY <2>1 DEF Socket
  <2>3. sock' # Absent
    BY <2>2, InterceptionAssumption
  <2> QED
    BY <1>2, <2>1, <2>3 DEF SerialOf
<1>5. \A c \in Compilers : JobOK(job[c], started, SerialOf(sock'))
  BY <1>3, <1>4, JobsOlder DEF ICTypes
<1>6. ICTypes'
  BY <1>1, <1>2, <1>3, <1>4, <1>5 DEF ICTypes, InterceptionTypeOK, SerialOf
<1>7. UpdatesArrive' /\ LastOrdered' /\ OrdersArrive'
  BY <1>1, <1>2 DEF UpdatesArrive, Spoken, LastOrdered, OrdersArrive, AllMerged
<1>8. \A c \in Compilers : job[c].at = "compile" => job[c].serial # SerialOf(sock')
  <2> SUFFICES ASSUME NEW c \in Compilers, job[c].at = "compile" PROVE job[c].serial # SerialOf(sock')
    OBVIOUS
  <2>1. job[c].serial \in 0 .. SerialOf(sock)
    BY DEF ICTypes, JobOK, Rest
  <2> QED
    BY <1>3, <1>4, <2>1
<1>9. AddressesArrive'
  BY <1>1, <1>2, <1>8 DEF AddressesArrive, OwnPacketsKeptOut, SerialOf
<1> QED
  BY <1>6, <1>7, <1>9

LEMMA AttachICInv == ASSUME ICInv, Attach PROVE ICInv'
<1> USE DEF ICInv
<1>1. UNCHANGED <<updates, forgotten, merged, forwards, ordered, mute, orders, registered, died, voice, address, conf, job, started, missed>>
  BY DEF Attach, between, managerSide, addonSide
<1>2. /\ listener.at = "attach" /\ sock' = [sock EXCEPT !.conf = listener.conf, !.filters = {}]
      /\ listener' = [at |-> "run"] /\ reload' = FALSE /\ behind' = (started > 0)
  BY DEF Attach
<1>3. sock \in Socket /\ listener.conf \in Nat
  BY <1>2 DEF ICTypes, InterceptionTypeOK
<1>4. /\ sock' \in Socket /\ sock'.serial = sock.serial /\ sock'.conf = listener.conf /\ sock'.filters = {}
  BY <1>2, <1>3 DEF Socket
<1>5. sock' # Absent /\ sock # Absent /\ SerialOf(sock') = SerialOf(sock)
  <2>1. Socket \subseteq [serial : Nat, conf : Nat, filters : SUBSET Filters]
    BY DEF Socket
  <2>2. sock' # Absent /\ sock # Absent
    BY <1>3, <1>4, <2>1, InterceptionAssumption
  <2> QED
    BY <1>4, <2>2 DEF SerialOf
<1>6. ICTypes'
  <2>1. \A c \in Compilers : JobOK(job'[c], started', SerialOf(sock'))
    BY <1>1, <1>5 DEF ICTypes
  <2>2. behind' \in BOOLEAN
    BY <1>2
  <2>3. InterceptionTypeOK'
    BY <1>1, <1>2, <1>5 DEF ICTypes, InterceptionTypeOK
  <2> QED
    BY <1>1, <1>2, <1>4, <1>5, <2>1, <2>2, <2>3 DEF ICTypes
<1>7. UpdatesArrive' /\ LastOrdered'
  BY <1>1 DEF UpdatesArrive, Spoken, LastOrdered, AllMerged
<1>8. OrdersArrive'
  <2>1. ordered' = ordered /\ started \in Nat
    BY <1>1 DEF ICTypes
  <2>2. ~behind' => started = 0
    <3>1. CASE started = 0
      BY <3>1
    <3>2. CASE started # 0
      <4>1. (started > 0) = TRUE
        BY <2>1, <3>2
      <4> QED
        BY <1>2, <4>1
    <3> QED
      BY <3>1, <3>2
  <2>3. ordered = {} /\ started = 0 => sock'.filters = ordered'
    BY <1>4, <2>1
  <2> QED
    BY <1>1, <2>1, <2>2, <2>3 DEF OrdersArrive
<1>9. AddressesArrive'
  BY <1>1, <1>2, <1>4, <1>5 DEF AddressesArrive, OwnPacketsKeptOut, SerialOf
<1> QED
  BY <1>6, <1>7, <1>8, <1>9

LEMMA CompilingOK ==
    ASSUME ICTypes, NEW n \in Nat, NEW order \in OrderSet(n)
    PROVE  /\ JobOK(Compiling(order), n, SerialOf(sock))
           /\ Compiling(order) # Rest /\ Compiling(order).order = order /\ Compiling(order).conf = conf
BY DEF Compiling, JobOK, Rest, SerialOf, ICTypes, InterceptionTypeOK, Socket

\* Whoever takes an order leaves the last one.
LEMMA OneOrderLess ==
    ASSUME orders \in Seq(SUBSET Filters), orders # <<>>, orders' = Tail(orders)
    PROVE  /\ orders' \in Seq(SUBSET Filters) /\ Head(orders) \in SUBSET Filters
           /\ orders' # <<>> => orders'[Len(orders')] = orders[Len(orders)]
           /\ orders' = <<>> => Head(orders) = orders[Len(orders)]
<1>1. orders' \in Seq(SUBSET Filters) /\ Head(orders) \in SUBSET Filters /\ Head(orders) = orders[1]
  BY TailFacts
<1>2. Len(orders') = Len(orders) - 1 /\ Len(orders) \in Nat /\ Len(orders) > 0
  OBVIOUS
<1>3. orders' # <<>> => Len(orders') > 0
  BY <1>1
<1>4. orders' = <<>> => Len(orders') = 0
  OBVIOUS
<1>5. \A k \in DOMAIN orders' : orders'[k] = orders[k + 1]
  BY TailFacts
<1>6. DOMAIN orders' = 1 .. Len(orders')
  BY <1>1
<1> QED
  BY <1>1, <1>2, <1>3, <1>4, <1>5, <1>6

LEMMA OrderLostICInv == ASSUME ICInv, OrderLost PROVE ICInv'
<1> USE DEF ICInv
<1>1. /\ orders # <<>> /\ started' = started + 1 /\ orders' = Tail(orders) /\ behind' = TRUE
      /\ UNCHANGED <<updates, forgotten, merged, forwards, ordered, mute, registered, died, voice, address, conf,
                     sock, listener, reload, job, missed>>
  BY DEF OrderLost, managerSide, addonSide
<1>2. orders \in Seq(SUBSET Filters) /\ started \in Nat /\ started <= started + 1 /\ started + 1 \in Nat
      /\ SerialOf(sock) \in Nat
  BY DEF ICTypes, InterceptionTypeOK, SerialOf, Socket
<1>3. /\ orders' \in Seq(SUBSET Filters)
      /\ orders' # <<>> => orders'[Len(orders')] = orders[Len(orders)]
  BY <1>1, <1>2, OneOrderLess
<1>4. \A c \in Compilers : JobOK(job[c], started', SerialOf(sock))
  BY <1>1, <1>2, JobsOlder DEF ICTypes
<1>5. ICTypes'
  BY <1>1, <1>2, <1>3, <1>4 DEF ICTypes, InterceptionTypeOK, SerialOf
<1>6. UpdatesArrive' /\ LastOrdered'
  BY <1>1 DEF UpdatesArrive, Spoken, LastOrdered, AllMerged
<1>7. \A c \in Compilers : job[c] # Rest => job[c].order.number # started'
  <2> SUFFICES ASSUME NEW c \in Compilers, job[c] # Rest PROVE job[c].order.number # started'
    OBVIOUS
  <2>1. job[c].order.number \in 1 .. started
    BY DEF ICTypes, JobOK, OrderSet
  <2> QED
    BY <1>1, <1>2, <2>1
<1>8. OrdersArrive'
  BY <1>1, <1>2, <1>3, <1>7 DEF OrdersArrive
<1>9. AddressesArrive'
  BY <1>1 DEF AddressesArrive, OwnPacketsKeptOut, SerialOf
<1> QED
  BY <1>5, <1>6, <1>8, <1>9

LEMMA OnOrderICInv == ASSUME ICInv, NEW c \in Compilers, OnOrder(c) PROVE ICInv'
<1> USE DEF ICInv
<1> DEFINE order == [filters |-> Head(orders), number |-> started + 1]
           r == IF conf = 0 THEN [at |-> "wait", order |-> order] ELSE Compiling(order)
<1>1. /\ orders # <<>> /\ started' = started + 1 /\ job' = [job EXCEPT ![c] = r]
      /\ orders' = Tail(orders) /\ behind' = TRUE
      /\ UNCHANGED <<updates, forgotten, merged, forwards, ordered, mute, registered, died, voice, address, conf, sock, listener, reload, missed>>
  BY DEF OnOrder, managerSide, addonSide
<1>2. orders \in Seq(SUBSET Filters) /\ started \in Nat /\ started <= started + 1 /\ started + 1 \in Nat
      /\ SerialOf(sock) \in Nat
  BY DEF ICTypes, InterceptionTypeOK, SerialOf, Socket
<1>3. /\ orders' \in Seq(SUBSET Filters) /\ Head(orders) \in SUBSET Filters
      /\ orders' # <<>> => orders'[Len(orders')] = orders[Len(orders)]
      /\ orders' = <<>> => Head(orders) = orders[Len(orders)]
  BY <1>1, <1>2, OneOrderLess
<1>4. order \in OrderSet(started + 1) /\ order.filters = Head(orders) /\ order.number = started + 1
  BY <1>2, <1>3 DEF OrderSet
<1> HIDE DEF order
<1>5. /\ JobOK(r, started + 1, SerialOf(sock)) /\ r.order = order
      /\ r.at = "compile" => r.conf = conf
  <2>1. CASE conf = 0
    BY <1>4, <2>1 DEF JobOK, Rest
  <2>2. CASE conf # 0
    BY <1>2, <1>4, <2>2, CompilingOK
  <2> QED
    BY <2>1, <2>2
<1> HIDE DEF r
<1>6. ICTypes'
  <2>1. \A d \in Compilers : JobOK(job'[d], started', SerialOf(sock'))
    <3> SUFFICES ASSUME NEW d \in Compilers PROVE JobOK(job'[d], started + 1, SerialOf(sock))
      BY <1>1
    <3>1. JobOK(job[d], started + 1, SerialOf(sock))
      BY <1>2, JobsOlder DEF ICTypes
    <3> QED
      BY <1>1, <1>5, <3>1 DEF ICTypes
  <2> QED
    BY <1>1, <1>2, <1>3, <2>1 DEF ICTypes, InterceptionTypeOK, SerialOf
<1>7. UpdatesArrive' /\ LastOrdered'
  BY <1>1 DEF UpdatesArrive, Spoken, LastOrdered, AllMerged
<1>8. OrdersArrive'
  <2>1. ordered' = ordered /\ orders[Len(orders)] = ordered
    BY <1>1 DEF OrdersArrive
  <2>2. ASSUME orders' = <<>>, NEW d \in Compilers, job'[d] # Rest, job'[d].order.number = started'
        PROVE  job'[d].order.filters = ordered'
    <3>1. CASE d = c
      BY <1>1, <1>3, <1>4, <1>5, <2>1, <2>2, <3>1 DEF ICTypes
    <3>2. CASE d # c
      <4>1. job'[d] = job[d] /\ job[d] # Rest /\ JobOK(job[d], started, SerialOf(sock))
        BY <1>1, <2>2, <3>2 DEF ICTypes
      <4>2. job[d].order.number \in 1 .. started
        BY <4>1 DEF JobOK, OrderSet
      <4> QED
        BY <1>1, <1>2, <2>2, <4>1, <4>2
    <3> QED
      BY <3>1, <3>2
  <2> QED
    BY <1>1, <1>2, <1>3, <2>1, <2>2 DEF OrdersArrive, Rest
<1>9. AddressesArrive'
  BY <1>1, <1>5 DEF AddressesArrive, OwnPacketsKeptOut, ICTypes
<1> QED
  BY <1>6, <1>7, <1>8, <1>9

LEMMA WakeICInv == ASSUME ICInv, NEW c \in Compilers, Wake(c) PROVE ICInv'
<1> USE DEF ICInv
<1> DEFINE r == Compiling(job[c].order)
<1>1. /\ job[c].at = "wait" /\ job' = [job EXCEPT ![c] = r]
      /\ UNCHANGED <<updates, forgotten, merged, forwards, ordered, mute, orders, registered, died, voice, address, conf, sock, listener, reload, started, behind, missed>>
  BY DEF Wake, between, managerSide, addonSide
<1>2. job[c] # Rest /\ job[c].order \in OrderSet(started) /\ started \in Nat
  BY <1>1 DEF ICTypes, JobOK, Rest
<1>3. JobOK(r, started, SerialOf(sock)) /\ r # Rest /\ r.order = job[c].order /\ r.conf = conf
  BY <1>2, CompilingOK
<1> HIDE DEF r
<1>4. ICTypes'
  <2>1. \A d \in Compilers : JobOK(job'[d], started', SerialOf(sock'))
    BY <1>1, <1>3 DEF ICTypes
  <2> QED
    BY <1>1, <2>1 DEF ICTypes, InterceptionTypeOK
<1>5. UpdatesArrive' /\ LastOrdered'
  BY <1>1 DEF UpdatesArrive, Spoken, LastOrdered, AllMerged
<1>6. OrdersArrive'
  BY <1>1, <1>2, <1>3 DEF OrdersArrive, AllMerged, ICTypes
<1>7. AddressesArrive'
  BY <1>1, <1>3 DEF AddressesArrive, OwnPacketsKeptOut, ICTypes
<1> QED
  BY <1>4, <1>5, <1>6, <1>7

LEMMA CompiledICInv == ASSUME ICInv, NEW c \in Compilers, Compiled(c) PROVE ICInv'
<1> USE DEF ICInv
<1> DEFINE order == job[c].order
<1>1. /\ job[c].at = "compile" /\ job' = [job EXCEPT ![c] = Rest]
      /\ UNCHANGED <<updates, forgotten, merged, forwards, ordered, mute, orders, registered, died, voice, address, conf, listener, reload, started, missed>>
  BY DEF Compiled, between, managerSide, addonSide
<1>2. job[c] # Rest /\ order \in OrderSet(started) /\ job[c].conf \in Nat
  BY <1>1 DEF ICTypes, JobOK, Rest
<1>3. UpdatesArrive' /\ LastOrdered'
  BY <1>1 DEF UpdatesArrive, Spoken, LastOrdered, AllMerged
<1>4. ordered' = ordered
  BY <1>1
<1>5. CASE order.filters \cap Broken = {} /\ sock # Absent /\ job[c].serial = sock.serial
  <2>1. sock' = [sock EXCEPT !.conf = job[c].conf, !.filters = order.filters] /\ behind' = (order.number # started)
    BY <1>5 DEF Compiled
  <2>2. sock \in Socket /\ order.filters \in SUBSET Filters
    BY <1>2, <1>5 DEF ICTypes, OrderSet
  <2>3. /\ sock' \in Socket /\ sock'.serial = sock.serial /\ sock'.conf = job[c].conf
        /\ sock'.filters = order.filters
    BY <1>2, <2>1, <2>2 DEF Socket
  <2>4. sock' # Absent /\ SerialOf(sock') = SerialOf(sock)
    <3>1. Socket \subseteq [serial : Nat, conf : Nat, filters : SUBSET Filters]
      BY DEF Socket
    <3>2. sock' # Absent
      BY <2>3, <3>1, InterceptionAssumption
    <3> QED
      BY <1>5, <2>3, <3>2 DEF SerialOf
  <2>5. ICTypes'
    <3>1. \A d \in Compilers : JobOK(job'[d], started', SerialOf(sock'))
      BY <1>1, <2>4 DEF ICTypes, JobOK
    <3> QED
      BY <1>1, <1>5, <2>1, <2>3, <2>4, <3>1 DEF ICTypes, InterceptionTypeOK, SerialOf
  <2>6. OrdersArrive'
    BY <1>1, <1>2, <1>4, <2>1, <2>3 DEF OrdersArrive, ICTypes
  <2>7. AddressesArrive'
    BY <1>1, <1>5, <2>3, <2>4 DEF AddressesArrive, OwnPacketsKeptOut, ICTypes, SerialOf, Rest
  <2> QED
    BY <1>3, <2>5, <2>6, <2>7
<1>6. CASE ~(order.filters \cap Broken = {} /\ sock # Absent /\ job[c].serial = sock.serial)
  <2>1. UNCHANGED <<sock, behind>>
    BY <1>6 DEF Compiled
  <2>2. ICTypes'
    <3>1. \A d \in Compilers : JobOK(job'[d], started', SerialOf(sock'))
      BY <1>1, <2>1 DEF ICTypes, JobOK
    <3> QED
      BY <1>1, <2>1, <3>1 DEF ICTypes, InterceptionTypeOK
  <2>3. OrdersArrive'
    BY <1>1, <1>4, <2>1 DEF OrdersArrive, ICTypes
  <2>4. AddressesArrive'
    BY <1>1, <2>1 DEF AddressesArrive, OwnPacketsKeptOut, ICTypes, Rest
  <2> QED
    BY <1>3, <2>2, <2>3, <2>4
<1> QED
  BY <1>5, <1>6

LEMMA InterceptorFailsICInv == ASSUME ICInv, InterceptorFails PROVE ICInv'
<1> USE DEF ICInv
<1>1. /\ UNCHANGED <<updates, forgotten, merged, forwards, ordered, mute, orders, registered, died, voice, address, started>>
      /\ conf' = 0 /\ sock' = Absent /\ listener' = [at |-> "asleep"] /\ reload' = FALSE
      /\ job' = [c \in Compilers |-> Rest] /\ behind' = (started > 0) /\ missed' = FALSE
  BY DEF InterceptorFails, between, managerSide, addonSide
<1>2. ICTypes'
  <2>1. \A c \in Compilers : JobOK(job'[c], started', SerialOf(sock'))
    BY <1>1 DEF JobOK
  <2>2. behind' \in BOOLEAN
    BY <1>1
  <2>3. InterceptionTypeOK'
    BY <1>1 DEF ICTypes, InterceptionTypeOK
  <2> QED
    BY <1>1, <2>1, <2>2, <2>3 DEF ICTypes
<1>3. UpdatesArrive' /\ LastOrdered'
  BY <1>1 DEF UpdatesArrive, Spoken, LastOrdered, AllMerged
<1>4. OrdersArrive'
  BY <1>1 DEF OrdersArrive, AllMerged
<1>5. AddressesArrive'
  BY <1>1 DEF AddressesArrive, OwnPacketsKeptOut, Rest
<1> QED
  BY <1>2, <1>3, <1>4, <1>5

LEMMA UnchangedICInv == ASSUME ICInv, UNCHANGED icVars PROVE ICInv'
<1> USE DEF icVars, addonSide, between, managerSide, boxSide
<1>1. ICTypes'
  BY DEF ICInv, ICTypes, InterceptionTypeOK
<1>2. UpdatesArrive' /\ LastOrdered'
  BY DEF ICInv, UpdatesArrive, Spoken, LastOrdered, AllMerged
<1>3. OrdersArrive' /\ AddressesArrive'
  BY DEF ICInv, OrdersArrive, AllMerged, AddressesArrive, OwnPacketsKeptOut
<1> QED
  BY <1>1, <1>2, <1>3 DEF ICInv

LEMMA NextICInv == ASSUME ICInv, [InterceptionNext]_icVars PROVE ICInv'
<1>1. CASE \E p \in Processes : Unregister(p) \/ OwnerDies(p) \/ \E f \in Filters : Register(p, f)
  <2>1. PICK p \in Processes : Unregister(p) \/ OwnerDies(p) \/ \E f \in Filters : Register(p, f)
    BY <1>1
  <2>2. OwnerDies(p) \/ \E f \in Filters \cup {Absent} : Announce(p, f)
    BY <2>1 DEF Unregister, Register
  <2> QED
    BY <2>2, AnnounceICInv, OwnerDiesICInv
<1> QED
  BY <1>1, OnUpdateICInv, ForwardICInv, ManagerFailsICInv, UpdateLostICInv, OrderLostICInv, AddressICInv, OpenICInv, AttachICInv, InterceptorFailsICInv,
     OnOrderICInv, WakeICInv, CompiledICInv, UnchangedICInv DEF InterceptionNext

\* What the manager orders is what the process of each class that spoke last
\* asked for, but for what it forgot when it started anew; the socket follows the
\* last order if it got there; and the box's own packets are kept out
\* (addon_manager.py, interceptor.py).
THEOREM InterceptionStaysSettled == InterceptionSpec => [](InterceptionTypeOK /\ InterceptionSettled)
BY InitICInv, NextICInv, SettledFromICInv, PTL DEF InterceptionSpec

-----------------------------------------------------------------------------
(* The master.  Announcements of an addon's processes are on the way in    *)
(* their order, all of them newer than the queue the master knows.         *)

EventSet == [kind : {"module"}] \cup [kind : {"addon"}, class : Classes]
            \cup [kind : {"queue"}, class : Classes, of : Nat]
Announces(e, c) == e.kind = "queue" /\ e.class = c
Stopped == {"hung", "stop", "killed", "joins", "ended"}

MasterTypes ==
    /\ MasterTypeOK /\ inbox \in Seq(EventSet) /\ event \in EventSet \cup {NoEvent}
    /\ generation \in [Classes -> 0 .. MaxGeneration]
    /\ interrupts \in Nat /\ module[Logger] \in {"up", "dead"}
NewestLast ==
    /\ \A c \in Classes : \A i \in DOMAIN inbox : Announces(inbox[i], c) =>
         /\ addons[c] < inbox[i].of /\ inbox[i].of <= generation[c]
         /\ \A j \in DOMAIN inbox : Announces(inbox[j], c) /\ i < j => inbox[i].of < inbox[j].of
         /\ Announces(event, c) => event.of < inbox[i].of
    /\ \A c \in Classes : Announces(event, c) => addons[c] < event.of /\ event.of <= generation[c]
    /\ \A c \in Classes : \A g : <<c, g>> \in closed =>
         g \in Nat /\ g <= generation[c] /\ (c \in Current => g # generation[c])
Latest(e, c, g) == Announces(e, c) /\ e.of = g
Addressed(c) ==
    \/ addons[c] = generation[c]
    \/ Latest(event, c, generation[c])
    \/ \E i \in DOMAIN inbox : Latest(inbox[i], c, generation[c])
    \/ master \in Stopped
MasterInv ==
    /\ MasterTypes /\ NewestLast /\ \A c \in Current : Addressed(c)
    /\ NobodyLeftBehind
    /\ master = "killed" => \A m \in Modules : module[m] # "up"

LEMMA EventKinds ==
    ASSUME NEW e \in EventSet \cup {NoEvent}
    PROVE  /\ e.kind = "queue" => e \in [kind : {"queue"}, class : Classes, of : Nat]
           /\ e.kind = "addon" => e.class \in Classes
           /\ e = NoEvent => \A c : ~Announces(e, c)
           /\ e \in EventSet => e # NoEvent
BY DEF EventSet, NoEvent, Announces

LEMMA SettledFromMasterInv == MasterInv => MasterTypeOK /\ MasterSettled
<1> SUFFICES ASSUME MasterInv PROVE MasterTypeOK /\ MasterSettled
  OBVIOUS
<1>1. ASSUME NEW e \in EventSet \cup {NoEvent}, NEW c, NEW g, Latest(e, c, g)
      PROVE  e = [kind |-> "queue", class |-> c, of |-> g]
  <2>1. e \in [kind : {"queue"}, class : Classes, of : Nat]
    BY <1>1, EventKinds DEF Latest, Announces
  <2> QED
    BY <1>1, <2>1 DEF Latest, Announces
<1>2. ASSUME NEW c \in Current
      PROVE  \/ addons[c] = generation[c]
             \/ [kind |-> "queue", class |-> c, of |-> generation[c]] = event
             \/ \E i \in DOMAIN inbox : inbox[i] = [kind |-> "queue", class |-> c, of |-> generation[c]]
             \/ master \in {"hung", "stop", "killed", "joins", "ended"}
  <2>1. \A i \in DOMAIN inbox : inbox[i] \in EventSet \cup {NoEvent}
    BY DEF MasterInv, MasterTypes
  <2>2. event \in EventSet \cup {NoEvent}
    BY DEF MasterInv, MasterTypes
  <2>3. Latest(event, c, generation[c]) => event = [kind |-> "queue", class |-> c, of |-> generation[c]]
    BY <1>1, <2>2
  <2>4. \A i \in DOMAIN inbox : Latest(inbox[i], c, generation[c]) =>
                                  inbox[i] = [kind |-> "queue", class |-> c, of |-> generation[c]]
    BY <1>1, <2>1
  <2> QED
    BY <2>3, <2>4 DEF MasterInv, Addressed, Stopped
<1>3. RunningIsAddressed
  BY <1>2 DEF RunningIsAddressed
<1> QED
  BY <1>3 DEF MasterInv, MasterTypes, MasterSettled

LEMMA InitMasterInv == MasterInit => MasterInv
<1> SUFFICES ASSUME MasterInit PROVE MasterInv
  OBVIOUS
<1>1. inbox = <<>> /\ <<>> \in Seq(EventSet) /\ (\A i \in DOMAIN <<>> : FALSE)
  BY DEF MasterInit
<1>2. MasterTypeOK
  BY MasterAssumption DEF MasterInit, MasterTypeOK
<1>3. MasterTypes
  BY <1>1, <1>2, MasterAssumption DEF MasterInit, MasterTypes, Everyone
<1>4. NewestLast
  BY <1>1 DEF MasterInit, NewestLast, Announces, NoEvent
<1> QED
  BY <1>3, <1>4 DEF MasterInit, MasterInv, NobodyLeftBehind, Current

\* An event comes in.
LEMMA OneMoreInInbox ==
    ASSUME MasterTypes, NEW e \in EventSet, inbox' = Append(inbox, e)
    PROVE  /\ inbox' \in Seq(EventSet) /\ DOMAIN inbox = 1 .. Len(inbox) /\ Len(inbox) \in Nat
           /\ \A i \in DOMAIN inbox : i \in DOMAIN inbox' /\ inbox'[i] = inbox[i]
           /\ Len(inbox) + 1 \in DOMAIN inbox' /\ inbox'[Len(inbox) + 1] = e
           /\ \A i \in DOMAIN inbox' : (i \in DOMAIN inbox /\ inbox'[i] = inbox[i]) \/ (i = Len(inbox) + 1 /\ inbox'[i] = e)
<1>1. inbox \in Seq(EventSet)
  BY DEF MasterTypes
<1> QED
  BY <1>1, AppendFacts

LEMMA ConfigSentInv == ASSUME MasterInv, NEW c \in Classes, ConfigSent(c) PROVE MasterInv'
<1> DEFINE e == [kind |-> "addon", class |-> c]
<1>1. inbox' = Append(inbox, e) /\ UNCHANGED <<master, event, module, generation, Current, closed, addons, interrupts>>
  BY DEF ConfigSent, addonProcesses, Current
<1>2. e \in EventSet /\ \A d : ~Announces(e, d)
  BY DEF EventSet, Announces
<1> HIDE DEF e
<1>3. /\ inbox' \in Seq(EventSet)
      /\ \A i \in DOMAIN inbox : i \in DOMAIN inbox' /\ inbox'[i] = inbox[i]
      /\ \A i \in DOMAIN inbox' : (i \in DOMAIN inbox /\ inbox'[i] = inbox[i]) \/ (i = Len(inbox) + 1 /\ inbox'[i] = e)
  BY <1>1, <1>2, OneMoreInInbox DEF MasterInv
<1>4. MasterTypes'
  BY <1>1, <1>3 DEF MasterInv, MasterTypes, MasterTypeOK
<1>5. \A i \in DOMAIN inbox', d \in Classes : Announces(inbox'[i], d) => i \in DOMAIN inbox /\ inbox'[i] = inbox[i]
  BY <1>2, <1>3
<1>6. NewestLast'
  <2>1. \A d \in Classes : \A i \in DOMAIN inbox' : Announces(inbox'[i], d) =>
         /\ addons'[d] < inbox'[i].of /\ inbox'[i].of <= generation'[d]
         /\ \A j \in DOMAIN inbox' : Announces(inbox'[j], d) /\ i < j => inbox'[i].of < inbox'[j].of
         /\ Announces(event', d) => event'.of < inbox'[i].of
    BY <1>1, <1>5 DEF MasterInv, NewestLast
  <2> QED
    BY <1>1, <2>1 DEF MasterInv, NewestLast
<1>7. \A d \in Current' : Addressed(d)'
  BY <1>1, <1>3 DEF MasterInv, Addressed
<1> QED
  BY <1>1, <1>4, <1>6, <1>7 DEF MasterInv, NobodyLeftBehind

LEMMA AddonStartsInv == ASSUME MasterInv, NEW c \in Classes, AddonStarts(c) PROVE MasterInv'
<1> DEFINE e == [kind |-> "queue", class |-> c, of |-> generation[c] + 1]
<1>1. /\ generation[c] < MaxGeneration /\ generation' = [generation EXCEPT ![c] = @ + 1] /\ running' = running \cup {<<c, generation[c] + 1>>}
      /\ inbox' = Append(inbox, e) /\ UNCHANGED <<master, event, module, closed, addons, interrupts>>
  BY DEF AddonStarts
<1>2. generation \in [Classes -> 0 .. MaxGeneration] /\ MaxGeneration \in Nat /\ addons \in [Classes -> 0 .. MaxGeneration]
  BY MasterAssumption DEF MasterInv, MasterTypes, MasterTypeOK
<1>2a. generation[c] \in Nat /\ \A d \in Classes : generation'[d] = IF d = c THEN generation[c] + 1 ELSE generation[d]
  BY <1>1, <1>2
<1>3. e \in EventSet /\ (\A d : Announces(e, d) <=> d = c) /\ e.of = generation[c] + 1
  BY <1>2a DEF EventSet, Announces
<1> HIDE DEF e
<1>4. /\ inbox' \in Seq(EventSet) /\ DOMAIN inbox = 1 .. Len(inbox) /\ Len(inbox) \in Nat
      /\ \A i \in DOMAIN inbox : i \in DOMAIN inbox' /\ inbox'[i] = inbox[i]
      /\ Len(inbox) + 1 \in DOMAIN inbox' /\ inbox'[Len(inbox) + 1] = e
      /\ \A i \in DOMAIN inbox' : (i \in DOMAIN inbox /\ inbox'[i] = inbox[i]) \/ (i = Len(inbox) + 1 /\ inbox'[i] = e)
  BY <1>1, <1>3, OneMoreInInbox DEF MasterInv
<1>5. MasterTypes'
  <2>1. generation' \in [Classes -> 0 .. MaxGeneration]
    BY <1>1, <1>2
  <2>2. \A d \in Classes : addons'[d] <= generation'[d]
    BY <1>1, <1>2, <1>2a DEF MasterInv, MasterTypes, MasterTypeOK
  <2> QED
    BY <1>1, <1>4, <2>1, <2>2 DEF MasterInv, MasterTypes, MasterTypeOK
<1>6. NewestLast'
  <2>1. ASSUME NEW d \in Classes, NEW i \in DOMAIN inbox', Announces(inbox'[i], d)
        PROVE /\ addons'[d] < inbox'[i].of /\ inbox'[i].of <= generation'[d]
              /\ \A j \in DOMAIN inbox' : Announces(inbox'[j], d) /\ i < j => inbox'[i].of < inbox'[j].of
              /\ Announces(event', d) => event'.of < inbox'[i].of
    <3>0. /\ addons[d] \in Nat /\ generation[d] \in Nat /\ addons[d] <= generation[d]
          /\ \A j \in DOMAIN inbox : Announces(inbox[j], d) => inbox[j].of \in Nat /\ inbox[j].of <= generation[d]
          /\ Announces(event, d) => event.of \in Nat /\ event.of <= generation[d]
      <4>1. addons[d] \in Nat /\ generation[d] \in Nat /\ addons[d] <= generation[d]
        BY <1>2 DEF MasterInv, MasterTypes, MasterTypeOK
      <4>2. \A j \in DOMAIN inbox : inbox[j] \in EventSet
        BY DEF MasterInv, MasterTypes
      <4>3. \A j \in DOMAIN inbox : Announces(inbox[j], d) => inbox[j].of \in Nat /\ inbox[j].of <= generation[d]
        BY <4>2, EventKinds DEF MasterInv, NewestLast, Announces
      <4>4. Announces(event, d) => event.of \in Nat /\ event.of <= generation[d]
        BY EventKinds DEF MasterInv, MasterTypes, NewestLast, Announces
      <4> QED
        BY <4>1, <4>3, <4>4
    <3>1. CASE i = Len(inbox) + 1 /\ inbox'[i] = e
      <4>1. d = c /\ inbox'[i].of = generation[d] + 1 /\ generation'[d] = generation[d] + 1
        BY <1>2a, <1>3, <2>1, <3>1
      <4>2. \A j \in DOMAIN inbox' : ~(i < j)
        BY <1>4, <3>1
      <4> QED
        BY <1>1, <3>0, <4>1, <4>2
    <3>2. CASE i \in DOMAIN inbox /\ inbox'[i] = inbox[i]
      <4>1. generation[d] <= generation'[d] /\ generation'[d] \in Nat
        BY <1>2, <1>2a, <3>0
      <4>2. ASSUME NEW j \in DOMAIN inbox', Announces(inbox'[j], d), i < j PROVE inbox'[i].of < inbox'[j].of
        <5>1. CASE j \in DOMAIN inbox /\ inbox'[j] = inbox[j]
          BY <2>1, <3>2, <4>2, <5>1 DEF MasterInv, NewestLast
        <5>2. CASE inbox'[j] = e
          BY <1>3, <2>1, <3>0, <3>2, <4>2, <5>2
        <5> QED
          BY <1>4, <5>1, <5>2
      <4> QED
        BY <1>1, <2>1, <3>0, <3>2, <4>1, <4>2, SMTT(40) DEF MasterInv, NewestLast
    <3> QED
      BY <1>4, <3>1, <3>2
  <2>2. \A d \in Classes : Announces(event', d) => addons'[d] < event'.of /\ event'.of <= generation'[d]
    <3> SUFFICES ASSUME NEW d \in Classes, Announces(event, d) PROVE addons[d] < event.of /\ event.of <= generation'[d]
      BY <1>1
    <3>1. event.of \in Nat /\ addons[d] < event.of /\ event.of <= generation[d] /\ generation[d] \in Nat
      BY <1>2, EventKinds DEF MasterInv, MasterTypes, NewestLast, Announces
    <3> QED
      BY <1>2a, <3>1
  <2>3. \A d \in Classes : \A g : <<d, g>> \in closed' =>
          g \in Nat /\ g <= generation'[d] /\ (d \in Current' => g # generation'[d])
    <3> SUFFICES ASSUME NEW d \in Classes, NEW g, <<d, g>> \in closed
                 PROVE g \in Nat /\ g <= generation'[d] /\ (d \in Current' => g # generation'[d])
      BY <1>1
    <3>1. g \in Nat /\ g <= generation[d] /\ (d \in Current => g # generation[d]) /\ generation[d] \in Nat
      BY <1>2 DEF MasterInv, NewestLast
    <3> QED
      BY <1>1, <1>2a, <3>1 DEF Current
  <2> QED
    BY <2>1, <2>2, <2>3 DEF NewestLast
<1>7. \A d \in Current' : Addressed(d)'
  <2> SUFFICES ASSUME NEW d \in Current' PROVE Addressed(d)'
    OBVIOUS
  <2>1. CASE d = c
    <3>1. Latest(inbox'[Len(inbox) + 1], d, generation'[d])
      BY <1>2a, <1>3, <1>4, <2>1 DEF Latest
    <3> QED
      BY <1>4, <3>1 DEF Addressed
  <2>2. CASE d # c
    <3>1. d \in Current /\ generation'[d] = generation[d]
      BY <1>1, <1>2a, <2>2 DEF Current
    <3> QED
      BY <1>1, <1>4, <3>1 DEF MasterInv, Addressed
  <2> QED
    BY <2>1, <2>2
<1> QED
  BY <1>1, <1>5, <1>6, <1>7 DEF MasterInv, NobodyLeftBehind

LEMMA AddonEndsInv == ASSUME MasterInv, NEW c \in Classes, AddonEnds(c) PROVE MasterInv'
<1>1. PICK g \in 1 .. generation[c] :
        running' = running \ {<<c, g>>} /\ closed' \subseteq closed \cup {<<c, g>>}
  BY DEF AddonEnds
<1>2. UNCHANGED <<master, inbox, event, module, generation, addons, interrupts>>
  BY DEF AddonEnds
<1>3. generation[c] \in Nat /\ g \in Nat /\ g <= generation[c]
  BY DEF MasterInv, MasterTypes
<1>4. Current' \subseteq Current /\ (c \in Current' => g # generation[c])
  BY <1>1, <1>2 DEF Current
<1>5. NewestLast'
  <2>1. \A d \in Classes : \A x : <<d, x>> \in closed' =>
          x \in Nat /\ x <= generation'[d] /\ (d \in Current' => x # generation'[d])
    BY <1>1, <1>2, <1>3, <1>4 DEF MasterInv, NewestLast
  <2> QED
    BY <1>2, <2>1 DEF MasterInv, NewestLast
<1> QED
  BY <1>2, <1>4, <1>5 DEF MasterInv, MasterTypes, MasterTypeOK, Addressed, NobodyLeftBehind

\* A module sends, or dies, or ends.
LEMMA ModuleSendsInv == ASSUME MasterInv, NEW m \in Modules, ModuleSends(m) PROVE MasterInv'
<1>1. /\ inbox = <<>> /\ inbox' = <<[kind |-> "module"]>>
      /\ UNCHANGED <<master, event, module, generation, Current, closed, addons, interrupts>>
  BY DEF ModuleSends, addonProcesses, Current
<1>2. [kind |-> "module"] \in EventSet /\ \A d : ~Announces([kind |-> "module"], d)
  BY DEF EventSet, Announces
<1>3. inbox' \in Seq(EventSet) /\ \A i \in DOMAIN inbox' : inbox'[i] = [kind |-> "module"]
  BY <1>1, <1>2
<1>4. \A i \in DOMAIN inbox : FALSE
  BY <1>1
<1>5. NewestLast'
  BY <1>1, <1>2, <1>3 DEF MasterInv, NewestLast
<1> QED
  BY <1>1, <1>3, <1>4, <1>5 DEF MasterInv, MasterTypes, MasterTypeOK, Addressed, NobodyLeftBehind

LEMMA ModuleEndsInv ==
    ASSUME MasterInv, NEW m \in Everyone, NEW s \in {"dead", "done"}, s = "done" => m # Logger,
           module[m] = "up", module' = [module EXCEPT ![m] = s],
           UNCHANGED <<master, inbox, event, generation, Current, closed, addons, interrupts>>
    PROVE  MasterInv'
<1>1. MasterTypes' /\ NewestLast'
  BY DEF MasterInv, MasterTypes, MasterTypeOK, NewestLast
<1>2. \A x \in Everyone : module[x] # "up" => module'[x] # "up"
  BY DEF MasterInv, MasterTypes, MasterTypeOK
<1>3. module[Logger] = "dead" => module'[Logger] = "dead"
  BY DEF MasterInv, MasterTypes, MasterTypeOK
<1> QED
  BY <1>1, <1>2, <1>3 DEF MasterInv, Addressed, NobodyLeftBehind, Everyone

\* Steps of the master that leave the addons' queues alone.
LEMMA StaysNewestLast ==
    ASSUME MasterInv, UNCHANGED <<inbox, addons, generation, Current, closed>>, event' = event \/ event' = NoEvent
    PROVE  NewestLast'
<1>1. \A c \in Classes : Announces(event', c) => Announces(event, c) /\ event' = event
  BY EventKinds DEF MasterInv, NoEvent, Announces
<1> QED
  BY <1>1 DEF MasterInv, NewestLast

LEMMA StopsInv ==
    ASSUME MasterInv, master' \in Stopped, event' = NoEvent,
           UNCHANGED <<inbox, addons, generation, Current, closed>>,
           module' \in [Everyone -> {"up", "dead", "done"}],
           \A m \in Everyone : module'[m] = module[m] \/ (module[m] = "up" /\ module'[m] = "dead"),
           interrupts' \in Nat,
           master' = "ended" => \A m \in Everyone : module'[m] # "up",
           master' = "joins" => interrupts' > 0 \/ module'[Logger] = "dead",
           master' = "killed" => \A m \in Modules : module'[m] # "up"
    PROVE  MasterInv'
<1>1. module'[Logger] \in {"up", "dead"}
  BY DEF MasterInv, MasterTypes, Everyone
<1>2. MasterTypes'
  BY <1>1 DEF MasterInv, MasterTypes, MasterTypeOK, Stopped, Everyone
<1>3. NewestLast'
  BY StaysNewestLast
<1> QED
  BY <1>2, <1>3 DEF MasterInv, NobodyLeftBehind, Addressed

LEMMA CheckInv == ASSUME MasterInv, Check PROVE MasterInv'
<1>1. /\ master = "check" /\ master' \in {"get", "stop"}
      /\ UNCHANGED <<inbox, event, module, addons, generation, Current, closed, interrupts>>
  BY DEF Check, Proceeds, addonProcesses, Current
<1>2. NewestLast'
  BY <1>1, StaysNewestLast
<1> QED
  BY <1>1, <1>2 DEF MasterInv, MasterTypes, MasterTypeOK, Addressed, NobodyLeftBehind, Stopped

LEMMA GetInv == ASSUME MasterInv, Get PROVE MasterInv'
<1>1. /\ master = "get" /\ inbox # <<>> /\ event' = Head(inbox) /\ inbox' = Tail(inbox) /\ master' = "route"
      /\ UNCHANGED <<module, addons, generation, Current, closed, interrupts>>
  BY DEF Get, Proceeds, addonProcesses, Current
<1>2. inbox \in Seq(EventSet) /\ event = NoEvent
  BY <1>1 DEF MasterInv, MasterTypes, MasterTypeOK
<1>3. /\ inbox' \in Seq(EventSet) /\ event' = inbox[1] /\ event' \in EventSet /\ 1 \in DOMAIN inbox
      /\ \A k \in DOMAIN inbox' : k \in Nat /\ k + 1 \in DOMAIN inbox /\ inbox'[k] = inbox[k + 1]
      /\ \A k \in DOMAIN inbox : k \in Nat /\ (k = 1 \/ (k - 1 \in DOMAIN inbox' /\ inbox'[k - 1] = inbox[k]))
  BY <1>1, <1>2, TailFacts
<1>4. event' # NoEvent
  BY <1>3, EventKinds
<1>5. MasterTypes'
  BY <1>1, <1>3, <1>4 DEF MasterInv, MasterTypes, MasterTypeOK
<1>6. NewestLast'
  <2>0. \A k \in DOMAIN inbox' : 1 < k + 1
    <3> SUFFICES ASSUME NEW k \in DOMAIN inbox' PROVE 1 < k + 1
      OBVIOUS
    <3>1. k \in 1 .. Len(inbox')
      BY <1>3
    <3> QED
      BY <3>1
  <2>1. ASSUME NEW d \in Classes, NEW i \in DOMAIN inbox', Announces(inbox'[i], d)
        PROVE /\ addons'[d] < inbox'[i].of /\ inbox'[i].of <= generation'[d]
              /\ \A j \in DOMAIN inbox' : Announces(inbox'[j], d) /\ i < j => inbox'[i].of < inbox'[j].of
              /\ Announces(event', d) => event'.of < inbox'[i].of
    <3>1. i \in Nat /\ i + 1 \in DOMAIN inbox /\ inbox'[i] = inbox[i + 1] /\ Announces(inbox[i + 1], d)
      BY <1>3, <2>1
    <3>2. ASSUME NEW j \in DOMAIN inbox', Announces(inbox'[j], d), i < j PROVE inbox'[i].of < inbox'[j].of
      <4>1. j + 1 \in DOMAIN inbox /\ inbox'[j] = inbox[j + 1] /\ i + 1 < j + 1
        BY <1>3, <3>1, <3>2
      <4> QED
        BY <3>1, <3>2, <4>1 DEF MasterInv, NewestLast
    <3>3. Announces(event', d) => event'.of < inbox'[i].of
      BY <1>3, <2>0, <3>1 DEF MasterInv, NewestLast
    <3> QED
      BY <1>1, <3>1, <3>2, <3>3 DEF MasterInv, NewestLast
  <2>2. \A d \in Classes : Announces(event', d) => addons'[d] < event'.of /\ event'.of <= generation'[d]
    BY <1>1, <1>3 DEF MasterInv, NewestLast
  <2> QED
    BY <1>1, <2>1, <2>2 DEF MasterInv, NewestLast
<1>7. \A d \in Current' : Addressed(d)'
  <2> SUFFICES ASSUME NEW d \in Current PROVE Addressed(d)'
    BY <1>1
  <2>1. ~Latest(event, d, generation[d]) /\ master \notin Stopped
    BY <1>1, <1>2 DEF Latest, Announces, NoEvent, Stopped
  <2>2. CASE addons[d] = generation[d]
    BY <1>1, <2>2 DEF Addressed
  <2>3. CASE \E i \in DOMAIN inbox : Latest(inbox[i], d, generation[d])
    <3>1. PICK i \in DOMAIN inbox : Latest(inbox[i], d, generation[d])
      BY <2>3
    <3>2. Latest(event', d, generation'[d]) \/ \E k \in DOMAIN inbox' : Latest(inbox'[k], d, generation'[d])
      BY <1>1, <1>3, <3>1
    <3> QED
      BY <3>2 DEF Addressed
  <2> QED
    BY <2>1, <2>2, <2>3 DEF MasterInv, Addressed
<1> QED
  BY <1>1, <1>5, <1>6, <1>7 DEF MasterInv, NobodyLeftBehind

LEMMA RouteInv == ASSUME MasterInv, RouteToModule \/ RouteToAddon PROVE MasterInv'
<1>1. /\ master = "route" /\ master' = "check" /\ event' = NoEvent
      /\ UNCHANGED <<inbox, module, generation, Current, closed, interrupts>>
  BY DEF RouteToModule, RouteToAddon, Routes, Proceeds, addonProcesses, Current
<1>2. event \in EventSet /\ event.kind # "queue"
  BY <1>1 DEF RouteToModule, RouteToAddon, MasterInv, MasterTypes, MasterTypeOK
<1>3. \A d \in Classes : addons'[d] = addons[d] \/ (addons'[d] = 0 /\ <<d, addons[d]>> \in closed)
  BY DEF RouteToModule, RouteToAddon, MasterInv, MasterTypes, MasterTypeOK
<1>4. addons' \in [Classes -> 0 .. MaxGeneration]
  <2>1. addons \in [Classes -> 0 .. MaxGeneration] /\ 0 \in 0 .. MaxGeneration
    BY MasterAssumption DEF MasterInv, MasterTypes, MasterTypeOK
  <2>2. addons' = addons \/ addons' = [addons EXCEPT ![event.class] = 0]
    BY DEF RouteToModule, RouteToAddon
  <2> QED
    BY <2>1, <2>2
<1>5. \A d \in Classes : addons[d] \in Nat /\ generation[d] \in Nat /\ addons'[d] \in Nat /\ addons'[d] <= addons[d]
  <2> SUFFICES ASSUME NEW d \in Classes
               PROVE  addons[d] \in Nat /\ generation[d] \in Nat /\ addons'[d] \in Nat /\ addons'[d] <= addons[d]
    OBVIOUS
  <2>1. addons[d] \in Nat /\ generation[d] \in Nat
    BY DEF MasterInv, MasterTypes, MasterTypeOK
  <2>2. addons'[d] = addons[d] \/ addons'[d] = 0
    BY <1>3
  <2> QED
    BY <2>1, <2>2
<1>6. MasterTypes'
  <2>1. \A d \in Classes : addons'[d] <= generation'[d]
    BY <1>1, <1>5 DEF MasterInv, MasterTypes, MasterTypeOK
  <2> QED
    BY <1>1, <1>4, <2>1 DEF MasterInv, MasterTypes, MasterTypeOK
<1>7. NewestLast'
  <2>1. \A d \in Classes : ~Announces(event', d)
    BY <1>1 DEF NoEvent, Announces
  <2>2. \A d \in Classes : \A i \in DOMAIN inbox : Announces(inbox[i], d) => addons'[d] < inbox[i].of
    <3> SUFFICES ASSUME NEW d \in Classes, NEW i \in DOMAIN inbox, Announces(inbox[i], d) PROVE addons'[d] < inbox[i].of
      OBVIOUS
    <3>1. addons[d] < inbox[i].of
      BY DEF MasterInv, NewestLast
    <3>2. inbox[i] \in EventSet
      BY DEF MasterInv, MasterTypes
    <3>3. inbox[i].of \in Nat
      BY <3>2, EventKinds DEF Announces
    <3> QED
      BY <1>5, <3>1, <3>3
  <2> QED
    BY <1>1, <2>1, <2>2 DEF MasterInv, NewestLast
<1>8. \A d \in Current' : Addressed(d)'
  <2> SUFFICES ASSUME NEW d \in Current PROVE Addressed(d)'
    BY <1>1
  <2>1. ~Latest(event, d, generation[d]) /\ master \notin Stopped /\ d \in Classes
    BY <1>1, <1>2 DEF Latest, Announces, Stopped, Current
  <2>2. addons[d] = generation[d] => addons'[d] = addons[d]
    BY <1>3, <2>1 DEF MasterInv, NewestLast
  <2> QED
    BY <1>1, <2>1, <2>2 DEF MasterInv, Addressed
<1> QED
  BY <1>1, <1>6, <1>7, <1>8 DEF MasterInv, NobodyLeftBehind

LEMMA RouteQueueInv == ASSUME MasterInv, RouteQueue PROVE MasterInv'
<1> DEFINE c == event.class
           g == event.of
           v == IF <<c, g>> \in closed THEN 0 ELSE g
<1>1. /\ event.kind = "queue" /\ master = "route" /\ event' = NoEvent
      /\ UNCHANGED <<inbox, module, generation, Current, closed, interrupts>>
      /\ addons' = [addons EXCEPT ![c] = v]
      /\ IF <<c, g>> \in closed THEN master' \in {"hung", "stop"} ELSE master' = "check"
  BY DEF RouteQueue, Routes, Proceeds, addonProcesses, QueueOf, Current
<1>2. c \in Classes /\ g \in Nat /\ Announces(event, c)
  BY <1>1, EventKinds DEF MasterInv, MasterTypes, Announces
<1> HIDE DEF c, g
<1>3. /\ addons \in [Classes -> 0 .. MaxGeneration] /\ generation \in [Classes -> 0 .. MaxGeneration] /\ MaxGeneration \in Nat
      /\ addons[c] < g /\ g <= generation[c]
  BY <1>2, MasterAssumption DEF MasterInv, MasterTypes, MasterTypeOK, NewestLast, g
<1>4. v \in Nat /\ v <= g
  BY <1>2
<1> HIDE DEF v
<1>5. \A d \in Classes : addons'[d] = IF d = c THEN v ELSE addons[d]
  BY <1>1, <1>2, <1>3
<1>6. MasterTypes'
  <2>1. \A d \in Classes : addons'[d] <= generation'[d]
    <3> SUFFICES ASSUME NEW d \in Classes PROVE addons'[d] <= generation'[d]
      OBVIOUS
    <3>1. addons[d] <= generation[d] /\ generation[d] \in Nat
      BY <1>3 DEF MasterInv, MasterTypes, MasterTypeOK
    <3> QED
      BY <1>1, <1>2, <1>3, <1>4, <1>5, <3>1
  <2>2. v \in 0 .. MaxGeneration
    <3>1. generation[c] \in Nat /\ generation[c] <= MaxGeneration
      BY <1>2, <1>3
    <3> QED
      BY <1>2, <1>3, <1>4, <3>1
  <2>3. addons' \in [Classes -> 0 .. MaxGeneration]
    BY <1>1, <1>3, <2>2
  <2> QED
    BY <1>1, <2>1, <2>3 DEF MasterInv, MasterTypes, MasterTypeOK
<1>7. NewestLast'
  <2>1. \A d \in Classes : ~Announces(event', d)
    BY <1>1 DEF NoEvent, Announces
  <2>2. \A d \in Classes : \A i \in DOMAIN inbox : Announces(inbox[i], d) => addons'[d] < inbox[i].of
    <3> SUFFICES ASSUME NEW d \in Classes, NEW i \in DOMAIN inbox, Announces(inbox[i], d) PROVE addons'[d] < inbox[i].of
      OBVIOUS
    <3>1. addons[d] < inbox[i].of /\ (d = c => g < inbox[i].of)
      BY <1>2 DEF MasterInv, NewestLast, g
    <3>2. inbox[i] \in EventSet
      BY DEF MasterInv, MasterTypes
    <3>3. inbox[i].of \in Nat
      BY <3>2, EventKinds DEF Announces
    <3> QED
      BY <1>2, <1>4, <1>5, <3>1, <3>3
  <2> QED
    BY <1>1, <2>1, <2>2 DEF MasterInv, NewestLast
<1>8. \A d \in Current' : Addressed(d)'
  <2>1. CASE <<c, g>> \in closed
    BY <1>1, <2>1 DEF Addressed, Stopped
  <2>2. CASE <<c, g>> \notin closed
    <3> SUFFICES ASSUME NEW d \in Current PROVE Addressed(d)'
      BY <1>1
    <3>1. d \in Classes /\ Addressed(d) /\ master \notin Stopped
      BY <1>1 DEF MasterInv, Stopped, Current
    <3>2. CASE d # c
      <4>1. ~Latest(event, d, generation[d]) /\ addons'[d] = addons[d]
        BY <1>5, <3>1, <3>2 DEF Latest, Announces, c
      <4> QED
        BY <1>1, <3>1, <4>1 DEF Addressed
    <3>3. CASE d = c
      <4>1. addons'[d] = g /\ addons[d] # generation[d]
        <5>1. addons[c] \in Nat /\ generation[c] \in Nat
          BY <1>2, <1>3
        <5>2. v = g
          BY <2>2 DEF v
        <5> QED
          BY <1>2, <1>3, <1>5, <3>3, <5>1, <5>2
      <4>2. Latest(event, d, generation[d]) => addons'[d] = generation[d]
        BY <4>1 DEF Latest, g
      <4> QED
        BY <1>1, <3>1, <4>1, <4>2 DEF Addressed
    <3> QED
      BY <3>2, <3>3
  <2> QED
    BY <2>1, <2>2
<1> QED
  BY <1>1, <1>6, <1>7, <1>8 DEF MasterInv, NobodyLeftBehind

LEMMA KillInv == ASSUME MasterInv, Kill PROVE MasterInv'
<1>1. /\ master = "stop" /\ master' = "killed"
      /\ module' = [m \in Everyone |-> IF m # Logger /\ module[m] = "up" THEN "dead" ELSE module[m]]
      /\ UNCHANGED <<inbox, event, addons, generation, Current, closed, interrupts>>
  BY DEF Kill, Proceeds, addonProcesses, Current
<1>2. event' = NoEvent /\ interrupts' \in Nat
  BY <1>1 DEF MasterInv, MasterTypes, MasterTypeOK
<1>3. /\ module' \in [Everyone -> {"up", "dead", "done"}]
      /\ \A m \in Everyone : module'[m] = module[m] \/ (module[m] = "up" /\ module'[m] = "dead")
  BY <1>1 DEF MasterInv, MasterTypes, MasterTypeOK
<1>4. \A m \in Modules : module'[m] # "up"
  BY <1>1, MasterAssumption DEF Everyone
<1>5. master' \in Stopped /\ master' # "ended" /\ master' # "joins"
  BY <1>1 DEF Stopped
<1> QED
  BY <1>1, <1>2, <1>3, <1>4, <1>5, StopsInv

LEMMA KillLoggerInv == ASSUME MasterInv, KillLogger PROVE MasterInv'
<1>1. /\ master = "killed" /\ UNCHANGED <<inbox, event, addons, generation, Current, closed, interrupts>>
      /\ \/ module' = [module EXCEPT ![Logger] = "dead"] /\ module[Logger] = "up" /\ master' = "ended"
         \/ module' = module /\ module[Logger] = "dead" /\ master' = "joins"
  BY DEF KillLogger, Proceeds, addonProcesses, Current
<1>2. event' = NoEvent /\ interrupts' \in Nat
  BY <1>1 DEF MasterInv, MasterTypes, MasterTypeOK
<1>3. /\ module' \in [Everyone -> {"up", "dead", "done"}]
      /\ \A m \in Everyone : module'[m] = module[m] \/ (module[m] = "up" /\ module'[m] = "dead")
  BY <1>1 DEF MasterInv, MasterTypes, MasterTypeOK
<1>4. master' = "ended" => \A m \in Everyone : module'[m] # "up"
  <2> SUFFICES ASSUME master' = "ended", NEW m \in Everyone PROVE module'[m] # "up"
    OBVIOUS
  <2>1. module' = [module EXCEPT ![Logger] = "dead"] /\ module \in [Everyone -> {"up", "dead", "done"}]
    BY <1>1 DEF MasterInv, MasterTypes, MasterTypeOK
  <2>2. CASE m = Logger
    BY <2>1, <2>2 DEF Everyone
  <2>3. CASE m # Logger
    <3>1. m \in Modules
      BY <2>3 DEF Everyone
    <3>2. module[m] # "up"
      BY <1>1, <3>1 DEF MasterInv
    <3> QED
      BY <2>1, <2>3, <3>2
  <2> QED
    BY <2>2, <2>3
<1>5. master' \in Stopped /\ master' # "killed" /\ (master' = "joins" => module'[Logger] = "dead")
  BY <1>1 DEF Stopped
<1> QED
  BY <1>1, <1>2, <1>3, <1>4, <1>5, StopsInv

LEMMA InterruptInv == ASSUME MasterInv, Interrupt PROVE MasterInv'
<1>1. /\ master # "ended" /\ interrupts' = interrupts + 1 /\ event' = NoEvent
      /\ master' = IF master \in {"stop", "killed", "joins"} THEN "joins" ELSE "stop"
      /\ UNCHANGED <<inbox, module, generation, Current, closed, addons>>
  BY DEF Interrupt, addonProcesses, Current
<1>2. interrupts \in Nat /\ module' \in [Everyone -> {"up", "dead", "done"}] /\ \A m \in Everyone : module'[m] = module[m]
  BY <1>1 DEF MasterInv, MasterTypes, MasterTypeOK
<1>3. interrupts' \in Nat /\ interrupts' > 0
  BY <1>1, <1>2
<1>4. master' \in Stopped /\ master' # "ended" /\ master' # "killed"
  BY <1>1 DEF Stopped
<1> QED
  BY <1>1, <1>2, <1>3, <1>4, StopsInv

LEMMA NextMasterInv == ASSUME MasterInv, [MasterNext]_masterVars PROVE MasterInv'
<1>1. CASE \E m \in Everyone : ModuleDies(m)
  <2>1. PICK m \in Everyone : ModuleDies(m)
    BY <1>1
  <2>2. /\ module[m] = "up" /\ module' = [module EXCEPT ![m] = "dead"]
        /\ UNCHANGED <<master, inbox, event, generation, Current, closed, addons, interrupts>>
    BY <2>1 DEF ModuleDies, addonProcesses, Current
  <2> QED
    BY <2>2, ModuleEndsInv
<1>2. CASE \E m \in Modules : ModuleTerminates(m)
  <2>1. PICK m \in Modules : ModuleTerminates(m)
    BY <1>2
  <2>2. /\ module[m] = "up" /\ module' = [module EXCEPT ![m] = "done"] /\ m \in Everyone /\ m # Logger
        /\ UNCHANGED <<master, inbox, event, generation, Current, closed, addons, interrupts>>
    BY <2>1, MasterAssumption DEF ModuleTerminates, addonProcesses, Everyone, Current
  <2> QED
    BY <2>2, ModuleEndsInv
<1>3. CASE UNCHANGED masterVars
  <2>1. UNCHANGED <<master, inbox, event, module, generation, Current, closed, addons, interrupts>>
    BY <1>3 DEF masterVars, Current
  <2>2. NewestLast'
    BY <2>1, StaysNewestLast
  <2> QED
    BY <2>1, <2>2 DEF MasterInv, MasterTypes, MasterTypeOK, Addressed, NobodyLeftBehind
<1> QED
  BY <1>1, <1>2, <1>3, ModuleSendsInv, ConfigSentInv, AddonStartsInv, AddonEndsInv, CheckInv, GetInv, RouteInv,
     RouteQueueInv, KillInv, KillLoggerInv, InterruptInv DEF MasterNext, MasterStep

\* The events of a class go to its running process once it is announced, and
\* the master leaves no module's process behind (master.py).
THEOREM MasterStaysSettled == MasterSpec => [](MasterTypeOK /\ MasterSettled)
BY InitMasterInv, NextMasterInv, SettledFromMasterInv, PTL DEF MasterSpec

-----------------------------------------------------------------------------
(* The log.  A message is handled once; then it is counted, wherever its   *)
(* two prints are by now.                                                  *)

BatchSet(m, put) == {p \in UNION {{t} \X DOMAIN put[t] : t \in DOMAIN put} : put[p[1]][p[2]] = m}
LogTypes ==
    /\ events \in Seq(Messages) /\ printing \in Seq(Messages)
    /\ collected \in Seq(Messages) /\ uploaded \in Seq(Messages)
    /\ handled \subseteq Messages /\ DOMAIN putting \subseteq handled \cup {Cloudprint}
    /\ \A t \in DOMAIN putting : putting[t] \in Seq(Messages)
    /\ \A m \in Messages : IsFiniteSet(BatchSet(m, putting))
LogInv == LogTypes /\ LogConserved

\* How often a message is in a sequence.
LEMMA ShiftedCount ==
    ASSUME NEW T, T \subseteq Nat, IsFiniteSet(T), NEW n \in Int
    PROVE  IsFiniteSet({k + n : k \in T}) /\ Cardinality({k + n : k \in T}) = Cardinality(T)
<1> DEFINE U == {k + n : k \in T}
           f == [k \in T |-> k + n]
<1>1. f \in Bijection(T, U)
  <2>1. f \in [T -> U] /\ \A u \in U : \E k \in T : f[k] = u
    OBVIOUS
  <2>2. \A i, j \in T : f[i] = f[j] => i = j
    <3> SUFFICES ASSUME NEW i \in T, NEW j \in T, i + n = j + n PROVE i = j
      OBVIOUS
    <3>1. i \in Int /\ j \in Int
      OBVIOUS
    <3> QED
      BY <3>1
  <2> QED
    BY <2>1, <2>2 DEF Bijection, Injection, Surjection, IsInjective
<1> HIDE DEF f, U
<1>2. IsFiniteSet(U) /\ Cardinality(U) = Cardinality(T)
  BY <1>1, FS_Bijection DEF ExistsBijection
<1> QED
  BY <1>2 DEF U

LEMMA TimesFinite ==
    ASSUME NEW S, NEW s \in Seq(S), NEW m
    PROVE  /\ IsFiniteSet({k \in DOMAIN s : s[k] = m}) /\ Times(m, s) \in Nat
           /\ {k \in DOMAIN s : s[k] = m} \subseteq Nat
<1> DEFINE K == {k \in DOMAIN s : s[k] = m}
<1>1. DOMAIN s = 1 .. Len(s) /\ Len(s) \in Nat
  OBVIOUS
<1>2. IsFiniteSet(1 .. Len(s)) /\ K \in SUBSET (1 .. Len(s)) /\ K \subseteq Nat
  <2>1. 1 .. Len(s) \subseteq Nat
    BY <1>1
  <2>2. \A i, j \in Int : IsFiniteSet(i .. j)
    BY FS_Interval
  <2> QED
    BY <1>1, <2>1, <2>2
<1> HIDE DEF K
<1>3. IsFiniteSet(K) /\ Cardinality(K) \in Nat /\ K \subseteq Nat
  BY <1>2, FS_Subset, FS_CardinalityType
<1> QED
  BY <1>3 DEF K, Times

LEMMA TimesEmpty == \A m : Times(m, <<>>) = 0
<1> TAKE m
<1>1. {k \in DOMAIN <<>> : <<>>[k] = m} = {}
  OBVIOUS
<1> QED
  BY <1>1, FS_EmptySet DEF Times

LEMMA TimesConcat ==
    ASSUME NEW S, NEW s \in Seq(S), NEW t \in Seq(S), NEW m
    PROVE  Times(m, s \o t) = Times(m, s) + Times(m, t)
<1> DEFINE n == Len(s)
           A == {k \in DOMAIN s : s[k] = m}
           B == {k \in DOMAIN t : t[k] = m}
           C == {k + n : k \in B}
           c == s \o t
<1>1. /\ n \in Nat /\ Len(t) \in Nat /\ DOMAIN s = 1 .. n /\ DOMAIN t = 1 .. Len(t) /\ DOMAIN c = 1 .. n + Len(t)
      /\ \A k \in 1 .. n : c[k] = s[k]
      /\ \A k \in 1 .. Len(t) : c[k + n] = t[k]
  BY ConcatProperties
<1>2. /\ IsFiniteSet(A) /\ Cardinality(A) = Times(m, s) /\ Times(m, s) \in Nat
      /\ IsFiniteSet(B) /\ Cardinality(B) = Times(m, t) /\ Times(m, t) \in Nat /\ B \subseteq Nat
  BY TimesFinite DEF Times
<1> HIDE DEF n, c
<1>3. IsFiniteSet(C) /\ Cardinality(C) = Cardinality(B)
  <2> HIDE DEF B
  <2>1. n \in Int /\ B \subseteq Nat /\ IsFiniteSet(B)
    BY <1>1, <1>2
  <2> QED
    BY <2>1, ShiftedCount
<1>4. {k \in DOMAIN c : c[k] = m} = A \cup C
  <2>1. ASSUME NEW k \in DOMAIN c, c[k] = m PROVE k \in A \cup C
    <3>1. CASE k \in 1 .. n
      BY <1>1, <2>1, <3>1
    <3>2. CASE k \notin 1 .. n
      <4>1. k - n \in 1 .. Len(t) /\ k = (k - n) + n
        BY <1>1, <2>1, <3>2
      <4>2. k - n \in B
        BY <1>1, <2>1, <4>1
      <4> QED
        BY <4>1, <4>2
    <3> QED
      BY <3>1, <3>2
  <2>2. ASSUME NEW k \in A PROVE k \in DOMAIN c /\ c[k] = m
    BY <1>1, <2>2
  <2>3. ASSUME NEW k \in C PROVE k \in DOMAIN c /\ c[k] = m
    <3>1. PICK j \in B : k = j + n
      BY <2>3
    <3>2. j \in 1 .. Len(t) /\ t[j] = m
      BY <1>1, <3>1
    <3> QED
      BY <1>1, <3>1, <3>2
  <2> QED
    BY <2>1, <2>2, <2>3
<1>5. A \cap C = {}
  <2> SUFFICES ASSUME NEW k \in A, k \in C PROVE FALSE
    OBVIOUS
  <2>1. PICK j \in B : k = j + n
    OBVIOUS
  <2>2. j \in 1 .. Len(t) /\ k \in 1 .. n
    BY <1>1, <2>1
  <2> QED
    BY <1>1, <2>1, <2>2
<1> HIDE DEF A, C
<1>6. Cardinality(A \cup C) = Cardinality(A) + Cardinality(C)
  <2>1. Cardinality(A \cup C) = Cardinality(A) + Cardinality(C) - Cardinality(A \cap C)
    BY <1>2, <1>3, FS_Union
  <2>2. Cardinality(A \cap C) = 0
    BY <1>5, FS_EmptySet
  <2> QED
    BY <1>2, <1>3, <2>1, <2>2
<1>7. Times(m, c) = Times(m, s) + Times(m, t)
  BY <1>2, <1>3, <1>4, <1>6 DEF Times
<1> QED
  BY <1>7 DEF c

LEMMA TimesOne == ASSUME NEW S, NEW e \in S, NEW m PROVE Times(m, <<e>>) = IF e = m THEN 1 ELSE 0
<1>1. CASE e = m
  <2>1. {k \in DOMAIN <<e>> : <<e>>[k] = m} = {1}
    BY <1>1
  <2> QED
    BY <1>1, <2>1, FS_Singleton DEF Times
<1>2. CASE e # m
  <2>1. {k \in DOMAIN <<e>> : <<e>>[k] = m} = {}
    BY <1>2
  <2> QED
    BY <1>2, <2>1, FS_EmptySet DEF Times
<1> QED
  BY <1>1, <1>2

LEMMA TimesAppend ==
    ASSUME NEW S, NEW s \in Seq(S), NEW e \in S, NEW m
    PROVE  Append(s, e) \in Seq(S) /\ Times(m, Append(s, e)) = Times(m, s) + (IF e = m THEN 1 ELSE 0)
<1>1. Append(s, e) = s \o <<e>> /\ <<e>> \in Seq(S) /\ Append(s, e) \in Seq(S)
  OBVIOUS
<1>2. Times(m, s \o <<e>>) = Times(m, s) + Times(m, <<e>>)
  BY <1>1, TimesConcat
<1> QED
  BY <1>1, <1>2, TimesOne

LEMMA TimesTail ==
    ASSUME NEW S, NEW s \in Seq(S), s # <<>>, NEW m
    PROVE  /\ Head(s) \in S /\ Tail(s) \in Seq(S)
           /\ Times(m, s) = Times(m, Tail(s)) + (IF Head(s) = m THEN 1 ELSE 0)
<1> DEFINE h == Head(s)
           t == Tail(s)
<1>1. h \in S /\ t \in Seq(S) /\ s = <<h>> \o t /\ <<h>> \in Seq(S)
  OBVIOUS
<1> HIDE DEF h, t
<1>2. Times(m, <<h>> \o t) = Times(m, <<h>>) + Times(m, t)
  BY <1>1, TimesConcat
<1>3. Times(m, <<h>>) = IF h = m THEN 1 ELSE 0
  BY <1>1, TimesOne
<1>4. Times(m, t) \in Nat
  BY <1>1, TimesFinite
<1>5. Times(m, s) = Times(m, t) + (IF h = m THEN 1 ELSE 0)
  <2>1. Times(m, s) = Times(m, <<h>>) + Times(m, t)
    BY <1>1, <1>2
  <2> QED
    BY <1>3, <1>4, <2>1
<1> QED
  BY <1>1, <1>5 DEF h, t

\* With the batch of t or without it.
LEMMA BatchesOf ==
    ASSUME NEW put, NEW rest, NEW t \in DOMAIN put, DOMAIN rest = DOMAIN put \ {t},
           \A u \in DOMAIN rest : rest[u] = put[u], put[t] \in Seq(Messages), NEW m,
           IsFiniteSet(BatchSet(m, rest)) \/ IsFiniteSet(BatchSet(m, put))
    PROVE  /\ IsFiniteSet(BatchSet(m, rest)) /\ IsFiniteSet(BatchSet(m, put))
           /\ Cardinality(BatchSet(m, rest)) \in Nat
           /\ Cardinality(BatchSet(m, put)) = Cardinality(BatchSet(m, rest)) + Times(m, put[t])
<1> DEFINE K == {k \in DOMAIN put[t] : put[t][k] = m}
           P == {<<t, k>> : k \in K}
           R == BatchSet(m, rest)
           f == [k \in K |-> <<t, k>>]
<1>1. IsFiniteSet(K) /\ Cardinality(K) = Times(m, put[t])
  BY TimesFinite DEF Times
<1>2. IsFiniteSet(P) /\ Cardinality(P) = Cardinality(K)
  <2>1. f \in Bijection(K, P)
    <3>1. f \in [K -> P] /\ (\A p \in P : \E k \in K : f[k] = p) /\ \A i, j \in K : f[i] = f[j] => i = j
      OBVIOUS
    <3> QED
      BY <3>1 DEF Bijection, Injection, Surjection, IsInjective
  <2> HIDE DEF f, K, P
  <2> QED
    BY <1>1, <2>1, FS_Bijection DEF ExistsBijection
<1>3. BatchSet(m, put) = R \cup P
  <2>1. ASSUME NEW p \in BatchSet(m, put) PROVE p \in R \cup P
    <3>1. PICK u \in DOMAIN put : p \in {u} \X DOMAIN put[u] /\ put[p[1]][p[2]] = m
      BY <2>1 DEF BatchSet
    <3>2. p = <<u, p[2]>> /\ p[1] = u /\ p[2] \in DOMAIN put[u]
      BY <3>1
    <3>3. CASE u = t
      BY <3>1, <3>2, <3>3
    <3>4. CASE u # t
      <4>1. u \in DOMAIN rest /\ rest[u] = put[u]
        BY <3>4
      <4> QED
        BY <3>1, <3>2, <4>1 DEF BatchSet
    <3> QED
      BY <3>3, <3>4
  <2>2. ASSUME NEW p \in R PROVE p \in BatchSet(m, put)
    <3>1. PICK u \in DOMAIN rest : p \in {u} \X DOMAIN rest[u] /\ rest[p[1]][p[2]] = m
      BY <2>2 DEF BatchSet
    <3>2. u \in DOMAIN put /\ rest[u] = put[u] /\ p[1] = u
      BY <3>1
    <3> QED
      BY <3>1, <3>2 DEF BatchSet
  <2>3. ASSUME NEW p \in P PROVE p \in BatchSet(m, put)
    <3>1. PICK k \in K : p = <<t, k>>
      BY <2>3
    <3>2. p \in {t} \X DOMAIN put[t] /\ put[p[1]][p[2]] = m
      BY <3>1
    <3> QED
      BY <3>2 DEF BatchSet
  <2> QED
    BY <2>1, <2>2, <2>3
<1>4. R \cap P = {}
  <2> SUFFICES ASSUME NEW p \in R, p \in P PROVE FALSE
    OBVIOUS
  <2>1. p[1] \in DOMAIN rest
    BY DEF BatchSet
  <2>2. p[1] = t
    OBVIOUS
  <2> QED
    BY <2>1, <2>2
<1> HIDE DEF P, R
<1>5. IsFiniteSet(R)
  <2>1. IsFiniteSet(BatchSet(m, put)) => IsFiniteSet(R)
    <3>1. R \in SUBSET BatchSet(m, put)
      BY <1>3
    <3> QED
      BY <3>1, FS_Subset
  <2> QED
    BY <2>1 DEF R
<1>6. IsFiniteSet(R \cup P) /\ Cardinality(R \cup P) = Cardinality(R) + Cardinality(P) - Cardinality(R \cap P)
  BY <1>2, <1>5, FS_Union
<1>7. Cardinality(R \cap P) = 0 /\ Cardinality(R) \in Nat /\ Cardinality(P) \in Nat
  BY <1>2, <1>4, <1>5, FS_EmptySet, FS_CardinalityType
<1> QED
  BY <1>1, <1>2, <1>3, <1>5, <1>6, <1>7 DEF R

LEMMA InitLogInv == LogInit => LogInv
<1> SUFFICES ASSUME LogInit PROVE LogInv
  OBVIOUS
<1>1. events = <<>> /\ printing = <<>> /\ collected = <<>> /\ uploaded = <<>> /\ putting = <<>> /\ handled = {}
  BY DEF LogInit
<1>2. DOMAIN putting = {} /\ <<>> \in Seq(Messages)
  BY <1>1
<1>3. \A m : BatchSet(m, putting) = {} /\ {p \in Batched : putting[p[1]][p[2]] = m} = {}
  BY <1>2 DEF BatchSet, Batched
<1>4. LogTypes
  BY <1>1, <1>2, <1>3, FS_EmptySet DEF LogTypes
<1>5. \A m \in Messages : Printed(m) + ToPrint(m) = 0
  <2> TAKE m \in Messages
  <2>1. Times(m, collected) = 0 /\ Times(m, uploaded) = 0 /\ Times(m, events) = 0 /\ Times(m, printing) = 0
    BY <1>1, TimesEmpty
  <2>2. InBatches(m) = 0 /\ ~Busy(m)
    BY <1>2, <1>3, FS_EmptySet DEF InBatches, Busy
  <2> QED
    BY <2>1, <2>2 DEF Printed, ToPrint
<1>6. LogConserved
  BY <1>1, <1>5 DEF LogConserved
<1> QED
  BY <1>4, <1>6 DEF LogInv

\* The numbers that are added up.
Numbers ==
    \A m \in Messages :
        /\ Times(m, collected) \in Nat /\ Times(m, uploaded) \in Nat /\ Times(m, events) \in Nat
        /\ Times(m, printing) \in Nat /\ InBatches(m) \in Nat
        /\ InBatches(m) = Cardinality(BatchSet(m, putting))
        /\ Printed(m) \in Nat /\ ToPrint(m) \in Nat
LEMMA CountsAreNumbers == LogTypes => Numbers
<1> SUFFICES ASSUME LogTypes, NEW m \in Messages
    PROVE  /\ Times(m, collected) \in Nat /\ Times(m, uploaded) \in Nat /\ Times(m, events) \in Nat
           /\ Times(m, printing) \in Nat /\ InBatches(m) \in Nat
           /\ InBatches(m) = Cardinality(BatchSet(m, putting))
           /\ Printed(m) \in Nat /\ ToPrint(m) \in Nat
  BY DEF Numbers
<1>1. {p \in Batched : putting[p[1]][p[2]] = m} = BatchSet(m, putting)
  BY DEF BatchSet, Batched
<1>2. /\ Times(m, collected) \in Nat /\ Times(m, uploaded) \in Nat /\ Times(m, events) \in Nat
      /\ Times(m, printing) \in Nat
  BY TimesFinite DEF LogTypes
<1>3. InBatches(m) \in Nat /\ InBatches(m) = Cardinality(BatchSet(m, putting))
  BY <1>1, FS_CardinalityType DEF LogTypes, InBatches
<1>4. Printed(m) \in Nat /\ ToPrint(m) \in Nat
  BY <1>2, <1>3 DEF Printed, ToPrint
<1> QED
  BY <1>2, <1>3, <1>4
LEMMA NextCountsAreNumbers == LogTypes' => Numbers'
BY CountsAreNumbers, PTL

\* What PrintAppend does to them.
LEMMA PrintAppendCounts ==
    ASSUME LogTypes, NEW putter \in Messages \cup {Cloudprint}, putter \notin DOMAIN putting, NEW m \in Messages,
           PrintAppend(putter, m), NEW x \in Messages
    PROVE  /\ collected' \in Seq(Messages)
           /\ DOMAIN putting' = IF due THEN DOMAIN putting \cup {putter} ELSE DOMAIN putting
           /\ \A t \in DOMAIN putting' : putting'[t] \in Seq(Messages)
           /\ IsFiniteSet(BatchSet(x, putting'))
           /\ Times(x, collected') + Cardinality(BatchSet(x, putting'))
                = Times(x, collected) + InBatches(x) + IF m = x THEN 1 ELSE 0
<1> DEFINE all == Append(collected, m)
<1>1. all \in Seq(Messages) /\ Times(x, all) = Times(x, collected) + IF m = x THEN 1 ELSE 0
  BY TimesAppend DEF LogTypes
<1>2. CASE due
  <2>1. /\ collected' = <<>>
        /\ putting' = [t \in DOMAIN putting \cup {putter} |-> IF t = putter THEN all ELSE putting[t]]
    BY <1>2 DEF PrintAppend, Remaining
  <2> HIDE DEF all
  <2>2. /\ DOMAIN putting' = DOMAIN putting \cup {putter} /\ putting'[putter] = all
        /\ \A u \in DOMAIN putting : putting'[u] = putting[u]
    BY <2>1
  <2>3. DOMAIN putting = DOMAIN putting' \ {putter} /\ putter \in DOMAIN putting'
    BY <2>2
  <2>4. \A t \in DOMAIN putting' : putting'[t] \in Seq(Messages)
    BY <1>1, <2>2 DEF LogTypes
  <2>5. /\ IsFiniteSet(BatchSet(x, putting'))
        /\ Cardinality(BatchSet(x, putting')) = Cardinality(BatchSet(x, putting)) + Times(x, putting'[putter])
    <3> DEFINE after == putting'
    <3> HIDE DEF after
    <3>1. /\ putter \in DOMAIN after /\ DOMAIN putting = DOMAIN after \ {putter} /\ after[putter] \in Seq(Messages)
          /\ \A u \in DOMAIN putting : putting[u] = after[u]
      BY <2>2, <2>3, <2>4 DEF after
    <3>2. IsFiniteSet(BatchSet(x, putting))
      BY DEF LogTypes
    <3>3. /\ IsFiniteSet(BatchSet(x, after))
          /\ Cardinality(BatchSet(x, after)) = Cardinality(BatchSet(x, putting)) + Times(x, after[putter])
      BY <3>1, <3>2, BatchesOf
    <3> QED
      BY <3>3 DEF after
  <2>6. Times(x, collected') = 0 /\ collected' \in Seq(Messages)
    BY <2>1, TimesEmpty
  <2>7. /\ Times(x, all) \in Nat /\ Times(x, collected) \in Nat
        /\ Cardinality(BatchSet(x, putting)) = InBatches(x) /\ InBatches(x) \in Nat
    <3>1. /\ Times(x, collected) \in Nat /\ InBatches(x) \in Nat
          /\ InBatches(x) = Cardinality(BatchSet(x, putting))
      BY CountsAreNumbers DEF Numbers
    <3> QED
      BY <1>1, <3>1
  <2>8. Cardinality(BatchSet(x, putting')) = InBatches(x) + Times(x, all)
    BY <2>2, <2>5, <2>7
  <2>9. Times(x, collected') + Cardinality(BatchSet(x, putting'))
          = Times(x, collected) + InBatches(x) + IF m = x THEN 1 ELSE 0
    BY <1>1, <2>6, <2>7, <2>8
  <2>10. DOMAIN putting' = IF due THEN DOMAIN putting \cup {putter} ELSE DOMAIN putting
    BY <1>2, <2>2
  <2> QED
    BY <2>4, <2>5, <2>6, <2>9, <2>10, ZenonT(60)
<1>3. CASE ~due
  <2>1. collected' = all /\ putting' = putting
    BY <1>3 DEF PrintAppend
  <2> HIDE DEF all
  <2>2. /\ Times(x, collected) \in Nat /\ InBatches(x) \in Nat
        /\ InBatches(x) = Cardinality(BatchSet(x, putting))
    BY CountsAreNumbers DEF Numbers
  <2>3. /\ \A t \in DOMAIN putting : putting[t] \in Seq(Messages)
        /\ IsFiniteSet(BatchSet(x, putting))
    BY DEF LogTypes
  <2>4. Times(x, collected') + Cardinality(BatchSet(x, putting'))
          = Times(x, collected) + InBatches(x) + IF m = x THEN 1 ELSE 0
    BY <1>1, <2>1, <2>2
  <2> QED
    BY <1>1, <1>3, <2>1, <2>3, <2>4
<1> QED
  BY <1>2, <1>3

LEMMA HandleInv == ASSUME LogInv, NEW m \in Messages, Handle(m) PROVE LogInv'
<1>0. LogTypes
  BY DEF LogInv
<1>1. /\ m \notin handled /\ handled' = handled \cup {m} /\ PrintAppend(m, m)
      /\ events' = (IF due THEN events ELSE Append(events, m)) /\ printing' = printing /\ uploaded' = uploaded
  BY DEF Handle
<1>2. m \notin DOMAIN putting /\ m # Cloudprint
  BY <1>0, <1>1, LogAssumption DEF LogTypes
<1>3. /\ collected' \in Seq(Messages)
      /\ DOMAIN putting' = IF due THEN DOMAIN putting \cup {m} ELSE DOMAIN putting
      /\ \A t \in DOMAIN putting' : putting'[t] \in Seq(Messages)
  BY <1>0, <1>1, <1>2, PrintAppendCounts
<1>4. \A x \in Messages :
        /\ IsFiniteSet(BatchSet(x, putting'))
        /\ Times(x, collected') + Cardinality(BatchSet(x, putting'))
                = Times(x, collected) + InBatches(x) + IF m = x THEN 1 ELSE 0
  BY <1>0, <1>1, <1>2, PrintAppendCounts
<1>5. events' \in Seq(Messages)
  BY <1>0, <1>1, TimesAppend DEF LogTypes
<1>6. LogTypes'
  BY <1>0, <1>1, <1>3, <1>4, <1>5 DEF LogTypes
<1>7. ASSUME NEW x \in Messages
      PROVE  IF x \in handled' THEN Printed(x)' + ToPrint(x)' = 2 /\ Printed(x)' >= 1 ELSE Printed(x)' + ToPrint(x)' = 0
  <2>1. /\ Times(x, collected) \in Nat /\ Times(x, uploaded) \in Nat /\ Times(x, events) \in Nat
        /\ Times(x, printing) \in Nat /\ InBatches(x) \in Nat
    BY <1>0, CountsAreNumbers DEF Numbers
  <2>2. /\ Times(x, collected)' \in Nat /\ InBatches(x)' \in Nat
        /\ InBatches(x)' = Cardinality(BatchSet(x, putting'))
    BY <1>6, NextCountsAreNumbers DEF Numbers
  <2>3. Printed(x)' = Printed(x) + IF m = x THEN 1 ELSE 0
    <3>1. Printed(x)' = Times(x, collected') + Times(x, uploaded) + Cardinality(BatchSet(x, putting'))
      BY <1>1, <2>2 DEF Printed
    <3>2. Times(x, collected') \in Nat /\ Cardinality(BatchSet(x, putting')) \in Nat
      BY <2>2
    <3>3. Printed(x) = Times(x, collected) + Times(x, uploaded) + InBatches(x)
      BY DEF Printed
    <3>4. Times(x, collected') + Cardinality(BatchSet(x, putting'))
                = Times(x, collected) + InBatches(x) + IF m = x THEN 1 ELSE 0
      BY <1>4
    <3> QED
      BY <2>1, <3>1, <3>2, <3>3, <3>4, SMTT(40)
  <2>4. ToPrint(x)' = ToPrint(x) + IF m = x THEN 1 ELSE 0
    <3>1. CASE due
      BY <1>1, <1>2, <1>3, <2>1, <3>1 DEF ToPrint, Busy
    <3>2. CASE ~due
      <4>1. Times(x, events)' = Times(x, events) + IF m = x THEN 1 ELSE 0
        BY <1>0, <1>1, <3>2, TimesAppend DEF LogTypes
      <4>2. Busy(x)' = Busy(x)
        BY <1>3, <3>2 DEF Busy
      <4> QED
        BY <1>1, <2>1, <4>1, <4>2 DEF ToPrint
    <3> QED
      BY <3>1, <3>2
  <2>5. Printed(x) \in Nat /\ ToPrint(x) \in Nat
    BY <2>1 DEF Printed, ToPrint
  <2>6. IF x \in handled THEN Printed(x) + ToPrint(x) = 2 /\ Printed(x) >= 1 ELSE Printed(x) + ToPrint(x) = 0
    BY DEF LogInv, LogConserved
  <2> QED
    BY <1>1, <2>3, <2>4, <2>5, <2>6
<1>8. LogConserved'
  BY <1>7 DEF LogConserved
<1> QED
  BY <1>6, <1>8 DEF LogInv

\* Steps after which everything is printed as often as before, or once more
\* and has to be once less.
LEMMA StaysConserved ==
    ASSUME LogInv, UNCHANGED handled,
           \A x \in Messages : Printed(x) \in Nat /\ ToPrint(x) \in Nat /\ Printed(x)' \in Nat /\ ToPrint(x)' \in Nat,
           \A x \in Messages : Printed(x)' + ToPrint(x)' = Printed(x) + ToPrint(x) /\ Printed(x)' >= Printed(x)
    PROVE  LogConserved'
<1> SUFFICES ASSUME NEW x \in Messages
    PROVE  IF x \in handled' THEN Printed(x)' + ToPrint(x)' = 2 /\ Printed(x)' >= 1 ELSE Printed(x)' + ToPrint(x)' = 0
  BY DEF LogConserved
<1>1. IF x \in handled THEN Printed(x) + ToPrint(x) = 2 /\ Printed(x) >= 1 ELSE Printed(x) + ToPrint(x) = 0
  BY DEF LogInv, LogConserved
<1> QED
  BY <1>1

LEMMA SentInv == ASSUME LogInv, NEW putter, Sent(putter) PROVE LogInv'
<1>0. LogTypes
  BY DEF LogInv
<1>1. /\ putter \in DOMAIN putting /\ uploaded' = uploaded \o putting[putter]
      /\ putting' = [t \in DOMAIN putting \ {putter} |-> putting[t]]
      /\ events' = (IF putter = Cloudprint THEN events ELSE Append(events, putter))
      /\ UNCHANGED <<printing, collected, handled>>
  BY DEF Sent, Busy
<1>2. putter = Cloudprint \/ putter \in Messages
  BY <1>0, <1>1 DEF LogTypes
<1>3. putting[putter] \in Seq(Messages) /\ uploaded' \in Seq(Messages)
  BY <1>0, <1>1 DEF LogTypes
<1>4. events' \in Seq(Messages)
  BY <1>0, <1>1, <1>2, TimesAppend DEF LogTypes
<1>5. DOMAIN putting' = DOMAIN putting \ {putter} /\ \A u \in DOMAIN putting' : putting'[u] = putting[u]
  BY <1>1
<1>6. \A x \in Messages :
        /\ IsFiniteSet(BatchSet(x, putting')) /\ Cardinality(BatchSet(x, putting')) \in Nat
        /\ Cardinality(BatchSet(x, putting)) = Cardinality(BatchSet(x, putting')) + Times(x, putting[putter])
  <2> TAKE x \in Messages
  <2> DEFINE after == putting'
  <2> HIDE DEF after
  <2>1. /\ DOMAIN after = DOMAIN putting \ {putter} /\ \A u \in DOMAIN after : after[u] = putting[u]
    BY <1>5 DEF after
  <2>2. IsFiniteSet(BatchSet(x, putting))
    BY <1>0 DEF LogTypes
  <2>3. /\ IsFiniteSet(BatchSet(x, after)) /\ Cardinality(BatchSet(x, after)) \in Nat
        /\ Cardinality(BatchSet(x, putting)) = Cardinality(BatchSet(x, after)) + Times(x, putting[putter])
    BY <1>1, <1>3, <2>1, <2>2, BatchesOf
  <2> QED
    BY <2>3 DEF after
<1>7. LogTypes'
  BY <1>0, <1>1, <1>3, <1>4, <1>5, <1>6 DEF LogTypes
<1>8. ASSUME NEW x \in Messages PROVE Printed(x)' = Printed(x) /\ ToPrint(x)' = ToPrint(x)
  <2>1. /\ Times(x, collected) \in Nat /\ Times(x, uploaded) \in Nat /\ Times(x, events) \in Nat
        /\ Times(x, printing) \in Nat /\ InBatches(x) = Cardinality(BatchSet(x, putting))
    BY <1>0, CountsAreNumbers DEF Numbers
  <2>2. InBatches(x)' = Cardinality(BatchSet(x, putting'))
    BY <1>7, NextCountsAreNumbers DEF Numbers
  <2>3. Times(x, uploaded)' = Times(x, uploaded) + Times(x, putting[putter])
    BY <1>0, <1>1, <1>3, TimesConcat DEF LogTypes
  <2>4. Times(x, putting[putter]) \in Nat
    BY <1>3, TimesFinite
  <2>5. Printed(x)' = Printed(x)
    <3>1. Printed(x)' = Times(x, collected) + Times(x, uploaded') + Cardinality(BatchSet(x, putting'))
      BY <1>1, <2>2 DEF Printed
    <3>2. Printed(x) = Times(x, collected) + Times(x, uploaded) + Cardinality(BatchSet(x, putting))
      BY <2>1 DEF Printed
    <3>3. Cardinality(BatchSet(x, putting')) \in Nat
      BY <1>6
    <3>4. Cardinality(BatchSet(x, putting)) = Cardinality(BatchSet(x, putting')) + Times(x, putting[putter])
      BY <1>6
    <3>5. Times(x, uploaded') = Times(x, uploaded) + Times(x, putting[putter])
      BY <2>3
    <3> QED
      BY <2>1, <2>4, <3>1, <3>2, <3>3, <3>4, <3>5
  <2>6. ToPrint(x)' = ToPrint(x)
    <3>1. CASE putter = Cloudprint
      <4>1. Busy(x)' <=> Busy(x)
        <5>1. x # Cloudprint
          BY LogAssumption
        <5> QED
          BY <1>5, <3>1, <5>1 DEF Busy
      <4> QED
        BY <1>1, <3>1, <4>1 DEF ToPrint
    <3>2. CASE putter # Cloudprint
      <4>1. Times(x, events)' = Times(x, events) + IF putter = x THEN 1 ELSE 0
        BY <1>0, <1>1, <1>2, <3>2, TimesAppend DEF LogTypes
      <4>2. (Busy(x)' <=> (Busy(x) /\ x # putter)) /\ (x = putter => Busy(x))
        BY <1>1, <1>5 DEF Busy
      <4>3. CASE x = putter
        <5>1. Busy(x) /\ ~Busy(x)'
          BY <4>2, <4>3
        <5> QED
          BY <1>1, <2>1, <4>1, <4>3, <5>1 DEF ToPrint
      <4>4. CASE x # putter
        <5>1. Busy(x)' <=> Busy(x)
          BY <4>2, <4>4
        <5> QED
          BY <1>1, <2>1, <4>1, <4>4, <5>1 DEF ToPrint
      <4> QED
        BY <4>3, <4>4
    <3> QED
      BY <3>1, <3>2
  <2> QED
    BY <2>5, <2>6
<1>9. LogConserved'
  BY <1>1, <1>8 DEF LogInv, LogConserved
<1> QED
  BY <1>7, <1>9 DEF LogInv

LEMMA TakeEventsInv == ASSUME LogInv, TakeEvents PROVE LogInv'
<1>1. printing = <<>> /\ printing' = events /\ events' = <<>> /\ UNCHANGED <<collected, putting, handled, uploaded>>
  BY DEF TakeEvents
<1>2. LogTypes'
  BY <1>1 DEF LogInv, LogTypes
<1>3. \A x \in Messages : Printed(x)' = Printed(x)
  BY <1>1 DEF Printed, InBatches, Batched
<1>4. \A x \in Messages : ToPrint(x)' = ToPrint(x)
  <2> TAKE x \in Messages
  <2>1. Times(x, printing) = 0 /\ Times(x, events') = 0 /\ Times(x, events) \in Nat
    BY <1>1, TimesEmpty, CountsAreNumbers DEF LogInv, Numbers
  <2>2. Busy(x)' = Busy(x)
    BY <1>1 DEF Busy
  <2> QED
    BY <1>1, <2>1, <2>2 DEF ToPrint
<1>5. LogConserved'
  BY <1>1, <1>3, <1>4 DEF LogInv, LogConserved
<1> QED
  BY <1>2, <1>5 DEF LogInv

LEMMA PrintNextInv == ASSUME LogInv, PrintNext PROVE LogInv'
<1>0. LogTypes
  BY DEF LogInv
<1> DEFINE m == Head(printing)
<1>1. /\ printing # <<>> /\ Cloudprint \notin DOMAIN putting /\ PrintAppend(Cloudprint, m)
      /\ printing' = Tail(printing) /\ UNCHANGED <<events, handled, uploaded>>
  BY DEF PrintNext, Busy
<1>2. /\ m \in Messages /\ printing' \in Seq(Messages)
      /\ \A x : Times(x, printing) = Times(x, printing') + IF m = x THEN 1 ELSE 0
  BY <1>0, <1>1, TimesTail DEF LogTypes
<1> HIDE DEF m
<1>3. /\ collected' \in Seq(Messages)
      /\ DOMAIN putting' = IF due THEN DOMAIN putting \cup {Cloudprint} ELSE DOMAIN putting
      /\ \A t \in DOMAIN putting' : putting'[t] \in Seq(Messages)
  BY <1>0, <1>1, <1>2, PrintAppendCounts
<1>4. \A x \in Messages :
        /\ IsFiniteSet(BatchSet(x, putting'))
        /\ Times(x, collected') + Cardinality(BatchSet(x, putting'))
                = Times(x, collected) + InBatches(x) + IF m = x THEN 1 ELSE 0
  BY <1>0, <1>1, <1>2, PrintAppendCounts
<1>5. LogTypes'
  BY <1>0, <1>1, <1>2, <1>3, <1>4 DEF LogTypes
<1>6. ASSUME NEW x \in Messages
      PROVE  Printed(x)' = Printed(x) + (IF m = x THEN 1 ELSE 0) /\ ToPrint(x) = ToPrint(x)' + IF m = x THEN 1 ELSE 0
  <2>1. /\ Times(x, collected) \in Nat /\ Times(x, uploaded) \in Nat /\ Times(x, events) \in Nat
        /\ Times(x, printing) \in Nat /\ InBatches(x) \in Nat
    BY <1>0, CountsAreNumbers DEF Numbers
  <2>2. /\ Times(x, collected)' \in Nat /\ InBatches(x)' \in Nat /\ Times(x, printing)' \in Nat
        /\ InBatches(x)' = Cardinality(BatchSet(x, putting'))
    BY <1>5, NextCountsAreNumbers DEF Numbers
  <2>3. Printed(x)' = Printed(x) + IF m = x THEN 1 ELSE 0
    <3>1. Printed(x)' = Times(x, collected') + Times(x, uploaded) + Cardinality(BatchSet(x, putting'))
      BY <1>1, <2>2 DEF Printed
    <3>2. Times(x, collected') \in Nat /\ Cardinality(BatchSet(x, putting')) \in Nat
      BY <2>2
    <3>3. Printed(x) = Times(x, collected) + Times(x, uploaded) + InBatches(x)
      BY DEF Printed
    <3>4. Times(x, collected') + Cardinality(BatchSet(x, putting'))
                = Times(x, collected) + InBatches(x) + IF m = x THEN 1 ELSE 0
      BY <1>4
    <3> QED
      BY <2>1, <3>1, <3>2, <3>3, <3>4, SMTT(40)
  <2>4. Busy(x)' <=> Busy(x)
    <3>1. x # Cloudprint
      BY LogAssumption
    <3> QED
      BY <1>3, <3>1 DEF Busy
  <2>5. ToPrint(x) = ToPrint(x)' + IF m = x THEN 1 ELSE 0
    BY <1>1, <1>2, <2>1, <2>2, <2>4 DEF ToPrint
  <2> QED
    BY <2>3, <2>5
<1>7. \A x \in Messages : Printed(x) \in Nat /\ ToPrint(x) \in Nat /\ Printed(x)' \in Nat /\ ToPrint(x)' \in Nat
  BY <1>0, <1>5, CountsAreNumbers, NextCountsAreNumbers DEF Numbers
<1>8. \A x \in Messages : Printed(x)' + ToPrint(x)' = Printed(x) + ToPrint(x) /\ Printed(x)' >= Printed(x)
  <2> TAKE x \in Messages
  <2> QED
    BY <1>6, <1>7
<1>9. LogConserved'
  BY <1>1, <1>7, <1>8, StaysConserved
<1> QED
  BY <1>5, <1>9 DEF LogInv

LEMMA NextLogInv == ASSUME LogInv, [LogNext]_logVars PROVE LogInv'
<1>1. CASE FiveSeconds \/ UNCHANGED logVars
  <2>1. UNCHANGED <<events, printing, collected, putting, handled, uploaded>>
    BY <1>1 DEF FiveSeconds, logVars
  <2>2. \A x \in Messages : Printed(x)' = Printed(x) /\ ToPrint(x)' = ToPrint(x)
    BY <2>1 DEF Printed, ToPrint, InBatches, Batched, Busy
  <2> QED
    BY <2>1, <2>2 DEF LogInv, LogTypes, LogConserved
<1>2. CASE \E putter \in Messages \cup {Cloudprint} : Sent(putter)
  BY <1>2, SentInv
<1> QED
  BY <1>1, <1>2, HandleInv, SentInv, TakeEventsInv, PrintNextInv DEF LogNext

\* No log message is lost, none is sent more than twice (logger.py): for any
\* messages, whatever batches overtake each other.
THEOREM LogStaysConserved == LogSpec => []LogConserved
<1>1. LogInv => LogConserved
  BY DEF LogInv
<1> QED
  BY <1>1, InitLogInv, NextLogInv, PTL DEF LogSpec

-----------------------------------------------------------------------------
(* The adblocker.                                                          *)

Fate == {"not yet", "tunnel", "blocked", "passed", "lost"}
AdblockTypes ==
    /\ phase \in {"registering", "updating", "resting", "ended"} /\ loaded \in Nat
    /\ asked \in [Queries -> Fate] /\ queue \in Seq(Queries) /\ crashes \in Nat
    /\ stats \in [Sources -> Nat] /\ report \in [Sources -> Nat] /\ reported \in [Sources -> Nat]

Blocked(d) == {q \in Queries : d \in CountedAs(q) /\ asked[q] = "blocked"}
Total(s) == stats[s] + report[s] + reported[s]
AllCounted ==
    \A s \in Sources : IsFiniteSet(Blocked(s)) /\ (crashes = 0 => Total(s) = Cardinality(Blocked(s)))
ListsRead == phase \in {"updating", "resting"} => blacklist = UNION {Lists[i] : i \in 1 .. loaded}
Resolves(q, fate) == q.via = "resolver" /\ fate[q] = "tunnel"
Owed ==
    /\ \A i \in DOMAIN queue : Resolves(queue[i], asked)
    /\ \A q \in Queries : Resolves(q, asked) => \E i \in DOMAIN queue : queue[i] = q
    /\ \A i, j \in DOMAIN queue : queue[i] = queue[j] => i = j
AdblockInv ==
    /\ AdblockTypes /\ AllCounted /\ ListsRead /\ Owed
    /\ phase = "resting" => loaded = Len(Lists)

LEMMA SourcesOf ==
    /\ Anyone \in Sources /\ \A d \in Devices : d \in Sources /\ d # Anyone
    /\ \A q \in Queries : q.device \in Devices /\ CountedAs(q) \subseteq Sources
BY AdblockerAssumption DEF Sources, Devices, CountedAs

LEMMA InjectiveCounts ==
    ASSUME NEW s \in Seq(Queries), \A i, j \in DOMAIN s : s[i] = s[j] => i = j
    PROVE  Len(s) = Cardinality({s[i] : i \in DOMAIN s})
<1> DEFINE T == {s[i] : i \in DOMAIN s}
           f == [i \in 1 .. Len(s) |-> s[i]]
<1>1. DOMAIN s = 1 .. Len(s) /\ Len(s) \in Nat
  OBVIOUS
<1>2. f \in Bijection(1 .. Len(s), T)
  <2>1. f \in [1 .. Len(s) -> T] /\ \A t \in T : \E i \in 1 .. Len(s) : f[i] = t
    BY <1>1
  <2>2. \A i, j \in 1 .. Len(s) : f[i] = f[j] => i = j
    BY <1>1
  <2> QED
    BY <2>1, <2>2 DEF Bijection, Injection, Surjection, IsInjective
<1>3. IsFiniteSet(1 .. Len(s)) /\ Cardinality(1 .. Len(s)) = Len(s)
  BY <1>1, FS_Interval
<1> HIDE DEF T, f
<1>4. Cardinality(T) = Cardinality(1 .. Len(s))
  BY <1>2, <1>3, FS_Bijection DEF ExistsBijection
<1> QED
  BY <1>3, <1>4 DEF T

LEMMA SoundFromAdblockInv == AdblockInv => AdblockSound
<1> SUFFICES ASSUME AdblockInv PROVE AdblockSound
  OBVIOUS
<1>1. CountsAgree
  <2>1. \A d \in Devices : Blocked(d) = {q \in Queries : q.device = d /\ asked[q] = "blocked"}
    BY SourcesOf DEF Blocked, CountedAs
  <2>2. Blocked(Anyone) = {q \in Queries : asked[q] = "blocked"}
    BY DEF Blocked, CountedAs
  <2> QED
    BY <2>1, <2>2, SourcesOf DEF AdblockInv, AllCounted, CountsAgree, Total
<1>2. ListsComplete
  <2>1. DOMAIN Lists = 1 .. Len(Lists)
    BY AdblockerAssumption
  <2> QED
    BY <2>1 DEF AdblockInv, ListsRead, ListsComplete
<1>3. QueueOwed
  <2>1. {queue[i] : i \in DOMAIN queue} = {q \in Queries : q.via = "resolver" /\ asked[q] = "tunnel"}
    BY DEF AdblockInv, AdblockTypes, Owed, Resolves
  <2>2. Len(queue) = Cardinality({queue[i] : i \in DOMAIN queue})
    BY InjectiveCounts DEF AdblockInv, AdblockTypes, Owed
  <2> QED
    BY <2>1, <2>2 DEF QueueOwed
<1> QED
  BY <1>1, <1>2, <1>3 DEF AdblockSound

LEMMA InitAdblockInv == AdblockInit => AdblockInv
<1> SUFFICES ASSUME AdblockInit PROVE AdblockInv
  OBVIOUS
<1>0. <<>> \in Seq(Queries)
  OBVIOUS
<1>1. AdblockTypes /\ ListsRead /\ Owed /\ phase # "resting"
  <2>1. NoCounts \in [Sources -> Nat]
    BY DEF NoCounts
  <2>2. AdblockTypes
    BY <1>0, <2>1 DEF AdblockInit, AdblockTypes, Fate
  <2>3. Owed
    <3>1. \A q \in Queries : asked[q] # "tunnel"
      BY DEF AdblockInit
    <3>2. \A i \in DOMAIN queue : FALSE
      <4>1. queue = <<>>
        BY DEF AdblockInit
      <4> QED
        BY <4>1
    <3> QED
      BY <3>1, <3>2 DEF Owed, Resolves
  <2> QED
    BY <2>2, <2>3 DEF AdblockInit, ListsRead
<1>2. AllCounted
  <2>1. \A s \in Sources : Blocked(s) = {} /\ Total(s) = 0
    <3> SUFFICES ASSUME NEW s \in Sources PROVE Blocked(s) = {} /\ Total(s) = 0
      OBVIOUS
    <3>1. \A q \in Queries : asked[q] # "blocked"
      BY DEF AdblockInit
    <3>2. Blocked(s) = {}
      BY <3>1 DEF Blocked
    <3>3. Total(s) = 0
      <4>1. stats = NoCounts /\ report = NoCounts /\ reported = NoCounts /\ NoCounts[s] = 0
        BY DEF AdblockInit, NoCounts
      <4> QED
        BY <4>1 DEF Total
    <3> QED
      BY <3>2, <3>3
  <2> QED
    BY <2>1, FS_EmptySet DEF AllCounted
<1> QED
  BY <1>1, <1>2 DEF AdblockInv

\* One more was blocked, and counted.
LEMMA BlockedOneMore ==
    ASSUME AdblockInv, NEW q \in Queries, asked[q] = "tunnel",
           asked' = [asked EXCEPT ![q] = "blocked"], stats' = Counted(q), UNCHANGED <<report, reported, crashes>>
    PROVE  AllCounted' /\ stats' \in [Sources -> Nat]
<1>1. stats' \in [Sources -> Nat]
  BY DEF AdblockInv, AdblockTypes, Counted
<1>2. ASSUME NEW s \in Sources
      PROVE IsFiniteSet(Blocked(s))' /\ (crashes' = 0 => Total(s)' = Cardinality(Blocked(s)'))
  <2>1. IsFiniteSet(Blocked(s)) /\ q \notin Blocked(s) /\ Cardinality(Blocked(s)) \in Nat
    BY FS_CardinalityType DEF AdblockInv, AllCounted, Blocked
  <2>2. stats[s] \in Nat /\ report[s] \in Nat /\ reported[s] \in Nat
        /\ stats'[s] = stats[s] + IF s \in CountedAs(q) THEN 1 ELSE 0
    BY DEF AdblockInv, AdblockTypes, Counted
  <2>3. CASE s \in CountedAs(q)
    <3>1. Blocked(s)' = Blocked(s) \cup {q}
      BY <2>3 DEF Blocked, AdblockInv, AdblockTypes
    <3>2. IsFiniteSet(Blocked(s) \cup {q}) /\ Cardinality(Blocked(s) \cup {q}) = Cardinality(Blocked(s)) + 1
      BY <2>1, FS_AddElement
    <3>3. Total(s)' = Total(s) + 1
      BY <2>2, <2>3 DEF Total
    <3> QED
      BY <3>1, <3>2, <3>3 DEF AdblockInv, AllCounted
  <2>4. CASE s \notin CountedAs(q)
    <3>1. Blocked(s)' = Blocked(s)
      BY <2>4 DEF Blocked, AdblockInv, AdblockTypes
    <3>3. Total(s)' = Total(s)
      BY <2>2, <2>4 DEF Total
    <3> QED
      BY <3>1, <3>3 DEF AdblockInv, AllCounted
  <2> QED
    BY <2>3, <2>4
<1> QED
  BY <1>1, <1>2 DEF AllCounted

\* Nothing is blocked, and the counts only move.
LEMMA BlockedNoMore ==
    ASSUME AllCounted, crashes' \in Nat, crashes \in Nat, crashes <= crashes',
           \A q \in Queries : asked'[q] = "blocked" <=> asked[q] = "blocked",
           \A s \in Sources : crashes' = 0 => Total(s)' = Total(s)
    PROVE  AllCounted'
<1>1. \A s \in Sources : Blocked(s)' = Blocked(s)
  BY DEF Blocked
<1>2. crashes' = 0 => crashes = 0
  OBVIOUS
<1> QED
  BY <1>1, <1>2 DEF AllCounted

LEMMA AskInv == ASSUME AdblockInv, NEW q \in Queries, Ask(q) PROVE AdblockInv'
<1> USE DEF AdblockInv
<1>1. /\ asked[q] = "not yet" /\ asked' = [asked EXCEPT ![q] = "tunnel"]
      /\ queue' = IF q.via = "resolver" THEN Append(queue, q) ELSE queue
      /\ UNCHANGED <<phase, blacklist, loaded, respond, stats, report, reported, crashes>>
  BY DEF Ask
<1>2. asked' \in [Queries -> Fate] /\ \A p \in Queries : asked'[p] = IF p = q THEN "tunnel" ELSE asked[p]
  BY <1>1 DEF AdblockTypes, Fate
<1>3. queue' \in Seq(Queries)
  <2>1. Append(queue, q) \in Seq(Queries) /\ queue \in Seq(Queries)
    BY DEF AdblockTypes
  <2> QED
    BY <1>1, <2>1
<1>4. AllCounted'
  <2>1. \A p \in Queries : asked'[p] = "blocked" <=> asked[p] = "blocked"
    BY <1>1, <1>2
  <2>2. \A s \in Sources : Total(s)' = Total(s)
    BY <1>1 DEF Total
  <2>3. crashes' \in Nat /\ crashes \in Nat /\ crashes <= crashes'
    <3>1. crashes' = crashes
      BY <1>1
    <3>2. crashes \in Nat
      BY DEF AdblockTypes
    <3> QED
      BY <3>1, <3>2
  <2> QED
    BY <2>1, <2>2, <2>3, BlockedNoMore
<1>5. Owed'
  <2>0. queue \in Seq(Queries)
    BY DEF AdblockTypes
  <2>1. CASE q.via = "resolver"
    <3>0. queue' = Append(queue, q)
      BY <1>1, <2>1
    <3>1. \A i \in DOMAIN queue' : (i \in DOMAIN queue /\ queue'[i] = queue[i]) \/ (i = Len(queue) + 1 /\ queue'[i] = q)
      BY <2>0, <3>0, AppendFacts
    <3>2. \A i \in DOMAIN queue : i \in DOMAIN queue' /\ queue'[i] = queue[i]
      BY <2>0, <3>0, AppendFacts
    <3>3. Len(queue) + 1 \in DOMAIN queue' /\ queue'[Len(queue) + 1] = q
      BY <2>0, <3>0, AppendFacts
    <3>4. \A i \in DOMAIN queue : queue[i] # q /\ queue[i] \in Queries
      <4>1. \A i \in DOMAIN queue : asked[queue[i]] = "tunnel"
        BY DEF Owed, Resolves
      <4>2. \A i \in DOMAIN queue : queue[i] \in Queries
        BY <2>0
      <4> QED
        BY <1>1, <4>1, <4>2
    <3> QED
      BY <1>2, <2>1, <3>1, <3>2, <3>3, <3>4 DEF Owed, Resolves
  <2>2. CASE q.via # "resolver"
    <3>1. \A p \in Queries : Resolves(p, asked') <=> Resolves(p, asked)
      BY <1>2, <2>2, <1>1 DEF Resolves
    <3>2. \A i \in DOMAIN queue : queue[i] \in Queries
      BY <2>0
    <3> QED
      BY <1>1, <2>2, <3>1, <3>2 DEF Owed
  <2> QED
    BY <2>1, <2>2
<1> QED
  BY <1>1, <1>2, <1>3, <1>4, <1>5 DEF AdblockTypes, ListsRead

\* A request is served: it leaves the queue, if it was there.
LEMMA ServedInv ==
    ASSUME AdblockInv, NEW q \in Queries, Served(q), NEW a \in Fate \ {"tunnel"},
           asked' = [asked EXCEPT ![q] = a], queue' = Dequeued(q)
    PROVE  /\ Owed' /\ queue' \in Seq(Queries) /\ asked' \in [Queries -> Fate]
           /\ \A p \in Queries : asked'[p] = IF p = q THEN a ELSE asked[p]
<1> USE DEF AdblockInv
<1>1. queue \in Seq(Queries) /\ asked[q] = "tunnel"
  BY DEF AdblockTypes, Served
<1>2. asked' \in [Queries -> Fate] /\ \A p \in Queries : asked'[p] = IF p = q THEN a ELSE asked[p]
  BY DEF AdblockTypes
<1>3. CASE q.via = "resolver"
  <2>1. queue # <<>> /\ q = Head(queue) /\ queue' = Tail(queue)
    BY <1>1, <1>3 DEF Owed, Resolves, Served, Dequeued
  <2>2. /\ \A k \in DOMAIN queue' : k \in Nat /\ k + 1 \in DOMAIN queue /\ queue'[k] = queue[k + 1]
        /\ \A k \in DOMAIN queue : k \in Nat /\ (k = 1 \/ (k - 1 \in DOMAIN queue' /\ queue'[k - 1] = queue[k]))
        /\ queue' \in Seq(Queries) /\ q = queue[1] /\ 1 \in DOMAIN queue
    BY <1>1, <2>1, TailFacts
  <2>3. \A k \in DOMAIN queue' : queue'[k] # q
    <3> SUFFICES ASSUME NEW k \in DOMAIN queue', queue'[k] = q PROVE FALSE
      OBVIOUS
    <3>1. k + 1 = 1
      BY <2>2 DEF Owed
    <3> QED
      BY <2>2, <3>1
  <2>4. \A i, j \in DOMAIN queue' : queue'[i] = queue'[j] => i = j
    <3> SUFFICES ASSUME NEW i \in DOMAIN queue', NEW j \in DOMAIN queue', queue'[i] = queue'[j] PROVE i = j
      OBVIOUS
    <3>1. i + 1 = j + 1
      BY <2>2 DEF Owed
    <3> QED
      BY <2>2, <3>1
  <2>5. \A i \in DOMAIN queue' : Resolves(queue'[i], asked')
    <3> SUFFICES ASSUME NEW i \in DOMAIN queue' PROVE Resolves(queue'[i], asked')
      OBVIOUS
    <3>1. queue'[i] = queue[i + 1] /\ Resolves(queue[i + 1], asked) /\ queue[i + 1] # q /\ queue[i + 1] \in Queries
      BY <1>1, <2>2, <2>3 DEF Owed
    <3> QED
      BY <1>2, <3>1 DEF Resolves
  <2>6. \A p \in Queries : Resolves(p, asked') => \E i \in DOMAIN queue' : queue'[i] = p
    <3> SUFFICES ASSUME NEW p \in Queries, Resolves(p, asked') PROVE \E i \in DOMAIN queue' : queue'[i] = p
      OBVIOUS
    <3>1. Resolves(p, asked) /\ p # q
      BY <1>2 DEF Resolves
    <3>2. PICK i \in DOMAIN queue : queue[i] = p
      BY <3>1 DEF Owed
    <3> QED
      BY <2>2, <3>1, <3>2
  <2> QED
    BY <1>2, <2>2, <2>4, <2>5, <2>6 DEF Owed
<1>4. CASE q.via # "resolver"
  <2>1. \A p \in Queries : Resolves(p, asked') <=> Resolves(p, asked)
    BY <1>2, <1>4 DEF Resolves
  <2>2. queue' = queue /\ \A i \in DOMAIN queue : queue[i] \in Queries
    BY <1>1, <1>4 DEF Dequeued
  <2> QED
    BY <1>1, <1>2, <2>1, <2>2 DEF Owed
<1> QED
  BY <1>3, <1>4

LEMMA AnswerInv == ASSUME AdblockInv, NEW q \in Queries, Answer(q) \/ Fails(q) PROVE AdblockInv'
<1>0. AdblockTypes /\ AllCounted /\ ListsRead /\ (phase = "resting" => loaded = Len(Lists))
  BY DEF AdblockInv
<1>1. CASE Answer(q) /\ q.name \in blacklist
  <2>1. /\ Served(q) /\ asked' = [asked EXCEPT ![q] = "blocked"] /\ stats' = Counted(q) /\ queue' = Dequeued(q)
        /\ UNCHANGED <<phase, blacklist, loaded, respond, report, reported, crashes>>
    BY <1>1 DEF Answer
  <2>2. Owed' /\ queue' \in Seq(Queries) /\ asked' \in [Queries -> Fate]
    BY <2>1, ServedInv DEF Fate
  <2>3. AllCounted' /\ stats' \in [Sources -> Nat]
    BY <2>1, BlockedOneMore DEF Served
  <2> QED
    BY <1>0, <2>1, <2>2, <2>3 DEF AdblockInv, AdblockTypes, ListsRead
<1>2. CASE Fails(q) \/ (Answer(q) /\ q.name \notin blacklist)
  <2>1. PICK b \in Fate \ {"tunnel", "blocked"} :
           /\ Served(q) /\ asked' = [asked EXCEPT ![q] = b] /\ queue' = Dequeued(q)
           /\ UNCHANGED <<phase, blacklist, loaded, stats, report, reported, crashes>>
    BY <1>2 DEF Answer, Fails, Fate
  <2>2. /\ Owed' /\ queue' \in Seq(Queries) /\ asked' \in [Queries -> Fate]
        /\ \A p \in Queries : asked'[p] = IF p = q THEN b ELSE asked[p]
    BY <2>1, ServedInv
  <2>3. AllCounted'
    BY <1>0, <2>1, <2>2, BlockedNoMore DEF Total, AdblockTypes, Served
  <2> QED
    BY <1>0, <2>1, <2>2, <2>3 DEF AdblockInv, AdblockTypes, ListsRead
<1> QED
  BY <1>1, <1>2

LEMMA TakeStatsInv == ASSUME AdblockInv, TakeStats PROVE AdblockInv'
<1>1. /\ report = NoCounts /\ report' = stats /\ stats' = NoCounts
      /\ UNCHANGED <<phase, blacklist, loaded, asked, queue, respond, reported, crashes>>
  BY DEF TakeStats, Emptied
<1>2. AdblockTypes'
  BY <1>1 DEF AdblockInv, AdblockTypes, NoCounts
<1>3. \A s \in Sources : Total(s)' = Total(s)
  BY <1>1 DEF Total, NoCounts, AdblockInv, AdblockTypes
<1>4. AllCounted'
  BY <1>1, <1>3, BlockedNoMore DEF AdblockInv, AdblockTypes
<1> QED
  BY <1>1, <1>2, <1>4 DEF AdblockInv, ListsRead, Owed, Resolves

LEMMA ReportOneInv == ASSUME AdblockInv, NEW s \in Sources, ReportOne(s) PROVE AdblockInv'
<1>1. /\ reported' = [reported EXCEPT ![s] = @ + report[s]] /\ report' = [report EXCEPT ![s] = 0]
      /\ UNCHANGED <<phase, blacklist, loaded, asked, queue, respond, stats, crashes>>
  BY DEF ReportOne
<1>2. AdblockTypes'
  BY <1>1 DEF AdblockInv, AdblockTypes
<1>3. \A t \in Sources : Total(t)' = Total(t)
  BY <1>1 DEF Total, AdblockInv, AdblockTypes
<1>4. AllCounted'
  BY <1>1, <1>3, BlockedNoMore DEF AdblockInv, AdblockTypes
<1> QED
  BY <1>1, <1>2, <1>4 DEF AdblockInv, ListsRead, Owed, Resolves

LEMMA ListsStayRead ==
    ASSUME AdblockInv, UpdateBegins \/ Download \/ Restarted PROVE AdblockInv'
<1>1. UNCHANGED <<asked, queue, stats, report, reported, crashes>>
  BY DEF UpdateBegins, Download, Restarted
<1>2. AllCounted' /\ Owed'
  <2>1. \A s \in Sources : Total(s)' = Total(s) /\ Blocked(s)' = Blocked(s)
    BY <1>1 DEF Total, Blocked
  <2> QED
    BY <1>1, <2>1 DEF AdblockInv, AllCounted, Owed, Resolves
<1>3. AdblockTypes'
  BY <1>1 DEF AdblockInv, AdblockTypes, UpdateBegins, Download, Restarted
<1>4. ListsRead' /\ (phase' = "resting" => loaded' = Len(Lists))
  <2>1. CASE UpdateBegins \/ Restarted
    BY <2>1 DEF UpdateBegins, Restarted, ListsRead
  <2>2. CASE Download
    <3>1. blacklist = UNION {Lists[i] : i \in 1 .. loaded} /\ loaded' = loaded + 1 /\ loaded \in Nat
          /\ blacklist' = blacklist \cup Lists[loaded + 1]
      BY <2>2 DEF Download, ListAfter, AdblockInv, AdblockTypes, ListsRead
    <3>2. blacklist' = UNION {Lists[i] : i \in 1 .. loaded'}
      BY <3>1
    <3> QED
      BY <2>2, <3>2 DEF Download, ListsRead
  <2> QED
    BY <2>1, <2>2
<1> QED
  BY <1>2, <1>3, <1>4 DEF AdblockInv

LEMMA ProcessEndsInv == ASSUME AdblockInv, ProcessEnds PROVE AdblockInv'
<1>1. /\ crashes' = crashes + 1 /\ phase' = "ended" /\ loaded' = 0 /\ queue' = <<>>
      /\ asked' = [q \in Queries |-> IF asked[q] = "tunnel" THEN "lost" ELSE asked[q]]
      /\ stats' = NoCounts /\ report' = NoCounts /\ reported' = NoCounts
  BY DEF ProcessEnds
<1>2. AdblockTypes'
  <2>1. NoCounts \in [Sources -> Nat] /\ <<>> \in Seq(Queries)
    BY DEF NoCounts
  <2>2. asked' \in [Queries -> Fate]
    BY <1>1 DEF AdblockInv, AdblockTypes, Fate
  <2> QED
    BY <1>1, <2>1, <2>2 DEF AdblockInv, AdblockTypes
<1>3. AllCounted'
  <2>1. crashes \in Nat /\ crashes' # 0
    BY <1>1 DEF AdblockInv, AdblockTypes
  <2> QED
    BY <1>1, <2>1, BlockedNoMore DEF AdblockInv
<1>4. Owed' /\ ListsRead'
  BY <1>1 DEF Owed, Resolves, ListsRead
<1> QED
  BY <1>1, <1>2, <1>3, <1>4 DEF AdblockInv

LEMMA NextAdblockInv == ASSUME AdblockInv, [AdblockNext]_adblockVars PROVE AdblockInv'
<1>1. CASE UNCHANGED adblockVars
  <2>1. \A s \in Sources : Total(s)' = Total(s) /\ Blocked(s)' = Blocked(s)
    BY <1>1 DEF Total, Blocked, adblockVars
  <2> QED
    BY <1>1, <2>1 DEF AdblockInv, AdblockTypes, AllCounted, ListsRead, Owed, Resolves, adblockVars
<1> QED
  BY <1>1, AskInv, AnswerInv, TakeStatsInv, ReportOneInv, ListsStayRead, ProcessEndsInv DEF AdblockNext

\* Every blocked answer is counted and reported once, the lists are complete
\* between updates, and the resolver's queue holds what it owes
\* (adblocker.py): whatever the lists and requests are.
THEOREM AdblockerSound == AdblockSpec => []AdblockSound
BY InitAdblockInv, NextAdblockInv, SoundFromAdblockInv, PTL DEF AdblockSpec

-----------------------------------------------------------------------------
(* The device scanner.  What it is about to report was merged of answers   *)
(* that stay as they are until everything is reported.                     *)

Merges == {[ip |-> a, info |-> MergeInfo(a)] :
             a \in {b \in Scanned : mdns[b] # NoAnswer \/ services[b] # NoAnswer}}
ScanAt(r) ==
    \/ r = [at |-> "sleep"]
    \/ r \in [at : {"scan"}, left : SUBSET {"mdns", "ssdp"}]
    \/ DOMAIN r = {"at", "results"} /\ r.at = "report"
ReadAt(a, ds, all) ==
    ds # NoAnswer =>
        /\ ds \in Seq(Descriptions) /\ \A k \in DOMAIN ds : ds[k] \in all
        /\ \A j, k \in DOMAIN ds : ds[j].location = ds[k].location => j = k
ScannerInv ==
    /\ ScanAt(scan) /\ Results \subseteq Merges
    /\ DOMAIN mdns = Scanned /\ DOMAIN services = Scanned /\ DOMAIN heard = Scanned
    /\ \A a \in Scanned : ReadAt(a, services[a], heard[a])

LEMMA SeqDomain ==
    ASSUME NEW S, NEW s \in Seq(S)
    PROVE  DOMAIN s = 1 .. Len(s) /\ Len(s) \in Nat /\ \A k \in DOMAIN s : s[k] \in S
OBVIOUS

\* The first that is not empty is one of them.
LEMMA FirstIsOne ==
    ASSUME NEW ts, NEW n \in Nat, DOMAIN ts = 1 .. n
    PROVE  First(ts) = "" \/ \E k \in DOMAIN ts : First(ts) = ts[k]
<1>1. CASE Full(ts) = {}
  BY <1>1 DEF First
<1>2. CASE Full(ts) # {}
  <2> DEFINE T == Full(ts)
  <2>1. T \subseteq Nat /\ T \subseteq DOMAIN ts
    <3>1. \A k \in T : k \in 1 .. n
      BY DEF Full
    <3> QED
      BY <3>1
  <2>2. \E k \in T : \A j \in T : k <= j
    <3> HIDE DEF T
    <3> QED
      BY <1>2, <2>1, LeastElement DEF T
  <2> DEFINE k == CHOOSE k \in T : \A j \in T : k <= j
  <2>3. k \in T
    BY <2>2
  <2>4. First(ts) = ts[k]
    BY <1>2 DEF First
  <2> QED
    BY <2>1, <2>3, <2>4
<1> QED
  BY <1>1, <1>2

LEMMA FirstSaid ==
    ASSUME NEW ds \in Seq(Descriptions), NEW f, First(Said(ds, f)) # ""
    PROVE  \E k \in DOMAIN ds : First(Said(ds, f)) = ds[k][f]
<1>1. DOMAIN ds = 1 .. Len(ds) /\ Len(ds) \in Nat
  BY SeqDomain
<1>2. DOMAIN Said(ds, f) = 1 .. Len(ds) /\ \A k \in DOMAIN ds : Said(ds, f)[k] = ds[k][f]
  BY <1>1 DEF Said
<1>3. \E k \in DOMAIN Said(ds, f) : First(Said(ds, f)) = Said(ds, f)[k]
  BY <1>1, <1>2, FirstIsOne
<1> QED
  BY <1>1, <1>2, <1>3

LEMMA SsdpSaid ==
    ASSUME NEW ds \in Seq(Descriptions), NEW f \in Fields, ParseSsdp(ds)[f] # ""
    PROVE  \E k \in DOMAIN ds : ParseSsdp(ds)[f] \in {ds[k][g] : g \in DOMAIN ds[k] \ {"location"}}
<1> DEFINE all == {"location", "friendlyName", "modelDescription", "modelName", "manufacturer"}
           models == [k \in DOMAIN ds |-> IF ds[k].modelDescription # ""
                                          THEN ds[k].modelDescription ELSE ds[k].modelName]
<1>1. \A k \in DOMAIN ds : DOMAIN ds[k] = all
  <2>1. \A k \in DOMAIN ds : ds[k] \in Descriptions
    BY SeqDomain
  <2>2. \A d \in Descriptions : d \in [location : STRING, friendlyName : STRING, modelDescription : STRING,
                              modelName : STRING, manufacturer : STRING]
    BY ScannerAssumption
  <2> QED
    BY <2>1, <2>2
<1>2. CASE f = "name"
  <2>1. ParseSsdp(ds)[f] = First(Said(ds, "friendlyName"))
    BY <1>2 DEF ParseSsdp
  <2>2. PICK k \in DOMAIN ds : ParseSsdp(ds)[f] = ds[k]["friendlyName"]
    BY <2>1, FirstSaid
  <2> QED
    BY <1>1, <2>2
<1>3. CASE f = "manufacturer"
  <2>1. ParseSsdp(ds)[f] = First(Said(ds, "manufacturer"))
    BY <1>3 DEF ParseSsdp
  <2>2. PICK k \in DOMAIN ds : ParseSsdp(ds)[f] = ds[k]["manufacturer"]
    BY <2>1, FirstSaid
  <2> QED
    BY <1>1, <2>2
<1>4. CASE f = "model"
  <2>1. ParseSsdp(ds)[f] = First(models)
    BY <1>4 DEF ParseSsdp
  <2>2. DOMAIN ds = 1 .. Len(ds) /\ Len(ds) \in Nat /\ DOMAIN models = 1 .. Len(ds)
    BY SeqDomain
  <2>3. \A k \in DOMAIN ds : models[k] \in {ds[k]["modelDescription"], ds[k]["modelName"]}
    OBVIOUS
  <2>4. \E k \in DOMAIN models : First(models) = models[k]
    <3> HIDE DEF models
    <3> QED
      BY <2>1, <2>2, FirstIsOne
  <2>5. PICK k \in DOMAIN ds : ParseSsdp(ds)[f] \in {ds[k]["modelDescription"], ds[k]["modelName"]}
    BY <2>1, <2>2, <2>3, <2>4
  <2> QED
    BY <1>1, <2>5
<1> QED
  BY <1>2, <1>3, <1>4 DEF Fields

\* What is merged for an address.
LEMMA MergedOf ==
    ASSUME NEW a \in Scanned, mdns[a] # NoAnswer \/ services[a] # NoAnswer, NEW f \in Fields
    PROVE  /\ IF KnownOf(a, f) = {} THEN MergeInfo(a)[f] = "UNKNOWN" ELSE MergeInfo(a)[f] \in KnownOf(a, f)
           /\ mdns[a] = NoAnswer => MergeInfo(a)[f] \in {ParseSsdp(services[a])[f], "UNKNOWN"} \ {""}
<1> DEFINE p == ParseMdns(mdns[a])
           q == ParseSsdp(services[a])
           result == CASE services[a] = NoAnswer -> p
                       [] mdns[a] = NoAnswer     -> q
                       [] OTHER -> AddInfo(p, q)
<1>1. MergeInfo(a)[f] = IF result[f] = "" THEN "UNKNOWN" ELSE result[f]
  BY DEF MergeInfo
<1>2. KnownOf(a, f) = ((IF mdns[a] = NoAnswer THEN {} ELSE {p[f]})
                       \cup (IF services[a] = NoAnswer THEN {} ELSE {q[f]})) \ {""}
  BY DEF KnownOf
<1>3. AddInfo(p, q)[f] = IF q[f] # "" THEN q[f] ELSE p[f]
  BY DEF AddInfo
<1> HIDE DEF p, q
<1>4. result[f] = IF services[a] = NoAnswer THEN p[f]
                  ELSE IF mdns[a] = NoAnswer THEN q[f]
                  ELSE IF q[f] # "" THEN q[f] ELSE p[f]
  BY <1>3
<1> HIDE DEF result
<1>5. IF KnownOf(a, f) = {} THEN MergeInfo(a)[f] = "UNKNOWN" ELSE MergeInfo(a)[f] \in KnownOf(a, f)
  BY <1>1, <1>2, <1>4
<1>6. mdns[a] = NoAnswer => MergeInfo(a)[f] \in {q[f], "UNKNOWN"} \ {""}
  BY <1>1, <1>4
<1> QED
  BY <1>5, <1>6 DEF q

LEMMA SoundFromScannerInv == ScannerInv => ScannerSound
<1> SUFFICES ASSUME ScannerInv PROVE ScannerSound
  OBVIOUS
<1>1. \A r \in Results : r.ip \in Scanned /\ r.info = MergeInfo(r.ip)
        /\ (mdns[r.ip] # NoAnswer \/ services[r.ip] # NoAnswer)
  BY DEF ScannerInv, Merges
<1>2. FoundIsKept
  BY <1>1, MergedOf DEF FoundIsKept
<1>3. SaidThere
  <2> SUFFICES ASSUME NEW r \in Results, mdns[r.ip] = NoAnswer, NEW f \in Fields, r.info[f] # "UNKNOWN"
               PROVE  \E d \in heard[r.ip] : r.info[f] \in {d[g] : g \in DOMAIN d \ {"location"}}
    BY DEF SaidThere
  <2> DEFINE a == r.ip
             ds == services[a]
  <2>1. a \in Scanned /\ ds # NoAnswer /\ r.info[f] = ParseSsdp(ds)[f] /\ ParseSsdp(ds)[f] # ""
    BY <1>1, MergedOf
  <2>2. ds \in Seq(Descriptions) /\ \A k \in DOMAIN ds : ds[k] \in heard[a]
    BY <2>1 DEF ScannerInv, ReadAt
  <2>3. PICK k \in DOMAIN ds : ParseSsdp(ds)[f] \in {ds[k][g] : g \in DOMAIN ds[k] \ {"location"}}
    <3> HIDE DEF ds
    <3> QED
      BY <2>1, <2>2, SsdpSaid
  <2> QED
    BY <2>1, <2>2, <2>3
<1>4. OneEach
  BY DEF OneEach, ScannerInv, ReadAt
<1> QED
  BY <1>2, <1>3, <1>4 DEF ScannerSound

LEMMA InitScannerInv == ScannerInit => ScannerInv
BY DEF ScannerInit, ScannerInv, ScanAt, Results, ReadAt

LEMMA ReadOnce ==
    ASSUME NEW a, NEW d \in Descriptions, NEW readable \in BOOLEAN, NEW before, NEW after, ReadAt(a, services[a], before),
           before \subseteq after, readable => d \in after
    PROVE  ReadAt(a, Read(a, d, readable), after)
<1> DEFINE old == IF services[a] = NoAnswer THEN <<>> ELSE services[a]
<1>1. /\ old \in Seq(Descriptions) /\ \A k \in DOMAIN old : old[k] \in after
      /\ \A j, k \in DOMAIN old : old[j].location = old[k].location => j = k
  <2>1. CASE services[a] = NoAnswer
    <3>1. old = <<>>
      BY <2>1
    <3>2. <<>> \in Seq(Descriptions) /\ \A k \in DOMAIN <<>> : FALSE
      OBVIOUS
    <3> HIDE DEF old
    <3> QED
      BY <3>1, <3>2
  <2>2. CASE services[a] # NoAnswer
    BY <2>2 DEF ReadAt
  <2> QED
    BY <2>1, <2>2
<1>2. Read(a, d, readable) = IF readable /\ \A k \in DOMAIN old : old[k].location # d.location
                             THEN Append(old, d) ELSE old
  BY DEF Read
<1> HIDE DEF old
<1>3. CASE readable /\ \A k \in DOMAIN old : old[k].location # d.location
  <2> DEFINE new == Append(old, d)
  <2>1. /\ new \in Seq(Descriptions)
        /\ \A k \in DOMAIN new : (k \in DOMAIN old /\ new[k] = old[k]) \/ (k = Len(old) + 1 /\ new[k] = d)
    BY <1>1, AppendFacts
  <2> HIDE DEF new
  <2>2. \A j, k \in DOMAIN new : new[j].location = new[k].location => j = k
    BY <1>1, <1>3, <2>1
  <2>3. \A k \in DOMAIN new : new[k] \in after
    BY <1>1, <1>3, <2>1
  <2>4. Read(a, d, readable) = new
    BY <1>2, <1>3 DEF new
  <2> QED
    BY <2>1, <2>2, <2>3, <2>4 DEF ReadAt
<1>4. CASE ~(readable /\ \A k \in DOMAIN old : old[k].location # d.location)
  <2>1. Read(a, d, readable) = old
    BY <1>2, <1>4
  <2> QED
    BY <1>1, <2>1 DEF ReadAt
<1> QED
  BY <1>3, <1>4

LEMMA SsdpScanInv == ASSUME ScannerInv, SsdpScan PROVE ScannerInv'
<1>1. PICK answers \in [Scanned -> Descriptions \cup {NoAnswer}], readable \in SUBSET Scanned :
         /\ services' = [a \in Scanned |-> IF answers[a] = NoAnswer THEN services[a]
                                           ELSE Read(a, answers[a], a \in readable)]
         /\ heard' = [a \in Scanned |-> heard[a] \cup (IF a \in readable /\ answers[a] # NoAnswer THEN {answers[a]} ELSE {})]
  BY DEF SsdpScan
<1>2. ASSUME NEW a \in Scanned PROVE ReadAt(a, services'[a], heard'[a])
  <2>1. ReadAt(a, services[a], heard[a]) /\ heard[a] \subseteq heard'[a]
    BY <1>1 DEF ScannerInv
  <2>2. CASE answers[a] = NoAnswer
    <3>1. services'[a] = services[a]
      BY <1>1, <2>2
    <3> QED
      BY <2>1, <3>1 DEF ReadAt
  <2>3. CASE answers[a] # NoAnswer
    <3>1. services'[a] = Read(a, answers[a], a \in readable) /\ answers[a] \in Descriptions
          /\ (a \in readable) \in BOOLEAN /\ (a \in readable => answers[a] \in heard'[a])
      BY <1>1, <2>3
    <3> QED
      BY <2>1, <3>1, ReadOnce
  <2> QED
    BY <2>2, <2>3
<1>3. ScanAt(scan') /\ Results' = {}
  BY DEF SsdpScan, Gathered, ScanAt, ScannerInv, Results
<1> QED
  BY <1>1, <1>2, <1>3 DEF ScannerInv, SsdpScan

LEMMA MergesStay == ASSUME UNCHANGED <<mdns, services>> PROVE Merges' = Merges
BY DEF Merges, MergeInfo

LEMMA NextScannerInv == ASSUME ScannerInv, [ScannerNext]_scannerVars PROVE ScannerInv'
<1>1. CASE StartScan \/ ScanRaises
  <2>1. UNCHANGED <<mdns, services, heard>> /\ Results' = {}
    BY <1>1 DEF StartScan, ScanRaises, Results
  <2>2. ScanAt(scan')
    BY <1>1 DEF StartScan, ScanRaises, ScanAt
  <2> QED
    BY <2>1, <2>2 DEF ScannerInv
<1>2. CASE MdnsScan
  <2>1. UNCHANGED <<services, heard>> /\ DOMAIN mdns' = Scanned
    BY <1>2 DEF MdnsScan
  <2>2. ScanAt(scan') /\ Results' = {}
    BY <1>2 DEF MdnsScan, Gathered, ScanAt, ScannerInv, Results
  <2> QED
    BY <2>1, <2>2 DEF ScannerInv
<1>3. CASE Collect
  <2>1. UNCHANGED <<mdns, services, heard>> /\ scan' = [at |-> "report", results |-> Merges]
    BY <1>3 DEF Collect, Merges
  <2>2. Results' = Merges /\ ScanAt(scan')
    BY <2>1 DEF Results, ScanAt
  <2> QED
    BY <2>1, <2>2, MergesStay DEF ScannerInv
<1>4. CASE ReportFound
  <2>1. UNCHANGED <<mdns, services, heard>>
    BY <1>4 DEF ReportFound
  <2>2. ScanAt(scan') /\ Results' \subseteq Results
    <3>1. CASE scan.results = {}
      BY <1>4, <3>1 DEF ReportFound, ScanAt, Results
    <3>2. CASE scan.results # {}
      <4>1. PICK r \in scan.results : scan' = [scan EXCEPT !.results = @ \ {r}]
        BY <1>4, <3>2 DEF ReportFound
      <4>2. DOMAIN scan = {"at", "results"} /\ scan.at = "report"
        BY <1>4 DEF ReportFound, ScannerInv, ScanAt
      <4>3. DOMAIN scan' = {"at", "results"} /\ scan'.at = "report" /\ scan'.results = scan.results \ {r}
        BY <4>1, <4>2
      <4> QED
        BY <4>2, <4>3 DEF ScanAt, Results
    <3> QED
      BY <3>1, <3>2
  <2> QED
    BY <2>1, <2>2, MergesStay DEF ScannerInv
<1>5. CASE UNCHANGED scannerVars
  <2>1. UNCHANGED <<mdns, services, heard, scan>> /\ Results' = Results
    BY <1>5 DEF scannerVars, Results
  <2> QED
    BY <2>1, MergesStay DEF ScannerInv
<1> QED
  BY <1>1, <1>2, <1>3, <1>4, <1>5, SsdpScanInv DEF ScannerNext

\* Whatever a protocol found out is reported, and nothing that was not said at
\* this address; a location is read once (devicescanner.py, ssdpScanner.py).
THEOREM ScannerStaysSound == ScannerSpec => []ScannerSound
BY InitScannerInv, NextScannerInv, SoundFromScannerInv, PTL DEF ScannerSpec

-----------------------------------------------------------------------------
(* Together.  A step is one of the part that moves, or of none.            *)

WatchdogInv ==
    /\ part \in {"table", "report", "interception", "master", "log", "adblocker", "scanner"}
    /\ part = "table" => TableInv
    /\ part = "report" => ReportInv
    /\ part = "interception" => ICInv
    /\ part = "master" => MasterInv
    /\ part = "log" => LogInv
    /\ part = "adblocker" => AdblockInv
    /\ part = "scanner" => ScannerInv

LEMMA InitWatchdogInv == WatchdogInit => WatchdogInv
BY InitTableInv, InitReportInv, InitICInv, InitMasterInv, InitLogInv, InitAdblockInv, InitScannerInv
   DEF WatchdogInit, WatchdogInv

LEMMA NextWatchdogInv == ASSUME WatchdogInv, [WatchdogNext]_watchdogVars PROVE WatchdogInv'
<1>1. part' = part
  BY DEF WatchdogNext, watchdogVars, InTable, InReport, InMaster
<1>2. CASE part = "table"
  <2>1. TableInv /\ [TableNext]_tableVars
    BY <1>2 DEF WatchdogInv, WatchdogNext, watchdogVars, InTable, InReport, InMaster
  <2>2. TableInv'
    BY <2>1, NextTableInv, UnchangedTableInv
  <2> QED
    BY <1>1, <1>2, <2>2 DEF WatchdogInv
<1>3. CASE part = "report"
  <2>1. ReportInv /\ [ReportNext]_reportVars
    BY <1>3 DEF WatchdogInv, WatchdogNext, watchdogVars, InTable, InReport, InMaster
  <2>2. ReportInv'
    BY <2>1, NextReportInv, UnchangedReportInv
  <2> QED
    BY <1>1, <1>3, <2>2 DEF WatchdogInv
<1>4. CASE part = "interception"
  <2>1. ICInv /\ [InterceptionNext]_icVars
    BY <1>4 DEF WatchdogInv, WatchdogNext, watchdogVars, InTable, InReport, InMaster
  <2>2. ICInv'
    BY <2>1, NextICInv
  <2> QED
    BY <1>1, <1>4, <2>2 DEF WatchdogInv
<1>5. CASE part = "master"
  <2>1. MasterInv /\ [MasterNext]_masterVars
    BY <1>5 DEF WatchdogInv, WatchdogNext, watchdogVars, InTable, InReport, InMaster
  <2>2. MasterInv'
    BY <2>1, NextMasterInv
  <2> QED
    BY <1>1, <1>5, <2>2 DEF WatchdogInv
<1>6. CASE part = "log"
  <2>1. LogInv /\ [LogNext]_logVars
    BY <1>6 DEF WatchdogInv, WatchdogNext, watchdogVars, InTable, InReport, InMaster
  <2>2. LogInv'
    BY <2>1, NextLogInv
  <2> QED
    BY <1>1, <1>6, <2>2 DEF WatchdogInv
<1>7. CASE part = "adblocker"
  <2>1. AdblockInv /\ [AdblockNext]_adblockVars
    BY <1>7 DEF WatchdogInv, WatchdogNext, watchdogVars, InTable, InReport, InMaster
  <2>2. AdblockInv'
    BY <2>1, NextAdblockInv
  <2> QED
    BY <1>1, <1>7, <2>2 DEF WatchdogInv
<1>8. CASE part = "scanner"
  <2>1. ScannerInv /\ [ScannerNext]_scannerVars
    BY <1>8 DEF WatchdogInv, WatchdogNext, watchdogVars, InTable, InReport, InMaster
  <2>2. ScannerInv'
    BY <2>1, NextScannerInv
  <2> QED
    BY <1>1, <1>8, <2>2 DEF WatchdogInv
<1> QED
  BY <1>2, <1>3, <1>4, <1>5, <1>6, <1>7, <1>8 DEF WatchdogInv

LEMMA SettledFromWatchdogInv == WatchdogInv => WatchdogTypeOK /\ WatchdogSettled
<1> SUFFICES ASSUME WatchdogInv PROVE WatchdogTypeOK /\ WatchdogSettled
  OBVIOUS
<1>1. part \in {"table", "report", "interception", "master", "log", "adblocker", "scanner"}
  BY DEF WatchdogInv
<1>2. /\ part = "table" => TableTypeOK /\ TableSettled
      /\ part = "report" => ReportTypeOK /\ ReportSettled
      /\ part = "interception" => InterceptionTypeOK /\ InterceptionSettled
      /\ part = "master" => MasterTypeOK /\ MasterSettled
      /\ part = "log" => LogConserved
      /\ part = "adblocker" => AdblockSound
      /\ part = "scanner" => ScannerSound
  BY SettledFromTableInv, SettledFromReportInv, SettledFromICInv, SettledFromMasterInv, SoundFromAdblockInv,
     SoundFromScannerInv DEF WatchdogInv, LogInv
<1>3. WatchdogTypeOK
  BY <1>1, <1>2 DEF WatchdogTypeOK
<1>4. WatchdogSettled
  BY <1>1, <1>2 DEF WatchdogSettled
<1> QED
  BY <1>3, <1>4

\* The variables of every part stay in range and consistent with each other,
\* whatever events arrive in whatever order (module Watchdog and its parts).
THEOREM WatchdogTypes == WatchdogSpec => []WatchdogTypeOK
<1>1. WatchdogInv /\ [WatchdogNext]_watchdogVars => WatchdogInv'
  BY NextWatchdogInv
<1> QED
  BY <1>1, InitWatchdogInv, SettledFromWatchdogInv, PTL DEF WatchdogSpec

\* Every part keeps what it promises when nothing is under way in it: the table
\* has what was heard of every device, the cloud has the last report of it, the
\* filters follow the last orders, the modules know the last configuration, no
\* log message is lost, the adblocker and the scanner answer what they found.
THEOREM WatchdogStaysSettled == WatchdogSpec => []WatchdogSettled
<1>1. WatchdogInv /\ [WatchdogNext]_watchdogVars => WatchdogInv'
  BY NextWatchdogInv
<1> QED
  BY <1>1, InitWatchdogInv, SettledFromWatchdogInv, PTL DEF WatchdogSpec

=============================================================================
