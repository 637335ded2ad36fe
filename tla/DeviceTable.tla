---------------------------- MODULE DeviceTable ----------------------------
(***************************************************************************)
(* How the watchdog knows the devices of its network: the ARP listener     *)
(* (modules/arp_listener.py) keeps an address per device and broadcasts    *)
(* all of them every five seconds; device identification                   *)
(* (modules/deviceid.py) keeps a table of devices, attaches to them what   *)
(* the DHCP listener and the device scanner learn about an address, which  *)
(* may be before it knows the device, and reports new and changed devices  *)
(* to the bridge.                                                          *)
(*                                                                         *)
(* Every event has a handler of its own (EventListener.listen), and each   *)
(* first waits for the logger, so they start in any order; they suspend    *)
(* where they report a device and interleave there.  A Device object is    *)
(* the same in all indexes and keeps its MAC address, so the indexes hold  *)
(* MACs here.  A name stands for everything that is learnt of an address.  *)
(***************************************************************************)
EXTENDS Naturals, Sequences

CONSTANTS
    Macs, Addrs, Names,
    None,           \* Python's None
    Slots,          \* bound: as many handlers run at once
    MaxReplies      \* bound: ARP replies with something new

ASSUME TableAssumption ==
    /\ None \notin Macs \cup Addrs \cup Names \cup [ip : Addrs, name : Names \cup {None}]
    /\ MaxReplies \in Nat

VARIABLES
    cache,      \* the ARP listener's MultiArpCache: pairs of device and address
    replies,    \* ARP replies so far that changed it
    byId,       \* by_id: per device None, or what is known about it
    byIp,       \* by_ipv4: per address the device last added under it
    data,       \* pending_data: per address what waits for a device
    raw,        \* pending_data: whether anything of the DHCP listener waits in it
    handler,    \* the handlers of device identification
    last,       \* per device, what was reported last
    masked      \* devices whose change was hidden by data that changed nothing

tableVars == <<cache, replies, byId, byIp, data, raw, handler, last, masked>>

Device == [ip : Addrs, name : Names \cup {None}]
Idle   == [at |-> "idle"]

TableInit ==
    /\ cache = <<>> /\ replies = 0
    /\ byId = [m \in Macs |-> None] /\ last = [m \in Macs |-> None]
    /\ byIp = [a \in Addrs |-> None] /\ data = [a \in Addrs |-> None]
    /\ raw = FALSE /\ masked = {}
    /\ handler = [h \in Slots |-> Idle]

-----------------------------------------------------------------------------
(* The ARP listener.                                                       *)

KnownAt(m) == {k \in DOMAIN cache : cache[k][1] = m}

\* A reply from a device that is new, or has another address, makes a new
\* nodeconfig.  (An entry also counts as new after an hour, but all of them
\* carry the time of the configuration and so are equally old.)
ArpReply(m, a) ==
    /\ replies < MaxReplies /\ replies' = replies + 1
    /\ \A k \in KnownAt(m) : cache[k][2] # a
    /\ cache' = IF KnownAt(m) = {} THEN Append(cache, <<m, a>>)
                ELSE [cache EXCEPT ![CHOOSE k \in KnownAt(m) : TRUE] = <<m, a>>]
    /\ UNCHANGED <<byId, byIp, data, raw, handler, last, masked>>

-----------------------------------------------------------------------------
(* Handlers.  One has nodes to add; one that is suspended reports a device *)
(* and goes on: "new" in the middle of add ("sent" when the event is in    *)
(* the queue), "updated" at its end.                                       *)

Run(nodes) == IF nodes = <<>> THEN Idle ELSE [at |-> "run", nodes |-> nodes]
Reporting(at, m, nodes) == [at |-> at, mac |-> m, nodes |-> nodes]
Becomes(h, r) == handler' = [handler EXCEPT ![h] = r]

\* The end of add for device m, which is d by now: it is entered under its
\* address and takes up the data that waits there; then only what this data
\* changed decides whether the device is reported.
ReportLost(h, m, d, updated, waiting, rest) ==                       \* mutant
    /\ byIp' = [byIp EXCEPT ![d.ip] = m]
    /\ byId' = [byId EXCEPT ![m] = IF waiting[d.ip] = None THEN d
                                   ELSE [d EXCEPT !.name = waiting[d.ip]]]
    /\ data' = [waiting EXCEPT ![d.ip] = None]
    /\ Becomes(h, IF updated THEN Reporting("updated", m, rest) ELSE Run(rest))
    /\ UNCHANGED masked

Finish(h, m, d, updated, waiting, rest) ==
    LET applied == waiting[d.ip] # None
        new     == IF applied THEN [d EXCEPT !.name = waiting[d.ip]] ELSE d
        report  == IF applied THEN new # d ELSE updated
    IN /\ byIp' = [byIp EXCEPT ![d.ip] = m]
       /\ byId' = [byId EXCEPT ![m] = new]
       /\ data' = [waiting EXCEPT ![d.ip] = None]
       /\ masked' = IF applied /\ updated /\ ~report THEN masked \cup {m} ELSE masked
       /\ Becomes(h, IF report THEN Reporting("updated", m, rest) ELSE Run(rest))

\* A slot for the next handler: which one makes no difference.
Free(h) == handler[h] = Idle /\ h = CHOOSE s \in Slots : handler[s] = Idle

\* The broadcast of the nodeconfig, every five seconds.
OnNodeconfig(h) ==
    /\ Free(h) /\ cache # <<>>
    /\ Becomes(h, Run(cache))
    /\ UNCHANGED <<cache, replies, byId, byIp, data, raw, last, masked>>

\* A device that is known takes the address of the node over.
AddressKept(m, a) == byId[m]                                         \* mutant
Merged(m, a) == [byId[m] EXCEPT !.ip = a]

\* The next node.  Ten minutes after its last update (due) a known device
\* counts as updated anyway.
AddNode(h, due) ==
    /\ handler[h].at = "run"
    /\ LET m == Head(handler[h].nodes)[1]
           a == Head(handler[h].nodes)[2]
           rest == Tail(handler[h].nodes)
       IN IF byId[m] = None
          THEN /\ ~due
               /\ byId' = [byId EXCEPT ![m] = [ip |-> a, name |-> None]]
               /\ Becomes(h, Reporting("new", m, rest))
               /\ UNCHANGED <<byIp, data, masked>>
          ELSE Finish(h, m, Merged(m, a), due \/ Merged(m, a) # byId[m], data, rest)
    /\ UNCHANGED <<cache, replies, raw, last>>

\* register_new_device: what is reported is the device as it is by now.
Report(h) ==
    /\ handler[h].at \in {"new", "updated"}
    /\ LET m == handler[h].mac
       IN /\ last' = [last EXCEPT ![m] = byId[m]]
          /\ masked' = masked \ {m}
    /\ Becomes(h, IF handler[h].at = "new" THEN [handler[h] EXCEPT !.at = "sent"]
                  ELSE Run(handler[h].nodes))
    /\ UNCHANGED <<cache, replies, byId, byIp, data, raw>>

AddResumes(h) ==
    /\ handler[h].at = "sent"
    /\ LET m == handler[h].mac IN Finish(h, m, byId[m], TRUE, data, handler[h].nodes)
    /\ UNCHANGED <<cache, replies, raw, last>>

\* The device scanner has found something out about an address: it waits
\* there, and the device last added under the address is added once more.
OnNetdisco(h, a, n) ==
    /\ Free(h)
    /\ LET waiting == [data EXCEPT ![a] = n]
           m == byIp[a]
       IN IF m = None
          THEN data' = waiting /\ UNCHANGED <<byId, byIp, handler, masked>>
          ELSE Finish(h, m, byId[m], FALSE, waiting, <<>>)
    /\ UNCHANGED <<cache, replies, raw, last>>

\* The DHCP listener has: it names the address by its four bytes, by which no
\* device is ever found, so the data stays.
OnDhcp ==
    /\ raw' = TRUE
    /\ UNCHANGED <<cache, replies, byId, byIp, data, handler, last, masked>>

-----------------------------------------------------------------------------

HandlerStep(h) == (\E due \in BOOLEAN : AddNode(h, due)) \/ Report(h) \/ AddResumes(h)

TableNext ==
    \/ \E m \in Macs, a \in Addrs : ArpReply(m, a)
    \/ \E h \in Slots :
         \/ OnNodeconfig(h) \/ HandlerStep(h)
         \/ \E a \in Addrs, n \in Names : OnNetdisco(h, a, n)
    \/ OnDhcp

\* A task that can run does, and the broadcast is repeated for ever.
TableFairness ==
    /\ \A h \in Slots : WF_tableVars(HandlerStep(h))
    /\ WF_tableVars(\E h \in Slots : OnNodeconfig(h))

TableSpec == TableInit /\ [][TableNext]_tableVars /\ TableFairness

-----------------------------------------------------------------------------
(* Properties.                                                             *)

TableTypeOK ==
    /\ byId \in [Macs -> Device \cup {None}] /\ last \in [Macs -> Device \cup {None}]
    /\ byIp \in [Addrs -> Macs \cup {None}] /\ data \in [Addrs -> Names \cup {None}]
    /\ raw \in BOOLEAN /\ masked \subseteq Macs

Quiet == \A h \in Slots : handler[h] = Idle

\* Between two events the bridge has been told of every device as it is now,
\* however handlers overtook each other: unless a device moved, or its ten
\* minutes were over, just when data was waiting that told nothing new.
EveryChangeReported ==
    Quiet => \A m \in Macs : last[m] = byId[m] \/ m \in masked

\* Between two events data only waits at an address that no device was added
\* under, or whose last one has moved away (by_ipv4 keeps it).
DataTakenUp ==
    Quiet => \A a \in Addrs :
               data[a] # None => byIp[a] = None \/ byId[byIp[a]].ip # a

TableSettled == EveryChangeReported /\ DataTakenUp

\* When no device moves any more the table has, for good, the addresses of the
\* ARP cache, although handlers of older broadcasts may finish after newer ones.
TableCatchesUp ==
    <>[](\A k \in DOMAIN cache :
           /\ byId[cache[k][1]] # None
           /\ byId[cache[k][1]].ip = cache[k][2])

=============================================================================
