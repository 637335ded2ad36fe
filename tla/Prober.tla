------------------------------- MODULE Prober -------------------------------
(***************************************************************************)
(* Addresses and networks (network/utils.py), and the ARP prober           *)
(* (modules/arp_probe.py) that goes through the watchdog's network with    *)
(* them: it asks for every address that is not in the node list.           *)
(*                                                                         *)
(* Two tasks of the prober share conf and reload: reload_netconfig reads   *)
(* the configuration of the machine (network/discovery.py), at most every  *)
(* thirty seconds; prober opens a socket for it and sends one round of     *)
(* requests after the other, until there is a new one.  A send error,      *)
(* which ends the module, is left out.  An address is a number.            *)
(***************************************************************************)
EXTENDS Naturals, FiniteSets, SequencesExt

CONSTANTS
    AddressBits,    \* bits of an address (32)
    RangeBits,      \* bits of a network's range where it is serialized (6)
    NameLength,     \* bytes of an interface's name where it is serialized (30)
    Configs,        \* [box, net]: configurations the machine may have
    NoRoutes,       \* none: get_netconfig returns None
    MaxMoves        \* bound: changes of the configuration

NetSize(net) == 2 ^ (AddressBits - net.range)

\* Routes name a network by its first address.
ASSUME ProberAssumption ==
    /\ AddressBits \in Nat /\ NameLength \in Nat \ {0} /\ AddressBits < 2 ^ RangeBits
    /\ \A c \in Configs : /\ c.net.range \in 0 .. AddressBits
                          /\ c.net.ip < 2 ^ AddressBits /\ c.net.ip % NetSize(c.net) = 0
    /\ NoRoutes \notin Configs /\ MaxMoves \in Nat

VARIABLES
    machine,    \* the configuration of the machine
    read,       \* self.conf
    reload,     \* self.reload
    prober,     \* where prober() is: conf its configuration, round what it has
                \* yet to send in this round, asked what it has sent
    nodes,      \* config_xnodes
    knew,       \* the nodes when the round began
    moves,      \* changes so far
    blind       \* history: it has read from a machine without routes

proberVars == <<machine, read, reload, prober, nodes, knew, moves, blind>>

-----------------------------------------------------------------------------
(* Networks.                                                               *)

InNetwork(net, a) == a > net.ip /\ a < net.ip + NetSize(net) - 1
Broadcast(net) == net.ip + NetSize(net) - 1
Netmask(net) == 2 ^ AddressBits - 1 - (NetSize(net) - 1)

GeneratorFromZero(net) == [i \in 1 .. NetSize(net) - 2 |-> net.ip + i - 1]   \* mutant
Generator(net) == [i \in 1 .. NetSize(net) - 2 |-> net.ip + i]

Serialize(net) == net.ip * 2 ^ RangeBits + net.range
Unserialize(i) == [ip |-> i \div 2 ^ RangeBits, range |-> i % 2 ^ RangeBits]

\* An interface's name is padded with zeroes; the last byte is not read.
SerializeName(name) == name \o [i \in 1 .. NameLength - Len(name) |-> 0]
UnserializeName(bytes) ==
    LET read29 == SubSeq(bytes, 1, NameLength - 1) \o <<0>>
    IN SubSeq(read29, 1, SelectInSeq(read29, LAMBDA b : b = 0) - 1)

\* arp_packet: a request for address a to everybody.
ProbeFor(c, a) == [operation |-> 1, spa |-> c.box, tpa |-> a]

-----------------------------------------------------------------------------
ProberInit ==
    /\ machine \in Configs \cup {NoRoutes} /\ read = NoRoutes /\ reload = FALSE
    /\ prober = [at |-> "waiting"]
    /\ nodes = {} /\ knew = {} /\ moves = 0 /\ blind = FALSE

\* The machine gets another address, loses its routes, or has some at last.
Moved ==
    /\ moves < MaxMoves /\ moves' = moves + 1
    /\ \E c \in (Configs \cup {NoRoutes}) \ {machine} : machine' = c
    /\ UNCHANGED <<read, reload, prober, nodes, knew, blind>>

OnNodes(ns) ==
    /\ ns # nodes /\ nodes' = ns
    /\ UNCHANGED <<machine, read, reload, prober, knew, moves, blind>>

\* What `ip route show` and the interfaces say now; None without routes.
GetNetconfig == machine

\* reload_netconfig: without routes there is no configuration, and reload is
\* set all the same.
ReloadNetconfig ==
    /\ ~reload
    /\ read' = GetNetconfig /\ reload' = TRUE
    /\ blind' = (blind \/ GetNetconfig = NoRoutes)
    /\ UNCHANGED <<machine, prober, nodes, knew, moves>>

\* `while not self.conf`, the socket; then the logger is awaited.
OpenSocket ==
    /\ prober.at = "waiting" /\ read # NoRoutes
    /\ prober' = [at |-> "opening", conf |-> read]
    /\ UNCHANGED <<machine, read, reload, nodes, knew, moves, blind>>

\* A round: the requests are made at its beginning.
StartRound(c) ==
    /\ prober' = [at |-> "sweeping", conf |-> c, asked |-> <<>>,
                  round |-> SelectSeq(Generator(c.net), LAMBDA a : a \notin nodes \cup {c.box})]
    /\ knew' = nodes
    /\ UNCHANGED <<machine, read, nodes, moves, blind>>

\* What was set while the logger was awaited is overwritten.
FirstRound == prober.at = "opening" /\ reload' = FALSE /\ StartRound(prober.conf)
NextRound  == prober.at = "resting" /\ ~reload /\ StartRound(prober.conf) /\ UNCHANGED reload

SendRequest ==
    /\ prober.at = "sweeping"
    /\ prober' = IF prober.round = <<>> THEN [prober EXCEPT !.at = "resting"]
                 ELSE [prober EXCEPT !.round = Tail(@),
                         !.asked = Append(@, ProbeFor(prober.conf, Head(prober.round)))]
    /\ UNCHANGED <<machine, read, reload, nodes, knew, moves, blind>>

CloseSocket ==
    /\ prober.at = "resting" /\ reload
    /\ prober' = [at |-> "waiting"]
    /\ UNCHANGED <<machine, read, reload, nodes, knew, moves, blind>>

ProberNext ==
    \/ Moved \/ \E c \in Configs, k \in 0 .. 1 : OnNodes({c.box} \cup {c.net.ip + i : i \in 1 .. 2 * k})
    \/ ReloadNetconfig \/ OpenSocket \/ FirstRound \/ NextRound \/ SendRequest \/ CloseSocket

ProberSpec == ProberInit /\ [][ProberNext]_proberVars

-----------------------------------------------------------------------------
(* Properties.                                                             *)

\* The hosts of a network: what has its prefix, except the first and the last.
HostsOf(net) ==
    {a \in 0 .. 2 ^ AddressBits - 1 : a \div NetSize(net) = net.ip \div NetSize(net)}
    \ {net.ip, Broadcast(net)}

\* Membership, the generator, the mask and the serialized form agree on what a
\* network is; names of at most NameLength - 1 bytes survive.
NetworksAgree ==
    \A c \in Configs :
        LET net == c.net
        IN /\ HostsOf(net) = {a \in 0 .. 2 ^ AddressBits - 1 : InNetwork(net, a)}
           /\ Netmask(net) + NetSize(net) = 2 ^ AddressBits
           /\ Unserialize(Serialize(net)) = net
           /\ \A n \in 0 .. NameLength :
                (UnserializeName(SerializeName([i \in 1 .. n |-> 1])) = [i \in 1 .. n |-> 1])
                    = (n < NameLength)

\* A round asks, in the name of the box, for every host of the network that was
\* not known when it began, each of them once, and for nothing else.
RoundComplete ==
    prober.at = "resting" =>
        LET c == prober.conf
        IN /\ IsInjective(prober.asked)
           /\ ToSet(prober.asked) = {ProbeFor(c, a) : a \in HostsOf(c.net) \ (knew \cup {c.box})}

\* While it has no configuration the prober goes on reading it, unless it read it
\* from a machine without routes: then it waits for ever.
\* (blind: it has read from a machine without routes.)
WaitsForRoutes == prober.at = "waiting" /\ read = NoRoutes /\ ~blind => ~reload

ProberSound == NetworksAgree /\ RoundComplete /\ WaitsForRoutes

=============================================================================
