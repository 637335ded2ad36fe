----------------------------- MODULE AddonSender -----------------------------
(***************************************************************************)
(* Packets that an addon sends itself (AddonFilterManager in modules/      *)
(* addon_manager.py): addon__send_packets corrects the receiver's MAC      *)
(* address, the UDP and TCP checksums (network/checksums.py) and sends the *)
(* fragments on a socket of the addon's process, which packet_sender opens *)
(* for the configuration that the node list brought, and opens again, five *)
(* seconds later at most, when that changed.  Node list, gateway and the   *)
(* lookup are those of the interceptor (module Packets), whose             *)
(* on_nodeconfig_event the process has a copy of.                          *)
(*                                                                         *)
(* A packet names its receiver (to), its protocol, its length, the words   *)
(* of addresses and datagram that the checksum covers besides, and sum.    *)
(* What the call returns for a failed lookup are the bytes of the packet,  *)
(* one by one ("errorset += sp"); here they stand for the packet.          *)
(***************************************************************************)
EXTENDS Packets

CONSTANTS
    AddonPackets,   \* the packets an addon may send
    MaxCalls        \* bound: calls of send_packets

ASSUME SenderAssumption == MaxCalls \in Nat

VARIABLES
    ready,      \* the process has had a node list
    stale,      \* __sender_reload
    sender,     \* __sender_s: "none", "open", "closed" (and still in place)
    task,       \* packet_sender: "waiting", "opening", "open"
    call,       \* the call of send_packets under way, or the last one
    calls       \* calls so far

senderVars == <<ready, stale, sender, task, call, calls>>

NoCall == [at |-> "idle", todo |-> <<>>, given |-> <<>>, sent |-> <<>>, errors |-> <<>>]

SenderInit ==
    /\ ready = FALSE /\ stale = FALSE /\ sender = "none" /\ task = "waiting"
    /\ call = NoCall /\ calls = 0

-----------------------------------------------------------------------------
(* fix_udp_checksum, fix_tcp_checksum: the pseudo header has the length,   *)
(* for UDP the one that its header holds, too.                             *)

Covered(p) == <<p.length>> \o p.words \o (IF p.proto = "udp" THEN <<p.length>> ELSE <<>>)

SumKept(p) == p.sum                                                  \* mutant
FixChecksum(p) == IF p.proto = "other" THEN p.sum ELSE Checksum(Covered(p))

-----------------------------------------------------------------------------
(* packet_sender and the node list.                                        *)

\* The first node list, or one with other addresses of the watchdog.
OnSenderConfig(known, bare, changed) ==
    /\ OnNodeconfig(known, bare, changed \/ ~ready)
    /\ ready' = TRUE /\ stale' = (stale \/ changed \/ ~ready)
    /\ UNCHANGED <<sender, task, call, calls>>

\* It waits for the logger before it opens a socket, and takes the addresses
\* that are there then.
BeginOpen ==
    /\ task = "waiting" /\ ready /\ task' = "opening"
    /\ UNCHANGED <<ready, stale, sender, call, calls, packetVars>>

OpenSender ==
    /\ task = "opening" /\ task' = "open"
    /\ sender' = "open" /\ stale' = FALSE
    /\ UNCHANGED <<ready, call, calls, packetVars>>

CloseSender ==
    /\ task = "open" /\ stale
    /\ task' = "waiting" /\ sender' = "closed"
    /\ UNCHANGED <<ready, stale, call, calls, packetVars>>

-----------------------------------------------------------------------------
(* addon__send_packets.                                                    *)

\* Without a socket the call returns no errors.
SendPackets(todo) ==
    /\ call.at # "sending" /\ calls < MaxCalls /\ calls' = calls + 1
    /\ call' = [NoCall EXCEPT !.at = IF sender = "none" THEN "nowhere" ELSE "sending",
                              !.todo = todo, !.given = todo]
    /\ UNCHANGED <<ready, stale, sender, task, packetVars>>

\* A failed lookup is noted; a device without an address or a socket that is
\* closed ends the call, and nobody reads the exception of its task.
SendOne ==
    /\ call.at = "sending" /\ call.todo # <<>>
    /\ LET p == Head(call.todo)
       IN call' = CASE SentTo(p.to) = "FailedLookup" ->
                         [call EXCEPT !.todo = Tail(@), !.errors = Append(@, p)]
                    [] SentTo(p.to) = "TypeError" -> [call EXCEPT !.at = "TypeError"]
                    [] OTHER ->
                         IF sender = "closed" THEN [call EXCEPT !.at = "OSError"]
                         ELSE [call EXCEPT !.todo = Tail(@),
                                 !.sent = Append(@, [p EXCEPT !.sum = FixChecksum(p)])]
    /\ UNCHANGED <<ready, stale, sender, task, calls, packetVars>>

SentAll ==
    /\ call.at = "sending" /\ call.todo = <<>>
    /\ call' = [call EXCEPT !.at = "returned"]
    /\ UNCHANGED <<ready, stale, sender, task, calls, packetVars>>

SenderNext ==
    \/ \E known \in SUBSET Hosts, changed \in BOOLEAN :
         \E bare \in SUBSET known : OnSenderConfig(known, bare, changed)
    \/ RouterReplaced /\ UNCHANGED senderVars
    \/ BeginOpen \/ OpenSender \/ CloseSender
    \/ \E p, q \in AddonPackets : SendPackets(<<p, q>>)
    \/ SendOne \/ SentAll

SenderSpec == SenderInit /\ PacketsInit /\ [][SenderNext]_<<senderVars, packetVars>>

-----------------------------------------------------------------------------
(* Properties.                                                             *)

\* What a call was given was sent or failed a lookup, each packet once, when it
\* has returned; a call that ended early sent a beginning.
EachPacketOnce ==
    /\ call.at = "returned" => Len(call.sent) + Len(call.errors) = Len(call.given)
    /\ \A i \in DOMAIN call.sent :
         \E k \in DOMAIN call.given : call.sent[i] = [call.given[k] EXCEPT !.sum = call.sent[i].sum]
    /\ call.at = "nowhere" => call.sent = <<>> /\ call.errors = <<>>

\* The checksum of every UDP and TCP packet that was sent verifies, unless the
\* carries carry.
SumsVerify ==
    \A i \in DOMAIN call.sent :
        LET p == call.sent[i]
            words == <<p.length>> \o p.words \o (IF p.proto = "udp" THEN <<p.length>> ELSE <<>>)
        IN p.proto = "other" \/ CarriesTwice(words) \/ Verifies(words, p.sum)

SenderSound == EachPacketOnce /\ SumsVerify

=============================================================================
