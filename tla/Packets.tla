------------------------------ MODULE Packets ------------------------------
(***************************************************************************)
(* What happens to a packet on its way through the watchdog: the Ethernet  *)
(* header is corrected (network/correct.py), the packet is cut into        *)
(* fragments (network/packet.py) and every fragment gets a new checksum    *)
(* (network/checksums.py).                                                 *)
(*                                                                         *)
(* A behaviour is one datagram of Total bytes that is forwarded, perhaps   *)
(* by several watchdogs with smaller and smaller frames, while node lists  *)
(* arrive.  A datagram with IP options is left out: fragment() takes the   *)
(* options for payload, and no fragment but the first then has any.        *)
(***************************************************************************)
EXTENDS Integers, FiniteSets, SequencesExt

CONSTANTS
    Width,          \* bits of a word (16)
    Unit,           \* bytes that a fragment offset counts (8)
    Total,          \* bytes of the datagram's payload
    Sizes,          \* chunk sizes
    HeaderLength,   \* bytes of the header (20)
    Others,         \* words: the part of the header that stays
    Hosts,          \* addresses of the network
    Router,         \* one of them: the gateway
    Outside,        \* an address outside the network
    RouterMacs,     \* MAC addresses the gateway may have
    NoMac           \* None in place of an address

Word    == 2 ^ Width
Offsets == 2 ^ (Width - 3)      \* the flags are the upper three bits

ASSUME PacketsAssumption ==
    /\ Width \in Nat /\ Width > 3 /\ Unit \in Nat \ {0} /\ Total \in Nat
    /\ \A s \in Sizes : s \in Nat \ {0} /\ s % Unit = 0
    /\ Total < Unit * Offsets /\ Total + HeaderLength < Word
    /\ Others \subseteq 0 .. Word - 1
    /\ Router \in Hosts /\ Outside \notin Hosts
    /\ NoMac \notin RouterMacs \cup {<<"mac", h>> : h \in Hosts}

VARIABLES
    pieces,     \* fragments of the datagram: from and upto are what they carry,
                \* word holds flags and offset, sum the checksum (-1: the sender's)
    macs,       \* the interceptor's node list: MAC addresses of known devices
    gateway,    \* the gateway's MAC address
    conf        \* the one the interceptor uses

packetVars == <<pieces, macs, gateway, conf>>

-----------------------------------------------------------------------------
(* Checksums.                                                              *)

SumOf(words) == FoldLeft(LAMBDA n, w : n + w, 0, words)
FoldedNever(n) == n                                                  \* mutant
FoldedOnce(n) == (n % Word) + (n \div Word)

\* ocooc adds the carries once, and cuts off what that carries.
Checksum(words) == Word - 1 - (FoldedOnce(SumOf(words)) % Word)

CarriesTwice(words) == (SumOf(words) % Word) + (SumOf(words) \div Word) >= Word

\* RFC 1071: the one's complement sum of words and checksum is all ones.
Verifies(words, sum) == SumOf(words) + sum > 0 /\ (SumOf(words) + sum) % (Word - 1) = 0

-----------------------------------------------------------------------------
(* Fragments.                                                              *)

More(word)  == (word \div Offsets) % 2
DontFragment == 2 * Offsets
HeaderOf(p) == <<p.upto - p.from + HeaderLength, p.word, p.other>>

IsIpFragment(p) == p.word \notin {0, DontFragment, 4 * Offsets}

\* "(fo & 0b10) != 0": meant for the flag, it looks at a bit of the offset.
LeftWhole(p, size) == p.upto - p.from <= size \/ (p.word \div 2) % 2 = 1

FromZero(p, i, size) == i * (size \div Unit)                         \* mutant
OffsetOf(p, i, size) == (p.word % Offsets) + i * (size \div Unit)

Chunk(p, i, size, n) ==
    LET last == i = n - 1
        word == OffsetOf(p, i, size) + Offsets * (IF last THEN More(p.word) ELSE 1)
        new  == [from |-> p.from + i * size,
                 upto |-> IF last THEN p.upto ELSE p.from + (i + 1) * size,
                 word |-> word, other |-> p.other, sum |-> 0]
    IN [new EXCEPT !.sum = Checksum(HeaderOf(new))]

Fragment(p, size) ==
    LET n == (p.upto - p.from + size - 1) \div size
    IN IF LeftWhole(p, size) THEN {p} ELSE {Chunk(p, i, size, n) : i \in 0 .. n - 1}

Forward(p, size) ==
    /\ ~LeftWhole(p, size)
    /\ pieces' = (pieces \ {p}) \cup Fragment(p, size)
    /\ UNCHANGED <<macs, gateway, conf>>

-----------------------------------------------------------------------------
(* Ethernet addresses.  A device's own is written <<"mac", address>>.      *)

MacOf(h) == IF h = Router THEN gateway ELSE <<"mac", h>>

\* A node list, with no address for those in bare.  The lookup below provides for
\* these, although the ARP listener's own entries have one (ArpNode asserts it).
Listed(nodes, bare) == [h \in nodes |-> IF h \in bare THEN NoMac ELSE MacOf(h)]

\* The lookup of correct_ethernet_header_receive, for sender and receiver.
Looked(h) ==
    CASE h \in DOMAIN macs -> IF macs[h] = NoMac THEN conf ELSE macs[h]
      [] h \notin DOMAIN macs /\ h \in Hosts -> "FailedLookup"
      [] OTHER -> conf

GatewayForAll(h) == conf                                             \* mutant
\* correct_ethernet_header_send: "dst_mac == gateway_mac" also holds for the
\* gateway's own address, which is then a failed lookup.  It does not look for
\* a missing one, which cannot be added to the rest of the header.
SentTo(h) ==
    LET mac == IF h \in DOMAIN macs THEN macs[h] ELSE conf
    IN CASE mac = NoMac -> "TypeError"
         [] mac = conf /\ h \in Hosts -> "FailedLookup"
         [] OTHER -> mac

\* on_nodeconfig_event: the nodes are taken always, the gateway only when
\* the watchdog's own addresses or its device changed.
OnNodeconfig(nodes, bare, ownChanged) ==
    /\ macs' = Listed(nodes, bare)
    /\ conf' = IF ownChanged THEN gateway ELSE conf
    /\ UNCHANGED <<pieces, gateway>>

RouterReplaced == \E m \in RouterMacs \ {gateway} : gateway' = m /\ UNCHANGED <<pieces, macs, conf>>

-----------------------------------------------------------------------------
Arrived(from, upto, word, other) ==
    [from |-> from, upto |-> upto, word |-> word, other |-> other, sum |-> -1]

\* The sender, or a router before us, may have cut the datagram already.
PacketsInit ==
    /\ \E other \in Others :
         \/ \E word \in {0, DontFragment} : pieces = {Arrived(0, Total, word, other)}
         \/ \E k \in {j \in 1 .. Offsets - 1 : j * Unit < Total} :
              pieces = {Arrived(0, k * Unit, Offsets, other), Arrived(k * Unit, Total, k, other)}
    /\ gateway \in RouterMacs /\ conf = gateway
    /\ \E nodes \in SUBSET Hosts : \E bare \in SUBSET nodes : macs = Listed(nodes, bare)

PacketsNext ==
    \/ \E p \in pieces, size \in Sizes : Forward(p, size)
    \/ \E nodes \in SUBSET Hosts, own \in BOOLEAN :
         \E bare \in SUBSET nodes : OnNodeconfig(nodes, bare, own)
    \/ RouterReplaced

PacketsSpec == PacketsInit /\ [][PacketsNext]_packetVars

-----------------------------------------------------------------------------
(* Properties.                                                             *)

\* Whoever reassembles the fragments gets the datagram: every byte once, every
\* fragment where its offset says, and only the last without "more fragments".
Reassembles ==
    /\ \A p \in pieces :
         /\ p.from = Unit * (p.word % Offsets)
         /\ (More(p.word) = 1) = (p.upto < Total)
         /\ IsIpFragment(p) = (Cardinality(pieces) > 1)
    /\ \A b \in 0 .. Total - 1 : Cardinality({p \in pieces : p.from <= b /\ b < p.upto}) = 1

\* The checksum of every fragment is right, unless adding the carries carries.
ChecksumsVerify ==
    \A p \in pieces :
        p.sum = -1 \/ CarriesTwice(HeaderOf(p)) \/ Verifies(HeaderOf(p), p.sum)

\* A packet for a known device goes to that device and one for the outside to the
\* gateway, nothing else; what cannot be sent is dropped rather than misdirected.
\* A device without an address is shown with the gateway's, and nothing is sent to it.
\* Left out: a gateway replaced since the watchdog's own address changed, and packets
\* for the gateway itself, which are dropped whenever it is known.
NextHopRight ==
    conf = gateway =>
        /\ \A h \in DOMAIN macs \ {Router} :
             IF macs[h] = NoMac THEN Looked(h) = gateway /\ SentTo(h) = "TypeError"
             ELSE SentTo(h) = MacOf(h) /\ Looked(h) = MacOf(h)
        /\ SentTo(Outside) = gateway /\ Looked(Outside) = gateway
        /\ \A h \in Hosts \ {Router} : SentTo(h) \in {MacOf(h), "FailedLookup", "TypeError"}

PacketsSound == Reassembles /\ ChecksumsVerify /\ NextHopRight

=============================================================================
