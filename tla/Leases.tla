------------------------------- MODULE Leases -------------------------------
(***************************************************************************)
(* The DHCP server (network/dhcp.py).  Every device gets a network of its  *)
(* own, 192.168.n.0/24 with the address 192.168.n.n, so that its traffic   *)
(* passes the watchdog; the octets n come from a larger network            *)
(* (192.168.0.0/18: n < 64).  The server handles one message at a time.    *)
(*                                                                         *)
(* options are those of the last answer; they travel as bytes and are read *)
(* by parse_options.  A byte is a number below Base, Base - 1 ends them.   *)
(***************************************************************************)
EXTENDS Naturals, FiniteSets, SequencesExt

CONSTANTS
    Clients,        \* MAC addresses
    Octets,         \* third octets of the network: 0 .. Octets - 1
    Base,           \* number of values of a byte
    Types,          \* types of options
    ValueBytes,     \* bytes of the options' values
    MaxValue,       \* bound: length of an option's value
    MaxOptions      \* bound: options set in an answer

ASSUME LeasesAssumption ==
    /\ Octets \in Nat \ {0} /\ Base \in Nat \ {0} /\ MaxValue \in 0 .. Base - 1
    /\ MaxOptions \in Nat /\ Types \subseteq 0 .. Base - 2 /\ ValueBytes \subseteq 0 .. Base - 1

VARIABLES
    leases,         \* LeaseDB.nodes
    answer,         \* the last answer
    options         \* its options: a dict, which keeps the order of insertion

leaseVars == <<leases, answer, options>>

NoAnswer == [type |-> "none"]

-----------------------------------------------------------------------------
(* Options.                                                                *)

\* DHCPOptions.__setitem__ on a dict, which keeps the place of a type it has.
SetOption(os, o) ==
    LET at == SelectInSeq(os, LAMBDA p : p.type = o.type)
    IN IF at = 0 THEN Append(os, o) ELSE [os EXCEPT ![at] = o]

\* The set_ methods, called by create_main_response and by the handlers: any types
\* and values in any order stand for the ones that they set.
Values == UNION {[1 .. n -> ValueBytes] : n \in 0 .. MaxValue}
Settings == BoundedSeq([type : Types, value : Values], MaxOptions)
SetAll(settings) == FoldLeft(SetOption, <<>>, settings)
OptionsSet == {SetAll(settings) : settings \in Settings}

End == Base - 1
IndexError == [type |-> End, value |-> <<>>]
Encode(os) == FoldLeft(LAMBDA bytes, o : bytes \o <<o.type, Len(o.value)>> \o o.value, <<>>, os) \o <<End>>

LengthOnly(data, pos) == pos + 1 + data[pos + 1]                     \* mutant
NextOption(data, pos) == pos + 2 + data[pos + 1]

\* parse_options, with positions from 1: an option that would pass the end is
\* dropped with what follows; a type without a length is an IndexError.
RECURSIVE ParseFrom(_, _)
ParseFrom(data, pos) ==
    CASE pos > Len(data) \/ data[pos] = End -> <<>>
      [] pos = Len(data) /\ data[pos] # End -> <<IndexError>>
      [] pos < Len(data) /\ data[pos] # End ->
           IF NextOption(data, pos) > Len(data) + 1 THEN <<>>
           ELSE <<[type |-> data[pos], value |-> SubSeq(data, pos + 2, NextOption(data, pos) - 1)]>>
                \o ParseFrom(data, NextOption(data, pos))

Parse(data) == ParseFrom(data, 1)

-----------------------------------------------------------------------------
(* The database.                                                           *)

AnyOctet == 1 .. Octets - 1                                          \* mutant

\* The octets that get_next_ip does not pass over; 0 is the router's.
FreeOctets == {n \in 1 .. Octets - 1 : \A i \in DOMAIN leases : leases[i].octet # n}

\* A lease for address 192.168.n.n, which is in the larger network.
Lease(c, n) == [mac |-> c, octet |-> n]

\* from_bytes, prepare_basic_offer: the fields of the question that the answer
\* repeats, with one hop more than a byte may be able to hold.
OneHopMore(hops) == hops + 1 < Base
MainResponse(type, c, hops) == [type |-> type, to |-> c, hops |-> hops + 1]

Failure(error, c) == answer' = [type |-> error, to |-> c] /\ UNCHANGED <<leases, options>>

\* handle_discover and handle_request of a question with too many hops.
TooManyHops(c, hops) == ~OneHopMore(hops) /\ Failure("ValueError", c)

\* handle_discover: a lease for every discover, whatever the client has already.
\* Without a free address next_free_octet fails on None before the test for it.
Discover(c, hops) ==
    /\ OneHopMore(hops)
    /\ \/ FreeOctets = {} /\ Failure("TypeError", c)
       \/ /\ FreeOctets # {}
          /\ LET n == Min(FreeOctets)
             IN /\ leases' = Append(leases, Lease(c, n))
                /\ answer' = MainResponse("OFFER", c, hops) @@ [octet |-> n]
          /\ options' \in OptionsSet

\* handle_request: the address asked for is not looked at, and not in the answer.
Request(c, hops) ==
    /\ OneHopMore(hops)
    /\ answer' = MainResponse("ACK", c, hops)
    /\ options' \in OptionsSet
    /\ UNCHANGED leases

\* handle_client: any other message of a client is answered with a packet of
\* zeroes, and so are the answers of other servers.
OtherMessage(c) ==
    /\ answer' = [type |-> "zeroes", to |-> c] /\ options' = <<>>
    /\ UNCHANGED leases

-----------------------------------------------------------------------------
LeasesInit == leases = <<>> /\ answer = NoAnswer /\ options = <<>>

LeasesNext ==
    \/ \E c \in Clients, hops \in {0, Base - 1} :
         Discover(c, hops) \/ Request(c, hops) \/ TooManyHops(c, hops)
    \/ \E c \in Clients : OtherMessage(c)

LeasesSpec == LeasesInit /\ [][LeasesNext]_leaseVars

-----------------------------------------------------------------------------
(* Properties.                                                             *)

\* No two devices are ever in the same network, whatever the order of their
\* messages, and none is turned away while there is a network nobody was offered.
NetworksApart ==
    /\ \A i, j \in DOMAIN leases : leases[i].octet = leases[j].octet => i = j
    /\ answer.type = "TypeError" => Len(leases) = Octets - 1
    /\ answer.type = "OFFER" => Last(leases) = Lease(answer.to, answer.octet)

\* The device reads the options it was sent.  Of a message that was cut it reads
\* none it was not sent, unless the cut is right behind the type of an option.
OptionsSurvive ==
    LET bytes == Encode(options)
    IN \A n \in 0 .. Len(bytes) :
         LET read == Parse(SubSeq(bytes, 1, n))
         IN /\ n = Len(bytes) => read = options
            /\ \/ IsPrefix(read, options)
               \/ read # <<>> /\ Last(read) = IndexError /\ IsPrefix(Front(read), options)

LeasesSound == NetworksApart /\ OptionsSurvive

=============================================================================
