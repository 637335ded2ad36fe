---------------------------- MODULE SocketFilters ----------------------------
(***************************************************************************)
(* The filters of network/bpf.py that are written as programs of the       *)
(* kernel's packet filter, and a machine that runs them: load a field,     *)
(* take it modulo a number, jump on equality, accept or reject.  The ARP   *)
(* listener uses the first one; the other two are kept beside it for the   *)
(* sockets of several workers and of the DHCP server.                      *)
(*                                                                         *)
(* A frame is a record of the fields the programs load; a MAC address      *)
(* stands for the word of its first bytes, which is a pair of bytes here.  *)
(***************************************************************************)
EXTENDS Naturals, Sequences

CONSTANTS
    HalfWords,      \* values of a byte of a MAC address
    OwnWord,        \* the watchdog's: <<first, second>>
    Workers,        \* modulo: number of workers that share the packets
    Sums            \* values of the low byte of a header's checksum

ASSUME SocketAssumption ==
    /\ HalfWords \subseteq Nat /\ OwnWord \in HalfWords \X HalfWords
    /\ Workers \in Nat \ {0} /\ Sums \subseteq Nat

VARIABLE frame      \* the frame that arrived last

ArpFrames == [src : HalfWords \X HalfWords, type : {2048, 2054}, op : {1, 2}]
IpFrames  == [dst : {"own", "127.0.0.1", "255.255.255.255", "224.0.0.251", "0.0.0.0", "host"},
              ipsrc : {"own", "127.0.0.1", "255.255.255.255", "0.0.0.0", "host"},
              sum : Sums, proto : {6, 17}, port : {53, 67}]

-----------------------------------------------------------------------------
(* The machine.  Jumps are relative to the next instruction.               *)

Ld(field)      == [op |-> "ld", field |-> field]
Mod(n)         == [op |-> "mod", n |-> n]
Jeq(k, jt, jf) == [op |-> "jeq", k |-> k, jt |-> jt, jf |-> jf]
Ret(pass)      == [op |-> "ret", pass |-> pass]

RECURSIVE RunFrom(_, _, _, _)
RunFrom(program, pc, acc, f) ==
    LET i == program[pc]
    IN CASE i.op = "ld"  -> RunFrom(program, pc + 1, f[i.field], f)
         [] i.op = "mod" -> RunFrom(program, pc + 1, acc % i.n, f)
         [] i.op = "jeq" -> RunFrom(program, pc + 1 + (IF acc = i.k THEN i.jt ELSE i.jf), acc, f)
         [] i.op = "ret" -> i.pass

Passes(program, f) == RunFrom(program, 1, 0, f)

-----------------------------------------------------------------------------
(* The programs.                                                           *)

\* unpack("IH", mac) reads the address in the order of the host's bytes, the
\* machine loads in the network's.
HostOrder(word) == <<word[2], word[1]>>

ArpReplyFilter ==
    << Ld("src"),  Jeq(HostOrder(OwnWord), 5, 0),
       Ld("op"),   Jeq(2, 0, 3),
       Ld("type"), Jeq(2054, 0, 1),
       Ret(TRUE), Ret(FALSE) >>

ShortJump(id) ==                                                     \* mutant
    << Ld("sum"), Mod(Workers), Jeq(id, 0, 10),
       Ld("dst"), Jeq("own", 7, 0), Jeq("127.0.0.1", 7, 0),
                  Jeq("255.255.255.255", 6, 0), Jeq("224.0.0.251", 5, 0),
       Ld("ipsrc"), Jeq("own", 3, 0), Jeq("127.0.0.1", 2, 0), Jeq("0.0.0.0", 1, 0),
       Ret(TRUE), Ret(FALSE) >>

OwnIpFilter(id) ==
    << Ld("sum"), Mod(Workers), Jeq(id, 0, 10),
       Ld("dst"), Jeq("own", 8, 0), Jeq("127.0.0.1", 7, 0),
                  Jeq("255.255.255.255", 6, 0), Jeq("224.0.0.251", 5, 0),
       Ld("ipsrc"), Jeq("own", 3, 0), Jeq("127.0.0.1", 2, 0), Jeq("0.0.0.0", 1, 0),
       Ret(TRUE), Ret(FALSE) >>

DhcpFilter(dst) ==
    << Ld("dst"),   Jeq(dst, 0, 5),
       Ld("proto"), Jeq(17, 0, 3),
       Ld("port"),  Jeq(67, 0, 1),
       Ret(TRUE), Ret(FALSE) >>

-----------------------------------------------------------------------------
SocketInit == frame \in ArpFrames
Arrives    == frame' \in ArpFrames \cup IpFrames
SocketSpec == SocketInit /\ [][Arrives]_frame

-----------------------------------------------------------------------------
(* Properties.                                                             *)

\* The ARP listener sees the replies of all other devices, and no other frame;
\* it sees the watchdog's own, too, unless its address reads the same backwards.
RepliesPass ==
    frame \in ArpFrames =>
        LET reply == frame.op = 2 /\ frame.type = 2054
        IN /\ Passes(ArpReplyFilter, frame) => reply
           /\ reply /\ frame.src # HostOrder(OwnWord) => Passes(ArpReplyFilter, frame)

\* A packet from one other machine to another reaches exactly one worker; what
\* the watchdog sends or receives itself reaches none.
SharedByWorkers ==
    frame \in IpFrames =>
        LET takers == {id \in 0 .. Workers - 1 : Passes(OwnIpFilter(id), frame)}
            local  == frame.dst \in {"own", "127.0.0.1", "255.255.255.255", "224.0.0.251"}
                      \/ frame.ipsrc \in {"own", "127.0.0.1", "0.0.0.0"}
        IN takers = IF local THEN {} ELSE {frame.sum % Workers}

\* The DHCP server's socket takes UDP to its address and port 67, only.
DhcpOnly ==
    frame \in IpFrames =>
        \A dst \in {"own", "255.255.255.255"} :
            Passes(DhcpFilter(dst), frame) = (frame.dst = dst /\ frame.proto = 17 /\ frame.port = 67)

SocketsSound == RepliesPass /\ SharedByWorkers /\ DhcpOnly

=============================================================================
