------------------------------- MODULE MCWire -------------------------------
(* Framing: the terminator, the escape byte and one ordinary byte, in      *)
(* every payload of at most two bytes, and the three-byte payloads that    *)
(* look like a frame end of their own.  Filters: bytes of one bit, fields  *)
(* of one byte and of three, which does not compile.  Networks of one and  *)
(* of two bits in addresses of four; the machine moves from one to the     *)
(* other.  MAC addresses of two bytes, the watchdog's not a palindrome.    *)
EXTENDS Wire

CONSTANTS a, b         \* the two hosts

Alphabet == {NUL, DLE, 65}

MCPayloads == BoundedSeq(Alphabet, 2) \cup {<<DLE, NUL, DLE>>, <<DLE, DLE, NUL>>}

MCFields == {<<1, 2>>, <<0, 3>>}

MCConfigs == {[box |-> 5, net |-> [ip |-> 4, range |-> 2]], [box |-> 12, net |-> [ip |-> 8, range |-> 1]]}

MCOwnWord == <<0, 1>>

MCAddonPackets ==
    {[to |-> a, proto |-> "udp", length |-> 5, words |-> <<61, 3>>, sum |-> -1],
     [to |-> b, proto |-> "tcp", length |-> 7, words |-> <<29, 61>>, sum |-> -1],
     [to |-> Outside, proto |-> "udp", length |-> 3, words |-> <<63, 58>>, sum |-> -1],
     [to |-> Outside, proto |-> "other", length |-> 3, words |-> <<>>, sum |-> -1]}
=============================================================================
