----------------------------- MODULE Serializer -----------------------------
(***************************************************************************)
(* The framing that every queue of the watchdog uses (ipc/serializers.py)  *)
(* and the two loops that undo it: a packet is escaped, a terminator is    *)
(* appended, and both ends of a Unix stream socket cut the byte stream     *)
(* back into packets whatever sizes recv() returns.                        *)
(*                                                                         *)
(* The machine below is the longest path a packet takes: the sending       *)
(* process writes its frames, QueueServer._sender cuts frames out of the   *)
(* stream and passes them on unchanged, QueueClient.get cuts them out of   *)
(* the second stream and deserialises them.  Bytes are numbers.            *)
(***************************************************************************)
EXTENDS Naturals, Sequences, SequencesExt

CONSTANTS
  Payloads,    (* the byte strings that processes put into the queue       *)
  MaxPackets,  (* bound: how many packets one behaviour sends              *)
  AssertionError   (* what deserialize raises; no payload                  *)

Byte == 0..255

ASSUME FramingAssumption == Payloads \subseteq Seq(Byte)

NUL == 0
DLE == 19      (* 0x13 *)

(***************************************************************************)
(* Serializer.serialize: double every escape byte, end with DLE NUL.       *)
(***************************************************************************)
NotDoubled(byte) == <<byte>>                                     \* mutant

Escaped(byte) == IF byte = DLE THEN <<DLE, DLE>> ELSE <<byte>>

serialize(data) ==
  FlattenSeq([i \in 1..Len(data) |-> Escaped(data[i])]) \o <<DLE, NUL>>

(***************************************************************************)
(* The value of the local `escape` of parse and deserialize once the first *)
(* i bytes of data have been read.                                         *)
(***************************************************************************)
EscapeSticky(byte, escape) == byte = DLE                         \* mutant

EscapeStep(byte, escape) == byte = DLE /\ ~escape

EscapeAfter(data) ==
  LET escape[i \in 0..Len(data)] ==
        IF i = 0 THEN FALSE ELSE EscapeStep(data[i], escape[i - 1])
  IN  escape

(***************************************************************************)
(* Serializer.parse: the length of the first frame, up to the first NUL    *)
(* read in escaped state; 0 stands for (None, data).                       *)
(***************************************************************************)
FrameLen(data) ==
  LET escape == EscapeAfter(data)
      Ends   == {i \in 1..Len(data) : data[i] = NUL /\ escape[i - 1]}
  IN  IF Ends = {} THEN 0 ELSE Min(Ends)

(***************************************************************************)
(* Serializer.deserialize.  An escaped NUL sets `end`, the first escape    *)
(* byte of a pair is dropped, anything after the end fails the assertion   *)
(* `not end`, and so does an input that never ends.                        *)
(***************************************************************************)
ReadByte(st, byte) ==
  CASE st.escape /\ byte = NUL -> [st EXCEPT !.end = TRUE]
    [] byte = DLE /\ ~st.escape -> [st EXCEPT !.escape = TRUE]
    [] OTHER -> [out    |-> Append(st.out, byte), escape |-> FALSE,
                 end    |-> st.end, failed |-> st.failed \/ st.end]

ReadAfter(data) ==
  LET state[i \in 0..Len(data)] ==
        IF i = 0 THEN [out |-> <<>>, escape |-> FALSE, end |-> FALSE, failed |-> FALSE]
        ELSE ReadByte(state[i - 1], data[i])
  IN  state

deserialize(data) ==
  LET final == ReadAfter(data)[Len(data)]
  IN  IF final.failed \/ ~final.end THEN AssertionError ELSE final.out

-----------------------------------------------------------------------------
VARIABLES
  sent,        (* history: the payloads put, in order                      *)
  wire1,       (* bytes in the socket between sender and queue server      *)
  buf1,        (* `buf` of QueueServer._sender                             *)
  wire2,       (* bytes in the socket between queue server and receiver    *)
  buf2,        (* `self.buf` of QueueClient                                *)
  yielded      (* what get() has yielded                                   *)

framingVars == <<sent, wire1, buf1, wire2, buf2, yielded>>

FramingInit ==
  /\ sent = <<>> /\ wire1 = <<>> /\ buf1 = <<>>
  /\ wire2 = <<>> /\ buf2 = <<>> /\ yielded = <<>>

(* QueueClient.put: serialise and write everything to the socket.          *)
ClientPut(data) ==
  /\ Len(sent) < MaxPackets
  /\ sent'  = Append(sent, data)
  /\ wire1' = wire1 \o serialize(data)
  /\ UNCHANGED <<buf1, wire2, buf2, yielded>>

(* sock_recv returns between one byte and all that has arrived, and the    *)
(* bytes are appended to what an earlier round left over.                  *)
LeftoverLost(buf, chunk) == chunk                                \* mutant

ReadInto(buf, chunk) == buf \o chunk

ServerRecv(n) ==
  /\ FrameLen(buf1) = 0
  /\ n \in 1..Len(wire1)
  /\ buf1'  = ReadInto(buf1, SubSeq(wire1, 1, n))
  /\ wire1' = SubSeq(wire1, n + 1, Len(wire1))
  /\ UNCHANGED <<sent, wire2, buf2, yielded>>

(* One turn of the loop `while buf: packet, buf = Serializer.parse(buf)`   *)
(* in _sender; the frame goes out unchanged to the receiver.               *)
ServerForward ==
  LET n == FrameLen(buf1) IN
  /\ n # 0
  /\ wire2' = wire2 \o SubSeq(buf1, 1, n)
  /\ buf1'  = SubSeq(buf1, n + 1, Len(buf1))
  /\ UNCHANGED <<sent, wire1, buf2, yielded>>

ClientRecv(n) ==
  /\ FrameLen(buf2) = 0
  /\ n \in 1..Len(wire2)
  /\ buf2'  = ReadInto(buf2, SubSeq(wire2, 1, n))
  /\ wire2' = SubSeq(wire2, n + 1, Len(wire2))
  /\ UNCHANGED <<sent, wire1, buf1, yielded>>

(* One turn of the same loop in get(): deserialise the frame and yield it. *)
ClientYield ==
  LET n == FrameLen(buf2) IN
  /\ n # 0
  /\ yielded'  = Append(yielded, deserialize(SubSeq(buf2, 1, n)))
  /\ buf2' = SubSeq(buf2, n + 1, Len(buf2))
  /\ UNCHANGED <<sent, wire1, buf1, wire2>>

FramingNext ==
  \/ \E data \in Payloads : ClientPut(data)
  \/ \E n \in 1..Len(wire1) : ServerRecv(n)
  \/ ServerForward
  \/ \E n \in 1..Len(wire2) : ClientRecv(n)
  \/ ClientYield

FramingSpec == FramingInit /\ [][FramingNext]_framingVars

-----------------------------------------------------------------------------
(* What the receiver reads is a prefix of what was put, byte for byte: no  *)
(* split of the streams by recv() makes parse (serializers.py:21-27) cut   *)
(* inside a packet or glue two together, and no deserialisation            *)
(* (serializers.py:30-51) fails an assertion.                              *)
InOrderIntact == IsPrefix(yielded, sent)

(* Once both sockets are drained nothing is left in a buffer of the server *)
(* or of the client: a frame never waits for bytes of a later frame        *)
(* (queue.py:175-192 and 303-308 loop until parse returns None).           *)
NothingStuck ==
  /\ wire1 = <<>> /\ wire2 = <<>>
  /\ FrameLen(buf1) = 0 /\ FrameLen(buf2) = 0
  => yielded = sent /\ buf1 = <<>> /\ buf2 = <<>>
=============================================================================
