------------------------- MODULE QueueServerProofs --------------------------
(***************************************************************************)
(* Theorems about QueueServer, for any number of clients, packets of any   *)
(* size and any socket capacity: the semaphore counts the deque, frames    *)
(* stay whole and in order, and the queue implements LossyQueue.           *)
(*                                                                         *)
(* IInv is inductive and holds the types and the semaphore; FInv adds what *)
(* every stream between two processes holds, and where each frame is.      *)
(*                                                                         *)
(* The last part is about Serializer, for any packets: what is put arrives *)
(* byte for byte, in order, and nothing stays behind.                      *)
(***************************************************************************)
EXTENDS QueueServer, Serializer, SequenceFacts

-----------------------------------------------------------------------------
(* Lemmas about cutting a buffer into frames.                              *)

(* There are finitely many terminators in a buffer, at positions of it.    *)
LEMMA EndsFinite ==
  ASSUME NEW data \in Seq(Piece)
  PROVE  /\ Ends(data) \subseteq 1..Len(data)
         /\ IsFiniteSet(Ends(data))
         /\ NumFrames(data) \in Nat
<1>1. Ends(data) \subseteq 1..Len(data)
  BY DEF Ends
<1>2. IsFiniteSet(1..Len(data))
  BY FS_Interval
<1>3. IsFiniteSet(Ends(data))
  BY <1>1, <1>2, FS_Subset
<1> QED
  BY <1>1, <1>3, FS_CardinalityType DEF NumFrames

(* For n from 1 to the number of terminators there is an n-th one.         *)
LEMMA NthEndExists ==
  ASSUME NEW data \in Seq(Piece), NEW n \in 1..NumFrames(data)
  PROVE  /\ NthEnd(data, n) \in Ends(data)
         /\ Cardinality({x \in Ends(data) : x <= NthEnd(data, n)}) = n
<1> DEFINE S == Ends(data)
           m == Len(data)
<1>1. m \in Nat /\ (\A x \in S : x \in 1..m) /\ n \in 1..Cardinality(S) /\ n # 0
  BY EndsFinite DEF NumFrames
<1> HIDE DEF S, m
<1>2. \E p \in S : Cardinality({x \in S : x <= p}) = n
  BY <1>1, NthPosition, ZenonT(60)
<1> QED
  BY <1>1, <1>2, Zenon DEF NthEnd, S

(* The first terminator is no later than the second, and so on.            *)
LEMMA NthEndIncreases ==
  ASSUME NEW data \in Seq(Piece), NEW n \in 1..NumFrames(data)
  PROVE  /\ NthEnd(data, n) \in 1..Len(data)
         /\ NthEnd(data, n - 1) \in 0..Len(data)
         /\ NthEnd(data, n - 1) < NthEnd(data, n)
<1> DEFINE e == NthEnd(data, n)
           d == NthEnd(data, n - 1)
           Upto(p) == {x \in Ends(data) : x <= p}
<1>1. /\ Ends(data) \subseteq 1..Len(data)
      /\ IsFiniteSet(Ends(data))
      /\ Len(data) \in Nat
      /\ NumFrames(data) \in Nat
  BY EndsFinite
<1>2. e \in Ends(data) /\ Cardinality(Upto(e)) = n
  BY NthEndExists
<1>3. e \in 1..Len(data)
  BY <1>1, <1>2
<1>4. CASE n = 1
  <2>1. d = 0
    BY <1>4 DEF NthEnd
  <2> QED
    BY <1>1, <1>3, <2>1
<1>5. CASE n # 1
  <2>1. n - 1 \in 1..NumFrames(data)
    BY <1>1, <1>5
  <2>2. d \in Ends(data) /\ Cardinality(Upto(d)) = n - 1
    BY <2>1, NthEndExists
  <2>3. d \in 1..Len(data)
    BY <1>1, <2>2
  <2>4. CASE e <= d
    <3>1. Upto(e) \in SUBSET Upto(d) /\ Upto(d) \in SUBSET Ends(data)
      BY <1>1, <1>3, <2>3, <2>4
    <3> HIDE DEF Upto, e, d
    <3>2. IsFiniteSet(Upto(d))
      BY <1>1, <3>1, FS_Subset
    <3>3. Cardinality(Upto(e)) <= Cardinality(Upto(d))
      BY <3>1, <3>2, FS_Subset
    <3> QED
      BY <1>2, <2>2, <3>3
  <2> QED
    BY <1>1, <1>3, <2>3, <2>4
<1> QED
  BY <1>4, <1>5

(* What has been split keeps its type, and a part that is not empty is not *)
(* empty.                                                                  *)
LEMMA SplitType ==
  ASSUME NEW data \in Seq(Piece), NEW n \in 0..Len(data)
  PROVE  /\ First(data, n) \in Seq(Piece) /\ Len(First(data, n)) = n
         /\ Rest(data, n) \in Seq(Piece)
         /\ Rest(data, n) = <<>> <=> n = Len(data)
<1>1. Len(data) \in Nat /\ \A i \in 1..Len(data) : data[i] \in Piece
  BY LenProperties, ElementOfSeq
<1>2. First(data, n) \in Seq(Piece) /\ Len(First(data, n)) = n
  BY <1>1, SubSeqProperties DEF First
<1>3. /\ Rest(data, n) \in Seq(Piece)
      /\ Len(Rest(data, n)) = IF n + 1 <= Len(data) THEN Len(data) - n ELSE 0
  BY <1>1, SubSeqProperties DEF Rest
<1>4. Rest(data, n) = <<>> <=> Len(Rest(data, n)) = 0
  BY <1>3, EmptySeq
<1> QED
  BY <1>1, <1>2, <1>3, <1>4

(* The frames cut out of a buffer are nonempty, and as many as there are   *)
(* terminators; the leftover is a buffer again.                            *)
LEMMA CutType ==
  ASSUME NEW data \in Seq(Piece)
  PROVE  /\ Cut(data) \in Seq(Seq(Piece))
         /\ Len(Cut(data)) = NumFrames(data)
         /\ \A n \in 1..NumFrames(data) : Cut(data)[n] \in Seq(Piece) /\ Cut(data)[n] # <<>>
         /\ Leftover(data) \in Seq(Piece)
<1>1. Len(data) \in Nat /\ NumFrames(data) \in Nat
  BY EndsFinite, LenProperties
<1>2. \A i \in 1..Len(data) : data[i] \in Piece
  BY ElementOfSeq
<1>3. ASSUME NEW n \in 1..NumFrames(data)
      PROVE  /\ Cut(data)[n] \in Seq(Piece)
             /\ Cut(data)[n] # <<>>
  <2> DEFINE d == NthEnd(data, n - 1)
             e == NthEnd(data, n)
  <2>1. d \in 0..Len(data) /\ e \in 1..Len(data) /\ d < e
    BY NthEndIncreases
  <2>2. Cut(data)[n] = SubSeq(data, d + 1, e)
    BY DEF Cut
  <2> HIDE DEF d, e
  <2>3. SubSeq(data, d + 1, e) \in Seq(Piece) /\ Len(SubSeq(data, d + 1, e)) = e - d
    BY <1>1, <1>2, <2>1, SubSeqProperties
  <2>4. e - d # 0
    BY <1>1, <2>1
  <2>5. SubSeq(data, d + 1, e) # <<>>
    BY <2>3, <2>4, EmptySeq
  <2> QED
    BY <2>2, <2>3, <2>5
<1>4. Cut(data) \in Seq(Seq(Piece)) /\ Len(Cut(data)) = NumFrames(data)
  <2>1. Cut(data) \in [1..NumFrames(data) -> Seq(Piece)]
    BY <1>3 DEF Cut
  <2> QED
    BY <1>1, <2>1
<1>5. Leftover(data) \in Seq(Piece)
  <2>1. NthEnd(data, NumFrames(data)) \in 0..Len(data)
    <3>1. CASE NumFrames(data) = 0
      BY <1>1, <3>1 DEF NthEnd
    <3>2. CASE NumFrames(data) # 0
      <4>1. NumFrames(data) \in 1..NumFrames(data)
        BY <1>1, <3>2
      <4> QED
        BY <1>1, <4>1, NthEndIncreases
    <3> QED
      BY <3>1, <3>2
  <2> QED
    BY <2>1, SplitType DEF Leftover, Rest
<1> QED
  BY <1>3, <1>4, <1>5

(* What sock_sendall takes fits into the socket.                           *)
LEMMA RoomType ==
  ASSUME NEW wire \in Seq(Piece), Len(wire) <= Cap, NEW data \in Seq(Piece)
  PROVE  /\ Room(wire, data) \in 0..Len(data)
         /\ wire \o First(data, Room(wire, data)) \in Seq(Piece)
         /\ Len(wire \o First(data, Room(wire, data))) <= Cap
<1>1. Len(wire) \in Nat /\ Len(data) \in Nat /\ Cap \in Nat
  BY QueueAssumption, LenProperties
<1>2. Room(wire, data) \in 0..Len(data) /\ Len(wire) + Room(wire, data) <= Cap
  BY <1>1 DEF Room
<1> DEFINE head == First(data, Room(wire, data))
<1>3. head \in Seq(Piece) /\ Len(head) = Room(wire, data)
  BY <1>2, SplitType
<1> HIDE DEF head
<1>4. wire \o head \in Seq(Piece) /\ Len(wire \o head) = Len(wire) + Len(head)
  BY <1>3, ConcatProperties
<1> QED
  BY <1>1, <1>2, <1>3, <1>4 DEF head

(* A frame is a nonempty sequence of pieces.                               *)
LEMMA FrameType ==
  ASSUME NEW s \in Senders, NEW k \in 1..Len(Pieces[s])
  PROVE  Frame(s, k) \in Seq(Piece) /\ Frame(s, k) # <<>>
<1>1. Pieces[s] \in Seq(Nat \ {0}) /\ k \in Nat
  BY QueueAssumption
<1>2. Pieces[s][k] \in Nat \ {0}
  BY <1>1, ElementOfSeq
<1>3. \A i \in 1..Pieces[s][k] : <<s, k, i>> \in Piece
  BY <1>1, <1>2 DEF Piece
<1>4. Frame(s, k) \in [1..Pieces[s][k] -> Piece]
  BY <1>3 DEF Frame
<1>5. Frame(s, k) \in Seq(Piece) /\ Len(Frame(s, k)) = Pieces[s][k]
  BY <1>2, <1>4
<1> QED
  BY <1>2, <1>5, EmptySeq

-----------------------------------------------------------------------------
(* The inductive invariant.  That the deque's frames are not empty makes a *)
(* task that holds one hold something (`if packet:` in the finally clause  *)
(* sees it); that a socket never holds more than its capacity makes every  *)
(* write take a number of pieces that is not negative; a client that has   *)
(* not connected has no task.                                              *)
NoEmptyFrame == \A i \in 1..Len(to_send) : to_send[i] # <<>>

SocketsBounded ==
  /\ \A s \in Senders : Len(up[s]) <= Cap
  /\ \A r \in Receivers : Len(down[r]) <= Cap

OffHasNoTask == \A c \in Clients : client[c] = "off" => task[c] = "none"

QInv == TypeOK /\ SemMatchesQueue /\ NoEmptyFrame /\ SocketsBounded

IInv == QInv /\ OffHasNoTask

LEMMA InitIInv == Init => IInv
<1> SUFFICES ASSUME Init PROVE IInv
  OBVIOUS
<1>1. TypeOK
  BY EmptySeq DEF Init, TypeOK, Clients
<1>2. SemMatchesQueue /\ NoEmptyFrame
  BY DEF Init, SemMatchesQueue, NoEmptyFrame
<1>3. SocketsBounded
  BY QueueAssumption DEF Init, SocketsBounded
<1>4. OffHasNoTask
  BY DEF Init, OffHasNoTask
<1> QED
  BY <1>1, <1>2, <1>3, <1>4 DEF QInv, IInv

(* Taking the first frame out of the deque and putting frames back.        *)
LEMMA PutBackKeeps ==
  ASSUME NEW frame \in Seq(Piece), frame # <<>>,
         NEW queue \in Seq(Seq(Piece)), \A i \in 1..Len(queue) : queue[i] # <<>>
  PROVE  /\ <<frame>> \o queue \in Seq(Seq(Piece))
         /\ Len(<<frame>> \o queue) = Len(queue) + 1
         /\ \A i \in 1..Len(<<frame>> \o queue) : (<<frame>> \o queue)[i] # <<>>
<1>1. <<frame>> \in Seq(Seq(Piece)) /\ Len(<<frame>>) = 1 /\ <<frame>>[1] = frame
  OBVIOUS
<1>2. Len(queue) \in Nat
  BY LenProperties
<1>3. /\ <<frame>> \o queue \in Seq(Seq(Piece))
      /\ Len(<<frame>> \o queue) = 1 + Len(queue)
      /\ \A i \in 1..1 + Len(queue) : (<<frame>> \o queue)[i] =
           IF i <= 1 THEN <<frame>>[i] ELSE queue[i - 1]
  BY <1>1, ConcatProperties
<1> QED
  BY <1>1, <1>2, <1>3

LEMMA HeadOfQueue ==
  ASSUME QInv, sem > 0
  PROVE  /\ Head(to_send) \in Seq(Piece) /\ Head(to_send) # <<>>
         /\ Tail(to_send) \in Seq(Seq(Piece))
         /\ Len(Tail(to_send)) = sem - 1 /\ sem - 1 \in Nat
         /\ \A i \in 1..Len(Tail(to_send)) : Tail(to_send)[i] # <<>>
<1>1. /\ to_send \in Seq(Seq(Piece)) /\ sem \in Nat /\ sem = Len(to_send)
      /\ \A i \in 1..Len(to_send) : to_send[i] # <<>>
  BY DEF QInv, TypeOK, SemMatchesQueue, NoEmptyFrame
<1>2. to_send # <<>>
  BY <1>1, EmptySeq
<1>3. /\ Head(to_send) \in Seq(Piece)
      /\ Tail(to_send) \in Seq(Seq(Piece))
      /\ Len(Tail(to_send)) = Len(to_send) - 1
      /\ \A i \in 1..Len(Tail(to_send)) : Tail(to_send)[i] = to_send[i + 1]
  BY <1>1, <1>2, HeadTailProperties
<1>4. Head(to_send) = to_send[1]
  BY <1>1, <1>2
<1> QED
  BY <1>1, <1>3, <1>4

-----------------------------------------------------------------------------
(* Every action preserves the invariant.                                   *)

(* Connecting, dying and closing change no queue data or empty it.         *)
LEMMA ClientSteps ==
  ASSUME QInv, OffHasNoTask,
         \/ \E c \in Clients : Connect(c) \/ Handshake(c) \/ QueueClosed(c)
         \/ \E s \in Senders : SenderDies(s)
         \/ \E r \in Receivers : ReceiverDies(r)
         \/ Close
  PROVE  QInv'
<1>1. CASE \E c \in Clients : Connect(c)
  <2> PICK c \in Clients : Connect(c)
    BY <1>1
  <2>1. /\ client \in [Clients -> {"off", "open", "dead", "closed"}]
        /\ client' = [client EXCEPT ![c] = "open"]
        /\ client[c] = "off"
        /\ task \in [Clients -> {"none", "accepted", "sender", "acquire", "sendall",
                                  "sleep", "done"}]
        /\ task' = [task EXCEPT ![c] = "accepted"]
        /\ UNCHANGED <<server, put, unwritten, up, buf, to_send, sem, packet, unsent,
                       down, cbuf, got>>
    BY DEF Connect, QInv, TypeOK, serverVars, senderVars, receiverVars
  <2>2. task[c] = "none"
    BY <2>1 DEF OffHasNoTask
  <2>3. TypeOK'
    BY <2>1, <2>2 DEF QInv, TypeOK, Clients
  <2> QED
    BY <2>1, <2>3 DEF QInv, SemMatchesQueue, NoEmptyFrame, SocketsBounded
<1>2. CASE \E c \in Clients : Handshake(c)
  <2> PICK c \in Clients : Handshake(c)
    BY <1>2
  <2>1. /\ task[c] = "accepted"
        /\ task' = [task EXCEPT ![c] = IF c \in Senders THEN "sender" ELSE "acquire"]
        /\ UNCHANGED <<server, client, put, unwritten, up, buf, to_send, sem, packet,
                       unsent, down, cbuf, got>>
    BY DEF Handshake, serverVars, senderVars, receiverVars
  <2>2. TypeOK'
    BY <2>1 DEF QInv, TypeOK, Clients
  <2> QED
    BY <2>1, <2>2 DEF QInv, SemMatchesQueue, NoEmptyFrame, SocketsBounded
<1>3. CASE \E c \in Clients : QueueClosed(c)
  <2> PICK c \in Clients : QueueClosed(c)
    BY <1>3
  <2>1. /\ client' = [client EXCEPT ![c] = "closed"]
        /\ UNCHANGED <<server, task, put, unwritten, up, buf, to_send, sem, packet,
                       unsent, down, cbuf, got>>
    BY DEF QueueClosed, serverVars, senderVars, receiverVars
  <2>2. TypeOK'
    BY <2>1 DEF QInv, TypeOK
  <2> QED
    BY <2>1, <2>2 DEF QInv, SemMatchesQueue, NoEmptyFrame, SocketsBounded
<1>4. CASE \E s \in Senders : SenderDies(s)
  <2> PICK s \in Senders : SenderDies(s)
    BY <1>4
  <2>1. /\ client' = [client EXCEPT ![s] = "dead"]
        /\ unwritten' = [unwritten EXCEPT ![s] = <<>>]
        /\ UNCHANGED <<server, task, put, up, buf, to_send, sem, packet, unsent,
                       down, cbuf, got>>
    BY DEF SenderDies, serverVars, receiverVars
  <2>2. <<>> \in Seq(Piece)
    BY EmptySeq
  <2>3. TypeOK'
    BY <2>1, <2>2 DEF QInv, TypeOK, Clients
  <2> QED
    BY <2>1, <2>3 DEF QInv, SemMatchesQueue, NoEmptyFrame, SocketsBounded
<1>5. CASE \E r \in Receivers : ReceiverDies(r)
  <2> PICK r \in Receivers : ReceiverDies(r)
    BY <1>5
  <2>1. /\ client' = [client EXCEPT ![r] = "dead"]
        /\ down' = [down EXCEPT ![r] = <<>>]
        /\ cbuf' = [cbuf EXCEPT ![r] = <<>>]
        /\ UNCHANGED <<server, task, put, unwritten, up, buf, to_send, sem, packet,
                       unsent, got>>
    BY DEF ReceiverDies, serverVars, senderVars
  <2>2. <<>> \in Seq(Piece) /\ Len(<<>>) = 0
    BY EmptySeq
  <2>3. TypeOK'
    BY <2>1, <2>2 DEF QInv, TypeOK, Clients
  <2>4. \A x \in Receivers : down'[x] = down[x] \/ down'[x] = <<>>
    BY <2>1 DEF QInv, TypeOK
  <2>5. SocketsBounded'
    BY <2>1, <2>2, <2>4, QueueAssumption DEF QInv, SocketsBounded
  <2> QED
    BY <2>1, <2>3, <2>5 DEF QInv, SemMatchesQueue, NoEmptyFrame
<1>6. CASE Close
  <2>1. /\ server' = "killed"
        /\ task' = [c \in Clients |-> "none"]
        /\ to_send' = <<>>
        /\ sem' = 0
        /\ buf' = [s \in Senders |-> <<>>]
        /\ up' = [s \in Senders |-> <<>>]
        /\ packet' = [r \in Receivers |-> <<>>]
        /\ unsent' = [r \in Receivers |-> <<>>]
        /\ UNCHANGED <<client, put, unwritten, down, cbuf, got>>
    BY <1>6 DEF Close, receiverVars
  <2>2. <<>> \in Seq(Piece) /\ <<>> \in Seq(Seq(Piece)) /\ Len(<<>>) = 0
    BY EmptySeq
  <2>3. TypeOK'
    BY <2>1, <2>2 DEF QInv, TypeOK, Clients
  <2>4. SocketsBounded'
    BY <2>1, <2>2, QueueAssumption DEF QInv, SocketsBounded
  <2> QED
    BY <2>1, <2>2, <2>3, <2>4 DEF QInv, SemMatchesQueue, NoEmptyFrame
<1> QED
  BY <1>1, <1>2, <1>3, <1>4, <1>5, <1>6

(* put() writes to its own socket only.                                    *)
LEMMA PutSteps ==
  ASSUME QInv, NEW s \in Senders, Put(s) \/ PutMore(s)
  PROVE  QInv'
<1> DEFINE data == IF Put(s) THEN Frame(s, put[s] + 1) ELSE unwritten[s]
<1>1. data \in Seq(Piece) /\ put' \in [Senders -> Nat]
  <2>1. CASE Put(s)
    <3>1. put[s] + 1 \in 1..Len(Pieces[s])
      BY <2>1, QueueAssumption, LenProperties DEF Put, QInv, TypeOK
    <3> QED
      BY <2>1, <3>1, FrameType DEF Put, QInv, TypeOK
  <2>2. CASE ~Put(s)
    BY <2>2 DEF PutMore, QInv, TypeOK
  <2> QED
    BY <2>1, <2>2
<1>2. up[s] \in Seq(Piece) /\ Len(up[s]) <= Cap
  BY DEF QInv, TypeOK, SocketsBounded
<1> DEFINE n == Room(up[s], data)
<1>3. /\ up' = [up EXCEPT ![s] = up[s] \o First(data, n)]
      /\ unwritten' = [unwritten EXCEPT ![s] = Rest(data, n)]
      /\ UNCHANGED <<server, client, task, serverVars, receiverVars>>
  BY DEF Put, PutMore, WriteUp
<1>4. /\ up[s] \o First(data, n) \in Seq(Piece)
      /\ Len(up[s] \o First(data, n)) <= Cap
      /\ Rest(data, n) \in Seq(Piece)
  BY <1>1, <1>2, RoomType, SplitType
<1> HIDE DEF data, n
<1>5. TypeOK'
  BY <1>1, <1>3, <1>4 DEF QInv, TypeOK, serverVars, receiverVars
<1>6. (SemMatchesQueue /\ NoEmptyFrame /\ SocketsBounded)'
  BY <1>3, <1>4 DEF QInv, TypeOK, SemMatchesQueue, NoEmptyFrame,
                    SocketsBounded, serverVars, receiverVars
<1> QED
  BY <1>5, <1>6 DEF QInv

(* _sender appends as many frames as it releases the semaphore.            *)
LEMMA SenderTaskStep ==
  ASSUME QInv, NEW s \in Senders, NEW n \in 1..Len(up[s]), SenderTask(s, n)
  PROVE  QInv'
<1> DEFINE data == buf[s] \o First(up[s], n)
<1>1. /\ buf[s] \in Seq(Piece) /\ up[s] \in Seq(Piece) /\ Len(up[s]) \in Nat
      /\ to_send \in Seq(Seq(Piece)) /\ sem = Len(to_send) /\ sem \in Nat
      /\ \A i \in 1..Len(to_send) : to_send[i] # <<>>
  BY LenProperties DEF QInv, TypeOK, SemMatchesQueue, NoEmptyFrame
<1>2. /\ First(up[s], n) \in Seq(Piece)
      /\ Rest(up[s], n) \in Seq(Piece)
      /\ Len(Rest(up[s], n)) <= Len(up[s])
  <2>1. n \in 0..Len(up[s])
    BY <1>1
  <2>2. Len(Rest(up[s], n)) <= Len(up[s])
    <3>1. \A i \in 1..Len(up[s]) : up[s][i] \in Piece
      BY <1>1, ElementOfSeq
    <3> QED
      BY <1>1, <3>1, SubSeqProperties DEF Rest
  <2> QED
    BY <1>1, <2>1, <2>2, SplitType
<1>3. data \in Seq(Piece)
  BY <1>1, <1>2, ConcatProperties
<1>4. /\ task[s] = "sender"
      /\ up' = [up EXCEPT ![s] = Rest(up[s], n)]
      /\ buf' = [buf EXCEPT ![s] = Leftover(data)]
      /\ to_send' = to_send \o Cut(data)
      /\ sem' = sem + NumFrames(data)
      /\ UNCHANGED <<server, client, task, put, unwritten, packet, unsent,
                     down, cbuf, got>>
  BY DEF SenderTask, receiverVars
<1> HIDE DEF data
<1>5. /\ Cut(data) \in Seq(Seq(Piece)) /\ Len(Cut(data)) = NumFrames(data)
      /\ \A i \in 1..NumFrames(data) : Cut(data)[i] # <<>>
      /\ Leftover(data) \in Seq(Piece) /\ NumFrames(data) \in Nat
  BY <1>3, CutType, EndsFinite
<1>6. /\ to_send' \in Seq(Seq(Piece)) /\ Len(to_send') = sem'
      /\ \A i \in 1..Len(to_send') :
           to_send'[i] = IF i <= Len(to_send) THEN to_send[i]
                         ELSE Cut(data)[i - Len(to_send)]
  <2> DEFINE cut == Cut(data)
  <2>1. cut \in Seq(Seq(Piece)) /\ Len(cut) = NumFrames(data)
    BY <1>5
  <2> HIDE DEF cut
  <2>2. /\ to_send \o cut \in Seq(Seq(Piece))
        /\ Len(to_send \o cut) = Len(to_send) + Len(cut)
        /\ \A i \in 1..Len(to_send) + Len(cut) :
             (to_send \o cut)[i] = IF i <= Len(to_send) THEN to_send[i]
                                   ELSE cut[i - Len(to_send)]
    BY <1>1, <2>1, ConcatProperties
  <2>3. to_send' = to_send \o cut
    BY <1>4 DEF cut
  <2> QED
    BY <1>1, <1>4, <2>1, <2>2, <2>3 DEF cut
<1>7. TypeOK'
  BY SMTT(40), <1>1, <1>2, <1>4, <1>5, <1>6 DEF QInv, TypeOK
<1>8. SemMatchesQueue' /\ NoEmptyFrame'
  <2>1. Len(to_send') = Len(to_send) + NumFrames(data)
    BY <1>1, <1>4, <1>6
  <2>2. ASSUME NEW i \in 1..Len(to_send')
        PROVE  to_send'[i] # <<>>
    <3>1. CASE i <= Len(to_send)
      BY <1>1, <1>6, <2>2, <3>1
    <3>2. CASE i > Len(to_send)
      <4>1. i - Len(to_send) \in 1..NumFrames(data)
        BY <1>1, <1>5, <2>1, <3>2
      <4>2. ~(i <= Len(to_send))
        BY <1>1, <2>1, <3>2
      <4>3. to_send'[i] = Cut(data)[i - Len(to_send)]
        BY <1>6, <2>2, <4>2
      <4> QED
        BY <1>5, <4>1, <4>3
    <3> QED
      BY <1>1, <2>1, <3>1, <3>2
  <2> QED
    BY <1>6, <2>2 DEF SemMatchesQueue, NoEmptyFrame
<1>9. SocketsBounded'
  <2>1. Len(Rest(up[s], n)) <= Cap
    BY <1>1, <1>2, QueueAssumption, LenProperties DEF QInv, SocketsBounded
  <2> QED
    BY <1>4, <2>1 DEF QInv, TypeOK, SocketsBounded
<1> QED
  BY <1>7, <1>8, <1>9 DEF QInv

LEMMA SenderEOFStep ==
  ASSUME QInv, NEW s \in Senders, SenderEOF(s)
  PROVE  QInv'
BY QueueAssumption, EmptySeq DEF SenderEOF, QInv, TypeOK, SemMatchesQueue,
  NoEmptyFrame, SocketsBounded, senderVars, receiverVars, Clients

(* Writing a frame, or what is left of it, to a receiver: the task is in   *)
(* sendall exactly when something is left.                                 *)
LEMMA WriteDownKeeps ==
  ASSUME QInv, NEW r \in Receivers,
         NEW frame \in Seq(Piece), frame # <<>>, NEW data \in Seq(Piece),
         WriteDown(r, frame, data)
  PROVE  /\ down' \in [Receivers -> Seq(Piece)]
         /\ unsent' \in [Receivers -> Seq(Piece)]
         /\ packet' \in [Receivers -> Seq(Piece)]
         /\ task' \in [Clients -> {"none", "accepted", "sender", "acquire",
                                    "sendall", "sleep", "done"}]
         /\ \A q \in Receivers :
              /\ packet'[q] # <<>> <=> task'[q] \in {"sendall", "sleep"}
              /\ unsent'[q] # <<>> <=> task'[q] = "sendall"
         /\ \A q \in Receivers : Len(down'[q]) <= Cap
<1> DEFINE n == Room(down[r], data)
<1>1. down[r] \in Seq(Piece) /\ Len(down[r]) <= Cap
  BY DEF QInv, TypeOK, SocketsBounded
<1>2. /\ down[r] \o First(data, n) \in Seq(Piece)
      /\ Len(down[r] \o First(data, n)) <= Cap
      /\ Rest(data, n) \in Seq(Piece)
      /\ Rest(data, n) = <<>> <=> n = Len(data)
  BY <1>1, RoomType, SplitType
<1>3. /\ down' = [down EXCEPT ![r] = down[r] \o First(data, n)]
      /\ unsent' = [unsent EXCEPT ![r] = Rest(data, n)]
      /\ packet' = [packet EXCEPT ![r] = frame]
      /\ task' = [task EXCEPT ![r] = IF n = Len(data) THEN "sleep" ELSE "sendall"]
  BY DEF WriteDown
<1> HIDE DEF n
<1> QED
  BY <1>2, <1>3 DEF QInv, TypeOK, SocketsBounded, Clients

(* Giving a frame back to the deque.                                       *)
LEMMA PutBackStep ==
  ASSUME QInv, NEW r \in Receivers,
         NEW frame \in Seq(Piece), frame # <<>>,
         NEW queue \in Seq(Seq(Piece)), \A i \in 1..Len(queue) : queue[i] # <<>>,
         PutBack(r, frame, queue, Len(queue)),
         UNCHANGED <<server, client, senderVars, buf, receiverVars>>
  PROVE  QInv'
<1>1. /\ to_send' \in Seq(Seq(Piece)) /\ Len(to_send') = Len(queue) + 1
      /\ \A i \in 1..Len(to_send') : to_send'[i] # <<>>
      /\ sem' = Len(queue) + 1 /\ Len(queue) \in Nat
      /\ packet' = [packet EXCEPT ![r] = <<>>]
      /\ unsent' = [unsent EXCEPT ![r] = <<>>]
      /\ task' = [task EXCEPT ![r] = "done"]
  BY PutBackKeeps, LenProperties DEF PutBack
<1>2. TypeOK'
  BY <1>1, EmptySeq DEF QInv, TypeOK, senderVars, receiverVars, Clients
<1>3. SemMatchesQueue' /\ NoEmptyFrame'
  BY <1>1 DEF SemMatchesQueue, NoEmptyFrame
<1>4. SocketsBounded'
  BY DEF QInv, SocketsBounded, senderVars, receiverVars
<1> QED
  BY <1>2, <1>3, <1>4 DEF QInv

(* One release for one acquire: the semaphore still counts the deque.      *)
LEMMA TakeStep ==
  ASSUME QInv, NEW r \in Receivers, Take(r)
  PROVE  QInv'
<1>1. sem > 0
  BY DEF Take
<1>2. /\ Head(to_send) \in Seq(Piece) /\ Head(to_send) # <<>>
      /\ Tail(to_send) \in Seq(Seq(Piece))
      /\ Len(Tail(to_send)) = sem - 1 /\ sem - 1 \in Nat
      /\ \A i \in 1..Len(Tail(to_send)) : Tail(to_send)[i] # <<>>
  BY <1>1, HeadOfQueue
<1>3. CASE client[r] = "open"
  <2>1. /\ sem' = sem - 1 /\ to_send' = Tail(to_send)
        /\ WriteDown(r, Head(to_send), Head(to_send))
        /\ UNCHANGED <<server, client, senderVars, buf, cbuf, got>>
    BY <1>3 DEF Take
  <2>2. TypeOK' /\ \A q \in Receivers : Len(down'[q]) <= Cap
    BY <1>2, <2>1, WriteDownKeeps DEF QInv, TypeOK, senderVars
  <2>3. SemMatchesQueue' /\ NoEmptyFrame'
    BY <1>2, <2>1 DEF SemMatchesQueue, NoEmptyFrame
  <2> QED
    BY <2>1, <2>2, <2>3 DEF QInv, SocketsBounded, senderVars
<1>4. CASE client[r] # "open"
  <2>1. /\ PutBack(r, Head(to_send), Tail(to_send), Len(Tail(to_send)))
        /\ UNCHANGED <<server, client, senderVars, buf, receiverVars>>
    BY <1>2, <1>4 DEF Take, receiverVars
  <2> QED
    BY <1>2, <2>1, PutBackStep
<1> QED
  BY <1>3, <1>4

LEMMA ResumeStep ==
  ASSUME QInv, NEW r \in Receivers, Resume(r)
  PROVE  QInv'
<1>1. /\ packet[r] \in Seq(Piece) /\ packet[r] # <<>> /\ unsent[r] \in Seq(Piece)
      /\ to_send \in Seq(Seq(Piece)) /\ sem = Len(to_send)
      /\ \A i \in 1..Len(to_send) : to_send[i] # <<>>
  BY DEF Resume, QInv, TypeOK, SemMatchesQueue, NoEmptyFrame
<1>2. CASE client[r] = "open"
  <2>1. /\ WriteDown(r, packet[r], unsent[r])
        /\ UNCHANGED <<server, client, senderVars, buf, to_send, sem, cbuf, got>>
    BY <1>2 DEF Resume
  <2>2. TypeOK' /\ \A q \in Receivers : Len(down'[q]) <= Cap
    BY <1>1, <2>1, WriteDownKeeps DEF QInv, TypeOK, senderVars
  <2> QED
    BY <2>1, <2>2 DEF QInv, SemMatchesQueue, NoEmptyFrame, SocketsBounded,
                      senderVars
<1>3. CASE client[r] # "open"
  <2>1. /\ PutBack(r, packet[r], to_send, Len(to_send))
        /\ UNCHANGED <<server, client, senderVars, buf, receiverVars>>
    BY <1>1, <1>3 DEF Resume, receiverVars
  <2> QED
    BY <1>1, <2>1, PutBackStep
<1> QED
  BY <1>2, <1>3

LEMMA SleptStep ==
  ASSUME QInv, NEW r \in Receivers, Slept(r)
  PROVE  QInv'
BY QueueAssumption, EmptySeq DEF Slept, QInv, TypeOK, SemMatchesQueue,
  NoEmptyFrame, SocketsBounded, senderVars, receiverVars, Clients

(* get() moves pieces and frames between its own socket, buffer and user.  *)
LEMMA GetSteps ==
  ASSUME QInv, NEW r \in Receivers,
         Yield(r) \/ \E n \in 1..Len(down[r]) : Recv(r, n)
  PROVE  QInv'
<1>1. /\ cbuf[r] \in Seq(Piece) /\ down[r] \in Seq(Piece)
      /\ Len(down[r]) \in Nat /\ Len(down[r]) <= Cap /\ Cap \in Nat
  BY QueueAssumption, LenProperties DEF QInv, TypeOK, SocketsBounded
<1>2. CASE Yield(r)
  <2>1. 1 \in 1..NumFrames(cbuf[r])
    BY <1>1, <1>2, EndsFinite DEF Yield
  <2>2. Cut(cbuf[r])[1] \in Seq(Piece)
    BY <1>1, <2>1, CutType
  <2>3. NthEnd(cbuf[r], 1) \in 0..Len(cbuf[r])
    BY <1>1, <2>1, NthEndIncreases
  <2>4. Rest(cbuf[r], NthEnd(cbuf[r], 1)) \in Seq(Piece)
    BY <1>1, <2>3, SplitType
  <2>5. got[r] \in Seq(Seq(Piece)) /\ Append(got[r], Cut(cbuf[r])[1]) \in Seq(Seq(Piece))
    BY <2>2, AppendProperties DEF QInv, TypeOK
  <2>6. TypeOK'
    BY <1>2, <2>4, <2>5 DEF Yield, QInv, TypeOK, serverVars, senderVars
  <2> QED
    BY <1>2, <2>6 DEF Yield, QInv, SemMatchesQueue, NoEmptyFrame,
                      SocketsBounded, serverVars, senderVars
<1>3. ASSUME NEW n \in 1..Len(down[r]), Recv(r, n)
      PROVE  QInv'
  <2>1. n \in 0..Len(down[r])
    BY <1>1
  <2>2. /\ cbuf[r] \o First(down[r], n) \in Seq(Piece)
        /\ Rest(down[r], n) \in Seq(Piece)
    BY <1>1, <2>1, SplitType, ConcatProperties
  <2>3. Len(Rest(down[r], n)) <= Cap
    <3>1. \A i \in 1..Len(down[r]) : down[r][i] \in Piece
      BY <1>1, ElementOfSeq
    <3> QED
      BY <1>1, <3>1, SubSeqProperties DEF Rest
  <2>4. TypeOK'
    BY <1>3, <2>2 DEF Recv, QInv, TypeOK, serverVars, senderVars
  <2> QED
    BY <1>3, <2>3, <2>4 DEF Recv, QInv, TypeOK, SemMatchesQueue, NoEmptyFrame,
                            SocketsBounded, serverVars, senderVars
<1> QED
  BY <1>2, <1>3

(* A task starts when its client connects.                                 *)
LEMMA NextOffHasNoTask ==
  ASSUME IInv, [Next]_vars
  PROVE  OffHasNoTask'
<1>1. /\ client \in [Clients -> {"off", "open", "dead", "closed"}]
      /\ task \in [Clients -> {"none", "accepted", "sender", "acquire", "sendall",
                               "sleep", "done"}]
      /\ \A c \in Clients : client[c] = "off" => task[c] = "none"
  BY DEF IInv, QInv, TypeOK, OffHasNoTask
<1>2. ASSUME NEW c \in Clients, Connect(c) \/ ServerStep(c)
      PROVE  OffHasNoTask'
  BY <1>1, <1>2 DEF OffHasNoTask, Connect, ServerStep, Handshake, SenderTask,
    SenderEOF, Take, WriteDown, PutBack, Resume, Slept
<1>3. ASSUME NEW s \in Senders,
             Put(s) \/ PutMore(s) \/ SenderDies(s) \/ QueueClosed(s)
      PROVE  OffHasNoTask'
  BY <1>1, <1>3 DEF OffHasNoTask, Put, PutMore, SenderDies, QueueClosed, Clients
<1>4. ASSUME NEW r \in Receivers, ReceiverStep(r) \/ ReceiverDies(r)
      PROVE  OffHasNoTask'
  BY <1>1, <1>4 DEF OffHasNoTask, ReceiverStep, ReceiverDies, Recv, Yield,
    QueueClosed, Clients
<1>5. CASE Close \/ UNCHANGED vars
  BY <1>1, <1>5 DEF OffHasNoTask, Close, vars
<1> QED
  BY <1>2, <1>3, <1>4, <1>5 DEF Next

LEMMA NextIInv ==
  ASSUME IInv, [Next]_vars
  PROVE  IInv'
<1>0. QInv /\ OffHasNoTask
  BY DEF IInv
<1>1. ASSUME UNCHANGED vars PROVE QInv'
  BY <1>0, <1>1 DEF vars, serverVars, senderVars, receiverVars, QInv, TypeOK,
              SemMatchesQueue, NoEmptyFrame, SocketsBounded
<1>2. ASSUME Next PROVE QInv'
  <2>1. ASSUME NEW c \in Clients, ServerStep(c)
        PROVE  QInv'
    <3>1. CASE Handshake(c)
      BY <1>0, <3>1, ClientSteps
    <3>2. CASE c \in Senders /\ \/ \E n \in 1..Len(up[c]) : SenderTask(c, n)
                                \/ SenderEOF(c)
      BY <1>0, <3>2, SenderTaskStep, SenderEOFStep
    <3>3. CASE c \in Receivers /\ (Take(c) \/ Resume(c) \/ Slept(c))
      BY <1>0, <3>3, TakeStep, ResumeStep, SleptStep
    <3> QED
      BY <2>1, <3>1, <3>2, <3>3 DEF ServerStep
  <2>2. ASSUME NEW s \in Senders,
               Put(s) \/ PutMore(s) \/ SenderDies(s) \/ QueueClosed(s)
        PROVE  QInv'
    BY <1>0, <2>2, PutSteps, ClientSteps DEF Clients
  <2>3. ASSUME NEW r \in Receivers, ReceiverStep(r) \/ ReceiverDies(r)
        PROVE  QInv'
    BY <1>0, <2>3, GetSteps, ClientSteps DEF ReceiverStep, Clients
  <2>4. CASE (\E c \in Clients : Connect(c)) \/ Close
    BY <1>0, <2>4, ClientSteps
  <2> QED
    BY <1>2, <2>1, <2>2, <2>3, <2>4 DEF Next
<1>3. QInv'
  BY <1>1, <1>2
<1> QED
  BY <1>3, NextOffHasNoTask DEF IInv

-----------------------------------------------------------------------------
(* Streams.  What a stream socket carries is cut into frames at the last   *)
(* pieces, so it must be a sequence of whole frames, but for its end.      *)

Valid(p) ==
  /\ p[1] \in Senders
  /\ p[2] \in 1..Len(Pieces[p[1]])
  /\ p[3] \in 1..Pieces[p[1]][p[2]]

(* t is a sequence of frames, the last of which may be cut off.            *)
Chain(t) ==
  /\ \A i \in 1..Len(t) : Valid(t[i])
  /\ 1 \in 1..Len(t) => t[1][3] = 1
  /\ \A i \in 1..Len(t) - 1 :
       IF IsLast(t[i]) THEN t[i + 1][3] = 1
                       ELSE t[i + 1] = <<t[i][1], t[i][2], t[i][3] + 1>>

(* And it is not.                                                          *)
Whole(t) == Len(t) \in 1..Len(t) => IsLast(t[Len(t)])

(* The packet that a piece is of.                                          *)
Of(p) == Frame(p[1], p[2])

(* Two sequences one after the other.                                      *)
LEMMA ConcatFacts ==
  ASSUME NEW S, NEW s \in Seq(S), NEW t \in Seq(S)
  PROVE  /\ s \o t \in Seq(S) /\ Len(s \o t) = Len(s) + Len(t)
         /\ Len(s) \in Nat /\ Len(t) \in Nat
         /\ \A i \in 1..Len(s) : i \in 1..Len(s \o t) /\ (s \o t)[i] = s[i]
         /\ \A i \in 1..Len(t) : Len(s) + i \in 1..Len(s \o t) /\ (s \o t)[Len(s) + i] = t[i]
         /\ \A i \in 1..Len(s \o t) :
              \/ i \in 1..Len(s) /\ (s \o t)[i] = s[i]
              \/ i - Len(s) \in 1..Len(t) /\ (s \o t)[i] = t[i - Len(s)]
<1>1. /\ s \o t \in Seq(S) /\ Len(s \o t) = Len(s) + Len(t) /\ Len(s) \in Nat /\ Len(t) \in Nat
      /\ \A i \in 1..Len(s) + Len(t) : (s \o t)[i] = IF i <= Len(s) THEN s[i] ELSE t[i - Len(s)]
  BY ConcatProperties, LenProperties
<1> DEFINE u == s \o t
<1> HIDE DEF u
<1>2. /\ u \in Seq(S) /\ Len(u) = Len(s) + Len(t) /\ Len(s) \in Nat /\ Len(t) \in Nat
      /\ \A i \in 1..Len(s) + Len(t) : u[i] = IF i <= Len(s) THEN s[i] ELSE t[i - Len(s)]
  BY <1>1 DEF u
<1>3. \A i \in 1..Len(s) : i \in 1..Len(u) /\ u[i] = s[i]
  BY <1>2
<1>4. \A i \in 1..Len(t) : Len(s) + i \in 1..Len(u) /\ u[Len(s) + i] = t[i]
  <2> TAKE i \in 1..Len(t)
  <2>1. Len(s) + i \in 1..Len(s) + Len(t) /\ ~(Len(s) + i <= Len(s)) /\ (Len(s) + i) - Len(s) = i
    BY <1>2
  <2> QED
    BY <1>2, <2>1
<1>5. \A i \in 1..Len(u) : \/ i \in 1..Len(s) /\ u[i] = s[i]
                           \/ i - Len(s) \in 1..Len(t) /\ u[i] = t[i - Len(s)]
  BY <1>2
<1> QED
  BY <1>2, <1>3, <1>4, <1>5 DEF u

(* A sequence in two parts.                                                *)
LEMMA SplitFacts ==
  ASSUME NEW S, NEW t \in Seq(S), NEW n \in 0..Len(t)
  PROVE  /\ First(t, n) \in Seq(S) /\ Len(First(t, n)) = n /\ n \in Nat /\ Len(t) \in Nat
         /\ \A i \in 1..n : i \in 1..Len(t) /\ First(t, n)[i] = t[i]
         /\ Rest(t, n) \in Seq(S) /\ Len(Rest(t, n)) = Len(t) - n
         /\ \A i \in 1..Len(t) - n : n + i \in 1..Len(t) /\ Rest(t, n)[i] = t[n + i]
         /\ First(t, n) \o Rest(t, n) = t
<1>1. Len(t) \in Nat /\ n \in Nat /\ n <= Len(t) /\ \A i \in 1..Len(t) : t[i] \in S
  BY LenProperties, ElementOfSeq
<1>2. First(t, n) \in Seq(S) /\ Len(First(t, n)) = n /\ \A i \in 1..n : First(t, n)[i] = t[i]
  BY <1>1 DEF First
<1>3. /\ Rest(t, n) \in Seq(S) /\ Len(Rest(t, n)) = Len(t) - n
      /\ \A i \in 1..Len(t) - n : Rest(t, n)[i] = t[n + i]
  BY <1>1 DEF Rest
<1>4. First(t, n) \o Rest(t, n) = t
  <2> DEFINE a == First(t, n)
             b == Rest(t, n)
  <2> HIDE DEF a, b
  <2>1. a \in Seq(S) /\ Len(a) = n /\ b \in Seq(S) /\ Len(b) = Len(t) - n
    BY <1>2, <1>3 DEF a, b
  <2>2. a \o b \in Seq(S) /\ Len(a \o b) = Len(t)
    BY SMTT(40), <1>1, <2>1, ConcatFacts
  <2>3. ASSUME NEW i \in 1..Len(t) PROVE (a \o b)[i] = t[i]
    <3>1. \/ i \in 1..n /\ (a \o b)[i] = a[i]
          \/ i - n \in 1..Len(b) /\ (a \o b)[i] = b[i - n]
      <4>1. i \in 1..Len(a \o b)
        BY <2>2
      <4>2. \/ i \in 1..Len(a) /\ (a \o b)[i] = a[i]
            \/ i - Len(a) \in 1..Len(b) /\ (a \o b)[i] = b[i - Len(a)]
        BY SMTT(40), <2>1, <4>1, ConcatFacts
      <4> QED
        BY <2>1, <4>2
    <3>2. i \in 1..n => a[i] = t[i]
      BY <1>2 DEF a
    <3>3. i - n \in 1..Len(b) => b[i - n] = t[n + (i - n)]
      BY <1>3, <2>1 DEF b
    <3>4. n + (i - n) = i
      BY <1>1
    <3> QED
      BY <3>1, <3>2, <3>3, <3>4
  <2>4. a \o b = t
    BY <2>2, <2>3, SeqEqual
  <2> QED
    BY <2>4 DEF a, b
<1> QED
  BY <1>1, <1>2, <1>3, <1>4

(* A packet is its first piece's, and a chain.                             *)
LEMMA FrameFacts ==
  ASSUME NEW s \in Senders, NEW k \in 1..Len(Pieces[s])
  PROVE  /\ Pieces[s][k] \in Nat \ {0} /\ k \in Nat
         /\ Frame(s, k) \in Seq(Piece) /\ Len(Frame(s, k)) = Pieces[s][k]
         /\ Frame(s, k) \in Frames
         /\ \A i \in 1..Pieces[s][k] : Frame(s, k)[i] = <<s, k, i>>
<1>1. Pieces[s] \in Seq(Nat \ {0}) /\ k \in Nat
  BY QueueAssumption
<1>2. Pieces[s][k] \in Nat \ {0}
  BY <1>1, ElementOfSeq
<1>3. \A i \in 1..Pieces[s][k] : <<s, k, i>> \in Piece
  BY <1>1, <1>2 DEF Piece
<1>4. Frame(s, k) \in [1..Pieces[s][k] -> Piece]
  BY <1>3 DEF Frame
<1>5. Frame(s, k) \in Seq(Piece) /\ Len(Frame(s, k)) = Pieces[s][k]
  BY <1>2, <1>4
<1>6. Frame(s, k) \in Frames
  BY DEF Frames
<1>7. \A i \in 1..Pieces[s][k] : Frame(s, k)[i] = <<s, k, i>>
  BY DEF Frame
<1> QED
  BY <1>1, <1>2, <1>5, <1>6, <1>7

(* A piece that is valid is one of its packet.                             *)
LEMMA ValidFacts ==
  ASSUME NEW p, Valid(p)
  PROVE  /\ p[1] \in Senders /\ p[2] \in 1..Len(Pieces[p[1]]) /\ p[2] \in Nat /\ p[3] \in Nat \ {0}
         /\ p[3] <= Pieces[p[1]][p[2]] /\ Pieces[p[1]][p[2]] \in Nat
         /\ Of(p) \in Frames /\ Of(p)[1] = <<p[1], p[2], 1>>
<1>1. p[1] \in Senders /\ p[2] \in 1..Len(Pieces[p[1]]) /\ p[3] \in 1..Pieces[p[1]][p[2]]
  BY DEF Valid
<1>2. Pieces[p[1]][p[2]] \in Nat \ {0} /\ p[2] \in Nat /\ Frame(p[1], p[2]) \in Frames
      /\ \A i \in 1..Pieces[p[1]][p[2]] : Frame(p[1], p[2])[i] = <<p[1], p[2], i>>
  BY <1>1, FrameFacts
<1> QED
  BY <1>1, <1>2 DEF Of

LEMMA FramesFacts ==
  ASSUME NEW f \in Frames
  PROVE  /\ f \in Seq(Piece) /\ f # <<>> /\ f = Of(f[1])
         /\ f[1][1] \in Senders /\ f[1][2] \in 1..Len(Pieces[f[1][1]]) /\ f[1][2] \in Nat /\ f[1][3] = 1
         /\ Len(f) = Pieces[f[1][1]][f[1][2]] /\ Len(f) \in Nat \ {0}
         /\ \A i \in 1..Len(f) : f[i] = <<f[1][1], f[1][2], i>> /\ Valid(f[i]) /\ Of(f[i]) = f
         /\ \A i \in 1..Len(f) : IsLast(f[i]) <=> i = Len(f)
<1>1. PICK s \in Senders : \E k \in 1..Len(Pieces[s]) : f = Frame(s, k)
  BY DEF Frames
<1>2. PICK k \in 1..Len(Pieces[s]) : f = Frame(s, k)
  BY <1>1
<1>3. /\ Pieces[s][k] \in Nat \ {0} /\ k \in Nat
      /\ f \in Seq(Piece) /\ Len(f) = Pieces[s][k]
      /\ \A i \in 1..Pieces[s][k] : f[i] = <<s, k, i>>
  BY <1>2, FrameFacts
<1>4. f[1] = <<s, k, 1>> /\ f[1][1] = s /\ f[1][2] = k /\ f[1][3] = 1
  BY <1>3
<1>5. f = Of(f[1]) /\ f # <<>>
  BY <1>2, <1>3, <1>4 DEF Of
<1>6. ASSUME NEW i \in 1..Len(f)
      PROVE  /\ f[i] = <<f[1][1], f[1][2], i>> /\ Valid(f[i]) /\ Of(f[i]) = f
             /\ IsLast(f[i]) <=> i = Len(f)
  <2>1. f[i] = <<s, k, i>> /\ f[i][1] = s /\ f[i][2] = k /\ f[i][3] = i
    BY <1>3
  <2> QED
    BY <1>2, <1>3, <1>4, <2>1 DEF Valid, Of, IsLast
<1> QED
  BY <1>3, <1>4, <1>5, <1>6

(* The beginning of a chain.                                               *)
LEMMA ChainPrefix ==
  ASSUME NEW t \in Seq(Piece), NEW u \in Seq(Piece), Chain(t),
         Len(u) <= Len(t), \A i \in 1..Len(u) : u[i] = t[i]
  PROVE  Chain(u)
<1>1. Len(t) \in Nat /\ Len(u) \in Nat
  BY LenProperties
<1>2. \A i \in 1..Len(u) : i \in 1..Len(t)
  BY <1>1
<1>3. \A i \in 1..Len(u) - 1 : i \in 1..Len(t) - 1 /\ i \in 1..Len(u) /\ i + 1 \in 1..Len(u)
  BY <1>1
<1> QED
  BY <1>2, <1>3, SMTT(60) DEF Chain

(* The rest of a chain after the end of a frame.                           *)
LEMMA ChainSuffix ==
  ASSUME NEW t \in Seq(Piece), Chain(t), NEW e \in 0..Len(t), e = 0 \/ IsLast(t[e])
  PROVE  Chain(Rest(t, e)) /\ (Whole(t) => Whole(Rest(t, e)))
<1> DEFINE u == Rest(t, e)
<1>1. /\ u \in Seq(Piece) /\ Len(u) = Len(t) - e /\ Len(t) \in Nat /\ e \in Nat /\ Len(u) \in Nat
      /\ \A i \in 1..Len(u) : e + i \in 1..Len(t) /\ u[i] = t[e + i]
  <2>1. /\ u \in Seq(Piece) /\ Len(u) = Len(t) - e /\ Len(t) \in Nat /\ e \in Nat
        /\ \A i \in 1..Len(t) - e : e + i \in 1..Len(t) /\ u[i] = t[e + i]
    BY ZenonT(60), SplitFacts
  <2> HIDE DEF u
  <2>2. Len(u) \in Nat
    BY <2>1, LenProperties
  <2> QED
    BY <2>1, <2>2
<1> HIDE DEF u
<1>2. \A i \in 1..Len(u) : Valid(u[i])
  BY <1>1 DEF Chain
<1>3. 1 \in 1..Len(u) => u[1][3] = 1
  <2> SUFFICES ASSUME 1 \in 1..Len(u) PROVE u[1][3] = 1
    OBVIOUS
  <2>1. u[1] = t[e + 1] /\ e + 1 \in 1..Len(t)
    BY <1>1
  <2>2. CASE e = 0
    BY <2>1, <2>2 DEF Chain
  <2>3. CASE e # 0
    <3>1. e \in 1..Len(t) - 1 /\ IsLast(t[e])
      BY <1>1, <2>1, <2>3
    <3> QED
      BY <2>1, <3>1 DEF Chain
  <2> QED
    BY <2>2, <2>3
<1>4. ASSUME NEW i \in 1..Len(u) - 1
      PROVE  IF IsLast(u[i]) THEN u[i + 1][3] = 1 ELSE u[i + 1] = <<u[i][1], u[i][2], u[i][3] + 1>>
  <2>1. u[i] = t[e + i] /\ u[i + 1] = t[(e + i) + 1] /\ e + i \in 1..Len(t) - 1
    <3>1. i \in 1..Len(u) /\ i + 1 \in 1..Len(u) /\ e + (i + 1) = (e + i) + 1
      BY <1>1
    <3>2. u[i] = t[e + i] /\ u[i + 1] = t[e + (i + 1)]
      BY <1>1, <3>1
    <3>3. e + i \in 1..Len(t) - 1
      BY <1>1
    <3> QED
      BY <3>1, <3>2, <3>3
  <2> QED
    BY <2>1 DEF Chain
<1>5. Whole(t) => Whole(u)
  <2> SUFFICES ASSUME Whole(t), Len(u) \in 1..Len(u) PROVE IsLast(u[Len(u)])
    BY DEF Whole
  <2>1. u[Len(u)] = t[Len(t)] /\ Len(t) \in 1..Len(t)
    <3>1. e + Len(u) = Len(t)
      BY <1>1
    <3> QED
      BY <1>1, <3>1
  <2> QED
    BY <2>1 DEF Whole
<1>6. Chain(u)
  BY <1>2, <1>3, <1>4 DEF Chain
<1> QED
  BY <1>5, <1>6 DEF u

(* A packet is a chain, and one chain after another is one.                *)
LEMMA FrameIsChain ==
  ASSUME NEW f \in Frames
  PROVE  Chain(f) /\ Whole(f)
<1>1. /\ Len(f) \in Nat \ {0} /\ \A i \in 1..Len(f) : f[i] = <<f[1][1], f[1][2], i>> /\ Valid(f[i])
      /\ \A i \in 1..Len(f) : IsLast(f[i]) <=> i = Len(f)
      /\ f[1][3] = 1
  BY FramesFacts
<1>2. ASSUME NEW i \in 1..Len(f) - 1
      PROVE  ~IsLast(f[i]) /\ f[i + 1] = <<f[i][1], f[i][2], f[i][3] + 1>>
  <2>1. i \in 1..Len(f) /\ i + 1 \in 1..Len(f) /\ i # Len(f)
    BY <1>1
  <2>2. f[i][1] = f[1][1] /\ f[i][2] = f[1][2] /\ f[i][3] = i
    BY <1>1, <2>1
  <2> QED
    BY <1>1, <2>1, <2>2
<1> QED
  BY <1>1, <1>2 DEF Chain, Whole

LEMMA ChainConcat ==
  ASSUME NEW t \in Seq(Piece), NEW u \in Seq(Piece), Chain(t), Whole(t), Chain(u)
  PROVE  Chain(t \o u) /\ (Whole(u) => Whole(t \o u))
<1> DEFINE v == t \o u
<1>1. /\ v \in Seq(Piece) /\ Len(v) = Len(t) + Len(u) /\ Len(t) \in Nat /\ Len(u) \in Nat
      /\ \A i \in 1..Len(t) : i \in 1..Len(v) /\ v[i] = t[i]
      /\ \A i \in 1..Len(u) : Len(t) + i \in 1..Len(v) /\ v[Len(t) + i] = u[i]
      /\ \A i \in 1..Len(v) : \/ i \in 1..Len(t) /\ v[i] = t[i]
                              \/ i - Len(t) \in 1..Len(u) /\ v[i] = u[i - Len(t)]
  BY ConcatFacts
<1> HIDE DEF v
<1>2. \A i \in 1..Len(v) : Valid(v[i])
  BY <1>1 DEF Chain
<1>3. 1 \in 1..Len(v) => v[1][3] = 1
  <2>1. CASE 1 \in 1..Len(t)
    BY <1>1, <2>1 DEF Chain
  <2>2. CASE 1 \notin 1..Len(t) /\ 1 \in 1..Len(v)
    <3>1. Len(t) = 0 /\ 1 \in 1..Len(u) /\ Len(t) + 1 = 1
      BY <1>1, <2>2
    <3>2. v[1] = u[1]
      BY <1>1, <3>1
    <3> QED
      BY <3>1, <3>2 DEF Chain
  <2> QED
    BY <2>1, <2>2
<1>4. ASSUME NEW i \in 1..Len(v) - 1
      PROVE  IF IsLast(v[i]) THEN v[i + 1][3] = 1 ELSE v[i + 1] = <<v[i][1], v[i][2], v[i][3] + 1>>
  <2>1. CASE i < Len(t)
    <3>1. i \in 1..Len(t) - 1 /\ i \in 1..Len(t) /\ i + 1 \in 1..Len(t)
      BY <1>1, <2>1
    <3> QED
      BY SMTT(40), <1>1, <3>1 DEF Chain
  <2>2. CASE i = Len(t)
    <3>1. Len(t) \in 1..Len(t) /\ 1 \in 1..Len(u)
      BY <1>1, <2>2
    <3>2. v[i] = t[Len(t)] /\ v[i + 1] = u[1]
      BY <1>1, <2>2, <3>1
    <3> QED
      BY <3>1, <3>2 DEF Whole, Chain
  <2>3. CASE i > Len(t)
    <3> DEFINE j == i - Len(t)
    <3>1. j \in 1..Len(u) - 1 /\ j \in 1..Len(u) /\ j + 1 \in 1..Len(u)
          /\ i = Len(t) + j /\ i + 1 = Len(t) + (j + 1)
      BY <1>1, <2>3
    <3> HIDE DEF j
    <3>2. v[i] = u[j] /\ v[i + 1] = u[j + 1]
      BY <1>1, <3>1
    <3> QED
      BY <3>1, <3>2 DEF Chain
  <2> QED
    BY <1>1, <2>1, <2>2, <2>3
<1>5. Whole(u) => Whole(v)
  <2> SUFFICES ASSUME Whole(u), Len(v) \in 1..Len(v) PROVE IsLast(v[Len(v)])
    BY DEF Whole
  <2>1. CASE Len(u) = 0
    <3>1. Len(v) = Len(t) /\ Len(t) \in 1..Len(t)
      BY <1>1, <2>1
    <3> QED
      BY <1>1, <3>1 DEF Whole
  <2>2. CASE Len(u) # 0
    <3>1. Len(u) \in 1..Len(u)
      BY <1>1, <2>2
    <3>2. v[Len(v)] = u[Len(u)]
      BY <1>1, <3>1
    <3> QED
      BY <3>1, <3>2 DEF Whole
  <2> QED
    BY <2>1, <2>2
<1>6. Chain(v)
  BY <1>2, <1>3, <1>4 DEF Chain
<1> QED
  BY <1>5, <1>6 DEF v

-----------------------------------------------------------------------------
(* Cutting streams.                                                        *)

Upto(t, p) == {x \in Ends(t) : x <= p}

LEMMA UptoFinite ==
  ASSUME NEW t \in Seq(Piece), NEW p
  PROVE  IsFiniteSet(Upto(t, p)) /\ Cardinality(Upto(t, p)) \in Nat
<1>1. Upto(t, p) \in SUBSET Ends(t) /\ IsFiniteSet(Ends(t))
  BY EndsFinite DEF Upto
<1> QED
  BY <1>1, FS_Subset, FS_CardinalityType

(* Terminators are numbered by how many there are up to them.              *)
LEMMA EndsCounted ==
  ASSUME NEW t \in Seq(Piece), NEW d \in Ends(t), NEW e \in Ends(t), d < e
  PROVE  Cardinality(Upto(t, d)) < Cardinality(Upto(t, e))
<1>1. d \in 1..Len(t) /\ e \in 1..Len(t) /\ Len(t) \in Nat
  BY EndsFinite, LenProperties
<1>2. Upto(t, d) \cup {e} \in SUBSET Upto(t, e) /\ e \notin Upto(t, d)
  <2>1. \A x \in Ends(t) : x <= d => x <= e
    BY <1>1, EndsFinite
  <2>2. e <= e /\ ~(e <= d)
    BY <1>1
  <2> QED
    BY <2>1, <2>2 DEF Upto
<1>3. Cardinality(Upto(t, d) \cup {e}) = Cardinality(Upto(t, d)) + 1
  BY <1>2, UptoFinite, FS_AddElement
<1>4. Cardinality(Upto(t, d) \cup {e}) <= Cardinality(Upto(t, e))
  BY <1>2, UptoFinite, FS_Subset
<1>5. Cardinality(Upto(t, d)) \in Nat /\ Cardinality(Upto(t, e)) \in Nat
  BY UptoFinite
<1> QED
  BY <1>3, <1>4, <1>5

LEMMA NthEndCounts ==
  ASSUME NEW t \in Seq(Piece), NEW n \in 1..NumFrames(t)
  PROVE  NthEnd(t, n) \in Ends(t) /\ Cardinality(Upto(t, NthEnd(t, n))) = n
BY NthEndExists DEF Upto

LEMMA NthEndIs ==
  ASSUME NEW t \in Seq(Piece), NEW e \in Ends(t), NEW n, Cardinality(Upto(t, e)) = n
  PROVE  n \in 1..NumFrames(t) /\ NthEnd(t, n) = e
<1>1. Ends(t) \subseteq 1..Len(t) /\ IsFiniteSet(Ends(t)) /\ NumFrames(t) \in Nat /\ Len(t) \in Nat
  BY EndsFinite, LenProperties
<1>2. n \in Nat /\ n <= NumFrames(t)
  <2>1. Upto(t, e) \in SUBSET Ends(t)
    BY DEF Upto
  <2> QED
    BY <1>1, <2>1, UptoFinite, FS_Subset DEF NumFrames
<1>3. n # 0
  <2>1. e \in Upto(t, e)
    BY <1>1 DEF Upto
  <2> QED
    BY <2>1, UptoFinite, FS_EmptySet
<1>4. n \in 1..NumFrames(t)
  BY <1>1, <1>2, <1>3
<1>5. NthEnd(t, n) \in Ends(t) /\ Cardinality(Upto(t, NthEnd(t, n))) = n
  BY <1>4, NthEndCounts
<1>6. ~(NthEnd(t, n) < e) /\ ~(e < NthEnd(t, n))
  BY <1>2, <1>5, EndsCounted
<1> QED
  BY <1>1, <1>4, <1>5, <1>6

(* There is no terminator between two that follow each other, and none     *)
(* after the last.                                                         *)
LEMMA NoneBetween ==
  ASSUME NEW t \in Seq(Piece), NEW n \in 1..NumFrames(t), NEW x \in Ends(t),
         NthEnd(t, n - 1) < x
  PROVE  NthEnd(t, n) <= x
<1>1. Ends(t) \subseteq 1..Len(t) /\ Len(t) \in Nat /\ NumFrames(t) \in Nat
  BY EndsFinite, LenProperties
<1>2. NthEnd(t, n) \in Ends(t) /\ Cardinality(Upto(t, NthEnd(t, n))) = n
  BY NthEndCounts
<1>3. SUFFICES ASSUME x < NthEnd(t, n) PROVE FALSE
  BY <1>1, <1>2
<1>4. Cardinality(Upto(t, x)) < n /\ Cardinality(Upto(t, x)) \in Nat
  BY <1>2, <1>3, EndsCounted, UptoFinite
<1>5. CASE n = 1
  <2>1. x \in Upto(t, x)
    BY <1>1 DEF Upto
  <2>2. Cardinality(Upto(t, x)) # 0
    BY <2>1, UptoFinite, FS_EmptySet
  <2> QED
    BY <1>4, <1>5, <2>2
<1>6. CASE n # 1
  <2>1. n - 1 \in 1..NumFrames(t)
    BY <1>1, <1>6
  <2>2. NthEnd(t, n - 1) \in Ends(t) /\ Cardinality(Upto(t, NthEnd(t, n - 1))) = n - 1
    BY <2>1, NthEndCounts
  <2>3. n - 1 < Cardinality(Upto(t, x))
    BY <2>2, EndsCounted
  <2> QED
    BY <1>1, <1>4, <2>1, <2>3
<1> QED
  BY <1>5, <1>6

LEMMA LastEnd ==
  ASSUME NEW t \in Seq(Piece), NEW x \in Ends(t)
  PROVE  NumFrames(t) \in 1..NumFrames(t) /\ x <= NthEnd(t, NumFrames(t))
<1>1. Ends(t) \subseteq 1..Len(t) /\ Len(t) \in Nat /\ NumFrames(t) \in Nat /\ IsFiniteSet(Ends(t))
  BY EndsFinite, LenProperties
<1>2. NumFrames(t) # 0
  BY <1>1, FS_EmptySet DEF NumFrames
<1>3. NumFrames(t) \in 1..NumFrames(t)
  BY <1>1, <1>2
<1> DEFINE e == NthEnd(t, NumFrames(t))
<1>4. e \in Ends(t) /\ Cardinality(Upto(t, e)) = NumFrames(t)
  BY <1>3, NthEndCounts
<1>5. Upto(t, x) \in SUBSET Ends(t)
  BY DEF Upto
<1>6. Cardinality(Upto(t, x)) <= NumFrames(t) /\ Cardinality(Upto(t, x)) \in Nat
  BY <1>1, <1>5, FS_Subset, UptoFinite DEF NumFrames
<1>7. ~(e < x)
  BY <1>1, <1>4, <1>6, EndsCounted
<1> QED
  BY <1>1, <1>3, <1>4, <1>7

(* The pieces of a chain from the beginning of a frame to its terminator.  *)
LEMMA ChainRuns ==
  ASSUME NEW t \in Seq(Piece), Chain(t), NEW d \in 0..Len(t), NEW e \in 1..Len(t), d < e,
         d = 0 \/ IsLast(t[d]), \A x \in 1..Len(t) : d < x /\ x < e => ~IsLast(t[x])
  PROVE  \A i \in 1..e - d : t[d + i] = <<t[d + 1][1], t[d + 1][2], i>>
<1> DEFINE s == t[d + 1][1]
           k == t[d + 1][2]
           Wrong == {i \in 1..e - d : t[d + i] # <<s, k, i>>}
<1>1. Len(t) \in Nat /\ d \in Nat /\ e \in Nat /\ d + 1 \in 1..Len(t)
  BY LenProperties
<1>2. t[d + 1] = <<s, k, 1>>
  <2>1. t[d + 1] \in Piece
    BY <1>1, ElementOfSeq
  <2>2. t[d + 1][3] = 1
    <3>1. CASE d = 0
      BY <1>1, <3>1 DEF Chain
    <3>2. CASE d # 0
      <4>1. d \in 1..Len(t) - 1 /\ IsLast(t[d])
        BY <1>1, <3>2
      <4> QED
        BY <4>1 DEF Chain
    <3> QED
      BY <3>1, <3>2
  <2> DEFINE p == t[d + 1]
  <2>3. \E a \in Senders, b \in Nat, c \in Nat : p = <<a, b, c>>
    <3> HIDE DEF p
    <3>1. p \in Piece
      BY <2>1 DEF p
    <3> QED
      BY <3>1 DEF Piece
  <2>4. p = <<p[1], p[2], p[3]>>
    <3> HIDE DEF p
    <3> QED
      BY <2>3
  <2> QED
    BY <2>2, <2>4
<1>3. SUFFICES ASSUME Wrong # {} PROVE FALSE
  OBVIOUS
<1>4. PICK i \in Wrong : \A j \in Wrong : i <= j
  <2>1. Wrong \subseteq Nat
    BY <1>1
  <2> HIDE DEF Wrong
  <2> QED
    BY <1>3, <2>1, LeastElement
<1>5. i \in 1..e - d /\ t[d + i] # <<s, k, i>> /\ i # 1
  BY <1>2
<1>6. i - 1 \in 1..e - d /\ i - 1 \notin Wrong
  <2>1. i - 1 \in 1..e - d /\ i - 1 \in Nat /\ ~(i <= i - 1)
    BY <1>1, <1>5
  <2> HIDE DEF Wrong
  <2> QED
    BY <1>4, <2>1
<1>7. t[d + (i - 1)] = <<s, k, i - 1>>
  BY <1>6
<1>8. /\ d + (i - 1) \in 1..Len(t) - 1 /\ d + (i - 1) \in 1..Len(t)
      /\ d < d + (i - 1) /\ d + (i - 1) < e /\ (d + (i - 1)) + 1 = d + i
  <2>1. i \in Nat /\ 1 < i /\ i <= e - d
    BY <1>1, <1>5
  <2> HIDE DEF s, k, Wrong
  <2> QED
    BY <1>1, <2>1
<1>9. ~IsLast(t[d + (i - 1)])
  BY <1>8
<1> HIDE DEF s, k, Wrong
<1>10. t[d + i] = <<t[d + (i - 1)][1], t[d + (i - 1)][2], t[d + (i - 1)][3] + 1>>
  BY <1>8, <1>9 DEF Chain
<1>11. t[d + i] = <<s, k, (i - 1) + 1>>
  BY <1>7, <1>10
<1>12. (i - 1) + 1 = i
  BY <1>5
<1> QED
  BY <1>5, <1>11, <1>12

(* What is cut out of a chain are packets: the one that ends there.        *)
LEMMA CutIsFrame ==
  ASSUME NEW t \in Seq(Piece), Chain(t), NEW n \in 1..NumFrames(t)
  PROVE  /\ Cut(t)[n] = Of(t[NthEnd(t, n)])
         /\ Cut(t)[n] \in Frames
<1> DEFINE d == NthEnd(t, n - 1)
           e == NthEnd(t, n)
<1>1. d \in 0..Len(t) /\ e \in 1..Len(t) /\ d < e /\ Len(t) \in Nat
  BY NthEndIncreases, LenProperties
<1>2. e \in Ends(t)
  BY NthEndCounts
<1>3. IsLast(t[e])
  BY <1>2 DEF Ends
<1>4. d = 0 \/ IsLast(t[d])
  <2>1. CASE n = 1
    BY <2>1 DEF NthEnd
  <2>2. CASE n # 1
    <3>1. n - 1 \in 1..NumFrames(t)
      BY <2>2, EndsFinite
    <3>2. d \in Ends(t)
      BY <3>1, NthEndCounts
    <3> QED
      BY <3>2 DEF Ends
  <2> QED
    BY <2>1, <2>2
<1>5. \A x \in 1..Len(t) : d < x /\ x < e => ~IsLast(t[x])
  <2> SUFFICES ASSUME NEW x \in 1..Len(t), d < x, x < e, IsLast(t[x]) PROVE FALSE
    OBVIOUS
  <2>1. x \in Ends(t)
    BY DEF Ends
  <2>2. e <= x
    BY <2>1, NoneBetween
  <2> QED
    BY <1>1, <2>2
<1>6. Cut(t)[n] = SubSeq(t, d + 1, e)
  BY DEF Cut
<1> HIDE DEF d, e
<1> DEFINE s == t[d + 1][1]
           k == t[d + 1][2]
           m == e - d
<1>7. \A i \in 1..m : t[d + i] = <<s, k, i>>
  BY <1>1, <1>4, <1>5, ChainRuns
<1>8. m \in Nat \ {0} /\ d + m = e /\ m \in 1..m
  BY <1>1
<1>9. t[e] = <<s, k, m>>
  BY <1>7, <1>8
<1>10. Valid(t[e])
  BY <1>1 DEF Chain
<1>11. s \in Senders /\ k \in 1..Len(Pieces[s]) /\ m = Pieces[s][k]
  BY <1>3, <1>9, <1>10 DEF Valid, IsLast
<1>12. Cut(t)[n] = Frame(s, k)
  <2>1. \A i \in 1..Len(t) : t[i] \in Piece
    BY ElementOfSeq
  <2>2. /\ SubSeq(t, d + 1, e) \in Seq(Piece) /\ Len(SubSeq(t, d + 1, e)) = m
        /\ \A i \in 1..m : SubSeq(t, d + 1, e)[i] = t[d + i]
    BY <1>1, <2>1
  <2> HIDE DEF s, k, m
  <2>3. /\ Frame(s, k) \in Seq(Piece) /\ Len(Frame(s, k)) = m
        /\ \A i \in 1..m : Frame(s, k)[i] = <<s, k, i>>
    BY <1>11, FrameFacts
  <2>4. \A i \in 1..m : SubSeq(t, d + 1, e)[i] = Frame(s, k)[i]
    BY <1>7, <2>2, <2>3
  <2> QED
    BY <1>6, <2>2, <2>3, <2>4, SeqEqual
<1>13. Of(t[e]) = Frame(s, k)
  BY <1>9 DEF Of
<1> QED
  BY <1>11, <1>12, <1>13, FrameFacts DEF e

(* The terminators of a stream stay where they are when it goes on.        *)
LEMMA ConcatEnds ==
  ASSUME NEW t \in Seq(Piece), NEW u \in Seq(Piece)
  PROVE  /\ Ends(t \o u) = Ends(t) \cup {Len(t) + x : x \in Ends(u)}
         /\ \A p \in 0..Len(t) : Upto(t \o u, p) = Upto(t, p)
         /\ NumFrames(t) <= NumFrames(t \o u)
         /\ \A n \in 0..NumFrames(t) : NthEnd(t \o u, n) = NthEnd(t, n)
<1> DEFINE v == t \o u
<1>1. /\ v \in Seq(Piece) /\ Len(v) = Len(t) + Len(u) /\ Len(t) \in Nat /\ Len(u) \in Nat
      /\ \A i \in 1..Len(t) : i \in 1..Len(v) /\ v[i] = t[i]
      /\ \A i \in 1..Len(u) : Len(t) + i \in 1..Len(v) /\ v[Len(t) + i] = u[i]
      /\ \A i \in 1..Len(v) : \/ i \in 1..Len(t) /\ v[i] = t[i]
                              \/ i - Len(t) \in 1..Len(u) /\ v[i] = u[i - Len(t)]
  BY ConcatFacts
<1> HIDE DEF v
<1>2. Ends(v) = Ends(t) \cup {Len(t) + x : x \in Ends(u)}
  <2>1. ASSUME NEW i \in Ends(v) PROVE i \in Ends(t) \/ \E x \in Ends(u) : i = Len(t) + x
    <3>1. i \in 1..Len(v) /\ IsLast(v[i])
      BY <2>1 DEF Ends
    <3>2. CASE i \in 1..Len(t) /\ v[i] = t[i]
      BY <3>1, <3>2 DEF Ends
    <3>3. CASE i - Len(t) \in 1..Len(u) /\ v[i] = u[i - Len(t)]
      <4>1. i - Len(t) \in Ends(u) /\ i = Len(t) + (i - Len(t))
        BY <1>1, <3>1, <3>3 DEF Ends
      <4> QED
        BY <4>1
    <3> QED
      BY <1>1, <3>1, <3>2, <3>3
  <2>2. \A i \in Ends(t) : i \in Ends(v)
    BY <1>1 DEF Ends
  <2>3. \A x \in Ends(u) : Len(t) + x \in Ends(v)
    BY <1>1 DEF Ends
  <2> QED
    BY <2>1, <2>2, <2>3
<1>3. \A p \in 0..Len(t) : Upto(v, p) = Upto(t, p)
  <2> TAKE p \in 0..Len(t)
  <2>1. \A x \in Ends(u) : ~(Len(t) + x <= p)
    BY <1>1, EndsFinite
  <2> QED
    BY <1>2, <2>1 DEF Upto
<1>4. NumFrames(t) <= NumFrames(v)
  BY <1>1, <1>2, EndsFinite, FS_Subset DEF NumFrames
<1>5. ASSUME NEW n \in 0..NumFrames(t) PROVE NthEnd(v, n) = NthEnd(t, n)
  <2>1. CASE n = 0
    BY <2>1 DEF NthEnd
  <2>2. CASE n # 0
    <3>1. n \in 1..NumFrames(t)
      BY <2>2, EndsFinite
    <3> DEFINE e == NthEnd(t, n)
    <3>2. e \in Ends(t) /\ Cardinality(Upto(t, e)) = n
      BY <3>1, NthEndCounts
    <3>3. e \in Ends(v) /\ e \in 0..Len(t)
      BY <1>1, <1>2, <3>2, EndsFinite
    <3>4. Cardinality(Upto(v, e)) = n
      BY <1>3, <3>2, <3>3
    <3> QED
      BY <1>1, <3>3, <3>4, NthEndIs
  <2> QED
    BY <2>1, <2>2
<1> QED
  BY <1>2, <1>3, <1>4, <1>5 DEF v

(* And so do the frames that can be cut.                                   *)
LEMMA ConcatCut ==
  ASSUME NEW t \in Seq(Piece), NEW u \in Seq(Piece), NEW n \in 1..NumFrames(t)
  PROVE  Cut(t \o u)[n] = Cut(t)[n]
<1> DEFINE v == t \o u
           d == NthEnd(t, n - 1)
           e == NthEnd(t, n)
<1>1. NumFrames(t) \in Nat /\ NumFrames(v) \in Nat /\ Len(t) \in Nat /\ Len(u) \in Nat
      /\ v \in Seq(Piece) /\ Len(v) = Len(t) + Len(u) /\ \A i \in 1..Len(t) : v[i] = t[i]
  <2>1. /\ v \in Seq(Piece) /\ Len(v) = Len(t) + Len(u) /\ Len(t) \in Nat /\ Len(u) \in Nat
        /\ \A i \in 1..Len(t) : v[i] = t[i]
    BY ConcatFacts
  <2> HIDE DEF v
  <2> QED
    BY <2>1, EndsFinite
<1>2. n \in 1..NumFrames(v) /\ NthEnd(v, n) = e /\ NthEnd(v, n - 1) = d
  <2>1. NumFrames(t) <= NumFrames(v) /\ n \in 0..NumFrames(t) /\ n - 1 \in 0..NumFrames(t)
    BY <1>1, ConcatEnds
  <2> QED
    BY <1>1, <2>1, ConcatEnds
<1>3. Cut(v)[n] = SubSeq(v, d + 1, e) /\ Cut(t)[n] = SubSeq(t, d + 1, e)
  BY <1>2 DEF Cut
<1>4. d \in 0..Len(t) /\ e \in 1..Len(t) /\ d < e
  BY NthEndIncreases
<1> HIDE DEF d, e, v
<1>5. SubSeq(v, d + 1, e) = SubSeq(t, d + 1, e)
  <2>1. \A i \in 1..Len(t) : t[i] \in Piece
    BY ElementOfSeq
  <2>2. \A i \in 1..Len(v) : v[i] \in Piece
    BY <1>1, ElementOfSeq
  <2>3. /\ SubSeq(v, d + 1, e) \in Seq(Piece) /\ Len(SubSeq(v, d + 1, e)) = e - d
        /\ \A i \in 1..e - d : SubSeq(v, d + 1, e)[i] = v[d + i]
    BY <1>1, <1>4, <2>2
  <2>4. /\ SubSeq(t, d + 1, e) \in Seq(Piece) /\ Len(SubSeq(t, d + 1, e)) = e - d
        /\ \A i \in 1..e - d : SubSeq(t, d + 1, e)[i] = t[d + i]
    BY <1>1, <1>4, <2>1
  <2>5. \A i \in 1..e - d : v[d + i] = t[d + i]
    <3> TAKE i \in 1..e - d
    <3>1. d + i \in 1..Len(t)
      BY <1>1, <1>4
    <3> QED
      BY <1>1, <3>1
  <2> QED
    BY <2>3, <2>4, <2>5, SeqEqual
<1> QED
  BY <1>3, <1>5 DEF v

(* More pieces of a frame that has not ended make no difference.           *)
LEMMA CutUnended ==
  ASSUME NEW t \in Seq(Piece), NEW u \in Seq(Piece), Ends(u) = {}
  PROVE  Cut(t \o u) = Cut(t)
<1> DEFINE v == t \o u
<1>1. v \in Seq(Piece) /\ Ends(v) = Ends(t)
  <2>1. {Len(t) + x : x \in Ends(u)} = {}
    OBVIOUS
  <2>2. Ends(v) = Ends(t) \cup {}
    BY <2>1, ConcatEnds
  <2> QED
    BY <2>2, ConcatFacts
<1>2. NumFrames(v) = NumFrames(t)
  BY <1>1 DEF NumFrames
<1>3. Cut(v) \in Seq(Seq(Piece)) /\ Len(Cut(v)) = NumFrames(v)
      /\ Cut(t) \in Seq(Seq(Piece)) /\ Len(Cut(t)) = NumFrames(t)
  BY <1>1, CutType
<1>4. \A n \in 1..NumFrames(t) : Cut(v)[n] = Cut(t)[n]
  BY ConcatCut
<1> HIDE DEF v
<1>5. Cut(v) = Cut(t)
  BY <1>2, <1>3, <1>4, SeqEqual
<1> QED
  BY <1>5 DEF v

(* The end of a frame makes one more.                                      *)
LEMMA CutEnded ==
  ASSUME NEW t \in Seq(Piece), NEW u \in Seq(Piece), u # <<>>, Ends(u) = {Len(u)}, Chain(t \o u)
  PROVE  /\ Cut(t \o u) = Append(Cut(t), Of(u[Len(u)]))
         /\ Of(u[Len(u)]) \in Frames
<1> DEFINE v == t \o u
<1>1. /\ v \in Seq(Piece) /\ Len(v) = Len(t) + Len(u) /\ Len(t) \in Nat /\ Len(u) \in Nat \ {0}
      /\ v[Len(v)] = u[Len(u)]
  <2>1. Len(u) \in Nat \ {0}
    BY EmptySeq, LenProperties
  <2>2. Len(u) \in 1..Len(u)
    BY <2>1
  <2> QED
    BY <2>1, <2>2, ConcatFacts
<1>2. Ends(v) = Ends(t) \cup {Len(v)} /\ Len(v) \notin Ends(t)
  <2>1. {Len(t) + x : x \in Ends(u)} = {Len(v)}
    BY <1>1
  <2>2. Ends(t) \subseteq 1..Len(t)
    BY EndsFinite
  <2> QED
    BY <1>1, <2>1, <2>2, ConcatEnds
<1>3. NumFrames(v) = NumFrames(t) + 1 /\ NumFrames(t) \in Nat
  BY <1>2, EndsFinite, FS_AddElement DEF NumFrames
<1>4. NthEnd(v, NumFrames(v)) = Len(v)
  <2> HIDE DEF v
  <2>1. Upto(v, Len(v)) = Ends(v)
    <3>1. v \in Seq(Piece) /\ Len(v) \in Nat
      BY <1>1
    <3>2. Ends(v) \subseteq 1..Len(v)
      BY <3>1, EndsFinite
    <3> QED
      BY <3>1, <3>2 DEF Upto
  <2>2. Len(v) \in Ends(v) /\ Cardinality(Upto(v, Len(v))) = NumFrames(v)
    BY <1>2, <2>1 DEF NumFrames
  <2> QED
    BY <1>1, <2>2, NthEndIs
<1>5. Cut(v)[NumFrames(t) + 1] = Of(u[Len(u)]) /\ Of(u[Len(u)]) \in Frames
  <2>1. NumFrames(v) \in 1..NumFrames(v)
    BY <1>3
  <2>2. Chain(v) /\ v \in Seq(Piece)
    BY <1>1
  <2> HIDE DEF v
  <2>3. Cut(v)[NumFrames(v)] = Of(v[Len(v)]) /\ Cut(v)[NumFrames(v)] \in Frames
    BY <1>4, <2>1, <2>2, CutIsFrame
  <2> QED
    BY <1>1, <1>3, <2>3
<1>6. /\ Cut(v) \in Seq(Seq(Piece)) /\ Len(Cut(v)) = NumFrames(t) + 1
      /\ Cut(t) \in Seq(Seq(Piece)) /\ Len(Cut(t)) = NumFrames(t)
  BY <1>1, <1>3, CutType
<1>7. \A n \in 1..NumFrames(t) : Cut(v)[n] = Cut(t)[n]
  BY ConcatCut
<1> DEFINE f == Of(u[Len(u)])
           a == Cut(v)
           b == Cut(t)
<1> HIDE DEF v, f, a, b
<1>8. a = Append(b, f)
  <2>1. f \in Seq(Piece)
    BY <1>5, FramesFacts DEF f
  <2>2. b \in Seq(Seq(Piece)) /\ a \in Seq(Seq(Piece)) /\ Len(b) = NumFrames(t) /\ Len(a) = Len(b) + 1
    BY <1>6 DEF a, b
  <2>3. /\ Append(b, f) \in Seq(Seq(Piece)) /\ Len(Append(b, f)) = Len(b) + 1
        /\ \A i \in 1..Len(b) : Append(b, f)[i] = b[i]
        /\ Append(b, f)[Len(b) + 1] = f
    BY <2>1, <2>2, AppendProperties
  <2>4. \A i \in 1..Len(b) : a[i] = b[i]
    BY <1>7, <2>2 DEF a, b
  <2>5. a[Len(b) + 1] = f
    BY <1>5, <2>2 DEF a, f
  <2>6. \A i \in 1..Len(b) + 1 : a[i] = Append(b, f)[i]
    BY <1>3, <2>2, <2>3, <2>4, <2>5
  <2> QED
    BY <2>2, <2>3, <2>6, SeqEqual
<1> QED
  BY <1>5, <1>8 DEF v, f, a, b

(* The terminators of a stream's second part are counted after those of    *)
(* its first one.                                                          *)
LEMMA ConcatCounts ==
  ASSUME NEW t \in Seq(Piece), NEW u \in Seq(Piece), NEW p \in Nat
  PROVE  Cardinality(Upto(t \o u, Len(t) + p)) = NumFrames(t) + Cardinality(Upto(u, p))
<1> DEFINE A == Ends(t)
           U == Upto(u, p)
           l == Len(t)
           B == {l + x : x \in U}
           g == [x \in U |-> l + x]
<1>1. l \in Nat /\ A \subseteq 1..l /\ IsFiniteSet(A) /\ Ends(u) \subseteq 1..Len(u) /\ Len(u) \in Nat
  BY EndsFinite, LenProperties
<1>2. U \subseteq Nat \ {0} /\ IsFiniteSet(U) /\ Cardinality(U) \in Nat
  <2>1. U \subseteq Ends(u)
    BY DEF Upto
  <2>2. IsFiniteSet(U) /\ Cardinality(U) \in Nat
    BY UptoFinite
  <2> HIDE DEF U
  <2> QED
    BY <1>1, <2>1, <2>2
<1>3. Upto(t \o u, l + p) = A \cup B
  <2>1. Ends(t \o u) = A \cup {l + x : x \in Ends(u)}
    BY ConcatEnds
  <2>2. \A x \in A : x <= l + p
    BY <1>1
  <2>3. \A x \in Ends(u) : l + x <= l + p <=> x <= p
    BY <1>1
  <2> QED
    BY <2>1, <2>2, <2>3 DEF Upto
<1>4. IsFiniteSet(B) /\ Cardinality(B) = Cardinality(U)
  <2>1. \A x, y \in U : l + x = l + y => x = y
    BY <1>1, <1>2
  <2> HIDE DEF U, l
  <2>2. g \in Bijection(U, B)
    BY <2>1 DEF Bijection, Injection, Surjection, IsInjective
  <2>3. ExistsBijection(U, B)
    BY <2>2 DEF ExistsBijection
  <2> HIDE DEF B
  <2> QED
    BY <1>2, <2>3, FS_Bijection
<1>5. A \cap B = {}
  <2>1. \A x \in U : l + x \notin 1..l
    BY <1>1, <1>2
  <2> QED
    BY <1>1, <2>1
<1>6. Cardinality(A \cup B) = Cardinality(A) + Cardinality(B)
  <2>1. Cardinality(A) \in Nat /\ Cardinality(B) \in Nat
    BY <1>1, <1>4, FS_CardinalityType
  <2> HIDE DEF A, B
  <2>2. Cardinality(A \cup B) = Cardinality(A) + Cardinality(B) - Cardinality(A \cap B)
    BY <1>1, <1>4, FS_Union
  <2>3. Cardinality(A \cap B) = 0
    BY <1>5, FS_EmptySet
  <2> QED
    BY <2>1, <2>2, <2>3
<1> QED
  BY <1>3, <1>4, <1>6 DEF NumFrames

(* Whole frames and what follows them are cut one after the other.         *)
LEMMA CutConcat ==
  ASSUME NEW t \in Seq(Piece), NEW u \in Seq(Piece), Whole(t)
  PROVE  Cut(t \o u) = Cut(t) \o Cut(u)
<1> DEFINE v == t \o u
           N == NumFrames(t)
           M == NumFrames(u)
           l == Len(t)
<1>1. /\ v \in Seq(Piece) /\ Len(v) = l + Len(u) /\ l \in Nat /\ Len(u) \in Nat
      /\ \A i \in 1..Len(u) : v[l + i] = u[i]
  BY ConcatFacts
<1>2. N \in Nat /\ M \in Nat /\ Ends(u) \subseteq 1..Len(u) /\ Ends(t) \subseteq 1..l
  BY EndsFinite
<1>3. NumFrames(v) = N + M
  <2>1. Upto(u, Len(u)) = Ends(u)
    BY <1>1, <1>2 DEF Upto
  <2>2. Upto(v, l + Len(u)) = Ends(v)
    <3> HIDE DEF v
    <3>1. Ends(v) \subseteq 1..Len(v)
      BY <1>1, EndsFinite
    <3> QED
      BY <1>1, <3>1 DEF Upto
  <2>3. Cardinality(Upto(v, l + Len(u))) = N + Cardinality(Upto(u, Len(u)))
    BY <1>1, ConcatCounts
  <2> QED
    BY <2>1, <2>2, <2>3 DEF NumFrames
<1>4. ASSUME NEW n \in 1..M PROVE NthEnd(v, N + n) = l + NthEnd(u, n)
  <2> DEFINE e == NthEnd(u, n)
  <2>1. e \in Ends(u) /\ Cardinality(Upto(u, e)) = n
    BY NthEndCounts
  <2>2. e \in Nat /\ l + e \in Ends(v)
    BY <1>2, <2>1, ConcatEnds
  <2>3. Cardinality(Upto(v, l + e)) = N + n
    BY <2>1, <2>2, ConcatCounts
  <2> HIDE DEF v, e, N
  <2>4. NthEnd(v, N + n) = l + e
    BY <1>1, <2>2, <2>3, NthEndIs
  <2> QED
    BY <2>4 DEF e
<1>5. NthEnd(v, N) = l
  <2>1. NthEnd(v, N) = NthEnd(t, N)
    <3>1. N \in 0..N
      BY <1>2
    <3> QED
      BY <3>1, ConcatEnds
  <2>2. CASE l = 0
    <3>1. Ends(t) = {}
      BY <1>2, <2>2
    <3>2. N = 0
      BY <3>1, FS_EmptySet DEF NumFrames
    <3> QED
      BY <2>1, <2>2, <3>2 DEF NthEnd
  <2>3. CASE l # 0
    <3>1. l \in 1..l
      BY <1>1, <2>3
    <3>2. l \in Ends(t)
      BY <3>1 DEF Whole, Ends
    <3>3. N \in 1..N /\ l <= NthEnd(t, N)
      BY <3>2, LastEnd
    <3>4. NthEnd(t, N) \in 1..l
      BY <1>2, <3>3, NthEndCounts
    <3> QED
      BY <1>1, <2>1, <3>3, <3>4
  <2> QED
    BY <2>2, <2>3
<1>6. \A n \in 0..M : NthEnd(v, N + n) = l + NthEnd(u, n)
  <2> TAKE n \in 0..M
  <2>1. CASE n = 0
    <3>1. NthEnd(u, n) = 0 /\ N + n = N
      BY <1>2, <2>1 DEF NthEnd
    <3> QED
      BY <1>1, <1>5, <3>1
  <2>2. CASE n # 0
    <3>1. n \in 1..M
      BY <1>2, <2>2
    <3> QED
      BY <1>4, <3>1
  <2> QED
    BY <2>1, <2>2
<1>7. ASSUME NEW n \in 1..M PROVE N + n \in 1..NumFrames(v) /\ Cut(v)[N + n] = Cut(u)[n]
  <2> DEFINE d == NthEnd(u, n - 1)
             e == NthEnd(u, n)
  <2>1. N + n \in 1..NumFrames(v) /\ n - 1 \in 0..M /\ n \in 0..M /\ (N + n) - 1 = N + (n - 1)
    BY <1>2, <1>3
  <2>2. NthEnd(v, N + n) = l + e /\ NthEnd(v, (N + n) - 1) = l + d
    BY <1>6, <2>1
  <2>3. Cut(v)[N + n] = SubSeq(v, (l + d) + 1, l + e) /\ Cut(u)[n] = SubSeq(u, d + 1, e)
    BY <2>1, <2>2 DEF Cut
  <2>4. d \in 0..Len(u) /\ e \in 1..Len(u) /\ d < e
    BY NthEndIncreases
  <2>5. (\A i \in 1..Len(u) : u[i] \in Piece) /\ \A i \in 1..Len(v) : v[i] \in Piece
    BY <1>1, ElementOfSeq
  <2> HIDE DEF d, e, v, l
  <2>6. /\ SubSeq(v, (l + d) + 1, l + e) \in Seq(Piece) /\ Len(SubSeq(v, (l + d) + 1, l + e)) = e - d
        /\ \A i \in 1..e - d : SubSeq(v, (l + d) + 1, l + e)[i] = v[l + (d + i)]
    BY <1>1, <2>4, <2>5
  <2>7. /\ SubSeq(u, d + 1, e) \in Seq(Piece) /\ Len(SubSeq(u, d + 1, e)) = e - d
        /\ \A i \in 1..e - d : SubSeq(u, d + 1, e)[i] = u[d + i]
    BY <1>1, <2>4, <2>5
  <2>8. \A i \in 1..e - d : v[l + (d + i)] = u[d + i]
    <3> TAKE i \in 1..e - d
    <3>1. d + i \in 1..Len(u)
      BY <1>1, <2>4
    <3> QED
      BY <1>1, <3>1
  <2>9. SubSeq(v, (l + d) + 1, l + e) = SubSeq(u, d + 1, e)
    BY ZenonT(60), <2>6, <2>7, <2>8, SeqEqual
  <2> QED
    BY <2>1, <2>3, <2>9
<1>8. /\ Cut(v) \in Seq(Seq(Piece)) /\ Len(Cut(v)) = N + M
      /\ Cut(t) \in Seq(Seq(Piece)) /\ Len(Cut(t)) = N
      /\ Cut(u) \in Seq(Seq(Piece)) /\ Len(Cut(u)) = M
  BY <1>1, <1>3, CutType
<1>9. \A n \in 1..N : Cut(v)[n] = Cut(t)[n]
  BY ConcatCut
<1> DEFINE a == Cut(t)
           b == Cut(u)
           c == Cut(v)
<1>10. c = a \o b
  <2>1. /\ a \in Seq(Seq(Piece)) /\ Len(a) = N /\ b \in Seq(Seq(Piece)) /\ Len(b) = M
        /\ c \in Seq(Seq(Piece)) /\ Len(c) = N + M
    BY <1>8
  <2>2. (\A n \in 1..N : c[n] = a[n]) /\ \A n \in 1..M : c[N + n] = b[n]
    BY <1>7, <1>9
  <2> HIDE DEF a, b, c, N, M, v
  <2>3. /\ a \o b \in Seq(Seq(Piece)) /\ Len(a \o b) = N + M
        /\ \A i \in 1..Len(a \o b) : \/ i \in 1..Len(a) /\ (a \o b)[i] = a[i]
                                     \/ i - Len(a) \in 1..Len(b) /\ (a \o b)[i] = b[i - Len(a)]
    <3> DEFINE P == Seq(Piece)
    <3> HIDE DEF P
    <3>1. a \in Seq(P) /\ b \in Seq(P)
      BY <2>1 DEF P
    <3>2. /\ a \o b \in Seq(P) /\ Len(a \o b) = Len(a) + Len(b)
          /\ \A i \in 1..Len(a \o b) : \/ i \in 1..Len(a) /\ (a \o b)[i] = a[i]
                                       \/ i - Len(a) \in 1..Len(b) /\ (a \o b)[i] = b[i - Len(a)]
      BY <3>1, ConcatFacts
    <3> QED
      BY <2>1, <3>2 DEF P
  <2>4. ASSUME NEW i \in 1..N + M PROVE c[i] = (a \o b)[i]
    <3>1. CASE i \in 1..Len(a) /\ (a \o b)[i] = a[i]
      BY <2>1, <2>2, <3>1
    <3>2. CASE i - Len(a) \in 1..Len(b) /\ (a \o b)[i] = b[i - Len(a)]
      <4>1. i - N \in 1..M /\ N + (i - N) = i
        BY <1>2, <2>1, <3>2
      <4>2. c[N + (i - N)] = b[i - N]
        BY <2>2, <4>1
      <4> QED
        BY <2>1, <3>2, <4>1, <4>2
    <3> QED
      BY <2>3, <3>1, <3>2
  <2> QED
    BY <2>1, <2>3, <2>4, SeqEqual
<1> QED
  BY <1>10 DEF v

(* The first frame is cut, then the others.                                *)
LEMMA CutFirst ==
  ASSUME NEW t \in Seq(Piece), NumFrames(t) # 0
  PROVE  /\ NthEnd(t, 1) \in 1..Len(t) /\ IsLast(t[NthEnd(t, 1)])
         /\ Cut(t) # <<>> /\ Head(Cut(t)) = Cut(t)[1]
         /\ Tail(Cut(t)) = Cut(Rest(t, NthEnd(t, 1)))
<1> DEFINE e == NthEnd(t, 1)
           a == First(t, e)
           b == Rest(t, e)
<1>1. NumFrames(t) \in Nat /\ Len(t) \in Nat /\ Ends(t) \subseteq 1..Len(t) /\ 1 \in 1..NumFrames(t)
  BY EndsFinite, LenProperties
<1>2. e \in Ends(t) /\ e \in 1..Len(t) /\ IsLast(t[e])
  BY <1>1, NthEndCounts DEF Ends
<1>3. /\ a \in Seq(Piece) /\ Len(a) = e /\ b \in Seq(Piece) /\ t = a \o b
      /\ \A i \in 1..e : i \in 1..Len(t) /\ a[i] = t[i]
  <2>1. e \in 0..Len(t)
    BY <1>1, <1>2
  <2> HIDE DEF e
  <2> QED
    BY <2>1, SplitFacts
<1>4. Ends(a) = {e}
  <2>1. \A x \in Ends(t) : e <= x
    <3> TAKE x \in Ends(t)
    <3>1. NthEnd(t, 1 - 1) < x
      BY <1>1 DEF NthEnd
    <3> QED
      BY <1>1, <3>1, NoneBetween
  <2>2. \A x \in 1..e : x \in Ends(a) <=> x \in Ends(t)
    BY <1>3 DEF Ends
  <2>3. Ends(a) \subseteq 1..e
    BY <1>3 DEF Ends
  <2>4. e \in Nat /\ e \in 1..e
    BY <1>1, <1>2
  <2>5. ASSUME NEW x \in Ends(a) PROVE x = e
    <3>1. x \in 1..e /\ e <= x
      BY <2>1, <2>2, <2>3
    <3> QED
      BY <2>4, <3>1
  <2> QED
    BY <1>2, <2>2, <2>4, <2>5
<1>5. NumFrames(a) = 1 /\ Whole(a)
  <2>1. NumFrames(a) = 1
    BY <1>4, FS_Singleton DEF NumFrames
  <2>2. IsLast(a[Len(a)])
    BY <1>1, <1>2, <1>3
  <2> QED
    BY <2>1, <2>2 DEF Whole
<1>6. Cut(t) = Cut(a) \o Cut(b)
  BY <1>3, <1>5, CutConcat
<1>7. Cut(a) \in Seq(Seq(Piece)) /\ Len(Cut(a)) = 1 /\ Cut(b) \in Seq(Seq(Piece))
  BY <1>3, <1>5, CutType
<1> DEFINE c == Cut(a)
           f == Cut(b)
<1> HIDE DEF c, f
<1>8. c \o f # <<>> /\ Head(c \o f) = (c \o f)[1] /\ Tail(c \o f) = f
  <2>1. c \in Seq(Seq(Piece)) /\ Len(c) = 1 /\ f \in Seq(Seq(Piece)) /\ Len(f) \in Nat
    BY <1>7, LenProperties DEF c, f
  <2>2. /\ c \o f \in Seq(Seq(Piece)) /\ Len(c \o f) = 1 + Len(f)
        /\ \A i \in 1..Len(f) : (c \o f)[1 + i] = f[i]
    <3> DEFINE P == Seq(Piece)
    <3> HIDE DEF P
    <3>1. c \in Seq(P) /\ f \in Seq(P)
      BY <2>1 DEF P
    <3>2. /\ c \o f \in Seq(P) /\ Len(c \o f) = Len(c) + Len(f)
          /\ \A i \in 1..Len(f) : (c \o f)[Len(c) + i] = f[i]
      BY <3>1, ConcatFacts
    <3> QED
      BY <2>1, <3>2 DEF P
  <2> DEFINE w == c \o f
  <2> HIDE DEF w
  <2>3. w \in Seq(Seq(Piece)) /\ Len(w) = 1 + Len(f) /\ \A i \in 1..Len(f) : w[1 + i] = f[i]
    BY <2>2 DEF w
  <2>4. w # <<>> /\ Head(w) = w[1]
    BY <2>1, <2>3
  <2>5. /\ Tail(w) \in Seq(Seq(Piece)) /\ Len(Tail(w)) = Len(f)
        /\ \A i \in 1..Len(f) : Tail(w)[i] = w[i + 1]
    BY <2>1, <2>3, <2>4, HeadTailProperties
  <2>6. \A i \in 1..Len(f) : Tail(w)[i] = f[i]
    <3> TAKE i \in 1..Len(f)
    <3>1. i + 1 = 1 + i
      OBVIOUS
    <3> QED
      BY <2>3, <2>5, <3>1
  <2>7. Tail(w) = f
    BY <2>1, <2>5, <2>6, SeqEqual
  <2> QED
    BY <2>4, <2>7 DEF w
<1> QED
  BY <1>2, <1>6, <1>8 DEF c, f

-----------------------------------------------------------------------------
(* What moves along a stream.                                              *)

Regroups(a, x, y) == (a \o x) \o y = a \o (x \o y)

LEMMA ConcatThree ==
  ASSUME NEW S, NEW a \in Seq(S), NEW x \in Seq(S), NEW y \in Seq(S)
  PROVE  Regroups(a, x, y) /\ a \o x \in Seq(S) /\ x \o y \in Seq(S)
BY ConcatAssociative, ConcatProperties DEF Regroups

(* A part that goes from the front of b to the end of a.                   *)
Moves(a, b, n) == (a \o First(b, n)) \o Rest(b, n) = a \o b

LEMMA MoveOn ==
  ASSUME NEW S, NEW a \in Seq(S), NEW b \in Seq(S), NEW n \in 0..Len(b)
  PROVE  Moves(a, b, n)
<1> DEFINE x == First(b, n)
           y == Rest(b, n)
<1>1. x \in Seq(S) /\ y \in Seq(S)
  BY SplitFacts
<1>2. x \o y = b
  BY SplitFacts
<1> HIDE DEF x, y
<1>3. Regroups(a, x, y)
  BY <1>1, ConcatThree
<1> QED
  BY <1>2, <1>3 DEF x, y, Regroups, Moves

(* The same when something stands between.                                 *)
MovesIn(a, b, c, n) == (a \o (b \o First(c, n))) \o Rest(c, n) = (a \o b) \o c

LEMMA MoveIn ==
  ASSUME NEW S, NEW a \in Seq(S), NEW b \in Seq(S), NEW c \in Seq(S), NEW n \in 0..Len(c)
  PROVE  MovesIn(a, b, c, n)
<1> DEFINE x == First(c, n)
           d == a \o b
<1>1. x \in Seq(S)
  BY SplitFacts
<1>2. d \in Seq(S)
  BY ConcatProperties
<1> HIDE DEF x
<1>3. Regroups(a, b, x)
  BY <1>1, ConcatThree
<1> HIDE DEF d
<1>4. Moves(d, c, n)
  BY <1>2, MoveOn
<1> QED
  BY <1>3, <1>4 DEF x, d, Regroups, Moves, MovesIn

(* The two parts of a concatenation.                                       *)
LEMMA ConcatParts ==
  ASSUME NEW S, NEW a \in Seq(S), NEW b \in Seq(S)
  PROVE  /\ First(a \o b, Len(a)) = a /\ Rest(a \o b, Len(a)) = b
         /\ Len(a) \in 0..Len(a \o b)
<1> DEFINE u == a \o b
<1>1. /\ u \in Seq(S) /\ Len(u) = Len(a) + Len(b) /\ Len(a) \in Nat /\ Len(b) \in Nat
      /\ \A i \in 1..Len(a) : u[i] = a[i]
      /\ \A i \in 1..Len(b) : u[Len(a) + i] = b[i]
  BY ConcatFacts
<1> HIDE DEF u
<1>2. Len(a) \in 0..Len(u)
  BY <1>1
<1>3. /\ First(u, Len(a)) \in Seq(S) /\ Len(First(u, Len(a))) = Len(a)
      /\ \A i \in 1..Len(a) : First(u, Len(a))[i] = u[i]
      /\ Rest(u, Len(a)) \in Seq(S) /\ Len(Rest(u, Len(a))) = Len(u) - Len(a)
      /\ \A i \in 1..Len(u) - Len(a) : Rest(u, Len(a))[i] = u[Len(a) + i]
  BY <1>1, <1>2, SplitFacts
<1>4. Len(u) - Len(a) = Len(b)
  BY <1>1
<1>5. First(u, Len(a)) = a
  BY <1>1, <1>3, SeqEqual
<1>6. Rest(u, Len(a)) = b
  BY <1>1, <1>3, <1>4, SeqEqual
<1> QED
  BY <1>2, <1>5, <1>6 DEF u

(* What is left when a part goes.                                          *)
LEMMA RestOfConcat ==
  ASSUME NEW S, NEW a \in Seq(S), NEW b \in Seq(S), NEW e \in 0..Len(a)
  PROVE  Rest(a \o b, e) = Rest(a, e) \o b /\ e \in 0..Len(a \o b)
<1> DEFINE x == First(a, e)
           y == Rest(a, e)
           z == y \o b
<1>1. x \in Seq(S) /\ y \in Seq(S)
  BY SplitFacts
<1>2. x \o y = a /\ Len(x) = e
  BY SplitFacts
<1> HIDE DEF x, y
<1>3. Regroups(x, y, b)
  BY <1>1, ConcatThree
<1>4. z \in Seq(S)
  BY <1>1, ConcatProperties
<1> HIDE DEF z
<1>5. Rest(x \o z, Len(x)) = z /\ Len(x) \in 0..Len(x \o z)
  BY <1>1, <1>4, ConcatParts
<1>6. a \o b = x \o z
  BY <1>2, <1>3 DEF z, Regroups
<1> QED
  BY <1>2, <1>5, <1>6 DEF y, z

LEMMA RestOfRest ==
  ASSUME NEW S, NEW a \in Seq(S), NEW m \in 0..Len(a), NEW n \in 0..Len(Rest(a, m))
  PROVE  Rest(Rest(a, m), n) = Rest(a, m + n) /\ m + n \in 0..Len(a)
<1> DEFINE b == Rest(a, m)
<1>1. /\ Len(a) \in Nat /\ m \in Nat /\ b \in Seq(S) /\ Len(b) = Len(a) - m
      /\ \A i \in 1..Len(a) - m : b[i] = a[m + i]
  BY SplitFacts
<1>2. n \in 0..Len(b)
  OBVIOUS
<1> HIDE DEF b
<1>3. m + n \in 0..Len(a) /\ n \in Nat
  BY <1>1, <1>2
<1>4. /\ Rest(b, n) \in Seq(S) /\ Len(Rest(b, n)) = Len(b) - n
      /\ \A i \in 1..Len(b) - n : Rest(b, n)[i] = b[n + i]
  BY ZenonT(60), <1>1, <1>2, SplitFacts
<1>5. /\ Rest(a, m + n) \in Seq(S) /\ Len(Rest(a, m + n)) = Len(a) - (m + n)
      /\ \A i \in 1..Len(a) - (m + n) : Rest(a, m + n)[i] = a[(m + n) + i]
  BY <1>3, SplitFacts
<1>6. ASSUME NEW i \in 1..Len(b) - n PROVE Rest(b, n)[i] = Rest(a, m + n)[i]
  <2>1. n + i \in 1..Len(a) - m /\ i \in 1..Len(a) - (m + n) /\ m + (n + i) = (m + n) + i
    BY <1>1, <1>2, <1>3
  <2> QED
    BY <1>1, <1>4, <1>5, <2>1
<1>7. Len(b) - n = Len(a) - (m + n)
  BY <1>1, <1>3
<1>8. Rest(b, n) = Rest(a, m + n)
  BY <1>4, <1>5, <1>6, <1>7, SeqEqual
<1> QED
  BY <1>3, <1>8 DEF b

(* What sequences contain.                                                 *)
LEMMA ToSetFacts ==
  ASSUME NEW S, NEW s \in Seq(S)
  PROVE  /\ ToSet(s) = {s[i] : i \in 1..Len(s)} /\ ToSet(s) \subseteq S
         /\ \A i \in 1..Len(s) : s[i] \in ToSet(s)
         /\ \A x \in ToSet(s) : \E i \in 1..Len(s) : s[i] = x
<1>1. ToSet(s) = {s[i] : i \in 1..Len(s)}
  BY DEF ToSet
<1> QED
  BY <1>1, ElementOfSeq

LEMMA ToSetConcat ==
  ASSUME NEW S, NEW s \in Seq(S), NEW t \in Seq(S)
  PROVE  ToSet(s \o t) = ToSet(s) \cup ToSet(t)
<1> DEFINE u == s \o t
<1>1. /\ u \in Seq(S) /\ Len(u) = Len(s) + Len(t)
      /\ \A i \in 1..Len(s) : i \in 1..Len(u) /\ u[i] = s[i]
      /\ \A i \in 1..Len(t) : Len(s) + i \in 1..Len(u) /\ u[Len(s) + i] = t[i]
      /\ \A i \in 1..Len(u) : \/ i \in 1..Len(s) /\ u[i] = s[i]
                              \/ i - Len(s) \in 1..Len(t) /\ u[i] = t[i - Len(s)]
  BY ConcatFacts
<1> HIDE DEF u
<1>2. /\ ToSet(u) = {u[i] : i \in 1..Len(u)} /\ ToSet(s) = {s[i] : i \in 1..Len(s)}
      /\ ToSet(t) = {t[i] : i \in 1..Len(t)}
  BY <1>1, ToSetFacts
<1> QED
  BY <1>1, <1>2 DEF u

LEMMA ToSetParts ==
  ASSUME NEW S, NEW t \in Seq(S), NEW n \in 0..Len(t)
  PROVE  /\ ToSet(First(t, n)) \subseteq ToSet(t) /\ ToSet(Rest(t, n)) \subseteq ToSet(t)
         /\ ToSet(t) = ToSet(First(t, n)) \cup ToSet(Rest(t, n))
<1>1. First(t, n) \in Seq(S) /\ Rest(t, n) \in Seq(S) /\ First(t, n) \o Rest(t, n) = t
  BY SplitFacts
<1>2. ToSet(t) = ToSet(First(t, n)) \cup ToSet(Rest(t, n))
  BY ZenonT(60), <1>1, ToSetConcat
<1> QED
  BY <1>2

(* A packet that is sent in several writes.                                *)
LEMMA FrameRest ==
  ASSUME NEW f \in Frames, NEW m \in 0..Len(f) - 1
  PROVE  /\ Rest(f, m) \in Seq(Piece) /\ Rest(f, m) # <<>> /\ Len(Rest(f, m)) = Len(f) - m
         /\ m \in 0..Len(f) /\ Len(f) \in Nat
         /\ Of(Rest(f, m)[Len(Rest(f, m))]) = f
         /\ Ends(Rest(f, m)) = {Len(Rest(f, m))}
         /\ \A n \in 0..Len(f) - m : n < Len(f) - m => Ends(First(Rest(f, m), n)) = {}
         /\ \A x \in ToSet(Rest(f, m)) : Of(x) = f
<1> DEFINE u == Rest(f, m)
<1>1. /\ f \in Seq(Piece) /\ Len(f) \in Nat \ {0}
      /\ \A i \in 1..Len(f) : Of(f[i]) = f /\ (IsLast(f[i]) <=> i = Len(f))
  BY FramesFacts
<1>2. m \in 0..Len(f) /\ m \in Nat
  BY <1>1
<1>3. /\ u \in Seq(Piece) /\ Len(u) = Len(f) - m
      /\ \A i \in 1..Len(f) - m : m + i \in 1..Len(f) /\ u[i] = f[m + i]
  BY <1>1, <1>2, SplitFacts
<1> HIDE DEF u
<1>4. Len(u) \in Nat \ {0} /\ u # <<>> /\ m + Len(u) = Len(f)
  BY <1>1, <1>2, <1>3, EmptySeq
<1>5. \A i \in 1..Len(u) : Of(u[i]) = f /\ (IsLast(u[i]) <=> i = Len(u))
  <2> TAKE i \in 1..Len(u)
  <2>1. m + i \in 1..Len(f) /\ u[i] = f[m + i] /\ (m + i = Len(f) <=> i = Len(u))
    BY <1>2, <1>3, <1>4
  <2> QED
    BY <1>1, <2>1
<1>6. Ends(u) = {Len(u)}
  BY <1>4, <1>5 DEF Ends
<1>7. ASSUME NEW n \in 0..Len(u), n < Len(u) PROVE Ends(First(u, n)) = {}
  <2>1. Len(First(u, n)) = n /\ n \in Nat /\ \A i \in 1..n : i \in 1..Len(u) /\ First(u, n)[i] = u[i]
    BY ZenonT(60), <1>3, SplitFacts
  <2>2. \A i \in 1..n : ~IsLast(First(u, n)[i])
    <3> TAKE i \in 1..n
    <3>1. First(u, n)[i] = u[i] /\ i \in 1..Len(u) /\ i # Len(u)
      BY <1>4, <1>7, <2>1
    <3> QED
      BY <1>5, <3>1
  <2> QED
    BY <2>1, <2>2 DEF Ends
<1>8. \A x \in ToSet(u) : Of(x) = f
  <2>1. ToSet(u) = {u[i] : i \in 1..Len(u)}
    BY ZenonT(60), <1>3, ToSetFacts
  <2> QED
    BY <1>5, <2>1
<1>9. Of(u[Len(u)]) = f
  BY <1>4, <1>5
<1>10. \A n \in 0..Len(f) - m : n < Len(f) - m => Ends(First(u, n)) = {}
  BY <1>3, <1>7
<1> QED
  BY <1>1, <1>2, <1>3, <1>4, <1>6, <1>8, <1>9, <1>10 DEF u

-----------------------------------------------------------------------------
(* Where the frames are, and in which order.                               *)

(* The first pieces of frames stand for them.                              *)
Heads(q) == {f[1] : f \in ToSet(q)}

(* What a sender has written and the server has not cut yet, and what a    *)
(* receiver has not cut yet and the server writes to it.                   *)
Upstream(s) == (buf[s] \o up[s]) \o unwritten[s]

Downstream(r) == (cbuf[r] \o down[r]) \o unsent[r]

Live(c) == client[c] \in {"off", "open"}

Holds(r) == task[r] = "sendall"

(* Piece x is before y in what their sender puts, or is y; and it is of no *)
(* later packet than y.                                                    *)
NotAfter(x, y) == x[1] = y[1] /\ (x[2] < y[2] \/ (x[2] = y[2] /\ x[3] <= y[3]))

Late(x, y) == x[1] = y[1] /\ x[2] <= y[2]

(* t is what s may have written of its first n packets, when the frames in *)
(* acc have arrived.                                                       *)
Sendable(t, s, n, acc) ==
  /\ Chain(t)
  /\ \A i \in 1..Len(t) : t[i][1] = s /\ t[i][2] <= n
  /\ \A i \in 1..Len(t), f \in acc : f[1][1] = s => f[1][2] < t[i][2]
  /\ \A i, j \in 1..Len(t) : i < j => ~NotAfter(t[j], t[i])

UpInv ==
  \A s \in Senders :
    /\ put[s] <= Len(Pieces[s])
    /\ client[s] = "dead" => unwritten[s] = <<>>
    /\ server = "up" =>
         /\ Sendable(Upstream(s), s, put[s], accepted)
         /\ Live(s) => Whole(Upstream(s))

AcceptedInv ==
  /\ accepted \subseteq Frames
  /\ \A f \in accepted : f[1][2] <= put[f[1][1]]

IdleInv == \A c \in Clients : task[c] # "none" => server = "up"

DownInv ==
  \A r \in Receivers : Live(r) =>
    Chain(Downstream(r)) /\ (server = "up" => Whole(Downstream(r)))

(* A frame that the server has is at one place.                            *)
Distinct(q) == \A i, j \in 1..Len(q) : q[i] = q[j] => i = j

HoldInv ==
  /\ ToSet(to_send) \subseteq accepted /\ Distinct(to_send)
  /\ \A r \in Receivers : Holds(r) =>
       /\ packet[r] \in accepted \ ToSet(to_send)
       /\ \E m \in 0..Len(packet[r]) - 1 : unsent[r] = Rest(packet[r], m)
  /\ \A r, q \in Receivers : Holds(r) /\ Holds(q) /\ packet[r] = packet[q] => r = q

SeenInv ==
  \A r \in Receivers :
    /\ ToSet(got[r]) \subseteq accepted
    /\ \A p \in ToSet(Downstream(r)) : Valid(p) /\ Of(p) \in accepted

(* Of two frames of one sender that are in the wrong order the later one   *)
(* was put back.                                                           *)
Excused(A, B, rq) == \A x \in A, y \in B : Late(x, y) => Of(x) \in rq

InOrder(t, rq) ==
  \A i, j \in 1..Len(t) : i < j /\ NotAfter(t[j], t[i]) => Of(t[j]) \in rq

FramesInOrder(q, rq) ==
  \A i, j \in 1..Len(q) : i < j /\ Late(q[j][1], q[i][1]) => Of(q[j][1]) \in rq

OrderInv ==
  /\ FramesInOrder(to_send, requeued)
  /\ \A r \in Receivers :
       /\ Excused(Heads(to_send), Heads(got[r]), requeued)
       /\ Excused(Heads(to_send), ToSet(Downstream(r)), requeued)
       /\ Excused(ToSet(Downstream(r)), Heads(got[r]), requeued)
       /\ InOrder(Downstream(r), requeued)
       /\ FramesInOrder(got[r], requeued)

SenderSide == UpInv /\ AcceptedInv

ReceiverSide == DownInv /\ HoldInv /\ SeenInv /\ OrderInv

FInv == IInv /\ IdleInv /\ SenderSide /\ ReceiverSide

-----------------------------------------------------------------------------
(* The order of frames.                                                    *)

LEMMA InOrderParts ==
  ASSUME NEW rq, NEW t \in Seq(Piece), InOrder(t, rq), NEW n \in 0..Len(t)
  PROVE  InOrder(First(t, n), rq) /\ InOrder(Rest(t, n), rq)
<1>1. /\ Len(First(t, n)) = n /\ n \in Nat /\ Len(t) \in Nat
      /\ \A i \in 1..n : i \in 1..Len(t) /\ First(t, n)[i] = t[i]
      /\ Len(Rest(t, n)) = Len(t) - n
      /\ \A i \in 1..Len(t) - n : n + i \in 1..Len(t) /\ Rest(t, n)[i] = t[n + i]
  BY SplitFacts
<1>2. InOrder(First(t, n), rq)
  BY <1>1 DEF InOrder
<1>3. ASSUME NEW i \in 1..Len(t) - n, NEW j \in 1..Len(t) - n, i < j,
             NotAfter(Rest(t, n)[j], Rest(t, n)[i])
      PROVE  Of(Rest(t, n)[j]) \in rq
  <2>1. n + i < n + j
    BY <1>1, <1>3
  <2>2. NotAfter(t[n + j], t[n + i])
    BY <1>1, <1>3
  <2> QED
    BY <1>1, <2>1, <2>2 DEF InOrder
<1>4. InOrder(Rest(t, n), rq)
  BY <1>1, <1>3 DEF InOrder
<1> QED
  BY <1>2, <1>4

LEMMA InOrderFrame ==
  ASSUME NEW rq, NEW t \in Seq(Piece), InOrder(t, rq), NEW f \in Frames,
         Excused({f[1]}, ToSet(t), rq)
  PROVE  InOrder(t \o f, rq)
<1> DEFINE u == t \o f
<1>1. /\ f \in Seq(Piece) /\ Len(f) \in Nat /\ f = Of(f[1]) /\ f[1][2] \in Nat
      /\ \A i \in 1..Len(f) : f[i] = <<f[1][1], f[1][2], i>> /\ Of(f[i]) = f
  BY FramesFacts
<1>2. /\ Len(u) = Len(t) + Len(f) /\ Len(t) \in Nat
      /\ \A i \in 1..Len(u) : \/ i \in 1..Len(t) /\ u[i] = t[i]
                              \/ i - Len(t) \in 1..Len(f) /\ u[i] = f[i - Len(t)]
  BY <1>1, ConcatFacts
<1> HIDE DEF u
<1>3. SUFFICES ASSUME NEW i \in 1..Len(u), NEW j \in 1..Len(u), i < j, NotAfter(u[j], u[i])
               PROVE  Of(u[j]) \in rq
  BY DEF InOrder, u
<1>4. CASE j \in 1..Len(t) /\ u[j] = t[j]
  <2>1. i \in 1..Len(t) /\ u[i] = t[i]
    BY <1>2, <1>3, <1>4
  <2> QED
    BY <1>3, <1>4, <2>1 DEF InOrder
<1>5. CASE /\ j - Len(t) \in 1..Len(f) /\ u[j] = f[j - Len(t)]
           /\ i \in 1..Len(t) /\ u[i] = t[i]
  <2>1. u[j] = <<f[1][1], f[1][2], j - Len(t)>> /\ Of(u[j]) = f
    BY <1>1, <1>5
  <2>2. t[i] \in ToSet(t) /\ t[i][2] \in Nat
    BY <1>5, ElementOfSeq, ToSetFacts DEF Piece
  <2>3. Late(f[1], t[i])
    BY SMTT(40), <1>1, <1>3, <1>5, <2>1, <2>2 DEF NotAfter, Late
  <2> QED
    BY <1>1, <2>1, <2>2, <2>3 DEF Excused
<1>6. CASE /\ j - Len(t) \in 1..Len(f) /\ u[j] = f[j - Len(t)]
           /\ i - Len(t) \in 1..Len(f) /\ u[i] = f[i - Len(t)]
  <2>1. u[j] = <<f[1][1], f[1][2], j - Len(t)>> /\ u[i] = <<f[1][1], f[1][2], i - Len(t)>>
    BY <1>1, <1>6
  <2>2. ~(f[1][2] < f[1][2]) /\ ~(j - Len(t) <= i - Len(t))
    BY <1>1, <1>2, <1>3
  <2> QED
    BY <1>3, <2>1, <2>2 DEF NotAfter
<1> QED
  BY <1>2, <1>4, <1>5, <1>6

LEMMA FramesInOrderConcat ==
  ASSUME NEW rq, NEW q \in Seq(Frames), NEW c \in Seq(Frames),
         FramesInOrder(q, rq), FramesInOrder(c, rq), Excused(Heads(c), Heads(q), rq)
  PROVE  FramesInOrder(q \o c, rq)
<1> DEFINE u == q \o c
<1>1. /\ Len(q) \in Nat
      /\ \A i \in 1..Len(u) : \/ i \in 1..Len(q) /\ u[i] = q[i]
                              \/ i - Len(q) \in 1..Len(c) /\ u[i] = c[i - Len(q)]
  BY ConcatFacts
<1> HIDE DEF u
<1>2. SUFFICES ASSUME NEW i \in 1..Len(u), NEW j \in 1..Len(u), i < j, Late(u[j][1], u[i][1])
               PROVE  Of(u[j][1]) \in rq
  BY DEF FramesInOrder, u
<1>3. CASE j \in 1..Len(q) /\ u[j] = q[j]
  <2>1. i \in 1..Len(q) /\ u[i] = q[i]
    BY <1>1, <1>2, <1>3
  <2> QED
    BY <1>2, <1>3, <2>1 DEF FramesInOrder
<1>4. CASE j - Len(q) \in 1..Len(c) /\ u[j] = c[j - Len(q)] /\ i \in 1..Len(q) /\ u[i] = q[i]
  <2>1. c[j - Len(q)] \in ToSet(c) /\ q[i] \in ToSet(q)
    BY <1>4, ToSetFacts
  <2>2. u[j][1] \in Heads(c) /\ u[i][1] \in Heads(q)
    BY <1>4, <2>1 DEF Heads
  <2> QED
    BY <1>2, <2>2 DEF Excused
<1>5. CASE /\ j - Len(q) \in 1..Len(c) /\ u[j] = c[j - Len(q)]
           /\ i - Len(q) \in 1..Len(c) /\ u[i] = c[i - Len(q)]
  <2>1. i - Len(q) < j - Len(q)
    BY <1>1, <1>2
  <2> QED
    BY <1>2, <1>5, <2>1 DEF FramesInOrder
<1> QED
  BY <1>1, <1>3, <1>4, <1>5

LEMMA FramesInOrderOne ==
  ASSUME NEW rq, NEW f \in Frames
  PROVE  /\ <<f>> \in Seq(Frames) /\ FramesInOrder(<<f>>, rq)
         /\ ToSet(<<f>>) = {f} /\ Heads(<<f>>) = {f[1]}
<1>1. <<f>> \in Seq(Frames) /\ Len(<<f>>) = 1 /\ <<f>>[1] = f
  OBVIOUS
<1>2. FramesInOrder(<<f>>, rq)
  BY <1>1 DEF FramesInOrder
<1>3. ToSet(<<f>>) = {f}
  <2> DEFINE a == <<f>>
  <2>1. a \in Seq(Frames) /\ Len(a) = 1 /\ a[1] = f
    BY <1>1
  <2> HIDE DEF a
  <2>2. ToSet(a) = {a[i] : i \in 1..1}
    BY <2>1, ToSetFacts
  <2> QED
    BY <2>1, <2>2 DEF a
<1> QED
  BY <1>1, <1>2, <1>3 DEF Heads

(* What remains of a queue of different frames when the first goes.        *)
LEMMA TailOfFrames ==
  ASSUME NEW rq, NEW q \in Seq(Frames), q # <<>>, FramesInOrder(q, rq), Distinct(q)
  PROVE  /\ Head(q) \in Frames /\ Tail(q) \in Seq(Frames)
         /\ FramesInOrder(Tail(q), rq) /\ Distinct(Tail(q))
         /\ ToSet(q) = ToSet(Tail(q)) \cup {Head(q)} /\ Head(q) \notin ToSet(Tail(q))
         /\ Excused(Heads(Tail(q)), {Head(q)[1]}, rq)
         /\ <<Head(q)>> \o Tail(q) = q
<1> DEFINE h == Head(q)
           t == Tail(q)
<1>1. /\ h \in Frames /\ t \in Seq(Frames) /\ h = q[1] /\ Len(t) = Len(q) - 1
      /\ Len(q) \in Nat /\ Len(q) # 0
      /\ \A i \in 1..Len(t) : t[i] = q[i + 1]
  <2>1. Len(q) \in Nat /\ Len(q) # 0 /\ Head(q) = q[1]
    BY LenProperties, EmptySeq
  <2> QED
    BY <2>1, HeadTailProperties
<1> HIDE DEF h, t
<1>2. 1 \in 1..Len(q) /\ \A i \in 1..Len(t) : i + 1 \in 1..Len(q) /\ 1 < i + 1 /\ i + 1 # 1
  BY <1>1
<1>3. FramesInOrder(t, rq)
  <2> SUFFICES ASSUME NEW i \in 1..Len(t), NEW j \in 1..Len(t), i < j, Late(t[j][1], t[i][1])
               PROVE  Of(t[j][1]) \in rq
    BY DEF FramesInOrder
  <2>1. t[i] = q[i + 1] /\ t[j] = q[j + 1]
    BY <1>1
  <2>2. i + 1 < j + 1
    OBVIOUS
  <2> QED
    BY <1>2, <2>1, <2>2 DEF FramesInOrder
<1>4. Distinct(t)
  <2> SUFFICES ASSUME NEW i \in 1..Len(t), NEW j \in 1..Len(t), t[i] = t[j] PROVE i = j
    BY DEF Distinct
  <2>1. i + 1 = j + 1
    BY <1>1, <1>2 DEF Distinct
  <2> QED
    BY <1>1, <2>1
<1>5. ToSet(q) = {q[i] : i \in 1..Len(q)} /\ ToSet(t) = {t[i] : i \in 1..Len(t)}
  BY <1>1, ToSetFacts
<1>6. h \notin ToSet(t)
  BY <1>1, <1>2, <1>5 DEF Distinct
<1>7. Excused(Heads(t), {h[1]}, rq)
  <2> SUFFICES ASSUME NEW f \in ToSet(t), Late(f[1], h[1]) PROVE Of(f[1]) \in rq
    BY DEF Excused, Heads
  <2>1. PICK i \in 1..Len(t) : f = t[i]
    BY <1>5
  <2> QED
    BY <1>1, <1>2, <2>1 DEF FramesInOrder
<1>8. <<h>> \o t = q
  <2> DEFINE u == <<h>> \o t
  <2>1. <<h>> \in Seq(Frames) /\ Len(<<h>>) = 1 /\ <<h>>[1] = h
    BY <1>1
  <2>2. /\ u \in Seq(Frames) /\ Len(u) = 1 + Len(t) /\ Len(t) \in Nat
        /\ \A i \in 1..Len(u) : \/ i \in 1..1 /\ u[i] = h
                                \/ i - 1 \in 1..Len(t) /\ u[i] = t[i - 1]
    <3> DEFINE a == <<h>>
    <3> HIDE DEF a
    <3>1. a \in Seq(Frames) /\ Len(a) = 1 /\ a[1] = h
      BY <2>1 DEF a
    <3>2. /\ a \o t \in Seq(Frames) /\ Len(a \o t) = Len(a) + Len(t) /\ Len(t) \in Nat
          /\ \A i \in 1..Len(a \o t) : \/ i \in 1..Len(a) /\ (a \o t)[i] = a[i]
                                       \/ i - Len(a) \in 1..Len(t) /\ (a \o t)[i] = t[i - Len(a)]
      <4>1. a \in Seq(Frames) /\ t \in Seq(Frames)
        BY <1>1, <3>1
      <4> QED
        BY <4>1, ConcatFacts
    <3>3. \A i \in 1..1 : a[i] = h
      BY <3>1
    <3> QED
      BY <3>1, <3>2, <3>3 DEF a
  <2> HIDE DEF u
  <2>3. \A i \in 1..Len(u) : u[i] = q[i]
    <3> TAKE i \in 1..Len(u)
    <3>1. CASE i \in 1..1 /\ u[i] = h
      BY <1>1, <3>1
    <3>2. CASE i - 1 \in 1..Len(t) /\ u[i] = t[i - 1]
      <4>1. (i - 1) + 1 = i
        BY <2>2
      <4> QED
        BY <1>1, <3>2, <4>1
    <3> QED
      BY <2>2, <3>1, <3>2
  <2>4. Len(u) = Len(q)
    BY <1>1, <2>2
  <2>5. u = q
    BY <2>2, <2>3, <2>4, SeqEqual
  <2> QED
    BY <2>5 DEF u
<1>9. ToSet(q) = ToSet(t) \cup {h}
  <2>1. ToSet(<<h>> \o t) = ToSet(<<h>>) \cup ToSet(t)
    <3> DEFINE a == <<h>>
    <3>1. a \in Seq(Frames)
      BY <1>1
    <3>2. t \in Seq(Frames)
      BY <1>1
    <3> HIDE DEF a
    <3>3. ToSet(a \o t) = ToSet(a) \cup ToSet(t)
      BY <3>1, <3>2, ToSetConcat
    <3> QED
      BY <3>3 DEF a
  <2>2. ToSet(<<h>>) = {h}
    BY <1>1, FramesInOrderOne
  <2> QED
    BY <1>8, <2>1, <2>2
<1> QED
  BY <1>1, <1>3, <1>4, <1>6, <1>7, <1>8, <1>9 DEF h, t

(* Excuses are never taken back.                                           *)
LEMMA OrderKept ==
  ASSUME NEW rq, NEW more, rq \subseteq more
  PROVE  /\ \A t : InOrder(t, rq) => InOrder(t, more)
         /\ \A q : FramesInOrder(q, rq) => FramesInOrder(q, more)
         /\ \A A, B : Excused(A, B, rq) => Excused(A, B, more)
BY DEF InOrder, FramesInOrder, Excused

(* What a sender has written, cut anywhere.                                *)
LEMMA SendableFirst ==
  ASSUME NEW s \in Senders, NEW n \in Nat, NEW acc, NEW t \in Seq(Piece), Sendable(t, s, n, acc),
         NEW m \in 0..Len(t)
  PROVE  Sendable(First(t, m), s, n, acc)
<1> DEFINE u == First(t, m)
<1>1. u \in Seq(Piece) /\ Len(u) = m /\ m \in Nat /\ \A i \in 1..m : i \in 1..Len(t) /\ u[i] = t[i]
  BY SplitFacts
<1>2. m <= Len(t) /\ Chain(t)
  BY <1>1, LenProperties DEF Sendable
<1> HIDE DEF u
<1>3. Chain(u)
  BY <1>1, <1>2, ChainPrefix
<1>4. Sendable(u, s, n, acc)
  BY <1>1, <1>3 DEF Sendable
<1> QED
  BY <1>4 DEF u

(* And with one more packet.                                               *)
LEMMA SendableMore ==
  ASSUME NEW s \in Senders, NEW n \in Nat, n + 1 \in 1..Len(Pieces[s]),
         NEW acc, \A f \in acc : f[1][1] = s => f[1][2] \in Nat /\ f[1][2] <= n,
         NEW t \in Seq(Piece), Sendable(t, s, n, acc), Whole(t)
  PROVE  /\ Sendable(t \o Frame(s, n + 1), s, n + 1, acc)
         /\ Whole(t \o Frame(s, n + 1))
<1> DEFINE f == Frame(s, n + 1)
           u == t \o f
<1>1. /\ f \in Seq(Piece) /\ f \in Frames /\ Len(f) \in Nat
      /\ \A i \in 1..Len(f) : f[i] = <<s, n + 1, i>>
  <2>1. /\ Pieces[s][n + 1] \in Nat \ {0} /\ f \in Seq(Piece) /\ f \in Frames
        /\ Len(f) = Pieces[s][n + 1] /\ \A i \in 1..Pieces[s][n + 1] : f[i] = <<s, n + 1, i>>
    BY FrameFacts
  <2> QED
    BY <2>1
<1> HIDE DEF f
<1>2. Chain(f) /\ Whole(f) /\ Chain(t)
  BY <1>1, FrameIsChain DEF Sendable
<1>3. Chain(u) /\ Whole(u)
  BY <1>1, <1>2, ChainConcat
<1>4. /\ Len(u) = Len(t) + Len(f) /\ Len(t) \in Nat
      /\ \A i \in 1..Len(u) : \/ i \in 1..Len(t) /\ u[i] = t[i]
                              \/ i - Len(t) \in 1..Len(f) /\ u[i] = f[i - Len(t)]
  BY <1>1, ConcatFacts
<1> HIDE DEF u
<1>5. \A i \in 1..Len(t) : t[i][2] \in Nat /\ t[i][2] <= n /\ t[i][1] = s
  BY ElementOfSeq DEF Sendable, Piece
<1>6. \A i \in 1..Len(u) : \/ i \in 1..Len(t) /\ u[i] = t[i]
                           \/ i - Len(t) \in 1..Len(f) /\ u[i] = <<s, n + 1, i - Len(t)>>
  BY <1>1, <1>4
<1>7. \A i \in 1..Len(u) : u[i][1] = s /\ u[i][2] <= n + 1
  BY <1>5, <1>6
<1>8. \A i \in 1..Len(u), g \in acc : g[1][1] = s => g[1][2] < u[i][2]
  <2> SUFFICES ASSUME NEW i \in 1..Len(u), NEW g \in acc, g[1][1] = s PROVE g[1][2] < u[i][2]
    OBVIOUS
  <2>1. CASE i \in 1..Len(t) /\ u[i] = t[i]
    BY <2>1 DEF Sendable
  <2>2. CASE u[i] = <<s, n + 1, i - Len(t)>>
    <3>1. g[1][2] \in Nat /\ g[1][2] <= n /\ u[i][2] = n + 1
      BY <2>2
    <3> QED
      BY <3>1
  <2> QED
    BY <1>6, <2>1, <2>2
<1>9. ASSUME NEW i \in 1..Len(u), NEW j \in 1..Len(u), i < j, NotAfter(u[j], u[i]) PROVE FALSE
  <2>1. CASE j \in 1..Len(t) /\ u[j] = t[j]
    <3>1. i \in 1..Len(t) /\ u[i] = t[i]
      BY <1>4, <1>9, <2>1
    <3> QED
      BY <1>9, <2>1, <3>1 DEF Sendable
  <2>2. CASE u[j] = <<s, n + 1, j - Len(t)>> /\ i \in 1..Len(t) /\ u[i] = t[i]
    <3>1. u[j][2] = n + 1 /\ u[i][2] \in Nat /\ u[i][2] <= n
      BY <1>5, <2>2
    <3> QED
      BY <1>9, <3>1 DEF NotAfter
  <2>3. CASE u[j] = <<s, n + 1, j - Len(t)>> /\ u[i] = <<s, n + 1, i - Len(t)>>
    <3>1. ~(n + 1 < n + 1) /\ ~(j - Len(t) <= i - Len(t))
      BY <1>4, <1>9
    <3> QED
      BY <1>9, <2>3, <3>1 DEF NotAfter
  <2> QED
    BY <1>6, <2>1, <2>2, <2>3
<1>10. Sendable(u, s, n + 1, acc)
  BY <1>3, <1>7, <1>8, <1>9 DEF Sendable
<1> QED
  BY <1>3, <1>10 DEF u, f

(* What the server cuts out of it are the next packets of the sender, in   *)
(* their order; and the rest is as before.                                 *)
LEMMA SendableCut ==
  ASSUME NEW s \in Senders, NEW n \in Nat, NEW acc, NEW data \in Seq(Piece), NEW x \in Seq(Piece),
         Sendable(data \o x, s, n, acc)
  PROVE  /\ Cut(data) \in Seq(Frames)
         /\ \A f \in ToSet(Cut(data)) :
              /\ f[1][1] = s /\ f[1][2] <= n
              /\ \A g \in acc : g[1][1] = s => g[1][2] < f[1][2]
         /\ \A i, j \in 1..Len(Cut(data)) : i < j => Cut(data)[i][1][2] < Cut(data)[j][1][2]
         /\ Sendable(Leftover(data) \o x, s, n, acc \cup ToSet(Cut(data)))
         /\ Whole(data \o x) => Whole(Leftover(data) \o x)
<1> DEFINE c == Cut(data)
           N == NumFrames(data)
           e == NthEnd(data, N)
           t == data \o x
           u == Leftover(data) \o x
<1>1. t \in Seq(Piece) /\ Chain(t) /\ Len(t) \in Nat /\ N \in Nat /\ Len(data) \in Nat
      /\ \A i \in 1..Len(data) : i \in 1..Len(t) /\ t[i] = data[i]
  BY ConcatFacts, EndsFinite, LenProperties DEF Sendable
<1>2. Chain(data)
  <2>1. Len(data) <= Len(t)
    BY ConcatFacts
  <2> HIDE DEF t
  <2> QED
    BY <1>1, <2>1, ChainPrefix
<1>3. \A k \in 1..N : /\ NthEnd(data, k) \in 1..Len(data) /\ NthEnd(data, k) \in Nat
                      /\ IsLast(data[NthEnd(data, k)])
                      /\ c[k] = Of(data[NthEnd(data, k)]) /\ c[k] \in Frames
  <2> TAKE k \in 1..N
  <2>1. NthEnd(data, k) \in Ends(data) /\ Ends(data) \subseteq 1..Len(data)
    BY NthEndCounts, EndsFinite
  <2> QED
    BY <1>1, <1>2, <2>1, CutIsFrame DEF Ends
<1>4. Len(c) = N /\ c \in Seq(Frames)
  <2>1. c \in Seq(Seq(Piece)) /\ Len(c) = N
    BY CutType
  <2> QED
    BY <1>3, <2>1, SeqDef
<1>5. \A p \in ToSet(t) : Valid(p) /\ p[1] = s /\ p[2] <= n
  <2>1. Sendable(t, s, n, acc)
    OBVIOUS
  <2> HIDE DEF t
  <2>2. \A i \in 1..Len(t) : Valid(t[i]) /\ t[i][1] = s /\ t[i][2] <= n
    BY <2>1 DEF Chain, Sendable
  <2> QED
    BY SMTT(40), <1>1, <2>2, ToSetFacts
<1>6. ASSUME NEW k \in 1..N
      PROVE  LET p == data[NthEnd(data, k)] IN
             /\ Valid(p) /\ p[1] = s /\ p[2] <= n /\ p = t[NthEnd(data, k)]
             /\ c[k][1] = <<p[1], p[2], 1>> /\ p[2] \in Nat /\ p[3] = Pieces[s][p[2]]
             /\ \A g \in acc : g[1][1] = s => g[1][2] < p[2]
  <2> DEFINE z == NthEnd(data, k)
             p == data[z]
  <2>1. z \in 1..Len(data) /\ IsLast(p) /\ c[k] = Of(p)
    BY <1>3
  <2>2. z \in 1..Len(t) /\ p = t[z]
    BY <1>1, <2>1
  <2> HIDE DEF z, t, p
  <2>3. Valid(p) /\ p[1] = s /\ p[2] <= n
    BY <1>1, <1>5, <2>2, ToSetFacts
  <2>4. Of(p)[1] = <<p[1], p[2], 1>> /\ p[2] \in Nat
    BY <2>3, ValidFacts
  <2>5. p[3] = Pieces[s][p[2]]
    BY <2>1, <2>3 DEF IsLast
  <2>6. \A g \in acc : g[1][1] = s => g[1][2] < p[2]
    BY <2>2 DEF Sendable, t
  <2> QED
    BY <2>1, <2>2, <2>3, <2>4, <2>5, <2>6 DEF z, p
<1>7. ASSUME NEW f \in ToSet(c)
      PROVE  /\ f[1][1] = s /\ f[1][2] <= n
             /\ \A g \in acc : g[1][1] = s => g[1][2] < f[1][2]
  <2>1. PICK k \in 1..N : f = c[k]
    BY <1>4, ToSetFacts
  <2> QED
    BY <1>6, <2>1
<1>8. ASSUME NEW i \in 1..Len(t), NEW k \in 1..N, NthEnd(data, k) < i
      PROVE  c[k][1][2] < t[i][2]
  <2> DEFINE z == NthEnd(data, k)
             p == t[z]
  <2>1. z \in 1..Len(t) /\ z < i
    BY <1>1, <1>3, <1>8
  <2>2. c[k][1][2] = p[2] /\ p[2] \in Nat /\ p[1] = s /\ p[3] = Pieces[s][p[2]]
    <3> DEFINE y == data[z]
    <3>1. /\ y[1] = s /\ y = p /\ c[k][1] = <<y[1], y[2], 1>> /\ y[2] \in Nat
          /\ y[3] = Pieces[s][y[2]]
      BY <1>6
    <3> HIDE DEF y, p, c
    <3> QED
      BY <3>1
  <2>3. ~NotAfter(t[i], p)
    BY <2>1 DEF Sendable
  <2>4. t[i] \in ToSet(t)
    BY <1>1, ToSetFacts
  <2> HIDE DEF z, t, p
  <2>5. t[i][1] = s /\ t[i][2] \in Nat /\ t[i][3] \in Nat /\ t[i][3] <= Pieces[s][t[i][2]]
        /\ Pieces[s][t[i][2]] \in Nat
    BY <1>5, <2>4, ValidFacts
  <2> QED
    BY <2>2, <2>3, <2>5 DEF NotAfter
<1>9. ASSUME NEW i \in 1..N, NEW j \in 1..N, i < j PROVE c[i][1][2] < c[j][1][2]
  <2>1. NthEnd(data, i) < NthEnd(data, j)
    <3>1. /\ NthEnd(data, i) \in Ends(data) /\ Cardinality(Upto(data, NthEnd(data, i))) = i
          /\ NthEnd(data, j) \in Ends(data) /\ Cardinality(Upto(data, NthEnd(data, j))) = j
      BY NthEndCounts
    <3>2. ~(NthEnd(data, j) < NthEnd(data, i)) /\ NthEnd(data, i) # NthEnd(data, j)
      BY <1>1, <1>9, <3>1, EndsCounted
    <3> QED
      BY <1>3, <3>2
  <2>2. NthEnd(data, j) \in 1..Len(t) /\ c[j][1][2] = t[NthEnd(data, j)][2]
    BY <1>1, <1>3, <1>6
  <2> QED
    BY <1>8, <2>1, <2>2
<1>10. e \in 0..Len(data) /\ (e = 0 \/ IsLast(data[e])) /\ (N # 0 => e \in 1..Len(data))
  <2>1. CASE N = 0
    BY <1>1, <2>1 DEF NthEnd
  <2>2. CASE N # 0
    <3>1. N \in 1..N
      BY <1>1, <2>2
    <3> QED
      BY <1>1, <1>3, <3>1
  <2> QED
    BY <2>1, <2>2
<1>11. u = Rest(t, e) /\ e \in 0..Len(t) /\ (e = 0 \/ IsLast(t[e]))
  <2>1. Leftover(data) = Rest(data, e)
    BY DEF Leftover, Rest
  <2>2. Rest(data \o x, e) = Rest(data, e) \o x /\ e \in 0..Len(data \o x)
    BY <1>10, RestOfConcat
  <2>3. e = 0 \/ (e \in 1..Len(data) /\ IsLast(data[e]))
    BY <1>1, <1>10
  <2> QED
    BY <1>1, <2>1, <2>2, <2>3
<1>12. Chain(u) /\ (Whole(t) => Whole(u))
  <2> HIDE DEF t, e, u
  <2> QED
    BY <1>1, <1>11, ChainSuffix
<1>13. /\ Len(u) = Len(t) - e /\ e \in Nat
       /\ \A i \in 1..Len(t) - e : e + i \in 1..Len(t) /\ u[i] = t[e + i]
  <2> HIDE DEF t, e, u
  <2> QED
    BY <1>1, <1>11, SplitFacts
<1>14. ASSUME NEW i \in 1..Len(u), NEW f \in acc \cup ToSet(c), f[1][1] = s PROVE f[1][2] < u[i][2]
  <2>1. e + i \in 1..Len(t) /\ u[i] = t[e + i] /\ e < e + i
    BY <1>13
  <2>2. CASE f \in acc
    BY <1>14, <2>1, <2>2 DEF Sendable
  <2>3. CASE f \in ToSet(c)
    <3>1. PICK k \in 1..N : f = c[k]
      BY <1>4, <2>3, ToSetFacts
    <3>2. NthEnd(data, k) <= e
      <4>1. NthEnd(data, k) \in Ends(data)
        BY NthEndCounts
      <4> QED
        BY <4>1, LastEnd
    <3>3. NthEnd(data, k) < e + i
      BY <1>3, <1>13, <2>1, <3>2
    <3> QED
      BY <1>8, <2>1, <3>1, <3>3
  <2> QED
    BY <1>14, <2>2, <2>3
<1>15. ASSUME NEW i \in 1..Len(u), NEW j \in 1..Len(u), i < j PROVE ~NotAfter(u[j], u[i])
  <2>1. e + i \in 1..Len(t) /\ u[i] = t[e + i] /\ e + j \in 1..Len(t) /\ u[j] = t[e + j] /\ e + i < e + j
    <3> HIDE DEF u, t, e
    <3>1. i \in 1..Len(t) - e /\ j \in 1..Len(t) - e /\ e + i < e + j
      BY <1>1, <1>13, <1>15
    <3> QED
      BY <1>13, <3>1
  <2> QED
    BY <2>1 DEF Sendable
<1>16. \A i \in 1..Len(u) : u[i][1] = s /\ u[i][2] <= n
  <2> TAKE i \in 1..Len(u)
  <2>1. e + i \in 1..Len(t) /\ u[i] = t[e + i]
    BY <1>13
  <2> QED
    BY <2>1 DEF Sendable
<1> HIDE DEF c, u
<1>17. Sendable(u, s, n, acc \cup ToSet(c))
  BY <1>12, <1>14, <1>15, <1>16 DEF Sendable
<1> QED
  BY <1>4, <1>7, <1>9, <1>12, <1>17 DEF c, u

-----------------------------------------------------------------------------
(* The senders' side of the server.                                        *)

LEMMA UpTypes ==
  ASSUME QInv, NEW s \in Senders
  PROVE  /\ buf[s] \in Seq(Piece) /\ up[s] \in Seq(Piece) /\ unwritten[s] \in Seq(Piece)
         /\ buf[s] \o up[s] \in Seq(Piece) /\ Upstream(s) \in Seq(Piece)
         /\ put[s] \in Nat /\ Pieces[s] \in Seq(Nat \ {0}) /\ Len(Pieces[s]) \in Nat
<1>1. buf[s] \in Seq(Piece) /\ up[s] \in Seq(Piece) /\ unwritten[s] \in Seq(Piece) /\ put[s] \in Nat
  BY DEF QInv, TypeOK
<1>2. Pieces[s] \in Seq(Nat \ {0}) /\ Len(Pieces[s]) \in Nat
  BY QueueAssumption, LenProperties
<1> QED
  BY <1>1, <1>2, ConcatProperties DEF Upstream

(* What holds of one sender.                                               *)
UpOf(s) ==
  /\ put[s] <= Len(Pieces[s])
  /\ client[s] = "dead" => unwritten[s] = <<>>
  /\ server = "up" =>
       /\ Sendable(Upstream(s), s, put[s], accepted)
       /\ Live(s) => Whole(Upstream(s))

LEMMA UpInvIs == UpInv <=> \A s \in Senders : UpOf(s)
BY DEF UpInv, UpOf

LEMMA UpStill ==
  ASSUME SenderSide, NEW s \in Senders,
         UNCHANGED <<server, accepted>>, put'[s] = put[s], Upstream(s)' = Upstream(s),
         Live(s)' => Live(s), client'[s] = "dead" => unwritten'[s] = <<>>
  PROVE  UpOf(s)'
BY DEF SenderSide, UpInv, UpOf

(* Steps that leave the senders' streams alone.                            *)
LEMMA SendersStill ==
  ASSUME SenderSide, UNCHANGED <<server, senderVars, buf, accepted>>,
         \A s \in Senders : (Live(s)' => Live(s)) /\ (client'[s] = "dead" => client[s] = "dead")
  PROVE  SenderSide'
<1>1. ASSUME NEW s \in Senders PROVE UpOf(s)'
  <2>1. put'[s] = put[s] /\ Upstream(s)' = Upstream(s) /\ unwritten' = unwritten
    BY DEF senderVars, Upstream
  <2>2. client'[s] = "dead" => unwritten'[s] = <<>>
    BY <2>1 DEF SenderSide, UpInv
  <2> QED
    BY <2>1, <2>2, UpStill
<1>2. AcceptedInv'
  BY DEF SenderSide, AcceptedInv, senderVars
<1>3. UpInv'
  BY <1>1 DEF UpInv, UpOf
<1> QED
  BY <1>2, <1>3 DEF SenderSide

LEMMA PutSenders ==
  ASSUME IInv, SenderSide, NEW s \in Senders, Put(s)
  PROVE  SenderSide'
<1> DEFINE k == put[s] + 1
           f == Frame(s, k)
           n == Room(up[s], f)
<1>1. /\ server = "up" /\ client[s] = "open" /\ put[s] < Len(Pieces[s]) /\ unwritten[s] = <<>>
      /\ put' = [put EXCEPT ![s] = k]
      /\ up' = [up EXCEPT ![s] = @ \o First(f, n)]
      /\ unwritten' = [unwritten EXCEPT ![s] = Rest(f, n)]
      /\ UNCHANGED <<server, client, task, serverVars, receiverVars>>
  BY DEF Put, WriteUp, LockFree
<1>2. QInv /\ buf' = buf /\ accepted' = accepted /\ client' = client /\ server' = server
  BY <1>1 DEF IInv, serverVars
<1>3. put \in [Senders -> Nat] /\ up \in [Senders -> Seq(Piece)] /\ unwritten \in [Senders -> Seq(Piece)]
  BY <1>2 DEF QInv, TypeOK
<1>4. k \in 1..Len(Pieces[s]) /\ put[s] \in Nat
  BY <1>1, <1>2, UpTypes
<1>5. f \in Seq(Piece)
  BY <1>4, FrameFacts
<1>6. n \in 0..Len(f)
  BY <1>2, <1>5, UpTypes, RoomType DEF QInv, SocketsBounded
<1> HIDE DEF f, n
<1>7. Upstream(s)' = Upstream(s) \o f
  <2>1. up'[s] = up[s] \o First(f, n) /\ unwritten'[s] = Rest(f, n)
    BY <1>1, <1>3
  <2>2. (buf[s] \o (up[s] \o First(f, n))) \o Rest(f, n) = (buf[s] \o up[s]) \o f
    <3> DEFINE a == buf[s]
               b == up[s]
    <3>1. a \in Seq(Piece) /\ b \in Seq(Piece)
      BY <1>2, UpTypes
    <3> HIDE DEF a, b
    <3>2. MovesIn(a, b, f, n)
      BY <1>5, <1>6, <3>1, MoveIn
    <3> QED
      BY <3>2 DEF a, b, MovesIn
  <2>3. Upstream(s) = buf[s] \o up[s]
    BY <1>1, <1>2, UpTypes, ConcatEmptySeq DEF Upstream
  <2> QED
    BY <1>2, <2>1, <2>2, <2>3 DEF Upstream
<1>8. Sendable(Upstream(s), s, put[s], accepted) /\ Whole(Upstream(s))
  BY <1>1 DEF SenderSide, UpInv, Live
<1>9. \A g \in accepted : g[1][1] = s => g[1][2] \in Nat /\ g[1][2] <= put[s]
  BY FramesFacts DEF SenderSide, AcceptedInv
<1>10. /\ Sendable(Upstream(s) \o f, s, k, accepted)
       /\ Whole(Upstream(s) \o f)
  <2>1. Upstream(s) \in Seq(Piece)
    BY <1>2, UpTypes
  <2> QED
    BY <1>4, <1>8, <1>9, <2>1, SendableMore DEF f
<1>11. UpOf(s)'
  <2>1. put'[s] = k
    BY <1>1, <1>3
  <2>2. put'[s] <= Len(Pieces[s])
    BY <1>2, <1>4, <2>1, UpTypes
  <2> QED
    BY <1>1, <1>2, <1>7, <1>10, <2>1, <2>2 DEF UpOf
<1>12. ASSUME NEW q \in Senders, q # s PROVE UpOf(q)'
  <2>1. put'[q] = put[q] /\ Upstream(q)' = Upstream(q) /\ unwritten'[q] = unwritten[q]
    BY <1>1, <1>2, <1>3, <1>12 DEF Upstream
  <2>2. client'[q] = "dead" => unwritten'[q] = <<>>
    BY <1>2, <2>1 DEF SenderSide, UpInv
  <2>3. Live(q)' => Live(q)
    BY <1>2 DEF Live
  <2> QED
    BY <1>2, <2>1, <2>2, <2>3, UpStill
<1>13. AcceptedInv'
  <2>1. \A g \in accepted : g[1][1] \in Senders /\ g[1][2] \in Nat
    BY FramesFacts DEF SenderSide, AcceptedInv
  <2>2. \A q \in Senders : put[q] \in Nat /\ put[q] <= put'[q]
    BY <1>1, <1>3
  <2>3. \A g \in accepted : g[1][2] <= put'[g[1][1]]
    <3> TAKE g \in accepted
    <3>1. g[1][1] \in Senders /\ g[1][2] \in Nat /\ g[1][2] <= put[g[1][1]]
      BY <2>1 DEF SenderSide, AcceptedInv
    <3>2. put[g[1][1]] \in Nat /\ put'[g[1][1]] \in Nat /\ put[g[1][1]] <= put'[g[1][1]]
      BY <1>1, <1>3, <2>2, <3>1
    <3> QED
      BY <3>1, <3>2
  <2> QED
    BY <1>2, <2>3 DEF SenderSide, AcceptedInv
<1> QED
  BY <1>11, <1>12, <1>13 DEF SenderSide, UpInv, UpOf

LEMMA PutMoreSenders ==
  ASSUME IInv, SenderSide, NEW s \in Senders, PutMore(s)
  PROVE  SenderSide'
<1> DEFINE f == unwritten[s]
           n == Room(up[s], f)
<1>1. /\ server = "up" /\ client[s] = "open"
      /\ up' = [up EXCEPT ![s] = @ \o First(f, n)]
      /\ unwritten' = [unwritten EXCEPT ![s] = Rest(f, n)]
      /\ UNCHANGED <<server, client, task, put, serverVars, receiverVars>>
  BY DEF PutMore, WriteUp
<1>2. QInv /\ buf' = buf /\ accepted' = accepted /\ client' = client /\ server' = server /\ put' = put
  BY <1>1 DEF IInv, serverVars
<1>3. up \in [Senders -> Seq(Piece)] /\ unwritten \in [Senders -> Seq(Piece)] /\ f \in Seq(Piece)
  BY <1>2 DEF QInv, TypeOK
<1>4. n \in 0..Len(f)
  BY <1>2, <1>3, UpTypes, RoomType DEF QInv, SocketsBounded
<1> HIDE DEF n
<1>5. Upstream(s)' = Upstream(s)
  <2>1. up'[s] = up[s] \o First(f, n) /\ unwritten'[s] = Rest(f, n)
    BY <1>1, <1>3
  <2>2. (buf[s] \o (up[s] \o First(f, n))) \o Rest(f, n) = (buf[s] \o up[s]) \o f
    <3> DEFINE a == buf[s]
               b == up[s]
    <3>1. a \in Seq(Piece) /\ b \in Seq(Piece)
      BY <1>2, UpTypes
    <3> HIDE DEF a, b, f
    <3>2. MovesIn(a, b, f, n)
      BY <1>3, <1>4, <3>1, MoveIn
    <3> QED
      BY <3>2 DEF a, b, MovesIn
  <2> QED
    BY <1>2, <2>1, <2>2 DEF Upstream
<1>6. ASSUME NEW q \in Senders PROVE UpOf(q)'
  <2>1. Upstream(q)' = Upstream(q) /\ (q # s => unwritten'[q] = unwritten[q])
    BY <1>1, <1>2, <1>3, <1>5 DEF Upstream
  <2>2. client'[q] = "dead" => unwritten'[q] = <<>>
    BY <1>1, <1>2, <2>1 DEF SenderSide, UpInv
  <2>3. Live(q)' => Live(q)
    BY <1>2 DEF Live
  <2> QED
    BY <1>2, <2>1, <2>2, <2>3, UpStill
<1>7. AcceptedInv'
  BY <1>2 DEF SenderSide, AcceptedInv
<1> QED
  BY <1>6, <1>7 DEF SenderSide, UpInv, UpOf

LEMMA SenderDiesSenders ==
  ASSUME IInv, SenderSide, NEW s \in Senders, SenderDies(s)
  PROVE  SenderSide'
<1>1. /\ client[s] = "open" /\ client' = [client EXCEPT ![s] = "dead"]
      /\ unwritten' = [unwritten EXCEPT ![s] = <<>>]
      /\ server' = server /\ put' = put /\ up' = up /\ buf' = buf /\ accepted' = accepted
  BY DEF SenderDies, serverVars
<1>2. QInv /\ unwritten \in [Senders -> Seq(Piece)]
      /\ client \in [Clients -> {"off", "open", "dead", "closed"}] /\ Senders \subseteq Clients
  BY DEF IInv, QInv, TypeOK, Clients
<1> DEFINE a == buf[s] \o up[s]
<1>3. a \in Seq(Piece) /\ unwritten[s] \in Seq(Piece) /\ Upstream(s) = a \o unwritten[s]
  BY <1>2, UpTypes DEF Upstream
<1>4. Upstream(s)' = a
  <2>1. Upstream(s)' = a \o <<>>
    BY <1>1, <1>2 DEF Upstream
  <2> HIDE DEF a
  <2> QED
    BY <1>3, <2>1, ConcatEmptySeq
<1>5. UpOf(s)'
  <2>1. server = "up" => Sendable(a, s, put[s], accepted)
    <3> SUFFICES ASSUME server = "up" PROVE Sendable(a, s, put[s], accepted)
      OBVIOUS
    <3>1. Sendable(Upstream(s), s, put[s], accepted)
      BY DEF SenderSide, UpInv
    <3>2. Upstream(s) \in Seq(Piece) /\ put[s] \in Nat
      BY <1>2, UpTypes
    <3> HIDE DEF a
    <3>3. First(Upstream(s), Len(a)) = a /\ Len(a) \in 0..Len(Upstream(s))
      BY <1>3, ConcatParts
    <3> QED
      BY <3>1, <3>2, <3>3, SendableFirst
  <2>2. client'[s] = "dead" /\ unwritten'[s] = <<>> /\ ~Live(s)'
    BY <1>1, <1>2 DEF Live
  <2>3. put[s] <= Len(Pieces[s])
    BY DEF SenderSide, UpInv
  <2> HIDE DEF a
  <2> QED
    BY <1>1, <1>4, <2>1, <2>2, <2>3 DEF UpOf
<1>6. ASSUME NEW q \in Senders, q # s PROVE UpOf(q)'
  <2>1. unwritten'[q] = unwritten[q] /\ client'[q] = client[q]
    BY <1>1, <1>2, <1>6
  <2>2. Upstream(q)' = Upstream(q)
    BY <1>1, <2>1 DEF Upstream
  <2>3. client'[q] = "dead" => unwritten'[q] = <<>>
    BY <2>1 DEF SenderSide, UpInv
  <2>4. Live(q)' => Live(q)
    BY <2>1 DEF Live
  <2> QED
    BY <1>1, <2>1, <2>2, <2>3, <2>4, UpStill
<1>7. AcceptedInv'
  BY <1>1 DEF SenderSide, AcceptedInv
<1> QED
  BY <1>5, <1>6, <1>7 DEF SenderSide, UpInv, UpOf

LEMMA SenderEOFSenders ==
  ASSUME IInv, SenderSide, NEW s \in Senders, SenderEOF(s)
  PROVE  SenderSide'
<1>1. /\ client[s] = "dead" /\ up[s] = <<>> /\ buf' = [buf EXCEPT ![s] = <<>>]
      /\ server' = server /\ put' = put /\ up' = up /\ unwritten' = unwritten
      /\ accepted' = accepted /\ client' = client
  BY DEF SenderEOF, senderVars
<1>2. QInv /\ buf \in [Senders -> Seq(Piece)]
  BY DEF IInv, QInv, TypeOK
<1>3. UpOf(s)'
  <2>1. unwritten[s] = <<>> /\ put[s] <= Len(Pieces[s]) /\ ~Live(s)
    BY <1>1 DEF SenderSide, UpInv, Live
  <2>2. Upstream(s)' = (<<>> \o <<>>) \o <<>>
    BY <1>1, <1>2, <2>1 DEF Upstream
  <2>3. Upstream(s)' = <<>>
    BY <2>2
  <2>4. Sendable(<<>>, s, put[s], accepted)
    BY DEF Sendable, Chain
  <2> QED
    BY <1>1, <2>1, <2>3, <2>4 DEF UpOf, Live
<1>4. ASSUME NEW q \in Senders, q # s PROVE UpOf(q)'
  <2>1. Upstream(q)' = Upstream(q)
    BY <1>1, <1>2, <1>4 DEF Upstream
  <2>2. client'[q] = "dead" => unwritten'[q] = <<>>
    BY <1>1 DEF SenderSide, UpInv
  <2>3. Live(q)' => Live(q)
    BY <1>1 DEF Live
  <2> QED
    BY <1>1, <2>1, <2>2, <2>3, UpStill
<1>5. AcceptedInv'
  BY <1>1 DEF SenderSide, AcceptedInv
<1> QED
  BY <1>3, <1>4, <1>5 DEF SenderSide, UpInv, UpOf

(* What the server cuts out of a sender's stream: packets that it has not  *)
(* seen, in the order of their put()s.                                     *)
New(c, s) ==
  /\ c \in Seq(Frames)
  /\ \A f \in ToSet(c) : /\ f[1][1] = s /\ f[1][2] <= put[s]
                         /\ \A g \in accepted : g[1][1] = s => g[1][2] < f[1][2]
  /\ \A i, j \in 1..Len(c) : i < j => c[i][1][2] < c[j][1][2]

LEMMA SenderTaskFacts ==
  ASSUME IInv, IdleInv, SenderSide, NEW s \in Senders, NEW n \in 1..Len(up[s]), SenderTask(s, n)
  PROVE  /\ \E c : /\ New(c, s) /\ to_send' = to_send \o c /\ accepted' = accepted \cup ToSet(c)
                   /\ server = "up"
                   /\ Sendable(Upstream(s)', s, put[s], accepted \cup ToSet(c))
                   /\ Live(s) => Whole(Upstream(s)')
<1> DEFINE data == buf[s] \o First(up[s], n)
           c == Cut(data)
           x == Rest(up[s], n) \o unwritten[s]
<1>1. /\ task[s] = "sender" /\ up' = [up EXCEPT ![s] = Rest(@, n)]
      /\ buf' = [buf EXCEPT ![s] = Leftover(data)]
      /\ to_send' = to_send \o c
      /\ accepted' = accepted \cup {c[i] : i \in 1..NumFrames(data)}
      /\ unwritten' = unwritten
  BY DEF SenderTask
<1>2. QInv /\ buf \in [Senders -> Seq(Piece)] /\ up \in [Senders -> Seq(Piece)] /\ s \in Clients
  BY DEF IInv, QInv, TypeOK, Clients
<1>3. server = "up"
  BY <1>1, <1>2 DEF IdleInv
<1>4. /\ Sendable(Upstream(s), s, put[s], accepted) /\ put[s] \in Nat
      /\ Live(s) => Whole(Upstream(s))
  BY <1>2, <1>3, UpTypes DEF SenderSide, UpInv
<1>5. /\ First(up[s], n) \in Seq(Piece) /\ Rest(up[s], n) \in Seq(Piece) /\ n \in 0..Len(up[s])
      /\ buf[s] \in Seq(Piece) /\ unwritten[s] \in Seq(Piece) /\ up[s] \in Seq(Piece)
  <2>1. up[s] \in Seq(Piece) /\ buf[s] \in Seq(Piece) /\ unwritten[s] \in Seq(Piece) /\ Len(up[s]) \in Nat
    BY <1>2, UpTypes, LenProperties
  <2>2. n \in 0..Len(up[s])
    BY <2>1
  <2> QED
    BY <2>1, <2>2, SplitFacts
<1>6. data \in Seq(Piece) /\ x \in Seq(Piece)
  BY <1>5, ConcatProperties
<1>7. data \o x = Upstream(s)
  <2> DEFINE a == buf[s]
             b == First(up[s], n)
             d == Rest(up[s], n)
             w == unwritten[s]
             m == up[s]
  <2>1. a \in Seq(Piece) /\ b \in Seq(Piece) /\ d \in Seq(Piece) /\ w \in Seq(Piece)
    BY <1>5
  <2>2. (a \o b) \o d = a \o m
    <3>1. Moves(a, m, n)
      BY <1>5, MoveOn
    <3> QED
      BY <3>1 DEF Moves
  <2> HIDE DEF a, b, d, w, m
  <2>3. Regroups(a \o b, d, w)
    <3> DEFINE y == a \o b
    <3>1. y \in Seq(Piece)
      BY <2>1, ConcatProperties
    <3> HIDE DEF y
    <3>2. Regroups(y, d, w)
      BY <2>1, <3>1, ConcatThree
    <3> QED
      BY <3>2 DEF y
  <2>4. (a \o m) \o w = (a \o b) \o (d \o w)
    BY <2>2, <2>3 DEF Regroups
  <2> QED
    BY <2>4 DEF a, b, d, w, m, Upstream
<1>8. Upstream(s)' = Leftover(data) \o x
  <2>1. buf'[s] = Leftover(data) /\ up'[s] = Rest(up[s], n) /\ unwritten'[s] = unwritten[s]
    BY <1>1, <1>2
  <2>2. Leftover(data) \in Seq(Piece)
    BY <1>6, CutType
  <2> DEFINE a == Leftover(data)
             d == Rest(up[s], n)
             w == unwritten[s]
  <2>3. a \in Seq(Piece) /\ d \in Seq(Piece) /\ w \in Seq(Piece)
    BY <1>5, <2>2
  <2> HIDE DEF a, d, w
  <2>4. Regroups(a, d, w)
    BY <2>3, ConcatThree
  <2> QED
    BY <2>1, <2>4 DEF a, d, w, Upstream, Regroups
<1> HIDE DEF data, x
<1>9. /\ c \in Seq(Frames)
      /\ \A f \in ToSet(c) :
           /\ f[1][1] = s /\ f[1][2] <= put[s]
           /\ \A g \in accepted : g[1][1] = s => g[1][2] < f[1][2]
      /\ \A i, j \in 1..Len(c) : i < j => c[i][1][2] < c[j][1][2]
      /\ Sendable(Leftover(data) \o x, s, put[s], accepted \cup ToSet(c))
      /\ Whole(data \o x) => Whole(Leftover(data) \o x)
  <2>1. Sendable(data \o x, s, put[s], accepted)
    BY <1>4, <1>7
  <2> QED
    BY <1>4, <1>6, <2>1, SendableCut
<1>10. accepted' = accepted \cup ToSet(c)
  <2>1. Len(c) = NumFrames(data) /\ ToSet(c) = {c[i] : i \in 1..Len(c)}
    BY <1>6, <1>9, CutType, ToSetFacts
  <2> QED
    BY <1>1, <2>1
<1> HIDE DEF c
<1>11. New(c, s)
  BY <1>9 DEF New
<1> QED
  BY <1>1, <1>3, <1>4, <1>7, <1>8, <1>9, <1>10, <1>11

LEMMA SenderTaskSenders ==
  ASSUME IInv, IdleInv, SenderSide, NEW s \in Senders, NEW n \in 1..Len(up[s]), SenderTask(s, n)
  PROVE  SenderSide'
<1>1. PICK c : /\ New(c, s) /\ to_send' = to_send \o c /\ accepted' = accepted \cup ToSet(c)
               /\ server = "up"
               /\ Sendable(Upstream(s)', s, put[s], accepted \cup ToSet(c))
               /\ Live(s) => Whole(Upstream(s)')
  BY SenderTaskFacts
<1>2. /\ server' = server /\ client' = client /\ put' = put /\ unwritten' = unwritten
      /\ \E u, b : up' = [up EXCEPT ![s] = u] /\ buf' = [buf EXCEPT ![s] = b]
  BY DEF SenderTask
<1>3. buf \in [Senders -> Seq(Piece)] /\ up \in [Senders -> Seq(Piece)]
  BY DEF IInv, QInv, TypeOK
<1>4. UpOf(s)'
  <2>1. put[s] <= Len(Pieces[s]) /\ (client[s] = "dead" => unwritten[s] = <<>>)
    BY DEF SenderSide, UpInv
  <2> QED
    BY <1>1, <1>2, <2>1 DEF UpOf, Live
<1>5. ASSUME NEW q \in Senders, q # s PROVE UpOf(q)'
  <2>1. Upstream(q)' = Upstream(q)
    BY <1>2, <1>3, <1>5 DEF Upstream
  <2>2. put[q] <= Len(Pieces[q]) /\ (client[q] = "dead" => unwritten[q] = <<>>)
    BY DEF SenderSide, UpInv
  <2>3. Sendable(Upstream(q), q, put[q], accepted) /\ (Live(q) => Whole(Upstream(q)))
    BY <1>1 DEF SenderSide, UpInv
  <2>4. Sendable(Upstream(q), q, put[q], accepted \cup ToSet(c))
    <3>1. \A f \in ToSet(c) : f[1][1] # q
      BY <1>1, <1>5 DEF New
    <3> QED
      BY <2>3, <3>1 DEF Sendable
  <2> QED
    BY <1>1, <1>2, <2>1, <2>2, <2>3, <2>4 DEF UpOf, Live
<1>6. AcceptedInv'
  <2>1. ToSet(c) \subseteq Frames /\ \A f \in ToSet(c) : f[1][2] <= put[f[1][1]]
    BY <1>1, ToSetFacts DEF New
  <2> QED
    BY <1>1, <1>2, <2>1 DEF SenderSide, AcceptedInv
<1> QED
  BY <1>4, <1>5, <1>6 DEF SenderSide, UpInv, UpOf

LEMMA CloseSenders ==
  ASSUME IInv, SenderSide, Close
  PROVE  SenderSide'
BY DEF Close, SenderSide, UpInv, AcceptedInv

-----------------------------------------------------------------------------
(* The receivers' side of the server.                                      *)

LEMMA DownTypes ==
  ASSUME QInv, NEW r \in Receivers
  PROVE  /\ cbuf[r] \in Seq(Piece) /\ down[r] \in Seq(Piece) /\ unsent[r] \in Seq(Piece)
         /\ packet[r] \in Seq(Piece) /\ got[r] \in Seq(Seq(Piece))
         /\ cbuf[r] \o down[r] \in Seq(Piece) /\ Downstream(r) \in Seq(Piece)
         /\ r \in Clients
<1>1. /\ cbuf[r] \in Seq(Piece) /\ down[r] \in Seq(Piece) /\ unsent[r] \in Seq(Piece)
      /\ packet[r] \in Seq(Piece) /\ got[r] \in Seq(Seq(Piece)) /\ r \in Clients
  BY DEF QInv, TypeOK, Clients
<1> QED
  BY <1>1, ConcatProperties DEF Downstream

LEMMA SeqOfFrames ==
  ASSUME NEW q \in Seq(Seq(Piece)), ToSet(q) \subseteq Frames
  PROVE  q \in Seq(Frames)
<1>1. \A i \in 1..Len(q) : q[i] \in Frames
  BY ToSetFacts
<1> QED
  BY <1>1, SeqDef

LEMMA FrameTypes ==
  ASSUME QInv, SenderSide, ReceiverSide
  PROVE  to_send \in Seq(Frames) /\ \A r \in Receivers : got[r] \in Seq(Frames)
<1>1. to_send \in Seq(Frames)
  BY SeqOfFrames DEF QInv, TypeOK, SenderSide, AcceptedInv, ReceiverSide, HoldInv
<1>2. ASSUME NEW r \in Receivers PROVE got[r] \in Seq(Frames)
  <2>1. got[r] \in Seq(Seq(Piece))
    BY DownTypes
  <2>2. ToSet(got[r]) \subseteq Frames
    BY DEF SenderSide, AcceptedInv, ReceiverSide, SeenInv
  <2> QED
    BY <2>1, <2>2, SeqOfFrames
<1> QED
  BY <1>1, <1>2

(* A stream from which something is gone, at one of its ends.              *)
PartOf(u, t) == \E n \in 0..Len(t) : u = First(t, n) \/ u = Rest(t, n)

LEMMA PartFacts ==
  ASSUME NEW t \in Seq(Piece), NEW u, PartOf(u, t), NEW rq
  PROVE  u \in Seq(Piece) /\ ToSet(u) \subseteq ToSet(t) /\ (InOrder(t, rq) => InOrder(u, rq))
<1>1. PICK n \in 0..Len(t) : u = First(t, n) \/ u = Rest(t, n)
  BY DEF PartOf
<1>2. First(t, n) \in Seq(Piece) /\ Rest(t, n) \in Seq(Piece)
  BY SplitFacts
<1>3. ToSet(First(t, n)) \subseteq ToSet(t) /\ ToSet(Rest(t, n)) \subseteq ToSet(t)
  BY ToSetParts
<1>4. InOrder(t, rq) => InOrder(First(t, n), rq) /\ InOrder(Rest(t, n), rq)
  BY InOrderParts
<1> QED
  BY <1>1, <1>2, <1>3, <1>4

LEMMA PartSelf ==
  ASSUME NEW t \in Seq(Piece)
  PROVE  PartOf(t, t)
<1>1. Len(t) \in Nat /\ Len(t) \in 0..Len(t)
  BY LenProperties
<1>2. Len(First(t, Len(t))) = Len(t) /\ First(t, Len(t)) \in Seq(Piece)
      /\ \A i \in 1..Len(t) : First(t, Len(t))[i] = t[i]
  BY <1>1, SplitFacts
<1>3. First(t, Len(t)) = t
  BY <1>2, SeqEqual
<1> QED
  BY <1>1, <1>3 DEF PartOf

(* Where nothing is added, all stays seen and in order.                    *)
LEMMA PartsStay ==
  ASSUME QInv, ReceiverSide, UNCHANGED <<accepted, requeued, got>>,
         ToSet(to_send') \subseteq ToSet(to_send), FramesInOrder(to_send', requeued),
         \A r \in Receivers : PartOf(Downstream(r)', Downstream(r))
  PROVE  SeenInv' /\ OrderInv'
<1>1. Heads(to_send') \subseteq Heads(to_send)
  BY DEF Heads
<1>2. ASSUME NEW r \in Receivers
      PROVE  /\ ToSet(Downstream(r)') \subseteq ToSet(Downstream(r))
             /\ InOrder(Downstream(r), requeued) => InOrder(Downstream(r)', requeued)
  BY DownTypes, PartFacts
<1>3. SeenInv'
  <2> SUFFICES ASSUME NEW r \in Receivers
               PROVE  /\ ToSet(got'[r]) \subseteq accepted'
                      /\ \A p \in ToSet(Downstream(r)') : Valid(p) /\ Of(p) \in accepted'
    BY DEF SeenInv
  <2>1. /\ ToSet(got[r]) \subseteq accepted
        /\ \A p \in ToSet(Downstream(r)) : Valid(p) /\ Of(p) \in accepted
    BY DEF ReceiverSide, SeenInv
  <2> QED
    BY <1>2, <2>1
<1>4. OrderInv'
  <2> SUFFICES ASSUME NEW r \in Receivers
               PROVE  /\ Excused(Heads(to_send'), Heads(got'[r]), requeued')
                      /\ Excused(Heads(to_send'), ToSet(Downstream(r)'), requeued')
                      /\ Excused(ToSet(Downstream(r)'), Heads(got'[r]), requeued')
                      /\ InOrder(Downstream(r)', requeued')
                      /\ FramesInOrder(got'[r], requeued')
    BY DEF OrderInv
  <2>1. /\ Excused(Heads(to_send), Heads(got[r]), requeued)
        /\ Excused(Heads(to_send), ToSet(Downstream(r)), requeued)
        /\ Excused(ToSet(Downstream(r)), Heads(got[r]), requeued)
        /\ InOrder(Downstream(r), requeued)
        /\ FramesInOrder(got[r], requeued)
    BY DEF ReceiverSide, OrderInv
  <2> QED
    BY <1>1, <1>2, <2>1 DEF Excused
<1> QED
  BY <1>3, <1>4

(* A frame is given to nobody else.                                        *)
LEMMA HoldsLess ==
  ASSUME HoldInv, UNCHANGED <<accepted, to_send>>,
         \A r \in Receivers : Holds(r)' =>
           /\ Holds(r) /\ packet'[r] = packet[r]
           /\ \E m \in 0..Len(packet[r]) - 1 : unsent'[r] = Rest(packet[r], m)
  PROVE  HoldInv'
BY DEF HoldInv

LEMMA DownLess ==
  ASSUME DownInv, server' = server,
         \A r \in Receivers : Downstream(r)' = Downstream(r) /\ (Live(r)' => Live(r))
  PROVE  DownInv'
BY DEF DownInv

LEMMA ReceiversStill ==
  ASSUME QInv, ReceiverSide, UNCHANGED <<server, to_send, accepted, requeued, got>>,
         \A r \in Receivers : Downstream(r)' = Downstream(r) /\ (Live(r)' => Live(r)),
         \A r \in Receivers : Holds(r)' =>
           /\ Holds(r) /\ packet'[r] = packet[r]
           /\ \E m \in 0..Len(packet[r]) - 1 : unsent'[r] = Rest(packet[r], m)
  PROVE  ReceiverSide'
<1>1. HoldInv'
  BY HoldsLess DEF ReceiverSide
<1>2. DownInv'
  BY DownLess DEF ReceiverSide
<1>3. \A r \in Receivers : PartOf(Downstream(r)', Downstream(r))
  BY DownTypes, PartSelf
<1>4. FramesInOrder(to_send', requeued) /\ ToSet(to_send') \subseteq ToSet(to_send)
  BY DEF ReceiverSide, OrderInv
<1>5. SeenInv' /\ OrderInv'
  BY <1>3, <1>4, PartsStay
<1> QED
  BY <1>1, <1>2, <1>5 DEF ReceiverSide

(* Steps of the clients and of the tasks for senders, but for SenderTask.  *)
LEMMA ElsewhereReceivers ==
  ASSUME QInv, ReceiverSide,
         UNCHANGED <<server, to_send, packet, unsent, accepted, requeued, receiverVars>>,
         \A r \in Receivers : (Holds(r)' => Holds(r)) /\ (Live(r)' => Live(r))
  PROVE  ReceiverSide'
<1>1. \A r \in Receivers : Downstream(r)' = Downstream(r)
  BY DEF receiverVars, Downstream
<1>2. got' = got
  BY DEF receiverVars
<1>3. \A r \in Receivers : Holds(r)' =>
        /\ Holds(r) /\ packet'[r] = packet[r]
        /\ \E m \in 0..Len(packet[r]) - 1 : unsent'[r] = Rest(packet[r], m)
  BY DEF ReceiverSide, HoldInv
<1> QED
  BY <1>1, <1>2, <1>3, ReceiversStill

LEMMA SleptReceivers ==
  ASSUME QInv, ReceiverSide, NEW r \in Receivers, Slept(r)
  PROVE  ReceiverSide'
<1>1. /\ task[r] = "sleep" /\ packet' = [packet EXCEPT ![r] = <<>>]
      /\ task' = [task EXCEPT ![r] = "acquire"]
      /\ UNCHANGED <<server, client, to_send, unsent, accepted, requeued, down, cbuf, got>>
  BY DEF Slept, receiverVars
<1>2. packet \in [Receivers -> Seq(Piece)] /\ DOMAIN task = Clients /\ Receivers \subseteq Clients
  BY DEF QInv, TypeOK, Clients
<1>3. \A q \in Receivers : Downstream(q)' = Downstream(q) /\ (Live(q)' => Live(q))
  BY <1>1 DEF Downstream, Live
<1>4. ASSUME NEW q \in Receivers, Holds(q)'
      PROVE  /\ Holds(q) /\ packet'[q] = packet[q]
             /\ \E m \in 0..Len(packet[q]) - 1 : unsent'[q] = Rest(packet[q], m)
  <2>1. q # r /\ Holds(q) /\ packet'[q] = packet[q] /\ unsent' = unsent
    BY <1>1, <1>2, <1>4 DEF Holds
  <2> QED
    BY <2>1 DEF ReceiverSide, HoldInv
<1> QED
  BY <1>1, <1>3, <1>4, ReceiversStill

LEMMA RecvReceivers ==
  ASSUME QInv, ReceiverSide, NEW r \in Receivers, NEW n \in 1..Len(down[r]), Recv(r, n)
  PROVE  ReceiverSide'
<1>1. /\ cbuf' = [cbuf EXCEPT ![r] = @ \o First(down[r], n)]
      /\ down' = [down EXCEPT ![r] = Rest(@, n)]
      /\ UNCHANGED <<server, client, task, to_send, packet, unsent, accepted, requeued, got>>
  BY DEF Recv, serverVars
<1>2. /\ cbuf \in [Receivers -> Seq(Piece)] /\ down \in [Receivers -> Seq(Piece)]
  BY DEF QInv, TypeOK
<1>3. cbuf'[r] \o down'[r] = cbuf[r] \o down[r]
  <2> DEFINE a == cbuf[r]
             b == down[r]
  <2>1. a \in Seq(Piece) /\ b \in Seq(Piece) /\ n \in 0..Len(b)
    BY <1>2, LenProperties
  <2>2. cbuf'[r] = a \o First(b, n) /\ down'[r] = Rest(b, n)
    BY <1>1, <1>2
  <2> HIDE DEF a, b
  <2>3. Moves(a, b, n)
    BY <2>1, MoveOn
  <2> QED
    BY <2>2, <2>3 DEF Moves, a, b
<1>4. ASSUME NEW q \in Receivers PROVE Downstream(q)' = Downstream(q)
  <2>1. CASE q = r
    BY <1>1, <1>3, <2>1 DEF Downstream
  <2>2. CASE q # r
    BY <1>1, <1>2, <2>2 DEF Downstream
  <2> QED
    BY <2>1, <2>2
<1>5. \A q \in Receivers : Holds(q)' =>
        /\ Holds(q) /\ packet'[q] = packet[q]
        /\ \E m \in 0..Len(packet[q]) - 1 : unsent'[q] = Rest(packet[q], m)
  BY <1>1 DEF Holds, ReceiverSide, HoldInv
<1>6. \A q \in Receivers : Live(q)' => Live(q)
  BY <1>1 DEF Live
<1> QED
  BY <1>1, <1>4, <1>5, <1>6, ReceiversStill

LEMMA DistinctConcat ==
  ASSUME NEW q \in Seq(Frames), NEW c \in Seq(Frames), Distinct(q), Distinct(c),
         ToSet(q) \cap ToSet(c) = {}
  PROVE  Distinct(q \o c)
<1> DEFINE u == q \o c
<1>1. /\ Len(q) \in Nat
      /\ \A i \in 1..Len(u) : \/ i \in 1..Len(q) /\ u[i] = q[i]
                              \/ i - Len(q) \in 1..Len(c) /\ u[i] = c[i - Len(q)]
  BY ConcatFacts
<1> HIDE DEF u
<1>2. (\A i \in 1..Len(q) : q[i] \in ToSet(q)) /\ \A i \in 1..Len(c) : c[i] \in ToSet(c)
  BY ToSetFacts
<1>3. SUFFICES ASSUME NEW i \in 1..Len(u), NEW j \in 1..Len(u), u[i] = u[j] PROVE i = j
  BY DEF Distinct, u
<1>4. CASE i \in 1..Len(q) /\ u[i] = q[i]
  <2>1. j \in 1..Len(q) /\ u[j] = q[j]
    BY <1>1, <1>2, <1>3, <1>4
  <2> QED
    BY <1>3, <1>4, <2>1 DEF Distinct
<1>5. CASE i - Len(q) \in 1..Len(c) /\ u[i] = c[i - Len(q)]
  <2>1. j - Len(q) \in 1..Len(c) /\ u[j] = c[j - Len(q)]
    BY <1>1, <1>2, <1>3, <1>5
  <2>2. i - Len(q) = j - Len(q)
    BY <1>3, <1>5, <2>1 DEF Distinct
  <2> QED
    BY <1>1, <2>2
<1> QED
  BY <1>1, <1>4, <1>5

(* What a write puts where.                                                *)
LEMMA WriteDownFacts ==
  ASSUME QInv, NEW r \in Receivers, NEW frame \in Seq(Piece), NEW data \in Seq(Piece),
         WriteDown(r, frame, data), cbuf' = cbuf
  PROVE  /\ Room(down[r], data) \in 0..Len(data)
         /\ packet'[r] = frame /\ unsent'[r] = Rest(data, Room(down[r], data))
         /\ Holds(r)' <=> Room(down[r], data) # Len(data)
         /\ Downstream(r)' = (cbuf[r] \o down[r]) \o data
         /\ cbuf'[r] \o down'[r] = (cbuf[r] \o down[r]) \o First(data, Room(down[r], data))
         /\ \A q \in Receivers : q # r =>
              /\ packet'[q] = packet[q] /\ unsent'[q] = unsent[q] /\ (Holds(q)' <=> Holds(q))
              /\ Downstream(q)' = Downstream(q) /\ down'[q] = down[q]
<1> DEFINE n == Room(down[r], data)
           a == cbuf[r]
           b == down[r]
<1>1. /\ a \in Seq(Piece) /\ b \in Seq(Piece) /\ Len(b) <= Cap
      /\ down \in [Receivers -> Seq(Piece)] /\ unsent \in [Receivers -> Seq(Piece)]
      /\ packet \in [Receivers -> Seq(Piece)] /\ DOMAIN task = Clients /\ Receivers \subseteq Clients
  BY DEF QInv, TypeOK, SocketsBounded, Clients
<1>2. n \in 0..Len(data)
  BY <1>1, RoomType
<1>3. /\ down' = [down EXCEPT ![r] = @ \o First(data, n)]
      /\ unsent' = [unsent EXCEPT ![r] = Rest(data, n)]
      /\ packet' = [packet EXCEPT ![r] = frame]
      /\ task' = [task EXCEPT ![r] = IF n = Len(data) THEN "sleep" ELSE "sendall"]
  BY DEF WriteDown
<1> HIDE DEF n
<1>4. /\ packet'[r] = frame /\ unsent'[r] = Rest(data, n) /\ down'[r] = b \o First(data, n)
      /\ Holds(r)' <=> n # Len(data)
  BY <1>1, <1>3 DEF Holds
<1> HIDE DEF a, b
<1>5. Downstream(r)' = (a \o b) \o data
  <2>1. MovesIn(a, b, data, n)
    BY <1>1, <1>2, MoveIn
  <2> QED
    BY <1>4, <2>1 DEF a, MovesIn, Downstream
<1>6. cbuf'[r] \o down'[r] = (a \o b) \o First(data, n)
  <2>1. First(data, n) \in Seq(Piece)
    BY <1>2, SplitFacts
  <2>2. Regroups(a, b, First(data, n))
    BY <1>1, <2>1, ConcatThree
  <2> QED
    BY <1>4, <2>2 DEF a, Regroups
<1>7. ASSUME NEW q \in Receivers, q # r
      PROVE  /\ packet'[q] = packet[q] /\ unsent'[q] = unsent[q] /\ (Holds(q)' <=> Holds(q))
             /\ Downstream(q)' = Downstream(q) /\ down'[q] = down[q]
  BY <1>1, <1>3, <1>7 DEF Downstream, Holds
<1> QED
  BY <1>2, <1>4, <1>5, <1>6, <1>7 DEF n, a, b

(* A suspended write goes on: the frame is still with the server.          *)
LEMMA ResumeOpenReceivers ==
  ASSUME QInv, SenderSide, ReceiverSide, NEW r \in Receivers, Resume(r), client[r] = "open"
  PROVE  ReceiverSide'
<1>1. /\ task[r] = "sendall" /\ WriteDown(r, packet[r], unsent[r])
      /\ UNCHANGED <<server, client, to_send, accepted, requeued, cbuf, got>>
  BY DEF Resume
<1> DEFINE f == packet[r]
           n == Room(down[r], unsent[r])
<1>2. /\ packet[r] \in Seq(Piece) /\ unsent[r] \in Seq(Piece)
  BY DownTypes
<1>3. /\ n \in 0..Len(unsent[r]) /\ packet'[r] = f /\ unsent'[r] = Rest(unsent[r], n)
      /\ Holds(r)' <=> n # Len(unsent[r])
      /\ Downstream(r)' = (cbuf[r] \o down[r]) \o unsent[r]
      /\ \A q \in Receivers : q # r =>
           /\ packet'[q] = packet[q] /\ unsent'[q] = unsent[q] /\ (Holds(q)' <=> Holds(q))
           /\ Downstream(q)' = Downstream(q)
  BY <1>1, <1>2, WriteDownFacts
<1>4. PICK m \in 0..Len(f) - 1 : unsent[r] = Rest(f, m)
  BY <1>1 DEF ReceiverSide, HoldInv, Holds
<1>5. f \in Frames
  BY <1>1 DEF ReceiverSide, HoldInv, Holds, SenderSide, AcceptedInv
<1>6. ASSUME Holds(r)' PROVE \E k \in 0..Len(f) - 1 : unsent'[r] = Rest(f, k)
  <2> HIDE DEF f, n
  <2>1. m \in 0..Len(f) /\ Len(f) \in Nat /\ m \in Nat /\ Len(Rest(f, m)) = Len(f) - m
    BY <1>4, <1>5, FrameRest
  <2>2. n \in 0..Len(Rest(f, m)) /\ n # Len(Rest(f, m))
    BY <1>3, <1>4, <1>6
  <2>3. Rest(Rest(f, m), n) = Rest(f, m + n)
    <3>1. f \in Seq(Piece)
      BY <1>5, FramesFacts
    <3> QED
      BY <2>1, <2>2, <3>1, RestOfRest
  <2>4. m + n \in 0..Len(f) - 1
    BY <2>1, <2>2
  <2> QED
    BY <1>3, <1>4, <2>3, <2>4
<1>7. \A q \in Receivers : Holds(q)' =>
        /\ Holds(q) /\ packet'[q] = packet[q]
        /\ \E k \in 0..Len(packet[q]) - 1 : unsent'[q] = Rest(packet[q], k)
  <2> SUFFICES ASSUME NEW q \in Receivers, Holds(q)'
               PROVE  /\ Holds(q) /\ packet'[q] = packet[q]
                      /\ \E k \in 0..Len(packet[q]) - 1 : unsent'[q] = Rest(packet[q], k)
    OBVIOUS
  <2>1. CASE q = r
    BY <1>1, <1>3, <1>6, <2>1 DEF Holds
  <2>2. CASE q # r
    <3>1. Holds(q) /\ packet'[q] = packet[q] /\ unsent'[q] = unsent[q]
      BY <1>3, <2>2
    <3> QED
      BY <3>1 DEF ReceiverSide, HoldInv
  <2> QED
    BY <2>1, <2>2
<1>8. \A q \in Receivers : Downstream(q)' = Downstream(q) /\ (Live(q)' => Live(q))
  BY <1>1, <1>3 DEF Downstream, Live
<1> QED
  BY <1>1, <1>7, <1>8, ReceiversStill

(* A frame that was taken for a receiver that is gone.                     *)
LEMMA TakeDeadReceivers ==
  ASSUME IInv, SenderSide, ReceiverSide, NEW r \in Receivers, Take(r), client[r] # "open"
  PROVE  ReceiverSide'
<1>1. /\ task[r] = "acquire" /\ sem > 0
      /\ to_send' = <<Head(to_send)>> \o Tail(to_send)
      /\ packet' = [packet EXCEPT ![r] = <<>>]
      /\ unsent' = [unsent EXCEPT ![r] = <<>>]
      /\ task' = [task EXCEPT ![r] = "done"]
      /\ UNCHANGED <<server, client, accepted, requeued, down, cbuf, got>>
  BY DEF Take, PutBack
<1>2. QInv /\ to_send \in Seq(Frames) /\ to_send # <<>>
  BY <1>1, FrameTypes, EmptySeq DEF IInv, QInv, SemMatchesQueue, TypeOK
<1>3. to_send' = to_send
  BY <1>1, <1>2, TailOfFrames DEF ReceiverSide, HoldInv, OrderInv
<1>4. /\ packet \in [Receivers -> Seq(Piece)] /\ DOMAIN task = Clients /\ Receivers \subseteq Clients
      /\ unsent \in [Receivers -> Seq(Piece)] /\ unsent[r] = <<>>
  BY <1>1, <1>2 DEF QInv, TypeOK, Clients
<1>5. unsent' = unsent
  BY <1>1, <1>4
<1>6. \A q \in Receivers : Downstream(q)' = Downstream(q) /\ (Live(q)' => Live(q))
  BY <1>1, <1>5 DEF Downstream, Live
<1>7. ASSUME NEW q \in Receivers, Holds(q)'
      PROVE  /\ Holds(q) /\ packet'[q] = packet[q]
             /\ \E m \in 0..Len(packet[q]) - 1 : unsent'[q] = Rest(packet[q], m)
  <2>1. q # r /\ Holds(q) /\ packet'[q] = packet[q]
    BY <1>1, <1>4, <1>7 DEF Holds
  <2> QED
    BY <1>5, <2>1 DEF ReceiverSide, HoldInv
<1> QED
  BY <1>1, <1>2, <1>3, <1>6, <1>7, ReceiversStill

(* The first frame goes to a receiver.                                     *)
LEMMA TakeOpenFacts ==
  ASSUME IInv, SenderSide, ReceiverSide, NEW r \in Receivers, Take(r), client[r] = "open"
  PROVE  \E h : /\ h \in Frames /\ h \in accepted /\ h = Head(to_send) /\ to_send # <<>>
                /\ to_send' = Tail(to_send) /\ to_send' \in Seq(Frames)
                /\ ToSet(to_send) = ToSet(to_send') \cup {h} /\ h \notin ToSet(to_send')
                /\ Distinct(to_send') /\ FramesInOrder(to_send', requeued)
                /\ Excused(Heads(to_send'), {h[1]}, requeued)
                /\ ~Holds(r) /\ Downstream(r) \in Seq(Piece)
                /\ Downstream(r) = cbuf[r] \o down[r] /\ Downstream(r)' = Downstream(r) \o h
                /\ Room(down[r], h) \in 0..Len(h)
                /\ packet'[r] = h /\ unsent'[r] = Rest(h, Room(down[r], h))
                /\ Holds(r)' <=> Room(down[r], h) # Len(h)
                /\ cbuf'[r] \o down'[r] = Downstream(r) \o First(h, Room(down[r], h))
                /\ \A q \in Receivers : q # r =>
                     /\ packet'[q] = packet[q] /\ unsent'[q] = unsent[q] /\ (Holds(q)' <=> Holds(q))
                     /\ Downstream(q)' = Downstream(q) /\ down'[q] = down[q]
                /\ UNCHANGED <<server, client, accepted, requeued, cbuf, got>>
<1> DEFINE h == Head(to_send)
<1>1. /\ task[r] = "acquire" /\ sem > 0 /\ to_send' = Tail(to_send)
      /\ WriteDown(r, h, h)
      /\ UNCHANGED <<server, client, accepted, requeued, cbuf, got>>
  BY DEF Take
<1>2. QInv /\ to_send \in Seq(Frames) /\ to_send # <<>>
  BY SMTT(40), <1>1, FrameTypes, EmptySeq DEF IInv, QInv, SemMatchesQueue, TypeOK
<1>3. /\ h \in Frames /\ to_send' \in Seq(Frames)
      /\ ToSet(to_send) = ToSet(to_send') \cup {h} /\ h \notin ToSet(to_send')
      /\ Distinct(to_send') /\ FramesInOrder(to_send', requeued)
      /\ Excused(Heads(to_send'), {h[1]}, requeued)
  BY <1>1, <1>2, TailOfFrames DEF ReceiverSide, HoldInv, OrderInv
<1>4. h \in Seq(Piece) /\ h \in accepted
  BY <1>3, FramesFacts DEF ReceiverSide, HoldInv
<1>5. unsent[r] = <<>> /\ ~Holds(r)
  BY <1>1, <1>2 DEF QInv, TypeOK, Holds
<1>6. Downstream(r) = cbuf[r] \o down[r] /\ Downstream(r) \in Seq(Piece)
  BY <1>2, <1>5, DownTypes, ConcatEmptySeq DEF Downstream
<1> HIDE DEF h
<1>7. /\ Room(down[r], h) \in 0..Len(h)
      /\ packet'[r] = h /\ unsent'[r] = Rest(h, Room(down[r], h))
      /\ Holds(r)' <=> Room(down[r], h) # Len(h)
      /\ Downstream(r)' = (cbuf[r] \o down[r]) \o h
      /\ cbuf'[r] \o down'[r] = (cbuf[r] \o down[r]) \o First(h, Room(down[r], h))
      /\ \A q \in Receivers : q # r =>
           /\ packet'[q] = packet[q] /\ unsent'[q] = unsent[q] /\ (Holds(q)' <=> Holds(q))
           /\ Downstream(q)' = Downstream(q) /\ down'[q] = down[q]
  BY <1>1, <1>2, <1>4, WriteDownFacts
<1>8. Downstream(r)' = Downstream(r) \o h
      /\ cbuf'[r] \o down'[r] = Downstream(r) \o First(h, Room(down[r], h))
  BY <1>6, <1>7
<1> QED
  BY <1>1, <1>2, <1>3, <1>4, <1>5, <1>6, <1>7, <1>8 DEF h

LEMMA TakeOpenReceivers ==
  ASSUME IInv, IdleInv, SenderSide, ReceiverSide, NEW r \in Receivers, Take(r), client[r] = "open"
  PROVE  ReceiverSide'
<1>1. PICK h : /\ h \in Frames /\ h \in accepted /\ h = Head(to_send) /\ to_send # <<>>
               /\ to_send' = Tail(to_send) /\ to_send' \in Seq(Frames)
               /\ ToSet(to_send) = ToSet(to_send') \cup {h} /\ h \notin ToSet(to_send')
               /\ Distinct(to_send') /\ FramesInOrder(to_send', requeued)
               /\ Excused(Heads(to_send'), {h[1]}, requeued)
               /\ ~Holds(r) /\ Downstream(r) \in Seq(Piece)
               /\ Downstream(r) = cbuf[r] \o down[r] /\ Downstream(r)' = Downstream(r) \o h
               /\ Room(down[r], h) \in 0..Len(h)
               /\ packet'[r] = h /\ unsent'[r] = Rest(h, Room(down[r], h))
               /\ Holds(r)' <=> Room(down[r], h) # Len(h)
               /\ cbuf'[r] \o down'[r] = Downstream(r) \o First(h, Room(down[r], h))
               /\ \A q \in Receivers : q # r =>
                    /\ packet'[q] = packet[q] /\ unsent'[q] = unsent[q] /\ (Holds(q)' <=> Holds(q))
                    /\ Downstream(q)' = Downstream(q) /\ down'[q] = down[q]
               /\ UNCHANGED <<server, client, accepted, requeued, cbuf, got>>
  BY TakeOpenFacts
<1>2. /\ h \in Seq(Piece) /\ Len(h) \in Nat \ {0} /\ h = Of(h[1])
      /\ \A i \in 1..Len(h) : h[i] = <<h[1][1], h[1][2], i>> /\ Valid(h[i]) /\ Of(h[i]) = h
      /\ Chain(h) /\ Whole(h)
  BY <1>1, FramesFacts, FrameIsChain
<1>3. ToSet(Downstream(r)') = ToSet(Downstream(r)) \cup ToSet(h)
  <2> DEFINE d == Downstream(r)
  <2>1. d \in Seq(Piece) /\ Downstream(r)' = d \o h
    BY <1>1
  <2> HIDE DEF d
  <2>2. ToSet(d \o h) = ToSet(d) \cup ToSet(h)
    BY <1>2, <2>1, ToSetConcat
  <2> QED
    BY <2>1, <2>2 DEF d
<1>4. \A p \in ToSet(h) : Valid(p) /\ Of(p) = h /\ p[1] = h[1][1] /\ p[2] = h[1][2]
  BY <1>2, ToSetFacts
<1>5. server = "up" /\ Live(r)
  BY DEF Take, IdleInv, Live, Clients
<1>6. DownInv'
  <2> SUFFICES ASSUME NEW q \in Receivers, Live(q)'
               PROVE  Chain(Downstream(q)') /\ (server' = "up" => Whole(Downstream(q)'))
    BY DEF DownInv
  <2>1. Live(q) /\ Chain(Downstream(q)) /\ Whole(Downstream(q))
    BY <1>1, <1>5 DEF Live, ReceiverSide, DownInv
  <2>2. CASE q = r
    BY <1>1, <1>2, <2>1, <2>2, ChainConcat
  <2>3. CASE q # r
    BY <1>1, <2>1, <2>3
  <2> QED
    BY <2>2, <2>3
<1>7. HoldInv'
  <2>1. ToSet(to_send') \subseteq accepted' /\ Distinct(to_send')
    BY <1>1 DEF ReceiverSide, HoldInv
  <2>2. ASSUME NEW q \in Receivers, Holds(q)'
        PROVE  /\ packet'[q] \in accepted' \ ToSet(to_send')
               /\ \E m \in 0..Len(packet'[q]) - 1 : unsent'[q] = Rest(packet'[q], m)
               /\ q # r => packet'[q] # h
    <3>1. CASE q = r
      <4>1. Room(down[r], h) \in 0..Len(h) - 1
        BY <1>1, <1>2, <2>2, <3>1
      <4> QED
        BY <1>1, <3>1, <4>1
    <3>2. CASE q # r
      <4>1. Holds(q) /\ packet'[q] = packet[q] /\ unsent'[q] = unsent[q]
        BY <1>1, <2>2, <3>2
      <4> QED
        BY <1>1, <4>1 DEF ReceiverSide, HoldInv
    <3> QED
      BY <3>1, <3>2
  <2>3. ASSUME NEW p \in Receivers, NEW q \in Receivers, Holds(p)', Holds(q)', packet'[p] = packet'[q]
        PROVE  p = q
    <3>1. CASE p = r \/ q = r
      BY <1>1, <2>2, <2>3, <3>1
    <3>2. CASE p # r /\ q # r
      <4>1. Holds(p) /\ Holds(q) /\ packet[p] = packet[q]
        BY <1>1, <2>3, <3>2
      <4> QED
        BY <4>1 DEF ReceiverSide, HoldInv
    <3> QED
      BY <3>1, <3>2
  <2> QED
    BY <2>1, <2>2, <2>3 DEF HoldInv
<1>8. SeenInv'
  <2> SUFFICES ASSUME NEW q \in Receivers
               PROVE  /\ ToSet(got'[q]) \subseteq accepted'
                      /\ \A p \in ToSet(Downstream(q)') : Valid(p) /\ Of(p) \in accepted'
    BY DEF SeenInv
  <2>1. /\ ToSet(got[q]) \subseteq accepted
        /\ \A p \in ToSet(Downstream(q)) : Valid(p) /\ Of(p) \in accepted
    BY DEF ReceiverSide, SeenInv
  <2>2. ToSet(Downstream(q)') \subseteq ToSet(Downstream(q)) \cup ToSet(h)
    BY <1>1, <1>3
  <2> QED
    BY <1>1, <1>4, <2>1, <2>2
<1>9. OrderInv'
  <2>1. Heads(to_send') \subseteq Heads(to_send) /\ h[1] \in Heads(to_send)
    BY <1>1 DEF Heads
  <2> SUFFICES ASSUME NEW q \in Receivers
               PROVE  /\ Excused(Heads(to_send'), Heads(got'[q]), requeued')
                      /\ Excused(Heads(to_send'), ToSet(Downstream(q)'), requeued')
                      /\ Excused(ToSet(Downstream(q)'), Heads(got'[q]), requeued')
                      /\ InOrder(Downstream(q)', requeued')
                      /\ FramesInOrder(got'[q], requeued')
    BY <1>1 DEF OrderInv
  <2>2. /\ Excused(Heads(to_send), Heads(got[q]), requeued)
        /\ Excused(Heads(to_send), ToSet(Downstream(q)), requeued)
        /\ Excused(ToSet(Downstream(q)), Heads(got[q]), requeued)
        /\ InOrder(Downstream(q), requeued)
        /\ FramesInOrder(got[q], requeued)
    BY DEF ReceiverSide, OrderInv
  <2>3. Excused(Heads(to_send'), Heads(got'[q]), requeued') /\ FramesInOrder(got'[q], requeued')
    BY <1>1, <2>1, <2>2 DEF Excused
  <2>4. CASE q # r
    BY <1>1, <2>1, <2>2, <2>3, <2>4 DEF Excused
  <2>5. CASE q = r
    <3>1. Excused(Heads(to_send'), ToSet(h), requeued)
      BY <1>1, <1>4 DEF Excused, Late
    <3>2. Excused(ToSet(h), Heads(got[r]), requeued)
      BY <1>2, <1>4, <2>1, <2>2, <2>5 DEF Excused, Late
    <3>3. Excused({h[1]}, ToSet(Downstream(r)), requeued)
      BY <2>1, <2>2, <2>5 DEF Excused
    <3>4. InOrder(Downstream(r) \o h, requeued)
      BY <1>1, <2>2, <2>5, <3>3, InOrderFrame
    <3>5. Excused(Heads(to_send'), ToSet(Downstream(r)'), requeued)
      BY <1>3, <2>1, <2>2, <2>5, <3>1 DEF Excused
    <3>6. Excused(ToSet(Downstream(r)'), Heads(got[r]), requeued)
      BY <1>3, <2>2, <2>5, <3>2 DEF Excused
    <3> QED
      BY <1>1, <2>3, <2>5, <3>4, <3>5, <3>6
  <2> QED
    BY <2>4, <2>5
<1> QED
  BY <1>6, <1>7, <1>8, <1>9 DEF ReceiverSide

(* A frame that was half written to a receiver that is gone.               *)
LEMMA ResumeDeadFacts ==
  ASSUME IInv, SenderSide, ReceiverSide, NEW r \in Receivers, Resume(r), client[r] # "open"
  PROVE  /\ packet[r] \in Frames /\ packet[r] \in accepted \ ToSet(to_send)
         /\ to_send \in Seq(Frames) /\ to_send' = <<packet[r]>> \o to_send
         /\ requeued' = requeued \cup {packet[r]}
         /\ packet[r][1] \in Heads(<<packet[r]>>) /\ \E p \in ToSet(Downstream(r)) : Of(p) = packet[r]
         /\ Holds(r) /\ ~Holds(r)' /\ ~Live(r)
         /\ PartOf(Downstream(r)', Downstream(r))
         /\ \A q \in Receivers : q # r =>
              /\ packet'[q] = packet[q] /\ unsent'[q] = unsent[q] /\ (Holds(q)' <=> Holds(q))
              /\ Downstream(q)' = Downstream(q)
         /\ UNCHANGED <<server, client, accepted, down, cbuf, got>>
<1> DEFINE f == packet[r]
<1>1. /\ task[r] = "sendall" /\ to_send' = <<f>> \o to_send
      /\ packet' = [packet EXCEPT ![r] = <<>>]
      /\ unsent' = [unsent EXCEPT ![r] = <<>>]
      /\ task' = [task EXCEPT ![r] = "done"]
      /\ requeued' = requeued \cup {f}
      /\ UNCHANGED <<server, client, accepted, down, cbuf, got>>
  BY DEF Resume, PutBack
<1>2. QInv /\ to_send \in Seq(Frames) /\ Holds(r)
  BY <1>1, FrameTypes DEF IInv, Holds
<1>3. /\ f \in accepted \ ToSet(to_send) /\ f \in Frames
      /\ \E m \in 0..Len(f) - 1 : unsent[r] = Rest(f, m)
  BY <1>2 DEF ReceiverSide, HoldInv, SenderSide, AcceptedInv
<1>4. f[1] \in Heads(<<f>>)
  BY <1>3, FramesInOrderOne
<1>5. ~Live(r)
  <2>1. r \in Clients /\ task[r] # "none"
    BY <1>1 DEF Clients
  <2> QED
    BY <2>1 DEF Live, IInv, OffHasNoTask
<1>6. /\ packet \in [Receivers -> Seq(Piece)] /\ DOMAIN task = Clients /\ Receivers \subseteq Clients
      /\ unsent \in [Receivers -> Seq(Piece)]
  BY <1>2 DEF QInv, TypeOK, Clients
<1>7. ~Holds(r)' /\ unsent'[r] = <<>>
  BY <1>1, <1>6 DEF Holds
<1> DEFINE a == cbuf[r] \o down[r]
           b == unsent[r]
<1>8. a \in Seq(Piece) /\ b \in Seq(Piece) /\ Downstream(r) = a \o b
  BY <1>2, DownTypes DEF Downstream
<1>9. Downstream(r)' = a
  <2>1. Downstream(r)' = a \o <<>>
    BY <1>1, <1>7 DEF Downstream
  <2> HIDE DEF a
  <2> QED
    BY <1>8, <2>1, ConcatEmptySeq
<1>10. PartOf(a, a \o b)
  <2> HIDE DEF a, b
  <2> QED
    BY <1>8, ConcatParts DEF PartOf
<1>11. \E p \in ToSet(Downstream(r)) : Of(p) = f
  <2>1. PICK m \in 0..Len(f) - 1 : b = Rest(f, m)
    BY <1>3
  <2>2. /\ Rest(f, m) \in Seq(Piece) /\ Rest(f, m) # <<>>
        /\ \A x \in ToSet(Rest(f, m)) : Of(x) = f
    BY <1>3, <2>1, FrameRest
  <2>3. Len(b) \in 1..Len(b)
    BY <1>8, <2>1, <2>2, EmptySeq, LenProperties
  <2> HIDE DEF a, b, f
  <2>4. b[Len(b)] \in ToSet(b)
    BY <1>8, <2>3, ToSetFacts
  <2>5. ToSet(a \o b) = ToSet(a) \cup ToSet(b)
    BY <1>8, ToSetConcat
  <2>6. b[Len(b)] \in ToSet(Downstream(r)) /\ Of(b[Len(b)]) = f
    BY <1>8, <2>1, <2>2, <2>4, <2>5
  <2> QED
    BY <2>6
<1>12. ASSUME NEW q \in Receivers, q # r
       PROVE  /\ packet'[q] = packet[q] /\ unsent'[q] = unsent[q] /\ (Holds(q)' <=> Holds(q))
              /\ Downstream(q)' = Downstream(q)
  BY <1>1, <1>6, <1>12 DEF Holds, Downstream
<1> HIDE DEF f, a, b
<1>13. PartOf(Downstream(r)', Downstream(r))
  BY <1>8, <1>9, <1>10
<1> QED
  BY <1>1, <1>2, <1>3, <1>4, <1>5, <1>7, <1>11, <1>12, <1>13 DEF f

LEMMA ResumeDeadReceivers ==
  ASSUME IInv, SenderSide, ReceiverSide, NEW r \in Receivers, Resume(r), client[r] # "open"
  PROVE  ReceiverSide'
<1> DEFINE f == packet[r]
<1>1. /\ f \in Frames /\ f \in accepted \ ToSet(to_send)
      /\ to_send \in Seq(Frames) /\ to_send' = <<f>> \o to_send
      /\ requeued' = requeued \cup {f}
      /\ \E p \in ToSet(Downstream(r)) : Of(p) = f
      /\ Holds(r) /\ ~Holds(r)' /\ ~Live(r)
      /\ PartOf(Downstream(r)', Downstream(r))
      /\ \A q \in Receivers : q # r =>
           /\ packet'[q] = packet[q] /\ unsent'[q] = unsent[q] /\ (Holds(q)' <=> Holds(q))
           /\ Downstream(q)' = Downstream(q)
      /\ UNCHANGED <<server, client, accepted, down, cbuf, got>>
  BY ResumeDeadFacts
<1> HIDE DEF f
<1>2. /\ <<f>> \in Seq(Frames) /\ ToSet(<<f>>) = {f} /\ Heads(<<f>>) = {f[1]}
      /\ FramesInOrder(<<f>>, requeued') /\ Of(f[1]) = f
  BY <1>1, FramesInOrderOne, FramesFacts
<1>3. ToSet(to_send') = {f} \cup ToSet(to_send)
  <2> DEFINE o == <<f>>
             t == to_send
  <2>1. o \in Seq(Frames) /\ t \in Seq(Frames) /\ to_send' = o \o t /\ ToSet(o) = {f}
    BY <1>1, <1>2
  <2> HIDE DEF o, t
  <2>2. ToSet(o \o t) = ToSet(o) \cup ToSet(t)
    BY <2>1, ToSetConcat
  <2> QED
    BY <2>1, <2>2 DEF t
<1>4. Heads(to_send') = {f[1]} \cup Heads(to_send)
  BY <1>3 DEF Heads
<1>5. \A q \in Receivers : PartOf(Downstream(q)', Downstream(q))
  BY <1>1, DownTypes, PartSelf DEF IInv
<1>6. \A q \in Receivers : /\ ToSet(Downstream(q)') \subseteq ToSet(Downstream(q))
                           /\ InOrder(Downstream(q), requeued') => InOrder(Downstream(q)', requeued')
  BY <1>5, DownTypes, PartFacts DEF IInv
<1>7. DownInv'
  <2> SUFFICES ASSUME NEW q \in Receivers, Live(q)'
               PROVE  Chain(Downstream(q)') /\ (server' = "up" => Whole(Downstream(q)'))
    BY DEF DownInv
  <2>1. Live(q) /\ q # r
    BY <1>1 DEF Live
  <2> QED
    BY <1>1, <2>1 DEF ReceiverSide, DownInv
<1>8. HoldInv'
  <2>1. Distinct(to_send')
    <3> DEFINE o == <<f>>
               t == to_send
    <3>1. o \in Seq(Frames) /\ t \in Seq(Frames) /\ to_send' = o \o t /\ ToSet(o) \cap ToSet(t) = {}
      BY <1>1, <1>2
    <3>2. Distinct(t) /\ Distinct(o)
      BY DEF ReceiverSide, HoldInv, Distinct
    <3> HIDE DEF o, t
    <3>3. Distinct(o \o t)
      BY <3>1, <3>2, DistinctConcat
    <3> QED
      BY <3>1, <3>3
  <2>2. ToSet(to_send') \subseteq accepted'
    BY <1>1, <1>3 DEF ReceiverSide, HoldInv
  <2>3. ASSUME NEW q \in Receivers, Holds(q)'
        PROVE  /\ packet'[q] \in accepted' \ ToSet(to_send')
               /\ \E m \in 0..Len(packet'[q]) - 1 : unsent'[q] = Rest(packet'[q], m)
    <3>1. q # r /\ Holds(q) /\ packet'[q] = packet[q] /\ unsent'[q] = unsent[q]
      BY <1>1, <2>3
    <3>2. packet[q] # f
      BY <1>1, <3>1 DEF f, ReceiverSide, HoldInv
    <3> QED
      BY <1>1, <1>3, <3>1, <3>2 DEF ReceiverSide, HoldInv
  <2>4. ASSUME NEW p \in Receivers, NEW q \in Receivers, Holds(p)', Holds(q)', packet'[p] = packet'[q]
        PROVE  p = q
    <3>1. p # r /\ q # r /\ Holds(p) /\ Holds(q) /\ packet[p] = packet[q]
      BY <1>1, <2>4
    <3> QED
      BY <3>1 DEF ReceiverSide, HoldInv
  <2> QED
    BY <2>1, <2>2, <2>3, <2>4 DEF HoldInv
<1>9. SeenInv'
  BY <1>1, <1>6 DEF ReceiverSide, SeenInv
<1>10. OrderInv'
  <2>1. requeued \subseteq requeued' /\ f \in requeued'
    BY <1>1
  <2>2. FramesInOrder(to_send', requeued')
    <3>1. Excused(Heads(to_send), {f[1]}, requeued)
      <4>1. PICK p \in ToSet(Downstream(r)) : Of(p) = f
        BY <1>1
      <4>2. Valid(p)
        BY DEF ReceiverSide, SeenInv
      <4>3. f[1] = <<p[1], p[2], 1>>
        BY <4>1, <4>2, ValidFacts
      <4>4. Excused(Heads(to_send), ToSet(Downstream(r)), requeued)
        BY DEF ReceiverSide, OrderInv
      <4> QED
        BY <4>1, <4>3, <4>4 DEF Excused, Late
    <3>2. FramesInOrder(to_send, requeued') /\ Excused(Heads(to_send), {f[1]}, requeued')
      BY <2>1, <3>1, OrderKept DEF ReceiverSide, OrderInv
    <3>3. FramesInOrder(<<f>> \o to_send, requeued')
      <4> DEFINE o == <<f>>
                 t == to_send
                 rq == requeued'
      <4>1. /\ o \in Seq(Frames) /\ t \in Seq(Frames) /\ FramesInOrder(o, rq)
            /\ FramesInOrder(t, rq) /\ Excused(Heads(t), Heads(o), rq)
        BY <1>1, <1>2, <3>2
      <4> HIDE DEF o, t, rq
      <4>2. FramesInOrder(o \o t, rq)
        BY <4>1, FramesInOrderConcat
      <4> QED
        BY <4>2 DEF o, t, rq
    <3> QED
      BY <1>1, <3>3
  <2>3. ASSUME NEW q \in Receivers
        PROVE  /\ Excused(Heads(to_send'), Heads(got'[q]), requeued')
               /\ Excused(Heads(to_send'), ToSet(Downstream(q)'), requeued')
               /\ Excused(ToSet(Downstream(q)'), Heads(got'[q]), requeued')
               /\ InOrder(Downstream(q)', requeued')
               /\ FramesInOrder(got'[q], requeued')
    <3>1. /\ Excused(Heads(to_send), Heads(got[q]), requeued')
          /\ Excused(Heads(to_send), ToSet(Downstream(q)), requeued')
          /\ Excused(ToSet(Downstream(q)), Heads(got[q]), requeued')
          /\ InOrder(Downstream(q), requeued')
          /\ FramesInOrder(got[q], requeued')
      BY <2>1, OrderKept DEF ReceiverSide, OrderInv
    <3>2. InOrder(Downstream(q)', requeued') /\ ToSet(Downstream(q)') \subseteq ToSet(Downstream(q))
      BY <1>6, <3>1
    <3> QED
      BY <1>1, <1>2, <1>4, <2>1, <3>1, <3>2 DEF Excused
  <2> QED
    BY <2>2, <2>3 DEF OrderInv
<1> QED
  BY <1>7, <1>8, <1>9, <1>10 DEF ReceiverSide

(* What get() yields is the packet whose last piece it finds, and the rest *)
(* of the stream follows.                                                  *)
LEMMA YieldFacts ==
  ASSUME QInv, ReceiverSide, NEW r \in Receivers, Yield(r)
  PROVE  \E e \in 1..Len(Downstream(r)) :
           /\ IsLast(Downstream(r)[e]) /\ Chain(Downstream(r)) /\ Live(r)
           /\ Downstream(r)' = Rest(Downstream(r), e)
           /\ got' = [got EXCEPT ![r] = Append(@, Of(Downstream(r)[e]))]
           /\ Of(Downstream(r)[e]) = Cut(cbuf[r])[1]
           /\ \A q \in Receivers : q # r => Downstream(q)' = Downstream(q)
           /\ UNCHANGED <<server, client, task, to_send, packet, unsent, accepted, requeued>>
<1> DEFINE a == cbuf[r]
           b == down[r] \o unsent[r]
           e == NthEnd(a, 1)
           D == Downstream(r)
<1>1. /\ client[r] = "open" /\ NumFrames(a) > 0
      /\ got' = [got EXCEPT ![r] = Append(@, Cut(a)[1])]
      /\ cbuf' = [cbuf EXCEPT ![r] = Rest(a, e)]
      /\ UNCHANGED <<server, client, task, to_send, packet, unsent, accepted, requeued, down>>
  BY DEF Yield, serverVars
<1>2. /\ cbuf[r] \in Seq(Piece) /\ down[r] \in Seq(Piece) /\ unsent[r] \in Seq(Piece)
      /\ D \in Seq(Piece) /\ cbuf \in [Receivers -> Seq(Piece)]
  BY DownTypes DEF QInv, TypeOK
<1>3. b \in Seq(Piece) /\ a \in Seq(Piece)
  BY <1>2, ConcatProperties
<1>4. D = a \o b
  <2> DEFINE x == down[r]
             y == unsent[r]
  <2>1. x \in Seq(Piece) /\ y \in Seq(Piece) /\ a \in Seq(Piece)
    BY <1>2
  <2> HIDE DEF a, x, y
  <2>2. Regroups(a, x, y)
    BY <2>1, ConcatThree
  <2> QED
    BY <2>2 DEF a, x, y, Regroups, Downstream
<1>5. Live(r) /\ Chain(D)
  BY <1>1 DEF Live, ReceiverSide, DownInv
<1>6. Downstream(r)' = (Rest(a, e) \o down[r]) \o unsent[r]
  BY <1>1, <1>2 DEF Downstream
<1>7. ASSUME NEW q \in Receivers, q # r PROVE Downstream(q)' = Downstream(q)
  BY <1>1, <1>2, <1>7 DEF Downstream
<1> HIDE DEF a, e, D
<1>8. NumFrames(a) \in Nat /\ 1 \in 1..NumFrames(a) /\ NumFrames(a) # 0
  BY <1>1, <1>3, EndsFinite
<1>9. e \in 1..Len(a) /\ IsLast(a[e]) /\ e \in 0..Len(a)
  BY <1>3, <1>8, CutFirst DEF e
<1>10. Downstream(r)' = Rest(D, e)
  <2> DEFINE x == down[r]
             y == unsent[r]
             z == Rest(a, e)
  <2>1. x \in Seq(Piece) /\ y \in Seq(Piece) /\ z \in Seq(Piece)
    BY <1>2, <1>3, <1>9, SplitFacts
  <2>2. b = x \o y
    OBVIOUS
  <2> HIDE DEF x, y, z, b
  <2>3. Regroups(z, x, y)
    BY <2>1, ConcatThree
  <2>4. Rest(a \o b, e) = z \o b
    BY <1>3, <1>9, RestOfConcat DEF z
  <2>5. (z \o x) \o y = z \o b
    BY <2>2, <2>3 DEF Regroups
  <2> QED
    BY <1>4, <1>6, <2>4, <2>5 DEF x, y, z
<1> HIDE DEF b
<1>11. /\ Len(a) \in Nat /\ Len(a) <= Len(D) /\ Len(D) \in Nat
       /\ \A i \in 1..Len(a) : i \in 1..Len(D) /\ a[i] = D[i]
  BY <1>3, <1>4, ConcatFacts
<1>12. Chain(a)
  BY <1>2, <1>3, <1>5, <1>11, ChainPrefix DEF D
<1>13. Cut(a)[1] = Of(D[e])
  BY <1>3, <1>8, <1>9, <1>11, <1>12, CutIsFrame DEF e
<1>14. e \in 1..Len(D) /\ IsLast(D[e])
  BY <1>9, <1>11
<1> QED
  BY <1>1, <1>5, <1>7, <1>10, <1>13, <1>14 DEF a, D

LEMMA YieldReceivers ==
  ASSUME QInv, SenderSide, ReceiverSide, NEW r \in Receivers, Yield(r)
  PROVE  ReceiverSide'
<1> DEFINE D == Downstream(r)
<1>1. PICK e \in 1..Len(D) :
        /\ IsLast(D[e]) /\ Chain(D) /\ Live(r)
        /\ Downstream(r)' = Rest(D, e)
        /\ got' = [got EXCEPT ![r] = Append(@, Of(D[e]))]
        /\ Of(D[e]) = Cut(cbuf[r])[1]
        /\ \A q \in Receivers : q # r => Downstream(q)' = Downstream(q)
        /\ UNCHANGED <<server, client, task, to_send, packet, unsent, accepted, requeued>>
  BY YieldFacts
<1> DEFINE g == Of(D[e])
<1>2. D \in Seq(Piece) /\ got \in [Receivers -> Seq(Seq(Piece))] /\ Len(D) \in Nat
  BY DownTypes, LenProperties DEF QInv, TypeOK
<1>3. D[e] \in ToSet(D) /\ Valid(D[e]) /\ g \in accepted /\ D[e][3] = Pieces[D[e][1]][D[e][2]]
  BY <1>1, <1>2, ToSetFacts DEF ReceiverSide, SeenInv, IsLast
<1>4. g \in Frames /\ g[1] = <<D[e][1], D[e][2], 1>> /\ Of(g[1]) = g
  <2> DEFINE p == D[e]
  <2> HIDE DEF p
  <2>1. Valid(p)
    BY <1>3 DEF p
  <2>2. Of(p) \in Frames /\ Of(p)[1] = <<p[1], p[2], 1>>
    BY <2>1, ValidFacts
  <2>3. Of(Of(p)[1]) = Of(p)
    BY <2>2, FramesFacts
  <2> QED
    BY <2>2, <2>3 DEF p
<1>5. e \in 0..Len(D) /\ Rest(D, e) \in Seq(Piece) /\ ToSet(Rest(D, e)) \subseteq ToSet(D)
  BY <1>2, SplitFacts, ToSetParts
<1>6. DownInv'
  <2> SUFFICES ASSUME NEW q \in Receivers, Live(q)'
               PROVE  Chain(Downstream(q)') /\ (server' = "up" => Whole(Downstream(q)'))
    BY DEF DownInv
  <2>1. Live(q) /\ Chain(Downstream(q)) /\ (server = "up" => Whole(Downstream(q)))
    BY <1>1 DEF Live, ReceiverSide, DownInv
  <2>2. CASE q = r
    BY <1>1, <1>2, <1>5, <2>1, <2>2, ChainSuffix
  <2>3. CASE q # r
    BY <1>1, <2>1, <2>3
  <2> QED
    BY <2>2, <2>3
<1>7. HoldInv'
  BY <1>1 DEF ReceiverSide, HoldInv, Holds
<1> DEFINE gs == got[r]
<1>8. gs \in Seq(Frames)
  BY FrameTypes
<1>9. got'[r] = Append(gs, g) /\ \A q \in Receivers : q # r => got'[q] = got[q]
  BY <1>1, <1>2
<1>10. /\ Append(gs, g) = gs \o <<g>> /\ ToSet(Append(gs, g)) = ToSet(gs) \cup {g}
       /\ Heads(Append(gs, g)) = Heads(gs) \cup {g[1]}
  <2> HIDE DEF gs, g
  <2>1. ToSet(Append(gs, g)) = ToSet(gs) \cup {g}
    BY <1>4, <1>8, AppendFacts
  <2>2. Append(gs, g) = gs \o <<g>>
    BY <1>4, <1>8
  <2> QED
    BY <2>1, <2>2 DEF Heads
<1>11. SeenInv'
  <2> SUFFICES ASSUME NEW q \in Receivers
               PROVE  /\ ToSet(got'[q]) \subseteq accepted'
                      /\ \A p \in ToSet(Downstream(q)') : Valid(p) /\ Of(p) \in accepted'
    BY DEF SeenInv
  <2>1. /\ ToSet(got[q]) \subseteq accepted
        /\ \A p \in ToSet(Downstream(q)) : Valid(p) /\ Of(p) \in accepted
    BY DEF ReceiverSide, SeenInv
  <2>2. CASE q = r
    BY <1>1, <1>3, <1>5, <1>9, <1>10, <2>1, <2>2
  <2>3. CASE q # r
    BY <1>1, <1>9, <2>1, <2>3
  <2> QED
    BY <2>2, <2>3
<1>12. OrderInv'
  <2> SUFFICES ASSUME NEW q \in Receivers
               PROVE  /\ Excused(Heads(to_send'), Heads(got'[q]), requeued')
                      /\ Excused(Heads(to_send'), ToSet(Downstream(q)'), requeued')
                      /\ Excused(ToSet(Downstream(q)'), Heads(got'[q]), requeued')
                      /\ InOrder(Downstream(q)', requeued')
                      /\ FramesInOrder(got'[q], requeued')
    BY <1>1 DEF OrderInv, ReceiverSide
  <2>1. /\ Excused(Heads(to_send), Heads(got[q]), requeued)
        /\ Excused(Heads(to_send), ToSet(Downstream(q)), requeued)
        /\ Excused(ToSet(Downstream(q)), Heads(got[q]), requeued)
        /\ InOrder(Downstream(q), requeued)
        /\ FramesInOrder(got[q], requeued)
    BY DEF ReceiverSide, OrderInv
  <2>2. CASE q # r
    BY <1>1, <1>9, <2>1, <2>2
  <2>3. CASE q = r
    <3>1. Excused(Heads(to_send), {g[1]}, requeued)
      <4>1. \A x : Late(x, g[1]) => Late(x, D[e])
        BY <1>4 DEF Late
      <4> QED
        BY <1>3, <2>1, <2>3, <4>1 DEF Excused
    <3>2. Excused({g[1]}, Heads(gs), requeued)
      <4>1. \A y : Late(g[1], y) => Late(D[e], y)
        BY <1>4 DEF Late
      <4> QED
        BY <1>3, <1>4, <2>1, <2>3, <4>1 DEF Excused
    <3>3. Excused(ToSet(Rest(D, e)), {g[1]}, requeued)
      <4> SUFFICES ASSUME NEW x \in ToSet(Rest(D, e)), Late(x, g[1]) PROVE Of(x) \in requeued
        BY DEF Excused
      <4>1. PICK i \in 1..Len(Rest(D, e)) : Rest(D, e)[i] = x
        BY <1>5, ToSetFacts
      <4>2. e + i \in 1..Len(D) /\ x = D[e + i] /\ e < e + i
        <5> HIDE DEF D
        <5>1. /\ Len(Rest(D, e)) = Len(D) - e /\ e \in Nat
              /\ \A k \in 1..Len(D) - e : e + k \in 1..Len(D) /\ Rest(D, e)[k] = D[e + k]
          BY <1>2, <1>5, SplitFacts
        <5> QED
          BY <4>1, <5>1
      <4>3. Valid(x)
        BY <1>5, <2>1 DEF ReceiverSide, SeenInv
      <4>4. NotAfter(x, D[e])
        <5> HIDE DEF D, g
        <5>1. x[1] = D[e][1] /\ x[2] <= D[e][2]
          BY <1>4 DEF Late
        <5>2. x[2] \in Nat /\ x[3] \in Nat /\ x[3] <= Pieces[x[1]][x[2]] /\ D[e][2] \in Nat
          BY <1>3, <4>3, ValidFacts
        <5>3. x[2] = D[e][2] => x[3] <= D[e][3]
          BY <1>3, <5>1, <5>2
        <5> QED
          BY <5>1, <5>2, <5>3 DEF NotAfter
      <4> QED
        BY <1>1, <2>1, <2>3, <4>2, <4>4 DEF InOrder
    <3>4. InOrder(Rest(D, e), requeued)
      BY <1>2, <1>5, <2>1, <2>3, InOrderParts
    <3>5. FramesInOrder(gs \o <<g>>, requeued)
      <4>1. /\ <<g>> \in Seq(Frames) /\ FramesInOrder(<<g>>, requeued) /\ Heads(<<g>>) = {g[1]}
        BY <1>4, FramesInOrderOne
      <4> DEFINE h == <<g>>
      <4> HIDE DEF gs, g, h
      <4>2. FramesInOrder(gs, requeued)
        BY <2>1, <2>3 DEF gs
      <4>3. Excused(Heads(h), Heads(gs), requeued) /\ h \in Seq(Frames) /\ FramesInOrder(h, requeued)
        BY <3>2, <4>1 DEF h
      <4>4. FramesInOrder(gs \o h, requeued)
        BY <1>8, <4>2, <4>3, FramesInOrderConcat
      <4> QED
        BY <4>4 DEF h
    <3>6. Excused(Heads(to_send), Heads(gs) \cup {g[1]}, requeued)
      BY <2>1, <2>3, <3>1 DEF Excused
    <3>7. Excused(Heads(to_send), ToSet(Rest(D, e)), requeued)
      BY <1>5, <2>1, <2>3 DEF Excused
    <3>8. Excused(ToSet(Rest(D, e)), Heads(gs) \cup {g[1]}, requeued)
      BY <1>5, <2>1, <2>3, <3>3 DEF Excused
    <3> QED
      BY <1>1, <1>9, <1>10, <2>3, <3>4, <3>5, <3>6, <3>7, <3>8
  <2> QED
    BY <2>2, <2>3
<1> QED
  BY <1>6, <1>7, <1>11, <1>12 DEF ReceiverSide

(* A receiver dies: what was not read is gone with its socket.             *)
LEMMA ReceiverDiesReceivers ==
  ASSUME QInv, ReceiverSide, NEW r \in Receivers, ReceiverDies(r)
  PROVE  ReceiverSide'
<1>1. /\ client[r] = "open" /\ client' = [client EXCEPT ![r] = "dead"]
      /\ down' = [down EXCEPT ![r] = <<>>] /\ cbuf' = [cbuf EXCEPT ![r] = <<>>]
      /\ UNCHANGED <<server, task, to_send, packet, unsent, accepted, requeued, got>>
  BY DEF ReceiverDies, serverVars
<1>2. /\ cbuf \in [Receivers -> Seq(Piece)] /\ down \in [Receivers -> Seq(Piece)]
      /\ DOMAIN client = Clients /\ r \in Clients
  BY DEF QInv, TypeOK, Clients
<1>3. ~Live(r)' /\ \A q \in Receivers : Live(q)' => Live(q)
  BY <1>1, <1>2 DEF Live, Clients
<1> DEFINE a == cbuf[r] \o down[r]
           u == unsent[r]
<1>4. a \in Seq(Piece) /\ u \in Seq(Piece) /\ Downstream(r) = a \o u
  BY DownTypes DEF Downstream
<1>5. Downstream(r)' = u
  <2>1. cbuf'[r] = <<>> /\ down'[r] = <<>> /\ unsent'[r] = u
    BY <1>1, <1>2
  <2> HIDE DEF u
  <2>2. (<<>> \o <<>>) \o u = u
    BY <1>4, ConcatEmptySeq
  <2> QED
    BY <2>1, <2>2 DEF Downstream
<1>6. PartOf(Downstream(r)', Downstream(r))
  <2> HIDE DEF a, u
  <2>1. Rest(a \o u, Len(a)) = u /\ Len(a) \in 0..Len(a \o u)
    BY <1>4, ConcatParts
  <2> QED
    BY <1>4, <1>5, <2>1 DEF PartOf
<1>7. ASSUME NEW q \in Receivers, q # r PROVE Downstream(q)' = Downstream(q)
  BY <1>1, <1>2, <1>7 DEF Downstream
<1>8. ASSUME NEW q \in Receivers PROVE PartOf(Downstream(q)', Downstream(q))
  BY <1>6, <1>7, DownTypes, PartSelf
<1>9. DownInv'
  BY <1>1, <1>3, <1>7 DEF DownInv, ReceiverSide
<1>10. HoldInv'
  BY <1>1 DEF ReceiverSide, HoldInv, Holds
<1>11. FramesInOrder(to_send', requeued) /\ ToSet(to_send') \subseteq ToSet(to_send)
  BY <1>1 DEF ReceiverSide, OrderInv
<1>12. SeenInv' /\ OrderInv'
  BY <1>1, <1>8, <1>11, PartsStay
<1> QED
  BY <1>9, <1>10, <1>12 DEF ReceiverSide

(* Packets that the server has not seen come after all that it has.        *)
LEMMA NewFacts ==
  ASSUME QInv, SenderSide, ReceiverSide, NEW s \in Senders, NEW c, New(c, s)
  PROVE  /\ c \in Seq(Frames) /\ Distinct(c) /\ FramesInOrder(c, requeued)
         /\ ToSet(c) \cap accepted = {}
         /\ \A x \in Heads(c) : \A y : (\E g \in accepted : y[1] = g[1][1] /\ y[2] = g[1][2]) => ~Late(x, y)
<1>1. /\ c \in Seq(Frames)
      /\ \A f \in ToSet(c) : /\ f[1][1] = s /\ f[1][2] <= put[s]
                             /\ \A g \in accepted : g[1][1] = s => g[1][2] < f[1][2]
      /\ \A i, j \in 1..Len(c) : i < j => c[i][1][2] < c[j][1][2]
  BY DEF New
<1>2. \A f \in ToSet(c) \cup accepted : f[1][2] \in Nat
  <2>1. ToSet(c) \cup accepted \subseteq Frames
    BY <1>1, ToSetFacts DEF SenderSide, AcceptedInv
  <2> QED
    BY <2>1, FramesFacts
<1>3. Len(c) \in Nat /\ \A i \in 1..Len(c) : c[i][1][2] \in Nat
  BY <1>1, <1>2, ToSetFacts, LenProperties
<1>4. Distinct(c)
  <2> SUFFICES ASSUME NEW i \in 1..Len(c), NEW j \in 1..Len(c), c[i] = c[j] PROVE i = j
    BY DEF Distinct
  <2>1. ~(c[i][1][2] < c[j][1][2]) /\ ~(c[j][1][2] < c[i][1][2])
    BY <1>3
  <2>2. ~(i < j) /\ ~(j < i)
    BY <1>1, <2>1
  <2> QED
    BY <1>3, <2>2
<1>5. FramesInOrder(c, requeued)
  <2> SUFFICES ASSUME NEW i \in 1..Len(c), NEW j \in 1..Len(c), i < j, Late(c[j][1], c[i][1]) PROVE FALSE
    BY DEF FramesInOrder
  <2>1. c[i][1][2] < c[j][1][2] /\ c[j][1][2] <= c[i][1][2]
    BY <1>1 DEF Late
  <2> QED
    BY <1>3, <2>1
<1>6. ToSet(c) \cap accepted = {}
  <2> SUFFICES ASSUME NEW f \in ToSet(c), f \in accepted PROVE FALSE
    OBVIOUS
  <2>1. f[1][2] < f[1][2]
    BY <1>1
  <2> QED
    BY <1>2, <2>1
<1>7. ASSUME NEW x \in Heads(c), NEW y, NEW g \in accepted, y[1] = g[1][1], y[2] = g[1][2], Late(x, y)
      PROVE  FALSE
  <2>1. PICK f \in ToSet(c) : x = f[1]
    BY DEF Heads
  <2>2. g[1][1] = s /\ f[1][2] <= g[1][2]
    BY <1>1, <1>7, <2>1 DEF Late
  <2>3. g[1][2] < f[1][2] /\ g[1][2] \in Nat /\ f[1][2] \in Nat
    BY <1>1, <1>2, <2>1, <2>2
  <2> QED
    BY <2>2, <2>3
<1> QED
  BY <1>1, <1>4, <1>5, <1>6, <1>7

LEMMA SenderTaskReceivers ==
  ASSUME IInv, IdleInv, SenderSide, ReceiverSide, NEW s \in Senders, NEW n \in 1..Len(up[s]), SenderTask(s, n)
  PROVE  ReceiverSide'
<1>1. PICK c : New(c, s) /\ to_send' = to_send \o c /\ accepted' = accepted \cup ToSet(c)
  BY SenderTaskFacts
<1>2. /\ UNCHANGED <<server, client, packet, unsent, requeued, down, cbuf, got>>
      /\ task' = task /\ QInv
  BY DEF SenderTask, receiverVars, IInv
<1>3. /\ c \in Seq(Frames) /\ Distinct(c) /\ FramesInOrder(c, requeued)
      /\ ToSet(c) \cap accepted = {}
      /\ \A x \in Heads(c) : \A y : (\E g \in accepted : y[1] = g[1][1] /\ y[2] = g[1][2]) => ~Late(x, y)
  BY <1>1, <1>2, NewFacts
<1>4. to_send \in Seq(Frames) /\ ToSet(to_send) \subseteq accepted
  BY <1>2, FrameTypes DEF ReceiverSide, HoldInv
<1>5. /\ ToSet(to_send') = ToSet(to_send) \cup ToSet(c)
      /\ Heads(to_send') = Heads(to_send) \cup Heads(c)
  <2> DEFINE q == to_send
  <2> HIDE DEF q
  <2>1. ToSet(q \o c) = ToSet(q) \cup ToSet(c)
    BY <1>3, <1>4, ToSetConcat DEF q
  <2>2. ToSet(to_send') = ToSet(to_send) \cup ToSet(c)
    BY <1>1, <2>1 DEF q
  <2> QED
    BY <2>2 DEF Heads
<1>6. \A q \in Receivers : (Holds(q)' <=> Holds(q)) /\ Downstream(q)' = Downstream(q) /\ (Live(q)' <=> Live(q))
  BY <1>2 DEF Holds, Downstream, Live
<1>7. DownInv'
  BY <1>2, <1>6 DEF DownInv, ReceiverSide
<1>8. HoldInv'
  <2>1. Distinct(to_send \o c)
    BY <1>3, <1>4, DistinctConcat DEF ReceiverSide, HoldInv
  <2>2. ToSet(to_send') \subseteq accepted' /\ Distinct(to_send')
    BY <1>1, <1>4, <1>5, <2>1
  <2>3. ASSUME NEW q \in Receivers, Holds(q)
        PROVE  /\ packet[q] \in accepted' \ ToSet(to_send')
               /\ \E m \in 0..Len(packet[q]) - 1 : unsent[q] = Rest(packet[q], m)
    BY <1>1, <1>3, <1>5, <2>3 DEF ReceiverSide, HoldInv
  <2>4. \A r, q \in Receivers : Holds(r) /\ Holds(q) /\ packet[r] = packet[q] => r = q
    BY DEF ReceiverSide, HoldInv
  <2> QED
    BY <1>2, <1>6, <2>2, <2>3, <2>4 DEF HoldInv
<1>9. SeenInv'
  BY <1>1, <1>2, <1>6 DEF SeenInv, ReceiverSide
<1>10. ASSUME NEW Y, \A y \in Y : \E g \in accepted : y[1] = g[1][1] /\ y[2] = g[1][2]
       PROVE  Excused(Heads(c), Y, requeued)
  BY <1>3, <1>10 DEF Excused
<1>11. ASSUME NEW Y \in SUBSET accepted PROVE Excused(Heads(c), {f[1] : f \in Y}, requeued)
  BY <1>10
<1>12. OrderInv'
  <2>1. FramesInOrder(to_send \o c, requeued)
    <3>1. Excused(Heads(c), Heads(to_send), requeued)
      BY <1>4, <1>11 DEF Heads
    <3> QED
      BY <1>3, <1>4, <3>1, FramesInOrderConcat DEF ReceiverSide, OrderInv
  <2> SUFFICES ASSUME NEW q \in Receivers
               PROVE  /\ Excused(Heads(to_send'), Heads(got'[q]), requeued')
                      /\ Excused(Heads(to_send'), ToSet(Downstream(q)'), requeued')
                      /\ Excused(ToSet(Downstream(q)'), Heads(got'[q]), requeued')
                      /\ InOrder(Downstream(q)', requeued')
                      /\ FramesInOrder(got'[q], requeued')
    BY <1>1, <1>2, <2>1 DEF OrderInv
  <2>2. /\ Excused(Heads(to_send), Heads(got[q]), requeued)
        /\ Excused(Heads(to_send), ToSet(Downstream(q)), requeued)
        /\ Excused(ToSet(Downstream(q)), Heads(got[q]), requeued)
        /\ InOrder(Downstream(q), requeued)
        /\ FramesInOrder(got[q], requeued)
    BY DEF ReceiverSide, OrderInv
  <2>3. Excused(Heads(c), Heads(got[q]), requeued)
    <3>1. ToSet(got[q]) \subseteq accepted
      BY DEF ReceiverSide, SeenInv
    <3> QED
      BY <1>11, <3>1 DEF Heads
  <2>4. Excused(Heads(c), ToSet(Downstream(q)), requeued)
    <3>1. ASSUME NEW y \in ToSet(Downstream(q)) PROVE \E g \in accepted : y[1] = g[1][1] /\ y[2] = g[1][2]
      <4>1. Valid(y) /\ Of(y) \in accepted
        BY DEF ReceiverSide, SeenInv
      <4>2. Of(y)[1] = <<y[1], y[2], 1>>
        BY <4>1, ValidFacts
      <4> QED
        BY <4>1, <4>2
    <3> QED
      BY <1>10, <3>1
  <2> QED
    BY <1>2, <1>5, <1>6, <2>2, <2>3, <2>4 DEF Excused
<1> QED
  BY <1>7, <1>8, <1>9, <1>12 DEF ReceiverSide

(* The server is killed: what it has written can still be read.            *)
LEMMA CloseReceivers ==
  ASSUME QInv, ReceiverSide, Close
  PROVE  ReceiverSide'
<1>1. /\ server' = "killed" /\ task' = [c \in Clients |-> "none"] /\ to_send' = <<>>
      /\ unsent' = [r \in Receivers |-> <<>>]
      /\ UNCHANGED <<client, accepted, requeued, down, cbuf, got>>
  BY DEF Close, receiverVars
<1>2. ToSet(<<>>) = {} /\ \A r \in Receivers : ~Holds(r)'
  BY <1>1 DEF Holds, Clients, ToSet
<1>3. ASSUME NEW r \in Receivers
      PROVE  /\ PartOf(Downstream(r)', Downstream(r))
             /\ Chain(Downstream(r)) => Chain(Downstream(r)')
  <2> DEFINE a == cbuf[r] \o down[r]
             u == unsent[r]
  <2>1. a \in Seq(Piece) /\ u \in Seq(Piece) /\ Downstream(r) = a \o u
    BY DownTypes DEF Downstream
  <2>2. Downstream(r)' = a \o <<>>
    BY <1>1 DEF Downstream
  <2> HIDE DEF a, u
  <2>3. First(a \o u, Len(a)) = a /\ Len(a) \in 0..Len(a \o u) /\ a \o <<>> = a
    BY <2>1, ConcatParts, ConcatEmptySeq
  <2>4. Chain(a \o u) => Chain(a)
    <3> DEFINE t == a \o u
    <3>1. /\ t \in Seq(Piece) /\ Len(t) = Len(a) + Len(u) /\ Len(a) \in Nat /\ Len(u) \in Nat
          /\ \A i \in 1..Len(a) : t[i] = a[i]
      BY <2>1, ConcatFacts
    <3> HIDE DEF t
    <3>2. Len(a) <= Len(t)
      BY <3>1
    <3>3. Chain(t) => Chain(a)
      BY <2>1, <3>1, <3>2, ChainPrefix
    <3> QED
      BY <3>3 DEF t
  <2> QED
    BY <2>1, <2>2, <2>3, <2>4 DEF PartOf
<1>4. DownInv'
  BY <1>1, <1>3 DEF ReceiverSide, DownInv, Live
<1>5. HoldInv'
  <2>1. Distinct(<<>>)
    BY DEF Distinct
  <2> QED
    BY <1>1, <1>2, <2>1 DEF HoldInv
<1>6. FramesInOrder(<<>>, requeued)
  BY DEF FramesInOrder
<1>7. SeenInv' /\ OrderInv'
  BY <1>1, <1>2, <1>3, <1>6, PartsStay
<1> QED
  BY <1>4, <1>5, <1>7 DEF ReceiverSide

-----------------------------------------------------------------------------
(* Only tasks of a running server do anything.                             *)
LEMMA NextIdle ==
  ASSUME IInv, IdleInv, [Next]_vars
  PROVE  IdleInv'
<1>1. /\ DOMAIN task = Clients /\ Senders \subseteq Clients /\ Receivers \subseteq Clients
      /\ \A c \in Clients : task[c] # "none" => server = "up"
  BY DEF IInv, QInv, TypeOK, IdleInv, Clients
<1>2. ASSUME NEW c \in Clients, Connect(c) \/ ServerStep(c)
      PROVE  IdleInv'
  BY <1>1, <1>2 DEF IdleInv, Connect, ServerStep, Handshake, SenderTask,
    SenderEOF, Take, WriteDown, PutBack, Resume, Slept
<1>3. ASSUME NEW s \in Senders, Put(s) \/ PutMore(s) \/ SenderDies(s) \/ QueueClosed(s)
      PROVE  IdleInv'
  BY <1>1, <1>3 DEF IdleInv, Put, PutMore, SenderDies, QueueClosed
<1>4. ASSUME NEW r \in Receivers, ReceiverStep(r) \/ ReceiverDies(r)
      PROVE  IdleInv'
  BY <1>1, <1>4 DEF IdleInv, ReceiverStep, ReceiverDies, Recv, Yield, QueueClosed
<1>5. CASE Close
  BY <1>5 DEF IdleInv, Close
<1>6. CASE UNCHANGED vars
  BY <1>1, <1>6 DEF IdleInv, vars
<1> QED
  BY <1>2, <1>3, <1>4, <1>5, <1>6 DEF Next

LEMMA InitFInv == Init => FInv
<1> SUFFICES ASSUME Init PROVE FInv
  OBVIOUS
<1>1. IInv
  BY InitIInv
<1>2. IdleInv
  BY DEF Init, IdleInv
<1>3. ToSet(<<>>) = {}
  BY DEF ToSet
<1>4. SenderSide
  <2>1. \A s \in Senders : Upstream(s) = (<<>> \o <<>>) \o <<>>
    BY DEF Init, Upstream
  <2>2. \A s \in Senders : Upstream(s) = <<>>
    BY <2>1
  <2>3. \A s \in Senders : Sendable(<<>>, s, 0, accepted) /\ Whole(<<>>)
    BY DEF Sendable, Chain, Whole
  <2>4. \A s \in Senders : put[s] = 0 /\ 0 <= Len(Pieces[s]) /\ unwritten[s] = <<>>
    BY UpTypes, <1>1 DEF Init, IInv
  <2>5. AcceptedInv
    BY DEF Init, AcceptedInv
  <2> QED
    BY <2>2, <2>3, <2>4, <2>5 DEF SenderSide, UpInv
<1>5. ReceiverSide
  <2>1. \A r \in Receivers : Downstream(r) = (<<>> \o <<>>) \o <<>>
    BY DEF Init, Downstream
  <2>2. \A r \in Receivers : Downstream(r) = <<>> /\ got[r] = <<>> /\ ~Holds(r)
    BY <2>1 DEF Init, Holds, Clients
  <2>3. Chain(<<>>) /\ Whole(<<>>) /\ Distinct(<<>>) /\ FramesInOrder(<<>>, requeued) /\ InOrder(<<>>, requeued)
    BY DEF Chain, Whole, Distinct, FramesInOrder, InOrder
  <2>4. Heads(<<>>) = {} /\ \A A : Excused(A, {}, requeued) /\ Excused({}, A, requeued)
    BY <1>3 DEF Heads, Excused
  <2>5. to_send = <<>>
    BY DEF Init
  <2>6. DownInv /\ SeenInv
    BY <1>3, <2>2, <2>3 DEF DownInv, SeenInv
  <2>7. HoldInv
    BY <1>3, <2>2, <2>3, <2>5 DEF HoldInv
  <2>8. OrderInv
    BY <1>3, <2>2, <2>3, <2>4, <2>5 DEF OrderInv
  <2> QED
    BY <2>6, <2>7, <2>8 DEF ReceiverSide
<1> QED
  BY <1>1, <1>2, <1>4, <1>5 DEF FInv

(* The steps of the server's tasks.                                        *)
LEMMA ServerKeepsFrames ==
  ASSUME FInv, NEW c \in Clients, Connect(c) \/ ServerStep(c)
  PROVE  SenderSide' /\ ReceiverSide'
<1>0. IInv /\ QInv /\ IdleInv /\ SenderSide /\ ReceiverSide
  BY DEF FInv, IInv
<1>1. DOMAIN task = Clients /\ DOMAIN client = Clients /\ Senders \subseteq Clients /\ Receivers \subseteq Clients
      /\ Senders \cap Receivers = {}
  BY <1>0, QueueAssumption DEF QInv, TypeOK, Clients
<1>2. CASE Connect(c) \/ Handshake(c)
  <2>1. UNCHANGED <<server, serverVars, senderVars, receiverVars>>
    BY <1>2 DEF Connect, Handshake
  <2>2. \A d \in Clients : (Live(d)' => Live(d)) /\ (client'[d] = "dead" => client[d] = "dead")
    BY <1>1, <1>2 DEF Connect, Handshake, Live
  <2>3. \A r \in Receivers : Holds(r)' => Holds(r)
    BY <1>1, <1>2 DEF Connect, Handshake, Holds
  <2>4. UNCHANGED <<buf, accepted, to_send, packet, unsent, requeued>>
    BY <2>1 DEF serverVars
  <2>5. SenderSide'
    BY <1>0, <1>1, <2>1, <2>2, <2>4, SendersStill
  <2>6. ReceiverSide'
    BY <1>0, <1>1, <2>1, <2>2, <2>3, <2>4, ElsewhereReceivers
  <2> QED
    BY <2>5, <2>6
<1>3. ASSUME c \in Senders, NEW n \in 1..Len(up[c]), SenderTask(c, n)
      PROVE  SenderSide' /\ ReceiverSide'
  BY <1>0, <1>3, SenderTaskSenders, SenderTaskReceivers
<1>4. CASE c \in Senders /\ SenderEOF(c)
  <2>1. SenderSide'
    BY <1>0, <1>4, SenderEOFSenders
  <2>2. UNCHANGED <<server, to_send, packet, unsent, accepted, requeued, receiverVars, client>>
    BY <1>4 DEF SenderEOF
  <2>3. \A r \in Receivers : (Holds(r)' => Holds(r)) /\ (Live(r)' => Live(r))
    BY <1>1, <1>4 DEF SenderEOF, Holds, Live
  <2>4. ReceiverSide'
    BY <1>0, <2>2, <2>3, ElsewhereReceivers
  <2> QED
    BY <2>1, <2>4
<1>5. CASE c \in Receivers /\ (Take(c) \/ Resume(c) \/ Slept(c))
  <2>1. UNCHANGED <<server, client, senderVars, buf, accepted>>
    BY <1>5 DEF Take, Resume, Slept
  <2>2. \A s \in Senders : (Live(s)' => Live(s)) /\ (client'[s] = "dead" => client[s] = "dead")
    BY <2>1 DEF Live
  <2>3. SenderSide'
    BY <1>0, <2>1, <2>2, SendersStill
  <2>4. CASE Take(c)
    BY <1>0, <1>5, <2>3, <2>4, TakeOpenReceivers, TakeDeadReceivers
  <2>5. CASE Resume(c)
    BY <1>0, <1>5, <2>3, <2>5, ResumeOpenReceivers, ResumeDeadReceivers
  <2>6. CASE Slept(c)
    BY <1>0, <1>5, <2>3, <2>6, SleptReceivers
  <2> QED
    BY <1>5, <2>3, <2>4, <2>5, <2>6
<1> QED
  BY <1>2, <1>3, <1>4, <1>5 DEF ServerStep

(* The steps of the senders.                                               *)
LEMMA SendersKeepFrames ==
  ASSUME FInv, NEW s \in Senders, Put(s) \/ PutMore(s) \/ SenderDies(s) \/ QueueClosed(s)
  PROVE  SenderSide' /\ ReceiverSide'
<1>0. IInv /\ QInv /\ IdleInv /\ SenderSide /\ ReceiverSide
  BY DEF FInv, IInv
<1>1. DOMAIN client = Clients /\ Senders \subseteq Clients /\ Receivers \subseteq Clients
  BY <1>0 DEF QInv, TypeOK, Clients
<1>2. /\ UNCHANGED <<server, task, serverVars, receiverVars>>
      /\ \A c \in Clients : Live(c)' => Live(c)
  BY <1>1 DEF Put, PutMore, SenderDies, QueueClosed, Live
<1>3. UNCHANGED <<to_send, packet, unsent, accepted, requeued, buf>>
  BY <1>2 DEF serverVars
<1>4. \A r \in Receivers : (Holds(r)' => Holds(r)) /\ (Live(r)' => Live(r))
  BY <1>1, <1>2 DEF Holds
<1>5. ReceiverSide'
  BY <1>0, <1>2, <1>3, <1>4, ElsewhereReceivers
<1>6. CASE QueueClosed(s)
  <2>1. UNCHANGED senderVars /\ \A q \in Senders : client'[q] = "dead" => client[q] = "dead"
    BY <1>1, <1>6 DEF QueueClosed
  <2> QED
    BY <1>0, <1>1, <1>2, <1>3, <1>5, <2>1, SendersStill
<1> QED
  BY <1>0, <1>5, <1>6, PutSenders, PutMoreSenders, SenderDiesSenders

(* The steps of the receivers.                                             *)
LEMMA ReceiversKeepFrames ==
  ASSUME FInv, NEW r \in Receivers, ReceiverStep(r) \/ ReceiverDies(r)
  PROVE  SenderSide' /\ ReceiverSide'
<1>0. IInv /\ QInv /\ IdleInv /\ SenderSide /\ ReceiverSide
  BY DEF FInv, IInv
<1>1. DOMAIN client = Clients /\ Senders \subseteq Clients /\ Receivers \subseteq Clients
      /\ Senders \cap Receivers = {}
  BY <1>0, QueueAssumption DEF QInv, TypeOK, Clients
<1>2. /\ UNCHANGED <<server, task, serverVars, senderVars>>
      /\ \A c \in Clients : Live(c)' => Live(c)
      /\ \A s \in Senders : client'[s] = "dead" => client[s] = "dead"
  BY <1>1 DEF ReceiverStep, Recv, Yield, QueueClosed, ReceiverDies, Live
<1>3. UNCHANGED <<to_send, packet, unsent, accepted, requeued, buf>>
  BY <1>2 DEF serverVars
<1>4. SenderSide'
  BY <1>0, <1>1, <1>2, <1>3, SendersStill
<1>5. CASE QueueClosed(r)
  <2>1. UNCHANGED receiverVars /\ \A q \in Receivers : Holds(q)' => Holds(q)
    BY <1>2, <1>5 DEF QueueClosed, Holds
  <2> QED
    BY <1>0, <1>1, <1>2, <1>3, <1>4, <2>1, ElsewhereReceivers
<1>6. CASE Yield(r) \/ ReceiverDies(r)
  BY <1>0, <1>4, <1>6, YieldReceivers, ReceiverDiesReceivers
<1>7. ASSUME NEW n \in 1..Len(down[r]), Recv(r, n) PROVE ReceiverSide'
  BY <1>0, <1>7, RecvReceivers
<1> QED
  BY <1>4, <1>5, <1>6, <1>7 DEF ReceiverStep

LEMMA NextFInv ==
  ASSUME FInv, [Next]_vars
  PROVE  FInv'
<1>0. IInv /\ QInv /\ IdleInv /\ SenderSide /\ ReceiverSide
  BY DEF FInv, IInv
<1>1. IInv' /\ IdleInv'
  BY <1>0, NextIInv, NextIdle
<1>2. CASE UNCHANGED vars
  <2>1. UNCHANGED <<server, client, task, serverVars, senderVars, receiverVars>>
    BY <1>2 DEF vars
  <2>2. UNCHANGED <<buf, accepted, to_send, packet, unsent, requeued>>
    BY <2>1 DEF serverVars
  <2>3. \A c \in Clients : (Live(c)' <=> Live(c)) /\ client'[c] = client[c]
    BY <2>1 DEF Live
  <2>4. \A r \in Receivers : Holds(r)' => Holds(r)
    BY <2>1 DEF Holds
  <2>5. Senders \subseteq Clients /\ Receivers \subseteq Clients
    BY DEF Clients
  <2> QED
    BY <1>0, <1>1, <2>1, <2>2, <2>3, <2>4, <2>5, SendersStill, ElsewhereReceivers DEF FInv
<1>3. ASSUME NEW c \in Clients, Connect(c) \/ ServerStep(c) PROVE FInv'
  BY <1>1, <1>3, ServerKeepsFrames DEF FInv
<1>4. ASSUME NEW s \in Senders, Put(s) \/ PutMore(s) \/ SenderDies(s) \/ QueueClosed(s) PROVE FInv'
  BY <1>1, <1>4, SendersKeepFrames DEF FInv
<1>5. ASSUME NEW r \in Receivers, ReceiverStep(r) \/ ReceiverDies(r) PROVE FInv'
  BY <1>1, <1>5, ReceiversKeepFrames DEF FInv
<1>6. CASE Close
  BY <1>0, <1>1, <1>6, CloseSenders, CloseReceivers DEF FInv
<1> QED
  BY <1>2, <1>3, <1>4, <1>5, <1>6 DEF Next

LEMMA FramesInductive == Spec => []FInv
<1>1. FInv /\ [Next]_vars => FInv'
  BY NextFInv
<1> QED
  BY <1>1, InitFInv, PTL DEF Spec

LEMMA FInvFramesIntact == FInv => FramesIntact
<1> SUFFICES ASSUME FInv PROVE FramesIntact
  OBVIOUS
<1>1. to_send \in Seq(Frames) /\ \A r \in Receivers : got[r] \in Seq(Frames)
  BY FrameTypes DEF FInv, IInv
<1> QED
  BY <1>1, ElementOfSeq DEF FramesIntact

LEMMA FInvOvertaken == FInv => OnlyRequeuedOvertaken
<1> SUFFICES ASSUME FInv, NEW r \in Receivers, NEW i \in 1..Len(got[r]), NEW j \in 1..Len(got[r]),
                    i < j, Late(got[r][j][1], got[r][i][1])
             PROVE  got[r][j] \in requeued
  BY DEF OnlyRequeuedOvertaken, Late
<1>1. Of(got[r][j][1]) \in requeued
  BY DEF FInv, ReceiverSide, OrderInv, FramesInOrder
<1>2. got[r][j] \in Frames
  BY FrameTypes, ElementOfSeq DEF FInv, IInv
<1>3. got[r][j] = Of(got[r][j][1])
  BY <1>2, FramesFacts
<1> QED
  BY <1>1, <1>3

-----------------------------------------------------------------------------
(* The queue implements LossyQueue.                                        *)

LEMMA PendingIs ==
  ASSUME TypeOK
  PROVE  Pending = ToSet(to_send) \cup {packet[q] : q \in {p \in Receivers : Holds(p)}}
<1>1. to_send \in Seq(Seq(Piece))
  BY DEF TypeOK
<1>2. ToSet(to_send) = {to_send[i] : i \in 1..Len(to_send)}
  BY <1>1, ToSetFacts
<1> QED
  BY <1>2 DEF Pending, Holds

LEMMA PendingIsNext ==
  ASSUME TypeOK'
  PROVE  Pending' = ToSet(to_send') \cup {packet'[q] : q \in {p \in Receivers : Holds(p)'}}
<1>1. to_send' \in Seq(Seq(Piece))
  BY DEF TypeOK
<1>2. ToSet(to_send') = {to_send'[i] : i \in 1..Len(to_send')}
  BY <1>1, ToSetFacts
<1> QED
  BY <1>2 DEF Pending, Holds

LEMMA WholeParts ==
  ASSUME NEW t \in Seq(Piece)
  PROVE  First(t, Len(t)) = t /\ Rest(t, 0) = t
<1>1. Len(t) \in Nat /\ Len(t) \in 0..Len(t) /\ 0 \in 0..Len(t)
  BY LenProperties
<1>2. Len(First(t, Len(t))) = Len(t) /\ First(t, Len(t)) \in Seq(Piece)
      /\ \A i \in 1..Len(t) : First(t, Len(t))[i] = t[i]
  BY <1>1, SplitFacts
<1>3. Len(Rest(t, 0)) = Len(t) - 0 /\ Rest(t, 0) \in Seq(Piece)
      /\ \A i \in 1..Len(t) - 0 : Rest(t, 0)[i] = t[0 + i]
  BY <1>1, SplitFacts
<1>4. Len(Rest(t, 0)) = Len(t) /\ \A i \in 1..Len(t) : Rest(t, 0)[i] = t[i]
  BY <1>1, <1>3
<1> QED
  BY <1>2, <1>3, <1>4, SeqEqual

LEMMA CutNothing == Cut(<<>>) = <<>>
<1>1. Ends(<<>>) = {}
  BY DEF Ends
<1>2. NumFrames(<<>>) = 0
  BY <1>1, FS_EmptySet DEF NumFrames
<1> QED
  BY <1>2 DEF Cut

(* Where neither the frames at the server nor the streams change.          *)
LEMMA PendingStill ==
  ASSUME UNCHANGED to_send,
         \A r \in Receivers : (Holds(r)' <=> Holds(r)) /\ (Holds(r) => packet'[r] = packet[r])
  PROVE  Pending' = Pending
<1>1. {packet'[q] : q \in {p \in Receivers : Holds(p)'}} = {packet[q] : q \in {p \in Receivers : Holds(p)}}
  OBVIOUS
<1> QED
  BY <1>1 DEF Pending, Holds

LEMMA InboxStill ==
  ASSUME \A r \in Receivers : cbuf'[r] \o down'[r] = cbuf[r] \o down[r]
  PROVE  Inbox' = Inbox
BY DEF Inbox

(* A frame belongs to the receiver once its last piece is written.         *)
LEMMA WriteDownInbox ==
  ASSUME QInv, NEW r \in Receivers, NEW f \in Frames, NEW m \in 0..Len(f) - 1, NEW data,
         data = Rest(f, m), WriteDown(r, f, data), cbuf' = cbuf,
         Chain((cbuf[r] \o down[r]) \o data)
  PROVE  Inbox' = IF Holds(r)' THEN Inbox ELSE [Inbox EXCEPT ![r] = Append(@, f)]
<1> DEFINE n == Room(down[r], data)
           t == cbuf[r] \o down[r]
<1>1. /\ data \in Seq(Piece) /\ data # <<>> /\ Len(data) = Len(f) - m /\ Len(f) \in Nat /\ m \in 0..Len(f)
      /\ Of(data[Len(data)]) = f /\ Ends(data) = {Len(data)}
      /\ \A k \in 0..Len(f) - m : k < Len(f) - m => Ends(First(data, k)) = {}
  BY FrameRest
<1>2. f \in Seq(Piece)
  BY FramesFacts
<1>3. /\ n \in 0..Len(data) /\ Holds(r)' <=> n # Len(data)
      /\ cbuf'[r] \o down'[r] = t \o First(data, n)
      /\ \A q \in Receivers : q # r => down'[q] = down[q]
  BY ZenonT(60), <1>1, <1>2, WriteDownFacts
<1>4. t \in Seq(Piece)
  BY DownTypes
<1>5. Chain(t \o data)
  OBVIOUS
<1>6. \A q \in Receivers : q # r => cbuf'[q] \o down'[q] = cbuf[q] \o down[q]
  BY <1>3
<1>7. Inbox[r] = Cut(t) /\ Inbox' = [q \in Receivers |-> Cut(cbuf'[q] \o down'[q])]
  BY DEF Inbox
<1> HIDE DEF n, t
<1>8. First(data, n) \in Seq(Piece) /\ n \in Nat /\ Len(data) \in Nat
  <2>1. data \in Seq(Piece) /\ n \in 0..Len(data)
    BY <1>1, <1>3
  <2> QED
    BY <2>1, SplitFacts
<1>9. CASE Holds(r)'
  <2> DEFINE l == Len(data)
  <2>1. n \in 0..l /\ n # l /\ l \in Nat /\ l = Len(f) - m
    BY <1>1, <1>3, <1>8, <1>9
  <2> HIDE DEF l
  <2>2. n < l /\ n \in 0..l
    BY <2>1
  <2>3. l = Len(f) - m /\ l = Len(data)
    BY <2>1 DEF l
  <2>4. Cut(t \o First(data, n)) = Cut(t)
    <3>1. Ends(First(data, n)) = {}
      BY <1>1, <2>2, <2>3
    <3> QED
      BY <1>4, <1>8, <3>1, CutUnended
  <2> QED
    BY <1>3, <1>6, <1>9, <2>4 DEF Inbox, t
<1>10. CASE ~Holds(r)'
  <2>1. n = Len(data)
    BY <1>3, <1>10
  <2>2. First(data, n) = data
    BY <1>1, <2>1, WholeParts
  <2>3. Cut(t \o data) = Append(Cut(t), f)
    BY <1>1, <1>4, <1>5, CutEnded
  <2>4. Cut(cbuf'[r] \o down'[r]) = Append(Inbox[r], f)
    BY <1>3, <1>7, <2>2, <2>3
  <2> HIDE DEF Cut
  <2> QED
    BY <1>6, <1>10, <2>4 DEF Inbox
<1> QED
  BY <1>9, <1>10

LEMMA EntersMaps ==
  ASSUME FInv, NEW s \in Senders, NEW n \in 1..Len(up[s]), SenderTask(s, n)
  PROVE  \E ps \in SUBSET (Frames \ accepted) : Promise!Enter(ps)
<1>0. IInv /\ QInv /\ IdleInv /\ SenderSide /\ ReceiverSide /\ TypeOK
  BY DEF FInv, IInv, QInv
<1>1. PICK c : New(c, s) /\ to_send' = to_send \o c /\ accepted' = accepted \cup ToSet(c)
  BY <1>0, SenderTaskFacts
<1>2. UNCHANGED <<task, packet, down, cbuf, got>>
  BY DEF SenderTask, receiverVars
<1>3. c \in Seq(Frames) /\ ToSet(c) \cap accepted = {} /\ ToSet(c) \subseteq Frames
  BY <1>0, <1>1, NewFacts, ToSetFacts
<1>4. to_send \in Seq(Frames)
  BY <1>0, FrameTypes
<1>5. ToSet(to_send') = ToSet(to_send) \cup ToSet(c)
  <2> DEFINE q == to_send
  <2> HIDE DEF q
  <2>1. ToSet(q \o c) = ToSet(q) \cup ToSet(c)
    BY <1>3, <1>4, ToSetConcat DEF q
  <2> QED
    BY <1>1, <2>1 DEF q
<1>6. TypeOK'
  BY <1>0, NextIInv DEF FInv, IInv, QInv, Next, ServerStep, Clients
<1>7. Pending' = Pending \cup ToSet(c)
  <2>1. Pending = ToSet(to_send) \cup {packet[q] : q \in {p \in Receivers : Holds(p)}}
    BY <1>0, PendingIs
  <2>2. Pending' = ToSet(to_send') \cup {packet'[q] : q \in {p \in Receivers : Holds(p)'}}
    BY <1>6, PendingIsNext
  <2>3. \A p \in Receivers : Holds(p)' <=> Holds(p)
    BY <1>2 DEF Holds
  <2> QED
    BY <1>2, <1>5, <2>1, <2>2, <2>3
<1>8. Inbox' = Inbox
  BY <1>2, InboxStill
<1>9. Promise!Enter(ToSet(c))
  BY <1>1, <1>2, <1>3, <1>7, <1>8 DEF Promise!Enter
<1> QED
  BY <1>3, <1>9

(* What the abstract queue sees of a step that does nothing for it.        *)
LEMMA StutterIs ==
  ASSUME UNCHANGED <<accepted, got>>, Pending' = Pending, Inbox' = Inbox
  PROVE  UNCHANGED Promise!vars
BY DEF Promise!vars

(* Who takes a frame has it: nobody else holds it.                         *)
LEMMA TakeMaps ==
  ASSUME FInv, TypeOK', NEW r \in Receivers, Take(r), client[r] = "open"
  PROVE  (\E p \in Pending : Promise!Give(r, p)) \/ UNCHANGED Promise!vars
<1>0. IInv /\ QInv /\ IdleInv /\ SenderSide /\ ReceiverSide /\ TypeOK
  BY DEF FInv, IInv, QInv
<1>1. PICK h : /\ h \in Frames /\ h \in accepted /\ h = Head(to_send)
               /\ ToSet(to_send) = ToSet(to_send') \cup {h} /\ h \notin ToSet(to_send')
               /\ ~Holds(r) /\ Downstream(r) \in Seq(Piece)
               /\ Downstream(r) = cbuf[r] \o down[r]
               /\ packet'[r] = h
               /\ \A q \in Receivers : q # r => packet'[q] = packet[q] /\ (Holds(q)' <=> Holds(q))
               /\ UNCHANGED <<server, client, accepted, requeued, cbuf, got>>
  BY <1>0, TakeOpenFacts
<1>2. WriteDown(r, h, h)
  BY <1>1 DEF Take
<1>3. h \in Seq(Piece) /\ Len(h) \in Nat \ {0} /\ Chain(h) /\ Rest(h, 0) = h /\ 0 \in 0..Len(h) - 1
  <2>1. h \in Seq(Piece) /\ Len(h) \in Nat \ {0} /\ Chain(h)
    BY <1>1, FramesFacts, FrameIsChain
  <2> QED
    BY <2>1, WholeParts
<1>4. Chain(Downstream(r) \o h)
  <2>1. server = "up" /\ Live(r)
    BY <1>0 DEF Take, IdleInv, Live, Clients
  <2>2. Chain(Downstream(r)) /\ Whole(Downstream(r))
    BY <1>0, <2>1 DEF ReceiverSide, DownInv
  <2> QED
    BY <1>1, <1>3, <2>2, ChainConcat
<1>5. Inbox' = IF Holds(r)' THEN Inbox ELSE [Inbox EXCEPT ![r] = Append(@, h)]
  BY <1>0, <1>1, <1>2, <1>3, <1>4, WriteDownInbox
<1>6. /\ Pending = ToSet(to_send) \cup {packet[q] : q \in {p \in Receivers : Holds(p)}}
      /\ Pending' = ToSet(to_send') \cup {packet'[q] : q \in {p \in Receivers : Holds(p)'}}
  BY <1>0, PendingIs, PendingIsNext
<1>7. \A q \in Receivers : Holds(q) => packet[q] # h
  BY <1>0, <1>1 DEF ReceiverSide, HoldInv
<1>8. CASE Holds(r)'
  <2>1. Pending' = Pending
    BY <1>1, <1>6, <1>8
  <2> QED
    BY <1>1, <1>5, <1>8, <2>1, StutterIs
<1>9. CASE ~Holds(r)'
  <2>1. h \in Pending /\ Pending' = Pending \ {h}
    BY <1>1, <1>6, <1>7, <1>9
  <2> QED
    BY <1>1, <1>5, <1>9, <2>1 DEF Promise!Give
<1> QED
  BY <1>8, <1>9

LEMMA ResumeMaps ==
  ASSUME FInv, TypeOK', NEW r \in Receivers, Resume(r), client[r] = "open"
  PROVE  (\E p \in Pending : Promise!Give(r, p)) \/ UNCHANGED Promise!vars
<1>0. IInv /\ QInv /\ IdleInv /\ SenderSide /\ ReceiverSide /\ TypeOK
  BY DEF FInv, IInv, QInv
<1> DEFINE f == packet[r]
<1>1. /\ task[r] = "sendall" /\ WriteDown(r, f, unsent[r])
      /\ UNCHANGED <<server, client, to_send, accepted, requeued, cbuf, got>>
  BY DEF Resume
<1>2. Holds(r) /\ f \in Frames /\ f \notin ToSet(to_send)
  BY <1>0, <1>1 DEF Holds, ReceiverSide, HoldInv, SenderSide, AcceptedInv
<1>3. PICK m \in 0..Len(f) - 1 : unsent[r] = Rest(f, m)
  BY <1>0, <1>2 DEF ReceiverSide, HoldInv
<1>4. Chain((cbuf[r] \o down[r]) \o unsent[r])
  <2>1. r \in Clients
    BY DEF Clients
  <2>2. Live(r)
    BY <1>0, <1>1, <2>1 DEF Resume, Live
  <2> QED
    BY <1>0, <2>2 DEF ReceiverSide, DownInv, Downstream
<1>5. Inbox' = IF Holds(r)' THEN Inbox ELSE [Inbox EXCEPT ![r] = Append(@, f)]
  BY <1>0, <1>1, <1>2, <1>3, <1>4, WriteDownInbox
<1>6. /\ Pending = ToSet(to_send) \cup {packet[q] : q \in {p \in Receivers : Holds(p)}}
      /\ Pending' = ToSet(to_send') \cup {packet'[q] : q \in {p \in Receivers : Holds(p)'}}
  BY <1>0, PendingIs, PendingIsNext
<1>7. /\ packet'[r] = f
      /\ \A q \in Receivers : q # r => packet'[q] = packet[q] /\ (Holds(q)' <=> Holds(q))
  <2>1. packet[r] \in Seq(Piece) /\ unsent[r] \in Seq(Piece)
    BY <1>0, DownTypes
  <2> QED
    BY <1>0, <1>1, <2>1, WriteDownFacts
<1>8. \A q \in Receivers : Holds(q) /\ packet[q] = f => q = r
  BY <1>0, <1>2 DEF ReceiverSide, HoldInv
<1> HIDE DEF f
<1>9. CASE Holds(r)'
  <2>1. packet'[r] = packet[r] /\ \A q \in Receivers : Holds(q)' <=> Holds(q)
    BY <1>2, <1>7, <1>9 DEF f
  <2>2. \A q \in Receivers : packet'[q] = packet[q]
    BY <1>7, <2>1
  <2>3. Pending' = Pending
    BY <1>1, <2>1, <2>2, PendingStill
  <2> QED
    BY <1>1, <1>5, <1>9, <2>3, StutterIs
<1>10. CASE ~Holds(r)'
  <2>1. f \in Pending
    BY <1>2, <1>6 DEF f
  <2>2. ASSUME NEW p PROVE p \in Pending' <=> p \in Pending /\ p # f
    <3>1. p \in Pending <=> p \in ToSet(to_send) \/ \E q \in Receivers : Holds(q) /\ p = packet[q]
      BY <1>6
    <3>2. p \in Pending' <=> p \in ToSet(to_send) \/ \E q \in Receivers : Holds(q)' /\ p = packet'[q]
      BY <1>1, <1>6
    <3>3. (\E q \in Receivers : Holds(q)' /\ p = packet'[q])
            <=> \E q \in Receivers : Holds(q) /\ p = packet[q] /\ q # r
      BY <1>7, <1>10
    <3>4. (\E q \in Receivers : Holds(q) /\ p = packet[q] /\ q # r)
            <=> (\E q \in Receivers : Holds(q) /\ p = packet[q]) /\ p # f
      BY <1>8 DEF f
    <3> QED
      BY <1>2, <3>1, <3>2, <3>3, <3>4
  <2>3. Pending' = Pending \ {f}
    BY <2>2
  <2> QED
    BY <1>1, <1>5, <1>10, <2>1, <2>3 DEF Promise!Give
<1> QED
  BY <1>9, <1>10

(* A frame taken for a receiver that is gone stays in the queue.           *)
LEMMA PutBackMaps ==
  ASSUME FInv, TypeOK', NEW r \in Receivers, Take(r) \/ Resume(r), client[r] # "open"
  PROVE  UNCHANGED Promise!vars
<1>0. IInv /\ QInv /\ IdleInv /\ SenderSide /\ ReceiverSide /\ TypeOK
  BY DEF FInv, IInv, QInv
<1>1. UNCHANGED <<accepted, got, down, cbuf>>
  BY DEF Take, Resume
<1>2. Inbox' = Inbox
  BY <1>1, InboxStill
<1>3. CASE Take(r)
  <2>1. /\ task[r] = "acquire" /\ sem > 0
        /\ to_send' = <<Head(to_send)>> \o Tail(to_send)
        /\ packet' = [packet EXCEPT ![r] = <<>>]
        /\ task' = [task EXCEPT ![r] = "done"]
    BY <1>3 DEF Take, PutBack
  <2>2. to_send \in Seq(Frames) /\ to_send # <<>>
    <3>1. to_send \in Seq(Frames)
      BY <1>0, FrameTypes
    <3>2. Len(to_send) # 0
      BY <1>0, <2>1 DEF QInv, SemMatchesQueue, TypeOK
    <3> QED
      BY <3>1, <3>2, EmptySeq
  <2>3. to_send' = to_send
    BY <1>0, <2>1, <2>2, TailOfFrames DEF ReceiverSide, HoldInv, OrderInv
  <2>4. DOMAIN packet = Receivers /\ DOMAIN task = Clients /\ Receivers \subseteq Clients
    BY <1>0 DEF TypeOK, Clients
  <2>5. \A q \in Receivers : (Holds(q)' <=> Holds(q)) /\ (Holds(q) => packet'[q] = packet[q])
    BY <2>1, <2>4 DEF Holds
  <2>6. Pending' = Pending
    BY <2>3, <2>5, PendingStill
  <2> QED
    BY <1>1, <1>2, <2>6, StutterIs
<1>4. CASE Resume(r)
  <2> DEFINE f == packet[r]
             q0 == to_send
  <2>1. /\ to_send' = <<f>> \o q0 /\ f \in Frames /\ q0 \in Seq(Frames) /\ Holds(r) /\ ~Holds(r)'
        /\ \A q \in Receivers : q # r => packet'[q] = packet[q] /\ (Holds(q)' <=> Holds(q))
    BY <1>0, <1>4, ResumeDeadFacts
  <2> HIDE DEF f, q0
  <2>2. ToSet(to_send') = {f} \cup ToSet(q0)
    <3>1. <<f>> \in Seq(Frames) /\ ToSet(<<f>>) = {f}
      BY <2>1, FramesInOrderOne
    <3> DEFINE h == <<f>>
    <3> HIDE DEF h
    <3>2. ToSet(h \o q0) = ToSet(h) \cup ToSet(q0)
      BY ZenonT(60), <2>1, <3>1, ToSetConcat DEF h
    <3> QED
      BY <2>1, <3>1, <3>2 DEF h
  <2>3. /\ Pending = ToSet(q0) \cup {packet[q] : q \in {p \in Receivers : Holds(p)}}
        /\ Pending' = ToSet(to_send') \cup {packet'[q] : q \in {p \in Receivers : Holds(p)'}}
    BY <1>0, PendingIs, PendingIsNext DEF q0
  <2>4. ASSUME NEW p PROVE p \in Pending' <=> p \in Pending
    <3>1. p \in Pending <=> p \in ToSet(q0) \/ \E q \in Receivers : Holds(q) /\ p = packet[q]
      BY <2>3
    <3>2. p \in Pending' <=> p = f \/ p \in ToSet(q0) \/ \E q \in Receivers : Holds(q)' /\ p = packet'[q]
      BY <2>2, <2>3
    <3>3. (\E q \in Receivers : Holds(q)' /\ p = packet'[q])
            <=> \E q \in Receivers : Holds(q) /\ p = packet[q] /\ q # r
      BY <2>1
    <3>4. (\E q \in Receivers : Holds(q) /\ p = packet[q])
            <=> p = f \/ \E q \in Receivers : Holds(q) /\ p = packet[q] /\ q # r
      BY <2>1 DEF f
    <3> QED
      BY <3>1, <3>2, <3>3, <3>4
  <2>5. Pending' = Pending
    BY <2>4
  <2> QED
    BY <1>1, <1>2, <2>5, StutterIs
<1> QED
  BY <1>3, <1>4

(* Reading moves nothing to anybody else; what get() yields is the first   *)
(* packet of the receiver's inbox.                                         *)
LEMMA RecvMaps ==
  ASSUME FInv, NEW r \in Receivers, NEW n \in 1..Len(down[r]), Recv(r, n)
  PROVE  UNCHANGED Promise!vars
<1>1. /\ cbuf' = [cbuf EXCEPT ![r] = @ \o First(down[r], n)]
      /\ down' = [down EXCEPT ![r] = Rest(@, n)]
      /\ UNCHANGED <<task, to_send, packet, accepted, got>>
  BY DEF Recv, serverVars
<1>2. /\ cbuf \in [Receivers -> Seq(Piece)] /\ down \in [Receivers -> Seq(Piece)]
  BY DEF FInv, IInv, QInv, TypeOK
<1>3. cbuf'[r] \o down'[r] = cbuf[r] \o down[r]
  <2> DEFINE a == cbuf[r]
             b == down[r]
  <2>1. a \in Seq(Piece) /\ b \in Seq(Piece) /\ n \in 0..Len(b)
    BY <1>2, LenProperties
  <2>2. cbuf'[r] = a \o First(b, n) /\ down'[r] = Rest(b, n)
    BY <1>1, <1>2
  <2> HIDE DEF a, b
  <2>3. Moves(a, b, n)
    BY <2>1, MoveOn
  <2> QED
    BY <2>2, <2>3 DEF Moves, a, b
<1>4. \A q \in Receivers : cbuf'[q] \o down'[q] = cbuf[q] \o down[q]
  BY <1>1, <1>2, <1>3
<1>5. Inbox' = Inbox
  BY <1>4, InboxStill
<1>6. Pending' = Pending
  BY <1>1, PendingStill DEF Holds
<1> QED
  BY <1>1, <1>5, <1>6, StutterIs

LEMMA YieldMaps ==
  ASSUME FInv, NEW r \in Receivers, Yield(r)
  PROVE  Promise!Read(r)
<1> DEFINE a == cbuf[r]
           b == down[r]
           e == NthEnd(a, 1)
<1>1. /\ NumFrames(a) > 0 /\ got' = [got EXCEPT ![r] = Append(@, Cut(a)[1])]
      /\ cbuf' = [cbuf EXCEPT ![r] = Rest(a, e)]
      /\ UNCHANGED <<task, to_send, packet, accepted, down>>
  BY DEF Yield, serverVars
<1>2. /\ cbuf \in [Receivers -> Seq(Piece)] /\ down \in [Receivers -> Seq(Piece)]
      /\ got \in [Receivers -> Seq(Seq(Piece))]
  BY DEF FInv, IInv, QInv, TypeOK
<1>3. a \in Seq(Piece) /\ b \in Seq(Piece)
  BY <1>2
<1>4. cbuf'[r] \o down'[r] = Rest(a, e) \o b
  BY <1>1, <1>2
<1>5. \A q \in Receivers : q # r => cbuf'[q] \o down'[q] = cbuf[q] \o down[q]
  BY <1>1, <1>2
<1>6. Inbox[r] = Cut(a \o b)
  BY DEF Inbox
<1> HIDE DEF a, b, e
<1>7. NumFrames(a) \in Nat /\ 1 \in 1..NumFrames(a) /\ 1 \in 0..NumFrames(a) /\ NumFrames(a) # 0
  BY <1>1, <1>3, EndsFinite
<1>8. e \in 1..Len(a) /\ e \in 0..Len(a)
  BY <1>3, <1>7, CutFirst DEF e
<1> DEFINE t == a \o b
<1>9. /\ t \in Seq(Piece) /\ Cut(t)[1] = Cut(a)[1] /\ NumFrames(a) <= NumFrames(t)
      /\ NthEnd(t, 1) = e
  BY <1>3, <1>7, ConcatProperties, ConcatCut, ConcatEnds DEF e
<1>10. Rest(t, e) = Rest(a, e) \o b
  BY <1>3, <1>8, RestOfConcat
<1> HIDE DEF t
<1>11. NumFrames(t) # 0
  <2>1. NumFrames(t) \in Nat
    BY <1>9, EndsFinite
  <2> QED
    BY <1>1, <1>7, <1>9, <2>1
<1>12. Cut(t) # <<>> /\ Head(Cut(t)) = Cut(a)[1] /\ Tail(Cut(t)) = Cut(Rest(a, e) \o b)
  BY <1>9, <1>10, <1>11, CutFirst
<1>13. Inbox' = [Inbox EXCEPT ![r] = Tail(@)]
  <2>1. Inbox' = [q \in Receivers |-> Cut(cbuf'[q] \o down'[q])]
    BY DEF Inbox
  <2>2. Cut(cbuf'[r] \o down'[r]) = Tail(Inbox[r])
    BY <1>4, <1>6, <1>12 DEF t
  <2> HIDE DEF Cut
  <2> QED
    BY <1>5, <2>1, <2>2 DEF Inbox
<1>14. got' = [got EXCEPT ![r] = Append(@, Head(Inbox[r]))] /\ Inbox[r] # <<>>
  BY <1>1, <1>6, <1>12 DEF t
<1>15. Pending' = Pending
  BY <1>1, PendingStill DEF Holds
<1> QED
  BY <1>1, <1>13, <1>14, <1>15 DEF Promise!Read

LEMMA ReceiverDiesMaps ==
  ASSUME FInv, NEW r \in Receivers, ReceiverDies(r)
  PROVE  Promise!ReceiverDies(r)
<1>1. /\ down' = [down EXCEPT ![r] = <<>>] /\ cbuf' = [cbuf EXCEPT ![r] = <<>>]
      /\ UNCHANGED <<task, to_send, packet, accepted, got>>
  BY DEF ReceiverDies, serverVars
<1>2. /\ cbuf \in [Receivers -> Seq(Piece)] /\ down \in [Receivers -> Seq(Piece)]
  BY DEF FInv, IInv, QInv, TypeOK
<1>3. cbuf'[r] \o down'[r] = <<>> \o <<>>
  BY <1>1, <1>2
<1>4. cbuf'[r] \o down'[r] = <<>>
  BY <1>3
<1>5. \A q \in Receivers : q # r => cbuf'[q] \o down'[q] = cbuf[q] \o down[q]
  BY <1>1, <1>2
<1>6. Inbox' = [Inbox EXCEPT ![r] = <<>>]
  BY <1>4, <1>5, CutNothing DEF Inbox
<1>7. Pending' = Pending
  BY <1>1, PendingStill DEF Holds
<1> QED
  BY <1>1, <1>6, <1>7 DEF Promise!ReceiverDies

LEMMA CloseMaps ==
  ASSUME Close
  PROVE  Promise!Close
<1>1. /\ to_send' = <<>> /\ task' = [c \in Clients |-> "none"]
      /\ UNCHANGED <<accepted, got, down, cbuf>>
  BY DEF Close, receiverVars
<1>2. Pending' = {}
  BY <1>1 DEF Pending, Clients
<1>3. Inbox' = Inbox
  BY <1>1, InboxStill
<1> QED
  BY <1>1, <1>2, <1>3 DEF Promise!Close

(* The steps that the abstract queue does not see.                         *)
LEMMA OthersMap ==
  ASSUME UNCHANGED <<to_send, accepted, got, down, cbuf>>,
         \A r \in Receivers : (Holds(r)' <=> Holds(r)) /\ (Holds(r) => packet'[r] = packet[r])
  PROVE  UNCHANGED Promise!vars
<1>1. Inbox' = Inbox
  BY InboxStill
<1>2. Pending' = Pending
  BY PendingStill
<1> QED
  BY <1>1, <1>2, StutterIs

LEMMA InitMaps == Init => Promise!Init
<1> SUFFICES ASSUME Init PROVE Promise!Init
  OBVIOUS
<1>1. accepted = {} /\ got = [r \in Receivers |-> <<>>]
  BY DEF Init
<1>2. Pending = {}
  BY DEF Init, Pending, Clients
<1>3. \A r \in Receivers : cbuf[r] \o down[r] = <<>> \o <<>>
  BY DEF Init
<1>4. \A r \in Receivers : cbuf[r] \o down[r] = <<>>
  BY <1>3
<1>5. Inbox = [r \in Receivers |-> <<>>]
  BY <1>4, CutNothing DEF Inbox
<1> QED
  BY <1>1, <1>2, <1>5 DEF Promise!Init

LEMMA NextMaps ==
  ASSUME FInv, TypeOK', [Next]_vars
  PROVE  [Promise!Next]_(Promise!vars)
<1>0. IInv /\ QInv /\ TypeOK
  BY DEF FInv, IInv, QInv
<1>1. /\ DOMAIN task = Clients /\ DOMAIN packet = Receivers /\ Receivers \subseteq Clients
      /\ Senders \subseteq Clients /\ Senders \cap Receivers = {}
  BY <1>0, QueueAssumption DEF TypeOK, Clients
<1>2. ASSUME NEW c \in Clients, Connect(c) \/ Handshake(c) PROVE UNCHANGED Promise!vars
  <2>1. UNCHANGED <<to_send, accepted, got, down, cbuf, packet>>
    BY <1>2 DEF Connect, Handshake, serverVars, receiverVars
  <2>2. \A r \in Receivers : Holds(r)' <=> Holds(r)
    <3>1. CASE Handshake(c)
      BY <1>1, <3>1 DEF Handshake, Holds
    <3>2. CASE Connect(c)
      <4>1. task[c] = "none" /\ task' = [task EXCEPT ![c] = "accepted"]
        BY <1>0, <3>2 DEF Connect, IInv, OffHasNoTask
      <4> QED
        BY <1>1, <4>1 DEF Holds
    <3> QED
      BY <1>2, <3>1, <3>2
  <2> QED
    BY <2>1, <2>2, OthersMap
<1>3. ASSUME NEW s \in Senders, SenderEOF(s) \/ Put(s) \/ PutMore(s) \/ SenderDies(s) \/ QueueClosed(s)
      PROVE  UNCHANGED Promise!vars
  <2>1. UNCHANGED <<to_send, accepted, got, down, cbuf, packet>>
    BY <1>3 DEF SenderEOF, Put, PutMore, SenderDies, QueueClosed, serverVars, receiverVars
  <2>2. \A r \in Receivers : Holds(r)' <=> Holds(r)
    BY <1>1, <1>3 DEF SenderEOF, Put, PutMore, SenderDies, QueueClosed, Holds
  <2> QED
    BY <2>1, <2>2, OthersMap
<1>4. ASSUME NEW r \in Receivers, Slept(r) \/ QueueClosed(r) PROVE UNCHANGED Promise!vars
  <2>1. UNCHANGED <<to_send, accepted, got, down, cbuf>>
    BY <1>4 DEF Slept, QueueClosed, serverVars, receiverVars
  <2>2. \A q \in Receivers : (Holds(q)' <=> Holds(q)) /\ (Holds(q) => packet'[q] = packet[q])
    BY <1>1, <1>4 DEF Slept, QueueClosed, serverVars, Holds
  <2> QED
    BY <2>1, <2>2, OthersMap
<1>5. ASSUME NEW s \in Senders, NEW n \in 1..Len(up[s]), SenderTask(s, n)
      PROVE  Promise!Next
  BY <1>5, EntersMaps DEF Promise!Next
<1>6. ASSUME NEW r \in Receivers, Take(r) \/ Resume(r)
      PROVE  [Promise!Next]_(Promise!vars)
  <2>1. (\E p \in Pending : Promise!Give(r, p)) \/ UNCHANGED Promise!vars
    BY <1>6, TakeMaps, ResumeMaps, PutBackMaps
  <2> QED
    BY <2>1 DEF Promise!Next
<1>7. ASSUME NEW r \in Receivers, NEW n \in 1..Len(down[r]), Recv(r, n)
      PROVE  UNCHANGED Promise!vars
  BY <1>7, RecvMaps
<1>8. ASSUME NEW r \in Receivers, Yield(r) \/ ReceiverDies(r) PROVE Promise!Next
  BY <1>8, YieldMaps, ReceiverDiesMaps DEF Promise!Next
<1>9. CASE Close
  BY <1>9, CloseMaps DEF Promise!Next
<1>10. CASE UNCHANGED vars
  <2>1. UNCHANGED <<to_send, accepted, got, down, cbuf, packet, task>>
    BY <1>10 DEF vars, serverVars, receiverVars
  <2> QED
    BY <2>1, OthersMap DEF Holds
<1>11. ASSUME NEW c \in Clients, ServerStep(c) PROVE [Promise!Next]_(Promise!vars)
  <2>1. CASE Handshake(c)
    BY <1>2, <2>1
  <2>2. CASE c \in Senders /\ \/ \E n \in 1..Len(up[c]) : SenderTask(c, n)
                              \/ SenderEOF(c)
    BY <1>3, <1>5, <2>2
  <2>3. CASE c \in Receivers /\ (Take(c) \/ Resume(c) \/ Slept(c))
    BY <1>4, <1>6, <2>3
  <2> QED
    BY <1>11, <2>1, <2>2, <2>3 DEF ServerStep
<1>12. ASSUME NEW r \in Receivers, ReceiverStep(r) \/ ReceiverDies(r) PROVE [Promise!Next]_(Promise!vars)
  BY <1>4, <1>7, <1>8, <1>12 DEF ReceiverStep
<1> QED
  BY <1>2, <1>3, <1>9, <1>10, <1>11, <1>12 DEF Next

-----------------------------------------------------------------------------
LEMMA Inductive == Spec => []IInv
<1>1. Init => IInv
  BY InitIInv
<1>2. IInv /\ [Next]_vars => IInv'
  BY NextIInv
<1> QED
  BY <1>1, <1>2, PTL DEF Spec

(* Types: in particular, a task of a receiver holds a packet exactly while *)
(* it writes one or sleeps after it (queue.py:281-294), so that its        *)
(* finally clause puts back what was not delivered and nothing else.       *)
THEOREM TypeCorrect == Spec => []TypeOK
<1>1. IInv => TypeOK
  BY DEF IInv, QInv
<1> QED
  BY <1>1, Inductive, PTL

(* The semaphore counts the deque (queue.py:278-279, 283-284, 291-294):    *)
(* popleft never meets an empty deque and no packet waits uncounted.       *)
THEOREM SemCounts == Spec => []SemMatchesQueue
<1>1. IInv => SemMatchesQueue
  BY DEF IInv, QInv
<1> QED
  BY <1>1, Inductive, PTL
(* Whatever dies or blocks while frames are written in pieces, the deque   *)
(* and what get() yields hold whole packets, each of one put()             *)
(* (queue.py:218-224, 239-247, 273-295).                                   *)
THEOREM FramesStayIntact == Spec => []FramesIntact
BY FInvFramesIntact, FramesInductive, PTL

(* A receiver gets the packets of one sender in the order of its put()s,   *)
(* but for packets that were put back at the head of the deque because     *)
(* another receiver died while they were written to it (queue.py:291-294). *)
THEOREM OvertakenOnlyIfRequeued == Spec => []OnlyRequeuedOvertaken
BY FInvOvertaken, FramesInductive, PTL

(* The server, its tasks and sockets implement the abstract queue: a       *)
(* packet enters it once, is given to at most one receiver, when its last  *)
(* piece is written, and is lost only with that receiver or the queue.     *)
THEOREM QueueImplementsLossyQueue == Spec => ImplementsLossyQueue
<1>1. Init => Promise!Init
  BY InitMaps
<1>2. FInv /\ TypeOK' /\ [Next]_vars => [Promise!Next]_(Promise!vars)
  BY NextMaps
<1>3. FInv => TypeOK
  BY DEF FInv, IInv, QInv
<1> QED
  BY <1>1, <1>2, <1>3, FramesInductive, PTL DEF Spec, ImplementsLossyQueue, Promise!Spec

-----------------------------------------------------------------------------
(* The framing.  Stream(st, t, k, n) says that st is the frames of t[k + 1] *)
(* to t[n], one after the other; FramingInv says that each buffer together  *)
(* with the wire behind it is such a stream, the second one up to where the *)
(* first one begins.                                                       *)

\* A function on 0 .. n that starts with base, and whose value at i is what
\* G[i] makes of the one before.
Follows(f, n, D, base, G) ==
    f \in [0 .. n -> D] /\ f[0] = base /\ \A i \in 1 .. n : f[i] = G[i][f[i - 1]]

LEMMA StepByStep ==
    ASSUME NEW n \in Nat, NEW D, NEW base \in D, NEW G \in [1 .. n -> [D -> D]]
    PROVE  \E f : Follows(f, n, D, base, G)
<1> DEFINE T == {m \in 0 .. n : ~\E f : Follows(f, m, D, base, G)}
<1>1. T = {}
  <2> SUFFICES ASSUME T # {} PROVE FALSE
    OBVIOUS
  <2>1. PICK m \in T : \A k \in T : m <= k
    <3>1. T \subseteq Nat
      OBVIOUS
    <3> HIDE DEF T
    <3> QED
      BY <3>1, LeastElement
  <2>2. m \in 0 .. n /\ ~\E f : Follows(f, m, D, base, G)
    OBVIOUS
  <2>3. m # 0
    <3>1. Follows([i \in 0 .. 0 |-> base], 0, D, base, G)
      BY DEF Follows
    <3> QED
      BY <2>2, <3>1
  <2>4. m - 1 \in 0 .. n
    BY <2>2, <2>3
  <2>5. PICK f : Follows(f, m - 1, D, base, G)
    <3>1. ~(m <= m - 1)
      BY <2>2
    <3>2. m - 1 \notin T
      BY <2>1, <3>1
    <3> QED
      BY <2>4, <3>2
  <2> DEFINE g == [i \in 0 .. m |-> IF i = m THEN G[m][f[m - 1]] ELSE f[i]]
  <2>6. f \in [0 .. m - 1 -> D] /\ f[0] = base /\ \A i \in 1 .. m - 1 : f[i] = G[i][f[i - 1]]
    BY <2>5 DEF Follows
  <2>7. G[m][f[m - 1]] \in D
    BY <2>2, <2>3, <2>6
  <2>8. g \in [0 .. m -> D] /\ g[0] = base
    BY <2>2, <2>3, <2>6, <2>7
  <2>9. ASSUME NEW i \in 1 .. m PROVE g[i] = G[i][g[i - 1]]
    <3>1. g[i - 1] = f[i - 1]
      BY <2>2, <2>3
    <3>2. CASE i = m
      <4>1. g[m] = G[m][f[m - 1]]
        BY <2>2
      <4> QED
        BY <3>1, <3>2, <4>1
    <3>3. CASE i # m
      <4>1. i \in 1 .. m - 1 /\ i \in 0 .. m
        BY <2>2, <3>3
      <4>2. f[i] = G[i][f[i - 1]]
        BY <2>6, <4>1
      <4>3. g[i] = f[i]
        BY <3>3, <4>1
      <4> QED
        BY <3>1, <4>2, <4>3
    <3> QED
      BY <3>2, <3>3
  <2> HIDE DEF g
  <2>10. Follows(g, m, D, base, G)
    BY <2>8, <2>9 DEF Follows
  <2> QED
    BY <2>2, <2>10
<1>2. n \notin T /\ n \in 0 .. n
  BY <1>1
<1> QED
  BY <1>2

LEMMA EscapeFacts ==
    ASSUME NEW data \in Seq(Byte)
    PROVE  /\ EscapeAfter(data) \in [0 .. Len(data) -> BOOLEAN]
           /\ EscapeAfter(data)[0] = FALSE
           /\ \A i \in 1 .. Len(data) : EscapeAfter(data)[i] = EscapeStep(data[i], EscapeAfter(data)[i - 1])
<1> DEFINE E(f) == [i \in 0 .. Len(data) |-> IF i = 0 THEN FALSE ELSE EscapeStep(data[i], f[i - 1])]
           e == EscapeAfter(data)
<1>1. PICK D : D = BOOLEAN
  OBVIOUS
<1>2. PICK n \in Nat : n = Len(data)
  OBVIOUS
<1>3. PICK b \in D : b = FALSE
  BY <1>1
<1>4. PICK G \in [1 .. n -> [D -> D]] : \A i \in 1 .. n, v \in D : G[i][v] = EscapeStep(data[i], v)
  <2>1. [i \in 1 .. n |-> [v \in D |-> EscapeStep(data[i], v)]] \in [1 .. n -> [D -> D]]
    BY <1>1 DEF EscapeStep
  <2> QED
    BY <2>1
<1>5. PICK f : Follows(f, n, D, b, G)
  BY StepByStep
<1>6. f \in [0 .. n -> D] /\ f[0] = b /\ \A i \in 1 .. n : f[i] = G[i][f[i - 1]]
  BY <1>5 DEF Follows
<1>7. ASSUME NEW i \in 1 .. n PROVE f[i] = EscapeStep(data[i], f[i - 1])
  <2>1. i \in 1 .. n /\ i - 1 \in 0 .. n
    OBVIOUS
  <2>2. f[i - 1] \in D /\ f[i] = G[i][f[i - 1]]
    BY <1>6, <2>1
  <2> QED
    BY <1>4, <2>2
<1>8. f = E(f)
  <2>1. DOMAIN f = 0 .. Len(data)
    BY <1>2, <1>6
  <2>2. f[0] = FALSE
    BY <1>3, <1>6
  <2> SUFFICES f = [i \in 0 .. Len(data) |-> f[i]]
               /\ \A i \in 0 .. Len(data) : f[i] = IF i = 0 THEN FALSE ELSE EscapeStep(data[i], f[i - 1])
    BY Zenon
  <2> QED
    BY <1>2, <1>6, <1>7, <2>1, <2>2
<1>9. e = CHOOSE g : g = E(g)
  BY DEF EscapeAfter
<1>10. e = E(e)
  <2> HIDE DEF E
  <2> QED
    BY <1>8, <1>9
<1>11. DOMAIN e = 0 .. Len(data)
  <2> HIDE DEF e
  <2> QED
    BY <1>10
<1>12. ASSUME NEW i \in 0 .. Len(data)
       PROVE  e[i] = IF i = 0 THEN FALSE ELSE EscapeStep(data[i], e[i - 1])
  <2> HIDE DEF e
  <2>1. e[i] = E(e)[i]
    BY <1>10, Zenon
  <2> QED
    BY <2>1, Zenon
<1>13. 0 \in 0 .. Len(data) /\ \A i \in 1 .. Len(data) : i \in 0 .. Len(data) /\ i # 0
  OBVIOUS
<1>14. e \in [0 .. Len(data) -> BOOLEAN]
  BY <1>10 DEF EscapeStep
<1> HIDE DEF e, E
<1>15. e[0] = FALSE /\ \A i \in 1 .. Len(data) : e[i] = EscapeStep(data[i], e[i - 1])
  BY <1>12, <1>13, Zenon
<1> QED
  BY <1>14, <1>15, Zenon DEF e

LEMMA Upwards ==
    ASSUME NEW n \in Nat, NEW T, 0 \in T, \A i \in 1 .. n : i - 1 \in T => i \in T
    PROVE  \A i \in 0 .. n : i \in T
<1> DEFINE R == {i \in 0 .. n : i \notin T}
<1> SUFFICES ASSUME R # {} PROVE FALSE
  OBVIOUS
<1>1. PICK m \in R : \A k \in R : m <= k
  <2>1. R \subseteq Nat
    OBVIOUS
  <2> HIDE DEF R
  <2> QED
    BY <2>1, LeastElement
<1>2. m \in 1 .. n /\ m \notin T
  OBVIOUS
<1>3. m - 1 \in T
  <2>1. ~(m <= m - 1) /\ m - 1 \in 0 .. n
    BY <1>2
  <2>2. m - 1 \notin R
    BY <1>1, <2>1
  <2> QED
    BY <2>1, <2>2
<1> QED
  BY <1>2, <1>3

Reading == [out : Seq(Byte), escape : BOOLEAN, end : BOOLEAN, failed : BOOLEAN]
Unread == [out |-> <<>>, escape |-> FALSE, end |-> FALSE, failed |-> FALSE]

LEMMA ReadFacts ==
    ASSUME NEW data \in Seq(Byte)
    PROVE  /\ ReadAfter(data)[0] = Unread
           /\ \A i \in 1 .. Len(data) : ReadAfter(data)[i] = ReadByte(ReadAfter(data)[i - 1], data[i])
<1> DEFINE E(f) == [i \in 0 .. Len(data) |-> IF i = 0 THEN Unread ELSE ReadByte(f[i - 1], data[i])]
           e == ReadAfter(data)
<1>1. Unread \in Reading
  BY DEF Unread, Reading
<1>2. PICK n \in Nat : n = Len(data)
  OBVIOUS
<1>3. PICK G \in [1 .. n -> [Reading -> Reading]] : \A i \in 1 .. n, v \in Reading : G[i][v] = ReadByte(v, data[i])
  <2>1. ASSUME NEW i \in 1 .. n, NEW v \in Reading PROVE ReadByte(v, data[i]) \in Reading
    <3>1. data[i] \in Byte
      BY <1>2
    <3>2. /\ [v EXCEPT !.end = TRUE] \in Reading /\ [v EXCEPT !.escape = TRUE] \in Reading
          /\ v.out \in Seq(Byte) /\ v.end \in BOOLEAN /\ v.failed \in BOOLEAN
      BY DEF Reading
    <3>3. Append(v.out, data[i]) \in Seq(Byte) /\ (v.failed \/ v.end) \in BOOLEAN
      BY <3>1, <3>2
    <3>4. [out |-> Append(v.out, data[i]), escape |-> FALSE, end |-> v.end, failed |-> v.failed \/ v.end] \in Reading
      BY <3>2, <3>3 DEF Reading
    <3> QED
      BY <3>2, <3>4 DEF ReadByte
  <2>2. [i \in 1 .. n |-> [v \in Reading |-> ReadByte(v, data[i])]] \in [1 .. n -> [Reading -> Reading]]
    BY <2>1
  <2> QED
    BY <2>2
<1>4. PICK f : Follows(f, n, Reading, Unread, G)
  BY <1>1, StepByStep
<1>5. f \in [0 .. n -> Reading] /\ f[0] = Unread /\ \A i \in 1 .. n : f[i] = G[i][f[i - 1]]
  BY <1>4 DEF Follows
<1>6. ASSUME NEW i \in 1 .. n PROVE f[i] = ReadByte(f[i - 1], data[i])
  <2>1. i \in 1 .. n /\ i - 1 \in 0 .. n
    OBVIOUS
  <2>2. f[i - 1] \in Reading /\ f[i] = G[i][f[i - 1]]
    BY <1>5, <2>1
  <2> QED
    BY <1>3, <2>2
<1>7. f = E(f)
  BY <1>2, <1>5, <1>6
<1>8. e = CHOOSE g : g = E(g)
  BY DEF ReadAfter, Unread
<1>9. e = E(e)
  <2> HIDE DEF E
  <2> QED
    BY <1>7, <1>8
<1> HIDE DEF e
<1>10. ASSUME NEW i \in 0 .. Len(data)
       PROVE  e[i] = IF i = 0 THEN Unread ELSE ReadByte(e[i - 1], data[i])
  <2>1. e[i] = E(e)[i]
    BY <1>9, Zenon
  <2> QED
    BY <2>1, Zenon
<1> HIDE DEF E
<1>11. 0 \in 0 .. Len(data) /\ \A i \in 1 .. Len(data) : i \in 0 .. Len(data) /\ i # 0
  OBVIOUS
<1> QED
  BY <1>10, <1>11, Zenon DEF e

\* Where in s, the frame of data, the bytes of data are: what stands for data[i] ends at p[i].
Layout(p, data, s) ==
    /\ s \in Seq(Byte)
    /\ p \in [0 .. Len(data) -> Nat] /\ p[0] = 0
    /\ \A i \in 1 .. Len(data) :
         /\ p[i] = p[i - 1] + (IF data[i] = DLE THEN 2 ELSE 1) /\ p[i] <= p[Len(data)]
         /\ s[p[i - 1] + 1] = data[i]
         /\ data[i] = DLE => s[p[i - 1] + 2] = DLE
    /\ Len(s) = p[Len(data)] + 2 /\ s[p[Len(data)] + 1] = DLE /\ s[p[Len(data)] + 2] = NUL

LEMMA FlattenFacts ==
    ASSUME NEW n \in Nat, NEW seqs \in [1 .. n -> Seq(Byte)]
    PROVE  \E f : /\ f \in [0 .. n -> Seq(Byte)] /\ f[0] = <<>> /\ FlattenSeq(seqs) = f[n]
                  /\ \A i \in 1 .. n : f[i] = f[i - 1] \o seqs[i]
<1>1. PICK G \in [1 .. n -> [Seq(Byte) -> Seq(Byte)]] : \A i \in 1 .. n, v \in Seq(Byte) : G[i][v] = v \o seqs[i]
  <2>1. [i \in 1 .. n |-> [v \in Seq(Byte) |-> v \o seqs[i]]] \in [1 .. n -> [Seq(Byte) -> Seq(Byte)]]
    OBVIOUS
  <2> QED
    BY <2>1
<1>2. <<>> \in Seq(Byte)
  OBVIOUS
<1>3. PICK f : Follows(f, n, Seq(Byte), <<>>, G)
  BY <1>2, StepByStep
<1>4. f \in [0 .. n -> Seq(Byte)] /\ f[0] = <<>> /\ \A i \in 1 .. n : f[i] = G[i][f[i - 1]]
  BY <1>3 DEF Follows
<1>5. ASSUME NEW i \in 1 .. n PROVE f[i] = f[i - 1] \o seqs[i]
  <2>1. i \in 1 .. n /\ i - 1 \in 0 .. n
    OBVIOUS
  <2>2. f[i - 1] \in Seq(Byte) /\ f[i] = G[i][f[i - 1]]
    BY <1>4, <2>1
  <2> QED
    BY <1>1, <2>2
<1>6. Len(seqs) = n
  OBVIOUS
<1>9. ASSUME n # 0 PROVE f[1] = seqs[1]
  <2>1. 1 \in 1 .. n /\ seqs[1] \in Seq(Byte)
    BY <1>9
  <2>2. f[1] = f[1 - 1] \o seqs[1]
    BY <1>5, <2>1
  <2>3. f[1] = <<>> \o seqs[1]
    <3>1. 1 - 1 = 0
      OBVIOUS
    <3> QED
      BY <1>4, <2>2, <3>1
  <2> QED
    BY <2>1, <2>3, ConcatEmptySeq
<1>7. CASE n = 0
  <2>1. FlattenSeq(seqs) = <<>>
    BY <1>6, <1>7 DEF FlattenSeq
  <2> QED
    BY <1>4, <1>7, <2>1
<1>8. CASE n # 0
  <2> DEFINE E(g) == [i \in 1 .. n |-> IF i = 1 THEN seqs[i] ELSE g[i - 1] \o seqs[i]]
             h == CHOOSE g : g = E(g)
  <2>1. FlattenSeq(seqs) = h[n]
    BY <1>6, <1>8 DEF FlattenSeq
  <2>2. PICK g : g = [i \in 1 .. n |-> f[i]]
    OBVIOUS
  <2>3. g = E(g)
    <3> SUFFICES ASSUME NEW i \in 1 .. n PROVE f[i] = IF i = 1 THEN seqs[i] ELSE g[i - 1] \o seqs[i]
      BY <2>2
    <3>1. CASE i = 1
      BY <1>8, <1>9, <3>1
    <3>2. CASE i # 1
      <4>1. i - 1 \in 1 .. n
        BY <3>2
      <4>2. g[i - 1] = f[i - 1]
        BY <2>2, <4>1
      <4> QED
        BY <1>5, <3>2, <4>2
    <3> QED
      BY <3>1, <3>2
  <2>4. h = E(h)
    <3> HIDE DEF E
    <3> QED
      BY <2>3
  <2> HIDE DEF h
  <2>5. ASSUME NEW i \in 1 .. n PROVE h[i] = IF i = 1 THEN seqs[i] ELSE h[i - 1] \o seqs[i]
    <3>1. h[i] = E(h)[i]
      BY <2>4, Zenon
    <3> QED
      BY <3>1, Zenon
  <2> HIDE DEF E
  <2> DEFINE T == {i \in 0 .. n : i # 0 => h[i] = f[i]}
  <2>6. ASSUME NEW i \in 1 .. n, i - 1 \in T PROVE i \in T
    <3>0. i \in 0 .. n
      OBVIOUS
    <3>1. CASE i = 1
      BY <1>8, <1>9, <2>5, <3>0, <3>1
    <3>2. CASE i # 1
      <4>1. h[i - 1] = f[i - 1]
        BY <2>6, <3>2
      <4>2. h[i] = h[i - 1] \o seqs[i]
        BY <2>5, <3>2
      <4> QED
        BY <1>5, <3>0, <4>1, <4>2
    <3> QED
      BY <3>1, <3>2
  <2>7. 0 \in T
    OBVIOUS
  <2>8. \A i \in 0 .. n : i \in T
    <3> HIDE DEF T
    <3> QED
      BY <2>6, <2>7, Upwards
  <2>9. h[n] = f[n]
    BY <1>8, <2>8
  <2> QED
    BY <1>4, <1>5, <2>1, <2>9
<1> QED
  BY <1>7, <1>8

LEMMA Bytes == DLE \in Byte /\ NUL \in Byte /\ DLE # NUL
BY DEF DLE, NUL, Byte

LEMMA EscapedFacts ==
    ASSUME NEW b \in Byte
    PROVE  /\ Escaped(b) \in Seq(Byte) /\ Escaped(b)[1] = b /\ Len(Escaped(b)) \in {1, 2}
           /\ Len(Escaped(b)) = 2 <=> b = DLE
           /\ b = DLE => Escaped(b)[2] = DLE
<1> HIDE DEF DLE, Byte
<1>1. CASE b = DLE
  <2>1. Escaped(b) = <<DLE, DLE>>
    BY <1>1 DEF Escaped
  <2> QED
    BY <1>1, <2>1
<1>2. CASE b # DLE
  <2>1. Escaped(b) = <<b>>
    BY <1>2 DEF Escaped
  <2> QED
    BY <1>2, <2>1
<1> QED
  BY <1>1, <1>2

LEMMA Joined ==
    ASSUME NEW x \in Seq(Byte), NEW y \in Seq(Byte)
    PROVE  /\ x \o y \in Seq(Byte) /\ Len(x) \in Nat /\ Len(y) \in Nat /\ Len(x \o y) = Len(x) + Len(y)
           /\ \A k \in 1 .. Len(x) : (x \o y)[k] = x[k]
           /\ \A k \in 1 .. Len(y) : (x \o y)[Len(x) + k] = y[k]
<1>1. /\ x \o y \in Seq(Byte) /\ Len(x) \in Nat /\ Len(y) \in Nat /\ Len(x \o y) = Len(x) + Len(y)
      /\ \A i \in 1 .. Len(x) + Len(y) : (x \o y)[i] = IF i <= Len(x) THEN x[i] ELSE y[i - Len(x)]
  BY ConcatProperties
<1>2. ASSUME NEW k \in 1 .. Len(y) PROVE (x \o y)[Len(x) + k] = y[k]
  <2>1. Len(x) + k \in 1 .. Len(x) + Len(y) /\ ~(Len(x) + k <= Len(x)) /\ Len(x) + k - Len(x) = k
    BY <1>1
  <2> QED
    BY <1>1, <2>1
<1>3. ASSUME NEW k \in 1 .. Len(x) PROVE (x \o y)[k] = x[k]
  <2>1. k \in 1 .. Len(x) + Len(y) /\ k <= Len(x)
    BY <1>1
  <2> QED
    BY <1>1, <2>1
<1> QED
  BY <1>1, <1>2, <1>3

LEMMA Within == \A a, l, b, k \in Nat : (1 <= k /\ k <= l /\ a + l <= b) => a + k \in 1 .. b
OBVIOUS

\* Where in s, which is f[n], the pieces are that f puts together one after the other.
LEMMA Positions ==
    ASSUME NEW n \in Nat, NEW seqs \in [1 .. n -> Seq(Byte)], NEW f \in [0 .. n -> Seq(Byte)],
           \A i \in 1 .. n : f[i] = f[i - 1] \o seqs[i]
    PROVE  \A i \in 1 .. n : /\ Len(f[i]) = Len(f[i - 1]) + Len(seqs[i]) /\ Len(f[i]) <= Len(f[n])
                             /\ \A k \in 1 .. Len(seqs[i]) : f[n][Len(f[i - 1]) + k] = seqs[i][k]
<1>1. ASSUME NEW i \in 1 .. n
      PROVE  /\ f[i - 1] \in Seq(Byte) /\ f[i] \in Seq(Byte) /\ seqs[i] \in Seq(Byte)
             /\ Len(f[i - 1]) \in Nat /\ Len(f[i]) \in Nat /\ Len(seqs[i]) \in Nat
             /\ Len(f[i]) = Len(f[i - 1]) + Len(seqs[i])
             /\ \A k \in 1 .. Len(f[i - 1]) : f[i][k] = f[i - 1][k]
             /\ \A k \in 1 .. Len(seqs[i]) : f[i][Len(f[i - 1]) + k] = seqs[i][k]
  <2>1. f[i - 1] \in Seq(Byte) /\ f[i] \in Seq(Byte) /\ seqs[i] \in Seq(Byte) /\ f[i] = f[i - 1] \o seqs[i]
    OBVIOUS
  <2> QED
    BY <2>1, Joined
<1> DEFINE Laid(i, j) == /\ Len(f[i]) <= Len(f[j])
                         /\ \A k \in 1 .. Len(seqs[i]) : f[j][Len(f[i - 1]) + k] = seqs[i][k]
           T == {j \in 0 .. n : \A i \in 1 .. j : Laid(i, j)}
<1>2. 0 \in T
  OBVIOUS
<1>3. ASSUME NEW j \in 1 .. n, j - 1 \in T PROVE j \in T
  <2> SUFFICES ASSUME NEW i \in 1 .. j PROVE Laid(i, j)
    <3>1. j \in 0 .. n
      OBVIOUS
    <3> HIDE DEF Laid
    <3> QED
      BY <3>1
  <2>1. CASE i = j
    <3>1. \A k \in 1 .. Len(seqs[i]) : f[i][Len(f[i - 1]) + k] = seqs[i][k]
      BY <1>1, <2>1
    <3>2. Len(f[i]) <= Len(f[i])
      BY <1>1, <2>1
    <3>3. Laid(i, i)
      BY <3>1, <3>2
    <3> HIDE DEF Laid
    <3> QED
      BY <2>1, <3>3
  <2>2. CASE i # j
    <3>1. i \in 1 .. j - 1 /\ i \in 1 .. n
      BY <2>2
    <3>2. Laid(i, j - 1)
      <4> HIDE DEF Laid
      <4> QED
        BY <1>3, <3>1
    <3>3. Len(f[i]) <= Len(f[j])
      <4>1. Len(f[j]) = Len(f[j - 1]) + Len(seqs[j]) /\ Len(f[j - 1]) \in Nat /\ Len(seqs[j]) \in Nat
        BY <1>1
      <4>2. Len(f[i]) \in Nat
        BY <1>1, <3>1
      <4> QED
        BY <3>2, <4>1, <4>2, SMTT(60)
    <3>4. ASSUME NEW k \in 1 .. Len(seqs[i]) PROVE f[j][Len(f[i - 1]) + k] = seqs[i][k]
      <4>1. /\ Len(f[i - 1]) \in Nat /\ Len(seqs[i]) \in Nat
            /\ Len(f[i]) = Len(f[i - 1]) + Len(seqs[i])
        BY <1>1, <3>1
      <4>2. Len(f[j - 1]) \in Nat
        BY <1>1
      <4>5. Len(f[i]) <= Len(f[j - 1])
        BY <3>2
      <4>6. k \in Nat /\ 1 <= k /\ k <= Len(seqs[i])
        BY <4>1
      <4>3. Len(f[i - 1]) + k \in 1 .. Len(f[j - 1])
        <5>1. Len(f[i - 1]) + Len(seqs[i]) <= Len(f[j - 1])
          BY <4>1, <4>5
        <5> QED
          BY <4>1, <4>2, <4>6, <5>1, Within
      <4>4. f[j][Len(f[i - 1]) + k] = f[j - 1][Len(f[i - 1]) + k]
        BY <1>1, <4>3
      <4> QED
        BY <3>2, <4>4
    <3> QED
      BY <3>3, <3>4
  <2> QED
    BY <2>1, <2>2
<1>4. \A j \in 0 .. n : j \in T
  <2> HIDE DEF T
  <2> QED
    BY <1>2, <1>3, Upwards
<1>5. n \in T
  BY <1>4
<1> QED
  BY <1>1, <1>5

LEMMA FrameLayout ==
    ASSUME NEW data \in Seq(Byte)
    PROVE  \E p : Layout(p, data, serialize(data))
<1> DEFINE s == serialize(data)
<1>1. PICK n \in Nat : n = Len(data)
  OBVIOUS
<1>2. PICK seqs : seqs = [i \in 1 .. Len(data) |-> Escaped(data[i])]
  OBVIOUS
<1>3. ASSUME NEW i \in 1 .. n
      PROVE  /\ data[i] \in Byte /\ seqs[i] = Escaped(data[i])
             /\ seqs[i] \in Seq(Byte) /\ seqs[i][1] = data[i] /\ Len(seqs[i]) \in {1, 2}
             /\ Len(seqs[i]) = 2 <=> data[i] = DLE
             /\ data[i] = DLE => seqs[i][2] = DLE
  <2>1. data[i] \in Byte /\ seqs[i] = Escaped(data[i])
    BY <1>1, <1>2
  <2> QED
    BY <2>1, EscapedFacts
<1>4. seqs \in [1 .. n -> Seq(Byte)]
  BY <1>1, <1>2, <1>3
<1>5. PICK f : /\ f \in [0 .. n -> Seq(Byte)] /\ f[0] = <<>> /\ FlattenSeq(seqs) = f[n]
               /\ \A i \in 1 .. n : f[i] = f[i - 1] \o seqs[i]
  BY <1>4, FlattenFacts
<1>6. s = f[n] \o <<DLE, NUL>>
  BY <1>2, <1>5 DEF serialize
<1>7. \A i \in 1 .. n : /\ Len(f[i]) = Len(f[i - 1]) + Len(seqs[i]) /\ Len(f[i]) <= Len(f[n])
                        /\ \A k \in 1 .. Len(seqs[i]) : f[n][Len(f[i - 1]) + k] = seqs[i][k]
  BY <1>4, <1>5, Positions
<1>8. PICK p : p = [i \in 0 .. n |-> Len(f[i])]
  OBVIOUS
<1>9. \A i \in 0 .. n : f[i] \in Seq(Byte) /\ Len(f[i]) \in Nat /\ p[i] = Len(f[i])
  BY <1>5, <1>8
<1>10. /\ s \in Seq(Byte) /\ Len(s) = p[n] + 2 /\ s[p[n] + 1] = DLE /\ s[p[n] + 2] = NUL
       /\ \A k \in 1 .. p[n] : s[k] = f[n][k]
  <2>1. PICK y : y = <<DLE, NUL>>
    OBVIOUS
  <2>2. y \in Seq(Byte) /\ Len(y) = 2 /\ y[1] = DLE /\ y[2] = NUL
    BY <2>1, Bytes
  <2>3. f[n] \in Seq(Byte) /\ p[n] = Len(f[n])
    BY <1>9
  <2>4. s = f[n] \o y
    BY <1>6, <2>1
  <2>5. /\ s \in Seq(Byte) /\ Len(s) = p[n] + 2
        /\ \A k \in 1 .. p[n] : s[k] = f[n][k]
        /\ \A k \in 1 .. 2 : s[p[n] + k] = y[k]
    <3> HIDE DEF s
    <3>1. /\ s \in Seq(Byte) /\ Len(s) = Len(f[n]) + Len(y)
          /\ \A k \in 1 .. Len(f[n]) : s[k] = f[n][k]
          /\ \A k \in 1 .. Len(y) : s[Len(f[n]) + k] = y[k]
      BY <2>2, <2>3, <2>4, Joined
    <3> QED
      BY <2>2, <2>3, <3>1
  <2>6. 1 \in 1 .. 2 /\ 2 \in 1 .. 2
    OBVIOUS
  <2> QED
    BY <2>2, <2>5, <2>6
<1> HIDE DEF s
<1>11. p \in [0 .. n -> Nat] /\ p[0] = 0
  BY <1>5, <1>8, <1>9
<1>12. ASSUME NEW i \in 1 .. n
       PROVE  /\ p[i] = p[i - 1] + (IF data[i] = DLE THEN 2 ELSE 1) /\ p[i] <= p[n]
              /\ s[p[i - 1] + 1] = data[i]
              /\ data[i] = DLE => s[p[i - 1] + 2] = DLE
  <2>1. i - 1 \in 0 .. n /\ i \in 0 .. n /\ n \in 0 .. n
    OBVIOUS
  <2>2. p[i] = Len(f[i]) /\ p[i - 1] = Len(f[i - 1]) /\ p[n] = Len(f[n]) /\ p[i - 1] \in Nat /\ p[n] \in Nat
    BY <1>9, <2>1
  <2>3. /\ p[i] = p[i - 1] + Len(seqs[i]) /\ p[i] <= p[n]
        /\ \A k \in 1 .. Len(seqs[i]) : f[n][p[i - 1] + k] = seqs[i][k]
    BY <1>7, <2>2
  <2>4. \A k \in 1 .. Len(seqs[i]) : s[p[i - 1] + k] = seqs[i][k]
    <3> TAKE k \in 1 .. Len(seqs[i])
    <3>1. k \in Nat /\ 1 <= k /\ k <= Len(seqs[i]) /\ Len(seqs[i]) \in Nat
      BY <1>3
    <3>3. p[i - 1] + Len(seqs[i]) <= p[n]
      BY <2>3
    <3>2. p[i - 1] + k \in 1 .. p[n]
      BY <2>2, <3>1, <3>3, Within
    <3> QED
      BY <1>10, <2>3, <3>2
  <2>5. 1 \in 1 .. Len(seqs[i]) /\ (data[i] = DLE => 2 \in 1 .. Len(seqs[i]))
    BY <1>3
  <2>6. Len(seqs[i]) = IF data[i] = DLE THEN 2 ELSE 1
    BY <1>3
  <2> QED
    BY <1>3, <2>3, <2>4, <2>5, <2>6
<1>13. Layout(p, data, s)
  BY <1>1, <1>10, <1>11, <1>12 DEF Layout
<1> QED
  BY <1>13 DEF s

\* M is where in b parse is in escaped state.
Marks(M, b) ==
    /\ 0 \notin M
    /\ \A i \in 1 .. Len(b) : i \in M <=> (b[i] = DLE /\ i - 1 \notin M)

EndsOf(M, b) == {i \in 1 .. Len(b) : b[i] = NUL /\ i - 1 \in M}

LEMMA EscapeMarks ==
    ASSUME NEW b \in Seq(Byte)
    PROVE  \E M : Marks(M, b) /\ FrameLen(b) = IF EndsOf(M, b) = {} THEN 0 ELSE Min(EndsOf(M, b))
<1> DEFINE e == EscapeAfter(b)
           M == {i \in 0 .. Len(b) : e[i]}
<1>1. FrameLen(b) = LET F == {i \in 1 .. Len(b) : b[i] = NUL /\ e[i - 1]} IN IF F = {} THEN 0 ELSE Min(F)
  BY DEF FrameLen
<1>2. e[0] = FALSE /\ \A i \in 1 .. Len(b) : e[i] = EscapeStep(b[i], e[i - 1])
  BY EscapeFacts
<1> HIDE DEF e
<1>3. Len(b) \in Nat
  OBVIOUS
<1>4. \A i \in 1 .. Len(b) : i \in 0 .. Len(b) /\ i - 1 \in 0 .. Len(b)
  OBVIOUS
<1>5. 0 \notin M
  BY <1>2, Zenon
<1>6. ASSUME NEW i \in 1 .. Len(b) PROVE i \in M <=> (b[i] = DLE /\ i - 1 \notin M)
  <2>1. e[i] = EscapeStep(b[i], e[i - 1])
    BY <1>2, Zenon
  <2>2. (i \in M <=> e[i]) /\ (i - 1 \in M <=> e[i - 1])
    BY <1>4, Zenon
  <2> QED
    BY <2>1, <2>2, Zenon DEF EscapeStep
<1>7. {i \in 1 .. Len(b) : b[i] = NUL /\ e[i - 1]} = EndsOf(M, b)
  <2>1. ASSUME NEW i \in 1 .. Len(b) PROVE i - 1 \in M <=> e[i - 1]
    BY <1>4, Zenon
  <2> HIDE DEF M
  <2> QED
    BY <2>1, Zenon DEF EndsOf
<1> HIDE DEF M
<1>8. Marks(M, b)
  BY <1>5, <1>6, Zenon DEF Marks
<1>9. FrameLen(b) = IF EndsOf(M, b) = {} THEN 0 ELSE Min(EndsOf(M, b))
  BY <1>1, <1>7, Zenon
<1> QED
  BY <1>8, <1>9, Zenon

\* b goes on as s does, as far as it reaches.
Starts(b, s) == b \in Seq(Byte) /\ \A i \in 1 .. Len(b) : i <= Len(s) => b[i] = s[i]

LEMMA LayoutAt ==
    ASSUME NEW data \in Seq(Byte), NEW s, NEW p, Layout(p, data, s)
    PROVE  /\ \A k \in 0 .. Len(data) : p[k] \in Nat
           /\ p[0] = 0
           /\ \A k \in 1 .. Len(data) :
                /\ p[k - 1] \in Nat
                /\ p[k] = p[k - 1] + (IF data[k] = DLE THEN 2 ELSE 1) /\ p[k] + 2 <= Len(s)
                /\ s[p[k - 1] + 1] = data[k] /\ (data[k] = DLE => s[p[k - 1] + 2] = DLE)
           /\ s \in Seq(Byte) /\ Len(data) \in Nat /\ Len(s) \in Nat
           /\ \E q \in Nat : q = p[Len(data)] /\ Len(s) = q + 2 /\ s[q + 1] = DLE /\ s[q + 2] = NUL
<1>1. PICK n \in Nat : n = Len(data)
  OBVIOUS
<1>2. /\ s \in Seq(Byte) /\ p \in [0 .. n -> Nat] /\ p[0] = 0
      /\ \A i \in 1 .. n :
           /\ p[i] = p[i - 1] + (IF data[i] = DLE THEN 2 ELSE 1) /\ p[i] <= p[n]
           /\ s[p[i - 1] + 1] = data[i]
           /\ data[i] = DLE => s[p[i - 1] + 2] = DLE
      /\ Len(s) = p[n] + 2 /\ s[p[n] + 1] = DLE /\ s[p[n] + 2] = NUL
  BY <1>1 DEF Layout
<1>3. n \in 0 .. n /\ \A k \in 1 .. n : k - 1 \in 0 .. n /\ k \in 0 .. n
  OBVIOUS
<1>4. \A k \in 0 .. n : p[k] \in Nat
  BY <1>2
<1>5. Len(s) \in Nat
  BY <1>2
<1>6. \A k \in 1 .. n : p[k - 1] \in Nat /\ p[k] + 2 <= Len(s)
  <2> TAKE k \in 1 .. n
  <2>1. p[k - 1] \in Nat /\ p[k] \in Nat /\ p[n] \in Nat
    BY <1>3, <1>4
  <2>2. p[k] <= p[n] /\ Len(s) = p[n] + 2
    BY <1>2
  <2> QED
    BY <2>1, <2>2
<1>7. p[n] \in Nat
  BY <1>3, <1>4
<1> QED
  BY <1>1, <1>2, <1>4, <1>5, <1>6, <1>7, Zenon

\* Neither a byte of data nor one that was put before it is taken for the end.
LEMMA NoEarlyEnd ==
    ASSUME NEW data \in Seq(Byte), NEW s, NEW p, Layout(p, data, s), NEW b, Starts(b, s), NEW M,
           Marks(M, b), NEW j \in 0 .. Len(data)
    PROVE  (p[j] <= Len(b) => p[j] \notin M) /\ \A i \in EndsOf(M, b) : i > p[j]
<1>0. PICK n \in Nat : n = Len(data)
  OBVIOUS
<1> PICK l \in Nat : l = Len(b)
  BY DEF Starts
<1>1. /\ \A k \in 0 .. n : p[k] \in Nat
      /\ p[0] = 0
      /\ \A k \in 1 .. n :
                /\ p[k - 1] \in Nat
                /\ p[k] = p[k - 1] + (IF data[k] = DLE THEN 2 ELSE 1) /\ p[k] + 2 <= Len(s)
                /\ s[p[k - 1] + 1] = data[k] /\ (data[k] = DLE => s[p[k - 1] + 2] = DLE)
      /\ Len(s) \in Nat
  BY <1>0, LayoutAt
<1>2. /\ 0 \notin M
      /\ \A i \in 1 .. l : i \in M <=> (b[i] = DLE /\ i - 1 \notin M)
  BY DEF Marks
<1>3. \A i : i \in EndsOf(M, b) <=> (i \in 1 .. l /\ b[i] = NUL /\ i - 1 \in M)
  BY DEF EndsOf
<1>4. \A i \in 1 .. l : i <= Len(s) => b[i] = s[i]
  BY DEF Starts
<1> DEFINE Clean(k) == (p[k] <= l => p[k] \notin M) /\ \A i \in EndsOf(M, b) : i > p[k]
           T == {k \in 0 .. n : Clean(k)}
<1>5. 0 \in T
  <2>1. Clean(0)
    BY <1>1, <1>2, <1>3
  <2> HIDE DEF Clean
  <2> QED
    BY <2>1
<1>6. ASSUME NEW k \in 1 .. n, k - 1 \in T PROVE k \in T
  <2> PICK q \in Nat : q = p[k - 1]
    BY <1>1
  <2> PICK r \in Nat : r = p[k]
    <3>1. k \in 0 .. n
      OBVIOUS
    <3> QED
      BY <1>1, <3>1
  <2> PICK c : c = data[k]
    OBVIOUS
  <2>1. /\ r = q + (IF c = DLE THEN 2 ELSE 1) /\ r + 2 <= Len(s)
        /\ s[q + 1] = c /\ (c = DLE => s[q + 2] = DLE)
    BY <1>1
  <2>2. (q <= l => q \notin M) /\ \A i \in EndsOf(M, b) : i > q
    <3>1. Clean(k - 1)
      BY <1>6
    <3> HIDE DEF Clean
    <3> QED
      BY <3>1 DEF Clean
  <2> HIDE DEF T, Clean
  <2> PICK z \in Nat : z = Len(s)
    BY <1>1
  <2>0. q + 1 <= z /\ (c = DLE => q + 2 <= z)
    <3>1. r + 2 <= z
      BY <2>1
    <3>2. r = q + 1 \/ r = q + 2
      BY <2>1
    <3>3. c = DLE => r = q + 2
      BY <2>1
    <3> QED
      BY <3>1, <3>2, <3>3, SMTT(60)
  <2>3. ASSUME q + 1 <= l PROVE b[q + 1] = c /\ q \notin M /\ (q + 1 \in M <=> c = DLE)
    <3>1. q + 1 \in 1 .. l /\ q + 1 <= Len(s) /\ q + 1 - 1 = q /\ q <= l
      BY <2>0, <2>3
    <3> QED
      BY <1>2, <1>4, <2>1, <2>2, <3>1, SMTT(60)
  <2>4. ASSUME q + 2 <= l, c = DLE PROVE b[q + 2] = DLE /\ q + 2 \notin M
    <3>1. q + 2 \in 1 .. l /\ q + 2 <= Len(s) /\ q + 2 - 1 = q + 1 /\ q + 1 <= l
      BY <2>0, <2>4, SMTT(60)
    <3> QED
      BY <1>2, <1>4, <2>1, <2>3, <2>4, <3>1, SMTT(60)
  <2>5. r <= l => r \notin M
    BY <2>1, <2>3, <2>4
  <2>6. ASSUME NEW i \in EndsOf(M, b) PROVE i > r
    <3>1. i \in 1 .. l /\ b[i] = NUL /\ i - 1 \in M /\ i > q
      BY <1>3, <2>2
    <3>2. i # q + 1
      <4> SUFFICES ASSUME i = q + 1 PROVE FALSE
        OBVIOUS
      <4>1. i - 1 = q /\ q + 1 <= l
        BY <3>1
      <4> QED
        BY <2>3, <3>1, <4>1
    <3>3. c = DLE => i # q + 2
      <4> SUFFICES ASSUME c = DLE, i = q + 2 PROVE FALSE
        OBVIOUS
      <4>1. q + 2 <= l
        BY <3>1
      <4> QED
        BY <2>4, <3>1, <4>1, Bytes
    <3>4. r = q + 1 \/ (c = DLE /\ r = q + 2)
      BY <2>1
    <3>5. i \in Nat /\ i > q
      BY <3>1
    <3>6. i > q + 1
      BY <3>2, <3>5
    <3>7. c = DLE => i > q + 2
      BY <3>3, <3>6, <3>5, SMTT(60)
    <3> QED
      BY <3>4, <3>6, <3>7
  <2>7. Clean(k)
    BY <2>5, <2>6 DEF Clean
  <2>8. k \in 0 .. n
    OBVIOUS
  <2> QED
    BY <2>7, <2>8 DEF T
<1>7. \A k \in 0 .. n : k \in T
  <2> HIDE DEF T
  <2> QED
    BY <1>5, <1>6, Upwards
<1>8. Clean(j)
  <2> HIDE DEF Clean
  <2> QED
    BY <1>0, <1>7
<1> QED
  BY <1>8

\* The first frame that parse finds in what starts as the frame of data does is that
\* frame, if all of it is there.
LEMMA ParseFindsFrame ==
    ASSUME NEW data \in Seq(Byte), NEW b, Starts(b, serialize(data))
    PROVE  /\ Len(serialize(data)) \in Nat \ {0}
           /\ FrameLen(b) = IF Len(serialize(data)) <= Len(b) THEN Len(serialize(data)) ELSE 0
<1> PICK s : s = serialize(data)
  OBVIOUS
<1>1. PICK p : Layout(p, data, s)
  BY FrameLayout
<1>2. PICK q \in Nat : q = p[Len(data)] /\ Len(s) = q + 2 /\ s[q + 1] = DLE /\ s[q + 2] = NUL
  BY <1>1, LayoutAt
<1> PICK l \in Nat : l = Len(b)
  BY DEF Starts
<1>3. Len(data) \in 0 .. Len(data) /\ b \in Seq(Byte)
  BY DEF Starts
<1>4. PICK M : Marks(M, b) /\ FrameLen(b) = IF EndsOf(M, b) = {} THEN 0 ELSE Min(EndsOf(M, b))
  BY <1>3, EscapeMarks
<1> PICK F : F = EndsOf(M, b)
  OBVIOUS
<1>5. (q <= l => q \notin M) /\ \A i \in F : i > q
  <2>1. (p[Len(data)] <= Len(b) => p[Len(data)] \notin M) /\ \A i \in EndsOf(M, b) : i > p[Len(data)]
    BY <1>1, <1>3, <1>4, NoEarlyEnd
  <2> QED
    BY <1>2, <2>1
<1>6. \A i \in 1 .. l : i \in M <=> (b[i] = DLE /\ i - 1 \notin M)
  BY <1>4 DEF Marks
<1>7. \A i : i \in F <=> (i \in 1 .. l /\ b[i] = NUL /\ i - 1 \in M)
  BY DEF EndsOf
<1>8. \A i \in 1 .. l : i <= Len(s) => b[i] = s[i]
  BY DEF Starts
<1>9. ASSUME q + 1 <= l PROVE b[q + 1] = DLE /\ q + 1 \in M /\ q \notin M
  <2>1. q + 1 \in 1 .. l /\ q + 1 - 1 = q /\ q + 1 <= Len(s) /\ q <= l
    BY <1>2, <1>9
  <2> QED
    BY <1>2, <1>5, <1>6, <1>8, <2>1
<1>10. ASSUME NEW i \in F PROVE i \in Nat /\ i >= q + 2 /\ q + 2 <= l
  <2>1. i \in 1 .. l /\ b[i] = NUL /\ i - 1 \in M /\ i > q
    BY <1>5, <1>7
  <2>2. i # q + 1
    <3> SUFFICES ASSUME i = q + 1 PROVE FALSE
      OBVIOUS
    <3>1. i - 1 = q /\ q + 1 <= l
      BY <2>1
    <3> QED
      BY <1>9, <2>1, <3>1
  <2> QED
    BY <2>1, <2>2
<1>11. FrameLen(b) = IF q + 2 <= l THEN q + 2 ELSE 0
  <2>1. CASE q + 2 <= l
    <3>1. q + 2 \in 1 .. l /\ q + 2 - 1 = q + 1 /\ q + 1 <= l /\ q + 2 <= Len(s)
      BY <1>2, <2>1
    <3>2. q + 2 \in F
      BY <1>2, <1>7, <1>8, <1>9, <3>1
    <3>3. Min(F) = q + 2
      BY <1>10, <3>2 DEF Min
    <3> QED
      BY <1>4, <2>1, <3>2, <3>3
  <2>2. CASE ~(q + 2 <= l)
    <3>1. F = {}
      BY <1>10, <2>2
    <3> QED
      BY <1>4, <2>2, <3>1
  <2> QED
    BY <2>1, <2>2
<1> QED
  BY <1>2, <1>11

LEMMA DeserializeUndoes ==
    ASSUME NEW data \in Seq(Byte)
    PROVE  deserialize(serialize(data)) = data /\ serialize(data) \in Seq(Byte)
<1> PICK s : s = serialize(data)
  OBVIOUS
<1> PICK n \in Nat : n = Len(data)
  OBVIOUS
<1> PICK r : r = ReadAfter(s)
  OBVIOUS
<1>1. PICK p : Layout(p, data, s)
  BY FrameLayout
<1>2. /\ \A k \in 0 .. n : p[k] \in Nat
      /\ p[0] = 0
      /\ \A k \in 1 .. n :
                /\ p[k - 1] \in Nat
                /\ p[k] = p[k - 1] + (IF data[k] = DLE THEN 2 ELSE 1) /\ p[k] + 2 <= Len(s)
                /\ s[p[k - 1] + 1] = data[k] /\ (data[k] = DLE => s[p[k - 1] + 2] = DLE)
      /\ Len(s) \in Nat /\ s \in Seq(Byte)
  <2>1. /\ \A k \in 0 .. Len(data) : p[k] \in Nat
        /\ p[0] = 0
        /\ \A k \in 1 .. Len(data) :
                /\ p[k - 1] \in Nat
                /\ p[k] = p[k - 1] + (IF data[k] = DLE THEN 2 ELSE 1) /\ p[k] + 2 <= Len(s)
                /\ s[p[k - 1] + 1] = data[k] /\ (data[k] = DLE => s[p[k - 1] + 2] = DLE)
        /\ s \in Seq(Byte) /\ Len(s) \in Nat
    BY <1>1, LayoutAt, SMTT(60)
  <2> QED
    BY <2>1, Zenon
<1>3. PICK m \in Nat : m = p[n] /\ Len(s) = m + 2 /\ s[m + 1] = DLE /\ s[m + 2] = NUL
  BY <1>1, LayoutAt
<1>4. r[0] = Unread /\ \A i \in Nat : i + 1 <= Len(s) => r[i + 1] = ReadByte(r[i], s[i + 1])
  <2>1. r[0] = Unread /\ \A i \in 1 .. Len(s) : r[i] = ReadByte(r[i - 1], s[i])
    BY <1>2, ReadFacts
  <2>2. ASSUME NEW i \in Nat, i + 1 <= Len(s) PROVE r[i + 1] = ReadByte(r[i], s[i + 1])
    <3>1. i + 1 \in 1 .. Len(s) /\ i + 1 - 1 = i
      BY <1>2, <2>2
    <3> QED
      BY <2>1, <3>1
  <2> QED
    BY <2>1, <2>2
<1>5. deserialize(s) = IF r[Len(s)].failed \/ ~r[Len(s)].end THEN AssertionError ELSE r[Len(s)].out
  BY DEF deserialize
<1> DEFINE Reads(o, x) == [out |-> o, escape |-> x, end |-> FALSE, failed |-> FALSE]
<1>a. ASSUME NEW o, NEW c PROVE c # DLE => ReadByte(Reads(o, FALSE), c) = Reads(Append(o, c), FALSE)
  BY Zenon DEF ReadByte
<1>b. ASSUME NEW o PROVE ReadByte(Reads(o, FALSE), DLE) = Reads(o, TRUE)
  BY Bytes DEF ReadByte
<1>c. ASSUME NEW o PROVE ReadByte(Reads(o, TRUE), DLE) = Reads(Append(o, DLE), FALSE)
  BY Bytes, Zenon DEF ReadByte
<1>d. ASSUME NEW o PROVE ReadByte(Reads(o, TRUE), NUL) = [out |-> o, escape |-> TRUE, end |-> TRUE, failed |-> FALSE]
  BY DEF ReadByte
<1>e. Unread = Reads(<<>>, FALSE)
  BY DEF Unread
<1> HIDE DEF Reads
<1> DEFINE Done(j) == r[p[j]] = Reads(SubSeq(data, 1, j), FALSE)
           T == {j \in 0 .. n : Done(j)}
<1>6. 0 \in T
  <2>1. SubSeq(data, 1, 0) = <<>>
    OBVIOUS
  <2>2. Done(0)
    BY <1>2, <1>4, <1>e, <2>1
  <2> HIDE DEF Done
  <2> QED
    BY <2>2
<1>7. ASSUME NEW k \in 1 .. n, k - 1 \in T PROVE k \in T
  <2> PICK q \in Nat : q = p[k - 1]
    BY <1>2
  <2> PICK c : c = data[k]
    OBVIOUS
  <2> PICK o : o = SubSeq(data, 1, k - 1)
    OBVIOUS
  <2>1. /\ p[k] = q + (IF c = DLE THEN 2 ELSE 1) /\ p[k] + 2 <= Len(s)
        /\ s[q + 1] = c /\ (c = DLE => s[q + 2] = DLE)
    BY <1>2
  <2> HIDE DEF T, Done
  <2>2. r[q] = Reads(o, FALSE)
    <3>1. Done(k - 1)
      BY <1>7 DEF T
    <3> QED
      BY <3>1 DEF Done
  <2> PICK z \in Nat : z = Len(s)
    BY <1>2
  <2>0. q + 1 <= z /\ (c = DLE => q + 2 <= z)
    <3>1. p[k] + 2 <= z
      BY <2>1
    <3>2. p[k] = q + 1 \/ p[k] = q + 2
      BY <2>1
    <3>3. c = DLE => p[k] = q + 2
      BY <2>1
    <3> QED
      BY <3>1, <3>2, <3>3
  <2>3. r[q + 1] = ReadByte(Reads(o, FALSE), c)
    <3>1. r[q + 1] = ReadByte(r[q], s[q + 1])
      BY <1>4, <2>0
    <3> QED
      BY <2>1, <2>2, <3>1
  <2>8. k \in 0 .. n
    OBVIOUS
  <2>4. Append(o, c) = SubSeq(data, 1, k)
    OBVIOUS
  <2>5. CASE c # DLE
    <3>1. p[k] = q + 1
      BY <2>1, <2>5
    <3>2. ReadByte(Reads(o, FALSE), c) = Reads(Append(o, c), FALSE)
      BY <1>a, <2>5, Zenon
    <3>3. r[p[k]] = Reads(SubSeq(data, 1, k), FALSE)
      BY <2>3, <2>4, <3>1, <3>2, Zenon
    <3> QED
      BY <2>8, <3>3, Zenon DEF T, Done
  <2>6. CASE c = DLE
    <3>1. p[k] = q + 2 /\ s[q + 2] = DLE
      BY <2>1, <2>6
    <3>2. r[q + 1] = Reads(o, TRUE)
      BY <1>b, <2>3, <2>6
    <3>3. q + 1 \in Nat /\ q + 1 + 1 = q + 2 /\ q + 1 + 1 <= Len(s)
      BY <2>0, <2>6
    <3>6. r[q + 2] = ReadByte(r[q + 1], s[q + 2])
      BY <1>4, <3>3
    <3>4. r[q + 2] = ReadByte(Reads(o, TRUE), DLE)
      BY <3>1, <3>2, <3>6, Zenon
    <3>5. r[p[k]] = Reads(SubSeq(data, 1, k), FALSE)
      BY <1>c, <2>4, <2>6, <3>1, <3>4
    <3> QED
      BY <2>8, <3>5, Zenon DEF T, Done
  <2> QED
    BY <2>5, <2>6
<1>8. r[m] = Reads(SubSeq(data, 1, n), FALSE)
  <2>1. \A j \in 0 .. n : j \in T
    <3> HIDE DEF T
    <3> QED
      BY <1>6, <1>7, Upwards
  <2>2. Done(n)
    <3> HIDE DEF Done
    <3> QED
      BY <2>1
  <2> QED
    BY <1>3, <2>2
<1>9. SubSeq(data, 1, n) = data
  BY SubSeqFull
<1>10. r[m + 1] = Reads(data, TRUE)
  <2>1. m + 1 <= Len(s)
    BY <1>3
  <2>3. r[m + 1] = ReadByte(r[m], s[m + 1])
    BY <1>4, <2>1
  <2>2. r[m + 1] = ReadByte(Reads(data, FALSE), DLE)
    BY <1>3, <1>8, <1>9, <2>3, Zenon
  <2> QED
    BY <1>b, <2>2
<1>11. r[m + 2] = [out |-> data, escape |-> TRUE, end |-> TRUE, failed |-> FALSE]
  <2>1. m + 1 \in Nat /\ m + 1 + 1 = m + 2 /\ m + 1 + 1 <= Len(s)
    BY <1>3
  <2>3. r[m + 2] = ReadByte(r[m + 1], s[m + 2])
    BY <1>4, <2>1
  <2>2. r[m + 2] = ReadByte(Reads(data, TRUE), NUL)
    BY <1>3, <1>10, <2>3, Zenon
  <2> QED
    BY <1>d, <2>2
<1>12. deserialize(s) = data
  BY <1>3, <1>5, <1>11
<1> QED
  BY <1>2, <1>12

LEMMA Reassociated ==
    ASSUME NEW s \in Seq(Byte), NEW t \in Seq(Byte), NEW u \in Seq(Byte)
    PROVE  (s \o t) \o u = s \o (t \o u)
<1> HIDE DEF Byte
<1> QED
  BY ConcatAssociative

\* Equal in length and at every position.
LEMMA SameBytes ==
    ASSUME NEW s \in Seq(Byte), NEW t \in Seq(Byte), Len(s) = Len(t), \A i \in 1 .. Len(s) : s[i] = t[i]
    PROVE  s = t
<1>1. s \in [1 .. Len(s) -> Byte] /\ t \in [1 .. Len(s) -> Byte]
  OBVIOUS
<1> HIDE DEF Byte
<1> QED
  BY <1>1

LEMMA CutBehind ==
    ASSUME NEW b \in Seq(Byte), NEW n \in 0 .. Len(b)
    PROVE  /\ SubSeq(b, 1, n) \in Seq(Byte) /\ SubSeq(b, n + 1, Len(b)) \in Seq(Byte)
           /\ Len(SubSeq(b, 1, n)) = n
           /\ SubSeq(b, 1, n) \o SubSeq(b, n + 1, Len(b)) = b
<1>1. Len(b) \in Nat /\ n \in Nat /\ n <= Len(b)
  OBVIOUS
<1>2. \A i \in 1 .. n : b[i] \in Byte
  OBVIOUS
<1>3. \A i \in n + 1 .. Len(b) : b[i] \in Byte
  OBVIOUS
<1>4. SubSeq(b, 1, n) \in Seq(Byte) /\ Len(SubSeq(b, 1, n)) = n
  <2>1. /\ SubSeq(b, 1, n) \in Seq(Byte)
        /\ Len(SubSeq(b, 1, n)) = IF 1 <= n THEN n - 1 + 1 ELSE 0
    <3>1. 1 \in Int /\ n \in Int
      BY <1>1
    <3> QED
      BY <1>2, <3>1, SubSeqProperties
  <2> QED
    BY <1>1, <2>1
<1>5. SubSeq(b, n + 1, Len(b)) \in Seq(Byte)
  <2>1. n + 1 \in Int /\ Len(b) \in Int
    BY <1>1
  <2> QED
    BY <1>3, <2>1, SubSeqProperties
<1>6. SubSeq(b, 1, n) \o SubSeq(b, n + 1, Len(b)) = b
  <2>1. 1 \in 1 .. Len(b) + 1 /\ n \in 1 - 1 .. Len(b) /\ Len(b) \in n .. Len(b)
    BY <1>1
  <2>2. SubSeq(b, 1, n) \o SubSeq(b, n + 1, Len(b)) = SubSeq(b, 1, Len(b))
    BY <2>1, ConcatAdjacentSubSeq
  <2> QED
    BY <2>2, SubSeqFull
<1> QED
  BY <1>4, <1>5, <1>6

\* What is read off the wire goes from its front to the end of the buffer.
LEMMA ReadMoves ==
    ASSUME NEW b \in Seq(Byte), NEW w \in Seq(Byte), NEW n \in 1 .. Len(w)
    PROVE  /\ ReadInto(b, SubSeq(w, 1, n)) \in Seq(Byte) /\ SubSeq(w, n + 1, Len(w)) \in Seq(Byte)
           /\ ReadInto(b, SubSeq(w, 1, n)) \o SubSeq(w, n + 1, Len(w)) = b \o w
<1> PICK x : x = SubSeq(w, 1, n)
  OBVIOUS
<1> PICK y : y = SubSeq(w, n + 1, Len(w))
  OBVIOUS
<1>1. x \in Seq(Byte) /\ y \in Seq(Byte) /\ x \o y = w
  <2>1. n \in 0 .. Len(w)
    OBVIOUS
  <2> QED
    BY <2>1, CutBehind
<1>2. (b \o x) \o y = b \o (x \o y)
  BY <1>1, Reassociated
<1>3. b \o x \in Seq(Byte)
  BY <1>1, Joined
<1> QED
  BY <1>1, <1>2, <1>3 DEF ReadInto

\* What is cut off the front of a buffer, and all that is behind it.
LEMMA CutOff ==
    ASSUME NEW b \in Seq(Byte), NEW w \in Seq(Byte), NEW n \in 0 .. Len(b)
    PROVE  SubSeq(b, 1, n) \o (SubSeq(b, n + 1, Len(b)) \o w) = b \o w
<1> PICK x : x = SubSeq(b, 1, n)
  OBVIOUS
<1> PICK y : y = SubSeq(b, n + 1, Len(b))
  OBVIOUS
<1>1. x \in Seq(Byte) /\ y \in Seq(Byte) /\ x \o y = b
  BY CutBehind
<1>2. (x \o y) \o w = x \o (y \o w)
  BY <1>1, Reassociated, ZenonT(60)
<1> QED
  BY <1>1, <1>2

LEMMA CancelLeft ==
    ASSUME NEW s \in Seq(Byte), NEW t \in Seq(Byte), NEW v \in Seq(Byte), s \o t = s \o v
    PROVE  t = v
<1>1. /\ Len(s) \in Nat /\ Len(t) \in Nat /\ Len(s \o t) = Len(s) + Len(t)
      /\ \A k \in 1 .. Len(t) : (s \o t)[Len(s) + k] = t[k]
  BY Joined
<1>2. /\ Len(v) \in Nat /\ Len(s \o v) = Len(s) + Len(v)
      /\ \A k \in 1 .. Len(v) : (s \o v)[Len(s) + k] = v[k]
  BY Joined
<1>3. Len(t) = Len(v)
  BY <1>1, <1>2
<1>4. \A k \in 1 .. Len(t) : t[k] = v[k]
  BY <1>1, <1>2, <1>3
<1> QED
  BY <1>3, <1>4, SameBytes

\* A buffer and a wire that carry a frame and then a rest: the buffer starts as the
\* frame does, and if the frame is all there, behind it the rest starts.
LEMMA FrameInFront ==
    ASSUME NEW b \in Seq(Byte), NEW w \in Seq(Byte), NEW f \in Seq(Byte), NEW rest \in Seq(Byte),
           b \o w = f \o rest
    PROVE  /\ Starts(b, f)
           /\ Len(f) <= Len(b) => /\ SubSeq(b, 1, Len(f)) = f
                                  /\ SubSeq(b, Len(f) + 1, Len(b)) \in Seq(Byte)
                                  /\ SubSeq(b, Len(f) + 1, Len(b)) \o w = rest
<1> PICK s : s = b \o w
  OBVIOUS
<1>1. /\ Len(b) \in Nat /\ Len(f) \in Nat
      /\ \A i \in 1 .. Len(b) : s[i] = b[i]
      /\ \A i \in 1 .. Len(f) : s[i] = f[i]
  BY Joined
<1>2. Starts(b, f)
  <2>1. ASSUME NEW i \in 1 .. Len(b), i <= Len(f) PROVE b[i] = f[i]
    <3>1. i \in 1 .. Len(f)
      BY <1>1, <2>1
    <3> QED
      BY <1>1, <3>1
  <2> QED
    BY <2>1 DEF Starts
<1>3. ASSUME Len(f) <= Len(b)
      PROVE  /\ SubSeq(b, 1, Len(f)) = f
             /\ SubSeq(b, Len(f) + 1, Len(b)) \in Seq(Byte)
             /\ SubSeq(b, Len(f) + 1, Len(b)) \o w = rest
  <2> PICK x : x = SubSeq(b, 1, Len(f))
    OBVIOUS
  <2> PICK y : y = SubSeq(b, Len(f) + 1, Len(b))
    OBVIOUS
  <2>1. x \in Seq(Byte) /\ y \in Seq(Byte) /\ Len(x) = Len(f) /\ x \o y = b
    <3>1. Len(f) \in 0 .. Len(b)
      BY <1>1, <1>3
    <3> QED
      BY <3>1, CutBehind
  <2>8. y \o w \in Seq(Byte)
    BY <2>1, Joined
  <2>3. s = x \o (y \o w)
    <3>1. Len(f) \in 0 .. Len(b)
      BY <1>1, <1>3
    <3> QED
      BY <3>1, CutOff
  <2>4. ASSUME NEW i \in 1 .. Len(f) PROVE x[i] = f[i]
    <3> PICK z \in Seq(Byte) : z = y \o w
      BY <2>8
    <3>2. \A k \in 1 .. Len(x) : (x \o z)[k] = x[k]
      BY <2>1, Joined, ZenonT(60)
    <3>1. (x \o (y \o w))[i] = x[i]
      BY <2>1, <3>2
    <3> QED
      BY <1>1, <2>3, <3>1
  <2>5. x = f
    <3>1. Len(x) = Len(f) /\ \A i \in 1 .. Len(x) : x[i] = f[i]
      BY <2>1, <2>4
    <3> QED
      BY <2>1, <3>1, SameBytes
  <2>6. f \o (y \o w) = f \o rest
    BY <2>3, <2>5
  <2>7. y \o w = rest
    BY <2>6, <2>8, CancelLeft
  <2> QED
    BY <2>1, <2>5, <2>7
<1> QED
  BY <1>2, <1>3

-----------------------------------------------------------------------------
\* g[i] is what is left of st, the frames of t[k + 1] .. t[n], behind the one of t[i].
Behind(g, st, t, k, n) ==
    /\ g \in [k .. n -> Seq(Byte)] /\ g[k] = st /\ g[n] = <<>>
    /\ \A i \in k + 1 .. n : g[i - 1] = serialize(t[i]) \o g[i]

Stream(st, t, k, n) == \E g : Behind(g, st, t, k, n)

LEMMA EmptyStream ==
    ASSUME NEW t, NEW k \in Nat
    PROVE  Stream(<<>>, t, k, k)
<1> PICK g : g = [i \in k .. k |-> <<>>]
  OBVIOUS
<1>2. g \in [k .. k -> Seq(Byte)] /\ g[k] = <<>>
  OBVIOUS
<1>3. \A i \in k + 1 .. k : g[i - 1] = serialize(t[i]) \o g[i]
  <2>1. k + 1 .. k = {}
    OBVIOUS
  <2> QED
    BY <2>1
<1>1. Behind(g, <<>>, t, k, k)
  BY <1>2, <1>3 DEF Behind
<1> QED
  BY <1>1 DEF Stream

LEMMA EndOfStream ==
    ASSUME NEW st, NEW t, NEW k \in Nat, Stream(st, t, k, k)
    PROVE  st = <<>>
BY DEF Stream, Behind

LEMMA FirstOfStream ==
    ASSUME NEW st, NEW t, NEW k \in Nat, NEW n \in Nat, k < n, Stream(st, t, k, n)
    PROVE  \E rest \in Seq(Byte) : st = serialize(t[k + 1]) \o rest /\ Stream(rest, t, k + 1, n)
<1>1. PICK g : Behind(g, st, t, k, n)
  BY DEF Stream
<1>2. /\ g \in [k .. n -> Seq(Byte)] /\ g[k] = st /\ g[n] = <<>>
      /\ \A i \in k + 1 .. n : g[i - 1] = serialize(t[i]) \o g[i]
  BY <1>1 DEF Behind
<1>3. k + 1 \in k .. n /\ k + 1 \in k + 1 .. n /\ k + 1 - 1 = k /\ n \in k + 1 .. n
  OBVIOUS
<1> PICK rest : rest = g[k + 1]
  OBVIOUS
<1>4. rest \in Seq(Byte)
  BY <1>2, <1>3
<1>5. st = serialize(t[k + 1]) \o rest
  <2> PICK j : j = k + 1
    OBVIOUS
  <2>1. j \in k + 1 .. n /\ j - 1 = k
    BY <1>3
  <2>2. g[j - 1] = serialize(t[j]) \o g[j]
    BY <1>2, <2>1, Zenon
  <2> QED
    BY <1>2, <2>1, <2>2, Zenon
<1> PICK h : h = [i \in k + 1 .. n |-> g[i]]
  OBVIOUS
<1>6. \A i \in k + 1 .. n : h[i] = g[i] /\ g[i] \in Seq(Byte)
  BY <1>2
<1>7. ASSUME NEW i \in k + 1 + 1 .. n PROVE h[i - 1] = serialize(t[i]) \o h[i]
  <2>1. i \in k + 1 .. n /\ i - 1 \in k + 1 .. n
    OBVIOUS
  <2> QED
    BY <1>2, <1>6, <2>1
<1>8. Behind(h, rest, t, k + 1, n)
  <2>1. h \in [k + 1 .. n -> Seq(Byte)]
    BY <1>6
  <2>2. h[k + 1] = rest /\ h[n] = <<>>
    BY <1>2, <1>3, <1>6
  <2> QED
    BY <1>7, <2>1, <2>2 DEF Behind
<1> QED
  BY <1>4, <1>5, <1>8 DEF Stream

\* A frame that goes in behind.
LEMMA LastOfStream ==
    ASSUME NEW st, NEW t, NEW k \in Nat, NEW n \in Nat, k <= n, Stream(st, t, k, n),
           NEW u, \A i \in k + 1 .. n : u[i] = t[i] /\ serialize(t[i]) \in Seq(Byte),
           serialize(u[n + 1]) \in Seq(Byte)
    PROVE  Stream(st \o serialize(u[n + 1]), u, k, n + 1)
<1>1. PICK g : Behind(g, st, t, k, n)
  BY DEF Stream
<1>2. /\ g \in [k .. n -> Seq(Byte)] /\ g[k] = st /\ g[n] = <<>>
      /\ \A i \in k + 1 .. n : g[i - 1] = serialize(t[i]) \o g[i]
  BY <1>1 DEF Behind
<1> PICK w \in Seq(Byte) : w = serialize(u[n + 1])
  OBVIOUS
<1>0. <<>> \in Seq(Byte) /\ <<>> \o w = w /\ w \o <<>> = w
  BY ConcatEmptySeq
<1> PICK h : h = [i \in k .. n + 1 |-> IF i = n + 1 THEN <<>> ELSE g[i] \o w]
  OBVIOUS
<1>3. h[n + 1] = <<>> /\ \A i \in k .. n : h[i] = g[i] \o w /\ g[i] \in Seq(Byte) /\ h[i] \in Seq(Byte)
  <2>1. n + 1 \in k .. n + 1 /\ \A i \in k .. n : i \in k .. n + 1 /\ i # n + 1
    OBVIOUS
  <2>2. \A i \in k .. n : g[i] \in Seq(Byte) /\ g[i] \o w \in Seq(Byte)
    BY <1>2, Joined
  <2> QED
    BY <2>1, <2>2
<1>4. h \in [k .. n + 1 -> Seq(Byte)]
  <2>1. \A i \in k .. n + 1 : h[i] \in Seq(Byte)
    <3> TAKE i \in k .. n + 1
    <3>1. i = n + 1 \/ i \in k .. n
      OBVIOUS
    <3> QED
      BY <1>0, <1>3, <3>1
  <2> QED
    BY <2>1
<1>5. h[k] = st \o w
  <2>1. k \in k .. n
    OBVIOUS
  <2> QED
    BY <1>2, <1>3, <2>1
<1>6. ASSUME NEW i \in k + 1 .. n + 1 PROVE h[i - 1] = serialize(u[i]) \o h[i]
  <2>1. CASE i = n + 1
    <3>1. i - 1 = n /\ n \in k .. n
      BY <2>1
    <3>2. h[i - 1] = <<>> \o w
      BY <1>2, <1>3, <3>1
    <3> QED
      BY <1>0, <1>3, <2>1, <3>2
  <2>2. CASE i # n + 1
    <3>1. i \in k + 1 .. n /\ i - 1 \in k .. n /\ i \in k .. n
      BY <2>2
    <3> PICK x \in Seq(Byte) : x = serialize(t[i])
      BY <3>1
    <3>2. g[i - 1] = x \o g[i] /\ serialize(u[i]) = x
      BY <1>2, <3>1
    <3>3. h[i - 1] = (x \o g[i]) \o w /\ h[i] = g[i] \o w /\ g[i] \in Seq(Byte)
      BY <1>3, <3>1, <3>2
    <3>4. (x \o g[i]) \o w = x \o (g[i] \o w)
      BY <3>3, Reassociated
    <3> QED
      BY <3>2, <3>3, <3>4
  <2> QED
    BY <2>1, <2>2
<1>7. Behind(h, st \o w, u, k, n + 1)
  BY <1>3, <1>4, <1>5, <1>6 DEF Behind
<1> QED
  BY <1>7 DEF Stream

LEMMA PayloadFramed ==
    ASSUME NEW t \in Seq(Payloads), NEW i \in 1 .. Len(t)
    PROVE  t[i] \in Seq(Byte) /\ serialize(t[i]) \in Seq(Byte) /\ deserialize(serialize(t[i])) = t[i]
<1>1. t[i] \in Seq(Byte)
  <2>1. t[i] \in Payloads
    OBVIOUS
  <2> QED
    BY <2>1, FramingAssumption
<1> QED
  BY <1>1, DeserializeUndoes

LEMMA NothingFound == FrameLen(<<>>) = 0
<1>0. <<>> \in Seq(Byte)
  OBVIOUS
<1> PICK b \in Seq(Byte) : b = <<>>
  BY <1>0, Zenon
<1>1. PICK M : FrameLen(b) = IF EndsOf(M, b) = {} THEN 0 ELSE Min(EndsOf(M, b))
  BY EscapeMarks
<1>2. EndsOf(M, b) = {}
  <2>1. 1 .. Len(b) = {}
    OBVIOUS
  <2> QED
    BY <2>1 DEF EndsOf
<1> QED
  BY <1>1, <1>2

\* What parse finds in a buffer, if the frames of t[k + 1] .. t[n] are still to come.
LEMMA NextFrame ==
    ASSUME NEW b \in Seq(Byte), NEW w \in Seq(Byte), NEW t \in Seq(Payloads), NEW n \in 0 .. Len(t), NEW k \in 0 .. n,
           Stream(b \o w, t, k, n)
    PROVE  /\ k = n => b = <<>> /\ w = <<>>
           /\ k < n /\ w = <<>> => FrameLen(b) # 0
           /\ FrameLen(b) # 0 =>
                /\ k < n
                /\ SubSeq(b, 1, FrameLen(b)) = serialize(t[k + 1])
                /\ SubSeq(b, FrameLen(b) + 1, Len(b)) \in Seq(Byte)
                /\ Stream(SubSeq(b, FrameLen(b) + 1, Len(b)) \o w, t, k + 1, n)
<1>0. k \in Nat /\ n \in Nat /\ n <= Len(t) /\ k <= n
  OBVIOUS
<1>1. CASE k = n
  <2>1. b \o w = <<>>
    BY <1>0, <1>1, EndOfStream
  <2>2. /\ b = <<>> /\ w = <<>>
    BY <2>1, ConcatEqualIffEmpty
  <2>3. FrameLen(b) = 0
    BY <2>2, NothingFound
  <2> QED
    BY <1>0, <1>1, <2>2, <2>3
<1>2. CASE k # n
  <2>0. k < n /\ k + 1 \in 1 .. Len(t)
    BY <1>0, <1>2
  <2>1. PICK rest \in Seq(Byte) : b \o w = serialize(t[k + 1]) \o rest /\ Stream(rest, t, k + 1, n)
    BY <1>0, <2>0, FirstOfStream
  <2>2. PICK d \in Seq(Byte) : d = t[k + 1]
    BY <2>0, PayloadFramed
  <2>3. PICK f \in Seq(Byte) : f = serialize(d)
    BY <2>0, <2>2, PayloadFramed
  <2>4. b \o w = f \o rest
    BY <2>1, <2>2, <2>3
  <2>5. /\ Starts(b, f)
        /\ Len(f) <= Len(b) => /\ SubSeq(b, 1, Len(f)) = f
                               /\ SubSeq(b, Len(f) + 1, Len(b)) \in Seq(Byte)
                               /\ SubSeq(b, Len(f) + 1, Len(b)) \o w = rest
    BY <2>4, FrameInFront
  <2>6. Starts(b, serialize(d))
    BY <2>3, <2>5
  <2>7. Len(f) \in Nat \ {0} /\ FrameLen(b) = IF Len(f) <= Len(b) THEN Len(f) ELSE 0
    BY <2>3, <2>6, ParseFindsFrame
  <2>8. w = <<>> => Len(f) <= Len(b)
    <3>1. Len(b \o w) = Len(b) + Len(w) /\ Len(f \o rest) = Len(f) + Len(rest)
      BY Joined
    <3>2. Len(b) \in Nat /\ Len(rest) \in Nat
      OBVIOUS
    <3>3. w = <<>> => Len(w) = 0
      OBVIOUS
    <3> QED
      BY <2>4, <2>7, <3>1, <3>2, <3>3
  <2>9. FrameLen(b) # 0 => Len(f) <= Len(b) /\ FrameLen(b) = Len(f)
    BY <2>7
  <2>10. w = <<>> => FrameLen(b) # 0
    BY <2>7, <2>8
  <2> HIDE DEF Stream
  <2> QED
    BY <1>2, <2>0, <2>1, <2>2, <2>3, <2>5, <2>9, <2>10, Zenon
<1> QED
  BY <1>1, <1>2

\* A frame that is written to the wire comes after all of the buffer and the wire.
LEMMA FrameWritten ==
    ASSUME NEW b \in Seq(Byte), NEW w \in Seq(Byte), NEW t \in Seq(Payloads), NEW n \in 0 .. Len(t), NEW k \in 0 .. n,
           Stream(b \o w, t, k, n),
           NEW u \in Seq(Payloads), n + 1 <= Len(u), \A i \in 1 .. n : u[i] = t[i]
    PROVE  /\ w \o serialize(u[n + 1]) \in Seq(Byte)
           /\ Stream(b \o (w \o serialize(u[n + 1])), u, k, n + 1)
<1>0. k \in Nat /\ n \in Nat /\ n <= Len(t) /\ k <= n /\ n + 1 \in 1 .. Len(u)
  OBVIOUS
<1>1. PICK f \in Seq(Byte) : f = serialize(u[n + 1])
  BY <1>0, PayloadFramed
<1>2. (b \o w) \o f = b \o (w \o f)
  BY <1>1, Reassociated
<1>3. w \o f \in Seq(Byte)
  BY <1>1, Joined
<1>4. \A i \in k + 1 .. n : u[i] = t[i] /\ serialize(t[i]) \in Seq(Byte)
  <2> TAKE i \in k + 1 .. n
  <2>1. i \in 1 .. n /\ i \in 1 .. Len(t)
    BY <1>0
  <2> QED
    BY <2>1, PayloadFramed
<1>5. serialize(u[n + 1]) \in Seq(Byte)
  BY <1>1
<1>6. Stream((b \o w) \o serialize(u[n + 1]), u, k, n + 1)
  BY <1>0, <1>4, <1>5, LastOfStream
<1> QED
  BY <1>1, <1>2, <1>3, <1>6

-----------------------------------------------------------------------------
\* The first k packets have left the server, the first m of them have been yielded.
Underway(t, b1, w1, b2, w2, y) ==
    \E k \in 0 .. Len(t) : \E m \in 0 .. k :
        /\ Stream(b1 \o w1, t, k, Len(t))
        /\ Stream(b2 \o w2, t, m, k)
        /\ y = SubSeq(t, 1, m)

FramingInv ==
    /\ sent \in Seq(Payloads)
    /\ buf1 \in Seq(Byte) /\ wire1 \in Seq(Byte) /\ buf2 \in Seq(Byte) /\ wire2 \in Seq(Byte)
    /\ Underway(sent, buf1, wire1, buf2, wire2, yielded)

LEMMA FramingStarts == FramingInit => FramingInv
<1> SUFFICES ASSUME FramingInit PROVE FramingInv
  OBVIOUS
<1>1. sent = <<>> /\ wire1 = <<>> /\ buf1 = <<>> /\ wire2 = <<>> /\ buf2 = <<>> /\ yielded = <<>>
  BY DEF FramingInit
<1>2. /\ sent \in Seq(Payloads)
      /\ buf1 \in Seq(Byte) /\ wire1 \in Seq(Byte) /\ buf2 \in Seq(Byte) /\ wire2 \in Seq(Byte)
  BY <1>1
<1>3. Len(sent) = 0 /\ 0 \in 0 .. Len(sent) /\ 0 \in 0 .. 0
  BY <1>1
<1>4. buf1 \o wire1 = <<>> /\ buf2 \o wire2 = <<>>
  BY <1>1, <1>2, ConcatEmptySeq
<1>5. Stream(<<>>, sent, 0, 0)
  BY EmptyStream
<1>6. yielded = SubSeq(sent, 1, 0)
  BY <1>1
<1>7. Underway(sent, buf1, wire1, buf2, wire2, yielded)
  BY <1>3, <1>4, <1>5, <1>6 DEF Underway
<1> QED
  BY <1>2, <1>7 DEF FramingInv

LEMMA PutKeeps ==
    ASSUME FramingInv, NEW data \in Payloads, ClientPut(data)
    PROVE  FramingInv'
<1>1. PICK k \in 0 .. Len(sent) : \E m \in 0 .. k :
        /\ Stream(buf1 \o wire1, sent, k, Len(sent))
        /\ Stream(buf2 \o wire2, sent, m, k)
        /\ yielded = SubSeq(sent, 1, m)
  BY DEF FramingInv, Underway
<1>2. PICK m \in 0 .. k :
        /\ Stream(buf1 \o wire1, sent, k, Len(sent))
        /\ Stream(buf2 \o wire2, sent, m, k)
        /\ yielded = SubSeq(sent, 1, m)
  BY <1>1
<1>3. /\ sent \in Seq(Payloads)
      /\ buf1 \in Seq(Byte) /\ wire1 \in Seq(Byte) /\ buf2 \in Seq(Byte) /\ wire2 \in Seq(Byte)
  BY DEF FramingInv
<1>4. PICK n \in Nat : n = Len(sent)
  BY <1>3
<1>5. sent' = Append(sent, data) /\ wire1' = wire1 \o serialize(data) /\ buf1' = buf1 /\ buf2' = buf2 /\ wire2' = wire2
      /\ yielded' = yielded
  BY DEF ClientPut
<1>6. sent' \in Seq(Payloads) /\ Len(sent') = n + 1 /\ sent'[n + 1] = data /\ \A i \in 1 .. n : sent'[i] = sent[i]
  BY <1>3, <1>4, <1>5
<1>7. wire1' \in Seq(Byte) /\ Stream(buf1 \o wire1', sent', k, n + 1)
  <2>1. n \in 0 .. Len(sent) /\ k \in 0 .. n /\ n + 1 <= Len(sent')
    BY <1>4, <1>6
  <2>2. Stream(buf1 \o wire1, sent, k, n)
    BY <1>2, <1>4
  <2>3. /\ wire1 \o serialize(sent'[n + 1]) \in Seq(Byte)
        /\ Stream(buf1 \o (wire1 \o serialize(sent'[n + 1])), sent', k, n + 1)
    BY <1>3, <1>6, <2>1, <2>2, FrameWritten
  <2> QED
    BY <1>5, <1>6, <2>3
<1>8. Stream(buf2 \o wire2, sent', m, k)
  <2>1. PICK g : Behind(g, buf2 \o wire2, sent, m, k)
    BY <1>2 DEF Stream
  <2>2. \A i \in m + 1 .. k : sent'[i] = sent[i]
    BY <1>4, <1>6
  <2>3. Behind(g, buf2 \o wire2, sent', m, k)
    BY <2>1, <2>2 DEF Behind
  <2> QED
    BY <2>3 DEF Stream
<1>9. SubSeq(sent', 1, m) = SubSeq(sent, 1, m)
  <2>1. m \in 0 .. Len(sent)
    OBVIOUS
  <2> QED
    BY <1>3, <1>5, <2>1
<1>10. k \in 0 .. Len(sent')
  BY <1>4, <1>6
<1>11. Underway(sent', buf1', wire1', buf2', wire2', yielded')
  BY <1>2, <1>5, <1>6, <1>7, <1>8, <1>9, <1>10 DEF Underway
<1> QED
  BY <1>3, <1>5, <1>6, <1>7, <1>11 DEF FramingInv

LEMMA ServerRecvKeeps ==
    ASSUME FramingInv, NEW n \in 1 .. Len(wire1), ServerRecv(n)
    PROVE  FramingInv'
<1>1. /\ sent \in Seq(Payloads)
      /\ buf1 \in Seq(Byte) /\ wire1 \in Seq(Byte) /\ buf2 \in Seq(Byte) /\ wire2 \in Seq(Byte)
  BY DEF FramingInv
<1>2. /\ buf1' = ReadInto(buf1, SubSeq(wire1, 1, n)) /\ wire1' = SubSeq(wire1, n + 1, Len(wire1))
      /\ sent' = sent /\ wire2' = wire2 /\ buf2' = buf2 /\ yielded' = yielded
  BY DEF ServerRecv
<1>3. buf1' \in Seq(Byte) /\ wire1' \in Seq(Byte) /\ buf1' \o wire1' = buf1 \o wire1
  BY <1>1, <1>2, ReadMoves
<1>4. Underway(sent, buf1, wire1, buf2, wire2, yielded)
  BY DEF FramingInv
<1>5. Underway(sent', buf1', wire1', buf2', wire2', yielded')
  BY <1>2, <1>3, <1>4 DEF Underway
<1> QED
  BY <1>1, <1>2, <1>3, <1>5 DEF FramingInv

LEMMA ClientRecvKeeps ==
    ASSUME FramingInv, NEW n \in 1 .. Len(wire2), ClientRecv(n)
    PROVE  FramingInv'
<1>1. /\ sent \in Seq(Payloads)
      /\ buf1 \in Seq(Byte) /\ wire1 \in Seq(Byte) /\ buf2 \in Seq(Byte) /\ wire2 \in Seq(Byte)
  BY DEF FramingInv
<1>2. /\ buf2' = ReadInto(buf2, SubSeq(wire2, 1, n)) /\ wire2' = SubSeq(wire2, n + 1, Len(wire2))
      /\ sent' = sent /\ wire1' = wire1 /\ buf1' = buf1 /\ yielded' = yielded
  BY DEF ClientRecv
<1>3. buf2' \in Seq(Byte) /\ wire2' \in Seq(Byte) /\ buf2' \o wire2' = buf2 \o wire2
  BY <1>1, <1>2, ReadMoves
<1>4. Underway(sent, buf1, wire1, buf2, wire2, yielded)
  BY DEF FramingInv
<1>5. Underway(sent', buf1', wire1', buf2', wire2', yielded')
  BY <1>2, <1>3, <1>4 DEF Underway
<1> QED
  BY <1>1, <1>2, <1>3, <1>5 DEF FramingInv

LEMMA ForwardKeeps ==
    ASSUME FramingInv, ServerForward
    PROVE  FramingInv'
<1>1. PICK k \in 0 .. Len(sent) : \E m \in 0 .. k :
        /\ Stream(buf1 \o wire1, sent, k, Len(sent))
        /\ Stream(buf2 \o wire2, sent, m, k)
        /\ yielded = SubSeq(sent, 1, m)
  BY DEF FramingInv, Underway
<1>2. PICK m \in 0 .. k :
        /\ Stream(buf1 \o wire1, sent, k, Len(sent))
        /\ Stream(buf2 \o wire2, sent, m, k)
        /\ yielded = SubSeq(sent, 1, m)
  BY <1>1
<1>3. /\ sent \in Seq(Payloads)
      /\ buf1 \in Seq(Byte) /\ wire1 \in Seq(Byte) /\ buf2 \in Seq(Byte) /\ wire2 \in Seq(Byte)
  BY DEF FramingInv
<1>4. PICK l : l = FrameLen(buf1)
  OBVIOUS
<1>5. /\ l # 0 /\ wire2' = wire2 \o SubSeq(buf1, 1, l) /\ buf1' = SubSeq(buf1, l + 1, Len(buf1))
      /\ sent' = sent /\ wire1' = wire1 /\ buf2' = buf2 /\ yielded' = yielded
  BY <1>4 DEF ServerForward
<1>6. PICK n \in Nat : n = Len(sent)
  BY <1>3
<1>7. /\ k < n
      /\ SubSeq(buf1, 1, l) = serialize(sent[k + 1])
      /\ buf1' \in Seq(Byte)
      /\ Stream(buf1' \o wire1, sent, k + 1, n)
  <2>1. n \in 0 .. Len(sent) /\ k \in 0 .. n
    BY <1>6
  <2>2. Stream(buf1 \o wire1, sent, k, n)
    BY <1>2, <1>6
  <2>3. FrameLen(buf1) # 0 =>
                /\ k < n
                /\ SubSeq(buf1, 1, FrameLen(buf1)) = serialize(sent[k + 1])
                /\ SubSeq(buf1, FrameLen(buf1) + 1, Len(buf1)) \in Seq(Byte)
                /\ Stream(SubSeq(buf1, FrameLen(buf1) + 1, Len(buf1)) \o wire1, sent, k + 1, n)
    BY <1>3, <2>1, <2>2, NextFrame
  <2> QED
    BY <1>4, <1>5, <2>3
<1>8. wire2' \in Seq(Byte) /\ Stream(buf2 \o wire2', sent, m, k + 1)
  <2>1. k \in 0 .. Len(sent) /\ k + 1 <= Len(sent) /\ \A i \in 1 .. k : sent[i] = sent[i]
    BY <1>6, <1>7
  <2>2. Stream(buf2 \o wire2, sent, m, k)
    BY <1>2
  <2>3. /\ wire2 \o serialize(sent[k + 1]) \in Seq(Byte)
        /\ Stream(buf2 \o (wire2 \o serialize(sent[k + 1])), sent, m, k + 1)
    BY <1>3, <2>1, <2>2, FrameWritten
  <2> QED
    BY <1>5, <1>7, <2>3
<1>9. k + 1 \in 0 .. Len(sent) /\ m \in 0 .. k + 1
  BY <1>6, <1>7
<1>10. Underway(sent', buf1', wire1', buf2', wire2', yielded')
  BY <1>2, <1>5, <1>6, <1>7, <1>8, <1>9 DEF Underway
<1> QED
  BY <1>3, <1>5, <1>7, <1>8, <1>10 DEF FramingInv

LEMMA YieldKeeps ==
    ASSUME FramingInv, ClientYield
    PROVE  FramingInv'
<1>1. PICK k \in 0 .. Len(sent) : \E m \in 0 .. k :
        /\ Stream(buf1 \o wire1, sent, k, Len(sent))
        /\ Stream(buf2 \o wire2, sent, m, k)
        /\ yielded = SubSeq(sent, 1, m)
  BY DEF FramingInv, Underway
<1>2. PICK m \in 0 .. k :
        /\ Stream(buf1 \o wire1, sent, k, Len(sent))
        /\ Stream(buf2 \o wire2, sent, m, k)
        /\ yielded = SubSeq(sent, 1, m)
  BY <1>1
<1>3. /\ sent \in Seq(Payloads)
      /\ buf1 \in Seq(Byte) /\ wire1 \in Seq(Byte) /\ buf2 \in Seq(Byte) /\ wire2 \in Seq(Byte)
  BY DEF FramingInv
<1>4. PICK l : l = FrameLen(buf2)
  OBVIOUS
<1>5. /\ l # 0 /\ yielded' = Append(yielded, deserialize(SubSeq(buf2, 1, l))) /\ buf2' = SubSeq(buf2, l + 1, Len(buf2))
      /\ sent' = sent /\ wire1' = wire1 /\ buf1' = buf1 /\ wire2' = wire2
  BY <1>4 DEF ClientYield
<1>7. /\ m < k
      /\ SubSeq(buf2, 1, l) = serialize(sent[m + 1])
      /\ buf2' \in Seq(Byte)
      /\ Stream(buf2' \o wire2, sent, m + 1, k)
  <2>2. Stream(buf2 \o wire2, sent, m, k)
    BY <1>2
  <2>3. FrameLen(buf2) # 0 =>
                /\ m < k
                /\ SubSeq(buf2, 1, FrameLen(buf2)) = serialize(sent[m + 1])
                /\ SubSeq(buf2, FrameLen(buf2) + 1, Len(buf2)) \in Seq(Byte)
                /\ Stream(SubSeq(buf2, FrameLen(buf2) + 1, Len(buf2)) \o wire2, sent, m + 1, k)
    BY <1>3, <2>2, NextFrame
  <2> QED
    BY <1>4, <1>5, <2>3
<1>8. m + 1 \in 0 .. k /\ m + 1 \in 1 .. Len(sent)
  BY <1>3, <1>7
<1>9. yielded' = SubSeq(sent, 1, m + 1)
  <2>1. deserialize(serialize(sent[m + 1])) = sent[m + 1]
    BY <1>3, <1>8, PayloadFramed
  <2>2. yielded' = Append(SubSeq(sent, 1, m), sent[m + 1])
    BY <1>2, <1>5, <1>7, <2>1
  <2>3. Append(SubSeq(sent, 1, m), sent[m + 1]) = SubSeq(sent, 1, m + 1)
    BY <1>3, <1>8
  <2> QED
    BY <2>2, <2>3
<1>10. Underway(sent', buf1', wire1', buf2', wire2', yielded')
  BY <1>2, <1>5, <1>7, <1>8, <1>9 DEF Underway
<1> QED
  BY <1>3, <1>5, <1>7, <1>10 DEF FramingInv

\* FramingInv is an inductive invariant.
LEMMA FramingKeeps == FramingSpec => []FramingInv
<1>1. FramingInv /\ [FramingNext]_framingVars => FramingInv'
  <2> SUFFICES ASSUME FramingInv, [FramingNext]_framingVars PROVE FramingInv'
    OBVIOUS
  <2>1. ASSUME NEW data \in Payloads, ClientPut(data) PROVE FramingInv'
    BY <2>1, PutKeeps
  <2>2. ASSUME NEW n \in 1 .. Len(wire1), ServerRecv(n) PROVE FramingInv'
    BY <2>2, ServerRecvKeeps
  <2>3. CASE ServerForward
    BY <2>3, ForwardKeeps
  <2>4. ASSUME NEW n \in 1 .. Len(wire2), ClientRecv(n) PROVE FramingInv'
    BY <2>4, ClientRecvKeeps
  <2>5. CASE ClientYield
    BY <2>5, YieldKeeps
  <2>6. CASE UNCHANGED framingVars
    BY <2>6 DEF framingVars, FramingInv
  <2> QED
    BY <2>1, <2>2, <2>3, <2>4, <2>5, <2>6 DEF FramingNext
<1> QED
  BY <1>1, FramingStarts, PTL DEF FramingSpec

LEMMA Intact == FramingInv => InOrderIntact
<1> SUFFICES ASSUME FramingInv PROVE InOrderIntact
  OBVIOUS
<1>1. PICK k \in 0 .. Len(sent) : \E m \in 0 .. k : yielded = SubSeq(sent, 1, m)
  BY DEF FramingInv, Underway
<1>2. PICK m \in 0 .. k : yielded = SubSeq(sent, 1, m)
  BY <1>1
<1>3. sent \in Seq(Payloads)
  BY DEF FramingInv
<1>4. Len(sent) \in Nat /\ m \in 0 .. Len(sent)
  BY <1>3
<1>5. yielded \in Seq(Payloads) /\ Len(yielded) = m
  BY <1>2, <1>3, <1>4
<1>6. SubSeq(yielded, 1, m) = yielded
  BY <1>5, SubSeqFull
<1> QED
  BY <1>2, <1>4, <1>5, <1>6 DEF InOrderIntact, IsPrefix

LEMMA NothingStays == FramingInv => NothingStuck
<1> SUFFICES ASSUME FramingInv, wire1 = <<>>, wire2 = <<>>, FrameLen(buf1) = 0, FrameLen(buf2) = 0
             PROVE  yielded = sent /\ buf1 = <<>> /\ buf2 = <<>>
  BY DEF NothingStuck
<1>1. PICK k \in 0 .. Len(sent) : \E m \in 0 .. k :
        /\ Stream(buf1 \o wire1, sent, k, Len(sent))
        /\ Stream(buf2 \o wire2, sent, m, k)
        /\ yielded = SubSeq(sent, 1, m)
  BY DEF FramingInv, Underway
<1>2. PICK m \in 0 .. k :
        /\ Stream(buf1 \o wire1, sent, k, Len(sent))
        /\ Stream(buf2 \o wire2, sent, m, k)
        /\ yielded = SubSeq(sent, 1, m)
  BY <1>1
<1>3. /\ sent \in Seq(Payloads)
      /\ buf1 \in Seq(Byte) /\ wire1 \in Seq(Byte) /\ buf2 \in Seq(Byte) /\ wire2 \in Seq(Byte)
  BY DEF FramingInv
<1>4. PICK n \in 0 .. Len(sent) : n = Len(sent)
  BY <1>3
<1>5. ~(k < n) /\ (k = n => buf1 = <<>>)
  <2>1. k \in 0 .. n /\ Stream(buf1 \o wire1, sent, k, n)
    BY <1>2, <1>4
  <2>2. /\ k = n => buf1 = <<>> /\ wire1 = <<>>
        /\ k < n /\ wire1 = <<>> => FrameLen(buf1) # 0
    BY <1>3, <2>1, NextFrame, ZenonT(60)
  <2> QED
    BY <2>2
<1>6. ~(m < k) /\ (m = k => buf2 = <<>>)
  <2>1. Stream(buf2 \o wire2, sent, m, k)
    BY <1>2
  <2>2. /\ m = k => buf2 = <<>> /\ wire2 = <<>>
        /\ m < k /\ wire2 = <<>> => FrameLen(buf2) # 0
    BY <1>3, <2>1, NextFrame
  <2> QED
    BY <2>2
<1>7. k = n /\ m = k
  BY <1>3, <1>4, <1>5, <1>6
<1>8. yielded = sent
  BY <1>2, <1>3, <1>4, <1>7, SubSeqFull
<1> QED
  BY <1>5, <1>6, <1>7, <1>8

(* Through the queue server a receiver gets the packets of a sender in the *)
(* order of the put()s and byte for byte, whatever bytes they hold and     *)
(* wherever recv() cuts the two streams (serializers.py:13-51,             *)
(* queue.py:175-192, 303-308).                                             *)
THEOREM FramesArriveIntact == FramingSpec => []InOrderIntact
BY FramingKeeps, Intact, PTL

(* When both sockets are drained and neither buffer holds a whole frame,   *)
(* every packet has been yielded: none waits for the bytes of a later one  *)
(* (queue.py:175-192, 303-308, serializers.py:21-27).                      *)
THEOREM NoFrameWaits == FramingSpec => []NothingStuck
BY FramingKeeps, NothingStays, PTL
=============================================================================
