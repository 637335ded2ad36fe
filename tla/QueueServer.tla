---------------------------- MODULE QueueServer -----------------------------
(***************************************************************************)
(* The inter-process queue of the watchdog (ipc/queue.py): one server      *)
(* process with an asyncio task per connection, a deque and a semaphore,   *)
(* and the clients of both kinds connected over Unix stream sockets.       *)
(*                                                                         *)
(* A step is what runs between two suspension points of a coroutine, so    *)
(* appending to the deque and releasing the semaphore are one step, and so *)
(* are acquiring it, popping the deque and the first attempt to write.     *)
(*                                                                         *)
(* A frame (one serialised packet, see Serializer) is a sequence of pieces *)
(* <<sender, k, i>>: piece i of the k-th packet that the sender puts.  The *)
(* last piece carries the terminator, so a stream is cut after each last   *)
(* piece whatever came before it.                                          *)
(***************************************************************************)
EXTENDS Naturals, Sequences, FiniteSets

CONSTANTS
  Senders,     (* connections opened with QueueSender                      *)
  Receivers,   (* connections opened with QueueReceiver                    *)
  Pieces,      (* Pieces[s][k]: into how many pieces the k-th packet that s
                  puts splits; bound: s puts no more than it lists         *)
  Cap          (* how many pieces a socket holds before send() blocks      *)

ASSUME QueueAssumption ==
  /\ Senders \cap Receivers = {}
  /\ Pieces \in [Senders -> Seq(Nat \ {0})]
  /\ Cap \in Nat \ {0}

Clients == Senders \cup Receivers

(***************************************************************************)
(* Frames.                                                                 *)
(***************************************************************************)
Piece == Senders \X Nat \X Nat

Frame(s, k) == [i \in 1..Pieces[s][k] |-> <<s, k, i>>]

Frames == UNION {{Frame(s, k) : k \in 1..Len(Pieces[s])} : s \in Senders}

IsLast(piece) == piece[3] = Pieces[piece[1]][piece[2]]

Ends(buf) == {i \in 1..Len(buf) : IsLast(buf[i])}

(* The position of the n-th terminator; 0 for n = 0.                       *)
NthEnd(buf, n) ==
  IF n = 0 THEN 0
  ELSE CHOOSE e \in Ends(buf) : Cardinality({x \in Ends(buf) : x <= e}) = n

NumFrames(buf) == Cardinality(Ends(buf))

(* What the loop `while buf: packet, buf = Serializer.parse(buf)` cuts out *)
(* of a buffer, and what it leaves there.                                  *)
Cut(buf) ==
  [n \in 1..NumFrames(buf) |->
     SubSeq(buf, NthEnd(buf, n - 1) + 1, NthEnd(buf, n))]

Leftover(buf) == SubSeq(buf, NthEnd(buf, NumFrames(buf)) + 1, Len(buf))

-----------------------------------------------------------------------------
VARIABLES
  server,    (* the queue process: "up" or "killed"                        *)
  client,    (* client[c]: "off", "open", "dead" or "closed" (QueueClosed) *)
  task,      (* task[c]: where the server's task for the connection is     *)
  put,       (* put[s]: how many packets s has begun to put                *)
  unwritten, (* unwritten[s]: what sock_sendall still has to write for the
                put() that holds the client's lock                         *)
  up,        (* up[s]: pieces in the socket from s to the server           *)
  buf,       (* buf[s]: the local `buf` of _sender                         *)
  to_send,   (* the deque of frames                                        *)
  sem,       (* the value of the semaphore                                 *)
  packet,    (* packet[r]: the local `packet` of _receiver, <<>> for None  *)
  unsent,    (* unsent[r]: what its sock_sendall still has to write        *)
  down,      (* down[r]: pieces in the socket from the server to r         *)
  cbuf,      (* cbuf[r]: self.buf of the receiving QueueClient             *)
  got,       (* got[r]: frames that r's get() has yielded                  *)
  accepted,  (* history: frames the server has put into the deque          *)
  requeued   (* history: frames put back after a write that was suspended  *)

serverVars == <<buf, to_send, sem, packet, unsent, accepted, requeued>>
senderVars == <<put, unwritten, up>>
receiverVars == <<down, cbuf, got>>

vars == <<server, client, task, serverVars, senderVars, receiverVars>>

Init ==
  /\ server = "up"
  /\ client = [c \in Clients |-> "off"]
  /\ task = [c \in Clients |-> "none"]
  /\ put = [s \in Senders |-> 0]
  /\ unwritten = [s \in Senders |-> <<>>]
  /\ up = [s \in Senders |-> <<>>]
  /\ buf = [s \in Senders |-> <<>>]
  /\ to_send = <<>>
  /\ sem = 0
  /\ packet = [r \in Receivers |-> <<>>]
  /\ unsent = [r \in Receivers |-> <<>>]
  /\ down = [r \in Receivers |-> <<>>]
  /\ cbuf = [r \in Receivers |-> <<>>]
  /\ got = [r \in Receivers |-> <<>>]
  /\ accepted = {}
  /\ requeued = {}

(* How many of the pieces in data a send() on a socket holding wire takes. *)
Room(wire, data) ==
  IF Cap - Len(wire) < Len(data) THEN Cap - Len(wire) ELSE Len(data)

First(data, n) == SubSeq(data, 1, n)
Rest(data, n) == SubSeq(data, n + 1, Len(data))

-----------------------------------------------------------------------------
(* Connecting.                                                             *)

(* QueueClient.connect: the connection is made and the mode byte written;  *)
(* the server has not looked at it yet.                                    *)
Connect(c) ==
  /\ server = "up"
  /\ client[c] = "off"
  /\ client' = [client EXCEPT ![c] = "open"]
  /\ task' = [task EXCEPT ![c] = "accepted"]
  /\ UNCHANGED <<server, serverVars, senderVars, receiverVars>>

(* QueueServer._handshake: read the mode byte (it is there even when the   *)
(* client has died since) and enter the loop for that mode.                *)
Handshake(c) ==
  /\ task[c] = "accepted"
  /\ task' = [task EXCEPT ![c] = IF c \in Senders THEN "sender" ELSE "acquire"]
  /\ UNCHANGED <<server, client, serverVars, senderVars, receiverVars>>

-----------------------------------------------------------------------------
(* A sending process.                                                      *)

LockNotAwaited(s) == TRUE                                        \* mutant

LockFree(s) == unwritten[s] = <<>>

WriteUp(s, data) ==
  LET n == Room(up[s], data) IN
  /\ up' = [up EXCEPT ![s] = @ \o First(data, n)]
  /\ unwritten' = [unwritten EXCEPT ![s] = Rest(data, n)]

(* QueueClient.put takes the lock, serialises and starts sock_sendall.     *)
Put(s) ==
  /\ server = "up"
  /\ client[s] = "open"
  /\ put[s] < Len(Pieces[s])
  /\ LockFree(s)
  /\ put' = [put EXCEPT ![s] = @ + 1]
  /\ WriteUp(s, Frame(s, put[s] + 1))
  /\ UNCHANGED <<server, client, task, serverVars, receiverVars>>

(* sock_sendall goes on when the socket is writable again; put() gives the *)
(* lock back when all is written.                                          *)
PutMore(s) ==
  /\ server = "up"
  /\ client[s] = "open"
  /\ unwritten[s] # <<>>
  /\ Len(up[s]) < Cap
  /\ WriteUp(s, unwritten[s])
  /\ UNCHANGED <<server, client, task, put, serverVars, receiverVars>>

(* The process dies; what it has written can still be read.                *)
SenderDies(s) ==
  /\ client[s] = "open"
  /\ client' = [client EXCEPT ![s] = "dead"]
  /\ unwritten' = [unwritten EXCEPT ![s] = <<>>]
  /\ UNCHANGED <<server, task, put, up, serverVars, receiverVars>>

-----------------------------------------------------------------------------
(* The server's task for a sending connection.                             *)

(* One round of QueueServer._sender: read, cut, and for every frame        *)
(* send_packet, which appends and releases without being suspended.        *)
SenderTask(s, n) ==
  LET data == buf[s] \o First(up[s], n) IN
  /\ task[s] = "sender"
  /\ n \in 1..Len(up[s])
  /\ up' = [up EXCEPT ![s] = Rest(@, n)]
  /\ buf' = [buf EXCEPT ![s] = Leftover(data)]
  /\ to_send' = to_send \o Cut(data)
  /\ sem' = sem + NumFrames(data)
  /\ accepted' = accepted \cup {Cut(data)[i] : i \in 1..NumFrames(data)}
  /\ UNCHANGED <<server, client, task, put, unwritten, packet, unsent,
                 requeued, receiverVars>>

(* recv returns b"": the task returns and an unfinished frame is dropped.  *)
SenderEOF(s) ==
  /\ task[s] = "sender"
  /\ client[s] = "dead"
  /\ up[s] = <<>>
  /\ task' = [task EXCEPT ![s] = "done"]
  /\ buf' = [buf EXCEPT ![s] = <<>>]
  /\ UNCHANGED <<server, client, senderVars, to_send, sem, packet, unsent,
                 accepted, requeued, receiverVars>>

-----------------------------------------------------------------------------
(* The server's task for a receiving connection.                           *)

(* sock_sendall writes what the socket takes; the task is suspended in it  *)
(* until all is written and then once more in asyncio.sleep(0).            *)
WriteDown(r, frame, data) ==
  LET n == Room(down[r], data) IN
  /\ down' = [down EXCEPT ![r] = @ \o First(data, n)]
  /\ unsent' = [unsent EXCEPT ![r] = Rest(data, n)]
  /\ packet' = [packet EXCEPT ![r] = frame]
  /\ task' = [task EXCEPT ![r] = IF n = Len(data) THEN "sleep" ELSE "sendall"]

(* `finally: if packet: to_send.appendleft(packet); sem.release()` after   *)
(* a BrokenPipeError, and the task returns.                                *)
ReleaseForgotten(r, frame, queue, count) ==                      \* mutant
  /\ to_send' = <<frame>> \o queue
  /\ sem' = count
  /\ packet' = [packet EXCEPT ![r] = <<>>]
  /\ unsent' = [unsent EXCEPT ![r] = <<>>]
  /\ task' = [task EXCEPT ![r] = "done"]

PacketDropped(r, frame, queue, count) ==                         \* mutant
  /\ to_send' = queue
  /\ sem' = count
  /\ packet' = [packet EXCEPT ![r] = <<>>]
  /\ unsent' = [unsent EXCEPT ![r] = <<>>]
  /\ task' = [task EXCEPT ![r] = "done"]

PutAtTail(r, frame, queue, count) ==                             \* mutant
  /\ to_send' = Append(queue, frame)
  /\ sem' = count + 1
  /\ packet' = [packet EXCEPT ![r] = <<>>]
  /\ unsent' = [unsent EXCEPT ![r] = <<>>]
  /\ task' = [task EXCEPT ![r] = "done"]

PutBack(r, frame, queue, count) ==
  /\ to_send' = <<frame>> \o queue
  /\ sem' = count + 1
  /\ packet' = [packet EXCEPT ![r] = <<>>]
  /\ unsent' = [unsent EXCEPT ![r] = <<>>]
  /\ task' = [task EXCEPT ![r] = "done"]

(* sem.acquire() succeeds, popleft, first write.  The server learns that a *)
(* receiver is gone only by writing to it.                                 *)
Take(r) ==
  /\ task[r] = "acquire"
  /\ sem > 0
  /\ IF client[r] = "open"
     THEN /\ sem' = sem - 1
          /\ to_send' = Tail(to_send)
          /\ WriteDown(r, Head(to_send), Head(to_send))
     ELSE /\ PutBack(r, Head(to_send), Tail(to_send), sem - 1)
          /\ UNCHANGED down
  /\ UNCHANGED <<server, client, senderVars, buf, accepted, requeued, cbuf, got>>

(* The suspended sock_sendall is woken: the socket is writable or broken.  *)
Resume(r) ==
  /\ task[r] = "sendall"
  /\ IF client[r] = "open"
     THEN /\ Len(down[r]) < Cap
          /\ WriteDown(r, packet[r], unsent[r])
          /\ UNCHANGED <<to_send, sem, requeued>>
     ELSE /\ PutBack(r, packet[r], to_send, sem)
          /\ requeued' = requeued \cup {packet[r]}
          /\ UNCHANGED down
  /\ UNCHANGED <<server, client, senderVars, buf, accepted, cbuf, got>>

PacketNotCleared(r) ==                                           \* mutant
  /\ task[r] = "sleep"
  /\ to_send' = <<packet[r]>> \o to_send
  /\ sem' = sem + 1
  /\ task' = [task EXCEPT ![r] = "acquire"]
  /\ UNCHANGED <<server, client, senderVars, buf, packet, unsent, accepted,
                 requeued, receiverVars>>

(* After the sleep(0): `packet = None`, so the finally clause does nothing *)
(* and the loop starts over.                                               *)
Slept(r) ==
  /\ task[r] = "sleep"
  /\ packet' = [packet EXCEPT ![r] = <<>>]
  /\ task' = [task EXCEPT ![r] = "acquire"]
  /\ UNCHANGED <<server, client, senderVars, buf, to_send, sem, unsent,
                 accepted, requeued, receiverVars>>

-----------------------------------------------------------------------------
(* A receiving process.                                                    *)

(* get() reads only when its buffer holds no whole frame.                  *)
Recv(r, n) ==
  /\ client[r] = "open"
  /\ NumFrames(cbuf[r]) = 0
  /\ n \in 1..Len(down[r])
  /\ cbuf' = [cbuf EXCEPT ![r] = @ \o First(down[r], n)]
  /\ down' = [down EXCEPT ![r] = Rest(@, n)]
  /\ UNCHANGED <<server, client, task, serverVars, senderVars, got>>

(* get() yields one frame; the rest of the buffer waits for the next call. *)
Yield(r) ==
  /\ client[r] = "open"
  /\ NumFrames(cbuf[r]) > 0
  /\ got' = [got EXCEPT ![r] = Append(@, Cut(cbuf[r])[1])]
  /\ cbuf' = [cbuf EXCEPT ![r] = Rest(@, NthEnd(@, 1))]
  /\ UNCHANGED <<server, client, task, serverVars, senderVars, down>>

(* The process dies; what it has not read is gone with its socket.         *)
ReceiverDies(r) ==
  /\ client[r] = "open"
  /\ client' = [client EXCEPT ![r] = "dead"]
  /\ down' = [down EXCEPT ![r] = <<>>]
  /\ cbuf' = [cbuf EXCEPT ![r] = <<>>]
  /\ UNCHANGED <<server, task, serverVars, senderVars, got>>

-----------------------------------------------------------------------------
(* Closing the queue.                                                      *)

(* ZMQueue.close kills the process with SIGKILL: all it holds is gone,     *)
(* what it has written to receivers can still be read.                     *)
Close ==
  /\ server = "up"
  /\ server' = "killed"
  /\ task' = [c \in Clients |-> "none"]
  /\ to_send' = <<>>
  /\ sem' = 0
  /\ buf' = [s \in Senders |-> <<>>]
  /\ up' = [s \in Senders |-> <<>>]
  /\ packet' = [r \in Receivers |-> <<>>]
  /\ unsent' = [r \in Receivers |-> <<>>]
  /\ UNCHANGED <<client, put, unwritten, accepted, requeued, receiverVars>>

EmptyReadIgnored(c) ==                                           \* mutant
  /\ server = "killed"
  /\ client[c] = "open"
  /\ c \in Senders
  /\ client' = [client EXCEPT ![c] = "closed"]
  /\ UNCHANGED <<server, task, serverVars, senderVars, receiverVars>>

(* put() gets a BrokenPipeError, get() an empty read once it has read all  *)
(* that is there: both raise QueueClosed.  (A receiver whose mode byte was *)
(* never read gets a ConnectionResetError instead: that ends it as well.)  *)
QueueClosed(c) ==
  /\ server = "killed"
  /\ client[c] = "open"
  /\ c \in Receivers => down[c] = <<>> /\ NumFrames(cbuf[c]) = 0
  /\ client' = [client EXCEPT ![c] = "closed"]
  /\ UNCHANGED <<server, task, serverVars, senderVars, receiverVars>>

-----------------------------------------------------------------------------
ServerStep(c) ==
  \/ Handshake(c)
  \/ c \in Senders /\ \/ \E n \in 1..Len(up[c]) : SenderTask(c, n)
                      \/ SenderEOF(c)
  \/ c \in Receivers /\ (Take(c) \/ Resume(c) \/ Slept(c))

ReceiverStep(r) ==
  \/ \E n \in 1..Len(down[r]) : Recv(r, n)
  \/ Yield(r)
  \/ QueueClosed(r)

Next ==
  \/ \E c \in Clients : Connect(c) \/ ServerStep(c)
  \/ \E s \in Senders : Put(s) \/ PutMore(s) \/ SenderDies(s) \/ QueueClosed(s)
  \/ \E r \in Receivers : ReceiverStep(r) \/ ReceiverDies(r)
  \/ Close

(* The event loop of the server runs every task that can run, and a live   *)
(* receiving process keeps calling get() (every module of the watchdog     *)
(* does so in a loop).  Nothing else is assumed: senders may stop sending. *)
Fairness ==
  /\ \A c \in Clients : WF_vars(ServerStep(c))
  /\ \A r \in Receivers : WF_vars(ReceiverStep(r))

Spec == Init /\ [][Next]_vars /\ Fairness

-----------------------------------------------------------------------------
(* Types, and what the locals of a task hold at each place it can be.      *)
TypeOK ==
  /\ server \in {"up", "killed"}
  /\ client \in [Clients -> {"off", "open", "dead", "closed"}]
  /\ task \in [Clients -> {"none", "accepted", "sender", "acquire", "sendall",
                            "sleep", "done"}]
  /\ put \in [Senders -> Nat]
  /\ unwritten \in [Senders -> Seq(Piece)]
  /\ up \in [Senders -> Seq(Piece)]
  /\ buf \in [Senders -> Seq(Piece)]
  /\ to_send \in Seq(Seq(Piece))
  /\ sem \in Nat
  /\ packet \in [Receivers -> Seq(Piece)]
  /\ unsent \in [Receivers -> Seq(Piece)]
  /\ down \in [Receivers -> Seq(Piece)]
  /\ cbuf \in [Receivers -> Seq(Piece)]
  /\ got \in [Receivers -> Seq(Seq(Piece))]
  /\ \A r \in Receivers :
       /\ packet[r] # <<>> <=> task[r] \in {"sendall", "sleep"}
       /\ unsent[r] # <<>> <=> task[r] = "sendall"

(* The semaphore always counts the deque, so that popleft (queue.py:284)   *)
(* after acquire (line 283) never finds it empty: a put-back (lines        *)
(* 291-294) and an append (lines 278-279) each release exactly once.       *)
SemMatchesQueue == sem = Len(to_send)

(* Everything in the deque and everything delivered is one whole packet of *)
(* one put(): neither a sender that dies while writing, nor a receiver     *)
(* that dies while being written to, nor another put() on the same client  *)
(* (the lock of line 218) leaves a torn or mixed frame behind.             *)
FramesIntact ==
  /\ \A i \in 1..Len(to_send) : to_send[i] \in Frames
  /\ \A r \in Receivers : \A i \in 1..Len(got[r]) : got[r][i] \in Frames

(* The order test_queue.py relies on, made precise for several receivers:  *)
(* a receiver gets the packets of one sender in the order of the put()s,   *)
(* except for packets put back at the head of the deque (line 293) because *)
(* another receiver died while the server was writing to it.               *)
OnlyRequeuedOvertaken ==
  \A r \in Receivers : \A i, j \in 1..Len(got[r]) :
    LET early == got[r][i][1]
        late  == got[r][j][1]
    IN  i < j /\ early[1] = late[1] /\ late[2] <= early[2]
          => got[r][j] \in requeued

(* The queue keeps the promise of LossyQueue: a packet whose write has not *)
(* completed still belongs to the queue, one that is completely written    *)
(* belongs to its receiver, and is lost only with it.                      *)
Pending ==
  {to_send[i] : i \in 1..Len(to_send)}
    \cup {packet[r] : r \in {q \in Receivers : task[q] = "sendall"}}

Inbox == [r \in Receivers |-> Cut(cbuf[r] \o down[r])]

Promise == INSTANCE LossyQueue
  WITH Packets <- Frames, fresh <- Frames \ accepted,
       pending <- Pending, inbox <- Inbox

ImplementsLossyQueue == Promise!Spec

(* As long as one receiver stays, every packet leaves the server: frames   *)
(* taken for a dead receiver, or half written to one, are not stuck, and   *)
(* each release (lines 279, 294) wakes a task that waits.                  *)
Drains ==
  \A r \in Receivers :
    <>[](server = "up" /\ client[r] = "open") => <>[](Pending = {} /\ sem = 0)

(* After close() (lines 345-348) every receiver reads what was written to  *)
(* it and then leaves its get() loop with QueueClosed.                     *)
CloseReachesReceivers ==
  \A r \in Receivers :
    server = "killed" /\ client[r] = "open"
      ~> client[r] # "open" /\ down[r] = <<>> /\ NumFrames(cbuf[r]) = 0
=============================================================================
