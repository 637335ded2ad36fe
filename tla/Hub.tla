-------------------------------- MODULE Hub --------------------------------
(***************************************************************************)
(* How a message reaches the clients of a watchdog when the service that   *)
(* sends it runs as several instances: backend_lib/websocket_manager.py    *)
(* (the copies of device control and monitoring, zmq=True) and the         *)
(* notification broker backend_zmq_server/src/app.py between them.         *)
(*                                                                         *)
(* An instance asks the broker over a TCP link, the broker asks every      *)
(* instance on its list (the asker too), each one hands the message to the *)
(* connections it has for the watchdog's code and replies, and the broker  *)
(* passes the first success, or the last failure, back to the asker, which *)
(* waits two seconds.  The connections are those of one code: an instance  *)
(* without any stands for those that know other codes only.                *)
(*                                                                         *)
(* A message that fits the socket buffer is sent without suspending, so    *)
(* the broker handles each message in one step.  The instances run on      *)
(* uvloop, where reading at the end of a closed link returns at once but   *)
(* lets the other tasks run.  Not modelled: the broker's cache (off unless *)
(* WITH_CACHE is set).                                                     *)
(***************************************************************************)
EXTENDS Naturals, FiniteSets, SequencesExt

CONSTANTS
    Instances,  \* the replicas of the service
    MaxConns,   \* bound: websocket connections clients ever make
    Ids,        \* the query ids: one of 1000 is drawn at random for a code
    MaxEvents,  \* bound: messages, killed instances and broker restarts together
    MaxEpoch    \* bound: links ever made by an instance

ASSUME HubAssumption ==
    /\ IsFiniteSet(Instances)
    /\ MaxConns \in Nat /\ MaxEvents \in Nat /\ MaxEpoch \in Nat \ {0}

VARIABLES
    \* an instance
    linked,     \* self.connected
    epoch,      \* how many links it has made; the last one is its self.socket
    wss,        \* active_connections[code]
    work,       \* what its work() task does
    inbox,      \* what it has yet to read from its link
    answers,    \* pendingResponses
    asking,     \* per connection: the send its handler waits for
    \* the broker
    up,         \* connectedDCs: the links that have a handler, in their order
    open,       \* links whose socket the broker has not closed
    wire,       \* per link, what the broker has yet to read from it
    pending,    \* pendingQueries
    \* history
    sent,       \* messages sent so far
    left,       \* connections that were made before and are gone
    delivered,  \* pairs of a message and a connection it was sent on
    reused,     \* was an id drawn while it was still in use?
    faults      \* faults so far

instVars   == <<linked, epoch, wss, work, inbox, answers, asking>>
brokerVars == <<up, open, wire, pending>>
histVars   == <<sent, left, delivered, reused, faults>>
hubVars    == <<instVars, brokerVars, histVars>>

Conns == 1 .. MaxConns
Sends == 1 .. MaxEvents
Links == Instances \X (1 .. MaxEpoch)
Req(q, id) == [type |-> "req", q |-> q, id |-> id]
Rep(q, id, ok) == [type |-> "rep", q |-> q, id |-> id, ok |-> ok]
Message == [type : {"req"}, q : Sends, id : Ids]
           \cup [type : {"rep"}, q : Sends, id : Ids, ok : BOOLEAN]

Idle == [at |-> "idle"]
Dead == [at |-> "dead"]     \* an exception ended the task, nobody starts it again

\* Every instance has come up and made its first link.
HubInit ==
    /\ linked = [i \in Instances |-> TRUE] /\ epoch = [i \in Instances |-> 1]
    /\ wss = [i \in Instances |-> <<>>]
    /\ work = [i \in Instances |-> Idle]
    /\ inbox = [i \in Instances |-> <<>>]
    /\ answers = [i \in Instances |-> {}]
    /\ asking = [c \in Conns |-> Idle]
    /\ up = SetToSeq(Instances \X {1}) /\ open = Instances \X {1}
    /\ wire = [l \in Links |-> <<>>] /\ pending = {}
    /\ sent = 0 /\ left = {} /\ delivered = {}
    /\ reused = FALSE /\ faults = 0

-----------------------------------------------------------------------------
(* Helpers.                                                                *)

LinkOf(i) == <<i, epoch[i]>>
\* The instance's end of link l is open and it reads it.
Alive(l) == linked[l[1]] /\ l = LinkOf(l[1])
Homes(c) == {i \in Instances : c \in ToSet(wss[i])}
Busy(i) == work[i].at = "distribute"

\* The connections whose handler is in notify or send_all.
PendingZmq == {c \in Conns : asking[c].at = "wait" /\ asking[c].notify}

IdsIn(s) == {s[k].id : k \in DOMAIN s}
\* An id is drawn at random; which one of those not in use makes no difference.
InUse(id) ==
    \/ \E p \in pending : p.id = id
    \/ \E c \in Conns : asking[c].at = "wait" /\ asking[c].id = id
    \/ \E i \in Instances : id \in IdsIn(inbox[i]) \/ \E a \in answers[i] : a.id = id
    \/ \E i \in Instances : Busy(i) /\ work[i].id = id
    \/ \E l \in Links : id \in IdsIn(wire[l])

-----------------------------------------------------------------------------
(* The clients of the instances.                                           *)

JoinedInFront(list, c) == <<c>> \o list                               \* mutant
Joined(list, c) == Append(list, c)

\* connect: a client has authenticated and is registered.  Clients are numbered
\* in the order in which they do.
Register(i, c) ==
    /\ c = 1 + Cardinality(left \cup UNION {ToSet(wss[j]) : j \in Instances})
    /\ wss' = [wss EXCEPT ![i] = Joined(@, c)]
    /\ UNCHANGED <<linked, epoch, work, inbox, answers, asking, brokerVars, histVars>>

\* disconnect: the list that a distribution iterates over gets shorter under
\* it; when it becomes empty the next connection starts a list of its own.
RemoveFrom(i, c) ==
    /\ wss' = [wss EXCEPT ![i] = RemoveFirst(@, c)]
    /\ left' = left \cup {c}
    /\ work' = IF ~Busy(i) THEN work
               ELSE [work EXCEPT ![i].must = @ \ {c}, ![i].shifted = TRUE,
                                 ![i].k = IF wss[i] = <<c>> THEN MaxConns + 1 ELSE @]

\* The client is gone, which its handler notices when it reads again.
Disconnect(i, c) ==
    /\ i \in Homes(c) /\ asking[c] = Idle
    /\ RemoveFrom(i, c)
    /\ UNCHANGED <<linked, epoch, inbox, answers, asking, brokerVars,
                   sent, delivered, reused, faults>>

-----------------------------------------------------------------------------
(* send_zmq, called by the handler of a connection: by send, which device  *)
(* control uses, or by notify and send_all, which keep the sender out.     *)

\* self.connected is False: nothing is sent.
AskUnlinked(i, c) ==
    /\ i \in Homes(c) /\ asking[c] = Idle /\ sent + faults < MaxEvents
    /\ ~linked[i]
    /\ sent' = sent + 1
    /\ UNCHANGED <<instVars, brokerVars, left, delivered, reused, faults>>

\* What is sent on a link the broker has closed is lost.
Ask(i, c, id, notify) ==
    /\ i \in Homes(c) /\ asking[c] = Idle /\ sent + faults < MaxEvents
    /\ linked[i]
    /\ InUse(id) \/ id = CHOOSE n \in Ids : ~InUse(n)
    /\ sent' = sent + 1
    /\ reused' = (reused \/ InUse(id))
    /\ asking' = [asking EXCEPT ![c] = [at |-> "wait", q |-> sent + 1, id |-> id,
                                        notify |-> notify]]
    /\ wire' = IF LinkOf(i) \in open
               THEN [wire EXCEPT ![LinkOf(i)] = Append(@, Req(sent + 1, id))] ELSE wire
    /\ UNCHANGED <<linked, epoch, wss, work, inbox, answers, up, open, pending,
                   left, delivered, faults>>

\* BrokenPipeError: the link is given up, work() makes a new one.
AskBrokenPipe(i, c) ==
    /\ i \in Homes(c) /\ asking[c] = Idle /\ sent + faults < MaxEvents
    /\ linked[i] /\ LinkOf(i) \notin open
    /\ sent' = sent + 1
    /\ linked' = [linked EXCEPT ![i] = FALSE]
    /\ inbox' = [inbox EXCEPT ![i] = <<>>]
    /\ UNCHANGED <<epoch, wss, work, answers, asking, brokerVars,
                   left, delivered, reused, faults>>

\* The handler goes on.  (After a failed send device control looks up an e-mail
\* address in a row that has one column and reads its second: the exception
\* closes the connection, which is Disconnect then.)
Return(c) == asking' = [asking EXCEPT ![c] = Idle]

\* One of the polls, every 0.2 seconds, finds an answer for the id.
Poll(i, c) ==
    /\ i \in Homes(c) /\ asking[c].at = "wait"
    /\ \E a \in answers[i] :
         /\ a.id = asking[c].id
         /\ answers' = [answers EXCEPT ![i] = @ \ {a}]
         /\ Return(c)
    /\ UNCHANGED <<linked, epoch, wss, work, inbox, brokerVars, histVars>>

\* Two seconds are over; a later answer stays in pendingResponses.
TimeOut(i, c) ==
    /\ i \in Homes(c) /\ asking[c].at = "wait"
    /\ \A a \in answers[i] : a.id # asking[c].id
    /\ Return(c)
    /\ UNCHANGED <<linked, epoch, wss, work, inbox, answers, brokerVars, histVars>>

-----------------------------------------------------------------------------
(* work().                                                                 *)

Dial(i) ==
    /\ ~linked[i] /\ work[i] = Idle /\ epoch[i] < MaxEpoch
    /\ linked' = [linked EXCEPT ![i] = TRUE]
    /\ epoch' = [epoch EXCEPT ![i] = @ + 1]
    /\ up' = Append(up, LinkOf(i)')
    /\ open' = open \cup {LinkOf(i)'}
    /\ UNCHANGED <<wss, work, inbox, answers, asking, wire, pending, histVars>>

ReplySuccessOnly(i, q, id, ok) ==                                    \* mutant
    /\ wire' = IF ok /\ linked[i] /\ LinkOf(i) \in open
               THEN [wire EXCEPT ![LinkOf(i)] = Append(@, Rep(q, id, ok))] ELSE wire
    /\ work' = [work EXCEPT ![i] = Idle]

\* The reply is written; on a link the broker has closed it is lost, or the
\* exception ends the task.
Reply(i, q, id, ok) ==
    IF linked[i] /\ LinkOf(i) \in open
    THEN /\ wire' = [wire EXCEPT ![LinkOf(i)] = Append(@, Rep(q, id, ok))]
         /\ work' = [work EXCEPT ![i] = Idle]
    ELSE /\ work' \in {[work EXCEPT ![i] = Idle], [work EXCEPT ![i] = Dead]}
         /\ UNCHANGED wire

TakeQuery(i) ==
    /\ work[i] = Idle /\ linked[i] /\ inbox[i] # <<>> /\ Head(inbox[i]).type = "req"
    /\ LET m == Head(inbox[i])
       IN IF wss[i] = <<>>
          THEN Reply(i, m.q, m.id, FALSE)
          ELSE /\ work' = [work EXCEPT ![i] = [at |-> "distribute", q |-> m.q, id |-> m.id, k |-> 1,
                                               must |-> ToSet(wss[i]), shifted |-> FALSE]]
               /\ UNCHANGED wire
    /\ inbox' = [inbox EXCEPT ![i] = Tail(@)]
    /\ UNCHANGED <<linked, epoch, wss, answers, asking, up, open, pending,
                   sent, left, delivered, reused, faults>>

\* `for ws in wss: if ws in pending_zmq: continue; await ws.send(message)`
Distribute(i) ==
    /\ Busy(i) /\ work[i].k \in DOMAIN wss[i]
    /\ LET c == wss[i][work[i].k]
       IN IF c \in PendingZmq
          THEN /\ work' = [work EXCEPT ![i].k = @ + 1, ![i].must = @ \ {c}]
               /\ UNCHANGED delivered
          ELSE /\ work' = [work EXCEPT ![i].k = @ + 1]
               /\ delivered' = delivered \cup {<<work[i].q, c>>}
    /\ UNCHANGED <<linked, epoch, wss, inbox, answers, asking, brokerVars,
                   sent, left, reused, faults>>

Distributed(i) ==
    /\ Busy(i) /\ work[i].k \notin DOMAIN wss[i]
    /\ Reply(i, work[i].q, work[i].id, TRUE)
    /\ UNCHANGED <<linked, epoch, wss, inbox, answers, asking, up, open, pending, histVars>>

\* `pendingResponses[id] = success`
TakeReply(i) ==
    /\ work[i] = Idle /\ linked[i] /\ inbox[i] # <<>> /\ Head(inbox[i]).type = "rep"
    /\ LET m == Head(inbox[i])
       IN answers' = [answers EXCEPT ![i] = {a \in @ : a.id # m.id}
                                            \cup {[id |-> m.id, ok |-> m.ok]}]
    /\ inbox' = [inbox EXCEPT ![i] = Tail(@)]
    /\ UNCHANGED <<linked, epoch, wss, work, asking, brokerVars,
                   sent, left, delivered, reused, faults>>

\* A link that was closed with unread data: ConnectionResetError.
ReadReset(i) ==
    /\ work[i] = Idle /\ linked[i] /\ LinkOf(i) \notin open
    /\ work' = [work EXCEPT ![i] = Dead]
    /\ UNCHANGED <<linked, epoch, wss, inbox, answers, asking, brokerVars, histVars>>

-----------------------------------------------------------------------------
(* The broker, handleDC: what it does with one message of one link.  An    *)
(* exception in it ends the handler of that link, after its cleanup.       *)

\* Writing to a link: it raises when the broker has closed it, it may raise
\* when the instance is gone.
Raises(l)   == l \notin open
MayRaise(l) == l \notin open \/ ~Alive(l)

Box(in, l, m) == IF Alive(l) THEN [in EXCEPT ![l[1]] = Append(@, m)] ELSE in
BoxAll(in, ls, m) ==
    [i \in Instances |-> IF LinkOf(i) \in ls /\ Alive(LinkOf(i)) THEN Append(in[i], m) ELSE in[i]]

\* cleanup(l): off the list, out of every query; a query that waited for it
\* only is answered False (and stays).  An exception on the way leaves the
\* socket of l open, with nobody to read it.
Cleanup(l, ps, in) ==
    LET affected == {p \in ps : l \in p.wait}
        ends     == {p \in affected : p.wait = {l}}
        Without(p) == [p EXCEPT !.wait = @ \ {l}]
        Told(es) == [i \in Instances |->
                       in[i] \o SetToSeq({Rep(p.q, p.id, FALSE) :
                                            p \in {e \in es : e.asker = LinkOf(i) /\ linked[i]}})]
    IN /\ up' = RemoveFirst(up, l)
       /\ \/ /\ \A p \in ends : ~Raises(p.asker)
             /\ pending' = (ps \ affected) \cup {Without(p) : p \in affected}
             /\ inbox' = Told(ends)
             /\ open' = open \ {l}
             /\ wire' = [wire EXCEPT ![l] = <<>>]
          \/ \E bad \in ends, done \in SUBSET affected :
               /\ MayRaise(bad.asker) /\ bad \in done
               /\ \A p \in (done \cap ends) \ {bad} : ~Raises(p.asker)
               /\ pending' = (ps \ done) \cup {Without(p) : p \in done}
               /\ inbox' = Told((done \cap ends) \ {bad})
               /\ wire' = [wire EXCEPT ![l] = <<>>]
               /\ UNCHANGED open

Read(l) == /\ wire' = [wire EXCEPT ![l] = Tail(@)]
           /\ UNCHANGED open /\ UNCHANGED up

SameInstances == UNCHANGED <<linked, epoch, wss, work, answers, asking, histVars>>

OthersOnly(l) == RemoveFirst(up, l)                                   \* mutant
Audience(l) == up

QueuedBeside(m, l) ==                                                \* mutant
    pending \cup {[id |-> m.id, q |-> m.q, wait |-> ToSet(Audience(l)), asker |-> l]}
Queued(m, l) ==
    {p \in pending : p.id # m.id}
    \cup {[id |-> m.id, q |-> m.q, wait |-> ToSet(Audience(l)), asker |-> l]}

\* req: ask everybody on the list; an exception on the way ends the asker's
\* handler.
BrokerReq(l) ==
    /\ l \in ToSet(up) /\ wire[l] # <<>> /\ Head(wire[l]).type = "req"
    /\ LET m == Head(wire[l])
           all == Audience(l)
       IN \/ /\ inbox' = BoxAll(inbox, ToSet(all), Req(m.q, m.id))
             /\ pending' = Queued(m, l)
             /\ Read(l)
          \/ \E k \in DOMAIN all :
               /\ MayRaise(all[k])
               /\ Cleanup(l, Queued(m, l),
                          BoxAll(inbox, {all[j] : j \in 1 .. k - 1}, Req(m.q, m.id)))
    /\ SameInstances

UnknownRaises(l) == Cleanup(l, pending, inbox)                       \* mutant
\* A reply to a query that was answered before: KeyError, ignored.
Unknown(l) == Read(l) /\ UNCHANGED <<pending, inbox>>

\* rep with success: the first one is passed on.
BrokerSuccess(l) ==
    /\ l \in ToSet(up) /\ wire[l] # <<>>
    /\ LET m == Head(wire[l])
       IN /\ m.type = "rep" /\ m.ok
          /\ \/ /\ \A p \in pending : p.id # m.id
                /\ Unknown(l)
             \/ \E p \in pending :
                  /\ p.id = m.id
                  /\ \/ /\ ~Raises(p.asker)
                        /\ inbox' = Box(inbox, p.asker, Rep(p.q, p.id, TRUE))
                        /\ pending' = pending \ {p}
                        /\ Read(l)
                     \/ MayRaise(p.asker) /\ Cleanup(l, pending, inbox)
    /\ SameInstances

\* rep without success: the last one is passed on; a link the query does not
\* wait for is a ValueError.
BrokerFailure(l) ==
    /\ l \in ToSet(up) /\ wire[l] # <<>>
    /\ LET m == Head(wire[l])
       IN /\ m.type = "rep" /\ ~m.ok
          /\ \/ /\ \A p \in pending : p.id # m.id
                /\ Unknown(l)
             \/ \E p \in pending :
                  LET rest == [p EXCEPT !.wait = @ \ {l}]
                  IN /\ p.id = m.id
                     /\ \/ l \notin p.wait /\ Cleanup(l, pending, inbox)
                        \/ /\ l \in p.wait /\ rest.wait # {}
                           /\ pending' = (pending \ {p}) \cup {rest}
                           /\ Read(l) /\ UNCHANGED inbox
                        \/ /\ l \in p.wait /\ rest.wait = {} /\ ~Raises(p.asker)
                           /\ inbox' = Box(inbox, p.asker, Rep(p.q, p.id, FALSE))
                           /\ pending' = pending \ {p}
                           /\ Read(l)
                        \/ /\ l \in p.wait /\ rest.wait = {} /\ MayRaise(p.asker)
                           /\ Cleanup(l, (pending \ {p}) \cup {rest}, inbox)
    /\ SameInstances

\* The instance closed its end.
BrokerEof(l) ==
    /\ l \in ToSet(up) /\ wire[l] = <<>> /\ ~Alive(l)
    /\ Cleanup(l, pending, inbox)
    /\ SameInstances

-----------------------------------------------------------------------------
(* Faults.                                                                 *)

\* An instance dies with its connections and is started again.
Kill(i) ==
    /\ sent + faults < MaxEvents /\ faults' = faults + 1
    /\ linked' = [linked EXCEPT ![i] = FALSE]
    /\ left' = left \cup ToSet(wss[i])
    /\ wss' = [wss EXCEPT ![i] = <<>>]
    /\ work' = [work EXCEPT ![i] = Idle]
    /\ inbox' = [inbox EXCEPT ![i] = <<>>]
    /\ answers' = [answers EXCEPT ![i] = {}]
    /\ asking' = [c \in Conns |-> IF i \in Homes(c) THEN Idle ELSE asking[c]]
    /\ UNCHANGED <<epoch, brokerVars, sent, delivered, reused>>

\* The broker dies and is started again, with empty tables.
RestartBroker ==
    /\ sent + faults < MaxEvents /\ faults' = faults + 1
    /\ up' = <<>> /\ open' = {} /\ pending' = {} /\ wire' = [l \in Links |-> <<>>]
    /\ UNCHANGED <<instVars, sent, left, delivered, reused>>

-----------------------------------------------------------------------------

WorkStep(i) == Dial(i) \/ TakeQuery(i) \/ Distribute(i) \/ Distributed(i) \/ TakeReply(i)
BrokerStep(l) == BrokerReq(l) \/ BrokerSuccess(l) \/ BrokerFailure(l) \/ BrokerEof(l)

HubNext ==
    \/ \E i \in Instances, c \in Conns :
         \/ Register(i, c) \/ Disconnect(i, c)
         \/ AskUnlinked(i, c) \/ AskBrokenPipe(i, c)
         \/ \E id \in Ids, notify \in BOOLEAN : Ask(i, c, id, notify)
         \/ Poll(i, c) \/ TimeOut(i, c)
    \/ \E i \in Instances : WorkStep(i) \/ ReadReset(i) \/ Kill(i)
    \/ \E l \in Links : BrokerStep(l)
    \/ RestartBroker

HubSpec == HubInit /\ [][HubNext]_hubVars

-----------------------------------------------------------------------------
(* Properties.                                                             *)

HubTypeOK ==
    /\ linked \in [Instances -> BOOLEAN] /\ epoch \in [Instances -> 0 .. MaxEpoch]
    /\ \A i \in Instances : ToSet(wss[i]) \subseteq Conns /\ IsInjective(wss[i])
    /\ \A i \in Instances : ToSet(inbox[i]) \subseteq Message
    /\ \A l \in Links : ToSet(wire[l]) \subseteq Message
    /\ ToSet(up) \subseteq open /\ open \subseteq Links /\ IsInjective(up)
    /\ \A p, r \in pending : p.id = r.id => p = r
    /\ \A i \in Instances : \A a, b \in answers[i] : a.id = b.id => a = b

\* A message is never sent a second time on a connection.  And it is sent on
\* every connection of an instance that stays registered while the instance
\* distributes it, except one whose own notify is in flight, whoever sent the
\* message, and unless another one of the same code leaves meanwhile, which
\* makes the loop over the list skip the next.
EveryoneOnce ==
    \A i \in Instances : Busy(i) =>
        IF work[i].k \in DOMAIN wss[i]
        THEN <<work[i].q, wss[i][work[i].k]>> \notin delivered
        ELSE work[i].shifted \/ \A c \in work[i].must : <<work[i].q, c>> \in delivered

\* The protocol by itself never loses an instance: without a fault and an id
\* drawn twice no exception ends a handler of the broker.  (With one, an
\* instance that merely replied to a dead one is thrown off the list, too.)
LinksStayUp ==
    (faults = 0 /\ ~reused) =>
        \A i \in Instances : linked[i] => LinkOf(i) \in ToSet(up)

\* Without a fault and an id drawn twice no send that still waits is answered
\* False: the watchdog that sends is itself a connection of its code, on an
\* instance that is asked like any other, so the e-mail that device control
\* sends "or" else is left for delays only.
SenderIsFound ==
    (faults = 0 /\ ~reused) =>
        \A i \in Instances, c \in Conns : \A k \in DOMAIN inbox[i] :
            (asking[c].at = "wait" /\ inbox[i][k].type = "rep" /\ inbox[i][k].q = asking[c].q)
                => inbox[i][k].ok

\* Without a fault and an id drawn twice no question hangs at the broker: each
\* one waits for somebody, and everybody it waits for has the question before
\* him, is distributing the message, or has sent the reply.
QueryOwed ==
    (faults = 0 /\ ~reused) =>
        \A p \in pending :
            /\ p.wait # {}
            /\ \A l \in p.wait :
                 \/ Req(p.q, p.id) \in ToSet(inbox[l[1]])
                 \/ Busy(l[1]) /\ work[l[1]].q = p.q
                 \/ \E ok \in BOOLEAN : Rep(p.q, p.id, ok) \in ToSet(wire[l])

=============================================================================
