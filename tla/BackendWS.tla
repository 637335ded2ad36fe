----------------------------- MODULE BackendWS ------------------------------
(***************************************************************************)
(* The websocket client that the watchdog's bridge keeps for each backend  *)
(* (addon-sdk-python/bitahoy_sdk/backend.py): authenticate(), any number   *)
(* of concurrent request()s, the listen task and the keepalive task, all   *)
(* on one event loop, over connections that can die.                       *)
(*                                                                         *)
(* A step is what runs between two suspension points.  Sending on a        *)
(* websocket, and closing one that is already dead, do not suspend, so the *)
(* exception handler of __action is part of the step whose send or recv    *)
(* raises.  The server answers the messages of a connection one by one     *)
(* (backend_lib's Websocket_Wrapper.listen); it is modelled here only as   *)
(* far as the client sees it.                                              *)
(***************************************************************************)
EXTENDS Naturals, Sequences

CONSTANTS
  Requests,  (* calls of request(), each made once                         *)
  Action,    (* Action[q]: the action that q asks for                      *)
  Echoed,    (* actions of which the server also sends a notification to
                the client that asked (device_control's websocket_manager
                .send goes to every connection of the watchdog)            *)
  Retries,   (* the retries=3 of __action                                  *)
  MaxConns   (* bound: how often the application authenticates             *)

ASSUME BackendAssumption ==
  /\ Retries \in Nat \ {0}
  /\ MaxConns \in Nat \ {0}
  /\ DOMAIN Action = Requests
  /\ \A q \in Requests : Action[q] \notin {"auth", "keepalive"}  \* no caller asks for these
  /\ Requests \cap {"push", "token", "ok", "refused", "timer"} = {}

Actions == {Action[q] : q \in Requests}

VARIABLES
  ws,             (* self.ws: a connection's number, 0 for None            *)
  authenticated,  (* self.authenticated (self.timeout is set with it)      *)
  callback_list,  (* self.__callback_list: per action, who waits for it    *)
  auth,           (* authenticate(): "idle", "token", "wait"               *)
  pc,             (* pc[q]: "idle", "action" (in __action), "future", "done" *)
  tries,          (* tries[q]: the argument `retries` of q's __action      *)
  fut,            (* fut[q]: <<>> or <<the message that resolved it>>      *)
  listen,         (* the listen task: "wait", "recv", "gone"               *)
  ltries,         (* the argument `retries` of its __action                *)
  keepalive,      (* the keepalive task: "sleep", "action", "gone"         *)
  conn,           (* how many connections have been opened                 *)
  open,           (* whether the last of them is open                      *)
  accepted,       (* whether the server has accepted its token             *)
  up, down,       (* messages on it to and from the server                 *)
  sent,           (* history: the connection on which q was sent, or 0     *)
  executed        (* history: how often the server has executed q          *)

client == <<ws, authenticated, callback_list>>
request == <<pc, tries, fut, sent>>
tasks == <<auth, listen, ltries, keepalive>>
server == <<conn, open, accepted, up, down, executed>>

vars == <<client, request, tasks, server>>

Nobody == [a \in Actions |-> <<>>]

Init ==
  /\ ws = 0
  /\ authenticated = FALSE
  /\ callback_list = Nobody
  /\ auth = "idle"
  /\ pc = [q \in Requests |-> "idle"]
  /\ tries = [q \in Requests |-> Retries]
  /\ fut = [q \in Requests |-> <<>>]
  /\ listen = "wait"
  /\ ltries = Retries
  /\ keepalive = "sleep"
  /\ conn = 0
  /\ open = FALSE
  /\ accepted = FALSE
  /\ up = <<>>
  /\ down = <<>>
  /\ sent = [q \in Requests |-> 0]
  /\ executed = [q \in Requests |-> 0]

Asks(q) == [action |-> Action[q], from |-> q]
Pushes(a) == [action |-> a, from |-> "push"]
Auth(answer) == [action |-> "auth", from |-> answer]
Keepalive == [action |-> "keepalive", from |-> "timer"]

(* The exception handler of __action for a closed connection: forget the   *)
(* connection, drop every callback (each is called with None, which those  *)
(* of request() ignore).                                                   *)
CallbacksKept ==                                                 \* mutant
  /\ ws' = 0
  /\ authenticated' = FALSE
  /\ UNCHANGED callback_list

WsKept ==                                                        \* mutant
  /\ callback_list' = Nobody
  /\ authenticated' = FALSE
  /\ UNCHANGED ws

Lost ==
  /\ ws' = 0
  /\ authenticated' = FALSE
  /\ callback_list' = Nobody

-----------------------------------------------------------------------------
(* authenticate().                                                         *)

(* Its tests at lines 81 and 83 come to this: connect unless               *)
(* authenticated.  Opening takes a round trip, by which time the loop has  *)
(* resumed a listen task that was reading a dead connection.               *)
Connected ==
  /\ auth = "idle"
  /\ ~authenticated
  /\ keepalive # "gone"
  /\ listen # "recv"
  /\ conn < MaxConns
  /\ conn' = conn + 1
  /\ ws' = conn + 1
  /\ open' = TRUE
  /\ accepted' = FALSE
  /\ up' = <<>>
  /\ down' = <<>>
  /\ auth' = "token"
  /\ UNCHANGED <<authenticated, callback_list, request, listen, ltries,
                 keepalive, executed>>

(* The token has been fetched and is sent; if the connection is gone by    *)
(* then, __action waits for another one.                                   *)
SendAuth ==
  /\ auth = "token"
  /\ ws # 0
  /\ IF open
     THEN /\ up' = Append(up, Auth("token"))
          /\ auth' = "wait"
          /\ UNCHANGED client
     ELSE Lost /\ UNCHANGED <<up, auth>>
  /\ UNCHANGED <<request, listen, ltries, keepalive, conn, open, accepted,
                 down, executed>>

-----------------------------------------------------------------------------
(* request().                                                              *)

(* Every user of this class makes its requests after authenticate() has    *)
(* returned (bridge.py:165-177, test_utils.py:54, 75).                     *)
Request(q) ==
  /\ pc[q] = "idle"
  /\ auth = "idle"
  /\ conn > 0
  /\ pc' = [pc EXCEPT ![q] = "action"]
  /\ UNCHANGED <<client, tries, fut, sent, tasks, server>>

SentAgain(q) ==                                                  \* mutant
  /\ pc' = [pc EXCEPT ![q] = IF tries[q] > 1 THEN "action" ELSE "future"]
  /\ tries' = [tries EXCEPT ![q] = IF @ > 1 THEN @ - 1 ELSE @]

(* `return await fun()`.                                                   *)
Sent(q) ==
  /\ pc' = [pc EXCEPT ![q] = "future"]
  /\ UNCHANGED tries

(* `if retries > 1: return await self.__action(fun, retries - 1)`, and     *)
(* otherwise on to `return await fut`.                                     *)
SendFailed(q) ==
  /\ pc' = [pc EXCEPT ![q] = IF tries[q] > 1 THEN "action" ELSE "future"]
  /\ tries' = [tries EXCEPT ![q] = IF @ > 1 THEN @ - 1 ELSE @]

(* Past the wait for a websocket: add_callback, then send.                 *)
SendRequest(q) ==
  /\ pc[q] = "action"
  /\ ws # 0
  /\ IF open
     THEN /\ callback_list' = [callback_list EXCEPT ![Action[q]] = Append(@, q)]
          /\ up' = Append(up, Asks(q))
          /\ sent' = [sent EXCEPT ![q] = ws]
          /\ Sent(q)
          /\ UNCHANGED <<ws, authenticated>>
     ELSE /\ Lost
          /\ SendFailed(q)
          /\ UNCHANGED <<up, sent>>
  /\ UNCHANGED <<fut, tasks, conn, open, accepted, down, executed>>

-----------------------------------------------------------------------------
(* The keepalive task.                                                     *)

(* keepalive_wrapper: the sleep is over and self.timeout is set.  Bound:   *)
(* one keepalive at a time under way.                                      *)
KeepaliveDue ==
  /\ keepalive = "sleep"
  /\ authenticated
  /\ \A i \in 1..Len(up) : up[i] # Keepalive
  /\ \A i \in 1..Len(down) : down[i] # Keepalive
  /\ keepalive' = "action"
  /\ UNCHANGED <<client, request, auth, listen, ltries, server>>

(* A failed attempt leaves no websocket, so the next one waits.            *)
SendKeepalive ==
  /\ keepalive = "action"
  /\ ws # 0
  /\ IF open
     THEN /\ up' = Append(up, Keepalive)
          /\ keepalive' = "sleep"
          /\ UNCHANGED client
     ELSE Lost /\ UNCHANGED <<up, keepalive>>
  /\ UNCHANGED <<request, auth, listen, ltries, conn, open, accepted, down,
                 executed>>

-----------------------------------------------------------------------------
(* The listen task.                                                        *)

ListenStart ==
  /\ listen = "wait"
  /\ ws # 0
  /\ listen' = "recv"
  /\ UNCHANGED <<client, request, auth, ltries, keepalive, server>>

AllPopped(waiting) ==                                            \* mutant
  [first |-> Head(waiting), rest |-> <<>>]

(* pop_callback.                                                           *)
Popped(waiting) == [first |-> Head(waiting), rest |-> Tail(waiting)]

(* on_receive_callback of the request that has waited longest for this     *)
(* action.                                                                 *)
Resolve(msg) ==
  LET popped == Popped(callback_list[msg.action]) IN
  /\ callback_list' = [callback_list EXCEPT ![msg.action] = popped.rest]
  /\ fut' = [fut EXCEPT ![popped.first] = <<msg>>]
  /\ pc' = [pc EXCEPT ![popped.first] = "done"]
  /\ UNCHANGED <<ws, authenticated, auth>>

(* auth_callback; notify_all lets authenticate() return.                   *)
AuthCallback ==
  /\ authenticated' = TRUE
  /\ auth' = IF auth = "wait" THEN "idle" ELSE auth
  /\ UNCHANGED <<ws, callback_list, fut, pc>>

(* A message is dispatched and the loop reads on, from self.ws.  A         *)
(* notification or an answer nobody waits for reaches a registered         *)
(* callback or a warning, which change nothing here.                       *)
Receive ==
  /\ listen = "recv"
  /\ down # <<>>
  /\ LET msg == Head(down) IN
       \/ /\ msg.action \in Actions
          /\ callback_list[msg.action] # <<>>
          /\ Resolve(msg)
       \/ /\ msg = Auth("ok")
          /\ AuthCallback
       \/ /\ msg # Auth("ok")
          /\ msg.action \in Actions => callback_list[msg.action] = <<>>
          /\ UNCHANGED <<client, fut, pc, auth>>
  /\ down' = Tail(down)
  /\ ltries' = Retries
  /\ listen' = IF ws # 0 THEN "recv" ELSE "wait"
  /\ UNCHANGED <<tries, sent, keepalive, conn, open, accepted, up, executed>>

(* recv() raises once all that had arrived is read.  After the last try    *)
(* __action returns None, listen raises TimeoutError and the task is over. *)
ListenLost ==
  /\ listen = "recv"
  /\ ~open
  /\ down = <<>>
  /\ Lost
  /\ IF ltries > 1
     THEN listen' = "wait" /\ ltries' = ltries - 1
     ELSE listen' = "gone" /\ UNCHANGED ltries
  /\ UNCHANGED <<request, auth, keepalive, server>>

(* close(): forget the connection, cancel both tasks, close it.            *)
Close ==
  /\ ws # 0
  /\ auth = "idle"
  /\ ws' = 0
  /\ authenticated' = FALSE
  /\ listen' = "gone"
  /\ keepalive' = "gone"
  /\ open' = FALSE
  /\ up' = <<>>
  /\ down' = <<>>
  /\ UNCHANGED <<callback_list, request, auth, ltries, conn, accepted, executed>>

-----------------------------------------------------------------------------
(* The network and the server.                                             *)

(* The connection dies; some of what the server has sent still arrives.    *)
Die ==
  /\ open
  /\ open' = FALSE
  /\ up' = <<>>
  /\ \E n \in 0..Len(down) : down' = SubSeq(down, 1, n)
  /\ UNCHANGED <<client, request, tasks, conn, accepted, executed>>

(* The first message has to be a token; the server takes it or closes.     *)
ServeFirst ==
  /\ open /\ up # <<>>
  /\ ~accepted
  /\ up' = Tail(up)
  /\ \/ /\ Head(up) = Auth("token")
        /\ down' = Append(down, Auth("ok"))
        /\ accepted' = TRUE
        /\ UNCHANGED open
     \/ /\ down' = Append(down, Auth("refused"))
        /\ open' = FALSE
        /\ UNCHANGED accepted
  /\ UNCHANGED <<client, request, tasks, conn, executed>>

(* Then every message is executed and answered before the next is read.    *)
Serve ==
  /\ open /\ up # <<>>
  /\ accepted
  /\ LET msg == Head(up)
         push == IF msg.action \in Echoed THEN <<Pushes(msg.action)>> ELSE <<>>
     IN  /\ down' = down \o push \o <<msg>>
         /\ executed' = IF msg.from \in Requests
                        THEN [executed EXCEPT ![msg.from] = @ + 1]
                        ELSE executed
  /\ up' = Tail(up)
  /\ UNCHANGED <<client, request, tasks, conn, open, accepted>>

-----------------------------------------------------------------------------
ListenStep == ListenStart \/ Receive \/ ListenLost

Next ==
  \/ Connected \/ SendAuth
  \/ \E q \in Requests : Request(q) \/ SendRequest(q)
  \/ KeepaliveDue \/ SendKeepalive
  \/ ListenStep
  \/ Close
  \/ Die \/ ServeFirst \/ Serve

(* The loop resumes every task that can go on and the server answers what  *)
(* it reads; nothing obliges the application to call anything, nor a       *)
(* connection to live or to die.                                           *)
Fairness ==
  /\ WF_vars(ListenStep)
  /\ WF_vars(SendAuth)
  /\ WF_vars(SendKeepalive)
  /\ \A q \in Requests : WF_vars(SendRequest(q))
  /\ WF_vars(ServeFirst \/ Serve)

Spec == Init /\ [][Next]_vars /\ Fairness

-----------------------------------------------------------------------------
(* Types; and whoever waits in callback_list waits for a future that is    *)
(* not resolved yet, so line 162 never resolves one twice.                 *)
Message == [action : Actions \cup {"auth", "keepalive"},
            from : Requests \cup {"push", "token", "ok", "refused", "timer"}]

TypeOK ==
  /\ ws \in {0, conn}
  /\ authenticated \in BOOLEAN
  /\ callback_list \in [Actions -> Seq(Requests)]
  /\ \A a \in Actions : \A i \in 1..Len(callback_list[a]) :
       /\ pc[callback_list[a][i]] = "future"
       /\ fut[callback_list[a][i]] = <<>>
  /\ auth \in {"idle", "token", "wait"}
  /\ pc \in [Requests -> {"idle", "action", "future", "done"}]
  /\ tries \in [Requests -> 1..Retries]
  /\ \A q \in Requests : fut[q] = <<>> \/ fut[q][1] \in Message
  /\ listen \in {"wait", "recv", "gone"}
  /\ ltries \in 1..Retries
  /\ keepalive \in {"sleep", "action", "gone"}
  /\ conn \in 0..MaxConns
  /\ open \in BOOLEAN /\ accepted \in BOOLEAN
  /\ up \in Seq(Message) /\ down \in Seq(Message)
  /\ sent \in [Requests -> 0..MaxConns]
  /\ executed \in [Requests -> Nat]

(* Answers carry no identity: the client matches them to requests by the   *)
(* action's name and by position (lines 183-190, 209-211).  Where the      *)
(* server sends nothing else under that name, every request still gets its *)
(* own answer, across lost connections and with several requests waiting.  *)
OwnAnswer ==
  \A q \in Requests :
    fut[q] # <<>> /\ Action[q] \notin Echoed => fut[q] = <<Asks(q)>>

(* The retries of lines 130-131 never make the server execute a request    *)
(* twice: only a request that cannot have been sent is sent again.         *)
AtMostOnce == \A q \in Requests : executed[q] <= 1

(* What a request is sent on either answers it or is lost: the callback is *)
(* there before the answer can be, and is taken by nobody else.            *)
AnsweredOrLost ==
  \A q \in Requests :
    pc[q] = "future" /\ sent[q] = conn /\ open ~> pc[q] = "done" \/ ~open

(* A dead connection does not stay in self.ws, where every later request   *)
(* would be sent to it (lines 109-112).                                    *)
LossNoticed == conn > 0 /\ ~open ~> open \/ ws = 0

(* backend.py:160 of a request whose connection died: "will be retried".   *)
(* If the client is connected and authenticated for good, every request    *)
(* that was made is answered in the end.                                   *)
RetriedAfterLoss ==
  \A q \in Requests :
    <>[](open /\ ws # 0 /\ authenticated) => [](pc[q] # "idle" => <>(pc[q] = "done"))

(* device_control_backend/README.md:24-25: the server replies to a command *)
(* with {"success": ..., "action": ...}.  What request() returns is that   *)
(* reply.                                                                  *)
RequestReturnsReply ==
  \A q \in Requests : fut[q] # <<>> => fut[q][1].from # "push"
=============================================================================
