-------------------------- MODULE BackendWSProofs --------------------------
(***************************************************************************)
(* The websocket client, for any requests, any actions and any number of   *)
(* connections and retries: its variables keep their types, whoever waits  *)
(* for an answer waits once and has none yet, the server executes nothing  *)
(* twice, and what a request returns is its own answer.                    *)
(***************************************************************************)
EXTENDS BackendWS, SequenceTheorems, TLAPS

-----------------------------------------------------------------------------
(* The inductive invariant.                                                *)

(* What TypeOK says of each variable, and that the futures are sequences.  *)
Types ==
  /\ ws \in {0, conn} /\ conn \in 0..MaxConns
  /\ authenticated \in BOOLEAN /\ open \in BOOLEAN /\ accepted \in BOOLEAN
  /\ callback_list \in [Actions -> Seq(Requests)]
  /\ auth \in {"idle", "token", "wait"}
  /\ pc \in [Requests -> {"idle", "action", "future", "done"}]
  /\ tries \in [Requests -> 1..Retries]
  /\ fut \in [Requests -> Seq(Message)]
  /\ listen \in {"wait", "recv", "gone"} /\ ltries \in 1..Retries
  /\ keepalive \in {"sleep", "action", "gone"}
  /\ up \in Seq(Message) /\ down \in Seq(Message)
  /\ sent \in [Requests -> 0..MaxConns]
  /\ executed \in [Requests -> Nat]

Early(q) == pc[q] \in {"idle", "action"}

(* A request waits at one place of one list, after it was made and before  *)
(* it is answered.                                                         *)
Waiters ==
  /\ \A a \in Actions : \A i \in 1..Len(callback_list[a]) :
       /\ pc[callback_list[a][i]] = "future"
       /\ fut[callback_list[a][i]] = <<>>
  /\ \A a, b \in Actions : \A i \in 1..Len(callback_list[a]), j \in 1..Len(callback_list[b]) :
       callback_list[a][i] = callback_list[b][j] => a = b /\ i = j
  /\ \A q \in Requests : Early(q) => fut[q] = <<>>

(* A request is on its way to the server at most once, not before it was   *)
(* sent, and not after it was executed.                                    *)
OnTheWay ==
  \A q \in Requests :
    /\ \A i, j \in 1..Len(up) : up[i].from = q /\ up[j].from = q => i = j
    /\ \A i \in 1..Len(up) : up[i].from = q => ~Early(q) /\ executed[q] = 0
    /\ Early(q) => executed[q] = 0
    /\ executed[q] <= 1

IInv == Types /\ Waiters /\ OnTheWay

-----------------------------------------------------------------------------
(* Facts that several actions need.                                        *)

LEMMA Bounds == Retries \in Nat \ {0} /\ MaxConns \in Nat \ {0}
  BY BackendAssumption

(* The four kinds of messages, and that only a request's comes from one.   *)
LEMMA Messages ==
  /\ \A q \in Requests : Asks(q) \in Message /\ Asks(q).from = q
  /\ \A t \in {"token", "ok", "refused"} : Auth(t) \in Message /\ Auth(t).from \notin Requests
  /\ Keepalive \in Message /\ Keepalive.from \notin Requests
  /\ \A a \in Actions : Pushes(a) \in Message
<1>1. \A q \in Requests : Action[q] \in Actions
  BY DEF Actions
<1> QED
  BY <1>1, BackendAssumption DEF Message, Asks, Auth, Keepalive, Pushes

(* Forgetting a connection leaves nobody waiting.                          *)
LEMMA LostIsClean ==
  ASSUME Types, Lost
  PROVE  /\ ws' = 0 /\ authenticated' \in BOOLEAN
         /\ callback_list' \in [Actions -> Seq(Requests)]
         /\ \A a \in Actions : Len(callback_list'[a]) = 0
<1>1. callback_list' = [a \in Actions |-> <<>>]
  BY DEF Lost, Nobody
<1>2. <<>> \in Seq(Requests) /\ Len(<<>>) = 0
  OBVIOUS
<1>3. callback_list' \in [Actions -> Seq(Requests)]
  BY <1>1, <1>2
<1>4. \A a \in Actions : Len(callback_list'[a]) = 0
  BY <1>1, <1>2
<1> QED
  BY <1>3, <1>4 DEF Lost

(* Another message at the end of what is on its way.                       *)
LEMMA OneMore ==
  ASSUME NEW s \in Seq(Message), NEW m \in Message
  PROVE  /\ Append(s, m) \in Seq(Message)
         /\ Len(Append(s, m)) = Len(s) + 1
         /\ \A i \in 1..Len(s) : Append(s, m)[i] = s[i]
         /\ Append(s, m)[Len(s) + 1] = m
OBVIOUS

(* One message less at its beginning.                                      *)
LEMMA OneLess ==
  ASSUME NEW S, NEW s \in Seq(S), s # <<>>
  PROVE  /\ Head(s) \in S /\ Head(s) = s[1] /\ Len(s) \in Nat \ {0}
         /\ Tail(s) \in Seq(S)
         /\ Len(Tail(s)) = Len(s) - 1
         /\ \A i \in 1..Len(Tail(s)) : Tail(s)[i] = s[i + 1]
OBVIOUS

LEMMA InitIInv == Init => IInv
<1> SUFFICES ASSUME Init PROVE IInv
  OBVIOUS
<1>1. Types
  <2>1. callback_list \in [Actions -> Seq(Requests)]
    <3>1. <<>> \in Seq(Requests)
      OBVIOUS
    <3> QED
      BY <3>1 DEF Init, Nobody
  <2>2. up \in Seq(Message) /\ down \in Seq(Message)
    BY DEF Init
  <2>3. fut \in [Requests -> Seq(Message)]
    <3>1. <<>> \in Seq(Message)
      OBVIOUS
    <3> QED
      BY <3>1 DEF Init
  <2>4. /\ tries \in [Requests -> 1..Retries] /\ ltries \in 1..Retries
        /\ sent \in [Requests -> 0..MaxConns] /\ executed \in [Requests -> Nat]
    BY Bounds DEF Init
  <2>5. /\ ws \in {0, conn} /\ conn \in 0..MaxConns
        /\ pc \in [Requests -> {"idle", "action", "future", "done"}]
    BY Bounds DEF Init
  <2> QED
    BY <2>1, <2>2, <2>3, <2>4, <2>5 DEF Init, Types
<1>2. Waiters
  BY DEF Init, Waiters, Nobody, Early
<1>3. OnTheWay
  <2>1. \A i \in 1..Len(up) : FALSE
    <3>1. Len(up) = 0
      BY DEF Init
    <3> QED
      BY <3>1
  <2>2. \A q \in Requests : executed[q] = 0
    BY DEF Init
  <2>3. ASSUME NEW q \in Requests PROVE executed[q] <= 1
    <3>1. executed[q] = 0 /\ executed[q] \in Nat
      BY <1>1, <2>2 DEF Types
    <3> QED
      BY <3>1
  <2> QED
    BY <2>1, <2>2, <2>3 DEF OnTheWay
<1> QED
  BY <1>1, <1>2, <1>3 DEF IInv

-----------------------------------------------------------------------------
(* authenticate(), and what touches neither requests nor their messages.   *)

LEMMA ConnectedIInv == IInv /\ Connected => IInv'
<1> SUFFICES ASSUME IInv, Connected PROVE IInv'
  OBVIOUS
<1> USE DEF IInv
<1>1. Types'
  <2>1. ws' \in {0, conn'} /\ conn' \in 0..MaxConns
    BY Bounds DEF Types, Connected
  <2>2. up' \in Seq(Message) /\ down' \in Seq(Message)
    BY DEF Connected
  <2> QED
    BY <2>1, <2>2 DEF Types, Connected, request
<1>2. Waiters'
  BY DEF Waiters, Connected, request, Early
<1>3. OnTheWay'
  BY DEF Types, OnTheWay, Connected, request, Early
<1> QED
  BY <1>1, <1>2, <1>3

(* The invariant only depends on these of the variables.                   *)
LEMMA SameUp ==
  ASSUME OnTheWay, UNCHANGED <<up, pc, executed>>
  PROVE  OnTheWay'
BY DEF OnTheWay, Early

LEMMA NoRequestSent ==
  ASSUME Types, OnTheWay, UNCHANGED <<pc, executed>>,
         NEW m \in Message, m.from \notin Requests, up' = Append(up, m)
  PROVE  OnTheWay'
<1>1. \A i \in 1..Len(up') : \A q \in Requests :
        up'[i].from = q => i \in 1..Len(up) /\ up'[i] = up[i]
  BY OneMore DEF Types
<1> QED
  BY <1>1 DEF OnTheWay, Early

LEMMA SameWaiters ==
  ASSUME Waiters, UNCHANGED <<callback_list, pc, fut>>
  PROVE  Waiters'
BY DEF Waiters, Early

LEMMA NobodyWaits ==
  ASSUME Types, Waiters, Lost, UNCHANGED fut,
         \A q \in Requests : Early(q)' => Early(q)
  PROVE  Waiters'
BY LostIsClean DEF Waiters

LEMMA SendAuthIInv == IInv /\ SendAuth => IInv'
<1> SUFFICES ASSUME IInv, SendAuth PROVE IInv'
  OBVIOUS
<1> USE DEF IInv
<1>1. CASE open
  <2>1. up' = Append(up, Auth("token")) /\ auth' = "wait" /\ UNCHANGED <<client, request>>
    BY <1>1 DEF SendAuth
  <2>2. Types'
    BY <2>1, OneMore, Messages DEF SendAuth, Types, client, request
  <2>3. Waiters'
    BY <2>1, SameWaiters DEF client, request
  <2>4. OnTheWay'
    BY <2>1, Messages, NoRequestSent DEF SendAuth, request
  <2> QED
    BY <2>2, <2>3, <2>4
<1>2. CASE ~open
  <2>1. Lost /\ UNCHANGED <<up, auth, request>>
    BY <1>2 DEF SendAuth
  <2>2. Types'
    BY <2>1, LostIsClean DEF SendAuth, Types, request
  <2>3. Waiters'
    BY <2>1, NobodyWaits DEF request, Early
  <2>4. OnTheWay'
    BY <2>1, SameUp DEF SendAuth, request
  <2> QED
    BY <2>2, <2>3, <2>4
<1> QED
  BY <1>1, <1>2

LEMMA KeepaliveIInv == IInv /\ (KeepaliveDue \/ SendKeepalive) => IInv'
<1> SUFFICES ASSUME IInv, KeepaliveDue \/ SendKeepalive PROVE IInv'
  OBVIOUS
<1> USE DEF IInv
<1>1. CASE KeepaliveDue
  <2>1. Types'
    BY <1>1 DEF KeepaliveDue, Types, client, request, server
  <2> QED
    BY <1>1, <2>1, SameWaiters, SameUp DEF KeepaliveDue, client, request, server
<1>2. CASE SendKeepalive /\ open
  <2>1. up' = Append(up, Keepalive) /\ keepalive' = "sleep" /\ UNCHANGED <<client, request>>
    BY <1>2 DEF SendKeepalive
  <2>2. Types'
    BY <1>2, <2>1, OneMore, Messages DEF SendKeepalive, Types, client, request
  <2>3. Waiters'
    BY <2>1, SameWaiters DEF client, request
  <2>4. OnTheWay'
    BY <1>2, <2>1, Messages, NoRequestSent DEF SendKeepalive, request
  <2> QED
    BY <2>2, <2>3, <2>4
<1>3. CASE SendKeepalive /\ ~open
  <2>1. Lost /\ UNCHANGED <<up, keepalive, request>>
    BY <1>3 DEF SendKeepalive
  <2>2. Types'
    BY <1>3, <2>1, LostIsClean DEF SendKeepalive, Types, request
  <2>3. Waiters'
    BY <2>1, NobodyWaits DEF request, Early
  <2>4. OnTheWay'
    BY <1>3, <2>1, SameUp DEF SendKeepalive, request
  <2> QED
    BY <2>2, <2>3, <2>4
<1> QED
  BY <1>1, <1>2, <1>3

-----------------------------------------------------------------------------
(* request().                                                              *)

LEMMA RequestIInv == ASSUME NEW q \in Requests PROVE IInv /\ Request(q) => IInv'
<1> SUFFICES ASSUME IInv, Request(q) PROVE IInv'
  OBVIOUS
<1> USE DEF IInv
<1>1. Types'
  BY DEF Request, Types, client, tasks, server
<1>2. \A r \in Requests : pc'[r] = IF r = q THEN "action" ELSE pc[r]
  BY DEF Request, Types
<1>3. Waiters'
  <2>1. UNCHANGED <<callback_list, fut>> /\ Early(q) /\ pc[q] # "future"
    BY DEF Request, client, Early
  <2>2. \A a \in Actions : \A i \in 1..Len(callback_list[a]) : callback_list[a][i] \in Requests
    BY DEF Types
  <2> QED
    BY <1>2, <2>1, <2>2 DEF Waiters, Early
<1>4. OnTheWay'
  BY <1>2 DEF Request, OnTheWay, Early, server
<1> QED
  BY <1>1, <1>3, <1>4

LEMMA SendRequestIInv == ASSUME NEW q \in Requests PROVE IInv /\ SendRequest(q) => IInv'
<1> SUFFICES ASSUME IInv, SendRequest(q) PROVE IInv'
  OBVIOUS
<1> USE DEF IInv
<1>1. Action[q] \in Actions /\ Early(q) /\ pc[q] = "action"
  BY DEF Actions, SendRequest, Early
<1>2. CASE open
  <2> DEFINE a == Action[q]
             old == callback_list[a]
  <2>1. /\ callback_list' = [callback_list EXCEPT ![a] = Append(old, q)]
        /\ up' = Append(up, Asks(q)) /\ sent' = [sent EXCEPT ![q] = ws]
        /\ pc' = [pc EXCEPT ![q] = "future"]
        /\ UNCHANGED <<tries, ws, authenticated, fut, tasks, conn, open, accepted, down, executed>>
    BY <1>2 DEF SendRequest, Sent
  <2>2. old \in Seq(Requests) /\ Append(old, q) \in Seq(Requests)
    BY <1>1 DEF Types
  <2>3. Types'
    <3>1. up' \in Seq(Message)
      BY <2>1, OneMore, Messages DEF Types
    <3>2. callback_list' \in [Actions -> Seq(Requests)]
      BY <1>1, <2>1, <2>2 DEF Types
    <3>3. sent' \in [Requests -> 0..MaxConns] /\ pc' \in [Requests -> {"idle", "action", "future", "done"}]
      BY <2>1, Bounds DEF Types
    <3>4. UNCHANGED <<tries, ws, authenticated, fut, tasks, conn, open, accepted, down, executed>>
      BY <2>1
    <3> HIDE DEF a, old
    <3> QED
      BY <3>1, <3>2, <3>3, <3>4 DEF Types, tasks
  <2>4. \A r \in Requests : pc'[r] = IF r = q THEN "future" ELSE pc[r]
    BY <2>1 DEF Types
  <2>5. Waiters'
    <3>1. \A b \in Actions : callback_list'[b] = IF b = a THEN Append(old, q) ELSE callback_list[b]
      BY <1>1, <2>1 DEF Types
    <3>2. /\ Len(Append(old, q)) = Len(old) + 1 /\ Append(old, q)[Len(old) + 1] = q
          /\ Len(old) \in Nat /\ \A i \in 1..Len(old) : Append(old, q)[i] = old[i]
      BY <2>2
    <3>3. ASSUME NEW b \in Actions, NEW i \in 1..Len(callback_list[b])
          PROVE  callback_list[b][i] \in Requests \ {q}
      <4>1. callback_list[b] \in Seq(Requests)
        BY DEF Types
      <4>2. callback_list[b][i] \in Requests
        BY <4>1
      <4>3. pc[callback_list[b][i]] = "future"
        BY DEF Waiters
      <4> QED
        BY <1>1, <4>2, <4>3
    <3>4. fut' = fut /\ fut[q] = <<>>
      BY <1>1, <2>1 DEF Waiters
    <3>5. \A b \in Actions : \A i \in 1..Len(callback_list'[b]) :
            \/ i \in 1..Len(callback_list[b]) /\ callback_list'[b][i] = callback_list[b][i]
            \/ b = a /\ i = Len(old) + 1 /\ callback_list'[b][i] = q
      <4> SUFFICES ASSUME NEW b \in Actions, NEW i \in 1..Len(callback_list'[b])
                   PROVE  \/ i \in 1..Len(callback_list[b]) /\ callback_list'[b][i] = callback_list[b][i]
                          \/ b = a /\ i = Len(old) + 1 /\ callback_list'[b][i] = q
        OBVIOUS
      <4>1. CASE b = a
        <5>1. callback_list'[b] = Append(old, q) /\ callback_list[b] = old
          BY <1>1, <3>1, <4>1
        <5> HIDE DEF a, old
        <5> QED
          BY <3>2, <4>1, <5>1
      <4>2. CASE b # a
        <5>1. callback_list'[b] = callback_list[b]
          BY <3>1, <4>2
        <5> QED
          BY <5>1
      <4> QED
        BY <4>1, <4>2
    <3>6. \A b \in Actions : \A i \in 1..Len(callback_list'[b]) :
            pc'[callback_list'[b][i]] = "future" /\ fut'[callback_list'[b][i]] = <<>>
      BY <2>4, <3>3, <3>4, <3>5 DEF Waiters
    <3>7. \A b, c \in Actions : \A i \in 1..Len(callback_list'[b]), j \in 1..Len(callback_list'[c]) :
            callback_list'[b][i] = callback_list'[c][j] => b = c /\ i = j
      BY <3>3, <3>5 DEF Waiters
    <3>8. \A r \in Requests : Early(r)' => fut'[r] = <<>>
      BY <2>4, <3>4 DEF Waiters, Early
    <3> QED
      BY <3>6, <3>7, <3>8 DEF Waiters
  <2>6. OnTheWay'
    <3>1. Asks(q) \in Message /\ Asks(q).from = q
      BY Messages
    <3>2. \A i \in 1..Len(up') :
            \/ i \in 1..Len(up) /\ up'[i] = up[i]
            \/ i = Len(up) + 1 /\ up'[i] = Asks(q)
      BY <2>1, <3>1, OneMore DEF Types
    <3>3. \A i \in 1..Len(up) : up[i].from # q
      BY <1>1 DEF OnTheWay
    <3> QED
      BY <1>1, <2>1, <2>4, <3>1, <3>2, <3>3 DEF OnTheWay, Early
  <2> QED
    BY <2>3, <2>5, <2>6
<1>3. CASE ~open
  <2>1. Lost /\ SendFailed(q) /\ UNCHANGED <<up, sent, fut, tasks, conn, open, accepted, down, executed>>
    BY <1>3 DEF SendRequest
  <2>2. \A r \in Requests : r # q => pc'[r] = pc[r]
    BY <2>1 DEF SendFailed, Types
  <2>3. Types'
    <3>1. tries' \in [Requests -> 1..Retries] /\ pc' \in [Requests -> {"idle", "action", "future", "done"}]
      BY <2>1, Bounds DEF SendFailed, Types
    <3>2. UNCHANGED <<up, sent, fut, tasks, conn, open, accepted, down, executed>>
      BY <2>1
    <3> QED
      BY <2>1, <3>1, <3>2, LostIsClean DEF Types, tasks
  <2>4. Waiters'
    BY <1>1, <2>1, <2>2, NobodyWaits DEF Early
  <2>5. OnTheWay'
    BY <1>1, <2>1, <2>2 DEF OnTheWay, Early
  <2> QED
    BY <2>3, <2>4, <2>5
<1> QED
  BY <1>2, <1>3

-----------------------------------------------------------------------------
(* The listen task.                                                        *)

(* The request that has waited longest for its action is answered: it and  *)
(* nobody else leaves the list.                                            *)
LEMMA ResolveIInv ==
  ASSUME IInv, Receive, NEW msg \in Message, msg.action \in Actions,
         callback_list[msg.action] # <<>>, Resolve(msg)
  PROVE  IInv'
<1> USE DEF IInv
<1> DEFINE a == msg.action
           old == callback_list[a]
           q == Head(old)
<1>1. /\ callback_list' = [callback_list EXCEPT ![a] = Tail(old)]
      /\ fut' = [fut EXCEPT ![q] = <<msg>>] /\ pc' = [pc EXCEPT ![q] = "done"]
      /\ UNCHANGED <<ws, authenticated, auth, up, executed>>
  BY DEF Resolve, Popped, Receive
<1>2. /\ old \in Seq(Requests) /\ q \in Requests /\ Tail(old) \in Seq(Requests)
      /\ q = old[1] /\ Len(old) \in Nat \ {0} /\ Len(Tail(old)) = Len(old) - 1
      /\ \A i \in 1..Len(Tail(old)) : Tail(old)[i] = old[i + 1]
  <2>1. old \in Seq(Requests)
    BY DEF Types
  <2> HIDE DEF old
  <2> QED
    BY <2>1, OneLess DEF old
<1>3. Types'
  <2>1. down' \in Seq(Message) /\ down # <<>>
    BY DEF Types, Receive
  <2>2. <<msg>> \in Seq(Message)
    OBVIOUS
  <2>3. /\ listen' \in {"wait", "recv"} /\ ltries' = Retries
        /\ UNCHANGED <<tries, sent, keepalive, conn, open, accepted>>
    BY DEF Receive
  <2>4. fut' \in [Requests -> Seq(Message)]
    BY <1>1, <1>2, <2>2 DEF Types
  <2>5. callback_list' \in [Actions -> Seq(Requests)]
    BY <1>1, <1>2 DEF Types
  <2>6. pc' \in [Requests -> {"idle", "action", "future", "done"}]
    BY <1>1, <1>2 DEF Types
  <2> HIDE DEF a, old, q
  <2>7. ltries' \in 1..Retries
    BY <2>3, Bounds
  <2>8. UNCHANGED <<ws, authenticated, auth, up, executed>>
    BY <1>1
  <2> QED
    BY <2>1, <2>3, <2>4, <2>5, <2>6, <2>7, <2>8 DEF Types
<1>4. \A r \in Requests : r # q => pc'[r] = pc[r] /\ fut'[r] = fut[r]
  BY <1>1 DEF Types
<1>5. pc[q] = "future" /\ pc'[q] = "done"
  <2>1. pc[old[1]] = "future"
    BY <1>2 DEF Waiters
  <2> QED
    BY <1>1, <1>2, <2>1 DEF Types
<1>6. ASSUME NEW b \in Actions, NEW i \in 1..Len(callback_list'[b])
      PROVE  \E k \in 1..Len(callback_list[b]) :
               /\ callback_list'[b][i] = callback_list[b][k]
               /\ callback_list[b][k] \in Requests \ {q}
               /\ k = (IF b = a THEN i + 1 ELSE i)
  <2>1. callback_list[b] \in Seq(Requests)
    BY DEF Types
  <2>2. \A j \in 1..Len(callback_list[b]) : callback_list[b][j] = old[1] => b = a /\ j = 1
    BY <1>2 DEF Waiters
  <2>3. CASE b = a
    <3>1. callback_list'[b] = Tail(old) /\ callback_list[b] = old
      BY <1>1, <2>3 DEF Types
    <3> HIDE DEF a, old, q
    <3> QED
      BY <1>2, <2>1, <2>2, <2>3, <3>1
  <2>4. CASE b # a
    <3>1. callback_list'[b] = callback_list[b]
      BY <1>1, <2>4 DEF Types
    <3> HIDE DEF a, old, q
    <3> QED
      BY <1>2, <2>1, <2>2, <2>4, <3>1
  <2> QED
    BY <2>3, <2>4
<1>7. Waiters'
  <2>1. \A b \in Actions : \A i \in 1..Len(callback_list'[b]) :
          pc'[callback_list'[b][i]] = "future" /\ fut'[callback_list'[b][i]] = <<>>
    <3> SUFFICES ASSUME NEW b \in Actions, NEW i \in 1..Len(callback_list'[b])
                 PROVE  pc'[callback_list'[b][i]] = "future" /\ fut'[callback_list'[b][i]] = <<>>
      OBVIOUS
    <3>1. PICK k \in 1..Len(callback_list[b]) :
            /\ callback_list'[b][i] = callback_list[b][k]
            /\ callback_list[b][k] \in Requests \ {q}
      BY <1>6
    <3>2. pc[callback_list[b][k]] = "future" /\ fut[callback_list[b][k]] = <<>>
      BY DEF Waiters
    <3> HIDE DEF a, old, q
    <3> QED
      BY <1>4, <3>1, <3>2
  <2>2. ASSUME NEW b \in Actions, NEW c \in Actions,
               NEW i \in 1..Len(callback_list'[b]), NEW j \in 1..Len(callback_list'[c]),
               callback_list'[b][i] = callback_list'[c][j]
        PROVE  b = c /\ i = j
    <3>1. PICK k \in 1..Len(callback_list[b]) :
            /\ callback_list'[b][i] = callback_list[b][k]
            /\ k = (IF b = a THEN i + 1 ELSE i)
      BY <1>6
    <3>2. PICK m \in 1..Len(callback_list[c]) :
            /\ callback_list'[c][j] = callback_list[c][m]
            /\ m = (IF c = a THEN j + 1 ELSE j)
      BY <1>6
    <3>3. b = c /\ k = m
      <4>1. callback_list[b][k] = callback_list[c][m]
        BY <2>2, <3>1, <3>2
      <4> HIDE DEF a, old, q
      <4> QED
        BY <4>1 DEF Waiters
    <3>4. callback_list[b] \in Seq(Requests) /\ callback_list'[b] \in Seq(Requests)
      BY <1>3 DEF Types
    <3> HIDE DEF a, old, q
    <3> QED
      BY <3>1, <3>2, <3>3, <3>4
  <2>3. \A r \in Requests : Early(r)' => fut'[r] = <<>>
    BY <1>4, <1>5 DEF Waiters, Early
  <2> QED
    BY <2>1, <2>2, <2>3 DEF Waiters
<1>8. OnTheWay'
  BY <1>1, <1>4, <1>5 DEF OnTheWay, Early
<1> QED
  BY <1>3, <1>7, <1>8

LEMMA ListenIInv == IInv /\ ListenStep => IInv'
<1> SUFFICES ASSUME IInv, ListenStep PROVE IInv'
  OBVIOUS
<1> USE DEF IInv
<1>1. CASE ListenStart
  <2>1. Types'
    BY <1>1 DEF ListenStart, Types, client, request, server
  <2> QED
    BY <1>1, <2>1, SameWaiters, SameUp DEF ListenStart, client, request, server
<1>2. CASE Receive
  <2> DEFINE msg == Head(down)
  <2>1. msg \in Message /\ Tail(down) \in Seq(Message)
    BY <1>2, OneLess DEF Receive, Types
  <2>2. CASE msg.action \in Actions /\ callback_list[msg.action] # <<>> /\ Resolve(msg)
    <3> HIDE DEF msg
    <3> QED
      BY <1>2, <2>1, <2>2, ResolveIInv
  <2>3. CASE UNCHANGED <<ws, callback_list, fut, pc>> /\ authenticated' \in BOOLEAN
             /\ auth' \in {auth, "idle"}
    <3>1. Types'
      BY <1>2, <2>1, <2>3, Bounds DEF Receive, Types
    <3>2. UNCHANGED <<up, executed>>
      BY <1>2 DEF Receive
    <3> QED
      BY <2>3, <3>1, <3>2, SameWaiters, SameUp
  <2>4. AuthCallback => UNCHANGED <<ws, callback_list, fut, pc>> /\ authenticated' \in BOOLEAN
                        /\ auth' \in {auth, "idle"}
    BY DEF AuthCallback
  <2>5. UNCHANGED <<client, fut, pc, auth>> =>
          UNCHANGED <<ws, callback_list, fut, pc>> /\ authenticated' \in BOOLEAN
          /\ auth' \in {auth, "idle"}
    BY DEF client, Types
  <2> QED
    BY <1>2, <2>2, <2>3, <2>4, <2>5 DEF Receive
<1>3. CASE ListenLost
  <2>1. Lost /\ UNCHANGED <<request, auth, keepalive, server>>
    BY <1>3 DEF ListenLost
  <2>2. listen' \in {"wait", "recv", "gone"} /\ ltries' \in 1..Retries
    BY <1>3, Bounds DEF ListenLost, Types
  <2>3. Types'
    BY <2>1, <2>2, LostIsClean DEF Types, request, server
  <2> QED
    BY <2>1, <2>3, NobodyWaits, SameUp DEF request, server, Early
<1> QED
  BY <1>1, <1>2, <1>3 DEF ListenStep

-----------------------------------------------------------------------------
(* close(), the network and the server.                                    *)

(* The connection is gone with what was on its way to the server; some of  *)
(* what the server has sent may still arrive.                              *)
LEMMA GoneIInv == IInv /\ (Close \/ Die) => IInv'
<1> SUFFICES ASSUME IInv, Close \/ Die PROVE IInv'
  OBVIOUS
<1> USE DEF IInv
<1>1. up' = <<>> /\ UNCHANGED <<callback_list, request, executed>>
  BY DEF Close, Die, client
<1>2. down' \in Seq(Message)
  <2>1. CASE Close
    BY <2>1 DEF Close
  <2>2. CASE Die
    <3>1. PICK n \in 0..Len(down) : down' = SubSeq(down, 1, n)
      BY <2>2 DEF Die
    <3>2. down \in Seq(Message)
      BY DEF Types
    <3> QED
      BY <3>1, <3>2
  <2> QED
    BY <2>1, <2>2
<1>3. Types'
  <2>1. up' \in Seq(Message)
    BY <1>1
  <2>2. CASE Close
    BY <1>1, <1>2, <2>1, <2>2 DEF Close, Types, request
  <2>3. CASE Die
    BY <1>1, <1>2, <2>1, <2>3 DEF Die, Types, client, request, tasks
  <2> QED
    BY <2>2, <2>3
<1>4. OnTheWay'
  <2>1. \A i \in 1..Len(up') : FALSE
    BY <1>1
  <2> QED
    BY <1>1, <2>1 DEF OnTheWay, Early, request
<1> QED
  BY <1>1, <1>3, <1>4, SameWaiters DEF request

(* What the server has read is no longer on its way.                       *)
LEMMA ServeFirstIInv == IInv /\ ServeFirst => IInv'
<1> SUFFICES ASSUME IInv, ServeFirst PROVE IInv'
  OBVIOUS
<1> USE DEF IInv
<1>1. up # <<>> /\ up' = Tail(up) /\ UNCHANGED <<client, request, tasks, conn, executed>>
  BY DEF ServeFirst
<1>2. /\ up \in Seq(Message) /\ Len(up) \in Nat \ {0} /\ Tail(up) \in Seq(Message)
      /\ Len(up') = Len(up) - 1 /\ \A i \in 1..Len(up') : up'[i] = up[i + 1]
  BY <1>1, OneLess DEF Types
<1>3. /\ down' \in Seq(Message) /\ open' \in BOOLEAN /\ accepted' \in BOOLEAN
  <2>1. down \in Seq(Message) /\ open \in BOOLEAN /\ accepted \in BOOLEAN
    BY DEF Types
  <2>2. Append(down, Auth("ok")) \in Seq(Message) /\ Append(down, Auth("refused")) \in Seq(Message)
    BY <2>1, Messages, OneMore
  <2> QED
    BY <2>1, <2>2 DEF ServeFirst
<1>4. Types'
  BY <1>1, <1>2, <1>3 DEF Types, client, request, tasks
<1>5. OnTheWay'
  <2>1. ASSUME NEW i \in 1..Len(up') PROVE i + 1 \in 1..Len(up) /\ up'[i] = up[i + 1]
    BY <1>2
  <2>2. ASSUME NEW q \in Requests, NEW i \in 1..Len(up'), NEW j \in 1..Len(up'),
               up'[i].from = q, up'[j].from = q
        PROVE  i = j
    <3>1. i + 1 = j + 1
      BY <2>1, <2>2 DEF OnTheWay
    <3> QED
      BY <3>1
  <2> QED
    BY <1>1, <2>1, <2>2 DEF OnTheWay, Early, request
<1> QED
  BY <1>1, <1>4, <1>5, SameWaiters DEF client, request

(* A request that the server executes was on its way, so it had not been   *)
(* executed, and it was on its way once, so it is not any more.            *)
LEMMA ServeIInv == IInv /\ Serve => IInv'
<1> SUFFICES ASSUME IInv, Serve PROVE IInv'
  OBVIOUS
<1> USE DEF IInv
<1> DEFINE msg == Head(up)
<1>1. /\ up # <<>> /\ up' = Tail(up) /\ UNCHANGED <<client, request, tasks, conn, open, accepted>>
      /\ executed' = IF msg.from \in Requests THEN [executed EXCEPT ![msg.from] = @ + 1]
                                              ELSE executed
  BY DEF Serve
<1>2. /\ up \in Seq(Message) /\ Len(up) \in Nat \ {0} /\ Tail(up) \in Seq(Message)
      /\ Len(up') = Len(up) - 1 /\ \A i \in 1..Len(up') : up'[i] = up[i + 1]
      /\ msg = up[1] /\ msg \in Message
  BY <1>1, OneLess DEF Types
<1>3. down' \in Seq(Message)
  <2> DEFINE push == IF msg.action \in Echoed THEN <<Pushes(msg.action)>> ELSE <<>>
  <2>1. Pushes(msg.action) \in Message
    BY <1>2, BackendAssumption DEF Message, Pushes
  <2> HIDE DEF msg
  <2>2. push \in Seq(Message) /\ <<msg>> \in Seq(Message)
    BY <1>2, <2>1
  <2>3. down' = down \o push \o <<msg>>
    BY DEF Serve, msg
  <2> HIDE DEF push
  <2> QED
    BY <2>2, <2>3 DEF Types
<1>4. Types'
  <2>1. executed' \in [Requests -> Nat]
    BY <1>1 DEF Types
  <2>2. up' \in Seq(Message) /\ UNCHANGED <<client, request, tasks, conn, open, accepted>>
    BY <1>1, <1>2
  <2> HIDE DEF msg
  <2> QED
    BY <1>3, <2>1, <2>2 DEF Types, client, request, tasks
<1>5. ASSUME NEW q \in Requests
      PROVE  executed'[q] = IF msg.from = q THEN executed[q] + 1 ELSE executed[q]
  BY <1>1 DEF Types
<1>6. OnTheWay'
  <2>1. ASSUME NEW i \in 1..Len(up') PROVE i + 1 \in 1..Len(up) /\ up'[i] = up[i + 1]
    BY <1>2
  <2>2. ASSUME NEW q \in Requests, NEW i \in 1..Len(up'), NEW j \in 1..Len(up'),
               up'[i].from = q, up'[j].from = q
        PROVE  i = j
    <3>1. i + 1 = j + 1
      BY <2>1, <2>2 DEF OnTheWay
    <3> QED
      BY <3>1
  <2>3. ASSUME NEW q \in Requests, NEW i \in 1..Len(up'), up'[i].from = q
        PROVE  ~Early(q) /\ executed'[q] = 0
    <3>1. ~Early(q) /\ executed[q] = 0
      BY <2>1, <2>3 DEF OnTheWay
    <3>2. CASE msg.from = q
      <4>1. up[1].from = q /\ up[i + 1].from = q /\ 1 \in 1..Len(up)
        BY <1>2, <2>1, <2>3, <3>2
      <4>2. 1 = i + 1
        BY <2>1, <4>1 DEF OnTheWay
      <4> QED
        BY <4>2
    <3> QED
      BY <1>5, <3>1, <3>2
  <2>4. ASSUME NEW q \in Requests
        PROVE  (Early(q) => executed'[q] = 0) /\ executed'[q] <= 1
    <3>1. CASE msg.from = q
      <4>1. 1 \in 1..Len(up) /\ up[1].from = q
        BY <1>2, <3>1
      <4>2. ~Early(q) /\ executed[q] = 0
        BY <4>1 DEF OnTheWay
      <4> QED
        BY <1>5, <3>1, <4>2
    <3>2. CASE msg.from # q
      BY <1>5, <3>2 DEF OnTheWay
    <3> QED
      BY <3>1, <3>2
  <2>5. \A q \in Requests : Early(q)' <=> Early(q)
    BY <1>1 DEF Early, request
  <2> QED
    BY <2>2, <2>3, <2>4, <2>5 DEF OnTheWay
<1> QED
  BY <1>1, <1>4, <1>6, SameWaiters DEF client, request

-----------------------------------------------------------------------------
(* Every step, and the theorems.                                           *)

LEMMA NextIInv == IInv /\ [Next]_vars => IInv'
<1> SUFFICES ASSUME IInv, [Next]_vars PROVE IInv'
  OBVIOUS
<1>1. CASE UNCHANGED vars
  <2>1. Types'
    BY <1>1 DEF vars, client, request, tasks, server, IInv, Types
  <2> QED
    BY <1>1, <2>1, SameWaiters, SameUp DEF vars, client, request, server, IInv
<1>2. CASE \E q \in Requests : Request(q) \/ SendRequest(q)
  BY <1>2, RequestIInv, SendRequestIInv
<1> QED
  BY <1>1, <1>2, ConnectedIInv, SendAuthIInv, KeepaliveIInv, ListenIInv, GoneIInv,
     ServeFirstIInv, ServeIInv DEF Next

LEMMA Inductive == Spec => []IInv
BY InitIInv, NextIInv, PTL DEF Spec

(* Every variable of the client (backend.py:19-41) keeps its type, and     *)
(* whoever waits in a callback list waits for a future that is not         *)
(* resolved yet, so that line 162 never resolves one twice.                *)
THEOREM FuturesResolvedOnce == Spec => []TypeOK
<1>1. IInv => TypeOK
  <2> SUFFICES ASSUME IInv PROVE TypeOK
    OBVIOUS
  <2>1. \A q \in Requests : fut[q] = <<>> \/ fut[q][1] \in Message
    BY DEF IInv, Types
  <2> QED
    BY <2>1 DEF IInv, Types, Waiters, TypeOK
<1> QED
  BY <1>1, Inductive, PTL

(* The retries of lines 130-131, whatever their number and whenever a      *)
(* connection dies, never make the server execute a request twice.         *)
THEOREM ExecutedOnce == Spec => []AtMostOnce
<1>1. IInv => AtMostOnce
  BY DEF IInv, OnTheWay, AtMostOnce
<1> QED
  BY <1>1, Inductive, PTL
-----------------------------------------------------------------------------
(* Answers and positions.                                                  *)

(* What the listen task will still read from the connection self.ws, if    *)
(* that does not die: what has arrived, and what the server has yet to     *)
(* answer.                                                                 *)
Line == IF ws = 0 THEN <<>> ELSE IF open THEN down \o up ELSE down

(* The messages of s named a are answers to those who wait in w, one for   *)
(* each and in their order, without a gap; and to all of them, or not.     *)
Matches(s, a, w, all) ==
  /\ \A i \in 1..Len(s) : s[i].action = a => \E k \in 1..Len(w) : s[i] = Asks(w[k])
  /\ \A i, j \in 1..Len(s) : s[i].action = a /\ s[i] = s[j] => i = j
  /\ \A i \in 1..Len(s), k, m \in 1..Len(w) : s[i] = Asks(w[k]) /\ m < k =>
       \E j \in 1..Len(s) : j < i /\ s[j] = Asks(w[m])
  /\ all => \A k \in 1..Len(w) : \E i \in 1..Len(s) : s[i] = Asks(w[k])

Placed(a, w) == \A k \in 1..Len(w) : w[k] \in Requests /\ Action[w[k]] = a

(* Without a connection nobody waits, but after close(), when nobody reads; *)
(* and authenticate() is called again only when the connection is gone.    *)
Connection ==
  /\ ws = 0 => \/ \A a \in Actions : callback_list[a] = <<>>
               \/ keepalive = "gone" /\ listen = "gone"
  /\ ws # 0 => authenticated \/ auth # "idle"

Own ==
  /\ \A a \in Actions : Placed(a, callback_list[a])
  /\ \A a \in Actions \ Echoed : ws # 0 => Matches(Line, a, callback_list[a], open)
  /\ OwnAnswer

OInv == IInv /\ Connection /\ Own

-----------------------------------------------------------------------------
(* Sequences of messages that match.                                       *)

(* f takes the messages of s named a to those of t, in their order.        *)
Takes(f, s, t, a) ==
  /\ f \in [1..Len(s) -> Nat]
  /\ \A i, j \in 1..Len(s) : i < j => f[i] < f[j]
  /\ \A i \in 1..Len(s) : s[i].action = a => f[i] \in 1..Len(t) /\ t[f[i]] = s[i]
  /\ \A j \in 1..Len(t) : t[j].action = a => \E i \in 1..Len(s) : s[i].action = a /\ f[i] = j

(* Which answers match depends on the messages named a and on their order. *)
LEMMA SameAnswers ==
  ASSUME NEW s \in Seq(Message), NEW t \in Seq(Message), NEW a, NEW w \in Seq(Requests),
         NEW all \in BOOLEAN, Placed(a, w), Matches(s, a, w, all), NEW f, Takes(f, s, t, a)
  PROVE  Matches(t, a, w, all)
<1> USE DEF Takes
<1>1. \A k \in 1..Len(w) : Asks(w[k]).action = a
  BY DEF Placed, Asks
<1>2. \A i \in 1..Len(t) : t[i].action = a => \E k \in 1..Len(w) : t[i] = Asks(w[k])
  BY DEF Matches
<1>3. \A i, j \in 1..Len(t) : t[i].action = a /\ t[i] = t[j] => i = j
  BY DEF Matches
<1>4. ASSUME NEW i \in 1..Len(t), NEW k \in 1..Len(w), NEW m \in 1..Len(w),
             t[i] = Asks(w[k]), m < k
      PROVE  \E j \in 1..Len(t) : j < i /\ t[j] = Asks(w[m])
  <2>1. PICK x \in 1..Len(s) : s[x].action = a /\ f[x] = i
    BY <1>1, <1>4
  <2>2. s[x] = Asks(w[k])
    BY <1>4, <2>1
  <2>3. PICK y \in 1..Len(s) : y < x /\ s[y] = Asks(w[m])
    <3>1. \A i2 \in 1..Len(s), k2, m2 \in 1..Len(w) : s[i2] = Asks(w[k2]) /\ m2 < k2 =>
            \E j \in 1..Len(s) : j < i2 /\ s[j] = Asks(w[m2])
      BY DEF Matches
    <3> HIDE DEF Takes
    <3> QED
      BY <1>4, <2>2, <3>1
  <2>4. f[y] \in 1..Len(t) /\ t[f[y]] = s[y] /\ f[y] < f[x]
    BY <1>1, <2>3
  <2> QED
    BY <2>1, <2>3, <2>4
<1>5. ASSUME all, NEW k \in 1..Len(w) PROVE \E i \in 1..Len(t) : t[i] = Asks(w[k])
  <2>1. PICK x \in 1..Len(s) : s[x] = Asks(w[k])
    BY <1>5 DEF Matches
  <2> QED
    BY <1>1, <2>1
<1> QED
  BY <1>2, <1>3, <1>4, <1>5 DEF Matches

(* No messages, and nobody who waits.                                      *)
LEMMA NobodyMatches ==
  ASSUME NEW a, NEW all \in BOOLEAN
  PROVE  Matches(<<>>, a, <<>>, all)
<1>1. Len(<<>>) = 0 /\ 1..0 = {}
  OBVIOUS
<1> QED
  BY <1>1 DEF Matches

(* The end of the messages is lost.                                        *)
LEMMA PrefixMatches ==
  ASSUME NEW s \in Seq(Message), NEW t \in Seq(Message), NEW a, NEW w \in Seq(Requests),
         NEW all \in BOOLEAN, Matches(s, a, w, all),
         Len(t) <= Len(s), \A i \in 1..Len(t) : t[i] = s[i]
  PROVE  Matches(t, a, w, FALSE)
<1>1. \A i \in 1..Len(t) : i \in 1..Len(s)
  OBVIOUS
<1>2. ASSUME NEW i \in 1..Len(t), NEW k \in 1..Len(w), NEW m \in 1..Len(w),
             t[i] = Asks(w[k]), m < k
      PROVE  \E j \in 1..Len(t) : j < i /\ t[j] = Asks(w[m])
  <2>1. PICK j \in 1..Len(s) : j < i /\ s[j] = Asks(w[m])
    BY <1>1, <1>2 DEF Matches
  <2> QED
    BY <2>1
<1>3. \A i \in 1..Len(t) : t[i].action = a => \E k \in 1..Len(w) : t[i] = Asks(w[k])
  BY <1>1 DEF Matches
<1>4. \A i, j \in 1..Len(t) : t[i].action = a /\ t[i] = t[j] => i = j
  BY <1>1 DEF Matches
<1> QED
  BY <1>2, <1>3, <1>4 DEF Matches

(* Another message that is not named a.                                    *)
LEMMA OtherMatches ==
  ASSUME NEW s \in Seq(Message), NEW m \in Message, NEW a, NEW w \in Seq(Requests),
         NEW all \in BOOLEAN, Placed(a, w), Matches(s, a, w, all), m.action # a
  PROVE  Matches(Append(s, m), a, w, all)
<1> DEFINE t == Append(s, m)
           f == [i \in 1..Len(s) |-> i]
<1>1. t \in Seq(Message) /\ Len(t) = Len(s) + 1 /\ t[Len(s) + 1] = m
      /\ \A i \in 1..Len(s) : t[i] = s[i]
  BY OneMore
<1>2. f \in [1..Len(s) -> Nat] /\ \A i \in 1..Len(s) : f[i] = i
  OBVIOUS
<1> HIDE DEF f, t
<1>3. \A j \in 1..Len(t) : t[j].action = a => j \in 1..Len(s) /\ s[j].action = a /\ f[j] = j
  BY <1>1, <1>2
<1>4. \A j \in 1..Len(t) : t[j].action = a => \E i \in 1..Len(s) : s[i].action = a /\ f[i] = j
  BY <1>3
<1>5. Takes(f, s, t, a)
  BY <1>1, <1>2, <1>4 DEF Takes
<1>6. Matches(t, a, w, all)
  BY <1>1, <1>5, SameAnswers
<1> QED
  BY <1>6 DEF t

(* One more request, and one more who waits.                               *)
LEMMA AskMatches ==
  ASSUME NEW s \in Seq(Message), NEW q \in Requests, NEW w \in Seq(Requests),
         Placed(Action[q], w), Matches(s, Action[q], w, TRUE), \A k \in 1..Len(w) : w[k] # q
  PROVE  Matches(Append(s, Asks(q)), Action[q], Append(w, q), TRUE)
<1> DEFINE a == Action[q]
           t == Append(s, Asks(q))
           v == Append(w, q)
<1>1. /\ t \in Seq(Message) /\ Len(s) \in Nat /\ Len(t) = Len(s) + 1 /\ t[Len(s) + 1] = Asks(q)
      /\ \A i \in 1..Len(s) : t[i] = s[i]
  BY OneMore, Messages
<1>2. /\ v \in Seq(Requests) /\ Len(w) \in Nat /\ Len(v) = Len(w) + 1 /\ v[Len(w) + 1] = q
      /\ \A i \in 1..Len(w) : v[i] = w[i]
  OBVIOUS
<1>3. \A r \in Requests : Asks(r) = Asks(q) => r = q
  BY DEF Asks
<1>4. Asks(q).action = a
  BY DEF Asks
<1>5. \A k \in 1..Len(w) : w[k] \in Requests /\ Asks(w[k]) # Asks(q)
  BY <1>3
<1>6. \A i \in 1..Len(s) : s[i] # Asks(q)
  BY <1>4, <1>5 DEF Matches
<1> HIDE DEF t, v
<1>7. \A i \in 1..Len(t) : i \in 1..Len(s) \/ i = Len(s) + 1
  BY <1>1
<1>8. \A i \in 1..Len(v) : i \in 1..Len(w) \/ i = Len(w) + 1
  BY <1>2
<1>9. \A i \in 1..Len(s) : i \in 1..Len(t) /\ i < Len(s) + 1
  BY <1>1
<1>10. \A i \in 1..Len(w) : i \in 1..Len(v) /\ i < Len(w) + 1
  BY <1>2
<1>11. Len(v) \in 1..Len(v) /\ Len(t) \in 1..Len(t)
  BY <1>1, <1>2
<1> HIDE DEF a
<1>12. Matches(s, a, w, TRUE)
  BY DEF a
<1>13. \A i \in 1..Len(t) : t[i].action = a => \E k \in 1..Len(v) : t[i] = Asks(v[k])
  BY <1>1, <1>2, <1>7, <1>10, <1>11, <1>12 DEF Matches
<1>14. ASSUME NEW i \in 1..Len(t), NEW j \in 1..Len(t), t[i].action = a, t[i] = t[j]
       PROVE  i = j
  <2>1. i \in 1..Len(s) /\ j \in 1..Len(s) => i = j
    <3>1. \A x, y \in 1..Len(s) : s[x].action = a /\ s[x] = s[y] => x = y
      BY <1>12 DEF Matches
    <3> QED
      BY <1>1, <1>14, <3>1
  <2> QED
    BY <1>1, <1>6, <1>7, <1>14, <2>1
<1>15. \A k \in 1..Len(v) : \E i \in 1..Len(t) : t[i] = Asks(v[k])
  BY <1>1, <1>2, <1>8, <1>9, <1>11, <1>12 DEF Matches
<1>16. ASSUME NEW i \in 1..Len(t), NEW k \in 1..Len(v), NEW m \in 1..Len(v),
              t[i] = Asks(v[k]), m < k
       PROVE  \E j \in 1..Len(t) : j < i /\ t[j] = Asks(v[m])
  <2>1. m \in 1..Len(w)
    BY <1>2, <1>16
  <2>2. CASE i \in 1..Len(s)
    <3>1. k \in 1..Len(w)
      BY <1>1, <1>2, <1>6, <1>8, <1>16, <2>2
    <3>2. s[i] = Asks(w[k])
      BY <1>1, <1>2, <1>16, <2>2, <3>1
    <3>3. PICK j \in 1..Len(s) : j < i /\ s[j] = Asks(w[m])
      BY <1>12, <1>16, <2>1, <2>2, <3>1, <3>2 DEF Matches
    <3> QED
      BY <1>1, <1>2, <1>9, <2>1, <3>3
  <2>3. CASE i = Len(s) + 1
    <3>1. PICK j \in 1..Len(s) : s[j] = Asks(w[m])
      BY <1>12, <2>1 DEF Matches
    <3> QED
      BY <1>1, <1>2, <1>9, <2>1, <2>3, <3>1
  <2> QED
    BY <1>7, <2>2, <2>3
<1>17. Matches(t, a, v, TRUE)
  BY <1>13, <1>14, <1>15, <1>16 DEF Matches
<1> QED
  BY <1>17 DEF a, t, v

(* The first message is the answer to the first who waits.                 *)
LEMMA HeadMatches ==
  ASSUME NEW s \in Seq(Message), NEW a, NEW w \in Seq(Requests), NEW all \in BOOLEAN,
         Placed(a, w), Matches(s, a, w, all), s # <<>>, w # <<>>, Head(s).action = a,
         \A i, j \in 1..Len(w) : w[i] = w[j] => i = j
  PROVE  Head(s) = Asks(Head(w)) /\ Matches(Tail(s), a, Tail(w), all)
<1> DEFINE t == Tail(s)
           v == Tail(w)
<1>1. /\ Head(s) = s[1] /\ Len(s) \in Nat \ {0} /\ Len(t) = Len(s) - 1 /\ t \in Seq(Message)
      /\ \A i \in 1..Len(t) : t[i] = s[i + 1]
  BY OneLess
<1>2. /\ Head(w) = w[1] /\ Len(w) \in Nat \ {0} /\ Len(v) = Len(w) - 1 /\ v \in Seq(Requests)
      /\ \A i \in 1..Len(v) : v[i] = w[i + 1]
  BY OneLess
<1> HIDE DEF t, v
<1>3. s[1] = Asks(w[1])
  <2>1. PICK k \in 1..Len(w) : s[1] = Asks(w[k])
    BY <1>1 DEF Matches
  <2>2. CASE 1 < k
    <3>1. 1 \in 1..Len(s) /\ 1 \in 1..Len(w)
      BY <1>1, <1>2
    <3>2. \E j \in 1..Len(s) : j < 1 /\ s[j] = Asks(w[1])
      BY <2>1, <2>2, <3>1 DEF Matches
    <3> QED
      BY <3>2
  <2> QED
    BY <2>1, <2>2
<1>4. \A i \in 1..Len(t) : i + 1 \in 1..Len(s)
  BY <1>1
<1>5. \A i \in 1..Len(v) : i + 1 \in 1..Len(w)
  BY <1>2
<1>6. \A k \in 1..Len(w) : w[k] \in Requests
  OBVIOUS
<1>7. \A q, r \in Requests : Asks(r) = Asks(q) => r = q
  BY DEF Asks
<1>8. \A k \in 1..Len(w) : Asks(w[k]) = Asks(w[1]) => k = 1
  <2>1. 1 \in 1..Len(w)
    BY <1>2
  <2> QED
    BY <1>6, <1>7, <2>1
<1>9. \A k \in 1..Len(w) : Asks(w[k]).action = a
  BY DEF Placed, Asks
<1>10. \A i \in 1..Len(s) : s[i].action = a /\ s[i] = s[1] => i = 1
  <2>1. 1 \in 1..Len(s)
    BY <1>1
  <2> QED
    BY <2>1 DEF Matches
<1>11. \A j \in 1..Len(s) : j = 1 \/ (j - 1 \in 1..Len(t) /\ t[j - 1] = s[j])
  BY <1>1
<1>12. \A j \in 1..Len(w) : j = 1 \/ (j - 1 \in 1..Len(v) /\ v[j - 1] = w[j])
  BY <1>2
<1>13. ASSUME NEW i \in 1..Len(t), t[i].action = a
       PROVE  \E k \in 1..Len(v) : t[i] = Asks(v[k])
  <2>1. PICK k \in 1..Len(w) : s[i + 1] = Asks(w[k])
    BY <1>1, <1>4, <1>13 DEF Matches
  <2>2. k # 1
    <3>1. SUFFICES ASSUME k = 1 PROVE FALSE
      OBVIOUS
    <3>2. s[i + 1] = s[1] /\ s[i + 1].action = a /\ i + 1 \in 1..Len(s)
      BY <1>1, <1>3, <1>4, <1>13, <2>1, <3>1
    <3>3. i + 1 = 1
      BY <1>10, <3>2
    <3> QED
      BY <3>3
  <2> QED
    BY <1>1, <1>12, <2>1, <2>2
<1>14. ASSUME NEW i \in 1..Len(t), NEW j \in 1..Len(t), t[i].action = a, t[i] = t[j]
       PROVE  i = j
  <2>1. i + 1 = j + 1
    BY <1>1, <1>4, <1>14 DEF Matches
  <2> QED
    BY <2>1
<1>15. ASSUME NEW i \in 1..Len(t), NEW k \in 1..Len(v), NEW m \in 1..Len(v),
              t[i] = Asks(v[k]), m < k
       PROVE  \E j \in 1..Len(t) : j < i /\ t[j] = Asks(v[m])
  <2>1. s[i + 1] = Asks(w[k + 1]) /\ m + 1 < k + 1
    BY <1>1, <1>2, <1>15
  <2>2. PICK j \in 1..Len(s) : j < i + 1 /\ s[j] = Asks(w[m + 1])
    BY <1>4, <1>5, <2>1 DEF Matches
  <2>3. j # 1
    BY <1>3, <1>5, <1>8, <2>2
  <2>4. j - 1 < i /\ j - 1 \in 1..Len(t) /\ t[j - 1] = Asks(v[m])
    BY <1>2, <1>11, <2>2, <2>3
  <2> QED
    BY <2>4
<1>16. ASSUME all, NEW k \in 1..Len(v) PROVE \E i \in 1..Len(t) : t[i] = Asks(v[k])
  <2>1. PICK j \in 1..Len(s) : s[j] = Asks(w[k + 1])
    BY <1>5, <1>16 DEF Matches
  <2>2. j # 1
    BY <1>3, <1>5, <1>8, <2>1
  <2> QED
    BY <1>2, <1>11, <2>1, <2>2
<1>17. Matches(t, a, v, all)
  BY <1>13, <1>14, <1>15, <1>16 DEF Matches
<1> QED
  BY <1>1, <1>2, <1>3, <1>17 DEF t, v

(* The first message is not named a.                                       *)
LEMMA SkipMatches ==
  ASSUME NEW s \in Seq(Message), NEW a, NEW w \in Seq(Requests), NEW all \in BOOLEAN,
         Placed(a, w), Matches(s, a, w, all), s # <<>>, Head(s).action # a
  PROVE  Matches(Tail(s), a, w, all)
<1> DEFINE t == Tail(s)
           f == [i \in 1..Len(s) |-> i - 1]
<1>1. /\ Head(s) = s[1] /\ Len(s) \in Nat \ {0} /\ Len(t) = Len(s) - 1 /\ t \in Seq(Message)
      /\ \A i \in 1..Len(t) : t[i] = s[i + 1]
  BY OneLess
<1>2. f \in [1..Len(s) -> Nat] /\ \A i \in 1..Len(s) : f[i] = i - 1
  OBVIOUS
<1> HIDE DEF f, t
<1>3. \A i \in 1..Len(s) : s[i].action = a => f[i] \in 1..Len(t) /\ t[f[i]] = s[i]
  BY <1>1, <1>2
<1>4. \A j \in 1..Len(t) : t[j].action = a => \E i \in 1..Len(s) : s[i].action = a /\ f[i] = j
  <2>1. \A j \in 1..Len(t) : j + 1 \in 1..Len(s) /\ f[j + 1] = j
    BY <1>1, <1>2
  <2> QED
    BY <1>1, <2>1
<1>5. \A i, j \in 1..Len(s) : i < j => f[i] < f[j]
  BY <1>2
<1>6. Takes(f, s, t, a)
  BY <1>2, <1>3, <1>4, <1>5 DEF Takes
<1>7. Matches(t, a, w, all)
  BY <1>1, <1>6, SameAnswers
<1> QED
  BY <1>7 DEF t
-----------------------------------------------------------------------------
(* Each step leaves the waiting requests what they wait for.               *)

(* What the client itself sends and gets is not named like a request.      *)
LEMMA OtherNames ==
  ASSUME NEW a \in Actions
  PROVE  /\ \A t \in {"token", "ok", "refused"} : Auth(t).action # a
         /\ Keepalive.action # a
         /\ \A b \in Echoed : a \notin Echoed => Pushes(b).action # a
BY BackendAssumption DEF Actions, Auth, Keepalive, Pushes

(* A sequence is one of messages, and so are its parts.                    *)
LEMMA LineIsMessages ==
  ASSUME Types
  PROVE  Line \in Seq(Message) /\ down \o up \in Seq(Message)
<1>1. down \in Seq(Message) /\ up \in Seq(Message) /\ <<>> \in Seq(Message)
  BY DEF Types
<1>2. down \o up \in Seq(Message)
  BY <1>1
<1> QED
  BY <1>1, <1>2 DEF Line

LEMMA Concatenated ==
  ASSUME NEW s \in Seq(Message), NEW t \in Seq(Message)
  PROVE  /\ s \o t \in Seq(Message) /\ Len(s \o t) = Len(s) + Len(t)
         /\ Len(s) \in Nat /\ Len(t) \in Nat
         /\ \A i \in 1..Len(s) : (s \o t)[i] = s[i]
         /\ \A i \in 1..Len(t) : (s \o t)[Len(s) + i] = t[i]
         /\ \A i \in 1..Len(s) + Len(t) : (s \o t)[i] = IF i <= Len(s) THEN s[i] ELSE t[i - Len(s)]
OBVIOUS

LEMMA SameOwn ==
  ASSUME Own, UNCHANGED <<ws, open, down, up, callback_list, fut>>
  PROVE  Own'
<1>1. Line' = Line
  BY DEF Line
<1> QED
  BY <1>1 DEF Own, OwnAnswer, Placed

(* Nobody waits on a lost connection.                                      *)
LEMMA LostOwn ==
  ASSUME Types, Own, Lost, UNCHANGED fut
  PROVE  Own' /\ Connection'
<1>1. ws' = 0 /\ \A a \in Actions : callback_list'[a] = <<>>
  BY DEF Lost, Nobody
<1>2. \A a \in Actions : Placed(a, callback_list[a])'
  BY <1>1, LostIsClean DEF Placed
<1> QED
  BY <1>1, <1>2 DEF Own, OwnAnswer, Connection

LEMMA ConnectedOwn == IInv /\ Connection /\ Own /\ Connected => Connection' /\ Own'
<1> SUFFICES ASSUME IInv, Connection, Own, Connected PROVE Connection' /\ Own'
  OBVIOUS
<1>1. ws = 0 /\ keepalive # "gone"
  BY DEF Connected, Connection
<1>2. \A a \in Actions : callback_list[a] = <<>>
  BY <1>1 DEF Connection
<1>3. Connection'
  BY <1>2 DEF Connected, Connection
<1>4. Line' = <<>> /\ UNCHANGED <<callback_list, fut>> /\ open' = TRUE
  <2>1. down' = <<>> /\ up' = <<>> /\ <<>> \o <<>> = <<>>
    BY DEF Connected
  <2> QED
    BY <2>1 DEF Line, Connected, request
<1>5. \A a \in Actions \ Echoed : Matches(Line, a, callback_list[a], open)'
  BY <1>2, <1>4, NobodyMatches
<1>6. \A a \in Actions : Placed(a, callback_list[a])'
  BY <1>4 DEF Own, Placed
<1> QED
  BY <1>3, <1>4, <1>5, <1>6 DEF Own, OwnAnswer

(* The client's own messages answer nobody.                                *)
LEMMA OwnMessage ==
  ASSUME Types, Own, ws # 0, open, NEW m \in Message, \A a \in Actions : m.action # a,
         up' = Append(up, m), UNCHANGED <<ws, open, down, callback_list, fut>>
  PROVE  Own'
<1>1. Line' = Append(Line, m) /\ Line \in Seq(Message)
  <2>1. down \o Append(up, m) = Append(down \o up, m)
    BY DEF Types
  <2> QED
    BY <2>1, LineIsMessages DEF Line
<1>2. ASSUME NEW a \in Actions \ Echoed PROVE Matches(Line', a, callback_list[a], open)
  <2>1. Matches(Line, a, callback_list[a], open) /\ Placed(a, callback_list[a])
    BY DEF Own
  <2>2. callback_list[a] \in Seq(Requests) /\ open \in BOOLEAN
    BY DEF Types
  <2>3. m.action # a
    OBVIOUS
  <2> QED
    BY <1>1, <2>1, <2>2, <2>3, OtherMatches
<1> QED
  BY <1>2 DEF Own, OwnAnswer, Placed

LEMMA SendAuthOwn == IInv /\ Connection /\ Own /\ SendAuth => Connection' /\ Own'
<1> SUFFICES ASSUME IInv, Connection, Own, SendAuth PROVE Connection' /\ Own'
  OBVIOUS
<1>1. CASE open
  <2>1. /\ up' = Append(up, Auth("token")) /\ auth' = "wait" /\ ws # 0
        /\ UNCHANGED <<client, request, open, down>>
    BY <1>1 DEF SendAuth
  <2>2. Own'
    BY <1>1, <2>1, Messages, OtherNames, OwnMessage DEF IInv, client, request
  <2> QED
    BY <2>1, <2>2 DEF Connection, client
<1>2. CASE ~open
  BY <1>2, LostOwn DEF SendAuth, IInv, request
<1> QED
  BY <1>1, <1>2

LEMMA KeepaliveOwn == IInv /\ Connection /\ Own /\ (KeepaliveDue \/ SendKeepalive) => Connection' /\ Own'
<1> SUFFICES ASSUME IInv, Connection, Own, KeepaliveDue \/ SendKeepalive PROVE Connection' /\ Own'
  OBVIOUS
<1>1. CASE KeepaliveDue
  BY <1>1, SameOwn DEF KeepaliveDue, client, request, server, Connection
<1>2. CASE SendKeepalive /\ open
  <2>1. /\ up' = Append(up, Keepalive) /\ ws # 0 /\ keepalive = "action"
        /\ UNCHANGED <<client, request, open, down, auth>>
    BY <1>2 DEF SendKeepalive
  <2>2. Own'
    BY <1>2, <2>1, Messages, OtherNames, OwnMessage DEF IInv, client, request
  <2> QED
    BY <2>1, <2>2 DEF Connection, client
<1>3. CASE SendKeepalive /\ ~open
  BY <1>3, LostOwn DEF SendKeepalive, IInv, request
<1> QED
  BY <1>1, <1>2, <1>3

LEMMA RequestOwn ==
  ASSUME NEW q \in Requests
  PROVE  IInv /\ Connection /\ Own /\ Request(q) => Connection' /\ Own'
BY SameOwn DEF Request, client, tasks, server, Connection

LEMMA SendRequestOwn ==
  ASSUME NEW q \in Requests
  PROVE  IInv /\ Connection /\ Own /\ SendRequest(q) => Connection' /\ Own'
<1> SUFFICES ASSUME IInv, Connection, Own, SendRequest(q) PROVE Connection' /\ Own'
  OBVIOUS
<1>1. CASE ~open
  BY <1>1, LostOwn DEF SendRequest, IInv
<1>2. CASE open
  <2> DEFINE a == Action[q]
             w == callback_list[a]
  <2>1. /\ callback_list' = [callback_list EXCEPT ![a] = Append(w, q)]
        /\ up' = Append(up, Asks(q)) /\ ws # 0 /\ pc[q] = "action"
        /\ UNCHANGED <<ws, authenticated, fut, tasks, open, down>>
    BY <1>2 DEF SendRequest
  <2>2. a \in Actions /\ w \in Seq(Requests) /\ callback_list \in [Actions -> Seq(Requests)]
    BY DEF Actions, IInv, Types
  <2>3. /\ callback_list'[a] = Append(w, q)
        /\ \A b \in Actions : b # a => callback_list'[b] = callback_list[b]
    BY <2>1, <2>2
  <2>4. Line' = Append(Line, Asks(q)) /\ Line \in Seq(Message) /\ Asks(q) \in Message
    <3>1. down \o Append(up, Asks(q)) = Append(down \o up, Asks(q))
      BY Messages DEF IInv, Types
    <3> QED
      BY <1>2, <2>1, <3>1, LineIsMessages, Messages DEF Line, IInv
  <2>5. \A k \in 1..Len(w) : w[k] # q
    BY <2>1, <2>2 DEF IInv, Waiters
  <2>6. Placed(a, w)
    BY <2>2 DEF Own
  <2> HIDE DEF w
  <2>7. ASSUME NEW b \in Actions PROVE Placed(b, callback_list'[b])
    <3>1. CASE b = a
      <4>1. ASSUME NEW k \in 1..Len(Append(w, q))
            PROVE  Append(w, q)[k] \in Requests /\ Action[Append(w, q)[k]] = a
        <5>1. Append(w, q)[k] = q \/ (k \in 1..Len(w) /\ Append(w, q)[k] = w[k])
          BY <2>2
        <5> HIDE DEF a
        <5> QED
          BY <2>6, <5>1 DEF Placed, a
      <4> QED
        BY <2>3, <3>1, <4>1 DEF Placed
    <3>2. CASE b # a
      BY <2>3, <3>2 DEF Own
    <3> QED
      BY <3>1, <3>2
  <2>8. ASSUME NEW b \in Actions \ Echoed PROVE Matches(Line', b, callback_list'[b], TRUE)
    <3>1. Matches(Line, b, callback_list[b], TRUE) /\ Placed(b, callback_list[b])
      BY <1>2, <2>1 DEF Own
    <3>2. callback_list[b] \in Seq(Requests)
      BY <2>2
    <3>3. CASE b = a
      <4>1. Matches(Line, Action[q], w, TRUE) /\ Placed(Action[q], w)
        BY <2>6, <3>1, <3>3 DEF w
      <4>2. Matches(Append(Line, Asks(q)), Action[q], Append(w, q), TRUE)
        BY <2>2, <2>4, <2>5, <4>1, AskMatches
      <4> QED
        BY <2>3, <2>4, <3>3, <4>2
    <3>4. CASE b # a
      <4>1. Asks(q).action # b
        BY <3>4 DEF Asks
      <4> QED
        BY <2>3, <2>4, <3>1, <3>2, <3>4, <4>1, OtherMatches
    <3> QED
      BY <3>3, <3>4
  <2>9. open' = TRUE
    BY <1>2, <2>1 DEF IInv, Types
  <2>10. Own'
    BY <2>1, <2>7, <2>8, <2>9 DEF Own, OwnAnswer
  <2>11. Connection'
    BY <2>1 DEF Connection, tasks
  <2> QED
    BY <2>10, <2>11
<1> QED
  BY <1>1, <1>2

(* What is read first is the first of the line.                            *)
LEMMA LineRead ==
  ASSUME Types, ws # 0, down # <<>>
  PROVE  /\ Line # <<>> /\ Head(Line) = Head(down)
         /\ Tail(Line) = IF open THEN Tail(down) \o up ELSE Tail(down)
<1>1. down \in Seq(Message) /\ up \in Seq(Message)
  BY DEF Types
<1>2. down \o up # <<>> /\ Head(down \o up) = Head(down) /\ Tail(down \o up) = Tail(down) \o up
  BY <1>1
<1> QED
  BY <1>2 DEF Line

LEMMA ReceiveOwn == IInv /\ Connection /\ Own /\ Receive => Connection' /\ Own'
<1> SUFFICES ASSUME IInv, Connection, Own, Receive PROVE Connection' /\ Own'
  OBVIOUS
<1> DEFINE msg == Head(down)
<1>1. /\ down # <<>> /\ down' = Tail(down) /\ listen = "recv"
      /\ UNCHANGED <<open, up, keepalive>> /\ ws' = ws
  BY DEF Receive, Resolve, AuthCallback, client
<1>2. Types /\ Types' /\ msg \in Message
  <2>1. IInv'
    BY ListenIInv DEF ListenStep
  <2> QED
    BY <1>1, <2>1, OneLess DEF IInv, Types
<1>3. Line \in Seq(Message) /\ open \in BOOLEAN
  BY <1>2, LineIsMessages DEF Types
<1>4. ws # 0 => Line # <<>> /\ Head(Line) = msg /\ Line' = Tail(Line)
  BY <1>1, <1>2, LineRead DEF Line
<1>5. \A a \in Actions : callback_list[a] \in Seq(Requests) /\ Placed(a, callback_list[a])
  BY <1>2 DEF Types, Own
<1>6. CASE msg.action \in Actions /\ callback_list[msg.action] # <<>> /\ Resolve(msg)
  <2> DEFINE b == msg.action
             w == callback_list[b]
             q == Head(w)
  <2>1. /\ callback_list' = [callback_list EXCEPT ![b] = Tail(w)]
        /\ fut' = [fut EXCEPT ![q] = <<msg>>] /\ UNCHANGED <<authenticated, auth>>
    BY <1>6 DEF Resolve, Popped
  <2>2. ws # 0
    BY <1>1, <1>6 DEF Connection
  <2>3. b \in Actions /\ w \in Seq(Requests) /\ w # <<>> /\ callback_list \in [Actions -> Seq(Requests)]
    BY <1>2, <1>6 DEF Types
  <2>4. callback_list'[b] = Tail(w) /\ \A a \in Actions : a # b => callback_list'[a] = callback_list[a]
    BY <2>1, <2>3
  <2>5. Placed(b, w) /\ \A i, j \in 1..Len(w) : w[i] = w[j] => i = j
    BY <1>5, <2>3 DEF IInv, Waiters
  <2>6. /\ q = w[1] /\ q \in Requests /\ Len(w) \in Nat \ {0} /\ Len(Tail(w)) = Len(w) - 1
        /\ Tail(w) \in Seq(Requests) /\ \A i \in 1..Len(Tail(w)) : Tail(w)[i] = w[i + 1]
    <3> HIDE DEF w
    <3> QED
      BY <2>3, OneLess
  <2> HIDE DEF w, q
  <2>7. Action[q] = b
    BY <2>5, <2>6 DEF Placed
  <2>8. ASSUME NEW a \in Actions PROVE Placed(a, callback_list'[a])
    <3>1. CASE a = b
      BY <2>4, <2>5, <2>6, <3>1 DEF Placed
    <3>2. CASE a # b
      BY <1>5, <2>4, <3>2
    <3> QED
      BY <3>1, <3>2
  <2>9. b \notin Echoed => msg = Asks(q) /\ Matches(Tail(Line), b, Tail(w), open)
    <3> SUFFICES ASSUME b \notin Echoed PROVE msg = Asks(q) /\ Matches(Tail(Line), b, Tail(w), open)
      OBVIOUS
    <3>1. Matches(Line, b, w, open)
      BY <2>2, <2>3 DEF Own, w
    <3>2. Line # <<>> /\ Head(Line) = msg /\ msg.action = b
      BY <1>4, <2>2
    <3> HIDE DEF msg, b
    <3>3. Head(Line) = Asks(Head(w)) /\ Matches(Tail(Line), b, Tail(w), open)
      BY <1>3, <2>3, <2>5, <3>1, <3>2, HeadMatches
    <3> QED
      BY <3>2, <3>3 DEF q
  <2>10. ASSUME NEW a \in Actions \ Echoed PROVE Matches(Line', a, callback_list'[a], open)
    <3>1. Line' = Tail(Line) /\ Line # <<>> /\ Head(Line) = msg
      BY <1>4, <2>2
    <3>2. CASE a = b
      BY <2>4, <2>9, <3>1, <3>2
    <3>3. CASE a # b
      <4>1. Matches(Line, a, callback_list[a], open)
        BY <2>2 DEF Own
      <4>2. Head(Line).action # a
        BY <3>1, <3>3
      <4>3. callback_list'[a] = callback_list[a] /\ callback_list[a] \in Seq(Requests)
            /\ Placed(a, callback_list[a])
        BY <1>5, <2>4, <3>3
      <4> HIDE DEF msg
      <4>4. Matches(Tail(Line), a, callback_list[a], open)
        BY <1>3, <3>1, <4>1, <4>2, <4>3, SkipMatches
      <4> QED
        BY <3>1, <4>3, <4>4
    <3> QED
      BY <3>2, <3>3
  <2>11. OwnAnswer'
    <3> SUFFICES ASSUME NEW r \in Requests, fut'[r] # <<>>, Action[r] \notin Echoed
                 PROVE  fut'[r] = <<Asks(r)>>
      BY DEF OwnAnswer
    <3>1. CASE r = q
      <4>1. fut'[q] = <<msg>>
        BY <1>2, <2>1, <2>6 DEF Types
      <4> HIDE DEF msg
      <4> QED
        BY <2>7, <2>9, <3>1, <4>1
    <3>2. CASE r # q
      <4>1. fut'[r] = fut[r]
        BY <1>2, <2>1, <2>6, <3>2 DEF Types
      <4> QED
        BY <4>1 DEF Own, OwnAnswer
    <3> QED
      BY <3>1, <3>2
  <2>12. Own'
    BY <1>1, <2>8, <2>10, <2>11 DEF Own
  <2>13. Connection'
    BY <1>1, <2>1, <2>2 DEF Connection
  <2> QED
    BY <2>12, <2>13
<1>7. CASE /\ UNCHANGED <<callback_list, fut>>
           /\ msg.action \in Actions => callback_list[msg.action] = <<>>
           /\ (authenticated \/ auth # "idle") => (authenticated' \/ auth' # "idle")
  <2>1. ASSUME ws # 0, NEW a \in Actions \ Echoed
        PROVE  Matches(Line', a, callback_list[a], open)
    <3>1. Matches(Line, a, callback_list[a], open)
      BY <2>1 DEF Own
    <3>2. Line # <<>> /\ Head(Line) = msg /\ Line' = Tail(Line)
      BY <1>4, <2>1
    <3>3. Head(Line).action # a
      <4> SUFFICES ASSUME msg.action = a PROVE FALSE
        BY <3>2
      <4>1. callback_list[a] = <<>>
        BY <1>7
      <4>2. Len(callback_list[a]) = 0
        BY <4>1
      <4>3. 1 \in 1..Len(Line) /\ Line[1] = msg
        BY <1>3, <3>2, OneLess
      <4>4. \E k \in 1..Len(callback_list[a]) : Line[1] = Asks(callback_list[a][k])
        BY <3>1, <4>3 DEF Matches
      <4> QED
        BY <4>2, <4>4
    <3>4. callback_list[a] \in Seq(Requests) /\ Placed(a, callback_list[a])
      BY <1>5
    <3> HIDE DEF msg
    <3>5. Matches(Tail(Line), a, callback_list[a], open)
      BY <1>3, <3>1, <3>2, <3>3, <3>4, SkipMatches
    <3> QED
      BY <3>2, <3>5
  <2>2. listen = "recv" => listen # "gone"
    OBVIOUS
  <2>3. Connection'
    BY <1>1, <1>7, <2>2 DEF Connection
  <2>4. Own'
    BY <1>1, <1>7, <2>1 DEF Own, OwnAnswer
  <2> QED
    BY <2>3, <2>4
<1>8. msg = Auth("ok") /\ AuthCallback =>
        /\ UNCHANGED <<callback_list, fut>>
        /\ msg.action \in Actions => callback_list[msg.action] = <<>>
        /\ authenticated'
  BY OtherNames DEF AuthCallback
<1> QED
  BY <1>6, <1>7, <1>8 DEF Receive, client

LEMMA ListenOwn == IInv /\ Connection /\ Own /\ ListenStep => Connection' /\ Own'
<1> SUFFICES ASSUME IInv, Connection, Own, ListenStep PROVE Connection' /\ Own'
  OBVIOUS
<1>1. CASE ListenStart
  BY <1>1, SameOwn DEF ListenStart, client, request, server, Connection
<1>2. CASE ListenLost
  BY <1>2, LostOwn DEF ListenLost, IInv, request
<1> QED
  BY <1>1, <1>2, ReceiveOwn DEF ListenStep

LEMMA CloseOwn == IInv /\ Connection /\ Own /\ Close => Connection' /\ Own'
<1> SUFFICES ASSUME IInv, Connection, Own, Close PROVE Connection' /\ Own'
  OBVIOUS
<1>1. ws' = 0 /\ UNCHANGED <<callback_list, fut>> /\ keepalive' = "gone" /\ listen' = "gone"
  BY DEF Close, request
<1> QED
  BY <1>1 DEF Own, OwnAnswer, Placed, Connection

(* The line breaks off.                                                    *)
LEMMA DieOwn == IInv /\ Connection /\ Own /\ Die => Connection' /\ Own'
<1> SUFFICES ASSUME IInv, Connection, Own, Die PROVE Connection' /\ Own'
  OBVIOUS
<1>1. open /\ open' = FALSE /\ UNCHANGED <<client, request, tasks>>
  BY DEF Die
<1>2. PICK n \in 0..Len(down) : down' = SubSeq(down, 1, n)
  BY DEF Die
<1>3. down \in Seq(Message) /\ up \in Seq(Message)
  BY DEF IInv, Types
<1>4. /\ down' \in Seq(Message) /\ Len(down') <= Len(down)
      /\ \A i \in 1..Len(down') : down'[i] = down[i]
  BY <1>2, <1>3
<1>5. ASSUME ws # 0, NEW a \in Actions \ Echoed
      PROVE  Matches(Line', a, callback_list[a], FALSE)
  <2>1. Line = down \o up /\ Line' = down'
    BY <1>1, <1>5 DEF Line, client
  <2>2. Matches(Line, a, callback_list[a], open) /\ callback_list[a] \in Seq(Requests) /\ open \in BOOLEAN
    BY <1>5 DEF Own, IInv, Types
  <2>3. Line \in Seq(Message) /\ Len(down') <= Len(Line) /\ \A i \in 1..Len(down') : down'[i] = Line[i]
    BY <1>3, <1>4, <2>1, Concatenated
  <2> QED
    BY <1>4, <2>1, <2>2, <2>3, PrefixMatches
<1>6. Own'
  BY <1>1, <1>5 DEF Own, OwnAnswer, Placed, client, request
<1> QED
  BY <1>1, <1>6 DEF Connection, client, tasks

(* The server takes a token, or says no and closes.                        *)
LEMMA ServeFirstOwn == IInv /\ Connection /\ Own /\ ServeFirst => Connection' /\ Own'
<1> SUFFICES ASSUME IInv, Connection, Own, ServeFirst PROVE Connection' /\ Own'
  OBVIOUS
<1>1. open /\ up # <<>> /\ up' = Tail(up) /\ UNCHANGED <<client, request, tasks>>
  BY DEF ServeFirst
<1>2. down \in Seq(Message) /\ up \in Seq(Message) /\ Tail(up) \in Seq(Message)
      /\ Len(up) \in Nat \ {0} /\ Head(up) = up[1] /\ Len(Tail(up)) = Len(up) - 1
      /\ \A i \in 1..Len(Tail(up)) : Tail(up)[i] = up[i + 1]
  BY <1>1, OneLess DEF IInv, Types
<1>3. /\ Auth("ok") \in Message /\ Auth("refused") \in Message
      /\ Append(down, Auth("ok")) \in Seq(Message)
  BY <1>2, Messages, OneMore
<1>4. ASSUME ws # 0, NEW a \in Actions \ Echoed
      PROVE  Matches(Line', a, callback_list[a], open')
  <2> DEFINE s == down \o up
             w == callback_list[a]
  <2>1. Matches(s, a, w, TRUE) /\ Placed(a, w) /\ w \in Seq(Requests)
    BY <1>1, <1>4 DEF Own, Line, IInv, Types
  <2>2. /\ s \in Seq(Message) /\ Len(s) = Len(down) + Len(up) /\ Len(down) \in Nat
        /\ \A i \in 1..Len(down) : s[i] = down[i]
        /\ \A i \in 1..Len(up) : s[Len(down) + i] = up[i]
    BY <1>2, Concatenated
  <2> HIDE DEF w
  <2>3. CASE Head(up) = Auth("token") /\ down' = Append(down, Auth("ok")) /\ open' = open
    <3> DEFINE d == Append(down, Auth("ok"))
               t == d \o Tail(up)
               f == [i \in 1..Len(s) |-> i]
    <3>1. Line' = t /\ open' = TRUE
      BY <1>1, <1>4, <2>3 DEF Line, client, IInv, Types
    <3>2. /\ d \in Seq(Message) /\ Len(d) = Len(down) + 1 /\ d[Len(down) + 1] = Auth("ok")
          /\ \A i \in 1..Len(down) : d[i] = down[i]
      BY <1>2, <1>3, OneMore
    <3> HIDE DEF d
    <3>3. /\ t \in Seq(Message) /\ Len(t) = Len(d) + Len(Tail(up))
          /\ \A i \in 1..Len(d) : t[i] = d[i]
          /\ \A i \in 1..Len(Tail(up)) : t[Len(d) + i] = Tail(up)[i]
      BY <1>2, <3>2, Concatenated
    <3> HIDE DEF t, s
    <3>4. Len(t) = Len(s)
      BY <1>2, <2>2, <3>2, <3>3
    <3>5. ASSUME NEW i \in 1..Len(s), i # Len(down) + 1 PROVE t[i] = s[i]
      <4>1. CASE i <= Len(down)
        <5>1. i \in 1..Len(down) /\ i \in 1..Len(d)
          BY <2>2, <3>2, <4>1
        <5> QED
          BY <2>2, <3>2, <3>3, <5>1
      <4>2. CASE i > Len(down)
        <5> DEFINE j == i - (Len(down) + 1)
        <5>1. j \in 1..Len(Tail(up)) /\ i = Len(d) + j /\ i = Len(down) + (j + 1) /\ j + 1 \in 1..Len(up)
          BY <1>2, <2>2, <3>2, <3>5, <4>2
        <5>2. t[i] = up[j + 1]
          BY <1>2, <3>3, <5>1
        <5>3. s[i] = up[j + 1]
          BY <2>2, <5>1
        <5> QED
          BY <5>2, <5>3
      <4> QED
        BY <2>2, <4>1, <4>2
    <3>6. s[Len(down) + 1].action # a /\ t[Len(down) + 1].action # a
      <4>1. 1 \in 1..Len(up) /\ Len(down) + 1 \in 1..Len(d)
        BY <1>2, <2>2, <3>2
      <4>2. s[Len(down) + 1] = Auth("token") /\ t[Len(down) + 1] = Auth("ok")
        BY <1>2, <2>2, <2>3, <3>2, <3>3, <4>1
      <4> QED
        BY <4>2, OtherNames
    <3>7. Takes(f, s, t, a)
      <4>1. f \in [1..Len(s) -> Nat] /\ \A i \in 1..Len(s) : f[i] = i
        OBVIOUS
      <4> HIDE DEF f
      <4>2. \A i \in 1..Len(s) : i \in 1..Len(t) /\ (s[i].action = a => t[i] = s[i])
                                 /\ (t[i].action = a => s[i].action = a)
        BY <3>4, <3>5, <3>6
      <4> QED
        BY <3>4, <4>1, <4>2 DEF Takes
    <3> HIDE DEF f
    <3>8. Matches(t, a, w, TRUE)
      BY <2>1, <2>2, <3>3, <3>7, SameAnswers
    <3> QED
      BY <3>1, <3>8 DEF w
  <2>4. CASE down' = Append(down, Auth("refused")) /\ open' = FALSE
    <3>1. Matches(down, a, w, FALSE)
      <4>1. Len(down) <= Len(s) /\ \A i \in 1..Len(down) : down[i] = s[i]
        BY <1>2, <2>2
      <4> HIDE DEF s
      <4> QED
        BY <1>2, <2>1, <2>2, <4>1, PrefixMatches
    <3>2. Auth("refused").action # a
      BY OtherNames
    <3>3. Matches(Append(down, Auth("refused")), a, w, FALSE)
      BY <1>2, <1>3, <2>1, <3>1, <3>2, OtherMatches
    <3>4. Line' = Append(down, Auth("refused"))
      BY <1>1, <1>4, <2>4 DEF Line, client
    <3> QED
      BY <2>4, <3>3, <3>4 DEF w
  <2> QED
    BY <2>3, <2>4 DEF ServeFirst
<1>5. Own'
  BY <1>1, <1>4 DEF Own, OwnAnswer, Placed, client, request
<1> QED
  BY <1>1, <1>5 DEF Connection, client, tasks

(* An answer takes its request's place; a notification before it is none   *)
(* that anybody waits for by this name.                                    *)
LEMMA ServeOwn == IInv /\ Connection /\ Own /\ Serve => Connection' /\ Own'
<1> SUFFICES ASSUME IInv, Connection, Own, Serve PROVE Connection' /\ Own'
  OBVIOUS
<1> DEFINE m == Head(up)
           p == Pushes(m.action)
<1>1. open /\ up # <<>> /\ up' = Tail(up) /\ UNCHANGED <<client, request, tasks, open>>
  BY DEF Serve
<1>2. /\ down \in Seq(Message) /\ up \in Seq(Message) /\ Tail(up) \in Seq(Message)
      /\ m \in Message /\ up = <<m>> \o Tail(up)
  BY <1>1, OneLess DEF IInv, Types
<1>3. p \in Message
  BY <1>2, BackendAssumption DEF Message, Pushes
<1>4. ASSUME ws # 0, NEW a \in Actions \ Echoed
      PROVE  Matches(Line', a, callback_list[a], TRUE)
  <2> DEFINE s == down \o up
             w == callback_list[a]
  <2>1. Matches(s, a, w, TRUE) /\ Placed(a, w) /\ w \in Seq(Requests)
    BY <1>1, <1>4 DEF Own, Line, IInv, Types
  <2>2. Line' = down' \o Tail(up)
    BY <1>1, <1>4 DEF Line, client
  <2>3. CASE m.action \notin Echoed
    <3>1. down' = down \o <<>> \o <<m>>
      BY <2>3 DEF Serve
    <3> HIDE DEF m
    <3>2. down \o <<>> = down
      BY <1>2
    <3>3. (down \o <<m>>) \o Tail(up) = down \o (<<m>> \o Tail(up))
      <4>1. <<m>> \in Seq(Message)
        BY <1>2
      <4> QED
        BY <1>2, <4>1, ConcatAssociative
    <3>4. Line' = s
      BY <1>2, <2>2, <3>1, <3>2, <3>3
    <3> QED
      BY <2>1, <3>4
  <2>4. CASE m.action \in Echoed
    <3> DEFINE d == down \o <<p>>
               t == d \o up
               f == [i \in 1..Len(s) |-> IF i <= Len(down) THEN i ELSE i + 1]
    <3>1. down' = down \o <<p>> \o <<m>>
      BY <2>4 DEF Serve
    <3>2. p.action # a
      BY <2>4, OtherNames
    <3> HIDE DEF m, p
    <3>3. Line' = t
      <4>1. <<m>> \in Seq(Message) /\ d \in Seq(Message)
        BY <1>2, <1>3
      <4>2. (d \o <<m>>) \o Tail(up) = d \o (<<m>> \o Tail(up))
        BY <1>2, <4>1, ConcatAssociative
      <4> QED
        BY <1>2, <2>2, <3>1, <4>2
    <3>4. /\ s \in Seq(Message) /\ Len(s) = Len(down) + Len(up) /\ Len(down) \in Nat /\ Len(up) \in Nat
          /\ \A i \in 1..Len(down) : s[i] = down[i]
          /\ \A i \in 1..Len(up) : s[Len(down) + i] = up[i]
      BY <1>2, Concatenated
    <3>5. /\ d \in Seq(Message) /\ Len(d) = Len(down) + 1 /\ d[Len(down) + 1] = p
          /\ \A i \in 1..Len(down) : d[i] = down[i]
      BY <1>2, <1>3
    <3> HIDE DEF d
    <3>6. /\ t \in Seq(Message) /\ Len(t) = Len(d) + Len(up)
          /\ \A i \in 1..Len(d) : t[i] = d[i]
          /\ \A i \in 1..Len(up) : t[Len(d) + i] = up[i]
      BY <1>2, <3>5, Concatenated
    <3> HIDE DEF s, t
    <3>7. ASSUME NEW i \in 1..Len(s)
          PROVE  /\ f[i] \in 1..Len(t) /\ t[f[i]] = s[i]
      <4>1. CASE i <= Len(down)
        <5>1. i \in 1..Len(down) /\ i \in 1..Len(d) /\ i \in 1..Len(t) /\ f[i] = i
          BY <3>4, <3>5, <3>6, <4>1
        <5> HIDE DEF f
        <5> QED
          BY <3>4, <3>5, <3>6, <5>1
      <4>2. CASE i > Len(down)
        <5> DEFINE j == i - Len(down)
        <5>1. j \in 1..Len(up) /\ f[i] = Len(d) + j /\ i = Len(down) + j
          BY <3>4, <3>5, <4>2
        <5>2. Len(d) + j \in 1..Len(t)
          BY <3>4, <3>5, <3>6, <5>1
        <5> HIDE DEF f, j
        <5> QED
          BY <3>4, <3>6, <5>1, <5>2
      <4> QED
        BY <3>4, <4>1, <4>2
    <3>8. ASSUME NEW k \in 1..Len(t), t[k].action = a
          PROVE  \E i \in 1..Len(s) : f[i] = k
      <4>1. k # Len(down) + 1
        <5>1. Len(down) + 1 \in 1..Len(d)
          BY <3>4, <3>5
        <5> QED
          BY <3>2, <3>5, <3>6, <3>8, <5>1
      <4>2. CASE k <= Len(down)
        BY <3>4, <4>2
      <4>3. CASE k > Len(down) + 1
        <5>1. k - 1 \in 1..Len(s) /\ f[k - 1] = k
          BY <3>4, <3>5, <3>6, <4>3
        <5> QED
          BY <5>1
      <4> QED
        BY <3>4, <4>1, <4>2, <4>3
    <3>9. f \in [1..Len(s) -> Nat] /\ \A i, j \in 1..Len(s) : i < j => f[i] < f[j]
      BY <3>4
    <3> HIDE DEF f
    <3>10. Takes(f, s, t, a)
      BY <3>7, <3>8, <3>9 DEF Takes
    <3> HIDE DEF w
    <3>11. Matches(t, a, w, TRUE)
      BY <2>1, <3>4, <3>6, <3>10, SameAnswers
    <3> QED
      BY <3>3, <3>11 DEF w
  <2> QED
    BY <2>3, <2>4
<1>5. open' = TRUE
  BY <1>1 DEF IInv, Types
<1>6. Own'
  BY <1>1, <1>4, <1>5 DEF Own, OwnAnswer, Placed, client, request
<1> QED
  BY <1>1, <1>6 DEF Connection, client, tasks

LEMMA InitOwn == Init => Connection /\ Own
  BY DEF Init, Connection, Own, OwnAnswer, Placed, Nobody

LEMMA NextOwn == OInv /\ [Next]_vars => OInv'
<1> SUFFICES ASSUME OInv, [Next]_vars PROVE OInv'
  OBVIOUS
<1>1. IInv'
  BY NextIInv DEF OInv
<1>2. CASE UNCHANGED vars
  BY <1>1, <1>2, SameOwn DEF OInv, vars, client, request, tasks, server, Connection
<1>3. CASE \E q \in Requests : Request(q) \/ SendRequest(q)
  BY <1>1, <1>3, RequestOwn, SendRequestOwn DEF OInv
<1> QED
  BY <1>1, <1>2, <1>3, ConnectedOwn, SendAuthOwn, KeepaliveOwn, ListenOwn, CloseOwn, DieOwn,
     ServeFirstOwn, ServeOwn DEF Next, OInv

(* Where the server sends nothing else under a request's name, the request *)
(* gets its own answer, although answers are matched by name and position  *)
(* only (lines 183-190, 209-211), over any number of requests, connections *)
(* and losses.                                                             *)
THEOREM OwnAnswers == Spec => []OwnAnswer
<1>1. Init => OInv
  BY InitIInv, InitOwn DEF OInv
<1>2. OInv => OwnAnswer
  BY DEF OInv, Own
<1> QED
  BY <1>1, <1>2, NextOwn, PTL DEF Spec
=============================================================================
