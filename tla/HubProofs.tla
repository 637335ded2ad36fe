------------------------------ MODULE HubProofs ------------------------------
(***************************************************************************)
(* Proofs about the hub, for every number of instances, connections, ids,  *)
(* messages, faults and links.                                             *)
(*                                                                         *)
(* The invariant HInv has two halves.  The first one holds whatever fails: *)
(* a message is at one stage only, either asked for and not yet read by    *)
(* the broker, or before an instance, or being distributed by it, and      *)
(* nobody the message is still to be sent to has got it (FInv).  The       *)
(* second one holds as long as nothing failed (QInv): the broker waits for *)
(* an instance exactly as long as that one owes it an answer, and who      *)
(* waits for an answer is himself a connection of an instance that does    *)
(* not answer False.                                                       *)
(***************************************************************************)
EXTENDS Hub, SequenceFacts

-----------------------------------------------------------------------------
(* The inductive invariant: what holds whatever fails.                     *)

Query == [id : Ids, q : Sends, wait : SUBSET Links, asker : Links]
Wait  == [at : {"wait"}, q : Sends, id : Ids, notify : BOOLEAN]
Task  == [at : {"distribute"}, q : Sends, id : Ids, k : 1 .. MaxConns + 1,
          must : SUBSET Conns, shifted : BOOLEAN]

TInv ==
    /\ sent \in Nat /\ faults \in Nat /\ sent + faults <= MaxEvents /\ reused \in BOOLEAN
    /\ linked \in [Instances -> BOOLEAN] /\ epoch \in [Instances -> 1 .. MaxEpoch]
    /\ wss \in [Instances -> Seq(Conns)] /\ \A i \in Instances : IsInjective(wss[i])
    /\ inbox \in [Instances -> Seq(Message)] /\ wire \in [Links -> Seq(Message)]
    /\ answers \in [Instances -> SUBSET [id : Ids, ok : BOOLEAN]]
    /\ \A i \in Instances : \A a, b \in answers[i] : a.id = b.id => a = b
    /\ asking \in [Conns -> {Idle} \cup Wait]
    /\ work \in [Instances -> {Idle, Dead} \cup Task]

\* The broker's own tables.
BInv ==
    /\ up \in Seq(Links) /\ ToSet(up) \subseteq open /\ IsInjective(up)
    /\ open \subseteq Links /\ \A l \in open : l[2] <= epoch[l[1]]
    /\ IsFiniteSet(pending) /\ pending \subseteq Query
    /\ \A p, r \in pending : p.id = r.id => p = r

\* The connections that there are or were are numbered without a gap, each one
\* is on one instance, and messages are sent on these.
Members == left \cup UNION {ToSet(wss[j]) : j \in Instances}

MInv ==
    /\ \E n \in 0 .. MaxConns : Members = 1 .. n
    /\ \A i, j \in Instances : \A c \in Conns : i \in Homes(c) /\ j \in Homes(c) => i = j
    /\ \A x \in delivered : x \in Sends \X Conns /\ x[2] \in Members

\* Message q is on its way, as question id, or somebody waits for it.
Uses(q, id) ==
    \/ \E p \in pending : p.q = q /\ p.id = id
    \/ \E c \in Conns : asking[c].at = "wait" /\ asking[c].q = q /\ asking[c].id = id
    \/ \E i \in Instances : \E k \in DOMAIN inbox[i] : inbox[i][k].q = q /\ inbox[i][k].id = id
    \/ \E i \in Instances : Busy(i) /\ work[i].q = q /\ work[i].id = id
    \/ \E l \in Links : \E k \in DOMAIN wire[l] : wire[l][k].q = q /\ wire[l][k].id = id

UInv == \A q \in Sends, id \in Ids : Uses(q, id) =>
            q <= sent /\ \A jd \in Ids : Uses(q, jd) => id = jd

\* A message is asked for once: the broker has yet to read the question, or each
\* instance has it before itself once, is distributing it, or is through with it.
IsReq(m, q)    == m.type = "req" /\ m.q = q
Asked(l, k, q) == k \in DOMAIN wire[l] /\ IsReq(wire[l][k], q)
Boxed(i, k, q) == k \in DOMAIN inbox[i] /\ IsReq(inbox[i][k], q)
Works(i, q)    == Busy(i) /\ work[i].q = q

AskedOnce ==
    \A q \in Sends, l \in Links, k \in Nat : Asked(l, k, q) =>
        /\ \A m \in Links, n \in Nat : Asked(m, n, q) => m = l /\ n = k
        /\ \A i \in Instances : ~Works(i, q) /\ \A n \in Nat : ~Boxed(i, n, q)
        /\ \A c \in Conns : <<q, c>> \notin delivered

BoxedOnce ==
    \A q \in Sends, i \in Instances, k \in Nat : Boxed(i, k, q) =>
        /\ \A n \in Nat : Boxed(i, n, q) => n = k
        /\ ~Works(i, q)
        /\ \A c \in ToSet(wss[i]) : <<q, c>> \notin delivered

\* What it has before it has not got the message, what it must reach and has not
\* is before it.
Ahead(i, c) == \E k \in DOMAIN wss[i] : k >= work[i].k /\ wss[i][k] = c

InTurn ==
    \A i \in Instances : Busy(i) =>
        /\ \A c \in Conns : Ahead(i, c) => <<work[i].q, c>> \notin delivered
        /\ work[i].shifted \/ \A c \in work[i].must : <<work[i].q, c>> \in delivered \/ Ahead(i, c)

FInv == AskedOnce /\ BoxedOnce /\ InTurn /\ \A x \in delivered : x[1] <= sent

-----------------------------------------------------------------------------
(* And what holds as long as nothing failed and no id was drawn twice: the *)
(* links of the start are all there are, an id is that of one message, the *)
(* broker waits for an instance exactly as long as it owes an answer, and  *)
(* the instance of a connection that waits never answers False.            *)

Quiet == faults = 0 /\ ~reused
FirstLink(i) == <<i, 1>>
Replied(i, k, q) ==
    /\ k \in DOMAIN wire[FirstLink(i)]
    /\ wire[FirstLink(i)][k].type = "rep" /\ wire[FirstLink(i)][k].q = q
Owes(i, q) ==
    \/ \E k \in Nat : Boxed(i, k, q)
    \/ Works(i, q)
    \/ \E k \in Nat : Replied(i, k, q)

AllUp ==
    /\ \A i \in Instances : linked[i] /\ epoch[i] = 1 /\ work[i] # Dead
    /\ ToSet(up) = Instances \X {1}

OneMessage == \A q, r \in Sends, id \in Ids : Uses(q, id) /\ Uses(r, id) => q = r

RepliedOnce ==
    \A q \in Sends, i \in Instances, k \in Nat : Replied(i, k, q) =>
        /\ \A n \in Nat : Replied(i, n, q) => n = k
        /\ ~Works(i, q)
        /\ \A n \in Nat : ~Boxed(i, n, q)
        /\ \A l \in Links, n \in Nat : ~Asked(l, n, q)

WaitsForOwing ==
    \A p \in pending :
        /\ p.asker \in Instances \X {1} /\ p.wait # {} /\ p.wait \subseteq Instances \X {1}
        /\ \A i \in Instances : FirstLink(i) \in p.wait <=> Owes(i, p.q)
        /\ \A l \in Links, n \in Nat : ~Asked(l, n, p.q)

\* An answer False to message q.
Denial(m, q) == m.type = "rep" /\ m.q = q /\ ~m.ok
Found(i, q) ==
    /\ \A k \in DOMAIN wire[FirstLink(i)] : ~Denial(wire[FirstLink(i)][k], q)
    /\ \A j \in Instances : \A k \in DOMAIN inbox[j] : ~Denial(inbox[j][k], q)
    /\ \A p \in pending : p.q = q => FirstLink(i) \in p.wait

AskersFound ==
    \A c \in Conns, q \in Sends : asking[c].at = "wait" /\ asking[c].q = q =>
        \E i \in Homes(c) : Found(i, q)

QInv == Quiet => AllUp /\ OneMessage /\ RepliedOnce /\ WaitsForOwing /\ AskersFound

HInv == TInv /\ BInv /\ MInv /\ UInv /\ FInv /\ QInv

-----------------------------------------------------------------------------
(* Messages.                                                               *)

(* What Req and Rep make, and that a message is one or the other.          *)
LEMMA MessageFacts ==
  /\ \A m \in Message : m.q \in Sends /\ m.id \in Ids /\ m.type \in {"req", "rep"}
  /\ \A q \in Sends, id \in Ids :
       /\ Req(q, id) \in Message
       /\ Req(q, id).type = "req" /\ Req(q, id).q = q /\ Req(q, id).id = id
  /\ \A q \in Sends, id \in Ids, ok \in BOOLEAN :
       /\ Rep(q, id, ok) \in Message
       /\ Rep(q, id, ok).type = "rep" /\ Rep(q, id, ok).q = q /\ Rep(q, id, ok).id = id
       /\ Rep(q, id, ok).ok = ok
  /\ \A m \in Message : m.type = "req" => m = Req(m.q, m.id)
  /\ \A m \in Message : m.type = "rep" => m.ok \in BOOLEAN /\ m = Rep(m.q, m.id, m.ok)
  BY DEF Message, Req, Rep

(* HubInit: every instance has its first link, nothing is on its way.      *)
LEMMA InitHInv == HubInit => HInv
<1> SUFFICES ASSUME HubInit PROVE HInv
  OBVIOUS
<1> USE HubAssumption DEF HubInit
<1>1. IsFiniteSet(Instances \X {1}) /\ Instances \X {1} \subseteq Links
  <2>1. IsFiniteSet({1})
    BY FS_Singleton
  <2>2. IsFiniteSet(Instances \X {1})
    BY <2>1, FS_Product
  <2>3. 1 \in 1 .. MaxEpoch
    OBVIOUS
  <2> QED
    BY <2>2, <2>3 DEF Links
<1>2. up \in Seq(Links) /\ IsInjective(up) /\ ToSet(up) = Instances \X {1}
  <2>1. /\ SetToSeq(Instances \X {1}) \in Seq(Instances \X {1})
        /\ IsInjective(SetToSeq(Instances \X {1}))
        /\ ToSet(SetToSeq(Instances \X {1})) = Instances \X {1}
    BY <1>1, SetToSeqOrders
  <2>2. Seq(Instances \X {1}) \subseteq Seq(Links)
    BY <1>1
  <2> QED
    BY <2>1, <2>2
<1>3. TInv
  <2>1. \A i \in Instances : wss[i] = << >> /\ IsInjective(wss[i])
    BY DEF IsInjective
  <2>2. /\ wss \in [Instances -> Seq(Conns)] /\ inbox \in [Instances -> Seq(Message)]
        /\ wire \in [Links -> Seq(Message)]
    OBVIOUS
  <2>3. /\ asking \in [Conns -> {Idle} \cup Wait]
        /\ work \in [Instances -> {Idle, Dead} \cup Task]
    OBVIOUS
  <2>4. /\ answers \in [Instances -> SUBSET [id : Ids, ok : BOOLEAN]]
        /\ \A i \in Instances : \A a, b \in answers[i] : a.id = b.id => a = b
    OBVIOUS
  <2>5. linked \in [Instances -> BOOLEAN] /\ epoch \in [Instances -> 1 .. MaxEpoch]
    OBVIOUS
  <2>6. sent \in Nat /\ faults \in Nat /\ sent + faults <= MaxEvents
    <3>1. sent = 0 /\ faults = 0 /\ MaxEvents \in Nat
      OBVIOUS
    <3> HIDE HubAssumption DEF HubInit
    <3> QED
      BY <3>1
  <2>7. reused \in BOOLEAN
    OBVIOUS
  <2> QED
    BY <2>1, <2>2, <2>3, <2>4, <2>5, <2>6, <2>7 DEF TInv
<1>4. BInv
  <2>1. \A l \in open : l[2] <= epoch[l[1]]
    OBVIOUS
  <2> QED
    BY <1>1, <1>2, <2>1, FS_EmptySet DEF BInv
<1>5. \A i \in Instances : ToSet(wss[i]) = {}
  BY DEF ToSet
<1>6. MInv
  <2>1. Members = {}
    BY <1>5 DEF Members
  <2>2. 0 \in 0 .. MaxConns /\ 1 .. 0 = {}
    OBVIOUS
  <2> QED
    BY <1>5, <2>1, <2>2 DEF MInv, Homes
<1>7. \A q \in Sends, id \in Ids : ~Uses(q, id)
  BY DEF Uses, Busy, Idle
<1>8. /\ \A q \in Sends, l \in Links, k \in Nat : ~Asked(l, k, q)
      /\ \A q \in Sends, i \in Instances, k \in Nat : ~Boxed(i, k, q)
      /\ \A i \in Instances : ~Busy(i)
      /\ \A q \in Sends, i \in Instances, k \in Nat : ~Replied(i, k, q)
  BY <1>1 DEF Asked, Boxed, Busy, Idle, Replied, FirstLink
<1>9. UInv /\ FInv
  BY <1>7, <1>8 DEF UInv, FInv, AskedOnce, BoxedOnce, InTurn
<1>10. AllUp /\ OneMessage /\ RepliedOnce /\ WaitsForOwing /\ AskersFound
  BY <1>2, <1>7, <1>8 DEF AllUp, OneMessage, RepliedOnce, WaitsForOwing, AskersFound, Idle, Dead
<1> QED
  BY <1>3, <1>4, <1>6, <1>9, <1>10 DEF HInv, QInv

-----------------------------------------------------------------------------
(* What a state is made of.                                                *)

LEMMA WorkFacts ==
  ASSUME TInv
  PROVE  /\ \A i \in Instances : Busy(i) => work[i] \in Task
         /\ \A i \in Instances : work[i] = Idle \/ work[i] = Dead => ~Busy(i)
         /\ \A c \in Conns : asking[c].at = "wait" => asking[c] \in Wait
         /\ \A c \in Conns : asking[c] = Idle => asking[c].at # "wait"
         /\ Idle # Dead
<1>1. /\ \A t \in Task : t.at = "distribute"
      /\ \A t \in Wait : t.at = "wait"
      /\ Idle.at = "idle" /\ Dead.at = "dead"
  BY DEF Task, Wait, Idle, Dead
<1>2. \A i \in Instances : work[i] = Idle \/ work[i] = Dead \/ work[i] \in Task
  BY DEF TInv
<1>3. \A c \in Conns : asking[c] = Idle \/ asking[c] \in Wait
  BY DEF TInv
<1> QED
  BY <1>1, <1>2, <1>3 DEF Busy

(* Where a message on its way is in a queue, it has a kind and is typed.   *)
LEMMA QueueFacts ==
  ASSUME TInv
  PROVE  /\ \A i \in Instances : \A k \in DOMAIN inbox[i] : k \in Nat /\ inbox[i][k] \in Message
         /\ \A l \in Links : \A k \in DOMAIN wire[l] : k \in Nat /\ wire[l][k] \in Message
  BY DEF TInv

(* As long as no message moves, nobody comes to owe or to have answered    *)
(* anything.                                                               *)
LEMMA SameMessages ==
  ASSUME UNCHANGED <<inbox, wire, pending>>,
         \A i \in Instances : \A q : Works(i, q)' <=> Works(i, q)
  PROVE  /\ RepliedOnce => RepliedOnce'
         /\ WaitsForOwing => WaitsForOwing'
         /\ \A i \in Instances : \A q : Found(i, q) => Found(i, q)'
<1>1. \A i \in Instances : \A q : Owes(i, q)' <=> Owes(i, q)
  BY DEF Owes, Boxed, Replied
<1>2. \A l, n, q : Asked(l, n, q)' <=> Asked(l, n, q)
  BY DEF Asked
<1>3. RepliedOnce => RepliedOnce'
  BY <1>2 DEF RepliedOnce, Replied, Boxed
<1>4. WaitsForOwing => WaitsForOwing'
  BY <1>1, <1>2 DEF WaitsForOwing
<1>5. \A i \in Instances : \A q : Found(i, q) => Found(i, q)'
  BY DEF Found
<1> QED
  BY <1>3, <1>4, <1>5

(* The handlers that wait for an answer.                                   *)
LEMMA ReturnHInv ==
  ASSUME HInv, NEW i \in Instances, NEW c \in Conns, Poll(i, c) \/ TimeOut(i, c)
  PROVE  HInv'
<1>1. /\ asking' = [asking EXCEPT ![c] = Idle] /\ asking \in [Conns -> {Idle} \cup Wait]
      /\ UNCHANGED <<linked, epoch, wss, work, inbox, brokerVars, histVars>>
  BY DEF HInv, TInv, Poll, TimeOut, Return
<1>2. TInv'
  <2>1. answers \in [Instances -> SUBSET [id : Ids, ok : BOOLEAN]]
    BY DEF HInv, TInv
  <2>2. /\ answers' \in [Instances -> SUBSET [id : Ids, ok : BOOLEAN]]
        /\ \A j \in Instances : answers'[j] \subseteq answers[j]
    <3>1. CASE Poll(i, c)
      <4>1. PICK a \in answers[i] : answers' = [answers EXCEPT ![i] = @ \ {a}]
        BY <3>1 DEF Poll
      <4> QED
        BY <2>1, <4>1
    <3>2. CASE TimeOut(i, c)
      BY <2>1, <3>2 DEF TimeOut
    <3> QED
      BY <3>1, <3>2
  <2>3. asking' \in [Conns -> {Idle} \cup Wait]
    BY <1>1
  <2>4. /\ UNCHANGED <<linked, epoch, wss, work, inbox>> /\ UNCHANGED wire
        /\ UNCHANGED <<sent, faults, reused>>
    BY <1>1 DEF histVars, brokerVars
  <2> QED
    BY <2>2, <2>3, <2>4 DEF HInv, TInv
<1>3. BInv'
  BY <1>1 DEF HInv, BInv, histVars, brokerVars
<1>4. MInv'
  BY <1>1 DEF HInv, MInv, Members, Homes, histVars, brokerVars
<1>5. \A q \in Sends, id \in Ids : Uses(q, id)' => Uses(q, id)
  BY <1>1 DEF Uses, Busy, histVars, brokerVars, Idle
<1>6. UInv'
  BY <1>1, <1>5 DEF HInv, UInv, histVars
<1>7. FInv'
  BY <1>1 DEF HInv, FInv, AskedOnce, BoxedOnce, InTurn, Asked, Boxed, Works, Busy, Ahead,
              histVars, brokerVars
<1>8. ASSUME Quiet'
      PROVE  (AllUp /\ OneMessage /\ RepliedOnce /\ WaitsForOwing /\ AskersFound)'
  <2>1. AllUp /\ OneMessage /\ RepliedOnce /\ WaitsForOwing /\ AskersFound
    BY <1>1, <1>8 DEF HInv, QInv, Quiet, histVars
  <2>2. AllUp' /\ OneMessage'
    BY <1>1, <1>5, <2>1 DEF AllUp, OneMessage, histVars, brokerVars
  <2>3. RepliedOnce' /\ WaitsForOwing'
    BY <1>1, <2>1, SameMessages DEF Works, Busy, histVars, brokerVars
  <2>4. AskersFound'
    <3>1. \A d \in Conns : asking'[d].at = "wait" => asking'[d] = asking[d]
      BY <1>1 DEF Idle
    <3>2. \A d \in Conns : Homes(d)' = Homes(d)
      BY <1>1 DEF Homes
    <3>3. \A j \in Instances : \A q : Found(j, q) => Found(j, q)'
      BY <1>1, SameMessages DEF Works, Busy, brokerVars
    <3> QED
      BY <2>1, <3>1, <3>2, <3>3 DEF AskersFound, Homes
  <2> QED
    BY <2>2, <2>3, <2>4
<1> QED
  BY <1>2, <1>3, <1>4, <1>6, <1>7, <1>8 DEF HInv, QInv

(* The links of an instance are told apart by their number.                *)
LEMMA LinkFacts ==
  ASSUME TInv
  PROVE  /\ \A i \in Instances : LinkOf(i) \in Links /\ FirstLink(i) \in Links
         /\ \A i, j \in Instances : FirstLink(i) = FirstLink(j) => i = j
         /\ \A i \in Instances : LinkOf(i)[1] = i /\ LinkOf(i)[2] = epoch[i] /\ FirstLink(i)[1] = i
         /\ \A i \in Instances : epoch[i] = 1 => LinkOf(i) = FirstLink(i)
<1>1. 1 \in 1 .. MaxEpoch /\ \A i \in Instances : epoch[i] \in 1 .. MaxEpoch
  BY HubAssumption DEF TInv
<1> QED
  BY <1>1 DEF LinkOf, FirstLink, Links

-----------------------------------------------------------------------------
(* The clients.                                                            *)

(* A connection is where it is registered.                                 *)
LEMMA HomesFacts ==
  ASSUME TInv
  PROVE  /\ \A c \in Conns, i \in Instances : i \in Homes(c) <=> c \in ToSet(wss[i])
         /\ \A i \in Instances : ToSet(wss[i]) \subseteq Conns
         /\ \A i \in Instances : \A c \in ToSet(wss[i]) : c \in Members
  BY DEF TInv, Homes, Members, ToSet

(* connect: a new number at the end of the list.                           *)
LEMMA RegisterHInv ==
  ASSUME HInv, NEW i \in Instances, NEW c \in Conns, Register(i, c)
  PROVE  HInv'
<1>1. PICK n \in 0 .. MaxConns : Members = 1 .. n
  BY DEF HInv, MInv
<1>2. c = n + 1
  <2>1. Cardinality(1 .. n) = n
    BY FS_Interval
  <2>2. c = 1 + Cardinality(Members)
    BY DEF Register, Members
  <2> QED
    BY <1>1, <2>1, <2>2
<1>3. c \notin Members
  BY <1>1, <1>2
<1>4. /\ wss \in [Instances -> Seq(Conns)]
      /\ wss' = [wss EXCEPT ![i] = Append(@, c)]
      /\ UNCHANGED <<linked, epoch, work, inbox, answers, asking, up, open, wire, pending,
                     sent, left, delivered, reused, faults>>
  BY DEF HInv, TInv, Register, Joined, brokerVars, histVars
<1>5. /\ wss' \in [Instances -> Seq(Conns)]
      /\ \A j \in Instances : j # i => wss'[j] = wss[j]
      /\ wss'[i] = Append(wss[i], c)
  BY <1>4
<1>6. /\ wss[i] \in Seq(Conns) /\ IsInjective(wss[i]) /\ c \notin ToSet(wss[i])
  BY <1>3, <1>4, HomesFacts DEF HInv, TInv
<1>7. /\ DOMAIN wss'[i] = 1 .. Len(wss[i]) + 1 /\ DOMAIN wss[i] = 1 .. Len(wss[i])
      /\ wss'[i][Len(wss[i]) + 1] = c /\ \A k \in 1 .. Len(wss[i]) : wss'[i][k] = wss[i][k]
      /\ ToSet(wss'[i]) = ToSet(wss[i]) \cup {c} /\ IsInjective(wss'[i])
  BY <1>5, <1>6, AppendFacts
<1>8. TInv'
  BY <1>4, <1>5, <1>7 DEF HInv, TInv
<1>9. BInv'
  BY <1>4 DEF HInv, BInv
<1>10. Members' = Members \cup {c}
  <2>1. \A d : d \in Members <=> d \in left \/ \E j \in Instances : d \in ToSet(wss[j])
    BY DEF Members
  <2>2. \A d : d \in Members' <=> d \in left \/ \E j \in Instances : d \in ToSet(wss'[j])
    BY <1>4 DEF Members
  <2>3. \A j \in Instances : ToSet(wss'[j]) = IF j = i THEN ToSet(wss[j]) \cup {c} ELSE ToSet(wss[j])
    BY <1>5, <1>7
  <2> QED
    BY <2>1, <2>2, <2>3
<1>11. MInv'
  <2>1. Members' = 1 .. (n + 1) /\ n + 1 \in 0 .. MaxConns
    BY <1>1, <1>2, <1>10, HubAssumption DEF Conns
  <2>2. \A j \in Instances : c \notin ToSet(wss[j])
    BY <1>3, HomesFacts DEF HInv
  <2>3. \A j \in Instances, d \in Conns : d \in ToSet(wss'[j]) <=> d \in ToSet(wss[j]) \/ (j = i /\ d = c)
    BY <1>5, <1>7
  <2>4. \A j, k \in Instances : \A d \in Conns : j \in Homes(d)' /\ k \in Homes(d)' => j = k
    BY <2>2, <2>3 DEF HInv, MInv, Homes
  <2> QED
    BY <1>4, <1>10, <2>1, <2>4 DEF HInv, MInv
<1>12. \A q \in Sends, id \in Ids : Uses(q, id)' => Uses(q, id)
  BY <1>4 DEF Uses, Busy
<1>13. UInv'
  BY <1>4, <1>12 DEF HInv, UInv
<1>14. \A q : <<q, c>> \notin delivered
  BY <1>3 DEF HInv, MInv
<1>15. FInv'
  <2>1. AskedOnce'
    BY <1>4 DEF HInv, FInv, AskedOnce, Asked, Boxed, Works, Busy
  <2>2. BoxedOnce'
    BY <1>4, <1>5, <1>7, <1>14 DEF HInv, FInv, BoxedOnce, Boxed, Works, Busy
  <2>3. \A j \in Instances, d \in Conns : Ahead(j, d) => Ahead(j, d)'
    BY <1>4, <1>5, <1>7 DEF Ahead
  <2>4. \A j \in Instances, d \in Conns : Ahead(j, d)' => Ahead(j, d) \/ d = c
    BY <1>4, <1>5, <1>7 DEF Ahead
  <2>5. \A j \in Instances : Busy(j) => work[j].must \subseteq Conns
    BY WorkFacts DEF HInv, Task
  <2>6. InTurn'
    BY <1>4, <1>14, <2>3, <2>4, <2>5 DEF HInv, FInv, InTurn, Busy
  <2> QED
    BY <1>4, <2>1, <2>2, <2>6 DEF HInv, FInv
<1>16. ASSUME Quiet'
       PROVE  (AllUp /\ OneMessage /\ RepliedOnce /\ WaitsForOwing /\ AskersFound)'
  <2>1. AllUp /\ OneMessage /\ RepliedOnce /\ WaitsForOwing /\ AskersFound
    BY <1>4, <1>16 DEF HInv, QInv, Quiet
  <2>2. AllUp' /\ OneMessage'
    BY <1>4, <1>12, <2>1 DEF AllUp, OneMessage
  <2>3. RepliedOnce' /\ WaitsForOwing'
    BY <1>4, <2>1, SameMessages DEF Works, Busy
  <2>4. AskersFound'
    <3>1. \A d \in Conns : Homes(d) \subseteq Homes(d)'
      BY <1>5, <1>7 DEF Homes
    <3>2. \A j \in Instances : \A q : Found(j, q) => Found(j, q)'
      BY <1>4, SameMessages DEF Works, Busy
    <3> QED
      BY <1>4, <2>1, <3>1, <3>2 DEF AskersFound, Homes
  <2> QED
    BY <2>2, <2>3, <2>4
<1> QED
  BY <1>8, <1>9, <1>11, <1>13, <1>15, <1>16 DEF HInv, QInv

(* disconnect: the rest of the list moves up under a distribution.         *)
LEMMA DisconnectHInv ==
  ASSUME HInv, NEW i \in Instances, NEW c \in Conns, Disconnect(i, c)
  PROVE  HInv'
<1> DEFINE s == RemoveFirst(wss[i], c)
<1>1. /\ wss \in [Instances -> Seq(Conns)]
      /\ wss' = [wss EXCEPT ![i] = s]
      /\ left' = left \cup {c} /\ asking[c] = Idle
      /\ UNCHANGED <<linked, epoch, inbox, answers, asking, up, open, wire, pending,
                     sent, delivered, reused, faults>>
  BY DEF HInv, TInv, Disconnect, RemoveFrom, brokerVars
<1>2. c \in ToSet(wss[i])
  BY DEF Disconnect, Homes
<1>3. /\ wss' \in [Instances -> Seq(Conns)] /\ wss'[i] = s
      /\ \A j \in Instances : j # i => wss'[j] = wss[j]
      /\ IsInjective(s) /\ ToSet(s) = ToSet(wss[i]) \ {c}
      /\ DOMAIN s \subseteq Nat
      /\ \A k \in DOMAIN s : \/ k \in DOMAIN wss[i] /\ s[k] = wss[i][k]
                             \/ k + 1 \in DOMAIN wss[i] /\ s[k] = wss[i][k + 1]
  <2>1. wss[i] \in Seq(Conns) /\ IsInjective(wss[i])
    BY <1>1 DEF HInv, TInv
  <2>2. /\ s \in Seq(Conns) /\ IsInjective(s) /\ ToSet(s) = ToSet(wss[i]) \ {c}
        /\ \A k \in 1 .. Len(s) : \/ k \in 1 .. Len(wss[i]) /\ s[k] = wss[i][k]
                                  \/ k + 1 \in 1 .. Len(wss[i]) /\ s[k] = wss[i][k + 1]
    BY <2>1, RemoveFromInjective
  <2> HIDE DEF s
  <2>3. DOMAIN s = 1 .. Len(s) /\ DOMAIN wss[i] = 1 .. Len(wss[i]) /\ Len(s) \in Nat
    BY <2>1, <2>2
  <2> QED
    BY <1>1, <2>2, <2>3
<1> HIDE DEF s
<1>4. /\ \A j \in Instances : j # i \/ ~Busy(i) => work'[j] = work[j]
      /\ Busy(i) => /\ work'[i] \in Task
                    /\ work'[i].at = work[i].at /\ work'[i].q = work[i].q /\ work'[i].id = work[i].id
                    /\ work'[i].shifted
                    /\ work'[i].k = IF wss[i] = <<c>> THEN MaxConns + 1 ELSE work[i].k
      /\ work' \in [Instances -> {Idle, Dead} \cup Task]
  <2>1. CASE ~Busy(i)
    BY <2>1 DEF HInv, TInv, Disconnect, RemoveFrom
  <2>2. CASE Busy(i)
    <3>1. work[i] \in Task /\ work \in [Instances -> {Idle, Dead} \cup Task]
      BY <2>2, WorkFacts DEF HInv, TInv
    <3>2. PICK n \in 1 .. MaxConns + 1 : n = IF wss[i] = <<c>> THEN MaxConns + 1 ELSE work[i].k
      BY <3>1, HubAssumption DEF Task
    <3>3. work' = [work EXCEPT ![i].must = @ \ {c}, ![i].shifted = TRUE, ![i].k = n]
      BY <2>2, <3>2 DEF Disconnect, RemoveFrom
    <3>4. work'[i] = [work[i] EXCEPT !.must = @ \ {c}, !.shifted = TRUE, !.k = n]
      BY <3>1, <3>3
    <3>5. work'[i] \in Task
      BY <3>1, <3>4 DEF Task
    <3> QED
      BY <2>2, <3>1, <3>2, <3>3, <3>4, <3>5 DEF Task
  <2> QED
    BY <2>1, <2>2
<1>5. TInv'
  <2>1. \A j \in Instances : IsInjective(wss'[j])
    BY <1>3 DEF HInv, TInv
  <2> QED
    BY <1>1, <1>3, <1>4, <2>1 DEF HInv, TInv
<1>6. BInv'
  BY <1>1 DEF HInv, BInv
<1>7. \A j \in Instances : ToSet(wss'[j]) = IF j = i THEN ToSet(wss[j]) \ {c} ELSE ToSet(wss[j])
  BY <1>3
<1>8. Members' = Members
  <2>1. \A d : d \in Members <=> d \in left \/ \E j \in Instances : d \in ToSet(wss[j])
    BY DEF Members
  <2>2. \A d : d \in Members' <=> d \in left' \/ \E j \in Instances : d \in ToSet(wss'[j])
    BY DEF Members
  <2> QED
    BY <1>1, <1>2, <1>7, <2>1, <2>2
<1>9. MInv'
  BY <1>1, <1>7, <1>8 DEF HInv, MInv, Homes
<1>10. \A j \in Instances : /\ Busy(j)' <=> Busy(j)
                            /\ Busy(j) => work'[j].q = work[j].q /\ work'[j].id = work[j].id
  BY <1>4 DEF Busy
<1>11. \A q \in Sends, id \in Ids : Uses(q, id)' => Uses(q, id)
  BY <1>1, <1>10 DEF Uses
<1>12. UInv'
  BY <1>1, <1>11 DEF HInv, UInv
<1>13. FInv'
  <2>1. AskedOnce'
    BY <1>1, <1>10 DEF HInv, FInv, AskedOnce, Asked, Boxed, Works
  <2>2. BoxedOnce'
    <3>1. \A j \in Instances : ToSet(wss'[j]) \subseteq ToSet(wss[j])
      BY <1>7
    <3> QED
      BY <1>1, <1>10, <3>1 DEF HInv, FInv, BoxedOnce, Boxed, Works
  <2>3. \A j \in Instances, d \in Conns : j # i => (Ahead(j, d)' <=> Ahead(j, d))
    BY <1>1, <1>3, <1>4 DEF Ahead
  <2>4. \A d \in Conns : Busy(i) /\ Ahead(i, d)' => Ahead(i, d)
    <3> SUFFICES ASSUME NEW d \in Conns, Busy(i), NEW k \in DOMAIN s, k >= work'[i].k, s[k] = d
                 PROVE  Ahead(i, d)
      BY <1>3 DEF Ahead
    <3>1. wss[i] # <<c>>
      <4> SUFFICES ASSUME wss[i] = <<c>> PROVE FALSE
        OBVIOUS
      <4>1. d \in ToSet(s) /\ d # c
        BY <1>3 DEF ToSet
      <4>2. d \in ToSet(wss[i])
        BY <1>3, <4>1
      <4> QED
        BY <4>1, <4>2 DEF ToSet
    <3>2. work'[i].k = work[i].k /\ work[i].k \in Nat
      BY <1>4, <3>1, WorkFacts DEF HInv, Task
    <3> QED
      BY <1>3, <3>2 DEF Ahead
  <2>5. InTurn'
    <3> SUFFICES ASSUME NEW j \in Instances, Busy(j)
                 PROVE  /\ \A d \in Conns : Ahead(j, d)' => <<work[j].q, d>> \notin delivered
                        /\ \/ work'[j].shifted
                           \/ \A d \in work'[j].must : <<work[j].q, d>> \in delivered \/ Ahead(j, d)'
      BY <1>1, <1>10 DEF InTurn
    <3>1. CASE j = i
      BY <1>4, <2>4, <3>1 DEF HInv, FInv, InTurn
    <3>2. CASE j # i
      <4>1. work'[j] = work[j] /\ work[j].must \subseteq Conns
        BY <1>4, <3>2, WorkFacts DEF HInv, Task
      <4> QED
        BY <2>3, <3>2, <4>1 DEF HInv, FInv, InTurn
    <3> QED
      BY <3>1, <3>2
  <2> QED
    BY <1>1, <2>1, <2>2, <2>5 DEF HInv, FInv
<1>14. ASSUME Quiet'
       PROVE  (AllUp /\ OneMessage /\ RepliedOnce /\ WaitsForOwing /\ AskersFound)'
  <2>1. AllUp /\ OneMessage /\ RepliedOnce /\ WaitsForOwing /\ AskersFound
    BY <1>1, <1>14 DEF HInv, QInv, Quiet
  <2>2. AllUp'
    <3>1. \A t \in Task : t # Dead
      BY DEF Task, Dead
    <3> QED
      BY <1>1, <1>4, <2>1, <3>1 DEF AllUp
  <2>3. OneMessage'
    BY <1>11, <2>1 DEF OneMessage
  <2>4. \A j \in Instances : \A q : Works(j, q)' <=> Works(j, q)
    BY <1>10 DEF Works
  <2>5. RepliedOnce' /\ WaitsForOwing'
    BY <1>1, <2>1, <2>4, SameMessages
  <2>6. AskersFound'
    <3>1. \A d \in Conns : asking[d].at = "wait" => Homes(d) \subseteq Homes(d)'
      <4>1. \A d \in Conns : asking[d].at = "wait" => d # c
        BY <1>1, WorkFacts DEF HInv
      <4> QED
        BY <1>7, <4>1 DEF Homes
    <3>2. \A j \in Instances : \A q : Found(j, q) => Found(j, q)'
      BY <1>1, <2>4, SameMessages
    <3> QED
      BY <1>1, <2>1, <3>1, <3>2 DEF AskersFound, Homes
  <2> QED
    BY <2>2, <2>3, <2>5, <2>6
<1> QED
  BY <1>5, <1>6, <1>9, <1>12, <1>13, <1>14 DEF HInv, QInv

(* No message on its way has a number yet to be given.                     *)
LEMMA UsedIsSent ==
  ASSUME HInv
  PROVE  /\ \A p \in pending : p.q <= sent
         /\ \A i \in Instances : \A k \in DOMAIN inbox[i] : inbox[i][k].q <= sent
         /\ \A i \in Instances : Busy(i) => work[i].q <= sent
         /\ \A l \in Links : \A k \in DOMAIN wire[l] : wire[l][k].q <= sent
<1>1. \A q \in Sends, id \in Ids : Uses(q, id) => q <= sent
  BY DEF HInv, UInv
<1>2. \A p \in pending : p.q <= sent
  BY <1>1 DEF Uses, HInv, BInv, Query
<1>3. \A i \in Instances : \A k \in DOMAIN inbox[i] : inbox[i][k].q <= sent
  BY <1>1, QueueFacts, MessageFacts DEF Uses, HInv
<1>4. \A i \in Instances : Busy(i) => work[i].q <= sent
  BY <1>1, WorkFacts DEF Uses, HInv, Task
<1>5. \A l \in Links : \A k \in DOMAIN wire[l] : wire[l][k].q <= sent
  BY <1>1, QueueFacts, MessageFacts DEF Uses, HInv
<1> QED
  BY <1>2, <1>3, <1>4, <1>5

(* send_zmq without a link.                                                *)
LEMMA AskUnlinkedHInv ==
  ASSUME HInv, NEW i \in Instances, NEW c \in Conns, AskUnlinked(i, c)
  PROVE  HInv'
<1>1. /\ ~linked[i] /\ sent' = sent + 1 /\ sent + faults < MaxEvents
      /\ UNCHANGED <<instVars, up, open, wire, pending, left, delivered, reused, faults>>
  BY DEF AskUnlinked, brokerVars
<1>2. TInv'
  BY <1>1, HubAssumption DEF HInv, TInv, instVars
<1>3. BInv' /\ MInv'
  BY <1>1 DEF HInv, BInv, MInv, Members, Homes, instVars
<1>4. \A q \in Sends, id \in Ids : Uses(q, id)' => Uses(q, id)
  BY <1>1 DEF Uses, Busy, instVars
<1>5. UInv'
  BY <1>1, <1>4 DEF HInv, UInv, TInv, Sends
<1>6. \A x \in delivered : x[1] <= sent + 1
  BY DEF HInv, FInv, MInv, TInv, Sends
<1>7. FInv'
  BY <1>1, <1>6 DEF HInv, FInv, AskedOnce, BoxedOnce, InTurn, Asked, Boxed, Works, Busy, Ahead, instVars
<1>8. ~Quiet'
  BY <1>1 DEF HInv, QInv, Quiet, AllUp
<1> QED
  BY <1>2, <1>3, <1>5, <1>7, <1>8 DEF HInv, QInv

(* send_zmq on a link that turns out to be broken.                         *)
LEMMA AskBrokenPipeHInv ==
  ASSUME HInv, NEW i \in Instances, NEW c \in Conns, AskBrokenPipe(i, c)
  PROVE  HInv'
<1>1. /\ linked[i] /\ LinkOf(i) \notin open /\ sent' = sent + 1 /\ sent + faults < MaxEvents
      /\ linked' = [linked EXCEPT ![i] = FALSE]
      /\ inbox' = [inbox EXCEPT ![i] = << >>]
      /\ UNCHANGED <<epoch, wss, work, answers, asking, up, open, wire, pending,
                     left, delivered, reused, faults>>
  BY DEF AskBrokenPipe, brokerVars
<1>2. TInv'
  <2>1. linked' \in [Instances -> BOOLEAN] /\ inbox' \in [Instances -> Seq(Message)]
    BY <1>1 DEF HInv, TInv
  <2> QED
    BY <1>1, <2>1, HubAssumption DEF HInv, TInv
<1>3. BInv' /\ MInv'
  BY <1>1 DEF HInv, BInv, MInv, Members, Homes
<1>4. \A j \in Instances : inbox'[j] = inbox[j] \/ inbox'[j] = << >>
  BY <1>1 DEF HInv, TInv
<1>5. \A q \in Sends, id \in Ids : Uses(q, id)' => Uses(q, id)
  BY <1>1, <1>4 DEF Uses, Busy
<1>6. UInv'
  BY <1>1, <1>5 DEF HInv, UInv, TInv, Sends
<1>7. \A x \in delivered : x[1] <= sent + 1
  BY DEF HInv, FInv, MInv, TInv, Sends
<1>8. FInv'
  <2>1. \A j \in Instances : \A k, q : Boxed(j, k, q)' => Boxed(j, k, q)
    BY <1>4 DEF Boxed
  <2> QED
    BY <1>1, <1>7, <2>1 DEF HInv, FInv, AskedOnce, BoxedOnce, InTurn, Asked, Works, Busy, Ahead
<1>9. ~Quiet'
  BY <1>1 DEF HInv, QInv, BInv, Quiet, AllUp, LinkOf
<1> QED
  BY <1>2, <1>3, <1>6, <1>8, <1>9 DEF HInv, QInv

(* send_zmq: a message with a new number.                                  *)
LEMMA AskHInv ==
  ASSUME HInv, NEW i \in Instances, NEW c \in Conns, NEW id \in Ids, NEW notify \in BOOLEAN,
         Ask(i, c, id, notify)
  PROVE  HInv'
<1>0. PICK q0 \in Sends, l0 \in Links : q0 = sent + 1 /\ l0 = LinkOf(i)
  <2>1. sent + 1 \in Sends
    BY HubAssumption DEF Ask, HInv, TInv, Sends
  <2>2. LinkOf(i) \in Links
    BY LinkFacts DEF HInv
  <2> QED
    BY <2>1, <2>2
<1>1. /\ i \in Homes(c) /\ linked[i] /\ sent' = sent + 1 /\ sent + faults < MaxEvents
      /\ reused' = (reused \/ InUse(id))
      /\ asking' = [asking EXCEPT ![c] = [at |-> "wait", q |-> q0, id |-> id, notify |-> notify]]
      /\ wire' = IF l0 \in open THEN [wire EXCEPT ![l0] = Append(@, Req(q0, id))] ELSE wire
      /\ UNCHANGED <<linked, epoch, wss, work, inbox, answers, up, open, pending,
                     left, delivered, faults>>
  BY <1>0 DEF Ask
<1>2. q0 = sent + 1 /\ sent \in Nat
  BY <1>0 DEF HInv, TInv
<1>3. Req(q0, id) \in Message /\ Req(q0, id).type = "req" /\ Req(q0, id).q = q0 /\ Req(q0, id).id = id
  BY <1>2, MessageFacts
<1>4. /\ wire' \in [Links -> Seq(Message)]
      /\ \A l \in Links : \A k \in DOMAIN wire'[l] :
           \/ k \in DOMAIN wire[l] /\ wire'[l][k] = wire[l][k]
           \/ l = l0 /\ k = Len(wire[l0]) + 1 /\ wire'[l][k] = Req(q0, id)
      /\ \A l \in Links : \A k \in DOMAIN wire[l] : k \in DOMAIN wire'[l] /\ wire'[l][k] = wire[l][k]
      /\ Len(wire[l0]) + 1 \notin DOMAIN wire[l0]
  <2>1. wire \in [Links -> Seq(Message)] /\ wire[l0] \in Seq(Message)
    BY <1>2 DEF HInv, TInv
  <2>2. CASE l0 \in open
    <3>1. /\ wire'[l0] = Append(wire[l0], Req(q0, id))
          /\ \A l \in Links : l # l0 => wire'[l] = wire[l]
          /\ wire' \in [Links -> Seq(Message)]
      BY <1>1, <1>2, <1>3, <2>1, <2>2
    <3>2. /\ DOMAIN wire'[l0] = 1 .. Len(wire[l0]) + 1 /\ DOMAIN wire[l0] = 1 .. Len(wire[l0])
          /\ Len(wire[l0]) \in Nat /\ wire'[l0][Len(wire[l0]) + 1] = Req(q0, id)
          /\ \A k \in 1 .. Len(wire[l0]) : wire'[l0][k] = wire[l0][k]
      BY <1>3, <2>1, <3>1, AppendFacts
    <3>3. /\ \A k \in DOMAIN wire'[l0] :
               \/ k \in DOMAIN wire[l0] /\ wire'[l0][k] = wire[l0][k]
               \/ k = Len(wire[l0]) + 1 /\ wire'[l0][k] = Req(q0, id)
          /\ \A k \in DOMAIN wire[l0] : k \in DOMAIN wire'[l0] /\ wire'[l0][k] = wire[l0][k]
          /\ Len(wire[l0]) + 1 \notin DOMAIN wire[l0]
      BY <3>2
    <3> QED
      BY <3>1, <3>3
  <2>3. CASE l0 \notin open
    <3>1. wire' = wire
      BY <1>1, <2>3
    <3>2. Len(wire[l0]) + 1 \notin DOMAIN wire[l0]
      BY <2>1
    <3> QED
      BY <2>1, <3>1, <3>2
  <2> QED
    BY <2>2, <2>3
<1>5. TInv'
  <2>1. asking' \in [Conns -> {Idle} \cup Wait]
    BY <1>1, <1>2 DEF HInv, TInv, Wait
  <2>2. reused' \in BOOLEAN
    BY <1>1 DEF HInv, TInv, InUse
  <2> QED
    BY <1>1, <1>4, <2>1, <2>2, HubAssumption DEF HInv, TInv
<1>6. BInv' /\ MInv'
  BY <1>1 DEF HInv, BInv, MInv, Members, Homes
<1>7. \A q \in Sends, jd \in Ids : Uses(q, jd)' => Uses(q, jd) \/ (q = q0 /\ jd = id)
  <2>1. \A d \in Conns : asking'[d].at = "wait" =>
          asking'[d] = asking[d] \/ (asking'[d].q = q0 /\ asking'[d].id = id)
    BY <1>1 DEF HInv, TInv
  <2>2. \A l \in Links : \A k \in DOMAIN wire'[l] :
          \/ k \in DOMAIN wire[l] /\ wire'[l][k] = wire[l][k]
          \/ wire'[l][k].q = q0 /\ wire'[l][k].id = id
    BY <1>3, <1>4
  <2> QED
    BY <1>1, <2>1, <2>2 DEF Uses, Busy
<1>8. \A q \in Sends, jd \in Ids : Uses(q, jd) => q <= sent /\ q # q0
  BY <1>2 DEF HInv, UInv, Sends
<1>9. UInv'
  BY <1>1, <1>2, <1>7, <1>8 DEF HInv, UInv, Sends
<1>10. /\ \A l, k, q : Asked(l, k, q)' /\ l \in Links =>
             Asked(l, k, q) \/ (l = l0 /\ k = Len(wire[l0]) + 1 /\ q = q0)
       /\ \A l \in Links : \A k, q : Asked(l, k, q) => q # q0
       /\ \A j \in Instances : \A k, q : Boxed(j, k, q) => q # q0
       /\ \A j \in Instances : \A q : Works(j, q) => q # q0
       /\ \A d \in Conns : <<q0, d>> \notin delivered
  <2>1. \A l, k, q : Asked(l, k, q)' /\ l \in Links =>
             Asked(l, k, q) \/ (l = l0 /\ k = Len(wire[l0]) + 1 /\ q = q0)
    BY <1>3, <1>4 DEF Asked, IsReq
  <2>2. \A n : n <= sent => n # q0
    BY <1>2
  <2>3. /\ \A l \in Links : \A k, q : Asked(l, k, q) => q # q0
        /\ \A j \in Instances : \A k, q : Boxed(j, k, q) => q # q0
        /\ \A j \in Instances : \A q : Works(j, q) => q # q0
    BY <2>2, UsedIsSent DEF Asked, Boxed, Works, IsReq
  <2>4. \A d \in Conns : <<q0, d>> \notin delivered
    BY <1>2 DEF HInv, FInv
  <2> QED
    BY <2>1, <2>3, <2>4
<1>11. /\ \A j \in Instances : \A k, q : Boxed(j, k, q)' <=> Boxed(j, k, q)
       /\ \A j \in Instances : \A q : Works(j, q)' <=> Works(j, q)
       /\ \A j \in Instances, d \in Conns : Ahead(j, d)' <=> Ahead(j, d)
  BY <1>1 DEF Boxed, Works, Busy, Ahead
<1>12. FInv'
  <2>1. AskedOnce'
    BY <1>1, <1>10, <1>11 DEF HInv, FInv, AskedOnce
  <2>2. BoxedOnce'
    BY <1>1, <1>11 DEF HInv, FInv, BoxedOnce
  <2>3. InTurn'
    BY <1>1 DEF HInv, FInv, InTurn, Ahead, Busy
  <2>4. \A x \in delivered : x[1] <= sent + 1
    BY DEF HInv, FInv, MInv, TInv, Sends
  <2> QED
    BY <1>1, <2>1, <2>2, <2>3, <2>4 DEF FInv
<1>13. ASSUME Quiet'
       PROVE  (AllUp /\ OneMessage /\ RepliedOnce /\ WaitsForOwing /\ AskersFound)'
  <2>1. AllUp /\ OneMessage /\ RepliedOnce /\ WaitsForOwing /\ AskersFound
    BY <1>1, <1>13 DEF HInv, QInv, TInv, Quiet
  <2>2. \A q \in Sends : ~Uses(q, id)
    <3>1. ~InUse(id)
      BY <1>1, <1>13 DEF Quiet
    <3> QED
      BY <3>1 DEF InUse, Uses, IdsIn
  <2>3. AllUp' /\ OneMessage'
    BY <1>1, <1>7, <1>8, <2>1, <2>2 DEF AllUp, OneMessage
  <2>4. \A j \in Instances : \A k, q : Replied(j, k, q)' <=> Replied(j, k, q)
    <3>1. \A j \in Instances : FirstLink(j) \in Links
      BY HubAssumption DEF FirstLink, Links
    <3> QED
      BY <1>3, <1>4, <3>1 DEF Replied
  <2>5. \A j \in Instances : \A k, q : Replied(j, k, q) => q # q0
    <3>1. \A j \in Instances : FirstLink(j) \in Links
      BY HubAssumption DEF FirstLink, Links
    <3>2. \A n : n <= sent => n # q0
      BY <1>2
    <3> QED
      BY <3>1, <3>2, UsedIsSent DEF Replied
  <2>6. RepliedOnce'
    BY <1>10, <1>11, <2>1, <2>4, <2>5 DEF RepliedOnce
  <2>7. \A p \in pending : p.q # q0
    BY <1>2, UsedIsSent
  <2>8. WaitsForOwing'
    <3>1. \A j \in Instances : \A q : Owes(j, q)' <=> Owes(j, q)
      BY <1>11, <2>4 DEF Owes
    <3> QED
      BY <1>1, <1>10, <2>1, <2>7, <3>1 DEF WaitsForOwing
  <2>9. AskersFound'
    <3>1. \A j \in Instances : FirstLink(j) \in Links
      BY HubAssumption DEF FirstLink, Links
    <3>2. \A j \in Instances : \A q : Found(j, q) => Found(j, q)'
      BY <1>1, <1>3, <1>4, <3>1 DEF Found, Denial
    <3>3. Found(i, q0)'
      <4>1. \A n : n <= sent => n # q0
        BY <1>2
      <4>2. /\ \A k \in DOMAIN wire'[FirstLink(i)] : ~Denial(wire'[FirstLink(i)][k], q0)
            /\ \A j \in Instances : \A k \in DOMAIN inbox[j] : ~Denial(inbox[j][k], q0)
        BY <1>3, <1>4, <3>1, <4>1, UsedIsSent DEF Denial
      <4> QED
        BY <1>1, <2>7, <4>2 DEF Found
    <3>4. \A d \in Conns : asking'[d].at = "wait" =>
            asking'[d] = asking[d] \/ (d = c /\ asking'[d].q = q0)
      BY <1>1 DEF HInv, TInv
    <3>5. \A d \in Conns : Homes(d)' = Homes(d)
      BY <1>1 DEF Homes
    <3>6. i \in Homes(c)'
      BY <1>1, <3>5
    <3>7. ASSUME NEW d \in Conns, NEW q \in Sends, asking'[d].at = "wait", asking'[d].q = q
          PROVE  \E j \in Homes(d)' : Found(j, q)'
      <4>1. CASE asking'[d] = asking[d]
        BY <2>1, <3>2, <3>5, <3>7, <4>1 DEF AskersFound, Homes
      <4>2. CASE d = c /\ asking'[d].q = q0
        BY <3>3, <3>6, <3>7, <4>2
      <4> QED
        BY <3>4, <3>7, <4>1, <4>2
    <3> QED
      BY <3>7 DEF AskersFound
  <2> QED
    BY <2>3, <2>6, <2>8, <2>9
<1> QED
  BY <1>5, <1>6, <1>9, <1>12, <1>13 DEF HInv, QInv

-----------------------------------------------------------------------------
(* The task work() of an instance.                                         *)

(* work() makes a new link.                                                *)
LEMMA DialHInv ==
  ASSUME HInv, NEW i \in Instances, Dial(i)
  PROVE  HInv'
<1>1. /\ ~linked[i] /\ epoch[i] < MaxEpoch
      /\ linked' = [linked EXCEPT ![i] = TRUE] /\ epoch' = [epoch EXCEPT ![i] = @ + 1]
      /\ up' = Append(up, LinkOf(i)') /\ open' = open \cup {LinkOf(i)'}
      /\ UNCHANGED <<wss, work, inbox, answers, asking, wire, pending, sent, left, delivered,
                     reused, faults>>
  BY DEF Dial, histVars
<1>2. PICK e \in 1 .. MaxEpoch : e = epoch[i] + 1
  BY <1>1, HubAssumption DEF HInv, TInv
<1>3. /\ linked' \in [Instances -> BOOLEAN] /\ epoch' \in [Instances -> 1 .. MaxEpoch]
      /\ epoch'[i] = e /\ \A j \in Instances : epoch[j] <= epoch'[j]
  BY <1>1, <1>2 DEF HInv, TInv
<1>4. TInv'
  BY <1>1, <1>3 DEF HInv, TInv
<1>5. LinkOf(i)' = <<i, e>> /\ <<i, e>> \in Links /\ <<i, e>> \notin open
  <2>1. \A l \in open : l[2] <= epoch[l[1]]
    BY DEF HInv, BInv
  <2>2. epoch[i] \in Nat
    BY DEF HInv, TInv
  <2> QED
    BY <1>2, <1>3, <2>1, <2>2 DEF LinkOf, Links
<1>6. /\ up \in Seq(Links) /\ IsInjective(up) /\ ToSet(up) \subseteq open
      /\ open \subseteq Links /\ \A l \in open : l[2] <= epoch[l[1]]
  BY DEF HInv, BInv
<1>7. up' \in Seq(Links) /\ IsInjective(up') /\ ToSet(up') = ToSet(up) \cup {<<i, e>>}
  <2>1. <<i, e>> \notin ToSet(up) /\ up' = Append(up, <<i, e>>)
    BY <1>1, <1>5, <1>6
  <2>2. PICK l \in Links : l = <<i, e>>
    BY <1>5
  <2>3. up' = Append(up, l) /\ l \notin ToSet(up)
    BY <2>1, <2>2
  <2>4. up' \in Seq(Links) /\ IsInjective(up') /\ ToSet(up') = ToSet(up) \cup {l}
    BY <1>6, <2>3, AppendFacts
  <2> QED
    BY <2>2, <2>4
<1>8. BInv'
  <2>1. \A l \in open' : l[2] <= epoch'[l[1]]
    <3>1. \A l \in open : l[1] \in Instances /\ l[2] \in Nat /\ epoch[l[1]] \in Nat /\ epoch'[l[1]] \in Nat
      BY <1>3, <1>6 DEF Links, HInv, TInv
    <3> QED
      BY <1>1, <1>2, <1>3, <1>5, <1>6, <3>1
  <2> QED
    BY <1>1, <1>5, <1>6, <1>7, <2>1 DEF HInv, BInv
<1>9. MInv'
  BY <1>1 DEF HInv, MInv, Members, Homes
<1>10. UInv'
  BY <1>1 DEF HInv, UInv, Uses, Busy
<1>11. FInv'
  BY <1>1 DEF HInv, FInv, AskedOnce, BoxedOnce, InTurn, Asked, Boxed, Works, Busy, Ahead
<1>12. ~Quiet'
  BY <1>1 DEF HInv, QInv, AllUp, Quiet
<1> QED
  BY <1>4, <1>8, <1>9, <1>10, <1>11, <1>12 DEF HInv, QInv

(* work() ends with a ConnectionResetError.                                *)
LEMMA ReadResetHInv ==
  ASSUME HInv, NEW i \in Instances, ReadReset(i)
  PROVE  HInv'
<1>1. /\ work[i] = Idle /\ linked[i] /\ LinkOf(i) \notin open
      /\ work' = [work EXCEPT ![i] = Dead]
      /\ UNCHANGED <<linked, epoch, wss, inbox, answers, asking, up, open, wire, pending,
                     sent, left, delivered, reused, faults>>
  BY DEF ReadReset, histVars, brokerVars
<1>2. /\ work' \in [Instances -> {Idle, Dead} \cup Task] /\ ~Busy(i) /\ ~Busy(i)'
      /\ \A j \in Instances : j # i => work'[j] = work[j]
  BY <1>1 DEF HInv, TInv, Busy, Idle, Dead
<1>3. TInv'
  BY <1>1, <1>2 DEF HInv, TInv
<1>4. BInv' /\ MInv'
  BY <1>1 DEF HInv, BInv, MInv, Members, Homes
<1>5. UInv'
  BY <1>1, <1>2 DEF HInv, UInv, Uses, Busy
<1>6. FInv'
  BY <1>1, <1>2 DEF HInv, FInv, AskedOnce, BoxedOnce, InTurn, Asked, Boxed, Works, Busy, Ahead
<1>7. ~Quiet'
  <2>1. Quiet => LinkOf(i) \in open
    BY <1>1 DEF HInv, QInv, BInv, AllUp, LinkOf
  <2> QED
    BY <1>1, <2>1 DEF Quiet
<1> QED
  BY <1>3, <1>4, <1>5, <1>6, <1>7 DEF HInv, QInv

(* An instance takes the first message before it.                          *)
LEMMA TakeHead ==
  ASSUME TInv, NEW i \in Instances, inbox[i] # << >>,
         inbox' = [inbox EXCEPT ![i] = Tail(@)]
  PROVE  /\ inbox' \in [Instances -> Seq(Message)] /\ Head(inbox[i]) \in Message
         /\ 1 \in DOMAIN inbox[i] /\ Head(inbox[i]) = inbox[i][1]
         /\ \A j \in Instances : \A k \in DOMAIN inbox'[j] :
              \E n \in DOMAIN inbox[j] : inbox'[j][k] = inbox[j][n]
         /\ \A j \in Instances : \A k, q : Boxed(j, k, q)' =>
              IF j = i THEN k \in Nat \ {0} /\ Boxed(i, k + 1, q) ELSE Boxed(j, k, q)
         /\ \A j \in Instances : \A k \in Nat : \A q : Boxed(j, k, q) =>
              IF j = i THEN (k = 1 /\ IsReq(Head(inbox[i]), q)) \/ (k - 1 \in Nat /\ Boxed(i, k - 1, q)')
              ELSE Boxed(j, k, q)'
         /\ \A q : Boxed(i, 1, q) <=> IsReq(Head(inbox[i]), q)
<1> DEFINE t == Tail(inbox[i])
<1>1. inbox \in [Instances -> Seq(Message)] /\ inbox[i] \in Seq(Message)
  BY DEF TInv
<1>2. /\ t \in Seq(Message) /\ Head(inbox[i]) = inbox[i][1] /\ Head(inbox[i]) \in Message
      /\ 1 \in DOMAIN inbox[i]
      /\ \A k \in DOMAIN t : k \in Nat /\ k + 1 \in DOMAIN inbox[i] /\ t[k] = inbox[i][k + 1]
      /\ \A k \in DOMAIN inbox[i] :
           k \in Nat /\ (k = 1 \/ (k - 1 \in DOMAIN t /\ t[k - 1] = inbox[i][k]))
  BY <1>1, TailFacts
<1>3. 0 \notin DOMAIN t
  BY <1>2
<1>4. inbox' = [inbox EXCEPT ![i] = t]
  OBVIOUS
<1> HIDE DEF t
<1>5. /\ inbox' \in [Instances -> Seq(Message)] /\ inbox'[i] = t
      /\ \A j \in Instances : j # i => inbox'[j] = inbox[j]
  BY <1>1, <1>2, <1>4
<1>6. \A j \in Instances : \A k \in DOMAIN inbox'[j] :
        \E n \in DOMAIN inbox[j] : inbox'[j][k] = inbox[j][n]
  <2>1. \A k \in DOMAIN t : \E n \in DOMAIN inbox[i] : t[k] = inbox[i][n]
    BY <1>2
  <2> QED
    BY <1>5, <2>1
<1>7. \A k, q : Boxed(i, k, q)' => k \in Nat \ {0} /\ Boxed(i, k + 1, q)
  BY <1>2, <1>3, <1>5 DEF Boxed
<1>8. \A k, q : Boxed(i, k, q) =>
        (k = 1 /\ IsReq(Head(inbox[i]), q)) \/ (k - 1 \in Nat /\ Boxed(i, k - 1, q)')
  <2>1. DOMAIN t \subseteq Nat
    BY <1>2
  <2> QED
    BY <1>2, <1>5, <2>1 DEF Boxed
<1>9. \A j \in Instances : \A k, q : j # i => (Boxed(j, k, q)' <=> Boxed(j, k, q))
  BY <1>5 DEF Boxed
<1>10. \A q : Boxed(i, 1, q) <=> IsReq(Head(inbox[i]), q)
  BY <1>2 DEF Boxed
<1> QED
  BY <1>2, <1>5, <1>6, <1>7, <1>8, <1>9, <1>10

(* work() takes an answer.                                                 *)
LEMMA TakeReplyHInv ==
  ASSUME HInv, NEW i \in Instances, TakeReply(i)
  PROVE  HInv'
<1>1. /\ inbox[i] # << >> /\ Head(inbox[i]).type = "rep"
      /\ inbox' = [inbox EXCEPT ![i] = Tail(@)]
      /\ answers' = [answers EXCEPT ![i] = {a \in @ : a.id # Head(inbox[i]).id}
                       \cup {[id |-> Head(inbox[i]).id, ok |-> Head(inbox[i]).ok]}]
      /\ UNCHANGED <<linked, epoch, wss, work, asking, up, open, wire, pending,
                     sent, left, delivered, reused, faults>>
  BY DEF TakeReply, brokerVars
<1>2. /\ inbox' \in [Instances -> Seq(Message)] /\ Head(inbox[i]) \in Message
      /\ \A j \in Instances : \A k \in DOMAIN inbox'[j] :
           \E n \in DOMAIN inbox[j] : inbox'[j][k] = inbox[j][n]
      /\ \A j \in Instances : \A k, q : Boxed(j, k, q)' =>
           IF j = i THEN k \in Nat \ {0} /\ Boxed(i, k + 1, q) ELSE Boxed(j, k, q)
      /\ \A j \in Instances : \A k \in Nat : \A q : Boxed(j, k, q) =>
           IF j = i THEN k - 1 \in Nat /\ Boxed(i, k - 1, q)' ELSE Boxed(j, k, q)'
  <2>1. \A q : ~IsReq(Head(inbox[i]), q)
    BY <1>1 DEF IsReq
  <2> QED
    BY <1>1, <2>1, TakeHead DEF HInv
<1>5. /\ answers' \in [Instances -> SUBSET [id : Ids, ok : BOOLEAN]]
      /\ \A j \in Instances : \A a, b \in answers'[j] : a.id = b.id => a = b
  <2>1. PICK id \in Ids, ok \in BOOLEAN : id = Head(inbox[i]).id /\ ok = Head(inbox[i]).ok
    BY <1>1, <1>2, MessageFacts
  <2>2. answers' = [answers EXCEPT ![i] = {a \in @ : a.id # id} \cup {[id |-> id, ok |-> ok]}]
    BY <1>1, <2>1
  <2> QED
    BY <2>2 DEF HInv, TInv
<1>6. TInv'
  BY <1>1, <1>2, <1>5 DEF HInv, TInv
<1>7. BInv' /\ MInv'
  BY <1>1 DEF HInv, BInv, MInv, Members, Homes
<1>9. \A q \in Sends, id \in Ids : Uses(q, id)' => Uses(q, id)
  BY <1>1, <1>2 DEF Uses, Busy
<1>10. UInv'
  BY <1>1, <1>9 DEF HInv, UInv
<1>12. /\ \A l, k, q : Asked(l, k, q)' <=> Asked(l, k, q)
       /\ \A j \in Instances : \A q : Works(j, q)' <=> Works(j, q)
       /\ \A j, k, q : Replied(j, k, q)' <=> Replied(j, k, q)
  BY <1>1 DEF Asked, Works, Busy, Replied
<1>13. FInv'
  <2>1. AskedOnce'
    BY <1>1, <1>2, <1>12 DEF HInv, FInv, AskedOnce
  <2>2. BoxedOnce'
    BY <1>1, <1>2, <1>12 DEF HInv, FInv, BoxedOnce
  <2>3. InTurn'
    BY <1>1 DEF HInv, FInv, InTurn, Ahead, Busy
  <2> QED
    BY <1>1, <2>1, <2>2, <2>3 DEF HInv, FInv
<1>14. ASSUME Quiet'
       PROVE  (AllUp /\ OneMessage /\ RepliedOnce /\ WaitsForOwing /\ AskersFound)'
  <2>1. AllUp /\ OneMessage /\ RepliedOnce /\ WaitsForOwing /\ AskersFound
    BY <1>1, <1>14 DEF HInv, QInv, Quiet
  <2>2. AllUp' /\ OneMessage'
    BY <1>1, <1>9, <2>1 DEF AllUp, OneMessage
  <2>3. RepliedOnce'
    BY <1>2, <1>12, <2>1 DEF RepliedOnce
  <2>4. \A j \in Instances : \A q : Owes(j, q)' <=> Owes(j, q)
    <3>1. \A j \in Instances : \A q : (\E k \in Nat : Boxed(j, k, q)') => \E k \in Nat : Boxed(j, k, q)
      <4> SUFFICES ASSUME NEW j \in Instances, NEW q, NEW k \in Nat, Boxed(j, k, q)'
                   PROVE  \E n \in Nat : Boxed(j, n, q)
        OBVIOUS
      <4>1. k + 1 \in Nat
        OBVIOUS
      <4> QED
        BY <1>2, <4>1
    <3>2. \A j \in Instances : \A q : (\E k \in Nat : Boxed(j, k, q)) => \E k \in Nat : Boxed(j, k, q)'
      BY <1>2
    <3> QED
      BY <1>12, <3>1, <3>2 DEF Owes
  <2>5. WaitsForOwing'
    BY <1>1, <1>12, <2>1, <2>4 DEF WaitsForOwing
  <2>6. AskersFound'
    <3>1. \A j \in Instances : \A q : Found(j, q) => Found(j, q)'
      BY <1>1, <1>2 DEF Found
    <3>2. \A c \in Conns : Homes(c)' = Homes(c)
      BY <1>1 DEF Homes
    <3> QED
      BY <1>1, <2>1, <3>1, <3>2 DEF AskersFound, Homes
  <2> QED
    BY <2>2, <2>3, <2>5, <2>6
<1> QED
  BY <1>6, <1>7, <1>10, <1>13, <1>14 DEF HInv, QInv

(* What an instance writes as its answer.                                  *)
LEMMA ReplyFacts ==
  ASSUME TInv, NEW i \in Instances, NEW q0 \in Sends, NEW id \in Ids, NEW ok \in BOOLEAN,
         Reply(i, q0, id, ok)
  PROVE  /\ work' \in [Instances -> {Idle, Dead} \cup Task]
         /\ work'[i] \in {Idle, Dead} /\ \A j \in Instances : j # i => work'[j] = work[j]
         /\ ~Busy(i)' /\ \A j \in Instances : j # i => (Busy(j)' <=> Busy(j))
         /\ wire' \in [Links -> Seq(Message)]
         /\ \A l \in Links : \A k \in DOMAIN wire'[l] :
              (k \in DOMAIN wire[l] /\ wire'[l][k] = wire[l][k]) \/ wire'[l][k] = Rep(q0, id, ok)
         /\ \A l \in Links : \A k, q : Asked(l, k, q)' <=> Asked(l, k, q)
<1> DEFINE l0 == LinkOf(i)
           m == Rep(q0, id, ok)
<1>1. /\ wire \in [Links -> Seq(Message)] /\ l0 \in Links /\ wire[l0] \in Seq(Message)
      /\ m \in Message /\ m.type = "rep" /\ work \in [Instances -> {Idle, Dead} \cup Task]
  BY LinkFacts, MessageFacts DEF TInv
<1>2. \A t \in {Idle, Dead} : t.at # "distribute"
  BY DEF Idle, Dead
<1>3. /\ \E t \in {Idle, Dead} : work' = [work EXCEPT ![i] = t]
      /\ wire' = wire \/ wire' = [wire EXCEPT ![l0] = Append(@, m)]
  BY DEF Reply
<1>4. /\ work' \in [Instances -> {Idle, Dead} \cup Task]
      /\ work'[i] \in {Idle, Dead} /\ \A j \in Instances : j # i => work'[j] = work[j]
  BY <1>1, <1>3
<1>5. ~Busy(i)' /\ \A j \in Instances : j # i => (Busy(j)' <=> Busy(j))
  BY <1>2, <1>4 DEF Busy
<1> HIDE DEF l0, m
<1>6. CASE wire' = [wire EXCEPT ![l0] = Append(@, m)]
  <2>1. /\ wire'[l0] = Append(wire[l0], m) /\ wire' \in [Links -> Seq(Message)]
        /\ \A l \in Links : l # l0 => wire'[l] = wire[l]
    BY <1>1, <1>6
  <2>2. /\ DOMAIN wire'[l0] = 1 .. Len(wire[l0]) + 1 /\ DOMAIN wire[l0] = 1 .. Len(wire[l0])
        /\ Len(wire[l0]) \in Nat /\ wire'[l0][Len(wire[l0]) + 1] = m
        /\ \A k \in 1 .. Len(wire[l0]) : wire'[l0][k] = wire[l0][k]
        /\ \A k \in DOMAIN wire'[l0] : \/ k \in DOMAIN wire[l0] /\ wire'[l0][k] = wire[l0][k]
                                       \/ wire'[l0][k] = m
    BY <1>1, <2>1, AppendFacts
  <2>3. /\ \A l \in Links : \A k \in DOMAIN wire'[l] :
             (k \in DOMAIN wire[l] /\ wire'[l][k] = wire[l][k]) \/ wire'[l][k] = m
        /\ \A l \in Links : \A k \in DOMAIN wire[l] : k \in DOMAIN wire'[l] /\ wire'[l][k] = wire[l][k]
    <3>1. /\ \A k \in DOMAIN wire'[l0] :
               (k \in DOMAIN wire[l0] /\ wire'[l0][k] = wire[l0][k]) \/ wire'[l0][k] = m
          /\ \A k \in DOMAIN wire[l0] : k \in DOMAIN wire'[l0] /\ wire'[l0][k] = wire[l0][k]
      BY <2>2
    <3> QED
      BY <2>1, <3>1
  <2>4. \A l \in Links : \A k, q : Asked(l, k, q)' <=> Asked(l, k, q)
    BY <1>1, <2>3 DEF Asked, IsReq
  <2> QED
    BY <1>4, <1>5, <2>1, <2>3, <2>4 DEF m
<1>7. CASE wire' = wire
  BY <1>1, <1>4, <1>5, <1>7 DEF Asked
<1> QED
  BY <1>3, <1>6, <1>7

(* As long as all links are up the answer gets to the broker.              *)
LEMMA ReplyArrives ==
  ASSUME TInv, BInv, AllUp, NEW i \in Instances, NEW q0 \in Sends, NEW id \in Ids, NEW ok \in BOOLEAN,
         Reply(i, q0, id, ok)
  PROVE  /\ work'[i] = Idle
         /\ \E n \in Nat :
              /\ \A q : ~Replied(i, n, q)
              /\ \A j \in Instances : \A k, q : Replied(j, k, q)' <=>
                   Replied(j, k, q) \/ (j = i /\ k = n /\ q = q0)
         /\ \A j \in Instances : j # i => wire'[FirstLink(j)] = wire[FirstLink(j)]
<1> DEFINE l0 == FirstLink(i)
           m == Rep(q0, id, ok)
<1>1. /\ wire \in [Links -> Seq(Message)] /\ l0 \in Links /\ wire[l0] \in Seq(Message)
      /\ m \in Message /\ m.type = "rep" /\ m.q = q0
      /\ work \in [Instances -> {Idle, Dead} \cup Task]
  BY LinkFacts, MessageFacts DEF TInv
<1>2. linked[i] /\ LinkOf(i) = l0 /\ l0 \in open
  BY LinkFacts DEF AllUp, BInv, FirstLink
<1>3. work' = [work EXCEPT ![i] = Idle] /\ wire' = [wire EXCEPT ![l0] = Append(@, m)]
  BY <1>2 DEF Reply
<1>4. work'[i] = Idle
  BY <1>1, <1>3
<1>5. /\ wire'[l0] = Append(wire[l0], m)
      /\ \A l \in Links : l # l0 => wire'[l] = wire[l]
  BY <1>1, <1>3
<1>6. \A j \in Instances : j # i => FirstLink(j) \in Links /\ FirstLink(j) # l0
  BY LinkFacts
<1> HIDE DEF l0, m
<1>7. /\ DOMAIN wire'[l0] = 1 .. Len(wire[l0]) + 1 /\ DOMAIN wire[l0] = 1 .. Len(wire[l0])
      /\ Len(wire[l0]) \in Nat /\ wire'[l0][Len(wire[l0]) + 1] = m
      /\ \A k \in 1 .. Len(wire[l0]) : wire'[l0][k] = wire[l0][k]
      /\ \A k \in DOMAIN wire'[l0] : \/ k \in DOMAIN wire[l0] /\ wire'[l0][k] = wire[l0][k]
                                     \/ k = Len(wire[l0]) + 1 /\ wire'[l0][k] = m
      /\ Len(wire[l0]) + 1 \notin DOMAIN wire[l0]
  BY <1>1, <1>5, AppendFacts
<1>8. PICK n \in Nat : n = Len(wire[l0]) + 1
  BY <1>7
<1>9. \A q : ~Replied(i, n, q)
  BY <1>7, <1>8 DEF Replied, l0
<1>10. \A j \in Instances : j # i => wire'[FirstLink(j)] = wire[FirstLink(j)]
  BY <1>5, <1>6
<1>11. \A j \in Instances : j # i => \A k, q : Replied(j, k, q)' <=> Replied(j, k, q)
  BY <1>10 DEF Replied
<1>12. \A k, q : Replied(i, k, q)' <=> Replied(i, k, q) \/ (k = n /\ q = q0)
  <2>1. \A k, q : Replied(i, k, q) <=> k \in DOMAIN wire[l0] /\ wire[l0][k].type = "rep" /\ wire[l0][k].q = q
    BY DEF Replied, l0
  <2>2. \A k, q : Replied(i, k, q)' <=> k \in DOMAIN wire'[l0] /\ wire'[l0][k].type = "rep" /\ wire'[l0][k].q = q
    BY DEF Replied, l0, FirstLink
  <2> QED
    BY <1>1, <1>7, <1>8, <2>1, <2>2
<1> QED
  BY <1>4, <1>9, <1>10, <1>11, <1>12

(* work() takes a question, and starts to distribute it or answers False.  *)
LEMMA TakeQueryHInv ==
  ASSUME HInv, NEW i \in Instances, TakeQuery(i)
  PROVE  HInv'
<1>1. PICK m \in Message : m = Head(inbox[i])
  BY TakeHead DEF TakeQuery, HInv
<1>2. /\ work[i] = Idle /\ linked[i] /\ inbox[i] # << >> /\ m.type = "req"
      /\ inbox' = [inbox EXCEPT ![i] = Tail(@)]
      /\ UNCHANGED <<linked, epoch, wss, answers, asking, up, open, pending,
                     sent, left, delivered, reused, faults>>
  BY <1>1 DEF TakeQuery
<1>3. PICK q0 \in Sends, id \in Ids : q0 = m.q /\ id = m.id
  BY MessageFacts
<1>4. /\ inbox' \in [Instances -> Seq(Message)]
      /\ 1 \in DOMAIN inbox[i] /\ inbox[i][1] = m
      /\ \A j \in Instances : \A k \in DOMAIN inbox'[j] :
           \E n \in DOMAIN inbox[j] : inbox'[j][k] = inbox[j][n]
      /\ \A j \in Instances : \A k, q : Boxed(j, k, q)' =>
           IF j = i THEN k \in Nat \ {0} /\ Boxed(i, k + 1, q) ELSE Boxed(j, k, q)
      /\ \A j \in Instances : \A k \in Nat : \A q : Boxed(j, k, q) =>
           IF j = i THEN (k = 1 /\ q = q0) \/ (k - 1 \in Nat /\ Boxed(i, k - 1, q)')
           ELSE Boxed(j, k, q)'
      /\ Boxed(i, 1, q0)
  <2>1. \A q : IsReq(m, q) <=> q = q0
    BY <1>2, <1>3 DEF IsReq
  <2>2. /\ inbox' \in [Instances -> Seq(Message)]
        /\ 1 \in DOMAIN inbox[i] /\ inbox[i][1] = m
        /\ \A j \in Instances : \A k \in DOMAIN inbox'[j] :
             \E n \in DOMAIN inbox[j] : inbox'[j][k] = inbox[j][n]
        /\ \A j \in Instances : \A k, q : Boxed(j, k, q)' =>
             IF j = i THEN k \in Nat \ {0} /\ Boxed(i, k + 1, q) ELSE Boxed(j, k, q)
        /\ \A j \in Instances : \A k \in Nat : \A q : Boxed(j, k, q) =>
             IF j = i THEN (k = 1 /\ IsReq(m, q)) \/ (k - 1 \in Nat /\ Boxed(i, k - 1, q)')
             ELSE Boxed(j, k, q)'
        /\ \A q : Boxed(i, 1, q) <=> IsReq(m, q)
    BY <1>1, <1>2, TakeHead DEF HInv
  <2> QED
    BY <2>1, <2>2
<1>5. \A n \in Nat : Boxed(i, n, q0) => n = 1
  BY <1>4 DEF HInv, FInv, BoxedOnce
<1>6. \A k : ~Boxed(i, k, q0)'
  <2> SUFFICES ASSUME NEW k, Boxed(i, k, q0)' PROVE FALSE
    OBVIOUS
  <2>1. k \in Nat \ {0} /\ Boxed(i, k + 1, q0)
    BY <1>4
  <2> QED
    BY <1>5, <2>1
<1>7. ~Busy(i)
  BY <1>2, WorkFacts DEF HInv
<1>8. /\ \A l \in Links, n \in Nat : ~Asked(l, n, q0)
      /\ \A c \in ToSet(wss[i]) : <<q0, c>> \notin delivered
  BY <1>4 DEF HInv, FInv, AskedOnce, BoxedOnce
<1>9. \/ wss[i] = << >> /\ Reply(i, q0, id, FALSE)
      \/ /\ work' = [work EXCEPT ![i] = [at |-> "distribute", q |-> q0, id |-> id, k |-> 1,
                                         must |-> ToSet(wss[i]), shifted |-> FALSE]]
         /\ wire' = wire
  BY <1>1, <1>3 DEF TakeQuery
<1>10. /\ work' \in [Instances -> {Idle, Dead} \cup Task]
       /\ \A j \in Instances : j # i => work'[j] = work[j]
       /\ wire' \in [Links -> Seq(Message)]
       /\ \A l \in Links : \A k \in DOMAIN wire'[l] :
            \/ k \in DOMAIN wire[l] /\ wire'[l][k] = wire[l][k]
            \/ wire'[l][k].q = q0 /\ wire'[l][k].id = id
       /\ \A l \in Links : \A k, q : Asked(l, k, q)' <=> Asked(l, k, q)
       /\ Busy(i)' => /\ work'[i].q = q0 /\ work'[i].id = id
                      /\ work'[i].k = 1 /\ work'[i].must = ToSet(wss[i])
  <2>1. CASE wss[i] = << >> /\ Reply(i, q0, id, FALSE)
    <3>1. Rep(q0, id, FALSE).q = q0 /\ Rep(q0, id, FALSE).id = id
      BY DEF Rep
    <3>2. /\ work' \in [Instances -> {Idle, Dead} \cup Task]
          /\ \A j \in Instances : j # i => work'[j] = work[j]
          /\ ~Busy(i)'
          /\ wire' \in [Links -> Seq(Message)]
          /\ \A l \in Links : \A k \in DOMAIN wire'[l] :
               (k \in DOMAIN wire[l] /\ wire'[l][k] = wire[l][k]) \/ wire'[l][k] = Rep(q0, id, FALSE)
          /\ \A l \in Links : \A k, q : Asked(l, k, q)' <=> Asked(l, k, q)
      BY <2>1, ReplyFacts DEF HInv
    <3> QED
      BY <3>1, <3>2
  <2>2. CASE /\ work' = [work EXCEPT ![i] = [at |-> "distribute", q |-> q0, id |-> id, k |-> 1,
                                             must |-> ToSet(wss[i]), shifted |-> FALSE]]
             /\ wire' = wire
    <3>1. 1 \in 1 .. MaxConns + 1 /\ ToSet(wss[i]) \subseteq Conns
      BY HubAssumption, HomesFacts DEF HInv
    <3>2. [at |-> "distribute", q |-> q0, id |-> id, k |-> 1,
           must |-> ToSet(wss[i]), shifted |-> FALSE] \in Task
      BY <3>1 DEF Task
    <3>3. work \in [Instances -> {Idle, Dead} \cup Task] /\ wire \in [Links -> Seq(Message)]
      BY DEF HInv, TInv
    <3>4. /\ work' \in [Instances -> {Idle, Dead} \cup Task]
          /\ \A j \in Instances : j # i => work'[j] = work[j]
          /\ work'[i] = [at |-> "distribute", q |-> q0, id |-> id, k |-> 1,
                         must |-> ToSet(wss[i]), shifted |-> FALSE]
      BY <2>2, <3>2, <3>3
    <3>5. \A l \in Links : \A k, q : Asked(l, k, q)' <=> Asked(l, k, q)
      BY <2>2 DEF Asked
    <3> QED
      BY <2>2, <3>3, <3>4, <3>5
  <2> QED
    BY <1>9, <2>1, <2>2
<1>11. TInv'
  BY <1>2, <1>4, <1>10 DEF HInv, TInv
<1>12. BInv' /\ MInv'
  BY <1>2 DEF HInv, BInv, MInv, Members, Homes
<1>13. \A j \in Instances : j # i => (Busy(j)' <=> Busy(j))
  BY <1>10 DEF Busy
<1>14. \A q \in Sends, jd \in Ids : Uses(q, jd)' => Uses(q, jd)
  <2>1. Uses(q0, id)
    BY <1>3, <1>4 DEF Uses
  <2>2. ASSUME NEW q \in Sends, NEW jd \in Ids, Uses(q, jd)', ~(q = q0 /\ jd = id)
        PROVE  Uses(q, jd)
    <3>1. CASE \E p \in pending : p.q = q /\ p.id = jd
      BY <3>1 DEF Uses
    <3>2. CASE \E c \in Conns : asking[c].at = "wait" /\ asking[c].q = q /\ asking[c].id = jd
      BY <3>2 DEF Uses
    <3>3. CASE \E j \in Instances : \E k \in DOMAIN inbox'[j] : inbox'[j][k].q = q /\ inbox'[j][k].id = jd
      <4>1. \E j \in Instances : \E k \in DOMAIN inbox[j] : inbox[j][k].q = q /\ inbox[j][k].id = jd
        BY <1>4, <3>3
      <4> QED
        BY <4>1 DEF Uses
    <3>4. CASE \E j \in Instances : (Busy(j))' /\ work'[j].q = q /\ work'[j].id = jd
      <4>1. \E j \in Instances : Busy(j) /\ work[j].q = q /\ work[j].id = jd
        BY <1>10, <1>13, <2>2, <3>4
      <4> QED
        BY <4>1 DEF Uses
    <3>5. CASE \E l \in Links : \E k \in DOMAIN wire'[l] : wire'[l][k].q = q /\ wire'[l][k].id = jd
      <4>1. \E l \in Links : \E k \in DOMAIN wire[l] : wire[l][k].q = q /\ wire[l][k].id = jd
        BY <1>10, <2>2, <3>5
      <4> QED
        BY <4>1 DEF Uses
    <3> QED
      BY <1>2, <2>2, <3>1, <3>2, <3>3, <3>4, <3>5 DEF Uses
  <2> QED
    BY <2>1, <2>2
<1>15. UInv'
  BY <1>2, <1>14 DEF HInv, UInv
<1>16. \A j \in Instances : \A q : Works(j, q)' => Works(j, q) \/ (j = i /\ q = q0)
  BY <1>10, <1>13 DEF Works
<1>17. FInv'
  <2>1. AskedOnce'
    <3> SUFFICES ASSUME NEW q \in Sends, NEW l \in Links, NEW k \in Nat, Asked(l, k, q)
                 PROVE  /\ \A o \in Links, n \in Nat : Asked(o, n, q) => o = l /\ n = k
                        /\ \A j \in Instances : ~Works(j, q)' /\ \A n \in Nat : ~Boxed(j, n, q)'
                        /\ \A c \in Conns : <<q, c>> \notin delivered
      BY <1>2, <1>10 DEF AskedOnce
    <3>1. q # q0
      BY <1>8
    <3> QED
      BY <1>4, <1>16, <3>1 DEF HInv, FInv, AskedOnce
  <2>2. BoxedOnce'
    <3> SUFFICES ASSUME NEW q \in Sends, NEW j \in Instances, NEW k \in Nat, Boxed(j, k, q)'
                 PROVE  /\ \A n \in Nat : Boxed(j, n, q)' => n = k
                        /\ ~Works(j, q)'
                        /\ \A c \in ToSet(wss[j]) : <<q, c>> \notin delivered
      BY <1>2 DEF BoxedOnce
    <3>1. CASE j = i
      <4>1. q # q0
        BY <1>6, <3>1
      <4>2. Boxed(i, k + 1, q)
        BY <1>4, <3>1
      <4> QED
        BY <1>4, <1>16, <3>1, <4>1, <4>2 DEF HInv, FInv, BoxedOnce
    <3>2. CASE j # i
      BY <1>4, <1>16, <3>2 DEF HInv, FInv, BoxedOnce
    <3> QED
      BY <3>1, <3>2
  <2>3. InTurn'
    <3> SUFFICES ASSUME NEW j \in Instances, Busy(j)'
                 PROVE  /\ \A c \in Conns : Ahead(j, c)' => <<work'[j].q, c>> \notin delivered
                        /\ \/ work'[j].shifted
                           \/ \A c \in work'[j].must : <<work'[j].q, c>> \in delivered \/ Ahead(j, c)'
      BY <1>2 DEF InTurn
    <3>1. CASE j = i
      <4>1. \A c : Ahead(i, c)' <=> c \in ToSet(wss[i])
        <5>1. \A k \in DOMAIN wss[i] : k >= 1
          BY DEF HInv, TInv
        <5> QED
          BY <1>2, <1>10, <3>1, <5>1 DEF Ahead, ToSet
      <4> QED
        BY <1>8, <1>10, <3>1, <4>1
    <3>2. CASE j # i
      <4>1. work'[j] = work[j] /\ Busy(j) /\ \A c : Ahead(j, c)' <=> Ahead(j, c)
        BY <1>2, <1>10, <1>13, <3>2 DEF Ahead
      <4> QED
        BY <4>1 DEF HInv, FInv, InTurn
    <3> QED
      BY <3>1, <3>2
  <2> QED
    BY <1>2, <2>1, <2>2, <2>3 DEF HInv, FInv
<1>18. ASSUME Quiet'
       PROVE  (AllUp /\ OneMessage /\ RepliedOnce /\ WaitsForOwing /\ AskersFound)'
  <2>1. AllUp /\ OneMessage /\ RepliedOnce /\ WaitsForOwing /\ AskersFound
    BY <1>2, <1>18 DEF HInv, QInv, Quiet
  <2>2. \A k \in Nat : ~Replied(i, k, q0)
    BY <1>4, <2>1 DEF RepliedOnce
  \* The answer that was written, if one was.
  <2>3. \/ /\ wss[i] = << >> /\ ~Busy(i)' /\ work'[i] = Idle
           /\ \E n \in Nat :
                 /\ \A q : ~Replied(i, n, q)
                 /\ \A j \in Instances : \A k, q : Replied(j, k, q)' <=>
                      Replied(j, k, q) \/ (j = i /\ k = n /\ q = q0)
           /\ \A j \in Instances : j # i => wire'[FirstLink(j)] = wire[FirstLink(j)]
        \/ /\ Works(i, q0)' /\ work'[i] # Dead /\ wire' = wire
           /\ \A j \in Instances : \A k, q : Replied(j, k, q)' <=> Replied(j, k, q)
    <3>1. CASE wss[i] = << >> /\ Reply(i, q0, id, FALSE)
      BY <2>1, <3>1, ReplyFacts, ReplyArrives DEF HInv
    <3>2. CASE /\ work' = [work EXCEPT ![i] = [at |-> "distribute", q |-> q0, id |-> id, k |-> 1,
                                               must |-> ToSet(wss[i]), shifted |-> FALSE]]
               /\ wire' = wire
      <4>1. work'[i].at = "distribute" /\ work'[i].q = q0
        BY <3>2 DEF HInv, TInv
      <4>2. work'[i] # Dead
        BY <4>1 DEF Dead
      <4> QED
        BY <3>2, <4>1, <4>2 DEF Works, Busy, Replied
    <3> QED
      BY <1>9, <3>1, <3>2
  <2>4. AllUp' /\ OneMessage'
    <3>1. work'[i] # Dead
      BY <2>3, WorkFacts DEF HInv
    <3> QED
      BY <1>2, <1>10, <1>14, <2>1, <3>1 DEF AllUp, OneMessage
  <2>5. RepliedOnce'
    <3>1. \A j \in Instances : \A k \in Nat : \A q \in Sends : q # q0 \/ j # i =>
            (Replied(j, k, q)' => Replied(j, k, q))
      BY <2>3
    <3>2. \A j \in Instances : \A n \in Nat : \A q : (q # q0 \/ j # i) /\ Boxed(j, n, q)' => 
            \E o \in Nat : Boxed(j, o, q)
      BY <1>4
    <3>3. ASSUME NEW q \in Sends, NEW j \in Instances, NEW k \in Nat, Replied(j, k, q)',
                 q # q0 \/ j # i
          PROVE  /\ \A n \in Nat : Replied(j, n, q)' => n = k
                 /\ ~Works(j, q)'
                 /\ \A n \in Nat : ~Boxed(j, n, q)'
                 /\ \A l \in Links, n \in Nat : ~Asked(l, n, q)'
      BY <1>10, <1>16, <2>1, <3>1, <3>2, <3>3 DEF RepliedOnce
    <3>4. ASSUME NEW k \in Nat, Replied(i, k, q0)'
          PROVE  /\ \A n \in Nat : Replied(i, n, q0)' => n = k
                 /\ ~Works(i, q0)'
      BY <2>2, <2>3, <3>4 DEF Works
    <3> QED
      BY <1>6, <1>8, <1>10, <3>3, <3>4 DEF RepliedOnce
  <2>6. \A j \in Instances : \A q : Owes(j, q)' <=> Owes(j, q)
    <3>1. \A q : Owes(i, q) => Owes(i, q)'
      <4>1. Owes(i, q0)'
        BY <2>3 DEF Owes
      <4>2. \A q : ~Works(i, q)
        BY <1>7 DEF Works
      <4> QED
        BY <1>4, <2>3, <4>1, <4>2 DEF Owes
    <3>2. \A q : Owes(i, q)' => Owes(i, q)
      <4>1. Owes(i, q0)
        BY <1>4 DEF Owes
      <4>2. \A k \in Nat : k + 1 \in Nat
        OBVIOUS
      <4> QED
        BY <1>4, <1>16, <2>3, <4>1, <4>2 DEF Owes
    <3>3. \A j \in Instances : j # i => \A q : Owes(j, q)' <=> Owes(j, q)
      <4>1. \A j \in Instances : j # i => \A q : Works(j, q)' <=> Works(j, q)
        BY <1>10, <1>13 DEF Works
      <4> QED
        BY <1>4, <2>3, <4>1 DEF Owes
    <3> QED
      BY <3>1, <3>2, <3>3
  <2>7. WaitsForOwing'
    BY <1>2, <1>10, <2>1, <2>6 DEF WaitsForOwing
  <2>8. AskersFound'
    <3>1. \A c \in Conns : Homes(c)' = Homes(c)
      BY <1>2 DEF Homes
    <3>2. CASE wire' = wire
      <4>1. \A j \in Instances : \A q : Found(j, q) => Found(j, q)'
        BY <1>2, <1>4, <3>2 DEF Found
      <4> QED
        BY <1>2, <2>1, <3>1, <4>1 DEF AskersFound, Homes
    <3>3. CASE /\ wss[i] = << >>
               /\ \A j \in Instances : j # i => wire'[FirstLink(j)] = wire[FirstLink(j)]
      <4>1. \A j \in Instances : j # i => \A q : Found(j, q) => Found(j, q)'
        BY <1>2, <1>4, <3>3 DEF Found
      <4>2. \A c \in Conns : i \notin Homes(c)
        BY <3>3 DEF Homes, ToSet
      <4> QED
        BY <1>2, <2>1, <3>1, <4>1, <4>2 DEF AskersFound, Homes
    <3> QED
      BY <2>3, <3>2, <3>3
  <2> QED
    BY <2>4, <2>5, <2>7, <2>8
<1> QED
  BY <1>11, <1>12, <1>15, <1>17, <1>18 DEF HInv, QInv

(* A list of connections is no longer than there are connections.          *)
LEMMA ListLength ==
  ASSUME TInv, NEW i \in Instances
  PROVE  /\ wss[i] \in Seq(Conns) /\ DOMAIN wss[i] = 1 .. Len(wss[i])
         /\ Len(wss[i]) \in Nat /\ Len(wss[i]) <= MaxConns
         /\ \A j, k \in DOMAIN wss[i] : wss[i][j] = wss[i][k] => j = k
<1>1. wss[i] \in Seq(1 .. MaxConns) /\ IsInjective(wss[i])
  BY DEF TInv, Conns
<1>2. Len(wss[i]) <= MaxConns
  BY <1>1, InjectiveLength, HubAssumption
<1> QED
  BY <1>1, <1>2 DEF IsInjective, Conns

(* One turn of the loop over the connections.                              *)
LEMMA DistributeHInv ==
  ASSUME HInv, NEW i \in Instances, Distribute(i)
  PROVE  HInv'
<1>1. Busy(i) /\ work[i] \in Task /\ work[i].k \in DOMAIN wss[i]
  BY WorkFacts DEF Distribute, HInv
<1>2. PICK q0 \in Sends, k0 \in 1 .. MaxConns, c \in Conns :
        q0 = work[i].q /\ k0 = work[i].k /\ c = wss[i][k0]
  <2>1. work[i].k \in 1 .. MaxConns /\ wss[i][work[i].k] \in Conns
    BY <1>1, ListLength, HubAssumption DEF HInv
  <2> QED
    BY <1>1, <2>1 DEF Task
<1>3. /\ delivered' = delivered \/ delivered' = delivered \cup {<<q0, c>>}
      /\ UNCHANGED <<linked, epoch, wss, inbox, answers, asking, up, open, wire, pending,
                     sent, left, reused, faults>>
  BY <1>2 DEF Distribute, brokerVars
<1>4. PICK must \in SUBSET Conns :
        /\ work' = [work EXCEPT ![i] = [work[i] EXCEPT !.k = k0 + 1, !.must = must]]
        /\ must \subseteq work[i].must /\ \A d \in work[i].must : d = c \/ d \in must
        /\ delivered' # delivered \cup {<<q0, c>>} => c \notin must
  <2>1. work[i].must \in SUBSET Conns /\ work[i].must \ {c} \in SUBSET Conns
    BY <1>1 DEF Task
  <2>2. work \in [Instances -> {Idle, Dead} \cup Task]
    BY DEF HInv, TInv
  <2>3. CASE /\ work' = [work EXCEPT ![i].k = @ + 1, ![i].must = @ \ {c}]
             /\ UNCHANGED delivered
    BY <1>1, <1>2, <2>1, <2>2, <2>3 DEF Task
  <2>4. CASE /\ work' = [work EXCEPT ![i].k = @ + 1]
             /\ delivered' = delivered \cup {<<q0, c>>}
    <3>1. [work[i] EXCEPT !.k = k0 + 1, !.must = work[i].must] = [work[i] EXCEPT !.k = k0 + 1]
      BY <1>1 DEF Task
    <3>2. work' = [work EXCEPT ![i] = [work[i] EXCEPT !.k = k0 + 1]]
      BY <1>2, <2>2, <2>4
    <3> QED
      BY <2>1, <2>4, <3>1, <3>2
  <2> QED
    BY <1>2, <2>3, <2>4 DEF Distribute
<1>5. /\ work' \in [Instances -> {Idle, Dead} \cup Task] /\ work'[i] \in Task
      /\ \A j \in Instances : j # i => work'[j] = work[j]
      /\ work'[i].q = q0 /\ work'[i].id = work[i].id /\ work'[i].k = k0 + 1
      /\ work'[i].must = must /\ work'[i].shifted = work[i].shifted
  <2>1. k0 + 1 \in 1 .. MaxConns + 1
    BY HubAssumption
  <2>2. /\ [work[i] EXCEPT !.k = k0 + 1, !.must = must] \in Task
        /\ [work[i] EXCEPT !.k = k0 + 1, !.must = must].k = k0 + 1
        /\ [work[i] EXCEPT !.k = k0 + 1, !.must = must].must = must
        /\ [work[i] EXCEPT !.k = k0 + 1, !.must = must].q = work[i].q
        /\ [work[i] EXCEPT !.k = k0 + 1, !.must = must].id = work[i].id
        /\ [work[i] EXCEPT !.k = k0 + 1, !.must = must].shifted = work[i].shifted
    BY <1>1, <2>1 DEF Task
  <2>3. work \in [Instances -> {Idle, Dead} \cup Task]
    BY DEF HInv, TInv
  <2> HIDE DEF Task
  <2> QED
    BY <1>2, <1>4, <2>2, <2>3
<1>6. \A j \in Instances : (Busy(j)' <=> Busy(j)) /\ \A q : Works(j, q)' <=> Works(j, q)
  <2>1. work'[i].at = "distribute"
    BY <1>5 DEF Task
  <2> QED
    BY <1>1, <1>2, <1>5, <2>1 DEF Busy, Works
<1>7. TInv'
  BY <1>3, <1>5 DEF HInv, TInv
<1>8. c \in ToSet(wss[i]) /\ i \in Homes(c) /\ c \in Members
  <2>1. c \in ToSet(wss[i])
    BY <1>1, <1>2 DEF ToSet
  <2> QED
    BY <2>1, HomesFacts DEF HInv
<1>9. BInv' /\ MInv'
  <2>1. \A x \in delivered' : x \in delivered \/ x = <<q0, c>>
    BY <1>3
  <2>2. Members' = Members /\ \A d : Homes(d)' = Homes(d)
    BY <1>3 DEF Members, Homes
  <2>3. \A x \in delivered' : x \in Sends \X Conns /\ x[2] \in Members
    BY <1>8, <2>1 DEF HInv, MInv
  <2> QED
    BY <1>3, <2>2, <2>3 DEF HInv, BInv, MInv
<1>10. \A q \in Sends, id \in Ids : Uses(q, id)' => Uses(q, id)
  <2>1. \A j \in Instances : Busy(j) => work'[j].q = work[j].q /\ work'[j].id = work[j].id
    BY <1>2, <1>5
  <2> QED
    BY <1>3, <1>6, <2>1 DEF Uses
<1>11. UInv'
  BY <1>3, <1>10 DEF HInv, UInv
\* Nobody else has this message before it, or this connection.
<1>12. /\ Works(i, q0)
       /\ \A l \in Links, k \in Nat : ~Asked(l, k, q0)
       /\ \A k \in Nat : ~Boxed(i, k, q0)
       /\ \A j \in Instances : c \in ToSet(wss[j]) => j = i
  <2>1. Works(i, q0)
    BY <1>1, <1>2 DEF Works
  <2>2. \A j \in Instances : c \in ToSet(wss[j]) => j = i
    BY <1>8, HomesFacts DEF HInv, MInv
  <2> QED
    BY <2>1, <2>2 DEF HInv, FInv, AskedOnce, BoxedOnce
<1>13. /\ \A l, k, q : Asked(l, k, q)' <=> Asked(l, k, q)
       /\ \A j, k, q : Boxed(j, k, q)' <=> Boxed(j, k, q)
       /\ \A x \in delivered' : x \in delivered \/ x = <<q0, c>>
       /\ \A q, d : <<q, d>> \in delivered' => <<q, d>> \in delivered \/ (q = q0 /\ d = c)
  BY <1>3 DEF Asked, Boxed
<1>14. FInv'
  <2>1. AskedOnce'
    BY <1>6, <1>12, <1>13 DEF HInv, FInv, AskedOnce
  <2>2. BoxedOnce'
    BY <1>3, <1>6, <1>12, <1>13 DEF HInv, FInv, BoxedOnce
  <2>3. InTurn'
    <3> SUFFICES ASSUME NEW j \in Instances, Busy(j)
                 PROVE  /\ \A d \in Conns : Ahead(j, d)' => <<work'[j].q, d>> \notin delivered'
                        /\ \/ work'[j].shifted
                           \/ \A d \in work'[j].must : <<work'[j].q, d>> \in delivered' \/ Ahead(j, d)'
      BY <1>6 DEF InTurn
    <3>0. /\ \A d \in Conns : Ahead(j, d) => <<work[j].q, d>> \notin delivered
          /\ \/ work[j].shifted
             \/ \A d \in work[j].must : <<work[j].q, d>> \in delivered \/ Ahead(j, d)
          /\ delivered \subseteq delivered'
      BY <1>3 DEF HInv, FInv, InTurn
    <3>1. CASE j = i
      <4>1. \A d : Ahead(i, d)' <=> Ahead(i, d) /\ d # c
        <5>1. /\ DOMAIN wss[i] \subseteq Nat
              /\ \A a, b \in DOMAIN wss[i] : wss[i][a] = wss[i][b] => a = b
          BY ListLength DEF HInv
        <5>2. \A a \in Nat : a >= k0 <=> a = k0 \/ a >= k0 + 1
          OBVIOUS
        <5> QED
          BY <1>1, <1>2, <1>3, <1>5, <5>1, <5>2 DEF Ahead
      <4>2. \A d \in must : d \in work[i].must /\ (d = c => <<q0, c>> \in delivered')
        BY <1>4
      <4> QED
        BY <1>2, <1>5, <1>13, <3>0, <3>1, <4>1, <4>2
    <3>2. CASE j # i
      <4>1. \A d : Ahead(j, d)' <=> Ahead(j, d)
        BY <1>3, <1>5, <3>2 DEF Ahead
      <4>2. \A d : Ahead(j, d) => d # c
        BY <1>12, <3>2 DEF Ahead, ToSet
      <4> QED
        BY <1>5, <1>13, <3>0, <3>2, <4>1, <4>2
    <3> QED
      BY <3>1, <3>2
  <2>4. \A x \in delivered' : x[1] <= sent
    BY <1>1, <1>2, <1>13, UsedIsSent DEF HInv, FInv
  <2> QED
    BY <1>3, <2>1, <2>2, <2>3, <2>4 DEF FInv
<1>15. ASSUME Quiet'
       PROVE  (AllUp /\ OneMessage /\ RepliedOnce /\ WaitsForOwing /\ AskersFound)'
  <2>1. AllUp /\ OneMessage /\ RepliedOnce /\ WaitsForOwing /\ AskersFound
    BY <1>3, <1>15 DEF HInv, QInv, Quiet
  <2>2. AllUp'
    <3>1. \A t \in Task : t # Dead
      BY DEF Task, Dead
    <3> QED
      BY <1>3, <1>5, <2>1, <3>1 DEF AllUp
  <2>3. OneMessage'
    BY <1>10, <2>1 DEF OneMessage
  <2>4. RepliedOnce' /\ WaitsForOwing'
    BY <1>3, <1>6, <2>1, SameMessages
  <2>5. AskersFound'
    <3>1. \A d \in Conns : Homes(d)' = Homes(d)
      BY <1>3 DEF Homes
    <3>2. \A j \in Instances : \A q : Found(j, q) => Found(j, q)'
      BY <1>3, <1>6, SameMessages
    <3> QED
      BY <1>3, <2>1, <3>1, <3>2 DEF AskersFound, Homes
  <2> QED
    BY <2>2, <2>3, <2>4, <2>5
<1> QED
  BY <1>7, <1>9, <1>11, <1>14, <1>15 DEF HInv, QInv

(* The end of the loop: the instance answers True.                         *)
LEMMA DistributedHInv ==
  ASSUME HInv, NEW i \in Instances, Distributed(i)
  PROVE  HInv'
<1>1. Busy(i) /\ work[i] \in Task
  BY WorkFacts DEF Distributed, HInv
<1>2. PICK q0 \in Sends, id \in Ids : q0 = work[i].q /\ id = work[i].id
  BY <1>1 DEF Task
<1>3. /\ Reply(i, q0, id, TRUE)
      /\ UNCHANGED <<linked, epoch, wss, inbox, answers, asking, up, open, pending,
                     sent, left, delivered, reused, faults>>
  BY <1>2 DEF Distributed, histVars
<1>4. /\ Rep(q0, id, TRUE).q = q0 /\ Rep(q0, id, TRUE).id = id /\ Rep(q0, id, TRUE).ok
      /\ TRUE \in BOOLEAN
  BY DEF Rep
<1>5. /\ work' \in [Instances -> {Idle, Dead} \cup Task]
      /\ work'[i] \in {Idle, Dead} /\ \A j \in Instances : j # i => work'[j] = work[j]
      /\ ~Busy(i)' /\ \A j \in Instances : j # i => (Busy(j)' <=> Busy(j))
      /\ wire' \in [Links -> Seq(Message)]
      /\ \A l \in Links : \A k \in DOMAIN wire'[l] :
           (k \in DOMAIN wire[l] /\ wire'[l][k] = wire[l][k]) \/ wire'[l][k] = Rep(q0, id, TRUE)
      /\ \A l \in Links : \A k, q : Asked(l, k, q)' <=> Asked(l, k, q)
  BY <1>3, <1>4, ReplyFacts DEF HInv
<1>6. TInv'
  BY <1>3, <1>5 DEF HInv, TInv
<1>7. BInv' /\ MInv'
  BY <1>3 DEF HInv, BInv, MInv, Members, Homes
<1>8. Works(i, q0) /\ Uses(q0, id)
  BY <1>1, <1>2 DEF Works, Uses
<1>9. \A q \in Sends, jd \in Ids : Uses(q, jd)' => Uses(q, jd)
  <2> SUFFICES ASSUME NEW q \in Sends, NEW jd \in Ids, Uses(q, jd)', ~(q = q0 /\ jd = id)
               PROVE  Uses(q, jd)
    BY <1>8
  <2>1. CASE \E l \in Links : \E k \in DOMAIN wire'[l] : wire'[l][k].q = q /\ wire'[l][k].id = jd
    <3>1. PICK l \in Links : \E k \in DOMAIN wire'[l] : wire'[l][k].q = q /\ wire'[l][k].id = jd
      BY <2>1
    <3>2. PICK k \in DOMAIN wire'[l] : wire'[l][k].q = q /\ wire'[l][k].id = jd
      BY <3>1
    <3>3. wire'[l][k] # Rep(q0, id, TRUE)
      BY <1>4, <3>2
    <3>4. k \in DOMAIN wire[l] /\ wire[l][k] = wire'[l][k]
      BY <1>5, <3>3
    <3> QED
      BY <3>2, <3>4 DEF Uses
  <2>2. CASE \E j \in Instances : (Busy(j))' /\ work'[j].q = q /\ work'[j].id = jd
    BY <1>5, <2>2 DEF Uses
  <2> QED
    BY <1>3, <2>1, <2>2 DEF Uses
<1>10. UInv'
  BY <1>3, <1>9 DEF HInv, UInv
<1>11. /\ \A j \in Instances : \A q : Works(j, q)' <=> j # i /\ Works(j, q)
       /\ \A j, k, q : Boxed(j, k, q)' <=> Boxed(j, k, q)
       /\ \A q : Works(i, q) <=> q = q0
  BY <1>1, <1>2, <1>3, <1>5 DEF Works, Boxed
<1>12. FInv'
  <2>1. AskedOnce'
    BY <1>3, <1>5, <1>11 DEF HInv, FInv, AskedOnce
  <2>2. BoxedOnce'
    BY <1>3, <1>11 DEF HInv, FInv, BoxedOnce
  <2>3. InTurn'
    <3>1. \A j \in Instances : (Busy(j))' => /\ work'[j] = work[j] /\ Busy(j)
                                             /\ \A c : Ahead(j, c)' <=> Ahead(j, c)
      BY <1>3, <1>5 DEF Ahead
    <3> QED
      BY <1>3, <3>1 DEF HInv, FInv, InTurn
  <2> QED
    BY <1>3, <2>1, <2>2, <2>3 DEF HInv, FInv
<1>13. ASSUME Quiet'
       PROVE  (AllUp /\ OneMessage /\ RepliedOnce /\ WaitsForOwing /\ AskersFound)'
  <2>1. AllUp /\ OneMessage /\ RepliedOnce /\ WaitsForOwing /\ AskersFound
    BY <1>3, <1>13 DEF HInv, QInv, Quiet
  <2>2. \A k \in Nat : ~Replied(i, k, q0)
    BY <1>8, <2>1 DEF RepliedOnce
  <2>3. /\ work'[i] = Idle
        /\ \E n \in Nat :
             /\ \A q : ~Replied(i, n, q)
             /\ \A j \in Instances : \A k, q : Replied(j, k, q)' <=>
                  Replied(j, k, q) \/ (j = i /\ k = n /\ q = q0)
    BY <1>3, <1>4, <2>1, ReplyArrives DEF HInv
  <2>4. AllUp' /\ OneMessage'
    <3>1. work'[i] # Dead
      BY <2>3, WorkFacts DEF HInv
    <3> QED
      BY <1>3, <1>5, <1>9, <2>1, <3>1 DEF AllUp, OneMessage
  <2>5. RepliedOnce'
    <3>1. \A n \in Nat : ~Boxed(i, n, q0)
      BY <1>8 DEF HInv, FInv, BoxedOnce
    <3>2. \A l \in Links, n \in Nat : ~Asked(l, n, q0)
      BY <1>8 DEF HInv, FInv, AskedOnce
    <3>3. ASSUME NEW q \in Sends, NEW j \in Instances, NEW k \in Nat, Replied(j, k, q)',
                 q # q0 \/ j # i
          PROVE  /\ \A n \in Nat : Replied(j, n, q)' => n = k
                 /\ ~Works(j, q)'
                 /\ \A n \in Nat : ~Boxed(j, n, q)'
                 /\ \A l \in Links, n \in Nat : ~Asked(l, n, q)'
      <4>1. Replied(j, k, q) /\ \A n \in Nat : Replied(j, n, q)' => Replied(j, n, q)
        BY <2>3, <3>3
      <4> QED
        BY <1>5, <1>11, <2>1, <4>1 DEF RepliedOnce
    <3>4. ASSUME NEW k \in Nat, Replied(i, k, q0)'
          PROVE  /\ \A n \in Nat : Replied(i, n, q0)' => n = k
                 /\ ~Works(i, q0)'
      BY <1>11, <2>2, <2>3, <3>4
    <3> QED
      BY <1>5, <1>11, <3>1, <3>2, <3>3, <3>4 DEF RepliedOnce
  <2>6. \A j \in Instances : \A q : Owes(j, q)' <=> Owes(j, q)
    BY <1>11, <2>3 DEF Owes
  <2>7. WaitsForOwing'
    BY <1>3, <1>5, <2>1, <2>6 DEF WaitsForOwing
  <2>8. AskersFound'
    <3>1. \A c \in Conns : Homes(c)' = Homes(c)
      BY <1>3 DEF Homes
    <3>2. \A j \in Instances : FirstLink(j) \in Links
      BY LinkFacts DEF HInv
    <3>3. \A q : ~Denial(Rep(q0, id, TRUE), q)
      BY <1>4 DEF Denial
    <3>4. \A j \in Instances : \A q : Found(j, q) => Found(j, q)'
      <4> SUFFICES ASSUME NEW j \in Instances, NEW q, Found(j, q)
                   PROVE  Found(j, q)'
        OBVIOUS
      <4>1. \A k \in DOMAIN wire'[FirstLink(j)] : ~Denial(wire'[FirstLink(j)][k], q)
        BY <1>5, <3>2, <3>3 DEF Found
      <4> QED
        BY <1>3, <4>1 DEF Found, FirstLink, Denial
    <3> QED
      BY <1>3, <2>1, <3>1, <3>4 DEF AskersFound, Homes
  <2> QED
    BY <2>4, <2>5, <2>7, <2>8
<1> QED
  BY <1>6, <1>7, <1>10, <1>12, <1>13 DEF HInv, QInv

-----------------------------------------------------------------------------
(* Faults.                                                                 *)

(* An instance is started again.                                           *)
LEMMA KillHInv ==
  ASSUME HInv, NEW i \in Instances, Kill(i)
  PROVE  HInv'
<1>1. /\ sent + faults < MaxEvents /\ faults' = faults + 1
      /\ linked' = [linked EXCEPT ![i] = FALSE]
      /\ left' = left \cup ToSet(wss[i])
      /\ wss' = [wss EXCEPT ![i] = << >>]
      /\ work' = [work EXCEPT ![i] = Idle]
      /\ inbox' = [inbox EXCEPT ![i] = << >>]
      /\ answers' = [answers EXCEPT ![i] = {}]
      /\ asking' = [c \in Conns |-> IF i \in Homes(c) THEN Idle ELSE asking[c]]
      /\ UNCHANGED <<epoch, up, open, wire, pending, sent, delivered, reused>>
  BY DEF Kill, brokerVars
<1>2. /\ wss'[i] = << >> /\ \A j \in Instances : j # i => wss'[j] = wss[j]
      /\ wss' \in [Instances -> Seq(Conns)]
      /\ work' \in [Instances -> {Idle, Dead} \cup Task]
      /\ work'[i] = Idle /\ \A j \in Instances : j # i => work'[j] = work[j]
      /\ inbox' \in [Instances -> Seq(Message)]
      /\ \A j \in Instances : inbox'[j] = inbox[j] \/ inbox'[j] = << >>
      /\ linked' \in [Instances -> BOOLEAN]
      /\ asking' \in [Conns -> {Idle} \cup Wait]
      /\ \A c \in Conns : asking'[c] = asking[c] \/ asking'[c] = Idle
  BY <1>1 DEF HInv, TInv
<1>3. ToSet(wss'[i]) = {} /\ IsInjective(wss'[i])
  BY <1>2 DEF ToSet, IsInjective
<1>4. TInv'
  <2>1. answers' \in [Instances -> SUBSET [id : Ids, ok : BOOLEAN]]
    BY <1>1 DEF HInv, TInv
  <2>2. \A j \in Instances : answers'[j] \subseteq answers[j]
    BY <1>1 DEF HInv, TInv
  <2>3. \A j \in Instances : \A a, b \in answers'[j] : a.id = b.id => a = b
    BY <2>2 DEF HInv, TInv
  <2>4. \A j \in Instances : IsInjective(wss'[j])
    BY <1>2, <1>3 DEF HInv, TInv
  <2>5. sent' \in Nat /\ faults' \in Nat /\ sent' + faults' <= MaxEvents
    BY <1>1, HubAssumption DEF HInv, TInv
  <2> QED
    BY <1>1, <1>2, <2>1, <2>3, <2>4, <2>5 DEF HInv, TInv
<1>5. Members' = Members
  <2>1. \A d : d \in Members <=> d \in left \/ \E j \in Instances : d \in ToSet(wss[j])
    BY DEF Members
  <2>2. \A d : d \in Members' <=> d \in left' \/ \E j \in Instances : d \in ToSet(wss'[j])
    BY <1>1 DEF Members
  <2>3. ASSUME NEW d PROVE d \in Members <=> d \in Members'
    <3>1. d \in left' <=> d \in left \/ d \in ToSet(wss[i])
      BY <1>1
    <3>2. \A j \in Instances : d \in ToSet(wss'[j]) <=> j # i /\ d \in ToSet(wss[j])
      BY <1>2, <1>3
    <3> QED
      BY <2>1, <2>2, <3>1, <3>2
  <2> QED
    BY <2>3
<1>6. \A j \in Instances : ToSet(wss'[j]) = IF j = i THEN {} ELSE ToSet(wss[j])
  BY <1>2, <1>3
<1>7. BInv' /\ MInv'
  BY <1>1, <1>5, <1>6 DEF HInv, BInv, MInv, Homes
<1>8. ~Busy(i)' /\ \A j \in Instances : j # i => (Busy(j)' <=> Busy(j))
  BY <1>2 DEF Busy, Idle
<1>9. /\ \A j \in Instances : \A q : Works(j, q)' => Works(j, q)
      /\ \A j \in Instances : \A k, q : Boxed(j, k, q)' => Boxed(j, k, q)
      /\ \A l, k, q : Asked(l, k, q)' <=> Asked(l, k, q)
  <2>1. \A j \in Instances : \A q : Works(j, q)' => Works(j, q)
    BY <1>2, <1>8 DEF Works
  <2>2. \A j \in Instances : \A k, q : Boxed(j, k, q)' => Boxed(j, k, q)
    BY <1>2 DEF Boxed
  <2> QED
    BY <1>1, <2>1, <2>2 DEF Asked
<1>10. \A q \in Sends, id \in Ids : Uses(q, id)' => Uses(q, id)
  BY <1>1, <1>2, <1>8 DEF Uses, Idle
<1>11. UInv'
  BY <1>1, <1>10 DEF HInv, UInv
<1>12. FInv'
  <2>1. AskedOnce'
    BY <1>1, <1>9 DEF HInv, FInv, AskedOnce
  <2>2. BoxedOnce'
    BY <1>1, <1>6, <1>9 DEF HInv, FInv, BoxedOnce
  <2>3. InTurn'
    <3>1. \A j \in Instances : (Busy(j))' => /\ work'[j] = work[j] /\ Busy(j)
                                             /\ \A c : Ahead(j, c)' <=> Ahead(j, c)
      BY <1>2, <1>8 DEF Ahead
    <3> QED
      BY <1>1, <3>1 DEF HInv, FInv, InTurn
  <2> QED
    BY <1>1, <2>1, <2>2, <2>3 DEF HInv, FInv
<1>13. ~Quiet'
  BY <1>1 DEF Quiet, HInv, TInv
<1> QED
  BY <1>4, <1>7, <1>11, <1>12, <1>13 DEF HInv, QInv

(* The broker is started again.                                            *)
LEMMA RestartBrokerHInv ==
  ASSUME HInv, RestartBroker
  PROVE  HInv'
<1>1. /\ sent + faults < MaxEvents /\ faults' = faults + 1
      /\ up' = << >> /\ open' = {} /\ pending' = {} /\ wire' = [l \in Links |-> << >>]
      /\ UNCHANGED <<linked, epoch, wss, work, inbox, answers, asking,
                     sent, left, delivered, reused>>
  BY DEF RestartBroker, instVars
<1>2. TInv'
  <2>1. sent' \in Nat /\ faults' \in Nat /\ sent' + faults' <= MaxEvents
    BY <1>1, HubAssumption DEF HInv, TInv
  <2>2. wire' \in [Links -> Seq(Message)]
    BY <1>1
  <2> QED
    BY <1>1, <2>1, <2>2 DEF HInv, TInv
<1>3. BInv' /\ MInv'
  <2>1. BInv'
    <3>1. ToSet(up') = {} /\ IsInjective(up')
      BY <1>1 DEF ToSet, IsInjective
    <3> QED
      BY <1>1, <3>1, FS_EmptySet DEF BInv
  <2>2. MInv'
    BY <1>1 DEF HInv, MInv, Members, Homes
  <2> QED
    BY <2>1, <2>2
<1>4. \A l \in Links : \A k, q : ~Asked(l, k, q)'
  BY <1>1 DEF Asked
<1>5. UInv'
  <2>1. \A q \in Sends, id \in Ids : Uses(q, id)' => Uses(q, id)
    BY <1>1 DEF Uses, Busy
  <2> QED
    BY <1>1, <2>1 DEF HInv, UInv
<1>6. FInv'
  <2>1. /\ \A j, k, q : Boxed(j, k, q)' <=> Boxed(j, k, q)
        /\ \A j, q : Works(j, q)' <=> Works(j, q)
        /\ \A j, c : Ahead(j, c)' <=> Ahead(j, c)
        /\ \A j : Busy(j)' <=> Busy(j)
    BY <1>1 DEF Boxed, Works, Busy, Ahead
  <2> QED
    BY <1>1, <1>4, <2>1 DEF HInv, FInv, AskedOnce, BoxedOnce, InTurn
<1>7. ~Quiet'
  BY <1>1 DEF Quiet, HInv, TInv
<1> QED
  BY <1>2, <1>3, <1>5, <1>6, <1>7 DEF HInv, QInv

-----------------------------------------------------------------------------
(* The broker.                                                             *)

\* Tables and inboxes that the broker may make out of what there is: queries
\* and answers about messages that are on their way, and the question that it
\* has just read.
ProperQueries(ps) ==
    /\ IsFiniteSet(ps) /\ ps \subseteq Query
    /\ \A p, r \in ps : p.id = r.id => p = r
    /\ \A p \in ps : Uses(p.q, p.id)

GrownBox(l, i, box) ==
    /\ box \in Seq(Message)
    /\ \A k \in DOMAIN inbox[i] : k \in DOMAIN box /\ box[k] = inbox[i][k]
    /\ \A k \in DOMAIN box : k \notin DOMAIN inbox[i] =>
         /\ Uses(box[k].q, box[k].id)
         /\ box[k].type = "req" => k = Len(inbox[i]) + 1 /\ Asked(l, 1, box[k].q)

Grown(l, in) == in \in [Instances -> Seq(Message)] /\ \A i \in Instances : GrownBox(l, i, in[i])

\* What every step of the broker leaves of link l and of the rest.
BrokerKeeps(l) ==
    /\ up' \in Seq(Links) /\ IsInjective(up') /\ ToSet(up') \subseteq open' /\ open' \subseteq open
    /\ ProperQueries(pending') /\ Grown(l, inbox')
    /\ \/ wire[l] # << >> /\ wire' = [wire EXCEPT ![l] = Tail(@)]
       \/ wire' = [wire EXCEPT ![l] = << >>]

(* The table of queries is one that the broker may make.                   *)
LEMMA ProperPending == HInv => ProperQueries(pending)
BY DEF HInv, BInv, ProperQueries, Uses, Query

(* Answers that are told to the askers of queries.                         *)
LEMMA GrownBy ==
  ASSUME NEW l, NEW i \in Instances, NEW a, GrownBox(l, i, a),
         NEW S, IsFiniteSet(S), S \subseteq Message,
         \A m \in S : m.type = "rep" /\ Uses(m.q, m.id)
  PROVE  GrownBox(l, i, a \o SetToSeq(S))
<1> DEFINE e == SetToSeq(S)
           b == a \o e
<1>1. e \in Seq(S) /\ a \in Seq(Message)
  BY SetToSeqOrders DEF GrownBox
<1>2. \A k \in 1 .. Len(e) : e[k] \in S
  BY <1>1
<1>3. e \in Seq(Message)
  BY <1>1
<1> HIDE DEF e
<1>4. /\ b \in Seq(Message) /\ Len(b) = Len(a) + Len(e)
      /\ \A k \in 1 .. Len(a) + Len(e) : b[k] = IF k <= Len(a) THEN a[k] ELSE e[k - Len(a)]
  BY <1>1, <1>3, ConcatProperties
<1> HIDE DEF b
<1>5. /\ DOMAIN b = 1 .. Len(a) + Len(e) /\ DOMAIN a = 1 .. Len(a)
      /\ Len(a) \in Nat /\ Len(e) \in Nat
  BY <1>1, <1>3, <1>4
<1>6. /\ \A k \in DOMAIN a : k \in DOMAIN b /\ b[k] = a[k]
      /\ \A k \in DOMAIN b : k \in DOMAIN a \/ b[k] \in S
  <2>1. ASSUME NEW k \in DOMAIN b, k \notin DOMAIN a PROVE b[k] \in S
    <3>1. k - Len(a) \in 1 .. Len(e) /\ b[k] = e[k - Len(a)]
      BY <1>4, <1>5, <2>1
    <3> QED
      BY <1>2, <3>1
  <2>2. \A k \in DOMAIN a : k \in DOMAIN b /\ b[k] = a[k]
    BY <1>4, <1>5
  <2> QED
    BY <2>1, <2>2
<1>7. \A k \in DOMAIN inbox[i] : k \in DOMAIN b /\ b[k] = inbox[i][k]
  BY <1>6 DEF GrownBox
<1>8. \A k \in DOMAIN b : k \notin DOMAIN inbox[i] =>
        /\ Uses(b[k].q, b[k].id)
        /\ b[k].type = "req" => k = Len(inbox[i]) + 1 /\ Asked(l, 1, b[k].q)
  <2> SUFFICES ASSUME NEW k \in DOMAIN b, k \notin DOMAIN inbox[i]
               PROVE  /\ Uses(b[k].q, b[k].id)
                      /\ b[k].type = "req" => k = Len(inbox[i]) + 1 /\ Asked(l, 1, b[k].q)
    OBVIOUS
  <2>1. CASE k \in DOMAIN a
    <3>1. b[k] = a[k]
      BY <1>6, <2>1
    <3> QED
      BY <2>1, <3>1 DEF GrownBox
  <2>2. CASE b[k] \in S
    BY <2>2
  <2> QED
    BY <1>6, <2>1, <2>2
<1>9. GrownBox(l, i, b)
  BY <1>4, <1>7, <1>8 DEF GrownBox
<1> QED
  BY <1>9 DEF b, e

(* The cleanup of a link: it is off the list, its messages are gone, some  *)
(* of the queries no longer wait for it, and their askers may be told so.  *)
LEMMA CleanupKeeps ==
  ASSUME HInv, NEW l \in ToSet(up), NEW ps, ProperQueries(ps), NEW in, Grown(l, in), Cleanup(l, ps, in)
  PROVE  BrokerKeeps(l)
<1> DEFINE affected == {p \in ps : l \in p.wait}
           ends     == {p \in affected : p.wait = {l}}
           Without(p) == [p EXCEPT !.wait = @ \ {l}]
           Answers(es, i) == {Rep(p.q, p.id, FALSE) : p \in {e \in es : e.asker = LinkOf(i) /\ linked[i]}}
           Told(es) == [i \in Instances |-> in[i] \o SetToSeq(Answers(es, i))]
<1>1. /\ up' = RemoveFirst(up, l)
      /\ open' = open \ {l} \/ open' = open
      /\ wire' = [wire EXCEPT ![l] = << >>]
  BY DEF Cleanup
<1>2. PICK done \in SUBSET ps, told \in SUBSET ps :
        /\ pending' = (ps \ done) \cup {Without(p) : p \in done}
        /\ inbox' = Told(told)
  <2>1. CASE pending' = (ps \ affected) \cup {Without(p) : p \in affected} /\ inbox' = Told(ends)
    <3>1. affected \in SUBSET ps /\ ends \in SUBSET ps
      OBVIOUS
    <3> HIDE DEF Told, Without, affected, ends
    <3> QED
      BY <2>1, <3>1
  <2>2. CASE \E bad \in ends, done \in SUBSET affected :
               /\ pending' = (ps \ done) \cup {Without(p) : p \in done}
               /\ inbox' = Told((done \cap ends) \ {bad})
    <3>1. \A bad \in ends, done \in SUBSET affected :
            done \in SUBSET ps /\ (done \cap ends) \ {bad} \in SUBSET ps
      OBVIOUS
    <3> HIDE DEF Told, Without, affected, ends
    <3> QED
      BY <2>2, <3>1
  <2> QED
    BY <2>1, <2>2 DEF Cleanup
<1>3. /\ up' \in Seq(Links) /\ IsInjective(up') /\ ToSet(up') \subseteq open' /\ open' \subseteq open
  <2>1. /\ up' \in Seq(Links) /\ IsInjective(up') /\ ToSet(up') = ToSet(up) \ {l}
    BY <1>1, RemoveFromInjective DEF HInv, BInv
  <2> QED
    BY <1>1, <2>1 DEF HInv, BInv
<1>4. ProperQueries(pending')
  <2>1. \A p \in Query : /\ Without(p) \in Query
                         /\ Without(p).q = p.q /\ Without(p).id = p.id
    BY DEF Query
  <2>2. IsFiniteSet(pending')
    <3>1. IsFiniteSet({Without(p) : p \in done})
      <4>1. IsFiniteSet(done)
        BY FS_Subset DEF ProperQueries
      <4> DEFINE f == [p \in done |-> Without(p)]
      <4> HIDE DEF Without
      <4>2. IsFiniteSet({f[p] : p \in done})
        <5> HIDE DEF f
        <5> QED
          BY <4>1, ImageIsFinite
      <4>3. {f[p] : p \in done} = {Without(p) : p \in done}
        OBVIOUS
      <4> QED
        BY <4>2, <4>3
    <3>2. IsFiniteSet(ps \ done)
      BY FS_Subset DEF ProperQueries
    <3> QED
      BY <1>2, <3>1, <3>2, FS_Union
  <2>3. \A r \in pending' : \E p \in ps :
          /\ r.q = p.q /\ r.id = p.id /\ r \in Query
          /\ r = IF p \in done THEN Without(p) ELSE p
    BY <1>2, <2>1 DEF ProperQueries
  <2>4. \A r, s \in pending' : r.id = s.id => r = s
    <3> HIDE DEF Without
    <3> QED
      BY <2>3 DEF ProperQueries
  <2> QED
    BY <2>2, <2>3, <2>4 DEF ProperQueries
<1>5. Grown(l, inbox')
  <2>1. ASSUME NEW i \in Instances PROVE GrownBox(l, i, Told(told)[i])
    <3> DEFINE es == {e \in told : e.asker = LinkOf(i) /\ linked[i]}
               S == Answers(told, i)
    <3>1. IsFiniteSet(S)
      <4>1. IsFiniteSet(es)
        BY FS_Subset DEF ProperQueries
      <4> DEFINE f == [p \in es |-> Rep(p.q, p.id, FALSE)]
      <4>2. IsFiniteSet({f[p] : p \in es})
        BY <4>1, ImageIsFinite
      <4>3. {f[p] : p \in es} = S
        <5>1. \A p \in es : f[p] = Rep(p.q, p.id, FALSE)
          OBVIOUS
        <5> HIDE DEF f
        <5>2. {f[p] : p \in es} = {Rep(p.q, p.id, FALSE) : p \in es}
          BY <5>1
        <5> QED
          BY <5>2
      <4> QED
        BY <4>2, <4>3
    <3>2. /\ S \subseteq Message
          /\ \A m \in S : m.type = "rep" /\ Uses(m.q, m.id)
      <4>1. \A p \in told : /\ Rep(p.q, p.id, FALSE) \in Message
                            /\ Rep(p.q, p.id, FALSE).type = "rep"
                            /\ Rep(p.q, p.id, FALSE).q = p.q /\ Rep(p.q, p.id, FALSE).id = p.id
                            /\ Uses(p.q, p.id)
        BY DEF ProperQueries, Query, Rep, Message
      <4> QED
        BY <4>1
    <3>3. Told(told)[i] = in[i] \o SetToSeq(S)
      OBVIOUS
    <3> HIDE DEF S, Told
    <3>4. GrownBox(l, i, in[i])
      BY DEF Grown
    <3>5. GrownBox(l, i, in[i] \o SetToSeq(S))
      BY <3>1, <3>2, <3>4, GrownBy
    <3> QED
      BY <3>3, <3>5
  <2>2. \A i \in Instances : Told(told)[i] \in Seq(Message)
    BY <2>1 DEF GrownBox
  <2>3. Told(told) \in [Instances -> Seq(Message)]
    BY <2>2
  <2> HIDE DEF Told
  <2>4. Grown(l, Told(told))
    BY <2>1, <2>3 DEF Grown
  <2> QED
    BY <1>2, <2>4
<1> QED
  BY <1>1, <1>3, <1>4, <1>5 DEF BrokerKeeps

(* A link of which the broker reads one message, or all of them.           *)
LEMMA ReadLink ==
  ASSUME TInv, NEW l \in Links, BrokerKeeps(l)
  PROVE  /\ wire' \in [Links -> Seq(Message)]
         /\ \A m \in Links : \A k \in DOMAIN wire'[m] :
              \E n \in DOMAIN wire[m] : wire'[m][k] = wire[m][n]
         /\ \A m \in Links : \A k, q : Asked(m, k, q)' =>
              k \in Nat \ {0} /\ IF m = l THEN Asked(l, k + 1, q) ELSE Asked(m, k, q)
<1>1. wire \in [Links -> Seq(Message)] /\ wire[l] \in Seq(Message)
  BY DEF TInv
<1>2. \A m \in Links : \A k \in DOMAIN wire[m] : k \in Nat \ {0}
  BY <1>1
<1>3. CASE wire' = [wire EXCEPT ![l] = << >>]
  <2>1. /\ wire' \in [Links -> Seq(Message)] /\ wire'[l] = << >>
        /\ \A m \in Links : m # l => wire'[m] = wire[m]
    BY <1>1, <1>3
  <2>2. \A k : k \notin DOMAIN wire'[l]
    BY <2>1
  <2> QED
    BY <1>2, <2>1, <2>2 DEF Asked
<1>4. CASE wire[l] # << >> /\ wire' = [wire EXCEPT ![l] = Tail(@)]
  <2> DEFINE t == Tail(wire[l])
  <2>1. /\ t \in Seq(Message)
        /\ \A k \in DOMAIN t : k \in Nat /\ k + 1 \in DOMAIN wire[l] /\ t[k] = wire[l][k + 1]
    BY <1>1, <1>4, TailFacts
  <2>2. \A k \in DOMAIN t : k \in Nat \ {0}
    BY <2>1
  <2>3. wire' = [wire EXCEPT ![l] = t]
    BY <1>4
  <2> HIDE DEF t
  <2>4. /\ wire' \in [Links -> Seq(Message)] /\ wire'[l] = t
        /\ \A m \in Links : m # l => wire'[m] = wire[m]
    BY <1>1, <2>1, <2>3
  <2>5. ASSUME NEW m \in Links, NEW k \in DOMAIN wire'[m]
        PROVE  \E n \in DOMAIN wire[m] : wire'[m][k] = wire[m][n]
    BY <2>1, <2>4
  <2>6. ASSUME NEW m \in Links, NEW k, NEW q, Asked(m, k, q)'
        PROVE  k \in Nat \ {0} /\ IF m = l THEN Asked(l, k + 1, q) ELSE Asked(m, k, q)
    BY <1>2, <2>1, <2>2, <2>4, <2>6 DEF Asked
  <2> QED
    BY <2>4, <2>5, <2>6
<1> QED
  BY <1>3, <1>4 DEF BrokerKeeps

(* What every step of the broker keeps whatever fails.                     *)
LEMMA BrokerKeepsHInv ==
  ASSUME HInv, NEW l \in Links, BrokerKeeps(l), SameInstances
  PROVE  /\ TInv' /\ BInv' /\ MInv' /\ UInv' /\ FInv'
         /\ \A q \in Sends, id \in Ids : Uses(q, id)' => Uses(q, id)
<1>1. UNCHANGED <<linked, epoch, wss, work, answers, asking, sent, left, delivered, reused, faults>>
  BY DEF SameInstances, histVars
<1>2. /\ wire' \in [Links -> Seq(Message)]
      /\ \A m \in Links : \A k \in DOMAIN wire'[m] :
           \E n \in DOMAIN wire[m] : wire'[m][k] = wire[m][n]
      /\ \A m \in Links : \A k, q : Asked(m, k, q)' =>
           k \in Nat \ {0} /\ IF m = l THEN Asked(l, k + 1, q) ELSE Asked(m, k, q)
  BY ReadLink DEF HInv
<1>3. /\ inbox' \in [Instances -> Seq(Message)]
      /\ \A i \in Instances : \A k \in DOMAIN inbox[i] : k \in DOMAIN inbox'[i] /\ inbox'[i][k] = inbox[i][k]
      /\ \A i \in Instances : \A k \in DOMAIN inbox'[i] : k \notin DOMAIN inbox[i] =>
           /\ Uses(inbox'[i][k].q, inbox'[i][k].id)
           /\ inbox'[i][k].type = "req" => k = Len(inbox[i]) + 1 /\ Asked(l, 1, inbox'[i][k].q)
  BY DEF BrokerKeeps, Grown, GrownBox
<1>4. TInv'
  BY <1>1, <1>2, <1>3 DEF HInv, TInv
<1>5. BInv'
  <2>1. open' \subseteq open /\ \A m \in open' : m[2] <= epoch'[m[1]]
    BY <1>1 DEF HInv, BInv, BrokerKeeps
  <2> QED
    BY <2>1 DEF HInv, BInv, BrokerKeeps, ProperQueries
<1>6. MInv'
  BY <1>1 DEF HInv, MInv, Members, Homes
<1>7. \A q \in Sends, id \in Ids : Uses(q, id)' => Uses(q, id)
  <2> SUFFICES ASSUME NEW q \in Sends, NEW id \in Ids, Uses(q, id)' PROVE Uses(q, id)
    OBVIOUS
  <2>1. CASE \E p \in pending' : p.q = q /\ p.id = id
    BY <2>1 DEF BrokerKeeps, ProperQueries
  <2>2. CASE \E c \in Conns : asking[c].at = "wait" /\ asking[c].q = q /\ asking[c].id = id
    BY <2>2 DEF Uses
  <2>3. CASE \E i \in Instances : \E k \in DOMAIN inbox'[i] : inbox'[i][k].q = q /\ inbox'[i][k].id = id
    <3>1. PICK i \in Instances : \E k \in DOMAIN inbox'[i] : inbox'[i][k].q = q /\ inbox'[i][k].id = id
      BY <2>3
    <3>2. PICK k \in DOMAIN inbox'[i] : inbox'[i][k].q = q /\ inbox'[i][k].id = id
      BY <3>1
    <3>3. CASE k \in DOMAIN inbox[i]
      <4>1. inbox[i][k].q = q /\ inbox[i][k].id = id
        BY <1>3, <3>2, <3>3
      <4> QED
        BY <3>3, <4>1 DEF Uses
    <3>4. CASE k \notin DOMAIN inbox[i]
      BY <1>3, <3>2, <3>4
    <3> QED
      BY <3>3, <3>4
  <2>4. CASE \E i \in Instances : Busy(i) /\ work[i].q = q /\ work[i].id = id
    BY <2>4 DEF Uses
  <2>5. CASE \E m \in Links : \E k \in DOMAIN wire'[m] : wire'[m][k].q = q /\ wire'[m][k].id = id
    <3>1. \E m \in Links : \E k \in DOMAIN wire[m] : wire[m][k].q = q /\ wire[m][k].id = id
      BY <1>2, <2>5
    <3> QED
      BY <3>1 DEF Uses
  <2> QED
    BY <1>1, <2>1, <2>2, <2>3, <2>4, <2>5 DEF Uses, Busy
<1>8. UInv'
  BY <1>1, <1>7 DEF HInv, UInv
<1>9. /\ \A i, q : Works(i, q)' <=> Works(i, q)
      /\ \A i : Busy(i)' <=> Busy(i)
      /\ \A i, c : Ahead(i, c)' <=> Ahead(i, c)
  BY <1>1 DEF Works, Busy, Ahead
<1>10. \A i \in Instances : \A k, q : Boxed(i, k, q)' =>
         Boxed(i, k, q) \/ (k = Len(inbox[i]) + 1 /\ Asked(l, 1, q))
  BY <1>3 DEF Boxed, IsReq
<1>11. FInv'
  <2>1. AskedOnce'
    <3> SUFFICES ASSUME NEW q \in Sends, NEW m \in Links, NEW k \in Nat, Asked(m, k, q)'
                 PROVE  /\ \A o \in Links, n \in Nat : Asked(o, n, q)' => o = m /\ n = k
                        /\ \A i \in Instances : ~Works(i, q) /\ \A n \in Nat : ~Boxed(i, n, q)'
                        /\ \A c \in Conns : <<q, c>> \notin delivered
      BY <1>1, <1>9 DEF AskedOnce
    <3>1. PICK n0 \in Nat : /\ Asked(m, n0, q) /\ k # 0 /\ n0 = IF m = l THEN k + 1 ELSE k
      BY <1>2
    <3>2. /\ \A o \in Links, n \in Nat : Asked(o, n, q) => o = m /\ n = n0
          /\ \A i \in Instances : ~Works(i, q) /\ \A n \in Nat : ~Boxed(i, n, q)
          /\ \A c \in Conns : <<q, c>> \notin delivered
      BY <3>1 DEF HInv, FInv, AskedOnce
    <3>3. ~Asked(l, 1, q)
      BY <3>1, <3>2
    <3>4. \A o \in Links, n \in Nat : Asked(o, n, q)' => o = m /\ n = k
      <4> SUFFICES ASSUME NEW o \in Links, NEW n \in Nat, Asked(o, n, q)' PROVE o = m /\ n = k
        OBVIOUS
      <4>1. CASE o = l
        <5>1. n + 1 \in Nat /\ Asked(o, n + 1, q)
          BY <1>2, <4>1
        <5>2. o = m /\ n + 1 = n0
          BY <3>2, <5>1
        <5> QED
          BY <3>1, <4>1, <5>2
      <4>2. CASE o # l
        <5>1. Asked(o, n, q)
          BY <1>2, <4>2
        <5> QED
          BY <3>1, <3>2, <4>2, <5>1
      <4> QED
        BY <4>1, <4>2
    <3> QED
      BY <1>10, <3>2, <3>3, <3>4
  <2>2. BoxedOnce'
    <3> SUFFICES ASSUME NEW q \in Sends, NEW i \in Instances, NEW k \in Nat, Boxed(i, k, q)'
                 PROVE  /\ \A n \in Nat : Boxed(i, n, q)' => n = k
                        /\ ~Works(i, q)
                        /\ \A c \in ToSet(wss[i]) : <<q, c>> \notin delivered
      BY <1>1, <1>9 DEF BoxedOnce
    <3>1. CASE Asked(l, 1, q)
      <4>1. /\ \A j \in Instances : ~Works(j, q) /\ \A n \in Nat : ~Boxed(j, n, q)
            /\ \A c \in Conns : <<q, c>> \notin delivered
        BY <3>1 DEF HInv, FInv, AskedOnce
      <4>2. ToSet(wss[i]) \subseteq Conns
        BY HomesFacts DEF HInv
      <4> QED
        BY <1>10, <4>1, <4>2
    <3>2. CASE ~Asked(l, 1, q)
      BY <1>10, <3>2 DEF HInv, FInv, BoxedOnce
    <3> QED
      BY <3>1, <3>2
  <2>3. InTurn'
    BY <1>1, <1>9 DEF HInv, FInv, InTurn
  <2> QED
    BY <1>1, <2>1, <2>2, <2>3 DEF HInv, FInv
<1> QED
  BY <1>4, <1>5, <1>6, <1>7, <1>8, <1>11

(* As long as nothing failed nothing raises at the broker, and every link  *)
(* on its list is the one of an instance.                                  *)
LEMMA NothingRaises ==
  ASSUME HInv, Quiet, NEW l \in ToSet(up)
  PROVE  /\ \E i \in Instances : l = FirstLink(i)
         /\ l \in Links /\ Alive(l)
         /\ \A m \in ToSet(up) : ~MayRaise(m) /\ ~Raises(m)
         /\ \A p \in pending : ~MayRaise(p.asker) /\ ~Raises(p.asker)
<1>1. AllUp /\ WaitsForOwing
  BY DEF HInv, QInv
<1>2. ToSet(up) = Instances \X {1} /\ ToSet(up) \subseteq open
  BY <1>1 DEF AllUp, HInv, BInv
<1>3. \A m \in Instances \X {1} :
        /\ m[1] \in Instances /\ m = FirstLink(m[1]) /\ Alive(m)
        /\ m \in open
  BY <1>1, <1>2 DEF AllUp, FirstLink, Alive, LinkOf
<1>4. \A m \in Instances \X {1} : ~MayRaise(m) /\ ~Raises(m)
  BY <1>3 DEF MayRaise, Raises
<1>5. \A p \in pending : p.asker \in Instances \X {1}
  BY <1>1 DEF WaitsForOwing
<1>6. \A i \in Instances : FirstLink(i) \in Links
  BY LinkFacts DEF HInv
<1> QED
  BY <1>2, <1>3, <1>4, <1>5, <1>6

(* A message that the broker reads while nothing has failed.               *)
LEMMA ReadQuiet ==
  ASSUME HInv, Quiet, NEW i0 \in Instances, NEW l, l = FirstLink(i0), wire[l] # << >>,
         Read(l), BrokerKeeps(l), SameInstances
  PROVE  /\ AllUp' /\ OneMessage' /\ RepliedOnce'
         /\ \A m \in Links : \A n, q : Asked(m, n, q)' => ~Asked(l, 1, q) /\ \E o \in Nat : Asked(m, o, q)
         /\ \A j \in Instances : \A q : Owes(j, q)' => Owes(j, q) \/ Asked(l, 1, q)
         /\ \A j \in Instances : \A q : Owes(j, q) => Owes(j, q)' \/ (j = i0 /\ Replied(i0, 1, q))
         /\ \A q \in Sends : Replied(i0, 1, q) => ~Owes(i0, q)'
         /\ \A j \in Instances : \A k \in DOMAIN wire'[FirstLink(j)] :
              \E n \in DOMAIN wire[FirstLink(j)] : wire'[FirstLink(j)][k] = wire[FirstLink(j)][n]
<1>1. AllUp /\ OneMessage /\ RepliedOnce
  BY DEF HInv, QInv
<1>2. UNCHANGED <<linked, epoch, wss, work, answers, asking, sent, left, delivered, reused, faults>>
  BY DEF SameInstances, histVars
<1>3. l \in Links /\ \A j \in Instances : FirstLink(j) \in Links /\ (FirstLink(j) = l <=> j = i0)
  BY LinkFacts DEF HInv
<1>4. /\ wire' = [wire EXCEPT ![l] = Tail(@)] /\ up' = up
  BY DEF Read
<1>5. /\ \A m \in Links : \A k \in DOMAIN wire'[m] :
           \E n \in DOMAIN wire[m] : wire'[m][k] = wire[m][n]
      /\ \A m \in Links : \A k, q : Asked(m, k, q)' =>
           k \in Nat \ {0} /\ IF m = l THEN Asked(l, k + 1, q) ELSE Asked(m, k, q)
  BY <1>3, ReadLink DEF HInv
<1>6. AllUp' /\ OneMessage'
  <2>1. \A q \in Sends, id \in Ids : Uses(q, id)' => Uses(q, id)
    BY <1>3, BrokerKeepsHInv
  <2> QED
    BY <1>1, <1>2, <1>4, <2>1 DEF AllUp, OneMessage
<1>7. \A i \in Instances : \A k, q : Boxed(i, k, q)' => Boxed(i, k, q) \/ Asked(l, 1, q)
  BY DEF BrokerKeeps, Grown, GrownBox, Boxed, IsReq
<1>8. \A i \in Instances : \A k, q : Boxed(i, k, q) => Boxed(i, k, q)'
  BY DEF BrokerKeeps, Grown, GrownBox, Boxed, IsReq
<1>9. \A i, q : Works(i, q)' <=> Works(i, q)
  BY <1>2 DEF Works, Busy
<1>10. ASSUME NEW m \in Links, NEW n, NEW q, Asked(m, n, q)'
       PROVE  ~Asked(l, 1, q) /\ \E o \in Nat : Asked(m, o, q)
  <2>1. PICK o \in Nat : Asked(m, o, q) /\ (m = l => o # 1)
    <3>1. n \in Nat \ {0} /\ IF m = l THEN Asked(l, n + 1, q) ELSE Asked(m, n, q)
      BY <1>5, <1>10
    <3>2. n + 1 \in Nat /\ n + 1 # 1
      BY <3>1
    <3> QED
      BY <3>1, <3>2
  <2>2. q \in Sends
    BY <2>1, QueueFacts, MessageFacts DEF Asked, IsReq, HInv
  <2> QED
    BY <1>3, <2>1, <2>2 DEF HInv, FInv, AskedOnce
\* The replies of this instance move up by one.
<1>11. /\ \A j \in Instances : \A k, q : Replied(j, k, q)' =>
            k \in Nat \ {0} /\ IF j = i0 THEN Replied(i0, k + 1, q) ELSE Replied(j, k, q)
       /\ \A j \in Instances : \A k, q : Replied(j, k, q) =>
            k \in Nat /\ IF j = i0 THEN k = 1 \/ (k - 1 \in Nat /\ Replied(i0, k - 1, q)') ELSE Replied(j, k, q)'
  <2> DEFINE t == Tail(wire[l])
  <2>1. wire \in [Links -> Seq(Message)] /\ wire[l] \in Seq(Message)
    BY <1>3 DEF HInv, TInv
  <2>2. /\ \A k \in DOMAIN t : k \in Nat /\ k + 1 \in DOMAIN wire[l] /\ t[k] = wire[l][k + 1]
        /\ \A k \in DOMAIN wire[l] :
             k \in Nat /\ (k = 1 \/ (k - 1 \in DOMAIN t /\ t[k - 1] = wire[l][k]))
        /\ t \in Seq(Message)
    BY <2>1, TailFacts
  <2>3. \A m \in Links : \A k \in DOMAIN wire[m] : k \in Nat \ {0}
    BY <2>1
  <2>4. \A k \in DOMAIN t : k \in Nat \ {0}
    BY <2>2
  <2>5. wire' = [wire EXCEPT ![l] = t]
    BY <1>4
  <2> HIDE DEF t
  <2>6. wire'[l] = t /\ \A m \in Links : m # l => wire'[m] = wire[m]
    BY <1>3, <2>1, <2>5
  <2>7. \A j \in Instances : \A k, q :
          /\ Replied(j, k, q)' <=> k \in DOMAIN wire'[FirstLink(j)] /\ wire'[FirstLink(j)][k].type = "rep"
                                   /\ wire'[FirstLink(j)][k].q = q
          /\ Replied(j, k, q) <=> k \in DOMAIN wire[FirstLink(j)] /\ wire[FirstLink(j)][k].type = "rep"
                                  /\ wire[FirstLink(j)][k].q = q
    BY DEF Replied, FirstLink
  <2>8. ASSUME NEW k, NEW q
        PROVE  /\ Replied(i0, k, q)' => k \in Nat \ {0} /\ Replied(i0, k + 1, q)
               /\ Replied(i0, k, q) => k \in Nat /\ (k = 1 \/ (k - 1 \in Nat /\ Replied(i0, k - 1, q)'))
    <3>1. \A n : Replied(i0, n, q)' <=> n \in DOMAIN t /\ t[n].type = "rep" /\ t[n].q = q
      BY <2>6, <2>7
    <3>2. \A n : Replied(i0, n, q) <=> n \in DOMAIN wire[l] /\ wire[l][n].type = "rep" /\ wire[l][n].q = q
      BY <2>7
    <3>3. ASSUME Replied(i0, k, q)' PROVE k \in Nat \ {0} /\ Replied(i0, k + 1, q)
      <4>1. k \in DOMAIN t /\ t[k].type = "rep" /\ t[k].q = q
        BY <3>1, <3>3
      <4>2. k \in Nat \ {0}
        BY <2>4, <4>1
      <4>3. k + 1 \in DOMAIN wire[l] /\ wire[l][k + 1] = t[k]
        BY <2>2, <4>1
      <4> QED
        BY <3>2, <4>1, <4>2, <4>3
    <3>4. ASSUME Replied(i0, k, q), k # 1
          PROVE  k \in Nat /\ k - 1 \in Nat /\ Replied(i0, k - 1, q)'
      <4>1. k \in DOMAIN wire[l] /\ wire[l][k].type = "rep" /\ wire[l][k].q = q
        BY <3>2, <3>4
      <4>2. k - 1 \in DOMAIN t /\ t[k - 1] = wire[l][k]
        BY <2>2, <3>4, <4>1
      <4>3. k - 1 \in Nat
        BY <2>4, <4>2
      <4> QED
        BY <2>2, <3>1, <4>1, <4>2, <4>3
    <3> QED
      BY <3>3, <3>4
  <2>9. ASSUME NEW j \in Instances, j # i0, NEW k, NEW q
        PROVE  (Replied(j, k, q)' <=> Replied(j, k, q)) /\ (Replied(j, k, q) => k \in Nat \ {0})
    BY <1>3, <2>3, <2>6, <2>7, <2>9
  <2> QED
    BY <2>8, <2>9
<1>12. RepliedOnce'
  <2> SUFFICES ASSUME NEW q \in Sends, NEW j \in Instances, NEW k \in Nat, Replied(j, k, q)'
               PROVE  /\ \A n \in Nat : Replied(j, n, q)' => n = k
                      /\ ~Works(j, q)'
                      /\ \A n \in Nat : ~Boxed(j, n, q)'
                      /\ \A m \in Links, n \in Nat : ~Asked(m, n, q)'
    BY DEF RepliedOnce
  <2>1. PICK k0 \in Nat : Replied(j, k0, q) /\ k0 = IF j = i0 THEN k + 1 ELSE k
    BY <1>11
  <2>2. /\ \A n \in Nat : Replied(j, n, q) => n = k0
        /\ ~Works(j, q)
        /\ \A n \in Nat : ~Boxed(j, n, q)
        /\ \A m \in Links, n \in Nat : ~Asked(m, n, q)
    BY <1>1, <2>1 DEF RepliedOnce
  <2>3. ASSUME NEW n \in Nat, Replied(j, n, q)' PROVE n = k
    <3>1. n + 1 \in Nat
      OBVIOUS
    <3>2. IF j = i0 THEN Replied(j, n + 1, q) ELSE Replied(j, n, q)
      BY <1>11, <2>3
    <3> QED
      BY <2>1, <2>2, <3>1, <3>2
  <2> QED
    BY <1>3, <1>7, <1>9, <1>10, <2>2, <2>3
<1>13. \A j \in Instances : \A q : Owes(j, q)' => Owes(j, q) \/ Asked(l, 1, q)
  <2>1. ASSUME NEW j \in Instances, NEW q, NEW k \in Nat, Replied(j, k, q)'
        PROVE  \E n \in Nat : Replied(j, n, q)
    <3>1. k + 1 \in Nat
      OBVIOUS
    <3> QED
      BY <1>11, <2>1, <3>1
  <2> QED
    BY <1>7, <1>9, <2>1 DEF Owes
<1>14. \A j \in Instances : \A q : Owes(j, q) => Owes(j, q)' \/ (j = i0 /\ Replied(i0, 1, q))
  BY <1>8, <1>9, <1>11 DEF Owes
<1>15. ASSUME NEW q \in Sends, Replied(i0, 1, q) PROVE ~Owes(i0, q)'
  <2>1. /\ \A n \in Nat : Replied(i0, n, q) => n = 1
        /\ ~Works(i0, q)
        /\ \A n \in Nat : ~Boxed(i0, n, q)
        /\ \A m \in Links, n \in Nat : ~Asked(m, n, q)
    BY <1>1, <1>15 DEF RepliedOnce
  <2>2. ASSUME NEW n \in Nat, Replied(i0, n, q)' PROVE FALSE
    <3>1. n # 0 /\ n + 1 \in Nat /\ Replied(i0, n + 1, q)
      BY <1>11, <2>2
    <3> QED
      BY <2>1, <3>1
  <2> QED
    BY <1>3, <1>7, <1>9, <2>1, <2>2 DEF Owes
<1> QED
  BY <1>3, <1>5, <1>6, <1>10, <1>12, <1>13, <1>14, <1>15

(* A cleanup takes the link off the list, reading leaves it there.         *)
LEMMA CleanupReadsNot ==
  ASSUME HInv, NEW l \in ToSet(up), NEW ps, NEW in, Cleanup(l, ps, in)
  PROVE  ~Read(l)
<1>1. up' = RemoveFirst(up, l)
  BY DEF Cleanup
<1>2. up \in Seq(Links) /\ IsInjective(up)
  BY DEF HInv, BInv
<1>3. ToSet(RemoveFirst(up, l)) = ToSet(up) \ {l}
  BY <1>2, RemoveFromInjective
<1> QED
  BY <1>1, <1>3 DEF Read

(* Reading one message keeps the list of links.                            *)
LEMMA ReadKeeps ==
  ASSUME HInv, NEW l \in ToSet(up), wire[l] # << >>, Read(l),
         ProperQueries(pending'), Grown(l, inbox')
  PROVE  BrokerKeeps(l)
BY DEF HInv, BInv, Read, BrokerKeeps

(* Inboxes that stay as they are.                                          *)
LEMMA GrownSame == ASSUME HInv, NEW l PROVE Grown(l, inbox)
BY DEF HInv, TInv, Grown, GrownBox

\* Inboxes with one message more, x, for every instance of T; and inboxes in
\* which there is nothing new but x.
OneMore(in, x, T) ==
    /\ in \in [Instances -> Seq(Message)]
    /\ \A i \in Instances : in[i] = IF i \in T THEN Append(inbox[i], x) ELSE inbox[i]
OnlyNew(in, x) ==
    \A i \in Instances : \A k \in DOMAIN in[i] :
        (k \in DOMAIN inbox[i] /\ in[i][k] = inbox[i][k]) \/ in[i][k] = x
AllHave(in, x, T) ==
    \A i \in Instances : i \in T => \E k \in Nat : k \in DOMAIN in[i] /\ in[i][k] = x

(* One message more for every instance of a set.                           *)
LEMMA GrownByOne ==
  ASSUME HInv, NEW l, NEW x \in Message, Uses(x.q, x.id), x.type = "req" => Asked(l, 1, x.q),
         NEW T, NEW in, OneMore(in, x, T)
  PROVE  Grown(l, in) /\ OnlyNew(in, x) /\ AllHave(in, x, T)
<1>1. inbox \in [Instances -> Seq(Message)]
  BY DEF HInv, TInv
<1>2. ASSUME NEW i \in Instances, i \in T
      PROVE  /\ GrownBox(l, i, in[i])
             /\ \A k \in DOMAIN in[i] : (k \in DOMAIN inbox[i] /\ in[i][k] = inbox[i][k]) \/ in[i][k] = x
             /\ \E k \in Nat : k \in DOMAIN in[i] /\ in[i][k] = x
  <2> DEFINE b == Append(inbox[i], x)
  <2>1. in[i] = b
    BY <1>2 DEF OneMore
  <2>2. inbox[i] \in Seq(Message)
    BY <1>1
  <2>3. /\ b \in Seq(Message) /\ DOMAIN b = 1 .. Len(inbox[i]) + 1
        /\ DOMAIN inbox[i] = 1 .. Len(inbox[i]) /\ Len(inbox[i]) \in Nat
        /\ b[Len(inbox[i]) + 1] = x
        /\ \A k \in 1 .. Len(inbox[i]) : b[k] = inbox[i][k]
        /\ \A k \in DOMAIN b : (k \in DOMAIN inbox[i] /\ b[k] = inbox[i][k])
                               \/ (k = Len(inbox[i]) + 1 /\ b[k] = x)
    BY <2>2, AppendFacts
  <2> HIDE DEF b
  <2>4. GrownBox(l, i, b)
    BY <2>3 DEF GrownBox
  <2>5. \A k \in DOMAIN b : (k \in DOMAIN inbox[i] /\ b[k] = inbox[i][k]) \/ b[k] = x
    BY <2>3
  <2>6. \E k \in Nat : k \in DOMAIN b /\ b[k] = x
    <3>1. Len(inbox[i]) + 1 \in Nat /\ Len(inbox[i]) + 1 \in DOMAIN b
      BY <2>3
    <3> QED
      BY <2>3, <3>1
  <2> QED
    BY <2>1, <2>4, <2>5, <2>6
<1>3. ASSUME NEW i \in Instances, i \notin T PROVE in[i] = inbox[i] /\ GrownBox(l, i, in[i])
  BY <1>1, <1>3 DEF GrownBox, OneMore
<1>4. \A i \in Instances : in[i] \in Seq(Message) /\ GrownBox(l, i, in[i])
  BY <1>2, <1>3 DEF GrownBox
<1>5. Grown(l, in)
  BY <1>4 DEF Grown, OneMore
<1>6. OnlyNew(in, x)
  BY <1>2, <1>3 DEF OnlyNew
<1>7. AllHave(in, x, T)
  BY <1>2 DEF AllHave
<1> QED
  BY <1>5, <1>6, <1>7

(* An answer passed on to an asker.                                        *)
LEMMA BoxFacts ==
  ASSUME HInv, NEW l, NEW p \in pending, NEW ok \in BOOLEAN,
         NEW in, in = Box(inbox, p.asker, Rep(p.q, p.id, ok))
  PROVE  Grown(l, in) /\ OnlyNew(in, Rep(p.q, p.id, ok))
<1>1. p \in Query /\ inbox \in [Instances -> Seq(Message)]
  BY DEF HInv, BInv, TInv
<1>2. /\ p.asker[1] \in Instances /\ p.q \in Sends /\ p.id \in Ids /\ Uses(p.q, p.id)
  BY <1>1 DEF Query, Links, Uses
<1>3. PICK x \in Message : /\ x = Rep(p.q, p.id, ok) /\ x.type = "rep" /\ x.q = p.q /\ x.id = p.id
  BY <1>2, MessageFacts
<1>4. PICK T : T = IF Alive(p.asker) THEN {p.asker[1]} ELSE {}
  OBVIOUS
<1>5. OneMore(in, x, T)
  BY <1>1, <1>2, <1>3, <1>4 DEF Box, OneMore
<1>6. Uses(x.q, x.id) /\ x.type # "req"
  BY <1>2, <1>3
<1>7. Grown(l, in) /\ OnlyNew(in, x)
  BY <1>5, <1>6, GrownByOne
<1> QED
  BY <1>3, <1>7

(* A reply that the broker reads while nothing has failed.                 *)
LEMMA ReadReply ==
  ASSUME HInv, Quiet, NEW i0 \in Instances, NEW l, l = FirstLink(i0), wire[l] # << >>,
         NEW m \in Message, m = Head(wire[l]), m.type = "rep",
         Read(l), BrokerKeeps(l), SameInstances
  PROVE  /\ AllUp' /\ OneMessage' /\ RepliedOnce'
         /\ \A p \in pending : p.id = m.id => p.q = m.q
         /\ \A p \in pending : p.q = m.q => p.id = m.id /\ l \in p.wait
         /\ \A j \in Instances, q \in Sends : j # i0 \/ q # m.q => (Owes(j, q)' <=> Owes(j, q))
         /\ ~Owes(i0, m.q)'
         /\ \A k \in Links : \A n, q : Asked(k, n, q)' => \E o \in Nat : Asked(k, o, q)
         /\ \A q : Denial(m, q) => ~Found(i0, q)
         /\ \A j \in Instances : \A k \in DOMAIN wire'[FirstLink(j)] :
              \E n \in DOMAIN wire[FirstLink(j)] : wire'[FirstLink(j)][k] = wire[FirstLink(j)][n]
<1>1. AllUp /\ OneMessage /\ WaitsForOwing
  BY DEF HInv, QInv
<1>2. l \in Links /\ wire[l] \in Seq(Message)
  BY LinkFacts DEF HInv, TInv
<1>3. 1 \in DOMAIN wire[l] /\ wire[l][1] = m
  BY <1>2, TailFacts
<1>4. /\ \A q : Replied(i0, 1, q) <=> q = m.q
      /\ \A q : ~Asked(l, 1, q)
      /\ \A q : Denial(m, q) => ~Found(i0, q)
  BY <1>3 DEF Replied, Asked, IsReq, Found
<1>5. m.q \in Sends /\ m.id \in Ids /\ Uses(m.q, m.id)
  BY <1>2, <1>3, MessageFacts DEF Uses
<1>6. \A p \in pending : p.q \in Sends /\ p.id \in Ids /\ Uses(p.q, p.id)
  BY DEF HInv, BInv, Query, Uses
<1>7. \A p \in pending : p.id = m.id <=> p.q = m.q
  BY <1>1, <1>5, <1>6 DEF OneMessage, HInv, UInv
<1>8. Owes(i0, m.q)
  BY <1>4 DEF Owes
<1>9. \A p \in pending : p.q = m.q => l \in p.wait
  BY <1>1, <1>8 DEF WaitsForOwing
<1>10. /\ AllUp' /\ OneMessage' /\ RepliedOnce'
       /\ \A k \in Links : \A n, q : Asked(k, n, q)' => ~Asked(l, 1, q) /\ \E o \in Nat : Asked(k, o, q)
       /\ \A j \in Instances : \A q : Owes(j, q)' => Owes(j, q) \/ Asked(l, 1, q)
       /\ \A j \in Instances : \A q : Owes(j, q) => Owes(j, q)' \/ (j = i0 /\ Replied(i0, 1, q))
       /\ \A q \in Sends : Replied(i0, 1, q) => ~Owes(i0, q)'
       /\ \A j \in Instances : \A k \in DOMAIN wire'[FirstLink(j)] :
            \E n \in DOMAIN wire[FirstLink(j)] : wire'[FirstLink(j)][k] = wire[FirstLink(j)][n]
  BY ReadQuiet
<1> QED
  BY <1>4, <1>5, <1>7, <1>9, <1>10

(* Who waits for an answer still finds the message at his instance.        *)
LEMMA StillFound ==
  ASSUME HInv, SameInstances,
         \A j \in Instances : \A k \in DOMAIN wire'[FirstLink(j)] :
            \E n \in DOMAIN wire[FirstLink(j)] : wire'[FirstLink(j)][k] = wire[FirstLink(j)][n],
         NEW x, OnlyNew(inbox', x),
         NEW j \in Instances, NEW q, Found(j, q), ~Denial(x, q),
         \A p \in pending' : p.q = q => FirstLink(j) \in p.wait
  PROVE  Found(j, q)'
<1>1. \A k \in DOMAIN wire'[FirstLink(j)] : ~Denial(wire'[FirstLink(j)][k], q)
  BY DEF Found
<1>2. \A i \in Instances : \A k \in DOMAIN inbox'[i] : ~Denial(inbox'[i][k], q)
  BY DEF Found, OnlyNew
<1> QED
  BY <1>1, <1>2 DEF Found, FirstLink, Denial

(* The broker notices the end of a link.                                   *)
LEMMA BrokerEofHInv ==
  ASSUME HInv, NEW l \in Links, BrokerEof(l)
  PROVE  HInv'
<1>1. l \in ToSet(up) /\ ~Alive(l) /\ Cleanup(l, pending, inbox) /\ SameInstances
  BY DEF BrokerEof
<1>2. BrokerKeeps(l)
  BY <1>1, ProperPending, GrownSame, CleanupKeeps
<1>3. TInv' /\ BInv' /\ MInv' /\ UInv' /\ FInv'
  BY <1>1, <1>2, BrokerKeepsHInv
<1>4. ~Quiet'
  <2>1. ~Quiet
    BY <1>1, NothingRaises
  <2> QED
    BY <1>1, <2>1 DEF SameInstances, histVars, Quiet
<1> QED
  BY <1>3, <1>4 DEF HInv, QInv

(* The broker reads an answer True.                                        *)
LEMMA BrokerSuccessHInv ==
  ASSUME HInv, NEW l \in Links, BrokerSuccess(l)
  PROVE  HInv'
<1>1. l \in ToSet(up) /\ wire[l] # << >> /\ SameInstances
  BY DEF BrokerSuccess
<1>2. PICK m \in Message : m = Head(wire[l])
  <2>1. wire[l] \in Seq(Message)
    BY DEF HInv, TInv
  <2> QED
    BY <1>1, <2>1, TailFacts
<1>3. m.type = "rep" /\ m.ok
  BY <1>2 DEF BrokerSuccess
\* The broker does not know the query any more, passes the answer on, or fails.
<1>4. \/ Unknown(l) /\ \A p \in pending : p.id # m.id
      \/ \E p \in pending : /\ p.id = m.id
                            /\ inbox' = Box(inbox, p.asker, Rep(p.q, p.id, TRUE))
                            /\ pending' = pending \ {p}
                            /\ Read(l)
      \/ \E p \in pending : MayRaise(p.asker) /\ Cleanup(l, pending, inbox)
  BY <1>2 DEF BrokerSuccess
<1>5. PICK x : /\ Read(l) => OnlyNew(inbox', x) /\ \A q : ~Denial(x, q)
               /\ BrokerKeeps(l)
  <2>1. CASE Unknown(l)
    <3>1. Read(l) /\ pending' = pending /\ inbox' = inbox
      BY <2>1 DEF Unknown
    <3>2. BrokerKeeps(l)
      BY <1>1, <3>1, ReadKeeps, ProperPending, GrownSame
    <3>3. OnlyNew(inbox', Rep(1, 1, TRUE)) /\ \A q : ~Denial(Rep(1, 1, TRUE), q)
      BY <3>1 DEF OnlyNew, Denial, Rep
    <3> QED
      BY <3>2, <3>3
  <2>2. ASSUME NEW p \in pending, inbox' = Box(inbox, p.asker, Rep(p.q, p.id, TRUE)),
               pending' = pending \ {p}, Read(l)
        PROVE  BrokerKeeps(l) /\ \E x : OnlyNew(inbox', x) /\ \A q : ~Denial(x, q)
    <3>1. PICK in : in = inbox'
      OBVIOUS
    <3>2. Grown(l, in) /\ OnlyNew(in, Rep(p.q, p.id, TRUE))
      BY <2>2, <3>1, BoxFacts
    <3>3. ProperQueries(pending \ {p})
      BY ProperPending, FS_Subset DEF ProperQueries
    <3>4. BrokerKeeps(l)
      BY <1>1, <2>2, <3>1, <3>2, <3>3, ReadKeeps
    <3>5. \A q : ~Denial(Rep(p.q, p.id, TRUE), q)
      BY DEF Denial, Rep
    <3> QED
      BY <3>1, <3>2, <3>4, <3>5
  <2>3. CASE Cleanup(l, pending, inbox)
    BY <1>1, <2>3, CleanupReadsNot, ProperPending, GrownSame, CleanupKeeps
  <2> QED
    BY <1>4, <2>1, <2>2, <2>3
<1>6. TInv' /\ BInv' /\ MInv' /\ UInv' /\ FInv'
  BY <1>1, <1>5, BrokerKeepsHInv
<1>7. ASSUME Quiet'
      PROVE  (AllUp /\ OneMessage /\ RepliedOnce /\ WaitsForOwing /\ AskersFound)'
  <2>1. Quiet
    BY <1>1, <1>7 DEF SameInstances, histVars, Quiet
  <2>2. PICK i0 \in Instances : l = FirstLink(i0)
    BY <1>1, <2>1, NothingRaises
  <2>3. /\ \A p \in pending : ~MayRaise(p.asker)
        /\ WaitsForOwing /\ AskersFound
    BY <1>1, <2>1, NothingRaises DEF HInv, QInv
  <2>4. /\ Read(l)
        /\ \/ pending' = pending /\ \A p \in pending : p.id # m.id
           \/ \E p \in pending : p.id = m.id /\ pending' = pending \ {p}
    BY <1>4, <2>3 DEF Unknown
  <2>5. /\ AllUp' /\ OneMessage' /\ RepliedOnce'
        /\ \A p \in pending : p.id = m.id => p.q = m.q
        /\ \A p \in pending : p.q = m.q => p.id = m.id /\ l \in p.wait
        /\ \A j \in Instances, q \in Sends : j # i0 \/ q # m.q => (Owes(j, q)' <=> Owes(j, q))
        /\ ~Owes(i0, m.q)'
        /\ \A k \in Links : \A n, q : Asked(k, n, q)' => \E o \in Nat : Asked(k, o, q)
        /\ \A j \in Instances : \A k \in DOMAIN wire'[FirstLink(j)] :
             \E n \in DOMAIN wire[FirstLink(j)] : wire'[FirstLink(j)][k] = wire[FirstLink(j)][n]
    BY <1>1, <1>2, <1>3, <1>5, <2>1, <2>2, <2>4, ReadReply
  <2>6. pending' \subseteq pending /\ \A p \in pending' : p.q # m.q
    <3>1. \A p, r \in pending : p.id = r.id => p = r
      BY DEF HInv, BInv
    <3> QED
      BY <2>4, <2>5, <3>1
  <2>7. WaitsForOwing'
    <3>1. \A p \in pending : p.q \in Sends
      BY DEF HInv, BInv, Query
    <3>2. \A j \in Instances : \A p \in pending' : Owes(j, p.q)' <=> Owes(j, p.q)
      BY <2>5, <2>6, <3>1
    <3> QED
      BY <2>3, <2>5, <2>6, <3>2 DEF WaitsForOwing, FirstLink
  <2>8. AskersFound'
    <3>1. \A j \in Instances : \A q : Found(j, q) => Found(j, q)'
      <4> SUFFICES ASSUME NEW j \in Instances, NEW q, Found(j, q) PROVE Found(j, q)'
        OBVIOUS
      <4>1. \A p \in pending' : p.q = q => FirstLink(j) \in p.wait
        BY <2>6 DEF Found
      <4> QED
        BY <1>1, <1>5, <2>4, <2>5, <4>1, StillFound
    <3>2. asking' = asking /\ wss' = wss
      BY <1>1 DEF SameInstances
    <3> QED
      BY <2>3, <3>1, <3>2 DEF AskersFound, Homes
  <2> QED
    BY <2>5, <2>7, <2>8
<1> QED
  BY <1>6, <1>7 DEF HInv, QInv

(* A query that waits for one link less.                                   *)
LEMMA LessToWaitFor ==
  ASSUME HInv, NEW p \in pending, NEW l, NEW rest, rest = [p EXCEPT !.wait = @ \ {l}]
  PROVE  /\ ProperQueries((pending \ {p}) \cup {rest})
         /\ rest.q = p.q /\ rest.id = p.id /\ rest.asker = p.asker /\ rest.wait = p.wait \ {l}
<1>1. p \in Query /\ Uses(p.q, p.id)
  BY DEF HInv, BInv, Query, Uses
<1>2. rest \in Query /\ rest.q = p.q /\ rest.id = p.id /\ rest.asker = p.asker /\ rest.wait = p.wait \ {l}
  BY <1>1 DEF Query
<1>3. IsFiniteSet((pending \ {p}) \cup {rest})
  <2>1. IsFiniteSet(pending \ {p}) /\ IsFiniteSet({rest})
    BY FS_Subset, FS_Singleton DEF HInv, BInv
  <2> QED
    BY <2>1, FS_Union
<1>4. /\ \A s \in (pending \ {p}) \cup {rest} : s = rest \/ (s \in pending /\ s # p)
      /\ pending \subseteq Query /\ \A s, r \in pending : s.id = r.id => s = r
      /\ \A s \in pending : Uses(s.q, s.id)
  BY ProperPending DEF ProperQueries
<1>5. \A s, r \in (pending \ {p}) \cup {rest} : s.id = r.id => s = r
  <2>1. \A s \in pending : s.id = p.id => s = p
    BY <1>4
  <2>2. \A s \in (pending \ {p}) \cup {rest} : s.id = p.id => s = rest
    BY <1>4, <2>1
  <2>3. \A s, r \in pending : s.id = r.id => s = r
    BY <1>4
  <2> SUFFICES ASSUME NEW s \in (pending \ {p}) \cup {rest}, NEW r \in (pending \ {p}) \cup {rest},
                      s.id = r.id
               PROVE  s = r
    OBVIOUS
  <2>4. CASE s = rest \/ r = rest
    BY <1>2, <2>2, <2>4
  <2>5. CASE s \in pending /\ r \in pending
    BY <2>3, <2>5
  <2> QED
    BY <2>4, <2>5
<1>6. \A s \in (pending \ {p}) \cup {rest} : s \in Query /\ Uses(s.q, s.id)
  BY <1>1, <1>2, <1>4
<1> QED
  BY <1>2, <1>3, <1>5, <1>6 DEF ProperQueries

(* The broker reads an answer False.                                       *)
LEMMA BrokerFailureHInv ==
  ASSUME HInv, NEW l \in Links, BrokerFailure(l)
  PROVE  HInv'
<1>1. l \in ToSet(up) /\ wire[l] # << >> /\ SameInstances
  BY DEF BrokerFailure
<1>2. PICK m \in Message : m = Head(wire[l])
  <2>1. wire[l] \in Seq(Message)
    BY DEF HInv, TInv
  <2> QED
    BY <1>1, <2>1, TailFacts
<1>3. m.type = "rep" /\ ~m.ok
  BY <1>2 DEF BrokerFailure
\* The broker does not know the query any more, goes on waiting for others,
\* passes the answer on, or fails.
<1>4. \/ Unknown(l) /\ \A p \in pending : p.id # m.id
      \/ \E p \in pending : \E rest :
           /\ p.id = m.id /\ rest = [p EXCEPT !.wait = @ \ {l}] /\ rest.wait # {}
           /\ pending' = (pending \ {p}) \cup {rest}
           /\ Read(l) /\ UNCHANGED inbox
      \/ \E p \in pending : \E rest :
           /\ p.id = m.id /\ rest = [p EXCEPT !.wait = @ \ {l}] /\ rest.wait = {}
           /\ inbox' = Box(inbox, p.asker, Rep(p.q, p.id, FALSE))
           /\ pending' = pending \ {p}
           /\ Read(l)
      \/ \E p \in pending : p.id = m.id /\ l \notin p.wait /\ Cleanup(l, pending, inbox)
      \/ \E p \in pending : \E rest :
           /\ p.id = m.id /\ rest = [p EXCEPT !.wait = @ \ {l}]
           /\ MayRaise(p.asker) /\ Cleanup(l, (pending \ {p}) \cup {rest}, inbox)
  BY <1>2 DEF BrokerFailure
<1>5. BrokerKeeps(l)
  <2>1. CASE Unknown(l)
    BY <1>1, <2>1, ReadKeeps, ProperPending, GrownSame DEF Unknown
  <2>2. ASSUME NEW p \in pending, NEW rest, rest = [p EXCEPT !.wait = @ \ {l}],
               pending' = (pending \ {p}) \cup {rest}, Read(l), UNCHANGED inbox
        PROVE  BrokerKeeps(l)
    <3>1. ProperQueries(pending')
      BY <2>2, LessToWaitFor
    <3> QED
      BY <1>1, <2>2, <3>1, ReadKeeps, GrownSame
  <2>3. ASSUME NEW p \in pending, inbox' = Box(inbox, p.asker, Rep(p.q, p.id, FALSE)),
               pending' = pending \ {p}, Read(l)
        PROVE  BrokerKeeps(l)
    <3>1. PICK in : in = inbox'
      OBVIOUS
    <3>2. Grown(l, in)
      BY <2>3, <3>1, BoxFacts
    <3>3. ProperQueries(pending \ {p})
      BY ProperPending, FS_Subset DEF ProperQueries
    <3> QED
      BY <1>1, <2>3, <3>1, <3>2, <3>3, ReadKeeps
  <2>4. CASE Cleanup(l, pending, inbox)
    BY <1>1, <2>4, ProperPending, GrownSame, CleanupKeeps
  <2>5. ASSUME NEW p \in pending, NEW rest, rest = [p EXCEPT !.wait = @ \ {l}],
               Cleanup(l, (pending \ {p}) \cup {rest}, inbox)
        PROVE  BrokerKeeps(l)
    <3>1. PICK ps : ps = (pending \ {p}) \cup {rest}
      OBVIOUS
    <3>2. ProperQueries(ps) /\ Cleanup(l, ps, inbox)
      BY <2>5, <3>1, LessToWaitFor
    <3> QED
      BY <1>1, <3>2, GrownSame, CleanupKeeps
  <2> QED
    BY <1>4, <2>1, <2>2, <2>3, <2>4, <2>5
<1>6. TInv' /\ BInv' /\ MInv' /\ UInv' /\ FInv'
  BY <1>1, <1>5, BrokerKeepsHInv
<1>7. ASSUME Quiet'
      PROVE  (AllUp /\ OneMessage /\ RepliedOnce /\ WaitsForOwing /\ AskersFound)'
  <2>1. Quiet
    BY <1>1, <1>7 DEF SameInstances, histVars, Quiet
  <2>2. PICK i0 \in Instances : l = FirstLink(i0)
    BY <1>1, <2>1, NothingRaises
  <2>3. WaitsForOwing /\ AskersFound /\ OneMessage
    BY <2>1 DEF HInv, QInv
  <2>4. \A p \in pending : p.id = m.id => ~MayRaise(p.asker) /\ p.q = m.q /\ l \in p.wait
    <3>1. \A p \in pending : ~MayRaise(p.asker)
      BY <1>1, <2>1, NothingRaises
    <3>2. 1 \in DOMAIN wire[l] /\ wire[l][1] = m
      BY <1>1, <1>2, TailFacts DEF HInv, TInv
    <3>3. m.q \in Sends /\ m.id \in Ids /\ Uses(m.q, m.id)
      BY <3>2, MessageFacts DEF Uses
    <3>4. \A p \in pending : p.q \in Sends /\ p.id \in Ids /\ Uses(p.q, p.id)
      BY DEF HInv, BInv, Query, Uses
    <3>5. \A p \in pending : p.id = m.id => p.q = m.q
      BY <2>3, <3>3, <3>4 DEF OneMessage
    <3>6. Owes(i0, m.q)
      BY <1>3, <2>2, <3>2 DEF Owes, Replied
    <3> QED
      BY <2>2, <2>3, <3>1, <3>5, <3>6 DEF WaitsForOwing
  <2>5. Read(l)
    BY <1>4, <2>4 DEF Unknown
  <2>6. /\ AllUp' /\ OneMessage' /\ RepliedOnce'
        /\ \A p \in pending : p.id = m.id => p.q = m.q
        /\ \A p \in pending : p.q = m.q => p.id = m.id /\ l \in p.wait
        /\ \A j \in Instances, q \in Sends : j # i0 \/ q # m.q => (Owes(j, q)' <=> Owes(j, q))
        /\ ~Owes(i0, m.q)'
        /\ \A k \in Links : \A n, q : Asked(k, n, q)' => \E o \in Nat : Asked(k, o, q)
        /\ \A q : Denial(m, q) => ~Found(i0, q)
        /\ \A j \in Instances : \A k \in DOMAIN wire'[FirstLink(j)] :
             \E n \in DOMAIN wire[FirstLink(j)] : wire'[FirstLink(j)][k] = wire[FirstLink(j)][n]
    BY <1>1, <1>2, <1>3, <1>5, <2>1, <2>2, <2>5, ReadReply
  <2>7. /\ \A p \in pending : p.q \in Sends
        /\ \A p, r \in pending : p.id = r.id => p = r
    BY DEF HInv, BInv, Query
  <2>8. Denial(m, m.q)
    BY <1>3 DEF Denial
  <2>9. asking' = asking /\ wss' = wss
    BY <1>1 DEF SameInstances
  <2>10. CASE \E p \in pending : \E rest :
                /\ p.id = m.id /\ rest = [p EXCEPT !.wait = @ \ {l}] /\ rest.wait # {}
                /\ pending' = (pending \ {p}) \cup {rest}
                /\ UNCHANGED inbox
    <3>0. PICK p \in pending : \E rest :
            /\ p.id = m.id /\ rest = [p EXCEPT !.wait = @ \ {l}] /\ rest.wait # {}
            /\ pending' = (pending \ {p}) \cup {rest}
            /\ UNCHANGED inbox
      BY <2>10
    <3>1. PICK rest :
            /\ p.id = m.id /\ rest = [p EXCEPT !.wait = @ \ {l}] /\ rest.wait # {}
            /\ pending' = (pending \ {p}) \cup {rest}
            /\ UNCHANGED inbox
      BY <3>0
    <3>2. rest.q = m.q /\ rest.asker = p.asker /\ rest.wait = p.wait \ {l}
      BY <2>6, <3>1, LessToWaitFor
    <3>3. \A r \in pending' : r = rest \/ (r \in pending /\ r.q # m.q)
      BY <2>6, <2>7, <3>1
    <3>4. WaitsForOwing'
      <4> SUFFICES ASSUME NEW r \in pending'
                   PROVE  /\ r.asker \in Instances \X {1} /\ r.wait # {} /\ r.wait \subseteq Instances \X {1}
                          /\ \A i \in Instances : FirstLink(i) \in r.wait <=> Owes(i, r.q)'
                          /\ \A k \in Links, n \in Nat : ~Asked(k, n, r.q)'
        BY DEF WaitsForOwing, FirstLink
      <4>1. CASE r = rest
        <5>1. \A i \in Instances : FirstLink(i) = l <=> i = i0
          BY <2>2, LinkFacts DEF HInv
        <5>2. /\ p.asker \in Instances \X {1} /\ p.wait \subseteq Instances \X {1}
              /\ \A i \in Instances : FirstLink(i) \in p.wait <=> Owes(i, m.q)
              /\ \A k \in Links, n \in Nat : ~Asked(k, n, m.q)
          BY <2>3, <2>6, <3>1 DEF WaitsForOwing
        <5>3. m.q \in Sends
          BY MessageFacts
        <5>4. \A i \in Instances : FirstLink(i) \in r.wait <=> Owes(i, r.q)'
          BY <2>6, <3>2, <4>1, <5>1, <5>2, <5>3
        <5> QED
          BY <2>6, <3>1, <3>2, <4>1, <5>2, <5>4
      <4>2. CASE r \in pending /\ r.q # m.q
        <5>1. \A i \in Instances : Owes(i, r.q)' <=> Owes(i, r.q)
          BY <2>6, <2>7, <4>2
        <5> QED
          BY <2>3, <2>6, <4>2, <5>1 DEF WaitsForOwing
      <4> QED
        BY <3>3, <4>1, <4>2
    <3>5. \A j \in Instances : \A q : Found(j, q) => Found(j, q)'
      <4> SUFFICES ASSUME NEW j \in Instances, NEW q, Found(j, q) PROVE Found(j, q)'
        OBVIOUS
      <4>1. \A r \in pending' : r.q = q => FirstLink(j) \in r.wait
        <5>1. q = m.q => j # i0
          BY <2>6, <2>8
        <5>2. \A i \in Instances : FirstLink(i) = l <=> i = i0
          BY <2>2, LinkFacts DEF HInv
        <5>3. \A r \in pending : r.q = q => FirstLink(j) \in r.wait
          BY DEF Found
        <5> QED
          BY <2>6, <3>1, <3>2, <3>3, <5>1, <5>2, <5>3
      <4>2. PICK x : OnlyNew(inbox', x) /\ ~Denial(x, q)
        <5>1. OnlyNew(inbox', Rep(1, 1, TRUE)) /\ ~Denial(Rep(1, 1, TRUE), q)
          BY <3>1 DEF OnlyNew, Denial, Rep
        <5> QED
          BY <5>1
      <4> QED
        BY <1>1, <2>6, <4>1, <4>2, StillFound
    <3> QED
      BY <2>3, <2>6, <2>9, <3>4, <3>5 DEF AskersFound, Homes
  <2>11. CASE /\ pending' \subseteq pending /\ \A p \in pending' : p.q # m.q
              /\ \E x : /\ OnlyNew(inbox', x)
                        /\ \A q : Denial(x, q) => \A c \in Conns : ~(asking[c].at = "wait" /\ asking[c].q = q)
    <3>1. WaitsForOwing'
      <4>1. \A j \in Instances : \A p \in pending' : Owes(j, p.q)' <=> Owes(j, p.q)
        BY <2>6, <2>7, <2>11
      <4> QED
        BY <2>3, <2>6, <2>11, <4>1 DEF WaitsForOwing, FirstLink
    <3>2. ASSUME NEW j \in Instances, NEW q, Found(j, q),
                 NEW c \in Conns, asking[c].at = "wait", asking[c].q = q
          PROVE  Found(j, q)'
      <4>1. PICK x : OnlyNew(inbox', x) /\ ~Denial(x, q)
        BY <2>11, <3>2
      <4>2. \A p \in pending' : p.q = q => FirstLink(j) \in p.wait
        BY <2>11, <3>2 DEF Found
      <4> QED
        BY <1>1, <2>6, <3>2, <4>1, <4>2, StillFound
    <3> QED
      BY <2>3, <2>6, <2>9, <3>1, <3>2 DEF AskersFound, Homes
  <2>12. CASE Unknown(l) /\ \A p \in pending : p.id # m.id
    <3>1. pending' = pending /\ inbox' = inbox
      BY <2>12 DEF Unknown
    <3>2. OnlyNew(inbox', Rep(1, 1, TRUE)) /\ \A q : ~Denial(Rep(1, 1, TRUE), q)
      BY <3>1 DEF OnlyNew, Denial, Rep
    <3>3. \A p \in pending' : p.q # m.q
      BY <2>6, <2>12, <3>1
    <3> QED
      BY <2>11, <3>1, <3>2, <3>3
  <2>13. CASE \E p \in pending : \E rest :
                /\ p.id = m.id /\ rest = [p EXCEPT !.wait = @ \ {l}] /\ rest.wait = {}
                /\ inbox' = Box(inbox, p.asker, Rep(p.q, p.id, FALSE))
                /\ pending' = pending \ {p}
    <3>0. PICK p \in pending : \E rest :
            /\ p.id = m.id /\ rest = [p EXCEPT !.wait = @ \ {l}] /\ rest.wait = {}
            /\ inbox' = Box(inbox, p.asker, Rep(p.q, p.id, FALSE))
            /\ pending' = pending \ {p}
      BY <2>13
    <3>1. PICK rest :
            /\ p.id = m.id /\ rest = [p EXCEPT !.wait = @ \ {l}] /\ rest.wait = {}
            /\ inbox' = Box(inbox, p.asker, Rep(p.q, p.id, FALSE))
            /\ pending' = pending \ {p}
      BY <3>0
    <3>2. \A r \in pending' : r.q # m.q
      BY <2>6, <2>7, <3>1
    <3>3. p.q = m.q /\ p.wait \subseteq {l}
      BY <2>6, <3>1, LessToWaitFor
    \* Nobody waits for it any more: his instance is not the last one.
    <3>4. \A c \in Conns : ~(asking[c].at = "wait" /\ asking[c].q = m.q)
      <4> SUFFICES ASSUME NEW c \in Conns, asking[c].at = "wait", asking[c].q = m.q PROVE FALSE
        OBVIOUS
      <4>1. PICK i \in Instances : Found(i, m.q)
        <5>1. m.q \in Sends
          BY MessageFacts
        <5>2. \E i \in Homes(c) : Found(i, m.q)
          BY <2>3, <5>1 DEF AskersFound
        <5> QED
          BY <5>2 DEF Homes
      <4>2. FirstLink(i) \in p.wait
        BY <3>1, <3>3, <4>1 DEF Found
      <4>3. i = i0
        BY <2>2, <3>3, <4>2, LinkFacts DEF HInv
      <4> QED
        BY <2>6, <2>8, <4>1, <4>3
    <3>5. OnlyNew(inbox', Rep(p.q, p.id, FALSE))
      <4>1. PICK in : in = inbox'
        OBVIOUS
      <4>2. OnlyNew(in, Rep(p.q, p.id, FALSE))
        BY <3>1, <4>1, BoxFacts
      <4> QED
        BY <4>1, <4>2
    <3>6. \A q : Denial(Rep(p.q, p.id, FALSE), q) => q = m.q
      BY <3>3 DEF Denial, Rep
    <3> QED
      BY <2>11, <3>1, <3>2, <3>4, <3>5, <3>6
  <2> QED
    BY <1>4, <2>4, <2>6, <2>10, <2>12, <2>13
<1> QED
  BY <1>6, <1>7 DEF HInv, QInv

(* The broker reads a question.                                            *)
LEMMA BrokerReqHInv ==
  ASSUME HInv, NEW l \in Links, BrokerReq(l)
  PROVE  HInv'
<1>1. l \in ToSet(up) /\ wire[l] # << >> /\ SameInstances
  BY DEF BrokerReq
<1>2. PICK m \in Message : m = Head(wire[l])
  <2>1. wire[l] \in Seq(Message)
    BY DEF HInv, TInv
  <2> QED
    BY <1>1, <2>1, TailFacts
<1>3. PICK q0 \in Sends, id \in Ids : q0 = m.q /\ id = m.id
  BY MessageFacts
<1>4. PICK x \in Message : x = Req(q0, id) /\ x.type = "req" /\ x.q = q0 /\ x.id = id
  BY MessageFacts
<1>5. PICK ps, new : /\ new = [id |-> id, q |-> q0, wait |-> ToSet(up), asker |-> l]
                     /\ ps = {p \in pending : p.id # id} \cup {new} /\ ps = Queued(m, l)
  BY <1>3 DEF Queued, Audience
<1>6. /\ 1 \in DOMAIN wire[l] /\ wire[l][1] = m /\ m.type = "req"
      /\ Asked(l, 1, q0) /\ Uses(q0, id)
  <2>1. 1 \in DOMAIN wire[l] /\ wire[l][1] = m
    BY <1>1, <1>2, TailFacts DEF HInv, TInv
  <2>2. m.type = "req"
    BY <1>2 DEF BrokerReq
  <2> QED
    BY <1>3, <2>1, <2>2 DEF Asked, IsReq, Uses
\* The question goes to everybody, or an exception ends the attempt.
<1>7. \/ inbox' = BoxAll(inbox, ToSet(up), x) /\ pending' = ps /\ Read(l)
      \/ \E k \in DOMAIN up : MayRaise(up[k]) /\ Cleanup(l, ps, BoxAll(inbox, {up[j] : j \in 1 .. k - 1}, x))
  BY <1>2, <1>3, <1>4, <1>5 DEF BrokerReq, Audience
<1>8. new \in Query /\ new.q = q0 /\ new.id = id /\ new.wait = ToSet(up) /\ new.asker = l
  <2>1. ToSet(up) \subseteq Links
    BY DEF HInv, BInv, ToSet
  <2> QED
    BY <1>5, <2>1 DEF Query
<1>9. ProperQueries(ps)
  <2>1. IsFiniteSet(ps)
    <3> DEFINE others == {p \in pending : p.id # id}
    <3>1. others \subseteq pending /\ IsFiniteSet(pending)
      BY DEF HInv, BInv
    <3>2. ps = others \cup {new}
      BY <1>5
    <3> HIDE DEF others
    <3>3. IsFiniteSet(others) /\ IsFiniteSet({new})
      BY <3>1, FS_Subset, FS_Singleton
    <3> QED
      BY <3>2, <3>3, FS_Union
  <2>2. /\ \A s \in ps : s = new \/ (s \in pending /\ s.id # id)
        /\ pending \subseteq Query /\ \A s, r \in pending : s.id = r.id => s = r
        /\ \A s \in pending : Uses(s.q, s.id)
    BY <1>5, ProperPending DEF ProperQueries
  <2>3. \A s, r \in ps : s.id = r.id => s = r
    BY <1>8, <2>2
  <2>4. \A s \in ps : s \in Query /\ Uses(s.q, s.id)
    BY <1>6, <1>8, <2>2
  <2> QED
    BY <2>1, <2>3, <2>4 DEF ProperQueries
<1>10. ASSUME NEW ls, NEW in, in = BoxAll(inbox, ls, x)
       PROVE  /\ Grown(l, in) /\ OnlyNew(in, x)
              /\ \A i \in Instances : LinkOf(i) \in ls /\ Alive(LinkOf(i)) =>
                   \E k \in Nat : k \in DOMAIN in[i] /\ in[i][k] = x
  <2>1. PICK T : T = {i \in Instances : LinkOf(i) \in ls /\ Alive(LinkOf(i))}
    OBVIOUS
  <2>2. inbox \in [Instances -> Seq(Message)]
    BY DEF HInv, TInv
  <2>3. OneMore(in, x, T)
    <3>1. \A i \in Instances : in[i] = IF i \in T THEN Append(inbox[i], x) ELSE inbox[i]
      BY <1>10, <2>1 DEF BoxAll
    <3>2. ASSUME NEW i \in Instances PROVE in[i] \in Seq(Message)
      <4>1. inbox[i] \in Seq(Message)
        BY <2>2
      <4>2. Append(inbox[i], x) \in Seq(Message)
        BY <4>1, AppendFacts
      <4> QED
        BY <3>1, <4>1, <4>2
    <3>3. in = [i \in Instances |-> in[i]]
      BY <1>10 DEF BoxAll
    <3> QED
      BY <3>1, <3>2, <3>3 DEF OneMore
  <2>4. Uses(x.q, x.id) /\ Asked(l, 1, x.q)
    BY <1>4, <1>6
  <2>5. /\ Grown(l, in) /\ OnlyNew(in, x)
        /\ AllHave(in, x, T)
    BY <2>3, <2>4, GrownByOne
  <2> QED
    BY <2>1, <2>5 DEF AllHave
<1>11. BrokerKeeps(l)
  <2>1. CASE inbox' = BoxAll(inbox, ToSet(up), x) /\ pending' = ps /\ Read(l)
    <3>1. PICK in : in = inbox'
      OBVIOUS
    <3>2. Grown(l, in)
      BY <1>10, <2>1, <3>1
    <3> QED
      BY <1>1, <1>9, <2>1, <3>1, <3>2, ReadKeeps
  <2>2. ASSUME NEW k \in DOMAIN up, Cleanup(l, ps, BoxAll(inbox, {up[j] : j \in 1 .. k - 1}, x))
        PROVE  BrokerKeeps(l)
    <3>1. PICK ls : ls = {up[j] : j \in 1 .. k - 1}
      OBVIOUS
    <3>2. PICK in : in = BoxAll(inbox, ls, x)
      OBVIOUS
    <3>3. Grown(l, in) /\ Cleanup(l, ps, in)
      BY <1>10, <2>2, <3>1, <3>2
    <3> QED
      BY <1>1, <1>9, <3>3, CleanupKeeps
  <2> QED
    BY <1>7, <2>1, <2>2
<1>12. TInv' /\ BInv' /\ MInv' /\ UInv' /\ FInv'
  BY <1>1, <1>11, BrokerKeepsHInv
<1>13. ASSUME Quiet'
       PROVE  (AllUp /\ OneMessage /\ RepliedOnce /\ WaitsForOwing /\ AskersFound)'
  <2>1. Quiet
    BY <1>1, <1>13 DEF SameInstances, histVars, Quiet
  <2>2. PICK i0 \in Instances : l = FirstLink(i0)
    BY <1>1, <2>1, NothingRaises
  <2>3. /\ WaitsForOwing /\ AskersFound /\ OneMessage
        /\ \A i \in Instances : LinkOf(i) = FirstLink(i) /\ FirstLink(i) \in ToSet(up) /\ Alive(LinkOf(i))
        /\ ToSet(up) = Instances \X {1}
    <3>1. WaitsForOwing /\ AskersFound /\ OneMessage /\ AllUp
      BY <2>1 DEF HInv, QInv
    <3>2. \A i \in Instances : LinkOf(i) = FirstLink(i) /\ FirstLink(i) \in Instances \X {1}
      BY <3>1, LinkFacts DEF AllUp, HInv, FirstLink
    <3>3. \A k \in ToSet(up) : ~MayRaise(k)
      BY <1>1, <2>1, NothingRaises
    <3> QED
      BY <3>1, <3>2, <3>3 DEF AllUp, MayRaise
  <2>4. inbox' = BoxAll(inbox, ToSet(up), x) /\ pending' = ps /\ Read(l)
    <3>1. \A k \in DOMAIN up : up[k] \in ToSet(up)
      BY DEF ToSet, HInv, BInv
    <3>2. \A k \in DOMAIN up : ~MayRaise(up[k])
      BY <1>1, <2>1, <3>1, NothingRaises
    <3> QED
      BY <1>7, <3>2
  <2>5. /\ AllUp' /\ OneMessage' /\ RepliedOnce'
        /\ \A k \in Links : \A n, q : Asked(k, n, q)' => ~Asked(l, 1, q) /\ \E o \in Nat : Asked(k, o, q)
        /\ \A j \in Instances : \A q : Owes(j, q)' => Owes(j, q) \/ Asked(l, 1, q)
        /\ \A j \in Instances : \A q : Owes(j, q) => Owes(j, q)' \/ (j = i0 /\ Replied(i0, 1, q))
        /\ \A j \in Instances : \A k \in DOMAIN wire'[FirstLink(j)] :
             \E n \in DOMAIN wire[FirstLink(j)] : wire'[FirstLink(j)][k] = wire[FirstLink(j)][n]
    BY <1>1, <1>11, <2>1, <2>2, <2>4, ReadQuiet
  <2>6. /\ \A q : ~Replied(i0, 1, q)
        /\ \A q : Asked(l, 1, q) <=> q = q0
    BY <1>3, <1>6, <2>2 DEF Replied, Asked, IsReq
  <2>7. PICK in : in = inbox'
    OBVIOUS
  <2>8. /\ OnlyNew(inbox', x)
        /\ \A i \in Instances : \E k \in Nat : k \in DOMAIN inbox'[i] /\ inbox'[i][k] = x
    <3>1. in = BoxAll(inbox, ToSet(up), x)
      BY <2>4, <2>7
    <3>2. /\ OnlyNew(in, x)
          /\ \A i \in Instances : LinkOf(i) \in ToSet(up) /\ Alive(LinkOf(i)) =>
               \E k \in Nat : k \in DOMAIN in[i] /\ in[i][k] = x
      BY <1>10, <3>1
    <3> QED
      BY <2>3, <2>7, <3>2
  <2>9. \A j \in Instances : Owes(j, q0)'
    <3>1. \A j \in Instances : \E k \in Nat : Boxed(j, k, q0)'
      BY <1>4, <2>8 DEF Boxed, IsReq
    <3> QED
      BY <3>1 DEF Owes
  <2>10. \A p \in pending : p.q # q0
    BY <1>6, <2>3 DEF WaitsForOwing
  <2>11. \A p \in pending' : p = new \/ p \in pending
    BY <1>5, <2>4
  <2>12. WaitsForOwing'
    <3> SUFFICES ASSUME NEW p \in pending'
                 PROVE  /\ p.asker \in Instances \X {1} /\ p.wait # {} /\ p.wait \subseteq Instances \X {1}
                        /\ \A i \in Instances : FirstLink(i) \in p.wait <=> Owes(i, p.q)'
                        /\ \A k \in Links, n \in Nat : ~Asked(k, n, p.q)'
      BY DEF WaitsForOwing, FirstLink
    <3>1. CASE p = new
      BY <1>1, <1>8, <2>3, <2>5, <2>6, <2>9, <3>1
    <3>2. CASE p \in pending
      <4>1. p.q # q0
        BY <2>10, <3>2
      <4>2. \A j \in Instances : Owes(j, p.q)' <=> Owes(j, p.q)
        BY <2>5, <2>6, <4>1
      <4> QED
        BY <2>3, <2>5, <3>2, <4>2 DEF WaitsForOwing
    <3> QED
      BY <2>11, <3>1, <3>2
  <2>13. AskersFound'
    <3>1. \A j \in Instances : \A q : Found(j, q) => Found(j, q)'
      <4> SUFFICES ASSUME NEW j \in Instances, NEW q, Found(j, q) PROVE Found(j, q)'
        OBVIOUS
      <4>1. \A p \in pending' : p.q = q => FirstLink(j) \in p.wait
        BY <1>8, <2>3, <2>11 DEF Found
      <4>2. ~Denial(x, q)
        BY <1>4 DEF Denial
      <4> QED
        BY <1>1, <2>5, <2>8, <4>1, <4>2, StillFound
    <3>2. asking' = asking /\ wss' = wss
      BY <1>1 DEF SameInstances
    <3> QED
      BY <2>3, <3>1, <3>2 DEF AskersFound, Homes
  <2> QED
    BY <2>5, <2>12, <2>13
<1> QED
  BY <1>12, <1>13 DEF HInv, QInv

-----------------------------------------------------------------------------
(* The theorems.                                                           *)

(* The invariant is inductive.                                             *)
LEMMA NextHInv == HInv /\ [HubNext]_hubVars => HInv'
<1> SUFFICES ASSUME HInv, [HubNext]_hubVars PROVE HInv'
  OBVIOUS
<1>1. ASSUME NEW i \in Instances, NEW c \in Conns,
             \/ Register(i, c) \/ Disconnect(i, c)
             \/ AskUnlinked(i, c) \/ AskBrokenPipe(i, c)
             \/ \E id \in Ids, notify \in BOOLEAN : Ask(i, c, id, notify)
             \/ Poll(i, c) \/ TimeOut(i, c)
      PROVE  HInv'
  BY <1>1, RegisterHInv, DisconnectHInv, AskUnlinkedHInv, AskBrokenPipeHInv, AskHInv, ReturnHInv
<1>2. ASSUME NEW i \in Instances, WorkStep(i) \/ ReadReset(i) \/ Kill(i)
      PROVE  HInv'
  BY <1>2, DialHInv, TakeQueryHInv, DistributeHInv, DistributedHInv, TakeReplyHInv, ReadResetHInv, KillHInv
     DEF WorkStep
<1>3. ASSUME NEW l \in Links, BrokerStep(l)
      PROVE  HInv'
  BY <1>3, BrokerReqHInv, BrokerSuccessHInv, BrokerFailureHInv, BrokerEofHInv DEF BrokerStep
<1>4. CASE RestartBroker
  BY <1>4, RestartBrokerHInv
<1>5. CASE UNCHANGED hubVars
  <2>1. UNCHANGED <<linked, epoch, wss, work, inbox, answers, asking, up, open, wire, pending,
                    sent, left, delivered, reused, faults>>
    BY <1>5 DEF hubVars, instVars, brokerVars, histVars
  <2>2. TInv' /\ BInv' /\ MInv'
    <3>1. TInv'
      BY <2>1 DEF HInv, TInv
    <3>2. BInv'
      BY <2>1 DEF HInv, BInv
    <3>3. MInv'
      BY <2>1 DEF HInv, MInv, Members, Homes
    <3> QED
      BY <3>1, <3>2, <3>3
  <2>3. \A q \in Sends, id \in Ids : Uses(q, id)' <=> Uses(q, id)
    BY <2>1 DEF Uses, Busy
  <2>4. UInv' /\ FInv'
    BY <2>1, <2>3 DEF HInv, UInv, FInv, AskedOnce, BoxedOnce, InTurn, Asked, Boxed, Works, Busy, Ahead
  <2>5. QInv'
    <3> SUFFICES ASSUME Quiet' PROVE (AllUp /\ OneMessage /\ RepliedOnce /\ WaitsForOwing /\ AskersFound)'
      BY DEF QInv
    <3>1. AllUp /\ OneMessage /\ RepliedOnce /\ WaitsForOwing /\ AskersFound
      BY <2>1 DEF HInv, QInv, Quiet
    <3>2. AllUp' /\ OneMessage'
      BY <2>1, <2>3, <3>1 DEF AllUp, OneMessage
    <3>3. /\ RepliedOnce' /\ WaitsForOwing'
          /\ \A i \in Instances : \A q : Found(i, q) => Found(i, q)'
      BY <2>1, <3>1, SameMessages DEF Works, Busy
    <3>4. AskersFound'
      BY <2>1, <3>1, <3>3 DEF AskersFound, Homes
    <3> QED
      BY <3>2, <3>3, <3>4
  <2> QED
    BY <2>2, <2>4, <2>5 DEF HInv
<1> QED
  BY <1>1, <1>2, <1>3, <1>4, <1>5 DEF HubNext

(* And so it holds in every reachable state.                               *)
LEMMA AlwaysHInv == HubSpec => []HInv
  BY InitHInv, NextHInv, PTL DEF HubSpec

(* Whatever fails, the tables of the instances and of the broker stay what *)
(* backend_lib/websocket_manager.py and backend_zmq_server/src/app.py take *)
(* them for: no connection is registered twice, the links that have a      *)
(* handler are open and listed once, an id names one query and one answer. *)
THEOREM TablesStaySound == HubSpec => []HubTypeOK
<1>1. HInv => HubTypeOK
  <2> SUFFICES ASSUME HInv PROVE HubTypeOK
    OBVIOUS
  <2>1. /\ linked \in [Instances -> BOOLEAN] /\ epoch \in [Instances -> 0 .. MaxEpoch]
        /\ \A i \in Instances : \A a, b \in answers[i] : a.id = b.id => a = b
    BY HubAssumption DEF HInv, TInv
  <2>2. /\ \A i \in Instances : wss[i] \in Seq(Conns) /\ IsInjective(wss[i]) /\ inbox[i] \in Seq(Message)
        /\ \A l \in Links : wire[l] \in Seq(Message)
    BY DEF HInv, TInv
  <2>3. \A S, s : s \in Seq(S) => ToSet(s) \subseteq S
    BY DEF ToSet
  <2>4. /\ ToSet(up) \subseteq open /\ open \subseteq Links /\ IsInjective(up)
        /\ \A p, r \in pending : p.id = r.id => p = r
    BY DEF HInv, BInv
  <2> QED
    BY <2>1, <2>2, <2>3, <2>4 DEF HubTypeOK
<1> QED
  BY <1>1, AlwaysHInv, PTL

(* Whatever fails, work() never sends a message a second time on a         *)
(* connection, and it leaves out none that stays and whose own notify is   *)
(* not in flight, unless another one leaves the list it is going through.  *)
THEOREM NobodyTwiceNobodyMissed == HubSpec => []EveryoneOnce
<1>1. HInv => EveryoneOnce
  <2> SUFFICES ASSUME HInv, NEW i \in Instances, Busy(i)
               PROVE  IF work[i].k \in DOMAIN wss[i]
                      THEN <<work[i].q, wss[i][work[i].k]>> \notin delivered
                      ELSE work[i].shifted \/ \A c \in work[i].must : <<work[i].q, c>> \in delivered
    BY DEF EveryoneOnce
  <2>1. /\ \A c \in Conns : Ahead(i, c) => <<work[i].q, c>> \notin delivered
        /\ work[i].shifted \/ \A c \in work[i].must : <<work[i].q, c>> \in delivered \/ Ahead(i, c)
    BY DEF HInv, FInv, InTurn
  <2>2. work[i] \in Task /\ work[i].k \in Nat
    <3>1. work[i] \in Task
      BY WorkFacts DEF HInv
    <3> QED
      BY <3>1, HubAssumption DEF Task
  <2>3. /\ wss[i] \in Seq(Conns) /\ DOMAIN wss[i] = 1 .. Len(wss[i])
        /\ Len(wss[i]) \in Nat
    BY ListLength DEF HInv
  <2>4. CASE work[i].k \in DOMAIN wss[i]
    <3>1. wss[i][work[i].k] \in Conns /\ Ahead(i, wss[i][work[i].k])
      BY <2>2, <2>3, <2>4 DEF Ahead
    <3> QED
      BY <2>1, <2>4, <3>1
  <2>5. CASE work[i].k \notin DOMAIN wss[i]
    \* It starts at 1, so it is past the end.
    <3>1. \A c : ~Ahead(i, c)
      <4>1. work[i].k >= 1
        BY <2>2, HubAssumption DEF Task
      <4> QED
        BY <2>2, <2>3, <2>5, <4>1 DEF Ahead
    <3> QED
      BY <2>1, <2>5, <3>1
  <2> QED
    BY <2>4, <2>5
<1> QED
  BY <1>1, AlwaysHInv, PTL

(* As long as nothing fails and no id is drawn twice, handleDC never gives *)
(* up the link of an instance.                                             *)
THEOREM NoInstanceIsDropped == HubSpec => []LinksStayUp
<1>1. HInv => LinksStayUp
  <2> SUFFICES ASSUME HInv, Quiet, NEW i \in Instances PROVE LinkOf(i) \in ToSet(up)
    BY DEF LinksStayUp, Quiet
  <2> QED
    BY DEF HInv, QInv, AllUp, LinkOf
<1> QED
  BY <1>1, AlwaysHInv, PTL

(* As long as nothing fails and no id is drawn twice, a handler that waits *)
(* in send_zmq is never answered False.                                    *)
THEOREM NobodyIsDenied == HubSpec => []SenderIsFound
<1>1. HInv => SenderIsFound
  <2> SUFFICES ASSUME HInv, Quiet, NEW i \in Instances, NEW c \in Conns, NEW k \in DOMAIN inbox[i],
                      asking[c].at = "wait", inbox[i][k].type = "rep", inbox[i][k].q = asking[c].q
               PROVE  inbox[i][k].ok
    BY DEF SenderIsFound, Quiet
  <2>1. asking[c].q \in Sends
    BY WorkFacts DEF HInv, Wait
  <2>2. PICK j \in Instances : Found(j, asking[c].q)
    BY <2>1 DEF HInv, QInv, AskersFound, Homes
  <2> QED
    BY <2>2 DEF Found, Denial
<1> QED
  BY <1>1, AlwaysHInv, PTL

(* As long as nothing fails and no id is drawn twice, every question that  *)
(* handleDC keeps in pendingQueries waits for somebody, and everybody it   *)
(* waits for has it before him, distributes it, or has replied.            *)
THEOREM QuestionsAreOwed == HubSpec => []QueryOwed
<1>1. HInv => QueryOwed
  <2> SUFFICES ASSUME HInv, Quiet, NEW p \in pending
               PROVE  /\ p.wait # {}
                      /\ \A l \in p.wait :
                           \/ Req(p.q, p.id) \in ToSet(inbox[l[1]])
                           \/ Busy(l[1]) /\ work[l[1]].q = p.q
                           \/ \E ok \in BOOLEAN : Rep(p.q, p.id, ok) \in ToSet(wire[l])
    BY DEF QueryOwed, Quiet
  <2>1. p \in Query /\ p.q \in Sends /\ p.id \in Ids /\ Uses(p.q, p.id)
    <3>1. p \in Query
      BY DEF HInv, BInv
    <3> QED
      BY <3>1 DEF Query, Uses
  <2>2. /\ p.wait # {} /\ p.wait \subseteq Instances \X {1}
        /\ \A i \in Instances : FirstLink(i) \in p.wait <=> Owes(i, p.q)
    BY DEF HInv, QInv, WaitsForOwing
  <2>3. ASSUME NEW l \in p.wait
        PROVE  \/ Req(p.q, p.id) \in ToSet(inbox[l[1]])
               \/ Busy(l[1]) /\ work[l[1]].q = p.q
               \/ \E ok \in BOOLEAN : Rep(p.q, p.id, ok) \in ToSet(wire[l])
    <3>1. PICK i \in Instances : l = FirstLink(i) /\ l[1] = i
      BY <2>2 DEF FirstLink
    <3>2. Owes(i, p.q) /\ l \in Links
      BY <2>2, <3>1, LinkFacts DEF HInv
    \* What is about message q carries the id of the query.
    <3>3. \A jd \in Ids : Uses(p.q, jd) => jd = p.id
      BY <2>1 DEF HInv, UInv
    <3>4. ASSUME NEW k \in Nat, Boxed(i, k, p.q)
          PROVE  Req(p.q, p.id) \in ToSet(inbox[i])
      <4>1. k \in DOMAIN inbox[i] /\ inbox[i][k].type = "req" /\ inbox[i][k].q = p.q
        BY <3>4 DEF Boxed, IsReq
      <4>2. inbox[i][k] \in Message /\ inbox[i][k].id \in Ids
        BY <4>1, QueueFacts, MessageFacts DEF HInv
      <4>3. inbox[i][k].id = p.id
        BY <3>3, <4>1, <4>2 DEF Uses
      <4>4. inbox[i][k] = Req(p.q, p.id)
        BY <4>1, <4>2, <4>3, MessageFacts
      <4> QED
        BY <4>1, <4>4 DEF ToSet
    <3>5. ASSUME NEW k \in Nat, Replied(i, k, p.q)
          PROVE  \E ok \in BOOLEAN : Rep(p.q, p.id, ok) \in ToSet(wire[l])
      <4>1. k \in DOMAIN wire[l] /\ wire[l][k].type = "rep" /\ wire[l][k].q = p.q
        BY <3>1, <3>5 DEF Replied
      <4>2. wire[l][k] \in Message /\ wire[l][k].id \in Ids
        BY <3>2, <4>1, QueueFacts, MessageFacts DEF HInv
      <4>3. wire[l][k].id = p.id
        BY <3>2, <3>3, <4>1, <4>2 DEF Uses
      <4>4. wire[l][k].ok \in BOOLEAN /\ wire[l][k] = Rep(p.q, p.id, wire[l][k].ok)
        BY <4>1, <4>2, <4>3, MessageFacts
      <4> QED
        BY <4>1, <4>4 DEF ToSet
    <3> QED
      BY <3>1, <3>2, <3>4, <3>5 DEF Owes, Works
  <2> QED
    BY <2>2, <2>3
<1> QED
  BY <1>1, AlwaysHInv, PTL

=============================================================================
