------------------------- MODULE AddonManagerProofs -------------------------
(***************************************************************************)
(* Proofs about the addon manager, for any addons, numbers of interceptors *)
(* and lists, with any number of handlers that overtake each other, clones *)
(* that fail, processes that die and a module that is restarted.           *)
(*                                                                         *)
(* BInv holds whatever happens: what a handler of ADDONLIST starts is in   *)
(* nobody else's hands, what it closes is what it is about to delete.  As  *)
(* long as nothing overlapped, Undisturbed holds as well: what a handler   *)
(* read before its await is still so after it.                             *)
(***************************************************************************)
EXTENDS AddonManager, SequenceFacts

-----------------------------------------------------------------------------
(* The inductive invariant.  First the types: an entry has a place for     *)
(* each interceptor of its addon.                                          *)
States == {"none", "alive", "dead"}
Waits == {"activate", "install", "clone", "checkout"}
Task == [pc : Waits \cup {"idle", "deactivate", "start"}, olds : Seq(Addons),
         news : Seq(Addons), entry : Ids \cup {0}, i : Nat]
Entry == [addon : Addons, procs : Seq(States)]

Types ==
  /\ latest \in Lists
  /\ tasks \in [Tasks -> Task]
  /\ health \in [left : Seq(Ids), i : Nat]
  /\ active \in Seq(Ids)
  /\ entries \in [Ids -> Entry]
  /\ \A e \in Ids : Len(entries[e].procs) = NInterceptors[entries[e].addon]

(* The dictionary of active addons has one entry for a hash.               *)
OneEach(act) ==
  /\ IsInjective(act)
  /\ \A e, f \in Range(act) : entries[e].addon = entries[f].addon => e = f

(* What a handler that waits has found: the entry it is going to close is  *)
(* one of the hash it goes on to delete, whatever became active meanwhile. *)
Closing(t) ==
  tasks[t].pc = "deactivate" =>
    /\ tasks[t].olds # <<>> /\ tasks[t].entry \in Ids
    /\ entries[tasks[t].entry].addon = Head(tasks[t].olds)

Opening(t) ==
  tasks[t].pc \in Waits \cup {"start"} => tasks[t].news # <<>>

(* The entry it is starting is in nobody else's hands, and the processes   *)
(* before the one it waits for have been started.                          *)
Starting(t) ==
  tasks[t].pc = "start" =>
    LET e == tasks[t].entry IN
    /\ e \in Ids /\ e \notin Range(active) /\ e \notin Range(health.left)
    /\ \A u \in Tasks : u # t => tasks[u].entry # e
    /\ entries[e].addon = Head(tasks[t].news)
    /\ tasks[t].i \in 1..Len(entries[e].procs)
    /\ \A j \in 1..Len(entries[e].procs) :
         j < tasks[t].i => entries[e].procs[j] # "none"

BInv ==
  /\ Types /\ OneEach(active)
  /\ \A t \in Tasks : Closing(t) /\ Opening(t) /\ Starting(t)
  /\ ActiveIsComplete

(* As long as nothing overlapped, there is one handler: what it read of    *)
(* the active addons is still so, and what the health check is restarting  *)
(* is active.                                                              *)
Owned(e) == e \in Range(active) \/ \E t \in Tasks : tasks[t].pc = "start" /\ tasks[t].entry = e

OneHandler == \A t, u \in Tasks : tasks[t] # Idle /\ tasks[u] # Idle => t = u

StillSo(t) ==
  /\ tasks[t].pc = "deactivate" => tasks[t].entry \in Range(active)
  /\ tasks[t].pc \in Waits \cup {"start"} => Head(tasks[t].news) \notin AddonsOf(active)

Undisturbed ==
  /\ module = "up"
  /\ OneHandler
  /\ \A t \in Tasks : StillSo(t)
  /\ health # Asleep => health.left # <<>> /\ Head(health.left) \in Range(active)
  /\ \A e \in Ids : \A j \in 1..Len(entries[e].procs) :
       entries[e].procs[j] # "none" => Owned(e)

IInv == BInv /\ (~overlap => Undisturbed)

-----------------------------------------------------------------------------
(* The operators of the model.                                             *)

LEMMA MinIs ==
  ASSUME NEW T, T \subseteq Nat, T # {}
  PROVE  Min(T) \in T
<1>1. \E x \in T : \A y \in T : x <= y
  BY LeastElement
<1> QED
  BY <1>1 DEF Min

LEMMA RestFrom ==
  ASSUME NEW S, NEW s \in Seq(S), NEW k \in 1..Len(s)
  PROVE  /\ SubSeq(s, k, Len(s)) \in Seq(S) /\ SubSeq(s, k, Len(s)) # <<>>
         /\ Head(SubSeq(s, k, Len(s))) = s[k] /\ s[k] \in S /\ s[k] \in Range(s)
         /\ Range(SubSeq(s, k, Len(s))) \subseteq Range(s)
<1> DEFINE u == SubSeq(s, k, Len(s))
<1>1. Len(s) \in Nat /\ k \in Nat /\ k <= Len(s) /\ DOMAIN s = 1..Len(s)
  BY LenProperties
<1>2. u \in Seq(S) /\ Len(u) = (Len(s) - k) + 1 /\ \A i \in 1..Len(u) : u[i] = s[(k + i) - 1]
  BY <1>1
<1> HIDE DEF u
<1>3. Len(u) \in Nat /\ 1 \in 1..Len(u) /\ DOMAIN u = 1..Len(u)
  BY <1>1, <1>2
<1>4. u # <<>> /\ Head(u) = u[1] /\ u[1] = s[k]
  BY <1>1, <1>2, <1>3
<1>5. s[k] \in S /\ s[k] \in Range(s)
  BY <1>1, ElementOfSeq DEF Range
<1>6. \A i \in 1..Len(u) : (k + i) - 1 \in 1..Len(s)
  BY <1>1, <1>2
<1>7. Range(u) \subseteq Range(s)
  <2> SUFFICES ASSUME NEW i \in 1..Len(u) PROVE u[i] \in Range(s)
    BY <1>3 DEF Range
  <2>1. (k + i) - 1 \in DOMAIN s /\ u[i] = s[(k + i) - 1]
    BY <1>1, <1>2, <1>6
  <2> QED
    BY <2>1 DEF Range
<1> QED
  BY <1>2, <1>4, <1>5, <1>7 DEF u

(* The wait that a handler enters next.                                    *)
Activating(q, act) ==
  /\ q.pc = "activate" /\ q.entry = 0 /\ q.news # <<>> /\ Head(q.news) \notin AddonsOf(act)

Deactivating(q, act) ==
  /\ q.pc = "deactivate" /\ q.entry \in Range(act)
  /\ q.olds # <<>> /\ entries[q.entry].addon = Head(q.olds)

LEMMA IdleIsTask == Idle \in Task /\ Idle.pc = "idle" /\ Idle.entry = 0
  BY EmptySeq DEF Idle, Task

LEMMA ActivationsIs ==
  ASSUME NEW news \in Seq(Addons), NEW act
  PROVE  /\ Activations(news, act) \in Task
         /\ Activations(news, act) = Idle \/ Activating(Activations(news, act), act)
<1> DEFINE I == {i \in 1..Len(news) : news[i] \notin AddonsOf(act)}
           k == SelectInSeq(news, LAMBDA a : a \notin AddonsOf(act))
           q == [Idle EXCEPT !.pc = "activate", !.news = SubSeq(news, k, Len(news))]
<1>1. k = IF I # {} THEN Min(I) ELSE 0
  BY DEF SelectInSeq
<1>2. Activations(news, act) = IF k = 0 THEN Idle ELSE q
  BY DEF Activations
<1>3. I \subseteq Nat /\ 0 \notin I
  OBVIOUS
<1>4. CASE I = {}
  BY <1>1, <1>2, <1>4, IdleIsTask
<1>5. CASE I # {}
  <2>1. k \in I /\ k # 0
    <3> HIDE DEF I, k
    <3> QED
      BY <1>1, <1>3, <1>5, MinIs
  <2> HIDE DEF k
  <2>2. k \in 1..Len(news) /\ news[k] \notin AddonsOf(act)
    BY <2>1
  <2> DEFINE u == SubSeq(news, k, Len(news))
  <2>3. u \in Seq(Addons) /\ u # <<>> /\ Head(u) = news[k]
    BY <2>2, RestFrom
  <2> HIDE DEF u
  <2>4. q \in Task /\ q.pc = "activate" /\ q.news = u /\ q.entry = 0
    <3>1. q = [Idle EXCEPT !.pc = "activate", !.news = u]
      BY DEF u
    <3> HIDE DEF q
    <3>2. q \in Task
      BY <2>3, <3>1, IdleIsTask DEF Task, Waits
    <3> QED
      BY <2>3, <3>1, <3>2 DEF Idle
  <2>6. Activations(news, act) = q
    BY <1>2, <2>1
  <2> HIDE DEF q
  <2>7. Activating(q, act)
    BY <2>2, <2>3, <2>4 DEF Activating
  <2> QED
    BY <2>4, <2>6, <2>7
<1> QED
  BY <1>4, <1>5

LEMMA EntryOfIs ==
  ASSUME NEW act, NEW a \in AddonsOf(act)
  PROVE  EntryOf(act, a) \in Range(act) /\ entries[EntryOf(act, a)].addon = a
BY DEF EntryOf, AddonsOf

LEMMA DeactivationsIs ==
  ASSUME NEW olds \in Seq(Addons), NEW news \in Seq(Addons), NEW act \in Seq(Ids)
  PROVE  LET q == Deactivations(olds, news, act) IN
         /\ q \in Task
         /\ q = Idle \/ Activating(q, act) \/ Deactivating(q, act)
<1> DEFINE I == {i \in 1..Len(olds) : olds[i] \notin AddonsOf(act) \cap Range(news)}
           k == SelectInSeq(olds, LAMBDA a : a \notin AddonsOf(act) \cap Range(news))
           e == EntryOf(act, olds[k])
           q == [Idle EXCEPT !.pc = "deactivate", !.news = news,
                             !.olds = SubSeq(olds, k, Len(olds)), !.entry = e]
<1>1. k = IF I # {} THEN Min(I) ELSE 0
  BY DEF SelectInSeq
<1>2. Deactivations(olds, news, act) =
        IF k = 0 THEN Activations(news, act)
        ELSE IF olds[k] \notin AddonsOf(act) THEN Idle ELSE q
  BY DEF Deactivations
<1>3. I \subseteq Nat /\ 0 \notin I
  OBVIOUS
<1>4. CASE I = {}
  BY <1>1, <1>2, <1>4, ActivationsIs
<1>5. CASE I # {} /\ olds[k] \notin AddonsOf(act)
  <2>1. k # 0
    <3> HIDE DEF I, k
    <3> QED
      BY <1>1, <1>3, <1>5, MinIs
  <2> QED
    BY <1>2, <1>5, <2>1, IdleIsTask
<1>6. CASE I # {} /\ olds[k] \in AddonsOf(act)
  <2>1. k \in I /\ k # 0
    <3> HIDE DEF I, k
    <3> QED
      BY <1>1, <1>3, <1>6, MinIs
  <2>2. k \in 1..Len(olds)
    BY <2>1
  <2> HIDE DEF k, I
  <2> DEFINE u == SubSeq(olds, k, Len(olds))
  <2>3. u \in Seq(Addons) /\ u # <<>> /\ Head(u) = olds[k]
    BY <2>2, RestFrom
  <2> HIDE DEF u
  <2>4. e \in Range(act) /\ entries[e].addon = olds[k]
    BY <1>6, EntryOfIs
  <2>5. e \in Ids
    BY <2>4, ElementOfSeq DEF Range
  <2> HIDE DEF e
  <2>6. q = [Idle EXCEPT !.pc = "deactivate", !.news = news, !.olds = u, !.entry = e]
    BY DEF u
  <2> HIDE DEF q
  <2>7. q \in Task /\ q.pc = "deactivate" /\ q.olds = u /\ q.entry = e
    <3>1. u \in Seq(Addons) /\ news \in Seq(Addons) /\ e \in Ids
      BY <2>3, <2>5
    <3>2. q \in Task
      BY <2>6, <3>1, IdleIsTask DEF Task
    <3> QED
      BY <2>6, <3>1, <3>2 DEF Idle
  <2>8. Deactivating(q, act)
    BY <2>3, <2>4, <2>7 DEF Deactivating
  <2>9. Deactivations(olds, news, act) = q
    BY <1>2, <1>6, <2>1 DEF q, e, u
  <2> QED
    BY <2>7, <2>8, <2>9
<1> QED
  BY <1>4, <1>5, <1>6

LEMMA InsertIs ==
  ASSUME NEW act \in Seq(Ids), OneEach(act), NEW e \in Ids
  PROVE  /\ Insert(act, e) \in Seq(Ids) /\ OneEach(Insert(act, e))
         /\ e \in Range(Insert(act, e)) /\ Range(Insert(act, e)) \subseteq Range(act) \cup {e}
         /\ \A f \in Range(act) :
              entries[f].addon # entries[e].addon => f \in Range(Insert(act, e))
<1> DEFINE u == Insert(act, e)
           v == [k \in DOMAIN act |->
                   IF entries[act[k]].addon = entries[e].addon THEN e ELSE act[k]]
<1>1. Len(act) \in Nat /\ DOMAIN act = 1..Len(act) /\ \A k \in 1..Len(act) : act[k] \in Ids
  BY LenProperties, ElementOfSeq
<1>2. \A i, j \in DOMAIN act : entries[act[i]].addon = entries[act[j]].addon => i = j
  BY DEF OneEach, IsInjective, Range
<1>3. CASE entries[e].addon \in AddonsOf(act)
  <2>1. u = v
    BY <1>3 DEF Insert
  <2>2. v \in Seq(Ids) /\ DOMAIN v = DOMAIN act
    BY <1>1
  <2>3. PICK k \in DOMAIN act : entries[act[k]].addon = entries[e].addon
    BY <1>3 DEF AddonsOf, Range
  <2>4. v[k] = e /\ \A i \in DOMAIN act : i # k => v[i] = act[i] /\ entries[v[i]].addon # entries[e].addon
    BY <1>2, <2>3
  <2> HIDE DEF v
  <2>5. \A i, j \in DOMAIN v : entries[v[i]].addon = entries[v[j]].addon => i = j
    BY <1>2, <2>2, <2>4
  <2>6. OneEach(v)
    BY <2>5 DEF OneEach, IsInjective, Range
  <2>7. e \in Range(v) /\ Range(v) \subseteq Range(act) \cup {e}
    BY <2>2, <2>3, <2>4 DEF Range
  <2>8. ASSUME NEW f \in Range(act), entries[f].addon # entries[e].addon PROVE f \in Range(v)
    <3>1. PICK i \in DOMAIN act : f = act[i]
      BY DEF Range
    <3>2. v[i] = f
      BY <2>3, <2>4, <2>8, <3>1
    <3> QED
      BY <2>2, <3>2 DEF Range
  <2> QED
    BY <2>1, <2>2, <2>6, <2>7, <2>8
<1>4. CASE entries[e].addon \notin AddonsOf(act)
  <2> DEFINE w == Append(act, e)
  <2>1. u = w
    BY <1>4 DEF Insert
  <2>2. /\ w \in Seq(Ids) /\ DOMAIN w = 1..Len(act) + 1 /\ w[Len(act) + 1] = e
        /\ \A k \in 1..Len(act) : w[k] = act[k]
    BY <1>1, AppendFacts
  <2> HIDE DEF w
  <2>3. \A k \in DOMAIN w : k \in DOMAIN act \/ k = Len(act) + 1
    BY <1>1, <2>2
  <2>4. \A k \in DOMAIN act : k \in DOMAIN w /\ w[k] = act[k] /\ entries[w[k]].addon # entries[e].addon
    BY <1>1, <1>4, <2>2 DEF AddonsOf, Range
  <2>5. \A i, j \in DOMAIN w : entries[w[i]].addon = entries[w[j]].addon => i = j
    BY <1>2, <2>2, <2>3, <2>4
  <2>6. OneEach(w)
    BY <2>5 DEF OneEach, IsInjective, Range
  <2>7. Len(act) + 1 \in DOMAIN w
    BY <1>1, <2>2
  <2>8. e \in Range(w) /\ Range(w) \subseteq Range(act) \cup {e}
    BY <2>2, <2>3, <2>4, <2>7 DEF Range
  <2>9. Range(act) \subseteq Range(w)
    BY <2>4 DEF Range
  <2> QED
    BY <2>1, <2>2, <2>6, <2>8, <2>9
<1> QED
  BY <1>3, <1>4

LEMMA DeleteIs ==
  ASSUME NEW act \in Seq(Ids), OneEach(act), NEW a
  PROVE  /\ Delete(act, a) \in Seq(Ids) /\ OneEach(Delete(act, a))
         /\ Range(Delete(act, a)) = {e \in Range(act) : entries[e].addon # a}
<1>1. CASE a \in AddonsOf(act)
  <2> DEFINE e == EntryOf(act, a)
             u == RemoveFirst(act, e)
  <2>1. e \in Range(act) /\ entries[e].addon = a
    BY <1>1, EntryOfIs
  <2>2. u \in Seq(Ids) /\ IsInjective(u) /\ ToSet(u) = ToSet(act) \ {e}
    <3>1. IsInjective(act)
      BY DEF OneEach
    <3> HIDE DEF e
    <3> QED
      BY <3>1, RemoveFromInjective
  <2>3. Delete(act, a) = u
    BY <1>1 DEF Delete
  <2> HIDE DEF u, e
  <2>4. Range(u) = Range(act) \ {e}
    BY <2>2 DEF Range, ToSet
  <2>5. \A f \in Range(act) : entries[f].addon = a <=> f = e
    BY <2>1 DEF OneEach
  <2> QED
    BY <2>2, <2>3, <2>4, <2>5 DEF OneEach
<1>2. CASE a \notin AddonsOf(act)
  BY <1>2 DEF Delete, AddonsOf
<1> QED
  BY <1>1, <1>2

LEMMA FromTerminatedIs ==
  ASSUME NEW left \in Seq(Ids), NEW i \in Nat \ {0}, NEW ents,
         \A e \in Ids : ents[e].procs \in Seq(States)
  PROVE  LET h == FromTerminated(left, i, ents) IN
         /\ h \in [left : Seq(Ids), i : Nat] /\ Range(h.left) \subseteq Range(left)
         /\ h # Asleep => /\ h.left # <<>> /\ Head(h.left) \in Range(left)
                          /\ h.i \in 1..Len(ents[Head(h.left)].procs)
                          /\ ents[Head(h.left)].procs[h.i] = "dead"
<1> DEFINE R(k) == Terminated(left[k], IF k = 1 THEN i ELSE 1, ents)
           found == {k \in DOMAIN left : R(k) # {}}
           h == FromTerminated(left, i, ents)
<1>1. h = IF found = {} THEN Asleep
          ELSE [left |-> SubSeq(left, Min(found), Len(left)), i |-> Min(R(Min(found)))]
  BY DEF FromTerminated
<1>2. Len(left) \in Nat /\ DOMAIN left = 1..Len(left) /\ \A k \in 1..Len(left) : left[k] \in Ids
  BY LenProperties, ElementOfSeq
<1>3. CASE found = {}
  BY <1>1, <1>3, EmptySeq DEF Asleep, Range
<1>4. CASE found # {}
  <2> DEFINE k == Min(found)
  <2>1. k \in found
    <3>1. found \subseteq Nat
      BY <1>2
    <3> HIDE DEF found
    <3> QED
      BY <1>4, <3>1, MinIs
  <2> DEFINE e == left[k]
             j == Min(R(k))
             u == SubSeq(left, k, Len(left))
  <2>2. k \in 1..Len(left) /\ R(k) # {}
    BY <1>2, <2>1
  <2>3. h = [left |-> u, i |-> j]
    BY <1>1, <1>4
  <2> HIDE DEF k, found
  <2>4. e \in Ids
    BY <1>2, <2>2
  <2>5. R(k) \subseteq {n \in Nat : n \in 1..Len(ents[e].procs) /\ ents[e].procs[n] = "dead"}
    <3> HIDE DEF e
    <3>1. Len(ents[e].procs) \in Nat
      BY <2>4, LenProperties
    <3> QED
      BY <3>1 DEF Terminated, e
  <2>6. j \in R(k)
    <3> DEFINE T == R(k)
    <3>1. T \subseteq Nat /\ T # {}
      BY <2>2, <2>5
    <3> HIDE DEF T
    <3>2. Min(T) \in T
      BY <3>1, MinIs
    <3> QED
      BY <3>2 DEF T
  <2>7. j \in 1..Len(ents[e].procs) /\ ents[e].procs[j] = "dead" /\ j \in Nat
    BY <2>5, <2>6
  <2>8. /\ u \in Seq(Ids) /\ u # <<>> /\ Head(u) = e /\ e \in Range(left)
        /\ Range(u) \subseteq Range(left)
    BY <2>2, RestFrom
  <2> HIDE DEF u, j, e, h
  <2> QED
    BY <2>3, <2>7, <2>8 DEF h
<1> QED
  BY <1>3, <1>4

LEMMA NoEntryIs ==
  ASSUME NEW a \in Addons
  PROVE  /\ NoEntry(a) \in Entry /\ NoEntry(a).addon = a
         /\ Len(NoEntry(a).procs) \in Nat \ {0} /\ Len(NoEntry(a).procs) = NInterceptors[a]
         /\ \A i \in 1..Len(NoEntry(a).procs) : NoEntry(a).procs[i] = "none"
<1> DEFINE p == NoProcesses(a)
<1>1. NInterceptors[a] \in Nat \ {0}
  BY AddonManagerAssumption
<1>2. p \in Seq(States) /\ Len(p) = NInterceptors[a] /\ \A i \in 1..NInterceptors[a] : p[i] = "none"
  BY <1>1 DEF NoProcesses, States
<1> HIDE DEF p
<1>3. NoEntry(a) = [addon |-> a, procs |-> p]
  BY DEF NoEntry, p
<1> QED
  BY <1>1, <1>2, <1>3 DEF Entry

-----------------------------------------------------------------------------
(* The beginning.                                                          *)

LEMMA InitIInv == Init => IInv
<1> SUFFICES ASSUME Init PROVE IInv
  OBVIOUS
<1> DEFINE a0 == CHOOSE a \in Addons : TRUE
<1>1. /\ module = "up" /\ latest \in Lists /\ tasks = [t \in Tasks |-> Idle]
      /\ health = Asleep /\ active = <<>> /\ entries = [e \in Ids |-> NoEntry(a0)]
  BY DEF Init
<1>2. a0 \in Addons
  BY AddonManagerAssumption
<1> HIDE DEF a0
<1>3. NoEntry(a0) \in Entry /\ Len(NoEntry(a0).procs) = NInterceptors[NoEntry(a0).addon]
      /\ \A i \in 1..Len(NoEntry(a0).procs) : NoEntry(a0).procs[i] = "none"
  BY <1>2, NoEntryIs
<1>4. \A t \in Tasks : tasks[t] = Idle /\ tasks[t].pc = "idle"
  BY <1>1, IdleIsTask
<1>5. Types
  <2>1. Asleep \in [left : Seq(Ids), i : Nat]
    BY EmptySeq DEF Asleep
  <2> QED
    BY <1>1, <1>3, <2>1, IdleIsTask, EmptySeq DEF Types
<1>6. OneEach(active) /\ ActiveIsComplete
  BY <1>1 DEF OneEach, ActiveIsComplete, IsInjective, Range
<1>7. \A t \in Tasks : Closing(t) /\ Opening(t) /\ Starting(t)
  BY <1>4 DEF Closing, Opening, Starting, Waits
<1>8. Undisturbed
  <2>1. OneHandler /\ \A t \in Tasks : StillSo(t)
    BY <1>4 DEF OneHandler, StillSo, Waits
  <2>2. \A e \in Ids : \A j \in 1..Len(entries[e].procs) : entries[e].procs[j] = "none"
    BY <1>1, <1>3
  <2> QED
    BY <1>1, <2>1, <2>2 DEF Undisturbed
<1> QED
  BY <1>5, <1>6, <1>7, <1>8 DEF IInv, BInv

-----------------------------------------------------------------------------
(* A handler goes on, the entries stay as they are.                        *)

LEMMA MoveBInv ==
  ASSUME BInv, NEW t \in Tasks, NEW q \in Task, tasks' = [tasks EXCEPT ![t] = q],
         UNCHANGED <<latest, health, active, entries>>,
         q.pc # "start",
         q.entry = tasks[t].entry \/ q.entry = 0 \/ q.entry \in Range(active),
         q.pc = "deactivate" =>
           q.olds # <<>> /\ q.entry \in Ids /\ entries[q.entry].addon = Head(q.olds),
         q.pc \in Waits => q.news # <<>>
  PROVE  BInv'
<1>1. tasks \in [Tasks -> Task] /\ Types
  BY DEF BInv, Types
<1>2. tasks'[t] = q /\ \A u \in Tasks : u # t => tasks'[u] = tasks[u]
  BY <1>1
<1>3. Types'
  BY <1>1 DEF Types
<1>4. OneEach(active)' /\ ActiveIsComplete'
  BY DEF BInv, OneEach, ActiveIsComplete
<1>5. ASSUME NEW u \in Tasks PROVE Closing(u)' /\ Opening(u)'
  BY <1>2 DEF BInv, Closing, Opening
<1>6. ASSUME NEW u \in Tasks PROVE Starting(u)'
  <2>1. CASE u = t
    BY <1>2, <2>1 DEF Starting
  <2>2. CASE u # t /\ tasks[u].pc = "start"
    <3> DEFINE e == tasks[u].entry
    <3>1. /\ e \in Ids /\ e \notin Range(active) /\ e \notin Range(health.left)
          /\ \A x \in Tasks : x # u => tasks[x].entry # e
          /\ entries[e].addon = Head(tasks[u].news)
          /\ tasks[u].i \in 1..Len(entries[e].procs)
          /\ \A j \in 1..Len(entries[e].procs) : j < tasks[u].i => entries[e].procs[j] # "none"
      BY <2>2 DEF BInv, Starting
    <3>2. 0 \notin Ids
      BY DEF Ids
    <3>3. \A x \in Tasks : x # u => tasks'[x].entry # e
      BY <1>2, <2>2, <3>1, <3>2
    <3> QED
      BY <1>2, <2>2, <3>1, <3>3 DEF Starting
  <2>3. CASE u # t /\ tasks[u].pc # "start"
    BY <1>2, <2>3 DEF Starting
  <2> QED
    BY <2>1, <2>2, <2>3
<1> QED
  BY <1>3, <1>4, <1>5, <1>6 DEF BInv

LEMMA MoveUndisturbed ==
  ASSUME BInv, Undisturbed, NEW t \in Tasks, NEW q \in Task, tasks' = [tasks EXCEPT ![t] = q],
         UNCHANGED <<module, health, active, entries>>,
         tasks[t].pc # "start", q.pc # "start",
         tasks[t] # Idle \/ \A u \in Tasks : tasks[u] = Idle,
         q.pc = "deactivate" => q.entry \in Range(active),
         q.pc \in Waits => Head(q.news) \notin AddonsOf(active)
  PROVE  Undisturbed'
<1>1. tasks \in [Tasks -> Task]
  BY DEF BInv, Types
<1>2. tasks'[t] = q /\ \A u \in Tasks : u # t => tasks'[u] = tasks[u]
  BY <1>1
<1>3. OneHandler'
  BY <1>2 DEF Undisturbed, OneHandler
<1>4. AddonsOf(active)' = AddonsOf(active)
  BY DEF AddonsOf
<1>5. \A u \in Tasks : StillSo(u)'
  BY <1>2, <1>4 DEF Undisturbed, StillSo
<1>6. \A e \in Ids : Owned(e) => Owned(e)'
  BY <1>2 DEF Owned
<1> QED
  BY <1>3, <1>5, <1>6 DEF Undisturbed

-----------------------------------------------------------------------------
(* A handler takes a new entry.                                            *)

LEMMA OpenFacts ==
  ASSUME BInv, NEW t \in Tasks, tasks[t].pc \in Waits, NEW e \in FreeIds,
         tasks' = [tasks EXCEPT ![t].pc = "start", ![t].entry = e, ![t].i = 1]
  PROVE  /\ e \in Ids /\ e \notin Range(active) /\ e \notin Range(health.left)
         /\ \A u \in Tasks : tasks[u].entry # e
         /\ tasks[t].news # <<>> /\ Head(tasks[t].news) \in Addons
         /\ tasks' \in [Tasks -> Task]
         /\ tasks'[t].pc = "start" /\ tasks'[t].entry = e /\ tasks'[t].i = 1
         /\ tasks'[t].news = tasks[t].news
         /\ \A u \in Tasks : u # t => tasks'[u] = tasks[u]
<1>1. tasks \in [Tasks -> Task]
  BY DEF BInv, Types
<1>2. e \in Ids /\ e \notin Range(active) /\ e \notin Range(health.left)
      /\ \A u \in Tasks : tasks[u].entry # e
  BY DEF FreeIds, InUse
<1>3. tasks[t].news # <<>> /\ tasks[t].news \in Seq(Addons)
  BY <1>1 DEF BInv, Opening, Task
<1>4. Head(tasks[t].news) \in Addons
  BY <1>3, HeadTailProperties
<1>5. tasks' \in [Tasks -> Task]
  BY <1>1, <1>2 DEF Task
<1> QED
  BY <1>1, <1>2, <1>3, <1>4, <1>5 DEF Task

LEMMA OpenBInv ==
  ASSUME BInv, NEW t \in Tasks, tasks[t].pc \in Waits, NEW e \in FreeIds,
         tasks' = [tasks EXCEPT ![t].pc = "start", ![t].entry = e, ![t].i = 1],
         entries' = [entries EXCEPT ![e] = NoEntry(Head(tasks[t].news))],
         UNCHANGED <<latest, health, active>>
  PROVE  BInv'
<1> DEFINE a == Head(tasks[t].news)
<1>1. /\ e \in Ids /\ e \notin Range(active) /\ e \notin Range(health.left)
      /\ \A u \in Tasks : tasks[u].entry # e
      /\ tasks[t].news # <<>> /\ a \in Addons
      /\ tasks' \in [Tasks -> Task]
      /\ tasks'[t].pc = "start" /\ tasks'[t].entry = e /\ tasks'[t].i = 1
      /\ tasks'[t].news = tasks[t].news
      /\ \A u \in Tasks : u # t => tasks'[u] = tasks[u]
  BY OpenFacts
<1> HIDE DEF a
<1>2. /\ NoEntry(a) \in Entry /\ NoEntry(a).addon = a /\ Len(NoEntry(a).procs) \in Nat \ {0}
      /\ Len(NoEntry(a).procs) = NInterceptors[NoEntry(a).addon]
  BY <1>1, NoEntryIs
<1>3. entries \in [Ids -> Entry] /\ entries' = [entries EXCEPT ![e] = NoEntry(a)] /\ Types
  BY DEF BInv, Types, a
<1>4. entries' \in [Ids -> Entry] /\ entries'[e] = NoEntry(a)
      /\ \A f \in Ids : f # e => entries'[f] = entries[f]
  BY <1>1, <1>2, <1>3
<1>5. Types'
  BY <1>1, <1>2, <1>3, <1>4 DEF Types
<1>6. \A f \in Range(active) : f \in Ids /\ entries'[f] = entries[f]
  <2>1. \A f \in Range(active) : f \in Ids
    BY <1>3, ElementOfSeq DEF Types, Range
  <2> QED
    BY <1>1, <1>4, <2>1
<1>7. OneEach(active)' /\ ActiveIsComplete'
  BY <1>6 DEF BInv, OneEach, ActiveIsComplete
<1>8. ASSUME NEW u \in Tasks PROVE Closing(u)' /\ Opening(u)'
  <2>1. CASE u = t
    BY <1>1, <2>1 DEF Closing, Opening
  <2>2. CASE u # t
    BY <1>1, <1>4, <2>2 DEF BInv, Closing, Opening
  <2> QED
    BY <2>1, <2>2
<1>9. ASSUME NEW u \in Tasks PROVE Starting(u)'
  <2>1. CASE u = t
    <3>1. \A x \in Tasks : x # u => tasks'[x].entry # e
      BY <1>1, <2>1
    <3>2. 1 \in 1..Len(NoEntry(a).procs) /\ \A j \in 1..Len(NoEntry(a).procs) : ~(j < 1)
      BY <1>2
    <3>3. Head(tasks'[t].news) = a
      BY <1>1 DEF a
    <3> QED
      BY <1>1, <1>2, <1>4, <2>1, <3>1, <3>2, <3>3, SMTT(40) DEF Starting
  <2>2. CASE u # t /\ tasks[u].pc = "start"
    <3> DEFINE f == tasks[u].entry
    <3>1. /\ f \in Ids /\ f \notin Range(active) /\ f \notin Range(health.left)
          /\ \A x \in Tasks : x # u => tasks[x].entry # f
          /\ entries[f].addon = Head(tasks[u].news)
          /\ tasks[u].i \in 1..Len(entries[f].procs)
          /\ \A j \in 1..Len(entries[f].procs) : j < tasks[u].i => entries[f].procs[j] # "none"
      BY <2>2 DEF BInv, Starting
    <3>2. f # e
      BY <1>1
    <3>3. tasks'[u] = tasks[u] /\ entries'[f] = entries[f]
          /\ \A x \in Tasks : x # u => tasks'[x].entry # f
      BY <1>1, <1>4, <2>2, <3>1, <3>2
    <3> QED
      BY <2>2, <3>1, <3>3 DEF Starting
  <2>3. CASE u # t /\ tasks[u].pc # "start"
    BY <1>1, <2>3 DEF Starting
  <2> QED
    BY <2>1, <2>2, <2>3
<1> QED
  BY <1>5, <1>7, <1>8, <1>9 DEF BInv

LEMMA OpenUndisturbed ==
  ASSUME BInv, Undisturbed, NEW t \in Tasks, tasks[t].pc \in Waits, NEW e \in FreeIds,
         tasks' = [tasks EXCEPT ![t].pc = "start", ![t].entry = e, ![t].i = 1],
         entries' = [entries EXCEPT ![e] = NoEntry(Head(tasks[t].news))],
         UNCHANGED <<module, health, active>>
  PROVE  Undisturbed'
<1> DEFINE a == Head(tasks[t].news)
<1>1. /\ e \in Ids /\ e \notin Range(active) /\ a \in Addons
      /\ tasks'[t].pc = "start" /\ tasks'[t].entry = e /\ tasks'[t].news = tasks[t].news
      /\ \A u \in Tasks : u # t => tasks'[u] = tasks[u]
  BY OpenFacts
<1>2. tasks[t] # Idle
  BY IdleIsTask DEF Waits
<1>3. OneHandler'
  BY <1>1, <1>2 DEF Undisturbed, OneHandler
<1> HIDE DEF a
<1>4. \A i \in 1..Len(NoEntry(a).procs) : NoEntry(a).procs[i] = "none"
  BY <1>1, NoEntryIs
<1>5. entries'[e] = NoEntry(a) /\ \A f \in Ids : f # e => entries'[f] = entries[f]
  <2>1. entries \in [Ids -> Entry] /\ entries' = [entries EXCEPT ![e] = NoEntry(a)]
    BY DEF BInv, Types, a
  <2> QED
    BY <1>1, <2>1
<1>6. \A f \in Range(active) : f \in Ids /\ f # e
  BY <1>1, ElementOfSeq DEF BInv, Types, Range
<1>7. AddonsOf(active)' = AddonsOf(active)
  BY <1>5, <1>6 DEF AddonsOf
<1>8. ASSUME NEW u \in Tasks PROVE StillSo(u)'
  <2>1. CASE u = t
    BY <1>1, <1>7, <2>1 DEF Undisturbed, StillSo
  <2>2. CASE u # t
    BY <1>1, <1>7, <2>2 DEF Undisturbed, StillSo
  <2> QED
    BY <2>1, <2>2
<1>9. ASSUME NEW f \in Ids, NEW j \in 1..Len(entries'[f].procs), entries'[f].procs[j] # "none"
      PROVE  Owned(f)'
  <2>1. f # e
    BY <1>4, <1>5, <1>9
  <2>2. Owned(f)
    BY <1>5, <1>9, <2>1 DEF Undisturbed
  <2>3. tasks[t].pc # "start"
    BY DEF Waits
  <2> QED
    BY <1>1, <2>2, <2>3 DEF Owned
<1> QED
  BY <1>3, <1>8, <1>9 DEF Undisturbed

-----------------------------------------------------------------------------
(* The steps of a handler that change no entry in use.                     *)

LEMMA KeysAreAddons == ASSUME BInv PROVE Keys(active) \in Seq(Addons)
<1>1. active \in Seq(Ids) /\ entries \in [Ids -> Entry]
  BY DEF BInv, Types
<1>2. Len(active) \in Nat /\ DOMAIN active = 1..Len(active) /\ \A k \in 1..Len(active) : active[k] \in Ids
  BY <1>1, LenProperties, ElementOfSeq
<1>3. \A k \in 1..Len(active) : entries[active[k]].addon \in Addons
  BY <1>1, <1>2 DEF Entry
<1> QED
  BY <1>2, <1>3 DEF Keys

LEMMA OnAddonlistIInv == ASSUME IInv, NEW t \in Tasks, OnAddonlist(t) PROVE IInv'
<1> DEFINE q == Deactivations(Keys(active), latest, active)
<1>1. /\ tasks[t] = Idle /\ tasks' = [tasks EXCEPT ![t] = q]
      /\ overlap' = (overlap \/ \E u \in Tasks : tasks[u] # Idle)
      /\ UNCHANGED <<module, latest, health, active, entries>>
  BY DEF OnAddonlist
<1>2. BInv /\ active \in Seq(Ids) /\ latest \in Seq(Addons)
  BY AddonManagerAssumption DEF IInv, BInv, Types
<1>3. q \in Task /\ (q = Idle \/ Activating(q, active) \/ Deactivating(q, active))
  BY <1>2, KeysAreAddons, DeactivationsIs
<1> HIDE DEF q
<1>4. /\ q.pc # "start"
      /\ q.entry = 0 \/ q.entry \in Range(active)
      /\ q.pc = "deactivate" =>
           /\ q.olds # <<>> /\ q.entry \in Range(active)
           /\ entries[q.entry].addon = Head(q.olds)
      /\ q.pc \in Waits => q.news # <<>> /\ Head(q.news) \notin AddonsOf(active)
  BY <1>3, IdleIsTask DEF Activating, Deactivating, Waits
<1>5. \A e \in Range(active) : e \in Ids
  BY <1>2, ElementOfSeq DEF Range
<1>6. BInv'
  BY <1>1, <1>2, <1>3, <1>4, <1>5, MoveBInv
<1>7. ASSUME ~overlap' PROVE Undisturbed'
  <2>1. Undisturbed /\ \A u \in Tasks : tasks[u] = Idle
    BY <1>1, <1>7 DEF IInv
  <2>2. tasks[t].pc # "start"
    BY <1>1, IdleIsTask
  <2> QED
    BY <1>1, <1>2, <1>3, <1>4, <2>1, <2>2, MoveUndisturbed
<1> QED
  BY <1>6, <1>7 DEF IInv

(* A handler that waits to activate an addon goes on to another wait, or   *)
(* dies.                                                                   *)
LEMMA AdvanceIInv ==
  ASSUME IInv, NEW t \in Tasks, tasks[t].pc \in Waits, NEW q,
         q = Idle \/ \E pc \in Waits : q = [tasks[t] EXCEPT !.pc = pc],
         tasks' = [tasks EXCEPT ![t] = q],
         UNCHANGED <<module, latest, health, active, entries, overlap>>
  PROVE  IInv'
<1>1. BInv /\ tasks[t] \in Task /\ tasks[t].news # <<>>
  BY DEF IInv, BInv, Types, Opening
<1>2. q \in Task /\ q.pc \in Waits \cup {"idle"} /\ (q.entry = 0 \/ q.entry = tasks[t].entry)
      /\ (q.pc \in Waits => q.news = tasks[t].news)
  <2>1. CASE q = Idle
    BY <2>1, IdleIsTask DEF Waits
  <2>2. CASE \E pc \in Waits : q = [tasks[t] EXCEPT !.pc = pc]
    <3> PICK pc \in Waits : q = [tasks[t] EXCEPT !.pc = pc]
      BY <2>2
    <3>1. q \in Task
      BY <1>1 DEF Task
    <3>2. q.pc = pc /\ q.entry = tasks[t].entry /\ q.news = tasks[t].news
      BY <1>1 DEF Task
    <3> QED
      BY <3>1, <3>2
  <2> QED
    BY <2>1, <2>2
<1>3. q.pc # "start" /\ q.pc # "deactivate" /\ tasks[t].pc # "start"
  BY <1>2 DEF Waits
<1>4. BInv'
  BY <1>1, <1>2, <1>3, MoveBInv
<1>5. ASSUME ~overlap' PROVE Undisturbed'
  <2>1. Undisturbed
    BY <1>5 DEF IInv
  <2>2. tasks[t] # Idle
    BY IdleIsTask DEF Waits
  <2>3. Head(tasks[t].news) \notin AddonsOf(active)
    BY <2>1 DEF Undisturbed, StillSo
  <2> QED
    BY <1>1, <1>2, <1>3, <2>1, <2>2, <2>3, MoveUndisturbed
<1> QED
  BY <1>4, <1>5 DEF IInv

LEMMA StartEntryIInv ==
  ASSUME IInv, NEW t \in Tasks, tasks[t].pc \in Waits, StartEntry(t),
         UNCHANGED <<module, latest, health, active, overlap>>
  PROVE  IInv'
<1> DEFINE a == Head(tasks[t].news)
<1>1. CASE dir[a] = "ready"
  <2> DEFINE e == CHOOSE x \in FreeIds : \A y \in FreeIds : x <= y
  <2>1. /\ FreeIds # {} /\ entries' = [entries EXCEPT ![e] = NoEntry(a)]
        /\ tasks' = [tasks EXCEPT ![t].pc = "start", ![t].entry = e, ![t].i = 1]
    BY <1>1 DEF StartEntry
  <2>2. e \in FreeIds
    <3>1. FreeIds \subseteq Nat
      BY DEF FreeIds, Ids
    <3>2. \E x \in FreeIds : \A y \in FreeIds : x <= y
      BY <2>1, <3>1, LeastElement
    <3> QED
      BY <3>2
  <2> HIDE DEF e
  <2>3. BInv'
    BY <2>1, <2>2, OpenBInv DEF IInv
  <2>4. ASSUME ~overlap' PROVE Undisturbed'
    <3>1. BInv /\ Undisturbed
      BY <2>4 DEF IInv
    <3> QED
      BY <2>1, <2>2, <3>1, OpenUndisturbed
  <2> QED
    BY <2>3, <2>4 DEF IInv
<1>2. CASE dir[a] # "ready"
  <2>1. tasks' = [tasks EXCEPT ![t] = Idle] /\ UNCHANGED entries
    BY <1>2 DEF StartEntry
  <2> QED
    BY <2>1, AdvanceIInv
<1> QED
  BY <1>1, <1>2

LEMMA ActivateIInv == ASSUME IInv, NEW t \in Tasks, Activate(t) PROVE IInv'
<1>1. tasks[t].pc \in Waits /\ UNCHANGED <<module, latest, health, active, overlap>>
  BY DEF Activate, Waits
<1>2. CASE dir[Head(tasks[t].news)] # "none"
  BY <1>1, <1>2, StartEntryIInv DEF Activate
<1>3. CASE dir[Head(tasks[t].news)] = "none"
  <2> DEFINE q == [tasks[t] EXCEPT !.pc = "install"]
  <2>1. tasks' = [tasks EXCEPT ![t] = q] /\ UNCHANGED entries
    BY <1>3 DEF Activate
  <2>2. \E pc \in Waits : q = [tasks[t] EXCEPT !.pc = pc]
    BY DEF Waits
  <2> HIDE DEF q
  <2> QED
    BY <1>1, <2>1, <2>2, AdvanceIInv
<1> QED
  BY <1>2, <1>3

LEMMA CloneIInv ==
  ASSUME IInv, NEW t \in Tasks, CloneBegin(t) \/ CloneEnd(t) \/ CloneFail(t)
  PROVE  IInv'
<1>1. /\ tasks[t].pc \in Waits /\ UNCHANGED <<module, latest, health, active, entries, overlap>>
      /\ \/ tasks' = [tasks EXCEPT ![t].pc = "clone"]
         \/ tasks' = [tasks EXCEPT ![t].pc = "checkout"]
  BY DEF CloneBegin, CloneEnd, CloneFail, Waits
<1>2. PICK pc \in Waits : tasks' = [tasks EXCEPT ![t].pc = pc]
  BY <1>1 DEF Waits
<1> DEFINE q == [tasks[t] EXCEPT !.pc = pc]
<1>3. tasks' = [tasks EXCEPT ![t] = q] /\ \E x \in Waits : q = [tasks[t] EXCEPT !.pc = x]
  BY <1>2
<1> HIDE DEF q
<1> QED
  BY <1>1, <1>3, AdvanceIInv

LEMMA CheckoutIInv == ASSUME IInv, NEW t \in Tasks, Checkout(t) PROVE IInv'
<1>1. tasks[t].pc \in Waits /\ StartEntry(t) /\ UNCHANGED <<module, latest, health, active, overlap>>
  BY DEF Checkout, Waits
<1> QED
  BY <1>1, StartEntryIInv

-----------------------------------------------------------------------------
(* A handler closes an entry.                                              *)

LEMMA RangeOfIds == ASSUME NEW act \in Seq(Ids) PROVE Range(act) \subseteq Ids
  BY ElementOfSeq DEF Range

LEMMA DeactivateFacts ==
  ASSUME BInv, NEW t \in Tasks, Deactivate(t)
  PROVE  LET a == Head(tasks[t].olds)
             e == tasks[t].entry
             q == tasks'[t]
         IN
         /\ tasks[t].pc = "deactivate" /\ e \in Ids /\ a \in Addons /\ entries[e].addon = a
         /\ entries' \in [Ids -> Entry] /\ entries'[e] = NoEntry(a)
         /\ \A f \in Ids : f # e => entries'[f] = entries[f]
         /\ \A f \in Ids : entries'[f].addon = entries[f].addon
         /\ active' \in Seq(Ids) /\ OneEach(active')
         /\ Range(active') = {f \in Range(active) : entries[f].addon # a}
         /\ Range(active) \subseteq Ids /\ Range(active') \subseteq Ids
         /\ tasks' \in [Tasks -> Task]
         /\ \A u \in Tasks : u # t => tasks'[u] = tasks[u]
         /\ q = Idle \/ Activating(q, active') \/ Deactivating(q, active')
         /\ UNCHANGED <<module, latest, health>>
         /\ overlap' = (overlap \/ (health # Asleep /\ Head(health.left) = e))
<1> DEFINE a == Head(tasks[t].olds)
           e == tasks[t].entry
           act == active'
           q == IF a \in AddonsOf(active)
                THEN Deactivations(Tail(tasks[t].olds), tasks[t].news, act) ELSE Idle
<1>1. /\ tasks[t].pc = "deactivate"
      /\ entries' = [entries EXCEPT ![e] = NoEntry(a)]
      /\ active' = Delete(active, a)
      /\ tasks' = [tasks EXCEPT ![t] = q]
      /\ UNCHANGED <<module, latest, health>>
      /\ overlap' = (overlap \/ (health # Asleep /\ Head(health.left) = e))
  BY DEF Deactivate
<1>2. /\ tasks \in [Tasks -> Task] /\ entries \in [Ids -> Entry] /\ active \in Seq(Ids)
      /\ OneEach(active)
  BY DEF BInv, Types
<1>3. e \in Ids /\ tasks[t].olds # <<>> /\ entries[e].addon = a
  BY <1>1 DEF BInv, Closing
<1>4. tasks[t].olds \in Seq(Addons) /\ tasks[t].news \in Seq(Addons)
  BY <1>2 DEF Task
<1>5. a \in Addons /\ Tail(tasks[t].olds) \in Seq(Addons)
  BY <1>3, <1>4, HeadTailProperties
<1>6. act \in Seq(Ids) /\ OneEach(act) /\ Range(act) = {f \in Range(active) : entries[f].addon # a}
  BY <1>1, <1>2, DeleteIs
<1>7. q \in Task /\ (q = Idle \/ Activating(q, act) \/ Deactivating(q, act))
  <2>1. CASE a \in AddonsOf(active)
    <3> DEFINE o == Tail(tasks[t].olds)
               n == tasks[t].news
    <3>1. o \in Seq(Addons) /\ n \in Seq(Addons) /\ q = Deactivations(o, n, act)
      BY <1>4, <1>5, <2>1
    <3> HIDE DEF o, n, q, act
    <3> QED
      BY <1>6, <3>1, DeactivationsIs
  <2>2. CASE a \notin AddonsOf(active)
    BY <2>2, IdleIsTask
  <2> QED
    BY <2>1, <2>2
<1> HIDE DEF q
<1>8. tasks' \in [Tasks -> Task] /\ tasks'[t] = q /\ \A u \in Tasks : u # t => tasks'[u] = tasks[u]
  BY <1>1, <1>2, <1>7
<1>9. NoEntry(a) \in Entry /\ NoEntry(a).addon = a
  BY <1>5, NoEntryIs
<1> HIDE DEF a, e, act
<1>10. /\ entries' \in [Ids -> Entry] /\ entries'[e] = NoEntry(a)
       /\ \A f \in Ids : f # e => entries'[f] = entries[f]
       /\ \A f \in Ids : entries'[f].addon = entries[f].addon
  BY <1>1, <1>2, <1>3, <1>9
<1>11. Range(active) \subseteq Ids /\ Range(act) \subseteq Ids
  BY <1>2, <1>6, RangeOfIds
<1> QED
  BY <1>1, <1>3, <1>5, <1>6, <1>7, <1>8, <1>10, <1>11 DEF a, e, act

(* What a handler starts stays in its hands while another one closes or    *)
(* finishes an entry.                                                      *)
LEMMA StartingStays ==
  ASSUME BInv, NEW u \in Tasks, NEW t \in Tasks, u # t, NEW e, e = tasks[t].entry,
         tasks'[u] = tasks[u], \A x \in Tasks : x # t => tasks'[x] = tasks[x],
         tasks'[t].entry = 0 \/ tasks'[t].entry = e \/ tasks'[t].entry \in Range(active),
         \A f \in Ids : f # e => entries'[f] = entries[f],
         Range(active') \subseteq Range(active) \cup {e}, health' = health
  PROVE  Starting(u)'
<1>1. CASE tasks[u].pc = "start"
  <2> DEFINE f == tasks[u].entry
  <2>1. /\ f \in Ids /\ f \notin Range(active) /\ f \notin Range(health.left)
        /\ \A x \in Tasks : x # u => tasks[x].entry # f
        /\ entries[f].addon = Head(tasks[u].news)
        /\ tasks[u].i \in 1..Len(entries[f].procs)
        /\ \A j \in 1..Len(entries[f].procs) : j < tasks[u].i => entries[f].procs[j] # "none"
    BY <1>1 DEF BInv, Starting
  <2>2. f # e /\ f # 0
    BY <2>1 DEF Ids
  <2>3. entries'[f] = entries[f] /\ f \notin Range(active')
        /\ \A x \in Tasks : x # u => tasks'[x].entry # f
    BY <2>1, <2>2
  <2> QED
    BY <1>1, <2>1, <2>3 DEF Starting
<1>2. CASE tasks[u].pc # "start"
  BY <1>2 DEF Starting
<1> QED
  BY <1>1, <1>2

LEMMA DeactivateIInv == ASSUME IInv, NEW t \in Tasks, Deactivate(t) PROVE IInv'
<1> DEFINE a == Head(tasks[t].olds)
           e == tasks[t].entry
           q == tasks'[t]
<1>0. BInv
  BY DEF IInv
<1>1. /\ tasks[t].pc = "deactivate" /\ e \in Ids /\ a \in Addons /\ entries[e].addon = a
      /\ entries' \in [Ids -> Entry] /\ entries'[e] = NoEntry(a)
      /\ \A f \in Ids : f # e => entries'[f] = entries[f]
      /\ \A f \in Ids : entries'[f].addon = entries[f].addon
      /\ active' \in Seq(Ids) /\ OneEach(active')
      /\ Range(active') = {f \in Range(active) : entries[f].addon # a}
      /\ Range(active) \subseteq Ids /\ Range(active') \subseteq Ids
      /\ tasks' \in [Tasks -> Task]
      /\ \A u \in Tasks : u # t => tasks'[u] = tasks[u]
      /\ q = Idle \/ Activating(q, active') \/ Deactivating(q, active')
      /\ UNCHANGED <<module, latest, health>>
      /\ overlap' = (overlap \/ (health # Asleep /\ Head(health.left) = e))
  BY <1>0, DeactivateFacts
<1> HIDE DEF a, q
<1>2. Types'
  <2>1. Len(entries'[e].procs) = NInterceptors[entries'[e].addon]
    BY <1>1, NoEntryIs
  <2> QED
    BY <1>0, <1>1, <2>1 DEF BInv, Types
<1>3. OneEach(active)'
  BY <1>1 DEF OneEach
<1>4. ActiveIsComplete'
  <2>1. \A f \in Range(active') : f \in Range(active) /\ f # e /\ f \in Ids
    BY <1>1
  <2> QED
    BY <1>0, <1>1, <2>1 DEF BInv, ActiveIsComplete
<1>5. /\ q.pc # "start"
      /\ q.entry = 0 \/ q.entry \in Range(active')
      /\ q.pc = "deactivate" =>
           /\ q.olds # <<>> /\ q.entry \in Range(active')
           /\ entries[q.entry].addon = Head(q.olds)
      /\ q.pc \in Waits => q.news # <<>> /\ Head(q.news) \notin AddonsOf(active')
  BY <1>1, IdleIsTask DEF Activating, Deactivating, Waits
<1>6. ASSUME NEW u \in Tasks PROVE Closing(u)' /\ Opening(u)' /\ Starting(u)'
  <2>1. CASE u = t
    BY <1>1, <1>5, <2>1 DEF Closing, Opening, Starting, q
  <2>2. CASE u # t
    <3>1. Closing(u)' /\ Opening(u)'
      BY <1>0, <1>1, <2>2 DEF BInv, Closing, Opening
    <3>2. tasks'[t].entry = 0 \/ tasks'[t].entry \in Range(active)
      BY <1>1, <1>5 DEF q
    <3>3. /\ Range(active') \subseteq Range(active) \cup {e} /\ health' = health
          /\ tasks'[u] = tasks[u] /\ \A x \in Tasks : x # t => tasks'[x] = tasks[x]
          /\ \A f \in Ids : f # e => entries'[f] = entries[f]
      BY <1>1, <2>2
    <3>4. Starting(u)'
      BY ZenonT(60), <1>0, <2>2, <3>2, <3>3, StartingStays
    <3> QED
      BY <3>1, <3>4
  <2> QED
    BY <2>1, <2>2
<1>7. BInv'
  BY <1>2, <1>3, <1>4, <1>6 DEF BInv
<1>8. ASSUME ~overlap' PROVE Undisturbed'
  <2>1. Undisturbed /\ ~(health # Asleep /\ Head(health.left) = e)
    BY <1>1, <1>8 DEF IInv
  <2>2. \A u \in Tasks : u # t => tasks[u] = Idle
    BY <1>1, <2>1, IdleIsTask DEF Undisturbed, OneHandler
  <2>3. OneHandler'
    BY <1>1, <2>2 DEF OneHandler
  <2>4. AddonsOf(active)' = AddonsOf(active')
    BY <1>1 DEF AddonsOf
  <2>5. ASSUME NEW u \in Tasks PROVE StillSo(u)'
    <3>1. CASE u = t
      BY <1>1, <1>5, <2>4, <3>1 DEF StillSo, q
    <3>2. CASE u # t
      BY <1>1, <2>2, <3>2, IdleIsTask DEF StillSo, Waits
    <3> QED
      BY <3>1, <3>2
  <2>6. e \in Range(active)
    BY <1>1, <2>1 DEF Undisturbed, StillSo
  <2>7. \A f \in Range(active) : f # e => f \in Range(active')
    BY <1>0, <1>1, <2>6 DEF BInv, OneEach
  <2>8. health # Asleep => health.left # <<>> /\ Head(health.left) \in Range(active')
    BY <2>1, <2>7 DEF Undisturbed
  <2>9. ASSUME NEW f \in Ids, NEW j \in 1..Len(entries'[f].procs), entries'[f].procs[j] # "none"
        PROVE  Owned(f)'
    <3>1. f # e
      BY <1>1, <2>9, NoEntryIs
    <3>2. Owned(f)
      BY <1>1, <2>1, <2>9, <3>1 DEF Undisturbed
    <3>3. f \in Range(active)
      BY <1>1, <2>2, <3>2, IdleIsTask DEF Owned
    <3> QED
      BY <2>7, <3>1, <3>3 DEF Owned
  <2> QED
    BY <1>1, <2>1, <2>3, <2>5, <2>8, <2>9 DEF Undisturbed
<1> QED
  BY <1>7, <1>8 DEF IInv

-----------------------------------------------------------------------------
(* A process is started.                                                   *)

(* The entries when the state of a process changes.                        *)
WithState(e, i, state) == [entries EXCEPT ![e].procs[i] = state]

LEMMA WithStateFacts ==
  ASSUME Types, NEW e, NEW i, NEW state \in States, entries' = WithState(e, i, state)
  PROVE  /\ entries' \in [Ids -> Entry]
         /\ \A f \in Ids : /\ entries'[f].addon = entries[f].addon
                           /\ DOMAIN entries'[f].procs = DOMAIN entries[f].procs
                           /\ Len(entries'[f].procs) = Len(entries[f].procs)
                           /\ f # e => entries'[f] = entries[f]
                           /\ \A j \in 1..Len(entries[f].procs) :
                                entries'[f].procs[j] =
                                  IF f = e /\ j = i THEN state ELSE entries[f].procs[j]
<1>1. entries \in [Ids -> Entry]
  BY DEF Types
<1>2. CASE e \in Ids
  <2> DEFINE p == entries[e].procs
             r == [p EXCEPT ![i] = state]
  <2>1. p \in Seq(States) /\ Len(p) \in Nat /\ DOMAIN p = 1..Len(p)
    BY <1>1, <1>2, LenProperties DEF Entry
  <2>2. entries' = [entries EXCEPT ![e].procs = r]
    BY DEF WithState
  <2> HIDE DEF p
  <2>3. r \in Seq(States) /\ Len(r) = Len(p) /\ DOMAIN r = DOMAIN p
        /\ \A j \in 1..Len(p) : r[j] = IF j = i THEN state ELSE p[j]
    <3> DEFINE n == Len(p)
    <3>1. n \in Nat /\ p \in [1..n -> States]
      BY <2>1
    <3> HIDE DEF n
    <3>2. r \in [1..n -> States] /\ \A j \in 1..n : r[j] = IF j = i THEN state ELSE p[j]
      BY <3>1
    <3>3. r \in Seq(States) /\ DOMAIN r = 1..n
      BY <3>1, <3>2
    <3>4. Len(r) = n
      BY <3>1, <3>3, LenProperties
    <3> QED
      BY <2>1, <3>2, <3>3, <3>4 DEF n
  <2> HIDE DEF r
  <2>4. entries' \in [Ids -> Entry] /\ entries'[e].procs = r /\ entries'[e].addon = entries[e].addon
        /\ \A f \in Ids : f # e => entries'[f] = entries[f]
    BY <1>1, <1>2, <2>2, <2>3 DEF Entry
  <2> QED
    BY <2>3, <2>4 DEF p
<1>3. CASE e \notin Ids
  BY <1>1, <1>3 DEF WithState
<1> QED
  BY <1>2, <1>3

LEMMA StartInterceptorFacts ==
  ASSUME BInv, NEW t \in Tasks, StartInterceptor(t)
  PROVE  LET e == tasks[t].entry
             i == tasks[t].i
             q == tasks'[t]
             last == i = Len(entries[e].procs)
         IN
         /\ tasks[t].pc = "start" /\ e \in Ids /\ e \notin Range(active)
         /\ e \notin Range(health.left)
         /\ entries[e].addon = Head(tasks[t].news)
         /\ i \in 1..Len(entries[e].procs) /\ Len(entries[e].procs) \in Nat
         /\ \A j \in 1..Len(entries[e].procs) : j < i => entries[e].procs[j] # "none"
         /\ entries' = [entries EXCEPT ![e].procs[i] = "alive"]
         /\ last => /\ active' \in Seq(Ids) /\ OneEach(active') /\ e \in Range(active')
                    /\ Range(active') \subseteq Range(active) \cup {e}
                    /\ \A f \in Range(active) : entries[f].addon # entries[e].addon => f \in Range(active')
                    /\ q = Idle \/ Activating(q, active')
         /\ ~last => active' = active /\ q = [tasks[t] EXCEPT !.i = i + 1]
         /\ tasks' \in [Tasks -> Task] /\ \A u \in Tasks : u # t => tasks'[u] = tasks[u]
         /\ UNCHANGED <<module, latest, health, overlap>>
<1> DEFINE e == tasks[t].entry
           i == tasks[t].i
           last == i = Len(entries[e].procs)
           act == active'
           q == IF last THEN Activations(Tail(tasks[t].news), act) ELSE [tasks[t] EXCEPT !.i = i + 1]
<1>1. /\ tasks[t].pc = "start"
      /\ entries' = [entries EXCEPT ![e].procs[i] = "alive"]
      /\ act = IF last THEN Insert(active, e) ELSE active
      /\ tasks' = [tasks EXCEPT ![t] = q]
      /\ UNCHANGED <<module, latest, health, overlap>>
  BY DEF StartInterceptor
<1>2. /\ e \in Ids /\ e \notin Range(active) /\ e \notin Range(health.left)
      /\ entries[e].addon = Head(tasks[t].news)
      /\ i \in 1..Len(entries[e].procs)
      /\ \A j \in 1..Len(entries[e].procs) : j < i => entries[e].procs[j] # "none"
  BY <1>1 DEF BInv, Starting
<1>3. /\ tasks \in [Tasks -> Task] /\ entries \in [Ids -> Entry] /\ active \in Seq(Ids)
      /\ OneEach(active)
  BY DEF BInv, Types
<1>4. Len(entries[e].procs) \in Nat
  BY <1>2, <1>3, LenProperties DEF Entry
<1>5. tasks[t] \in Task /\ tasks[t].news \in Seq(Addons) /\ tasks[t].news # <<>>
  BY <1>1, <1>3 DEF BInv, Opening, Task
<1>6. Tail(tasks[t].news) \in Seq(Addons)
  BY <1>5, HeadTailProperties
<1>7. CASE last
  <2> DEFINE n == Tail(tasks[t].news)
  <2>1. q = Activations(n, act) /\ n \in Seq(Addons)
    BY <1>6, <1>7
  <2> HIDE DEF n, q
  <2>2. q \in Task /\ (q = Idle \/ Activating(q, act))
    <3> HIDE DEF act
    <3> QED
      BY <2>1, ActivationsIs
  <2> HIDE DEF e
  <2>3. /\ act \in Seq(Ids) /\ OneEach(act) /\ e \in Range(act)
        /\ Range(act) \subseteq Range(active) \cup {e}
        /\ \A f \in Range(active) : entries[f].addon # entries[e].addon => f \in Range(act)
    <3> DEFINE x == Insert(active, e)
    <3>1. /\ x \in Seq(Ids) /\ OneEach(x) /\ e \in Range(x)
          /\ Range(x) \subseteq Range(active) \cup {e}
          /\ \A f \in Range(active) : entries[f].addon # entries[e].addon => f \in Range(x)
      BY <1>2, <1>3, InsertIs
    <3>2. act = x
      BY <1>1, <1>7
    <3> HIDE DEF x, act
    <3> QED
      BY <3>1, <3>2
  <2>4. tasks' \in [Tasks -> Task] /\ tasks'[t] = q /\ \A u \in Tasks : u # t => tasks'[u] = tasks[u]
    BY <1>1, <1>3, <2>2
  <2> QED
    BY <1>1, <1>2, <1>4, <1>7, <2>2, <2>3, <2>4 DEF e
<1>8. CASE ~last
  <2>1. q = [tasks[t] EXCEPT !.i = i + 1] /\ act = active
    BY <1>1, <1>8
  <2>2. q \in Task
    <3>1. i + 1 \in Nat
      BY <1>2, <1>4
    <3> QED
      BY <1>5, <2>1, <3>1 DEF Task
  <2> HIDE DEF q
  <2>3. tasks' \in [Tasks -> Task] /\ tasks'[t] = q /\ \A u \in Tasks : u # t => tasks'[u] = tasks[u]
    BY <1>1, <1>3, <2>2
  <2> QED
    BY <1>1, <1>2, <1>4, <1>8, <2>1, <2>3
<1> QED
  BY <1>7, <1>8

LEMMA StartInterceptorIInv == ASSUME IInv, NEW t \in Tasks, StartInterceptor(t) PROVE IInv'
<1> DEFINE e == tasks[t].entry
           i == tasks[t].i
           q == tasks'[t]
           l == Len(entries[e].procs)
<1>0. BInv /\ Types
  BY DEF IInv, BInv
<1>1. /\ tasks[t].pc = "start" /\ e \in Ids /\ e \notin Range(active)
      /\ e \notin Range(health.left)
      /\ entries[e].addon = Head(tasks[t].news)
      /\ i \in 1..l /\ l \in Nat
      /\ \A j \in 1..l : j < i => entries[e].procs[j] # "none"
      /\ entries' = [entries EXCEPT ![e].procs[i] = "alive"]
      /\ i = l => /\ active' \in Seq(Ids) /\ OneEach(active') /\ e \in Range(active')
                  /\ Range(active') \subseteq Range(active) \cup {e}
                  /\ \A f \in Range(active) : entries[f].addon # entries[e].addon => f \in Range(active')
                  /\ q = Idle \/ Activating(q, active')
      /\ i # l => active' = active /\ q = [tasks[t] EXCEPT !.i = i + 1]
      /\ tasks' \in [Tasks -> Task] /\ \A u \in Tasks : u # t => tasks'[u] = tasks[u]
      /\ UNCHANGED <<module, latest, health, overlap>>
  BY <1>0, StartInterceptorFacts
<1> HIDE DEF q, e, i, l
<1>2. /\ entries' \in [Ids -> Entry]
      /\ \A f \in Ids : /\ entries'[f].addon = entries[f].addon
                        /\ DOMAIN entries'[f].procs = DOMAIN entries[f].procs
                        /\ Len(entries'[f].procs) = Len(entries[f].procs)
                        /\ f # e => entries'[f] = entries[f]
                        /\ \A j \in 1..Len(entries[f].procs) :
                             entries'[f].procs[j] =
                               IF f = e /\ j = i THEN "alive" ELSE entries[f].procs[j]
  <2>1. /\ Types /\ "alive" \in States
        /\ entries' = WithState(e, i, "alive")
    BY <1>0, <1>1 DEF States, WithState
  <2> QED
    BY <2>1, WithStateFacts
<1>3. tasks[t] \in Task /\ active \in Seq(Ids) /\ OneEach(active)
  BY <1>0 DEF BInv, Types
<1>4. active' \in Seq(Ids) /\ OneEach(active')
  BY <1>1, <1>3
<1>5. Range(active) \subseteq Ids /\ Range(active') \subseteq Ids
  <2> DEFINE act == active'
  <2>1. act \in Seq(Ids)
    BY <1>4
  <2> HIDE DEF act
  <2>2. Range(act) \subseteq Ids
    BY <2>1, RangeOfIds
  <2> QED
    BY <1>3, <2>2, RangeOfIds DEF act
<1>6. Range(active') \subseteq Range(active) \cup {e}
  BY <1>1
<1>7. Types'
  BY <1>0, <1>1, <1>2, <1>4 DEF Types
<1>8. OneEach(active)'
  BY <1>2, <1>4, <1>5 DEF OneEach
<1>9. i = l => \A j \in 1..l : entries'[e].procs[j] # "none"
  BY <1>1, <1>2 DEF l
<1>10. ActiveIsComplete'
  <2> SUFFICES ASSUME NEW f \in Range(active'), NEW j \in DOMAIN entries'[f].procs
               PROVE  entries'[f].procs[j] # "none"
    BY DEF ActiveIsComplete
  <2>1. f \in Ids /\ j \in DOMAIN entries[f].procs
    BY <1>2, <1>5
  <2>2. CASE f = e
    <3>1. i = l
      BY <1>1, <2>2
    <3>2. DOMAIN entries[e].procs = 1..l
      BY <1>0, <1>1, LenProperties DEF Types, Entry, l
    <3> QED
      BY <1>9, <2>1, <2>2, <3>1, <3>2
  <2>3. CASE f # e
    <3>1. f \in Range(active) /\ entries'[f] = entries[f]
      BY <1>2, <1>6, <2>1, <2>3
    <3> QED
      BY <1>0, <3>1 DEF BInv, ActiveIsComplete
  <2> QED
    BY <2>2, <2>3
<1>11. CASE i = l
  <2>1. /\ q.entry = 0 /\ q.pc \notin {"start", "deactivate"}
        /\ q.pc \in Waits => q.news # <<>> /\ Head(q.news) \notin AddonsOf(active')
    BY <1>1, <1>11, IdleIsTask DEF Activating, Waits
  <2>2. ASSUME NEW u \in Tasks PROVE Closing(u)' /\ Opening(u)' /\ Starting(u)'
    <3>1. CASE u = t
      BY <2>1, <3>1 DEF Closing, Opening, Starting, q
    <3>2. CASE u # t
      <4>1. Closing(u)' /\ Opening(u)'
        BY <1>0, <1>1, <1>2, <3>2 DEF BInv, Closing, Opening
      <4>2. tasks'[t].entry = 0
        BY <2>1 DEF q
      <4>3. /\ e = tasks[t].entry /\ \A f \in Ids : f # e => entries'[f] = entries[f]
            /\ tasks'[u] = tasks[u] /\ \A x \in Tasks : x # t => tasks'[x] = tasks[x]
            /\ health' = health
        BY <1>1, <1>2, <3>2 DEF e
      <4>4. Starting(u)'
        BY ZenonT(60), <1>0, <1>6, <3>2, <4>2, <4>3, StartingStays
      <4> QED
        BY <4>1, <4>4
    <3> QED
      BY <3>1, <3>2
  <2>3. BInv'
    BY <1>7, <1>8, <1>10, <2>2 DEF BInv
  <2>4. ASSUME ~overlap' PROVE Undisturbed'
    <3>1. Undisturbed
      BY <1>1, <2>4 DEF IInv
    <3>2. \A u \in Tasks : u # t => tasks[u] = Idle
      BY <1>1, <3>1, IdleIsTask DEF Undisturbed, OneHandler
    <3>3. OneHandler'
      BY <1>1, <3>2 DEF OneHandler
    <3>4. AddonsOf(active)' = AddonsOf(active')
      BY <1>2, <1>5 DEF AddonsOf
    <3>5. ASSUME NEW u \in Tasks PROVE StillSo(u)'
      <4>1. CASE u = t
        BY <2>1, <3>4, <4>1 DEF StillSo, q
      <4>2. CASE u # t
        BY <1>1, <3>2, <4>2, IdleIsTask DEF StillSo, Waits
      <4> QED
        BY <4>1, <4>2
    <3>6. entries[e].addon \notin AddonsOf(active)
      BY <1>1, <3>1 DEF Undisturbed, StillSo
    <3>7. Range(active) \subseteq Range(active')
      BY <1>1, <1>11, <3>6 DEF AddonsOf
    <3>8. health # Asleep => health.left # <<>> /\ Head(health.left) \in Range(active')
      BY <3>1, <3>7 DEF Undisturbed
    <3>9. ASSUME NEW f \in Ids, NEW j \in 1..Len(entries'[f].procs), entries'[f].procs[j] # "none"
          PROVE  Owned(f)'
      <4>1. CASE f = e
        BY <1>1, <1>11, <4>1 DEF Owned
      <4>2. CASE f # e
        <5>1. Owned(f)
          BY <1>2, <3>1, <3>9, <4>2 DEF Undisturbed
        <5>2. f \in Range(active)
          BY <3>2, <4>2, <5>1, IdleIsTask DEF Owned, e
        <5> QED
          BY <3>7, <5>2 DEF Owned
      <4> QED
        BY <4>1, <4>2
    <3> QED
      BY <1>1, <3>1, <3>3, <3>5, <3>8, <3>9 DEF Undisturbed
  <2> QED
    BY <2>3, <2>4 DEF IInv
<1>12. CASE i # l
  <2>1. active' = active /\ q.pc = "start" /\ q.entry = e /\ q.i = i + 1 /\ q.news = tasks[t].news
    BY <1>1, <1>3, <1>12 DEF Task, e
  <2>2. ASSUME NEW u \in Tasks PROVE Closing(u)' /\ Opening(u)' /\ Starting(u)'
    <3>1. CASE u = t
      <4>1. Closing(u)' /\ Opening(u)'
        BY <1>0, <1>1, <2>1, <3>1 DEF BInv, Closing, Opening, q
      <4>2. \A x \in Tasks : x # t => tasks'[x].entry # e
        BY <1>0, <1>1 DEF BInv, Starting, e
      <4>3. /\ i + 1 \in 1..Len(entries'[e].procs)
            /\ \A j \in 1..Len(entries'[e].procs) : j < i + 1 => entries'[e].procs[j] # "none"
        <5>1. i + 1 \in 1..l /\ \A j \in 1..l : j < i + 1 => j < i \/ j = i
          BY <1>1, <1>12
        <5>2. Len(entries'[e].procs) = l
          BY <1>1, <1>2 DEF l
        <5>3. \A j \in 1..l : entries'[e].procs[j] = IF j = i THEN "alive" ELSE entries[e].procs[j]
          BY <1>1, <1>2 DEF l
        <5> QED
          BY <1>1, <5>1, <5>2, <5>3
      <4>4. /\ e \in Ids /\ e \notin Range(active') /\ e \notin Range(health'.left)
            /\ entries'[e].addon = Head(q.news)
        BY <1>1, <1>2, <2>1
      <4> QED
        BY <2>1, <3>1, <4>1, <4>2, <4>3, <4>4 DEF Starting, q
    <3>2. CASE u # t
      <4>1. Closing(u)' /\ Opening(u)'
        BY <1>0, <1>1, <1>2, <3>2 DEF BInv, Closing, Opening
      <4>2. tasks'[t].entry = e
        BY <2>1 DEF q
      <4>3. /\ e = tasks[t].entry /\ \A f \in Ids : f # e => entries'[f] = entries[f]
            /\ tasks'[u] = tasks[u] /\ \A x \in Tasks : x # t => tasks'[x] = tasks[x]
            /\ health' = health
        BY <1>1, <1>2, <3>2 DEF e
      <4>4. Starting(u)'
        BY ZenonT(60), <1>0, <1>6, <3>2, <4>2, <4>3, StartingStays
      <4> QED
        BY <4>1, <4>4
    <3> QED
      BY <3>1, <3>2
  <2>3. BInv'
    BY <1>7, <1>8, <1>10, <2>2 DEF BInv
  <2>4. ASSUME ~overlap' PROVE Undisturbed'
    <3>1. Undisturbed
      BY <1>1, <2>4 DEF IInv
    <3>2. \A u \in Tasks : u # t => tasks[u] = Idle
      BY <1>1, <3>1, IdleIsTask DEF Undisturbed, OneHandler
    <3>3. OneHandler'
      BY <1>1, <3>2 DEF OneHandler
    <3>4. AddonsOf(active)' = AddonsOf(active)
      BY <1>2, <1>5, <2>1 DEF AddonsOf
    <3>5. ASSUME NEW u \in Tasks PROVE StillSo(u)'
      <4>1. CASE u = t
        BY <1>1, <2>1, <3>1, <3>4, <4>1 DEF Undisturbed, StillSo, q
      <4>2. CASE u # t
        BY <1>1, <3>2, <4>2, IdleIsTask DEF StillSo, Waits
      <4> QED
        BY <4>1, <4>2
    <3>6. ASSUME NEW f \in Ids, NEW j \in 1..Len(entries'[f].procs), entries'[f].procs[j] # "none"
          PROVE  Owned(f)'
      <4>1. CASE f = e
        BY <2>1, <4>1 DEF Owned, q
      <4>2. CASE f # e
        <5>1. Owned(f)
          BY <1>2, <3>1, <3>6, <4>2 DEF Undisturbed
        <5>2. f \in Range(active)
          BY <3>2, <4>2, <5>1, IdleIsTask DEF Owned, e
        <5> QED
          BY <2>1, <5>2 DEF Owned
      <4> QED
        BY <4>1, <4>2
    <3> QED
      BY <1>1, <2>1, <3>1, <3>3, <3>5, <3>6 DEF Undisturbed
  <2> QED
    BY <2>3, <2>4 DEF IInv
<1> QED
  BY <1>11, <1>12

(* A process of an entry that is neither active nor being started has not  *)
(* terminated; one that has terminated, or is restarted, changes nothing   *)
(* but its own state.                                                      *)
LEMMA ChangedBInv ==
  ASSUME BInv, NEW e, NEW i, NEW state \in {"alive", "dead"}, entries' = WithState(e, i, state),
         UNCHANGED <<latest, tasks, active>>,
         health' \in [left : Seq(Ids), i : Nat],
         Range(health'.left) \subseteq Range(health.left)
  PROVE  BInv'
<1>0. Types /\ active \in Seq(Ids) /\ state \in States
  BY DEF BInv, Types, States
<1>1. /\ entries' \in [Ids -> Entry]
      /\ \A f \in Ids : /\ entries'[f].addon = entries[f].addon
                        /\ DOMAIN entries'[f].procs = DOMAIN entries[f].procs
                        /\ Len(entries'[f].procs) = Len(entries[f].procs)
                        /\ f # e => entries'[f] = entries[f]
                        /\ \A j \in 1..Len(entries[f].procs) :
                             entries'[f].procs[j] =
                               IF f = e /\ j = i THEN state ELSE entries[f].procs[j]
  BY <1>0, WithStateFacts
<1>2. \A f \in Ids : \A j \in 1..Len(entries[f].procs) :
        entries[f].procs[j] # "none" => entries'[f].procs[j] # "none"
  BY <1>1
<1>3. Range(active) \subseteq Ids
  BY <1>0, RangeOfIds
<1>4. Types'
  <2>1. \A f \in Ids : Len(entries'[f].procs) = NInterceptors[entries'[f].addon]
    BY <1>0, <1>1 DEF Types
  <2> QED
    BY <1>0, <1>1, <2>1 DEF Types
<1>5. OneEach(active)'
  BY <1>1, <1>3 DEF BInv, OneEach
<1>6. ActiveIsComplete'
  <2> SUFFICES ASSUME NEW f \in Range(active), NEW j \in DOMAIN entries'[f].procs
               PROVE  entries'[f].procs[j] # "none"
    BY DEF ActiveIsComplete
  <2>1. f \in Ids /\ j \in DOMAIN entries[f].procs /\ entries[f].procs[j] # "none"
    BY <1>1, <1>3 DEF BInv, ActiveIsComplete
  <2>2. DOMAIN entries[f].procs = 1..Len(entries[f].procs)
    BY <1>0, <2>1, LenProperties DEF Types, Entry
  <2> QED
    BY <1>2, <2>1, <2>2
<1>7. ASSUME NEW u \in Tasks PROVE Closing(u)' /\ Opening(u)' /\ Starting(u)'
  <2>1. Closing(u)' /\ Opening(u)'
    BY <1>1 DEF BInv, Closing, Opening
  <2>2. CASE tasks[u].pc = "start"
    <3> DEFINE f == tasks[u].entry
    <3>1. /\ f \in Ids /\ f \notin Range(active) /\ f \notin Range(health.left)
          /\ \A x \in Tasks : x # u => tasks[x].entry # f
          /\ entries[f].addon = Head(tasks[u].news)
          /\ tasks[u].i \in 1..Len(entries[f].procs)
          /\ \A j \in 1..Len(entries[f].procs) : j < tasks[u].i => entries[f].procs[j] # "none"
      BY <2>2 DEF BInv, Starting
    <3>2. /\ Len(entries'[f].procs) = Len(entries[f].procs)
          /\ entries'[f].addon = entries[f].addon
          /\ \A j \in 1..Len(entries[f].procs) :
               entries[f].procs[j] # "none" => entries'[f].procs[j] # "none"
      BY <1>1, <1>2, <3>1
    <3> HIDE DEF f
    <3>3. \A j \in 1..Len(entries'[f].procs) : j < tasks[u].i => entries'[f].procs[j] # "none"
      BY <3>1, <3>2
    <3> QED
      BY <2>1, <2>2, <3>1, <3>2, <3>3 DEF Starting, f
  <2>3. CASE tasks[u].pc # "start"
    BY <2>1, <2>3 DEF Starting
  <2> QED
    BY <2>2, <2>3
<1> QED
  BY <1>4, <1>5, <1>6, <1>7 DEF BInv

LEMMA ChangedUndisturbed ==
  ASSUME BInv, Undisturbed, NEW e, NEW i, NEW state \in {"alive", "dead"},
         entries' = WithState(e, i, state), UNCHANGED <<module, tasks, active>>,
         e \in Ids /\ i \in 1..Len(entries[e].procs) => Owned(e),
         health' # Asleep => health'.left # <<>> /\ Head(health'.left) \in Range(active)
  PROVE  Undisturbed'
<1>0. Types /\ active \in Seq(Ids) /\ state \in States
  BY DEF BInv, Types, States
<1>1. /\ \A f \in Ids : /\ entries'[f].addon = entries[f].addon
                        /\ Len(entries'[f].procs) = Len(entries[f].procs)
                        /\ \A j \in 1..Len(entries[f].procs) :
                             entries'[f].procs[j] =
                               IF f = e /\ j = i THEN state ELSE entries[f].procs[j]
  BY <1>0, WithStateFacts
<1>2. Range(active) \subseteq Ids
  BY <1>0, RangeOfIds
<1>3. AddonsOf(active)' = AddonsOf(active)
  BY <1>1, <1>2 DEF AddonsOf
<1>4. OneHandler' /\ \A t \in Tasks : StillSo(t)'
  BY <1>3 DEF Undisturbed, OneHandler, StillSo
<1>5. ASSUME NEW f \in Ids, NEW j \in 1..Len(entries'[f].procs), entries'[f].procs[j] # "none"
      PROVE  Owned(f)'
  <2>1. Owned(f)' <=> Owned(f)
    BY DEF Owned
  <2> QED
    BY <1>1, <1>5, <2>1 DEF Undisturbed
<1> QED
  BY <1>4, <1>5 DEF Undisturbed

-----------------------------------------------------------------------------
(* The health check, and what fails.                                       *)

LEMMA DeadIsActive ==
  ASSUME BInv, Undisturbed, NEW e \in Range(health.left), NEW j \in 1..Len(entries[e].procs),
         entries[e].procs[j] # "none"
  PROVE  e \in Range(active)
<1>1. health.left \in Seq(Ids)
  BY DEF BInv, Types
<1>2. e \in Ids
  BY <1>1, RangeOfIds
<1>3. Owned(e)
  BY <1>2 DEF Undisturbed
<1>4. \A t \in Tasks : tasks[t].pc = "start" => tasks[t].entry # e
  BY DEF BInv, Starting
<1> QED
  BY <1>3, <1>4 DEF Owned

LEMMA HealthCheckIInv == ASSUME IInv, HealthCheck PROVE IInv'
<1> DEFINE h == FromTerminated(active, 1, entries)
<1>1. health' = h /\ UNCHANGED <<module, latest, tasks, active, entries, overlap>>
  BY DEF HealthCheck
<1>2. BInv /\ Types /\ active \in Seq(Ids)
  BY DEF IInv, BInv, Types
<1>3. \A e \in Ids : entries[e].procs \in Seq(States)
  BY <1>2 DEF Types, Entry
<1>4. /\ h \in [left : Seq(Ids), i : Nat] /\ Range(h.left) \subseteq Range(active)
      /\ h # Asleep => h.left # <<>> /\ Head(h.left) \in Range(active)
  BY <1>2, <1>3, FromTerminatedIs
<1> HIDE DEF h
<1>5. Types' /\ OneEach(active)' /\ ActiveIsComplete'
  BY <1>1, <1>2, <1>4 DEF BInv, Types, OneEach, ActiveIsComplete
<1>6. ASSUME NEW u \in Tasks PROVE Closing(u)' /\ Opening(u)' /\ Starting(u)'
  <2>1. Closing(u)' /\ Opening(u)'
    BY <1>1, <1>2 DEF BInv, Closing, Opening
  <2>2. Starting(u)'
    BY <1>1, <1>2, <1>4 DEF BInv, Starting
  <2> QED
    BY <2>1, <2>2
<1>7. ASSUME ~overlap' PROVE Undisturbed'
  <2>1. Undisturbed
    BY <1>1, <1>7 DEF IInv
  <2>2. OneHandler' /\ (\A t \in Tasks : StillSo(t)') /\ \A e \in Ids : Owned(e)' <=> Owned(e)
    BY <1>1, <2>1 DEF Undisturbed, OneHandler, StillSo, AddonsOf, Owned
  <2> QED
    BY <1>1, <1>4, <2>1, <2>2 DEF Undisturbed
<1> QED
  BY <1>5, <1>6, <1>7 DEF IInv, BInv

LEMMA HealthRestartIInv == ASSUME IInv, HealthRestart PROVE IInv'
<1> DEFINE e == Head(health.left)
           i == health.i
           ents == entries'
           left == health.left
           h == FromTerminated(left, i + 1, ents)
<1>1. /\ health # Asleep /\ ents = WithState(e, i, "alive") /\ health' = h
      /\ UNCHANGED <<module, latest, tasks, active, overlap>>
  BY DEF HealthRestart, WithState
<1>2. BInv /\ Types /\ left \in Seq(Ids) /\ i \in Nat /\ "alive" \in States
  BY DEF IInv, BInv, Types, States
<1> HIDE DEF e, i, left, h
<1>3. ents \in [Ids -> Entry]
  BY <1>1, <1>2, WithStateFacts
<1>4. \A f \in Ids : ents[f].procs \in Seq(States)
  BY <1>3 DEF Entry
<1>5. /\ h \in [left : Seq(Ids), i : Nat] /\ Range(h.left) \subseteq Range(left)
      /\ h # Asleep => /\ h.left # <<>> /\ Head(h.left) \in Range(left)
                       /\ h.i \in 1..Len(ents[Head(h.left)].procs)
                       /\ ents[Head(h.left)].procs[h.i] = "dead"
  <2>1. i + 1 \in Nat \ {0}
    BY <1>2
  <2> HIDE DEF ents
  <2> QED
    BY <1>2, <1>4, <2>1, FromTerminatedIs DEF h
<1>6. BInv'
  <2>1. health' \in [left : Seq(Ids), i : Nat] /\ Range(health'.left) \subseteq Range(health.left)
    BY <1>1, <1>5 DEF left
  <2> QED
    BY <1>1, <1>2, <2>1, ChangedBInv
<1>7. ASSUME ~overlap' PROVE Undisturbed'
  <2>1. Undisturbed /\ e \in Range(active)
    BY <1>1, <1>7 DEF IInv, Undisturbed, e
  <2>2. Owned(e)
    BY <2>1 DEF Owned
  <2>3. ASSUME h # Asleep PROVE Head(h.left) \in Range(active)
    <3> DEFINE f == Head(h.left)
    <3>1. f \in Range(left) /\ h.i \in 1..Len(ents[f].procs) /\ ents[f].procs[h.i] = "dead"
      BY <1>5, <2>3
    <3> HIDE DEF f
    <3>2. f \in Ids
      BY <1>2, <3>1, RangeOfIds
    <3>3. h.i \in 1..Len(entries[f].procs) /\ entries[f].procs[h.i] # "none"
      <4>1. /\ Len(ents[f].procs) = Len(entries[f].procs)
            /\ \A j \in 1..Len(entries[f].procs) :
                 ents[f].procs[j] = IF f = e /\ j = i THEN "alive" ELSE entries[f].procs[j]
        BY <1>1, <1>2, <3>2, WithStateFacts
      <4> QED
        BY <3>1, <4>1
    <3> QED
      BY <1>2, <2>1, <3>1, <3>3, DeadIsActive DEF f, left
  <2>4. health' # Asleep => health'.left # <<>> /\ Head(health'.left) \in Range(active)
    BY <1>1, <1>5, <2>3
  <2> QED
    BY <1>1, <1>2, <2>1, <2>2, <2>4, ChangedUndisturbed
<1> QED
  BY <1>6, <1>7 DEF IInv

LEMMA ProcessDiesIInv ==
  ASSUME IInv, NEW e \in Ids, NEW i \in DOMAIN entries[e].procs, ProcessDies(e, i)
  PROVE  IInv'
<1>1. /\ entries[e].procs[i] = "alive" /\ entries' = WithState(e, i, "dead")
      /\ UNCHANGED <<module, latest, tasks, health, active, overlap>>
  BY DEF ProcessDies, Alive, WithState
<1>2. BInv /\ health \in [left : Seq(Ids), i : Nat] /\ entries \in [Ids -> Entry]
  BY DEF IInv, BInv, Types
<1>3. i \in 1..Len(entries[e].procs)
  BY <1>2, LenProperties DEF Entry
<1>4. BInv'
  BY <1>1, <1>2, ChangedBInv
<1>5. ASSUME ~overlap' PROVE Undisturbed'
  <2>1. Undisturbed
    BY <1>1, <1>5 DEF IInv
  <2>2. Owned(e) /\ (health # Asleep => health.left # <<>> /\ Head(health.left) \in Range(active))
    BY <1>1, <1>3, <2>1 DEF Undisturbed
  <2> QED
    BY <1>1, <1>2, <2>1, <2>2, ChangedUndisturbed
<1> QED
  BY <1>4, <1>5 DEF IInv

LEMMA ModuleIInv == ASSUME IInv, ModuleFail \/ ModuleRestart PROVE IInv'
<1>0. BInv /\ Types
  BY DEF IInv, BInv
<1>1. CASE ModuleFail
  <2>1. /\ tasks' = [t \in Tasks |-> Idle] /\ health' = Asleep /\ overlap' = TRUE
        /\ UNCHANGED <<latest, active, entries>>
    BY <1>1 DEF ModuleFail
  <2>2. Asleep \in [left : Seq(Ids), i : Nat]
    BY EmptySeq DEF Asleep
  <2>3. Types' /\ OneEach(active)' /\ ActiveIsComplete'
    BY <1>0, <2>1, <2>2, IdleIsTask DEF BInv, Types, OneEach, ActiveIsComplete
  <2>4. \A t \in Tasks : tasks'[t].pc = "idle"
    BY <2>1, IdleIsTask
  <2>5. \A t \in Tasks : Closing(t)' /\ Opening(t)' /\ Starting(t)'
    BY <2>4 DEF Closing, Opening, Starting, Waits
  <2> QED
    BY <2>1, <2>3, <2>5 DEF IInv, BInv
<1>2. CASE ModuleRestart
  <2>1. module = "error" /\ active' = <<>> /\ UNCHANGED <<latest, tasks, health, entries, overlap>>
    BY <1>2 DEF ModuleRestart
  <2>2. <<>> \in Seq(Ids) /\ Range(<<>>) = {}
    BY EmptySeq DEF Range
  <2>3. Types' /\ OneEach(active)' /\ ActiveIsComplete'
    BY <1>0, <2>1, <2>2 DEF Types, OneEach, IsInjective, ActiveIsComplete
  <2>4. \A t \in Tasks : Closing(t)' /\ Opening(t)' /\ Starting(t)'
    BY <1>0, <2>1, <2>2 DEF BInv, Closing, Opening, Starting
  <2>5. overlap
    BY <2>1 DEF IInv, Undisturbed
  <2> QED
    BY <2>1, <2>3, <2>4, <2>5 DEF IInv, BInv
<1> QED
  BY <1>1, <1>2

(* The user's list, and the counters, are nobody's concern here.           *)
LEMMA SameIInv ==
  ASSUME IInv, latest' \in Lists,
         UNCHANGED <<module, tasks, health, active, entries, overlap>>
  PROVE  IInv'
<1>1. Types' /\ OneEach(active)' /\ ActiveIsComplete'
  BY DEF IInv, BInv, Types, OneEach, ActiveIsComplete
<1>2. \A t \in Tasks : Closing(t)' /\ Opening(t)' /\ Starting(t)'
  BY DEF IInv, BInv, Closing, Opening, Starting
<1>3. Undisturbed => Undisturbed'
  BY DEF Undisturbed, OneHandler, StillSo, AddonsOf, Owned
<1> QED
  BY <1>1, <1>2, <1>3 DEF IInv, BInv

-----------------------------------------------------------------------------
(* Every step.                                                             *)

LEMMA NextIInv == IInv /\ [Next]_vars => IInv'
<1> SUFFICES ASSUME IInv, [Next]_vars PROVE IInv'
  OBVIOUS
<1>0. latest \in Lists
  BY DEF IInv, BInv, Types
<1>1. ASSUME NEW l \in Lists, ChangeList(l) PROVE IInv'
  BY <1>1, SameIInv DEF ChangeList
<1>2. ASSUME NEW t \in Tasks, OnAddonlist(t) \/ TaskStep(t) \/ CloneFail(t) PROVE IInv'
  BY <1>2, OnAddonlistIInv, DeactivateIInv, ActivateIInv, CloneIInv, CheckoutIInv,
     StartInterceptorIInv DEF TaskStep
<1>3. ASSUME NEW e \in Ids, NEW i \in DOMAIN entries[e].procs, ProcessDies(e, i) PROVE IInv'
  BY <1>3, ProcessDiesIInv
<1>4. CASE HealthCheck \/ HealthRestart
  BY <1>4, HealthCheckIInv, HealthRestartIInv
<1>5. CASE ModuleFail \/ ModuleRestart
  BY <1>5, ModuleIInv
<1>6. CASE UNCHANGED vars
  BY <1>0, <1>6, SameIInv DEF vars
<1> QED
  BY <1>1, <1>2, <1>3, <1>4, <1>5, <1>6 DEF Next

LEMMA Inductive == Spec => []IInv
<1> QED
  BY InitIInv, NextIInv, PTL DEF Spec

(* No handler that closes an entry, and none that starts one, leaves the   *)
(* dictionary with an addon of which an interceptor was never started:     *)
(* on_addonlist_event, entry.start and healthcheck, however they overtake  *)
(* each other and whatever fails.                                          *)
THEOREM ActiveStaysComplete == Spec => []ActiveIsComplete
<1>1. IInv => ActiveIsComplete
  BY DEF IInv, BInv
<1> QED
  BY <1>1, Inductive, PTL

LEMMA OneProcessFromIInv == ASSUME IInv, ~overlap PROVE OneProcess
<1>1. BInv /\ Undisturbed /\ Types
  BY DEF IInv, BInv
<1> SUFFICES ASSUME NEW e \in Ids, NEW f \in Ids, NEW i \in DOMAIN entries[e].procs,
                    entries[e].addon = entries[f].addon, Alive(e, i), Alive(f, i), e # f
             PROVE  FALSE
  BY DEF OneProcess
<1>2. entries[e].procs \in Seq(States) /\ entries[f].procs \in Seq(States)
  BY <1>1 DEF Types, Entry
<1>3. i \in 1..Len(entries[e].procs) /\ entries[e].procs[i] = "alive" /\ entries[f].procs[i] = "alive"
  BY <1>2, LenProperties DEF Alive
<1>4. DOMAIN entries[e].procs = DOMAIN entries[f].procs
  BY <1>1, <1>2, LenProperties DEF Types
<1>5. i \in 1..Len(entries[f].procs)
  BY <1>2, <1>4, LenProperties
<1>6. Owned(e) /\ Owned(f)
  BY <1>1, <1>3, <1>5 DEF Undisturbed
<1>7. \A t \in Tasks : tasks[t].pc = "start" =>
        /\ tasks[t] # Idle /\ entries[tasks[t].entry].addon = Head(tasks[t].news)
        /\ Head(tasks[t].news) \notin AddonsOf(active)
  BY <1>1, IdleIsTask DEF BInv, Starting, Undisturbed, StillSo
<1>8. CASE e \in Range(active) /\ f \in Range(active)
  BY <1>1, <1>8 DEF BInv, OneEach
<1>9. CASE e \notin Range(active) \/ f \notin Range(active)
  <2>1. entries[e].addon \notin AddonsOf(active)
    BY <1>6, <1>7, <1>9 DEF Owned
  <2>2. e \notin Range(active) /\ f \notin Range(active)
    BY <2>1 DEF AddonsOf
  <2> QED
    BY <1>1, <1>6, <1>7, <2>2 DEF Owned, Undisturbed, OneHandler
<1> QED
  BY <1>8, <1>9

(* As long as no handler began before another had finished, none closed    *)
(* the entry under the health check and run() did not fail, every live     *)
(* process is one that close() or a later handler will find, and the       *)
(* assertion of start_interceptor (addon_manager.py:354-355) is not in     *)
(* danger.                                                                 *)
THEOREM SoleProcess == Spec => []SoleProcessUnlessOverlap
<1>1. ASSUME IInv PROVE SoleProcessUnlessOverlap
  <2> SUFFICES ASSUME ~overlap
               PROVE  OneProcess /\ \A e \in Ids : SomeAlive(e) => e \in InUse
    BY DEF SoleProcessUnlessOverlap
  <2>1. OneProcess
    BY <1>1, OneProcessFromIInv
  <2>2. ASSUME NEW e \in Ids, SomeAlive(e) PROVE e \in InUse
    <3>1. PICK i \in DOMAIN entries[e].procs : entries[e].procs[i] = "alive"
      BY <2>2 DEF SomeAlive, Alive
    <3>2. entries[e].procs \in Seq(States)
      BY <1>1 DEF IInv, BInv, Types, Entry
    <3>3. i \in 1..Len(entries[e].procs)
      BY <3>1, <3>2, LenProperties
    <3>4. Owned(e)
      BY <1>1, <3>1, <3>3 DEF IInv, Undisturbed
    <3> QED
      BY <3>4 DEF Owned, InUse
  <2> QED
    BY <2>1, <2>2
<1> QED
  BY <1>1, Inductive, PTL
=============================================================================
