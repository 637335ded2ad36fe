---------------------------- MODULE AddonManager ----------------------------
(***************************************************************************)
(* The addon manager of the watchdog (modules/addon_manager.py, the class  *)
(* AddonManagerModule) and the installation of addons (core/addon.py).     *)
(*                                                                         *)
(* The bridge sends the list of the user's addons every six seconds.  Each *)
(* list is handled by a task of its own (ipc/event.py:27), which waits in  *)
(* the logger and in git; the health check runs between these tasks.  An   *)
(* entry of the manager owns one operating system process per interceptor  *)
(* of its addon.  A process that no entry in use refers to is never ended. *)
(***************************************************************************)
EXTENDS Naturals, Sequences, SequencesExt

CONSTANTS
  Addons,         (* hashes of addons                                      *)
  NInterceptors,  (* how many interceptors the addon.json of each names    *)
  Lists,          (* the lists that ADDONLIST events carry, in dict order  *)
  MaxTasks,       (* bound: unfinished handlers of ADDONLIST               *)
  MaxEntries,     (* bound: AddonEntry objects in use                      *)
  MaxChanges,     (* bound: changes of the list                            *)
  MaxCoincidences, (* bound, see Pace                                      *)
  MaxFails        (* bound: failures of git, of processes, of the module   *)

ASSUME AddonManagerAssumption ==
  /\ Addons # {} /\ NInterceptors \in [Addons -> Nat \ {0}]
  /\ \A l \in Lists : l \in Seq(Addons) /\ IsInjective(l)
  /\ MaxTasks \in Nat \ {0} /\ MaxEntries \in Nat \ {0}
  /\ MaxChanges \in Nat /\ MaxCoincidences \in Nat /\ MaxFails \in Nat

VARIABLES
  module,    (* the process of the manager: "up", or "error" in the sleep
                of Worker.starter                                          *)
  latest,    (* the list that the next event carries                       *)
  tasks,     (* the handlers of ADDONLIST, see Idle                        *)
  health,    (* the entries that the health check still has to look at,
                and the interceptor of the first that is being restarted   *)
  active,    (* self.active_addons: its entries in insertion order         *)
  entries,   (* AddonEntry objects: addon, and state of its processes      *)
  dir,       (* ./addons/<hash>: "none", "partial" while git clones into
                it, "broken" when its .git is removed meanwhile, "ready"   *)
  overlap,   (* history: a handler began before another had finished, an
                entry was closed under the health check, or run() failed   *)
  nchanges, ncoincidences, nfails   (* counters for the bounds                   *)

counters == <<nchanges, ncoincidences, nfails>>
vars == <<module, latest, tasks, health, active, entries, dir, overlap, counters>>

Ids == 1..MaxEntries
Tasks == 1..MaxTasks

(* A handler: where it waits, the hashes its two loops have left, the      *)
(* entry it closes or starts, and the next interceptor to start.           *)
Idle == [pc |-> "idle", olds |-> <<>>, news |-> <<>>, entry |-> 0, i |-> 0]

NoProcesses(a) == [i \in 1..NInterceptors[a] |-> "none"]
NoEntry(a) == [addon |-> a, procs |-> NoProcesses(a)]

(* The health check sleeps.                                                *)
Asleep == [left |-> <<>>, i |-> 0]

Init ==
  /\ module = "up"
  /\ latest \in Lists
  /\ tasks = [t \in Tasks |-> Idle]
  /\ health = Asleep
  /\ active = <<>>
  /\ entries = [e \in Ids |-> NoEntry(CHOOSE a \in Addons : TRUE)]
  /\ dir = [a \in Addons |-> "none"]
  /\ overlap = FALSE
  /\ nchanges = 0 /\ ncoincidences = 0 /\ nfails = 0

-----------------------------------------------------------------------------
(* Entries and the dictionary of active addons.                            *)

AddonsOf(act) == {entries[e].addon : e \in Range(act)}

EntryOf(act, a) == CHOOSE e \in Range(act) : entries[e].addon = a

(* active_addons[hash] = entry: a new key comes last, an old one keeps its *)
(* place.                                                                  *)
Insert(act, e) ==
  IF entries[e].addon \in AddonsOf(act)
  THEN [k \in DOMAIN act |->
          IF entries[act[k]].addon = entries[e].addon THEN e ELSE act[k]]
  ELSE Append(act, e)

(* del active_addons[hash]: a key that is not there is a KeyError.         *)
Delete(act, a) == IF a \in AddonsOf(act) THEN RemoveFirst(act, EntryOf(act, a)) ELSE act

InUse ==
  Range(active) \cup {tasks[t].entry : t \in Tasks} \cup Range(health.left)

Alive(e, i) == entries[e].procs[i] = "alive"

SomeAlive(e) == \E i \in DOMAIN entries[e].procs : Alive(e, i)

FreeIds == {e \in Ids : e \notin InUse /\ ~SomeAlive(e)}

-----------------------------------------------------------------------------
(* on_addonlist_event: what a handler does up to its next await.           *)

(* The loop of lines 451-452 and line 419.                                 *)
Activations(news, act) ==
  LET k == SelectInSeq(news, LAMBDA a : a \notin AddonsOf(act)) IN
  IF k = 0 THEN Idle
  ELSE [Idle EXCEPT !.pc = "activate", !.news = SubSeq(news, k, Len(news))]

(* The loop of lines 447-450: a key that is gone meanwhile is a KeyError,  *)
(* which ends the task.                                                    *)
Deactivations(olds, news, act) ==
  LET k == SelectInSeq(olds, LAMBDA a : a \notin AddonsOf(act) \cap Range(news)) IN
  IF k = 0 THEN Activations(news, act)
  ELSE IF olds[k] \notin AddonsOf(act) THEN Idle
  ELSE [Idle EXCEPT !.pc = "deactivate", !.news = news,
                    !.olds = SubSeq(olds, k, Len(olds)),
                    !.entry = EntryOf(act, olds[k])]

Keys(act) == [k \in DOMAIN act |-> entries[act[k]].addon]

(* Cloning, and checking out, last as long as they want.  Every other wait *)
(* is short against the six seconds between two lists: those in the        *)
(* logger, and those for a git that finds no repository.  A handler begins *)
(* or ends a long wait in a short wait of another one only now and then.   *)
InShortWait(t) ==
  /\ tasks[t].pc \notin {"idle", "clone"}
  /\ ~ (tasks[t].pc = "checkout" /\ dir[Head(tasks[t].news)] = "ready")

Coincides(t) ==
  ~InShortWait(t) /\ \E u \in Tasks \ {t} : InShortWait(u)

Pace(t) ==
  /\ Coincides(t) => ncoincidences < MaxCoincidences
  /\ ncoincidences' = IF Coincides(t) THEN ncoincidences + 1 ELSE ncoincidences

OnAddonlist(t) ==
  /\ module = "up"
  /\ tasks[t] = Idle /\ \A u \in 1..(t - 1) : tasks[u] # Idle
  /\ Pace(t)
  /\ tasks' = [tasks EXCEPT ![t] = Deactivations(Keys(active), latest, active)]
  /\ overlap' = (overlap \/ \E u \in Tasks : tasks[u] # Idle)
  /\ UNCHANGED <<module, latest, health, active, entries, dir, nchanges, nfails>>

ClosedOnly(t) ==                                                 \* mutant
  /\ module = "up" /\ tasks[t].pc = "deactivate"
  /\ entries' = [entries EXCEPT ![tasks[t].entry] = NoEntry(@.addon)]
  /\ tasks' = [tasks EXCEPT ![t] =
                 Deactivations(Tail(tasks[t].olds), tasks[t].news, active)]
  /\ UNCHANGED <<module, latest, health, active, dir, overlap, counters>>

DeletedOnly(t) ==                                                \* mutant
  /\ module = "up" /\ tasks[t].pc = "deactivate"
  /\ active' = Delete(active, Head(tasks[t].olds))
  /\ tasks' = [tasks EXCEPT ![t] =
                 Deactivations(Tail(tasks[t].olds), tasks[t].news, active')]
  /\ UNCHANGED <<module, latest, health, entries, dir, overlap, counters>>

(* deactivate_addon after its await: the entry read before it is closed,   *)
(* whatever entry the hash has now is deleted.                             *)
Deactivate(t) ==
  LET a == Head(tasks[t].olds)
      e == tasks[t].entry
  IN
  /\ module = "up" /\ tasks[t].pc = "deactivate"
  /\ entries' = [entries EXCEPT ![e] = NoEntry(a)]
  /\ active' = Delete(active, a)
  /\ tasks' = [tasks EXCEPT ![t] =
                 IF a \in AddonsOf(active)
                 THEN Deactivations(Tail(tasks[t].olds), tasks[t].news, active')
                 ELSE Idle]
  /\ overlap' = (overlap \/ (health # Asleep /\ Head(health.left) = e))
  /\ UNCHANGED <<module, latest, health, dir, counters>>

-----------------------------------------------------------------------------
(* activate_addon.                                                         *)

(* entry.start(): without an addon.json to read the task ends.             *)
StartEntry(t) ==
  LET a == Head(tasks[t].news) IN
  IF dir[a] = "ready"
  THEN /\ FreeIds # {}
       /\ LET e == CHOOSE x \in FreeIds : \A y \in FreeIds : x <= y IN
          /\ entries' = [entries EXCEPT ![e] = NoEntry(a)]
          /\ tasks' = [tasks EXCEPT ![t].pc = "start", ![t].entry = e, ![t].i = 1]
  ELSE /\ tasks' = [tasks EXCEPT ![t] = Idle]
       /\ UNCHANGED entries

(* After the await of line 421.                                            *)
Activate(t) ==
  /\ module = "up" /\ tasks[t].pc = "activate"
  /\ IF dir[Head(tasks[t].news)] # "none"                  \* is_installed()
     THEN StartEntry(t)
     ELSE /\ tasks' = [tasks EXCEPT ![t].pc = "install"]
          /\ UNCHANGED entries
  /\ UNCHANGED <<module, latest, health, active, dir, overlap, counters>>

(* git clone creates the directory; it refuses one that exists.            *)
CloneBegin(t) ==
  LET a == Head(tasks[t].news) IN
  /\ module = "up" /\ tasks[t].pc = "install"
  /\ IF dir[a] = "none"
     THEN /\ dir' = [dir EXCEPT ![a] = "partial"]
          /\ tasks' = [tasks EXCEPT ![t].pc = "clone"]
     ELSE /\ tasks' = [tasks EXCEPT ![t].pc = "checkout"]
          /\ UNCHANGED dir
  /\ UNCHANGED <<module, latest, health, active, entries, overlap, counters>>

(* It succeeds, or fails and removes what it created.                      *)
CloneEnd(t) ==
  LET a == Head(tasks[t].news) IN
  /\ module = "up" /\ tasks[t].pc = "clone"
  /\ dir' = [dir EXCEPT ![a] = IF @ = "partial" THEN "ready" ELSE "none"]
  /\ tasks' = [tasks EXCEPT ![t].pc = "checkout"]
  /\ Pace(t)
  /\ UNCHANGED <<module, latest, health, active, entries, overlap, nchanges, nfails>>

CloneFail(t) ==
  LET a == Head(tasks[t].news) IN
  /\ module = "up" /\ tasks[t].pc = "clone"
  /\ nfails < MaxFails /\ nfails' = nfails + 1
  /\ dir' = [dir EXCEPT ![a] = "none"]
  /\ tasks' = [tasks EXCEPT ![t].pc = "checkout"]
  /\ Pace(t)
  /\ UNCHANGED <<module, latest, health, active, entries, overlap, nchanges>>

(* After the last await of install(): .git is removed, even under a clone  *)
(* of another task, and __init__.py written, if there is a directory.  The *)
(* return codes of git are only logged.                                    *)
Checkout(t) ==
  LET a == Head(tasks[t].news) IN
  /\ module = "up" /\ tasks[t].pc = "checkout"
  /\ dir' = [dir EXCEPT ![a] = IF @ = "partial" THEN "broken" ELSE @]
  /\ StartEntry(t)
  /\ Pace(t)
  /\ UNCHANGED <<module, latest, health, active, overlap, nchanges, nfails>>

-----------------------------------------------------------------------------
(* Processes.                                                              *)

InsertFirst(t) ==                                                \* mutant
  LET e == tasks[t].entry
      i == tasks[t].i
      last == i = Len(entries[e].procs)
  IN
  /\ module = "up" /\ tasks[t].pc = "start"
  /\ entries' = [entries EXCEPT ![e].procs[i] = "alive"]
  /\ active' = Insert(active, e)
  /\ tasks' = [tasks EXCEPT ![t] =
                 IF last THEN Activations(Tail(@.news), active')
                 ELSE [@ EXCEPT !.i = i + 1]]
  /\ UNCHANGED <<module, latest, health, dir, overlap, counters>>

(* One turn of the loop in start(), after its await; after the last the    *)
(* entry becomes active and the handler goes on with the next addon.       *)
StartInterceptor(t) ==
  LET e == tasks[t].entry
      i == tasks[t].i
      last == i = Len(entries[e].procs)
  IN
  /\ module = "up" /\ tasks[t].pc = "start"
  /\ entries' = [entries EXCEPT ![e].procs[i] = "alive"]
  /\ active' = IF last THEN Insert(active, e) ELSE active
  /\ tasks' = [tasks EXCEPT ![t] =
                 IF last THEN Activations(Tail(@.news), active')
                 ELSE [@ EXCEPT !.i = i + 1]]
  /\ UNCHANGED <<module, latest, health, dir, overlap, counters>>

(* The processes of an entry, from the i-th interceptor on, that are in    *)
(* its dictionary and not alive.                                           *)
Terminated(e, i, ents) == {j \in i..Len(ents[e].procs) : ents[e].procs[j] = "dead"}

FromAlive(left, i, ents) ==                                      \* mutant
  LET Alives(k) == {j \in (IF k = 1 THEN i ELSE 1)..Len(ents[left[k]].procs) :
                      ents[left[k]].procs[j] = "alive"}
      found == {k \in DOMAIN left : Alives(k) # {}}
  IN
  IF found = {} THEN Asleep
  ELSE [left |-> SubSeq(left, Min(found), Len(left)), i |-> Min(Alives(Min(found)))]

(* restart_terminated, entry after entry, the first one from its i-th      *)
(* interceptor on: up to the first that has terminated.                    *)
FromTerminated(left, i, ents) ==
  LET Rest(k) == Terminated(left[k], IF k = 1 THEN i ELSE 1, ents)
      found == {k \in DOMAIN left : Rest(k) # {}}
  IN
  IF found = {} THEN Asleep
  ELSE [left |-> SubSeq(left, Min(found), Len(left)), i |-> Min(Rest(Min(found)))]

(* A turn of the health check up to its first await; one that finds every  *)
(* process alive changes nothing.                                          *)
HealthCheck ==
  /\ module = "up" /\ health = Asleep
  /\ health' = FromTerminated(active, 1, entries)
  /\ health' # Asleep
  /\ UNCHANGED <<module, latest, tasks, active, entries, dir, overlap, counters>>

(* restart_terminated after its await.                                     *)
HealthRestart ==
  /\ module = "up" /\ health # Asleep
  /\ entries' = [entries EXCEPT ![Head(health.left)].procs[health.i] = "alive"]
  /\ health' = FromTerminated(health.left, health.i + 1, entries')
  /\ UNCHANGED <<module, latest, tasks, active, dir, overlap, counters>>

(* run() of an interceptor returns, after an exception of the addon.       *)
ProcessDies(e, i) ==
  /\ Alive(e, i)
  /\ nfails < MaxFails /\ nfails' = nfails + 1
  /\ entries' = [entries EXCEPT ![e].procs[i] = "dead"]
  /\ UNCHANGED <<module, latest, tasks, health, active, dir, overlap,
                 nchanges, ncoincidences>>

(* An exception of the health check or of listen() ends run().  The loop   *)
(* of lines 485-486 looks for entries where there are hashes: it           *)
(* deactivates nothing.                                                    *)
ModuleFail ==
  /\ module = "up"
  /\ nfails < MaxFails /\ nfails' = nfails + 1
  /\ module' = "error"
  /\ tasks' = [t \in Tasks |-> Idle]
  /\ health' = Asleep
  /\ overlap' = TRUE
  /\ UNCHANGED <<latest, active, entries, dir, nchanges, ncoincidences>>

(* Worker.starter runs the module again: cleanup(), nothing is active.     *)
ModuleRestart ==
  /\ module = "error"
  /\ module' = "up"
  /\ dir' = [a \in Addons |-> "none"]
  /\ active' = <<>>
  /\ UNCHANGED <<latest, tasks, health, entries, overlap, counters>>

(* The user installs or removes addons.                                    *)
ChangeList(l) ==
  /\ l # latest
  /\ nchanges < MaxChanges /\ nchanges' = nchanges + 1
  /\ latest' = l
  /\ UNCHANGED <<module, tasks, health, active, entries, dir, overlap,
                 ncoincidences, nfails>>

-----------------------------------------------------------------------------
TaskStep(t) ==
  \/ Deactivate(t) \/ Activate(t)
  \/ CloneBegin(t) \/ CloneEnd(t) \/ Checkout(t)
  \/ StartInterceptor(t)

Next ==
  \/ \E l \in Lists : ChangeList(l)
  \/ \E t \in Tasks : OnAddonlist(t) \/ TaskStep(t) \/ CloneFail(t)
  \/ HealthCheck \/ HealthRestart
  \/ \E e \in Ids : \E i \in DOMAIN entries[e].procs : ProcessDies(e, i)
  \/ ModuleFail \/ ModuleRestart

(* The bridge goes on sending the list, the event loop runs what can run,  *)
(* git ends, and Worker.starter restarts the module.  Fairness is strong   *)
(* for a handler because Pace, which is about time, disables its steps.    *)
Fairness ==
  /\ WF_vars(\E t \in Tasks : OnAddonlist(t))
  /\ \A t \in Tasks : SF_vars(TaskStep(t))
  /\ WF_vars(HealthCheck) /\ WF_vars(HealthRestart)
  /\ WF_vars(ModuleRestart)

Spec == Init /\ [][Next]_vars /\ Fairness

-----------------------------------------------------------------------------
(* Whatever handlers overtook each other, died of a KeyError, found half a *)
(* clone or destroyed the clone of another: once the list stays the same,  *)
(* the active addons come to be those of the list and stay so.             *)
Converges ==
  \A l \in Lists :
    <>[](latest = l) => <>[](module = "up" /\ AddonsOf(active) = Range(l))

(* A process that dies does not stay dead while its entry stays active     *)
(* (restart_terminated).                                                   *)
TerminatedAreRestarted ==
  \A e \in Ids :
    <>[](module = "up" /\ e \in Range(active))
      => []<>(\A i \in DOMAIN entries[e].procs : Alive(e, i))

(* An active entry has a process, alive or dead, for every interceptor:    *)
(* the health check passes over what is not in the dictionary, and no      *)
(* later list would start it.                                              *)
ActiveIsComplete ==
  \A e \in Range(active) : \A i \in DOMAIN entries[e].procs :
    entries[e].procs[i] # "none"

(* What the assertion at the head of start_interceptor is for              *)
(* (addon_manager.py:354-355): no process of the interceptor is alive when *)
(* another is started.                                                     *)
OneProcess ==
  \A e, f \in Ids : \A i \in DOMAIN entries[e].procs :
    entries[e].addon = entries[f].addon /\ Alive(e, i) /\ Alive(f, i) => e = f

(* As long as the handlers and the health check did not get in each        *)
(* other's way and the module did not fail, every live process belongs to  *)
(* an active entry or to one being started, and an interceptor has one.    *)
SoleProcessUnlessOverlap ==
  ~overlap => OneProcess /\ \A e \in Ids : SomeAlive(e) => e \in InUse
=============================================================================
