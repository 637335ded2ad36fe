------------------------------ MODULE Spoofer -------------------------------
(***************************************************************************)
(* The ARP spoofer of the watchdog (modules/spoofer.py and                 *)
(* network/arpspoof.py) inside the restart loop of its process             *)
(* (modules/master.py, Worker.starter).                                    *)
(*                                                                         *)
(* Two coroutines share the attributes of the module: event_listener       *)
(* follows the NODECONFIG and WHITELIST events, spoof sends the packets    *)
(* they ask for, round after round.  SIGINT makes the process run          *)
(* on_terminate on the SAME event loop, so the two coroutines go on while  *)
(* it restores.  The effect of a packet is kept per device: whose entry    *)
(* for which other device points to the watchdog.                          *)
(***************************************************************************)
EXTENDS Naturals, Sequences, FiniteSets

CONSTANTS
  Devices,     (* the devices of the home network                          *)
  NodeLists,   (* the node lists that NODECONFIG events carry              *)
  Blacklists,  (* the device sets that WHITELIST events carry              *)
  MaxEvents,   (* bound: events received                                   *)
  MaxFails,    (* bound: exceptions raised in the module                   *)
  ShutdownBudget, (* how many device pairs on_terminate restores before the
                     master's process_shutdown_timeout ends                *)
  None

ASSUME SpooferAssumption ==
  /\ NodeLists \subseteq Seq(Devices)
  /\ \A ns \in NodeLists : \A i, j \in 1..Len(ns) : i # j => ns[i] # ns[j]
  /\ Blacklists \subseteq SUBSET Devices
  /\ MaxEvents \in Nat /\ MaxFails \in Nat /\ ShutdownBudget \in Nat
  /\ None \notin Seq(Devices) /\ \A B \in SUBSET Devices : B # None

VARIABLES
  broadcast,  (* config spoofer.arp_broadcast, TRUE unless it says otherwise *)
  proc,       (* the process: "running", "error" (in the 3 s sleep),
                 "terminating", "exited", "crashed" or "killed"            *)
  tasks,      (* the coroutines of the event loop that are not finished    *)
  onodes,     (* locals of event_listener                                  *)
  nodes,
  listener,   (* "get", or "log" while it is suspended in the logger       *)
  blacklist,  (* attributes of the module                                  *)
  cnodes,     (* self.nodes                                                *)
  packets,    (* self.packets, one entry per pair (receiver, to_spoof)     *)
  iname,      (* self.iname, here: is there one                            *)
  spoof,      (* spoof(): "idle" (lines 56-57), "check" (before the test of
                 the inner loop) or "sending" (in the for loop)            *)
  todo,       (* what is left of the list its for loop iterates over       *)
  restore,    (* pairs that on_terminate still has to restore              *)
  arp,        (* arp[d][e]: does d's ARP entry for e point to the watchdog *)
  quiet,      (* history: no other coroutine ran since the SIGINT          *)
  nevents, nfails   (* counters for the bounds                             *)

attributes == <<blacklist, cnodes, packets, iname>>
listenerVars == <<onodes, nodes, listener>>
spoofVars == <<spoof, todo>>

vars == <<broadcast, proc, tasks, listenerVars, attributes, spoofVars, restore, arp,
          quiet, nevents, nfails>>

(* run(): what a fresh module instance starts with.                        *)
FreshModule ==
  /\ onodes' = None /\ nodes' = <<>> /\ listener' = "get"
  /\ blacklist' = None
  /\ cnodes' = <<>> /\ packets' = <<>> /\ iname' = FALSE
  /\ spoof' = "idle" /\ todo' = <<>>
  /\ tasks' = {"listener", "spoof"}

Init ==
  /\ broadcast \in BOOLEAN
  /\ proc = "running"
  /\ tasks = {"listener", "spoof"}
  /\ onodes = None /\ nodes = <<>> /\ listener = "get"
  /\ blacklist = None
  /\ cnodes = <<>> /\ packets = <<>> /\ iname = FALSE
  /\ spoof = "idle" /\ todo = <<>>
  /\ restore = <<>>
  /\ arp = [d \in Devices |-> [e \in Devices |-> FALSE]]
  /\ quiet = TRUE
  /\ nevents = 0 /\ nfails = 0

(* itertools.permutations(nodes, 2), in its order.                         *)
Combinations2(ns) ==                                             \* mutant
  LET n == Len(ns) IN
  [k \in 1..(n - 1) |-> <<ns[k], ns[k + 1]>>]

Permutations2(ns) ==
  LET n == Len(ns) IN
  [k \in 1..(n * (n - 1)) |->
     LET i == ((k - 1) \div (n - 1)) + 1
         m == ((k - 1) % (n - 1)) + 1
     IN  <<ns[i], ns[IF m < i THEN m ELSE m + 1]>>]

(* build_arp_packets and its sending: a reply to the receiver, and to      *)
(* everybody when broadcasts are on, that says where to_spoof is.  Devices *)
(* take over what a reply says.                                            *)
Hears(receiver, to_spoof) ==
  IF broadcast THEN Devices \ {to_spoof} ELSE {receiver}

SendArp(pair, spoofed) ==
  arp' = [d \in Devices |->
            IF d \in Hears(pair[1], pair[2])
            THEN [arp[d] EXCEPT ![pair[2]] = spoofed] ELSE arp[d]]

(* The event loop runs in the module's main loop and in on_terminate.      *)
LoopRuns(t) == proc \in {"running", "terminating"} /\ t \in tasks

Unquiet == quiet' = (quiet /\ proc # "terminating")

-----------------------------------------------------------------------------
(* event_listener.                                                         *)

(* list(filter(...)): the k-th node that is left is the one up to which    *)
(* there are k of them.                                                    *)
Without(ns, bl) ==
  LET kept == {i \in 1..Len(ns) : ns[i] \notin bl} IN
  [k \in 1..Cardinality(kept) |->
     ns[CHOOSE i \in kept : Cardinality({j \in kept : j <= i}) = k]]

NotBlacklisted(ns, bl) == IF bl = None THEN ns ELSE Without(ns, bl)

(* The common end of both branches, lines 35-47: with something to spoof   *)
(* it first awaits the logger, without it the attributes change at once.   *)
Reconfigure(ns) ==
  IF ns # <<>> /\ onodes' # None
  THEN /\ listener' = "log"
       /\ UNCHANGED <<packets, iname>>
  ELSE /\ packets' = <<>>
       /\ iname' = FALSE
       /\ UNCHANGED listener

OnNodeconfig(ns) ==
  /\ LoopRuns("listener") /\ listener = "get"
  /\ nevents < MaxEvents
  /\ nevents' = nevents + 1
  /\ onodes' = ns
  /\ nodes' = NotBlacklisted(ns, blacklist)
  /\ Reconfigure(nodes')
  /\ Unquiet
  /\ UNCHANGED <<broadcast, proc, tasks, blacklist, cnodes, spoofVars, restore, arp, nfails>>

OldNodesKept(bl) == nodes                                        \* mutant

Refiltered(bl) == IF onodes # None THEN NotBlacklisted(onodes, bl) ELSE nodes

OnWhitelist(bl) ==
  /\ LoopRuns("listener") /\ listener = "get"
  /\ nevents < MaxEvents
  /\ nevents' = nevents + 1
  /\ blacklist' = bl
  /\ nodes' = Refiltered(bl)
  /\ UNCHANGED onodes
  /\ Reconfigure(nodes')
  /\ Unquiet
  /\ UNCHANGED <<broadcast, proc, tasks, cnodes, spoofVars, restore, arp, nfails>>

(* Back from the logger: lines 42-44.                                      *)
Configure ==
  /\ LoopRuns("listener") /\ listener = "log"
  /\ listener' = "get"
  /\ cnodes' = nodes
  /\ packets' = Permutations2(nodes)
  /\ iname' = TRUE
  /\ Unquiet
  /\ UNCHANGED <<broadcast, proc, tasks, onodes, nodes, blacklist, spoofVars, restore, arp,
                 nevents, nfails>>

-----------------------------------------------------------------------------
(* spoof.                                                                  *)

WhitelistNotAwaited == iname                                     \* mutant

MaySpoof == iname /\ blacklist # None

SpoofStart ==
  /\ LoopRuns("spoof") /\ spoof = "idle"
  /\ MaySpoof
  /\ spoof' = "check"
  /\ Unquiet
  /\ UNCHANGED <<broadcast, proc, tasks, listenerVars, attributes, todo, restore, arp,
                 nevents, nfails>>

(* Awake from the logger or from REFRESH_INTERVAL: test `self.iname ==     *)
(* iname`, start the for loop over the current self.packets and send the   *)
(* packets of its first pair, all before the next suspension.  The loop    *)
(* keeps the list it started with.                                         *)
SpoofRound ==
  /\ LoopRuns("spoof") /\ spoof = "check"
  /\ \/ /\ ~iname
        /\ spoof' = "idle"
        /\ UNCHANGED <<todo, arp>>
     \/ /\ iname /\ packets # <<>>
        /\ SendArp(Head(packets), TRUE)
        /\ todo' = Tail(packets)
        /\ spoof' = "sending"
  /\ Unquiet
  /\ UNCHANGED <<broadcast, proc, tasks, listenerVars, attributes, restore, nevents, nfails>>

(* Awake from PACKET_INTERVAL: the next pair.                              *)
SpoofSend ==
  /\ LoopRuns("spoof") /\ spoof = "sending" /\ todo # <<>>
  /\ SendArp(Head(todo), TRUE)
  /\ todo' = Tail(todo)
  /\ Unquiet
  /\ UNCHANGED <<broadcast, proc, tasks, listenerVars, attributes, spoof, restore,
                 nevents, nfails>>

SpoofRoundDone ==
  /\ LoopRuns("spoof") /\ spoof = "sending" /\ todo = <<>>
  /\ spoof' = "check"
  /\ Unquiet
  /\ UNCHANGED <<broadcast, proc, tasks, listenerVars, attributes, todo, restore, arp,
                 nevents, nfails>>

-----------------------------------------------------------------------------
(* The devices, which are not part of the repository: the owner of an      *)
(* address answers too, and entries expire.  Until the next packet the     *)
(* entry is right, which is why spoof() goes on round after round.  When   *)
(* the module does not run this could only add to what it restores.        *)
Corrected(d, e) ==
  /\ proc = "running"
  /\ arp[d][e] /\ arp' = [arp EXCEPT ![d][e] = FALSE]
  /\ UNCHANGED <<broadcast, proc, tasks, listenerVars, attributes, spoofVars, restore, quiet,
                 nevents, nfails>>

-----------------------------------------------------------------------------
(* The process: Worker.starter.                                            *)

(* An exception in a coroutine (the network is gone, the queue is closed)  *)
(* ends run(); the other coroutine stays pending in the loop.              *)
Fail(t) ==
  /\ proc = "running" /\ t \in tasks
  /\ nfails < MaxFails
  /\ nfails' = nfails + 1
  /\ tasks' = tasks \ {t}
  /\ proc' = "error"
  /\ UNCHANGED <<broadcast, listenerVars, attributes, spoofVars, restore, arp, quiet, nevents>>

(* After the sleep, a new loop and a new module instance.                  *)
Restart ==
  /\ proc = "error"
  /\ proc' = "running"
  /\ FreshModule
  /\ UNCHANGED <<broadcast, restore, arp, quiet, nevents, nfails>>

OneDirection(ns) == SelectSeq(Permutations2(ns), LAMBDA p : p[1] = ns[1]) \* mutant

RestoreList(ns) == Permutations2(ns) \o Permutations2(ns)

(* SIGINT, in the loop or in the sleep after an error: on_terminate is     *)
(* started on the old loop.  A coroutine that was executing when the       *)
(* signal arrived dies of the KeyboardInterrupt.  Nothing is done for less *)
(* than two nodes; bind() fails when there is no interface.                *)
Interrupt(dies) ==
  /\ proc \in {"running", "error"}
  /\ dies \subseteq (IF proc = "running" THEN tasks ELSE {})
  /\ tasks' = tasks \ dies
  /\ proc' = IF Len(cnodes) < 2 THEN "exited"
             ELSE IF iname THEN "terminating" ELSE "crashed"
  /\ restore' = IF proc' = "terminating" THEN RestoreList(cnodes) ELSE <<>>
  /\ UNCHANGED <<broadcast, listenerVars, attributes, spoofVars, arp, quiet, nevents, nfails>>

(* One pair of on_terminate; after the last the coroutine returns and the  *)
(* process exits.                                                          *)
Restore ==
  /\ proc = "terminating"
  /\ SendArp(Head(restore), FALSE)
  /\ restore' = Tail(restore)
  /\ proc' = IF Len(restore) = 1 THEN "exited" ELSE proc
  /\ UNCHANGED <<broadcast, tasks, listenerVars, attributes, spoofVars, quiet, nevents, nfails>>

(* Sending fails while restoring: the exception ends the process.          *)
RestoreFails ==
  /\ proc = "terminating"
  /\ nfails < MaxFails
  /\ nfails' = nfails + 1
  /\ proc' = "crashed"
  /\ UNCHANGED <<broadcast, tasks, listenerVars, attributes, spoofVars, restore, arp,
                 quiet, nevents>>

(* Master.kill_workers sends SIGKILL once its timeout is over.             *)
Sigkill ==
  /\ proc = "terminating"
  /\ 2 * Len(cnodes) * (Len(cnodes) - 1) - Len(restore) >= ShutdownBudget
  /\ proc' = "killed"
  /\ UNCHANGED <<broadcast, tasks, listenerVars, attributes, spoofVars, restore, arp,
                 quiet, nevents, nfails>>

-----------------------------------------------------------------------------
ListenerStep ==
  \/ \E ns \in NodeLists : OnNodeconfig(ns)
  \/ \E bl \in Blacklists : OnWhitelist(bl)
  \/ Configure

SpoofStep == SpoofStart \/ SpoofRound \/ SpoofSend \/ SpoofRoundDone

Next ==
  \/ ListenerStep
  \/ SpoofStep
  \/ \E t \in {"listener", "spoof"} : Fail(t)
  \/ Restart
  \/ \E dies \in {{}, {"listener"}, {"spoof"}} : Interrupt(dies)
  \/ Restore \/ RestoreFails
  \/ Sigkill
  \/ \E d, e \in Devices : Corrected(d, e)

(* The event loop runs what can run; nobody has to send events or signals. *)
Fairness == WF_vars(Configure) /\ WF_vars(SpoofStep) /\ WF_vars(Restore)

Spec == Init /\ [][Next]_vars /\ Fairness

-----------------------------------------------------------------------------
(* No device is redirected before the user's exclusions have arrived, in   *)
(* any incarnation of the module: the gate of line 56 holds although the   *)
(* two coroutines see the attributes between each other's suspensions.     *)
NoSpoofBeforeWhitelist ==
  [][\A d, e \in Devices : ~arp[d][e] /\ arp'[d][e] => blacklist # None]_vars

Excluded(d) == proc = "running" /\ blacklist # None /\ d \in blacklist

(* Nobody is redirected away from a device that stays excluded once the    *)
(* rounds under way are over, whether the exclusion came before or after   *)
(* the device list (lines 22-34) or while a round was running: what a      *)
(* device corrects about it stays so.  It is not redirected itself when    *)
(* broadcasts are off; with broadcasts, the default, it is, as everybody   *)
(* hears the packets for the others (arpspoof.py:35-38).                   *)
ExclusionTakesEffect ==
  \A d \in UNION Blacklists :
    <>[]Excluded(d) =>
      <>[][\A e \in Devices :
             /\ arp'[e][d] => arp[e][d]
             /\ ~broadcast /\ arp'[d][e] => arp[d][e]]_vars

(* Two devices that stay known and not excluded are redirected in both     *)
(* directions, again and again, however often they correct their entries.  *)
KnownDevicesAreSpoofed ==
  \A d \in Devices : \A e \in Devices \ {d} :
    <>[](/\ proc = "running" /\ MaySpoof
         /\ \E i, j \in 1..Len(cnodes) : cnodes[i] = d /\ cnodes[j] = e)
      => []<>(arp[d][e])

(* When nothing but on_terminate runs after the signal and it gets to its  *)
(* end, the nodes spoofed last see each other directly again (lines        *)
(* 89-102).                                                                *)
QuietTerminateRestores ==
  proc = "exited" /\ quiet
    => \A i, j \in 1..Len(cnodes) :
         i # j /\ Len(cnodes) >= 2 => ~arp[cnodes[i]][cnodes[j]]

(* What the docstring of on_terminate promises (spoofer.py:85-87):         *)
(* "Restore the arp configuration to the state before spoofer was          *)
(* launched".                                                              *)
TerminateRestoresArp ==
  proc = "exited" => \A d, e \in Devices : ~arp[d][e]
=============================================================================
