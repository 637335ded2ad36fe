------------------------------- MODULE Master -------------------------------
(***************************************************************************)
(* The master (modules/master.py) starts the modules, one process each,    *)
(* and routes every event between them and to the addons' processes, one   *)
(* after the other.  An addon's process makes its queue known by an event; *)
(* the master connects to it at once.  When a module's process is dead, or *)
(* on an interrupt (SIGINT reaches all processes), it stops: it closes the *)
(* modules' queues, gives them five seconds and kills what is left, the    *)
(* logger last.                                                            *)
(*                                                                         *)
(* An event to modules leaves no trace here: their queues (module          *)
(* QueueServer) take what they get, whether or not somebody receives it.   *)
(***************************************************************************)
EXTENDS Naturals, Sequences

CONSTANTS
    Modules,        \* the modules but for the logger
    Logger,
    Classes,        \* the addons' interceptor classes
    MaxInbox,       \* bound: events in the master's queue
    MaxGeneration,  \* bound: how often a process of an addon is started
    MaxDeaths,      \* bound: processes of modules that die
    MaxInterrupts

ASSUME MasterAssumption ==
    /\ Logger \notin Modules
    /\ MaxInbox \in Nat /\ MaxGeneration \in Nat /\ MaxDeaths \in Nat /\ MaxInterrupts \in Nat

VARIABLES
    master,         \* what the master does
    inbox,          \* master_queue
    event,          \* the event it routes
    module,         \* the modules' processes: "up", "dead" or "done" (on_terminate ran)
    generation,     \* per class, how many processes announced a queue
    running,        \* those that run, as <<class, generation>>; a class may have several
    closed,         \* queues (of class and generation) closed by their process
    addons,         \* self.addons: per class the generation of the queue, 0 is none
    deaths, interrupts

masterVars == <<master, inbox, event, module, generation, running, closed, addons, deaths,
                interrupts>>

addonProcesses == <<generation, running, closed>>

Everyone == Modules \cup {Logger}
NoEvent == [kind |-> "none"]

MasterInit ==
    /\ master = "check" /\ inbox = <<>> /\ event = NoEvent
    /\ module = [m \in Everyone |-> "up"]
    /\ generation = [c \in Classes |-> 0] /\ running = {} /\ closed = {}
    /\ addons = [c \in Classes |-> 0]
    /\ deaths = 0 /\ interrupts = 0

-----------------------------------------------------------------------------
(* The other processes.                                                    *)

\* Modules have something to tell each other again and again.
ModuleSends(m) ==
    /\ module[m] = "up" /\ inbox = <<>>
    /\ inbox' = <<[kind |-> "module"]>>
    /\ UNCHANGED <<master, event, module, addonProcesses, addons, deaths, interrupts>>

\* The bridge sends an addon its configuration.
ConfigSent(c) ==
    /\ Len(inbox) < MaxInbox
    /\ inbox' = Append(inbox, [kind |-> "addon", class |-> c])
    /\ UNCHANGED <<master, event, module, addonProcesses, addons, deaths, interrupts>>

\* A process of an addon opens a queue of its own and announces it.  The addon
\* manager may start one while another of the class runs (module AddonManager,
\* OneProcess).
AddonStarts(c) ==
    /\ generation[c] < MaxGeneration /\ Len(inbox) < MaxInbox
    /\ generation' = [generation EXCEPT ![c] = @ + 1]
    /\ running' = running \cup {<<c, generation[c] + 1>>}
    /\ inbox' = Append(inbox, [kind |-> "queue", class |-> c, of |-> generation[c] + 1])
    /\ UNCHANGED <<master, event, module, closed, addons, deaths, interrupts>>

\* It ends, and with it its queue; or it is killed, and the queue's own process
\* goes on, taking events for ever.
AddonEnds(c) ==
    /\ \E g \in 1 .. generation[c] :
         /\ <<c, g>> \in running /\ running' = running \ {<<c, g>>}
         /\ \/ closed' = closed \cup {<<c, g>>}
            \/ UNCHANGED closed
    /\ UNCHANGED <<master, inbox, event, module, generation, addons, deaths, interrupts>>

ModuleDies(m) ==
    /\ module[m] = "up" /\ deaths < MaxDeaths /\ deaths' = deaths + 1
    /\ module' = [module EXCEPT ![m] = "dead"]
    /\ UNCHANGED <<master, inbox, event, addonProcesses, addons, interrupts>>

\* After SIGINT a module runs on_terminate and ends; the logger ignores it.
ModuleTerminates(m) ==
    /\ interrupts > 0 /\ module[m] = "up"
    /\ module' = [module EXCEPT ![m] = "done"]
    /\ UNCHANGED <<master, inbox, event, addonProcesses, addons, deaths, interrupts>>

-----------------------------------------------------------------------------
(* The master.                                                             *)

Proceeds(to) ==
    /\ master' = to
    /\ UNCHANGED <<addonProcesses, deaths, interrupts>>

\* workers_up, once per event: a death is noticed after the next one.
AlwaysUp == TRUE                                                     \* mutant
WorkersUp == \A m \in Everyone : module[m] = "up"

Check ==
    /\ master = "check"
    /\ Proceeds(IF WorkersUp THEN "get" ELSE "stop")
    /\ UNCHANGED <<inbox, event, module, addons>>

Get ==
    /\ master = "get" /\ inbox # <<>>
    /\ event' = Head(inbox) /\ inbox' = Tail(inbox)
    /\ Proceeds("route")
    /\ UNCHANGED <<module, addons>>

Routes(to) == master = "route" /\ event' = NoEvent /\ Proceeds(to) /\ UNCHANGED <<inbox, module>>

RouteToModule ==
    /\ event.kind = "module"
    /\ Routes("check") /\ UNCHANGED addons

\* route_addons_event: a queue that is closed is forgotten.
RouteToAddon ==
    /\ event.kind = "addon"
    /\ Routes("check")
    /\ addons' = IF <<event.class, addons[event.class]>> \in closed
                 THEN [addons EXCEPT ![event.class] = 0] ELSE addons

KeepFirst(c, new) == IF addons[c] = 0 THEN new ELSE addons[c]         \* mutant
QueueOf(c, new) == new

\* ADDONQUEUE replaces the queue of the class.  Connecting to one that is not
\* there any more waits for ever, or fails when it disappears just now: then
\* the master stops.
RouteQueue ==
    /\ event.kind = "queue"
    /\ LET c == event.class
       IN IF <<c, event.of>> \in closed
          THEN /\ Routes("hung") \/ Routes("stop")
               /\ addons' = [addons EXCEPT ![c] = 0]
          ELSE /\ Routes("check")
               /\ addons' = [addons EXCEPT ![c] = QueueOf(c, event.of)]

\* kill_workers: the queues are closed and five seconds go by; what is left is
\* killed.  Then the logger is, which must be the only one left: if that is dead
\* already the assertion fails, its queue is not closed, and the master waits
\* for the process of that queue before it exits.
Kill ==
    /\ master = "stop"
    /\ module' = [m \in Everyone |-> IF m # Logger /\ module[m] = "up" THEN "dead" ELSE module[m]]
    /\ Proceeds("killed")
    /\ UNCHANGED <<inbox, event, addons>>

KillLogger ==
    /\ master = "killed"
    /\ \/ /\ module[Logger] = "up"
          /\ module' = [module EXCEPT ![Logger] = "dead"]
          /\ Proceeds("ended")
       \/ /\ module[Logger] = "dead"
          /\ Proceeds("joins") /\ UNCHANGED module
    /\ UNCHANGED <<inbox, event, addons>>

\* SIGINT leaves the loop wherever it is.  While the master stops it breaks
\* that off: it waits for processes that ignore SIGINT and that nobody ends now.
Interrupt ==
    /\ master # "ended" /\ interrupts < MaxInterrupts /\ interrupts' = interrupts + 1
    /\ master' = IF master \in {"stop", "killed", "joins"} THEN "joins" ELSE "stop"
    /\ event' = NoEvent
    /\ UNCHANGED <<inbox, module, addonProcesses, addons, deaths>>

MasterStep == Check \/ Get \/ RouteToModule \/ RouteToAddon \/ RouteQueue \/ Kill \/ KillLogger

-----------------------------------------------------------------------------

MasterNext ==
    \/ MasterStep \/ Interrupt
    \/ \E m \in Modules : ModuleSends(m) \/ ModuleTerminates(m)
    \/ \E m \in Everyone : ModuleDies(m)
    \/ \E c \in Classes : ConfigSent(c) \/ AddonStarts(c) \/ AddonEnds(c)

\* The master runs, and the modules do not fall silent.
MasterFairness ==
    /\ WF_masterVars(MasterStep)
    /\ \A m \in Modules : WF_masterVars(ModuleSends(m))

MasterSpec == MasterInit /\ [][MasterNext]_masterVars /\ MasterFairness

-----------------------------------------------------------------------------
(* Properties.                                                             *)

MasterTypeOK ==
    /\ master \in {"check", "get", "route", "hung", "stop", "killed", "joins", "ended"}
    /\ module \in [Everyone -> {"up", "dead", "done"}]
    /\ addons \in [Classes -> 0 .. MaxGeneration]
    /\ \A c \in Classes : addons[c] <= generation[c]
    /\ (event # NoEvent) = (master = "route")

\* Once its announcement is dealt with the process that announced itself last gets
\* the events of its class as long as it runs, not an older one, whether that still
\* runs or only its queue is there.  (An older one that runs gets none any more, even
\* after the newest has ended.)
Current == {c \in Classes : <<c, generation[c]>> \in running}

RunningIsAddressed ==
    \A c \in Current :
        \/ addons[c] = generation[c]
        \/ [kind |-> "queue", class |-> c, of |-> generation[c]] = event
        \/ \E i \in DOMAIN inbox : inbox[i] = [kind |-> "queue", class |-> c, of |-> generation[c]]
        \/ master \in {"hung", "stop", "killed", "joins", "ended"}

\* The master does not exit before every module's process is dead; it never
\* exits if an interrupt came while it stopped, or if the logger died before.
NobodyLeftBehind ==
    /\ master = "ended" => \A m \in Everyone : module[m] # "up"
    /\ master = "joins" => interrupts > 0 \/ module[Logger] = "dead"

MasterSettled == RunningIsAddressed /\ NobodyLeftBehind

\* A module whose process died stops the watchdog, so does an interrupt: unless
\* the master waits for the queue of an addon that is gone or for processes
\* nobody ends, or no module is left whose event would wake it.
StopsWhenItMust ==
    (interrupts > 0 \/ \E m \in Everyone : module[m] = "dead") ~>
        (master \in {"ended", "hung", "joins"} \/ \A m \in Modules : module[m] # "up")

=============================================================================
