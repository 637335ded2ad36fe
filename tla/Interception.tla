---------------------------- MODULE Interception ----------------------------
(***************************************************************************)
(* Which packets the watchdog keeps from being forwarded.  An addon        *)
(* registers a traffic filter (AddonFilterManager, modules/addon_manager); *)
(* exclusive and blocking ones withhold packets, the others only watch.    *)
(* The filters of an addon travel through the master to the addon manager, *)
(* which merges those of all addons, and on to the interceptor             *)
(* (modules/interceptor): it compiles the negation of their disjunction    *)
(* with tcpdump and attaches it to the socket it forwards from.            *)
(*                                                                         *)
(* Every event has a handler of its own.  Handlers start in order; they    *)
(* suspend while tcpdump runs, and then attach to the socket they saw      *)
(* before.  One interceptor stands for the four, which do the same.        *)
(*                                                                         *)
(* Manager and interceptor start anew after an exception (Worker.starter,  *)
(* master.py), while the addons' processes go on: then the manager knows   *)
(* of no filter, until the addons change theirs.                           *)
(***************************************************************************)
EXTENDS Naturals, Sequences

CONSTANTS
    Owners,         \* the interceptor classes of the addons, by which filters are kept
    Processes,      \* bound: of each class some, numbered, one after another or at once
    Filters,        \* traffic filters
    Watching,       \* those that are registered as not exclusive
    Broken,         \* those that tcpdump cannot compile
    Absent,         \* no filter, no socket
    Compilers,      \* bound: as many handlers of the interceptor at once
    MaxChanges,     \* bound: registrations and removals of filters
    MaxAddress,     \* bound: addresses the box gets
    MaxFailures     \* bound: exceptions in manager and interceptor, deaths of addons' processes

ASSUME InterceptionAssumption ==
    /\ Absent \notin Filters \cup [serial : Nat, conf : Nat, filters : SUBSET Filters]
    /\ Watching \subseteq Filters /\ Broken \subseteq Filters
    /\ Processes \subseteq Owners \X Nat /\ \A o \in Owners : <<o, 1>> \in Processes
    /\ MaxChanges \in Nat /\ MaxAddress \in Nat /\ MaxFailures \in Nat

VARIABLES
    registered,     \* per process of an addon, its filter or Absent
    died,           \* processes that ended; what they had registered stays here
    voice,          \* history: per class, the process that announced filters last
    updates,        \* ADDONFILTERS events of addons on the way to the manager
    merged,         \* the manager's dictionaries: per class its last filters
    forwards,       \* handlers of the manager that are about to send them on
    orders,         \* ADDONFILTERS events on the way to the interceptor
    stale,          \* modules with a connection of their previous instance
    forgotten,      \* history: classes whose last filters the manager lost
    ordered,        \* history: what the manager sent last
    mute,           \* history: it started anew and sent nothing since
    address,        \* the box's address: how often it changed
    conf,           \* the one the interceptor knows, 0 at first
    sock,           \* recv_socket, with what is attached to it, or Absent
    listener,       \* packet_listener: at "asleep", "attach" or "run"
    reload,
    job,            \* the handlers of the interceptor
    started,        \* how many of them were started
    behind,         \* the socket's filters are not those of the last event
    missed,         \* a nodeconfig came while the listener attached its filter
    changes, failures

addonSide == <<registered, died, voice, changes>>
managerSide == <<merged, forwards, ordered, mute>>
between   == <<updates, forgotten, managerSide, orders>>
boxSide   == <<conf, sock, listener, reload, job, started, behind, missed>>

icVars == <<addonSide, between, stale, address, boxSide, failures>>

Rest == [at |-> "rest"]

InterceptionInit ==
    /\ registered = [p \in Processes |-> Absent] /\ died = {} /\ voice = [o \in Owners |-> 1]
    /\ updates = <<>> /\ merged = [o \in Owners |-> {}] /\ forwards = 0 /\ orders = <<>>
    /\ stale = {} /\ forgotten = {} /\ ordered = {} /\ mute = FALSE
    /\ address = 1 /\ conf = 0
    /\ sock = Absent /\ listener = [at |-> "asleep"] /\ reload = FALSE
    /\ job = [c \in Compilers |-> Rest] /\ started = 0
    /\ behind = FALSE /\ missed = FALSE
    /\ changes = 0 /\ failures = 0

-----------------------------------------------------------------------------
(* The addons' processes.                                                  *)

\* update_filters: all filters of a process, block_filters and active_filters
\* together; the passive ones are sent too and not used by anyone.  They bear
\* the name of the class.
NoneToo(f) == {f} \ Watching                                         \* mutant
Active(f) == {f} \ (Watching \cup {Absent})

Announce(p, f) ==
    /\ p \notin died
    /\ changes < MaxChanges /\ changes' = changes + 1
    /\ registered' = [registered EXCEPT ![p] = f]
    /\ voice' = [voice EXCEPT ![p[1]] = p[2]]
    /\ updates' = Append(updates, [owner |-> p[1], filters |-> Active(f)])
    /\ forgotten' = forgotten \ {p[1]}
    /\ UNCHANGED <<died, managerSide, orders, stale, address, boxSide, failures>>

Register(p, f) == registered[p] = Absent /\ Announce(p, f)
Unregister(p)  == registered[p] # Absent /\ Announce(p, Absent)

\* The process ends: by itself, or because its addon is deactivated.  Nobody
\* tells the manager that its filters are void, until another process of the
\* class has some.
OwnerDies(p) ==
    /\ failures < MaxFailures /\ failures' = failures + 1
    /\ registered[p] # Absent /\ p \notin died
    /\ died' = died \cup {p}
    /\ UNCHANGED <<registered, voice, changes, between, stale, address, boxSide>>

-----------------------------------------------------------------------------
(* The addon manager.                                                      *)

OnlyThisOne(o, filters) == [p \in Owners |-> IF p = o THEN filters ELSE {}]  \* mutant
Merge(o, filters) == [merged EXCEPT ![o] = filters]

OnUpdate ==
    /\ updates # <<>>
    /\ merged' = Merge(Head(updates).owner, Head(updates).filters)
    /\ updates' = Tail(updates)
    /\ forwards' = forwards + 1
    /\ UNCHANGED <<forgotten, ordered, mute, orders, addonSide, stale, address, boxSide, failures>>

\* After a word to the logger: what is sent is what is known by now.
Forward ==
    /\ forwards > 0 /\ forwards' = forwards - 1
    /\ ordered' = UNION {merged[o] : o \in Owners} /\ mute' = FALSE
    /\ orders' = Append(orders, ordered')
    /\ UNCHANGED <<updates, forgotten, merged, addonSide, stale, address, boxSide, failures>>

Waiting(o) == \E i \in DOMAIN updates : updates[i].owner = o

\* An exception in the health check or the listener.  run() starts with empty
\* dictionaries; the handlers do not go on; what waits in the module's queue
\* still comes, and the addons' processes do not learn of it.
ManagerFails ==
    /\ failures < MaxFailures /\ failures' = failures + 1
    /\ merged' = [o \in Owners |-> {}] /\ forwards' = 0 /\ mute' = TRUE
    /\ forgotten' = forgotten \cup {o \in Owners : ~Waiting(o) /\ merged[o] # {}}
    /\ stale' = stale \cup {"manager"}
    /\ UNCHANGED <<addonSide, updates, ordered, orders, address, boxSide>>

\* An event goes to the connection that the previous instance did not close.
UpdateLost ==
    /\ "manager" \in stale /\ updates # <<>>
    /\ updates' = Tail(updates)
    /\ LET o == Head(updates).owner
       IN forgotten' = IF \E i \in DOMAIN updates' : updates'[i].owner = o
                       THEN forgotten ELSE forgotten \cup {o}
    /\ UNCHANGED <<addonSide, managerSide, orders, stale, address, boxSide, failures>>

-----------------------------------------------------------------------------
(* The interceptor.                                                        *)

AddressChanges ==
    /\ address < MaxAddress /\ address' = address + 1
    /\ UNCHANGED <<addonSide, between, stale, boxSide, failures>>

\* The broadcast of the ARP listener has news.
OnNewAddress ==
    /\ conf # address /\ conf' = address
    /\ reload' = TRUE
    /\ missed' = (missed \/ listener.at = "attach")
    /\ UNCHANGED <<addonSide, between, stale, address, sock, listener, job, started, behind, failures>>

\* packet_listener opens a socket, the first time or, with the next packet,
\* because of a reload; and compiles a filter that only keeps the box's own
\* packets out.
Open ==
    /\ \/ listener.at = "asleep" /\ conf # 0
       \/ listener.at = "run" /\ reload
    /\ sock' = [serial |-> IF sock = Absent THEN 1 ELSE sock.serial + 1, conf |-> 0, filters |-> {}]
    /\ listener' = [at |-> "attach", conf |-> conf]
    /\ UNCHANGED <<addonSide, between, stale, address, conf, reload, job, started, behind,
                   missed, failures>>

\* It attaches that filter, over whatever a handler attached meanwhile, and
\* forgets a reload that was asked for meanwhile.
Attach ==
    /\ listener.at = "attach"
    /\ sock' = [sock EXCEPT !.conf = listener.conf, !.filters = {}]
    /\ listener' = [at |-> "run"] /\ reload' = FALSE
    /\ behind' = (started > 0)
    /\ UNCHANGED <<addonSide, between, stale, address, conf, job, started, missed, failures>>

\* What a handler compiles, and for which socket (Absent when there is none).
Compiling(order) ==
    [at |-> "compile", order |-> order, conf |-> conf,
     serial |-> IF sock = Absent THEN 0 ELSE sock.serial]

\* A handler starts; it waits for the first nodeconfig.
OnOrder(c) ==
    /\ orders # <<>> /\ job[c] = Rest
    /\ started' = started + 1
    /\ LET order == [filters |-> Head(orders), number |-> started + 1]
       IN job' = [job EXCEPT ![c] = IF conf = 0 THEN [at |-> "wait", order |-> order]
                                    ELSE Compiling(order)]
    /\ orders' = Tail(orders)
    /\ behind' = TRUE
    /\ UNCHANGED <<updates, forgotten, managerSide, addonSide, stale, address, conf, sock, listener,
                   reload, missed, failures>>

OrderLost ==
    /\ "interceptor" \in stale /\ orders # <<>>
    /\ started' = started + 1 /\ orders' = Tail(orders)
    /\ behind' = TRUE
    /\ UNCHANGED <<updates, forgotten, managerSide, addonSide, stale, address, conf, sock, listener,
                   reload, job, missed, failures>>

\* The listener waits for it longer, so it has its socket by then.
Wake(c) ==
    /\ job[c].at = "wait" /\ sock # Absent
    /\ job' = [job EXCEPT ![c] = Compiling(job[c].order)]
    /\ UNCHANGED <<addonSide, between, stale, address, conf, sock, listener, reload, started,
                   behind, missed, failures>>

\* It attaches what it has compiled: unless one of the filters does not
\* compile, or the socket was closed or not there yet.  Then they are lost,
\* those of the other addons too.
Compiled(c) ==
    /\ job[c].at = "compile"
    /\ LET order == job[c].order
       IN IF order.filters \cap Broken = {} /\ sock # Absent /\ job[c].serial = sock.serial
          THEN /\ sock' = [sock EXCEPT !.conf = job[c].conf, !.filters = order.filters]
               /\ behind' = (order.number # started)
          ELSE UNCHANGED <<sock, behind>>
    /\ job' = [job EXCEPT ![c] = Rest]
    /\ UNCHANGED <<addonSide, between, stale, address, conf, listener, reload, started, missed,
                   failures>>

\* An exception in packet_listener, from the socket: the module starts anew.
InterceptorFails ==
    /\ failures < MaxFailures /\ failures' = failures + 1
    /\ listener.at # "asleep"
    /\ conf' = 0 /\ sock' = Absent /\ listener' = [at |-> "asleep"] /\ reload' = FALSE
    /\ job' = [c \in Compilers |-> Rest]
    /\ behind' = (started > 0) /\ missed' = FALSE
    /\ stale' = stale \cup {"interceptor"}
    /\ UNCHANGED <<addonSide, between, address, started>>

-----------------------------------------------------------------------------

InterceptionNext ==
    \/ \E p \in Processes : Unregister(p) \/ OwnerDies(p) \/ \E f \in Filters : Register(p, f)
    \/ OnUpdate \/ Forward \/ ManagerFails \/ UpdateLost
    \/ AddressChanges \/ OnNewAddress \/ Open \/ Attach \/ InterceptorFails \/ OrderLost
    \/ \E c \in Compilers : OnOrder(c) \/ Wake(c) \/ Compiled(c)

InterceptionSpec == InterceptionInit /\ [][InterceptionNext]_icVars

-----------------------------------------------------------------------------
(* Properties.                                                             *)

InterceptionTypeOK ==
    /\ registered \in [Processes -> Filters \cup {Absent}] /\ died \subseteq Processes
    /\ voice \in [Owners -> Nat] /\ (\A o \in Owners : <<o, voice[o]>> \in Processes) /\ forgotten \subseteq Owners
    /\ merged \in [Owners -> SUBSET Filters]
    /\ conf \in 0 .. address /\ (conf = 0 => listener.at = "asleep")
    /\ sock = Absent <=> listener.at = "asleep"

\* With no update under way the last order, which all classes share, withholds what
\* every class's process said last it takes or blocks, and nothing else: living or
\* dead, its filters remain until another process of the class has spoken.  Except
\* that a manager that started anew forgot what it knew: of those classes it goes by
\* what they said since, and before anybody says anything it orders nothing.
OrdersFollow ==
    updates = <<>> /\ forwards = 0 /\ ~mute =>
        ordered = UNION {IF o \in forgotten THEN merged[o]
                         ELSE Active(registered[<<o, voice[o]>>]) : o \in Owners}

\* When no order is under way the socket withholds what the last one says, whether or
\* not the manager still knows of it: unless that did not get to the socket (a filter
\* does not compile, the socket was replaced, an older handler was slower, the event
\* went to a connection nobody reads).
SocketFollows ==
    orders = <<>> /\ listener.at = "run" /\ (\A c \in Compilers : job[c] = Rest) /\ ~behind =>
        sock.filters = ordered

\* The box's own packets are kept out, by the address it has now as far as the
\* interceptor knows: unless that changed while the listener attached its filter.
OwnPacketsKeptOut ==
    listener.at = "run" /\ ~reload => sock.conf = conf \/ missed

InterceptionSettled == OrdersFollow /\ SocketFollows /\ OwnPacketsKeptOut

=============================================================================
