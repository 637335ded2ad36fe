----------------------------- MODULE Adblocker -----------------------------
(***************************************************************************)
(* The adblocker addon (adblocker_addon/adblocker.py): it takes the        *)
(* devices' DNS requests off the network and serves the others from a      *)
(* resolver of its own, asks a resolver over HTTPS, blanks the answers for *)
(* names on its lists, and reports how often it did.                       *)
(*                                                                         *)
(* Everything runs on one loop.  Requests wait for the tunnel side by side *)
(* and those of the resolver one after the other.  A download blocks the   *)
(* loop, but between two downloads requests go on.                         *)
(***************************************************************************)
EXTENDS Naturals, Sequences, FiniteSets

CONSTANTS
    Lists,          \* a sequence: the names on each of the blacklists
    Queries,        \* requests: records with name, device and via
    MaxUpdates,     \* bound: updates of the lists
    MaxCrashes      \* bound: ends of the addon's process

Anyone == "0.0.0.0"
Devices  == {q.device : q \in Queries}
Sources  == Devices \cup {Anyone}

ASSUME AdblockerAssumption ==
    /\ Lists \in Seq(SUBSET {q.name : q \in Queries})
    /\ \A q \in Queries : q.via \in {"interceptor", "resolver"} /\ q.device # Anyone
    /\ MaxUpdates \in Nat /\ MaxCrashes \in Nat

VARIABLES
    phase,          \* "registering", "updating", "resting", "ended"
    blacklist,      \* self.blacklist
    loaded,         \* how many lists this update has read
    asked,          \* what became of each request
    queue,          \* DNSResolver.data_queue, with the request being served
    respond,        \* whether the resolver's task lives
    stats,          \* self.stats
    report,         \* what statistics_loop took and has not reported yet
    reported,       \* the numbers in its notifications
    rounds,         \* updates of the lists so far
    crashes

adblockVars == <<phase, blacklist, loaded, asked, queue, respond, stats, report, reported, rounds, crashes>>

NoCounts == [s \in Sources |-> 0]

AdblockInit ==
    /\ phase = "registering" /\ blacklist = {} /\ loaded = 0
    /\ asked = [q \in Queries |-> "not yet"]
    /\ queue = <<>> /\ respond = TRUE
    /\ stats = NoCounts /\ report = NoCounts /\ reported = NoCounts
    /\ rounds = 0 /\ crashes = 0

-----------------------------------------------------------------------------
(* The lists.                                                              *)

\* update_blacklist begins with none; main calls it after both registrations.
UpdateBegins ==
    /\ phase \in {"registering", "resting"}
    /\ rounds < MaxUpdates /\ rounds' = rounds + 1
    /\ phase' = "updating" /\ blacklist' = {} /\ loaded' = 0
    /\ UNCHANGED <<asked, queue, respond, stats, report, reported, crashes>>

ListAfter(names) == blacklist \cup names

Download ==
    /\ phase = "updating"
    /\ loaded' = loaded + 1
    /\ blacklist' = ListAfter(Lists[loaded + 1])
    /\ phase' = IF loaded' = Len(Lists) THEN "resting" ELSE phase
    /\ UNCHANGED <<asked, queue, respond, stats, report, reported, rounds, crashes>>

\* A failed download ends main, and with it the process and what it knew.
ProcessEnds ==
    /\ crashes < MaxCrashes /\ crashes' = crashes + 1
    /\ phase = "updating" /\ phase' = "ended"
    /\ blacklist' = {} /\ loaded' = 0
    /\ asked' = [q \in Queries |-> IF asked[q] = "tunnel" THEN "lost" ELSE asked[q]]
    /\ queue' = <<>> /\ stats' = NoCounts /\ report' = NoCounts /\ reported' = NoCounts
    /\ UNCHANGED <<respond, rounds>>

\* The addon manager starts it anew.
Restarted ==
    /\ phase = "ended" /\ phase' = "registering" /\ respond' = TRUE
    /\ UNCHANGED <<blacklist, loaded, asked, queue, stats, report, reported, rounds, crashes>>

-----------------------------------------------------------------------------
(* Requests.                                                               *)

\* on_request runs once the listener is registered, the resolver after that.
Ask(q) ==
    /\ asked[q] = "not yet" /\ phase # "ended"
    /\ q.via = "resolver" => phase # "registering"
    /\ asked' = [asked EXCEPT ![q] = "tunnel"]
    /\ queue' = IF q.via = "resolver" THEN Append(queue, q) ELSE queue
    /\ UNCHANGED <<phase, blacklist, loaded, respond, stats, report, reported, rounds, crashes>>

Served(q) == asked[q] = "tunnel" /\ (q.via = "resolver" => respond /\ Head(queue) = q)
Dequeued(q) == IF q.via = "resolver" THEN Tail(queue) ELSE queue

CountedOnce(q) == {q.device}                                         \* mutant
CountedAs(q) == {q.device, Anyone}
Counted(q) == [s \in Sources |-> stats[s] + (IF s \in CountedAs(q) THEN 1 ELSE 0)]

\* process_request behind the tunnel.
Answer(q) ==
    /\ Served(q) /\ phase # "registering"
    /\ LET blocked == q.name \in blacklist
       IN /\ asked' = [asked EXCEPT ![q] = IF blocked THEN "blocked" ELSE "passed"]
          /\ stats' = IF blocked THEN Counted(q) ELSE stats
    /\ queue' = Dequeued(q)
    /\ UNCHANGED <<phase, blacklist, loaded, respond, report, reported, rounds, crashes>>

\* The tunnel fails, or there is no blacklist yet: a request of the network is
\* lost, one of the resolver ends its only task.
Fails(q) ==
    /\ Served(q) /\ phase # "ended"
    /\ asked' = [asked EXCEPT ![q] = "lost"]
    /\ queue' = Dequeued(q) /\ respond' = (respond /\ q.via = "interceptor")
    /\ UNCHANGED <<phase, blacklist, loaded, stats, report, reported, rounds, crashes>>

-----------------------------------------------------------------------------
(* statistics_loop.                                                        *)

ResetForgotten(s) == s                                               \* mutant
Emptied(s) == NoCounts

TakeStats ==
    /\ phase \in {"updating", "resting"} /\ report = NoCounts /\ stats # NoCounts
    /\ report' = stats /\ stats' = Emptied(stats)
    /\ UNCHANGED <<phase, blacklist, loaded, asked, queue, respond, reported, rounds, crashes>>

ReportOne(s) ==
    /\ report[s] > 0
    /\ reported' = [reported EXCEPT ![s] = @ + report[s]]
    /\ report' = [report EXCEPT ![s] = 0]
    /\ UNCHANGED <<phase, blacklist, loaded, asked, queue, respond, stats, rounds, crashes>>

AdblockNext ==
    \/ UpdateBegins \/ Download \/ ProcessEnds \/ Restarted \/ TakeStats
    \/ \E q \in Queries : Ask(q) \/ Answer(q) \/ Fails(q)
    \/ \E s \in Sources : ReportOne(s)

AdblockSpec == AdblockInit /\ [][AdblockNext]_adblockVars

-----------------------------------------------------------------------------
(* Properties.                                                             *)

\* Every blocked answer is counted once for its device and once for all, is
\* reported once, and stays so while reports are sent between the requests.
CountsAgree ==
    LET Total(s) == stats[s] + report[s] + reported[s]
    IN crashes = 0 =>
         /\ \A d \in Devices :
              Total(d) = Cardinality({q \in Queries : q.device = d /\ asked[q] = "blocked"})
         /\ Total(Anyone) = Cardinality({q \in Queries : asked[q] = "blocked"})

\* While no update runs the lists are complete: only an update lets ads through.
ListsComplete == phase = "resting" => blacklist = UNION {Lists[i] : i \in DOMAIN Lists}

\* The resolver's queue holds what it owes an answer, oldest first, and nothing else.
QueueOwed ==
    /\ {queue[i] : i \in DOMAIN queue} = {q \in Queries : q.via = "resolver" /\ asked[q] = "tunnel"}
    /\ Len(queue) = Cardinality({queue[i] : i \in DOMAIN queue})

AdblockSound == CountsAgree /\ ListsComplete /\ QueueOwed

=============================================================================
