---------------------------- MODULE DeviceReport ----------------------------
(***************************************************************************)
(* The bridge (modules/bridge.py) between the watchdog and the device      *)
(* control backend: every device that is reported to it becomes a request  *)
(* to register it and one request per property; what the user decides in   *)
(* the cloud comes back as the list of devices the spoofer leaves alone.   *)
(*                                                                         *)
(* Requests and answers go over one websocket (module BackendWS), whose    *)
(* client gives a message to whoever waits longest for one of that name;   *)
(* the backend broadcasts such messages too, the asker included.  The      *)
(* bridge authenticates once, so a connection that is lost stays lost.     *)
(* Here the backend is one process; ControlStore has several.              *)
(***************************************************************************)
EXTENDS Naturals, Sequences

CONSTANTS
    Reported,       \* the devices
    Known,          \* those an earlier run has registered, and the user ignores
    Unknown,        \* status of a device that is not registered, and option that is not set
    Handlers,       \* bound: as many device events are handled at once
    Callbacks,      \* bound: as many callbacks of pushes run at once
    MaxReports,     \* bound: reports altogether
    MaxUser,        \* bound: requests of users
    MaxFaults       \* bound: connections lost and other exceptions of the bridge

ASSUME ReportAssumption ==
    /\ Known \subseteq Reported /\ Unknown \notin Nat
    /\ Handlers \cap Callbacks = {}
    /\ {"heartbeat", "nobody"} \cap (Handlers \cup Callbacks) = {}
    /\ MaxReports \in Nat /\ MaxUser \in Nat /\ MaxFaults \in Nat

VARIABLES
    told,       \* events_in_queue: the reports the bridge has not taken yet
    version,    \* per device, the number of its last report
    bridge,     \* "up", or "down" for the three seconds before a restart
    hears,      \* the control connection is open and its listen task lives
    task,       \* handlers of reports, the heartbeat, the callback of a push
    waiting,    \* callback_list: per action who waits for a message
    up, down,   \* messages to and from the backend
    status,     \* table devices
    options,    \* table optionals: the properties of a device
    stray,      \* table optionals: devices a user gave an option unregistered
    whitelist,  \* what the spoofer was told last
    gone,       \* per device, its last report whose handler did not finish
    seen, users, faults

reportVars == <<told, version, bridge, hears, task, waiting, up, down, status, options,
                stray, whitelist, gone, seen, users, faults>>

cloudSide  == <<status, options, stray>>
counters   == <<seen, users, faults>>

Tasks   == Handlers \cup Callbacks \cup {"heartbeat"}
Actions == {"registerDevice", "updateOption", "requestInfo"}
Resting == [at |-> "rest"]

ReportInit ==
    /\ told = <<>> /\ version = [d \in Reported |-> 0]
    /\ bridge = "up" /\ hears = TRUE
    /\ task = [t \in Tasks |-> Resting] /\ waiting = [a \in Actions |-> <<>>]
    /\ up = <<>> /\ down = <<>>
    /\ status = [d \in Reported |-> IF d \in Known THEN 0 ELSE Unknown]
    /\ options = [d \in Reported |->
                    [key \in {"mac", "ipv4", "first_seen"} |-> status[d]]]
    /\ stray = {} /\ whitelist = {} /\ gone = [d \in Reported |-> 0]
    /\ seen = 0 /\ users = 0 /\ faults = 0

Alive == bridge = "up" /\ hears
Push(a) == [action |-> a, from |-> "push", success |-> FALSE]
Reply(a, ok) == [action |-> a, from |-> "reply", success |-> ok]

\* Task t sends a request and is r while it waits for the answer.
Sends(t, r, msg) ==
    /\ task' = [task EXCEPT ![t] = r]
    /\ up' = Append(up, msg)

-----------------------------------------------------------------------------
(* The watchdog's side.                                                    *)

\* Device identification reports a device, with whatever it knows by now.
ReportDevice(d) ==
    /\ seen < MaxReports /\ seen' = seen + 1
    /\ version' = [version EXCEPT ![d] = @ + 1]
    /\ told' = Append(told, [dev |-> d, ver |-> version[d] + 1])
    /\ UNCHANGED <<bridge, hears, task, waiting, up, down, cloudSide, whitelist, gone, users, faults>>

\* EventListener gives the event a task (which one makes no difference), and
\* that registers the device.
TakeReport(h) ==
    /\ Alive /\ told # <<>>
    /\ task[h] = Resting /\ h = CHOOSE k \in Handlers : task[k] = Resting
    /\ told' = Tail(told)
    /\ Sends(h, [at |-> "register", ev |-> Head(told)],
             [action |-> "registerDevice", dev |-> Head(told).dev, by |-> h])
    /\ waiting' = [waiting EXCEPT !["registerDevice"] = Append(@, h)]
    /\ UNCHANGED <<version, bridge, hears, down, cloudSide, whitelist, gone, counters>>

\* The properties to upload: first_seen only for a device that is new.
NothingOfKnown(new) == IF new THEN <<"mac", "ipv4", "first_seen">> ELSE <<>>   \* mutant
Keys(new) == IF new THEN <<"mac", "ipv4", "first_seen">> ELSE <<"mac", "ipv4">>

\* Handler h uploads the next of them, or is done (and notifies the user).
NextOption(h, ev, left, rest) ==
    IF left = <<>>
    THEN /\ task' = [task EXCEPT ![h] = Resting]
         /\ waiting' = rest
         /\ UNCHANGED up
    ELSE /\ Sends(h, [at |-> "option", ev |-> ev, left |-> Tail(left)],
                  [action |-> "updateOption", dev |-> ev.dev, key |-> Head(left),
                   value |-> ev.ver, by |-> h])
         /\ waiting' = [rest EXCEPT !["updateOption"] = Append(@, h)]

\* Reports are not carried out to the end.
Missing(reports) ==
    gone' = [d \in Reported |->
               LET vers == {gone[d]} \cup {r.ver : r \in {s \in reports : s.dev = d}}
               IN CHOOSE v \in vers : \A w \in vers : w <= v]
Unsent == {[dev |-> up[i].dev, ver |-> up[i].value] :
             i \in {j \in DOMAIN up : up[j].action = "updateOption"}}

\* The heartbeat, every 25 seconds.
Beat ==
    /\ Alive /\ task["heartbeat"] = Resting
    /\ Sends("heartbeat", [at |-> "info"], [action |-> "requestInfo", by |-> "heartbeat"])
    /\ waiting' = [waiting EXCEPT !["requestInfo"] = Append(@, "heartbeat")]
    /\ UNCHANGED <<told, version, bridge, hears, down, cloudSide, whitelist, gone, counters>>

\* The module's restart loop: all tasks are gone and so is the connection;
\* what was sent on it is still executed, but answered to nobody.
Crashed ==
    /\ bridge' = "down"
    /\ task' = [t \in Tasks |-> Resting] /\ waiting' = [a \in Actions |-> <<>>]
    /\ down' = <<>>
Orphans == [i \in DOMAIN up |-> [up[i] EXCEPT !.by = "nobody"]]
Handled == {task[h].ev : h \in {k \in Handlers : task[k] # Resting}}

\* The connection ends, and with it the bridge hears no more.
Ended == up' = <<>> /\ down' = <<>>

AddedTo(ignored) == whitelist \cup ignored                            \* mutant
WhitelistOf(ignored) == ignored

\* reload_deviceinfo has its answer: the devices with status 0 are ignored, by
\* the MAC address among their options.  An answer without data, and a device
\* without MAC address, is a KeyError: in the heartbeat the end of the module,
\* in a callback that of the listen task, once the next message is handled.
Reload(t, msg, rest) ==
    \/ /\ ~msg.fails
       /\ whitelist' = WhitelistOf(msg.ignored)
       /\ task' = [task EXCEPT ![t] = Resting]
       /\ waiting' = rest /\ down' = Tail(down)
       /\ UNCHANGED <<bridge, up, gone>>
    \/ /\ msg.fails /\ t = "heartbeat"
       /\ Crashed /\ up' = Orphans /\ Missing(Handled)
       /\ UNCHANGED whitelist
    \/ /\ msg.fails /\ t \in Callbacks
       /\ task' = [task EXCEPT ![t] = [at |-> "failed"]]
       /\ waiting' = rest /\ down' = Tail(down)
       /\ UNCHANGED <<bridge, up, gone, whitelist>>

\* listen() ends once it has handled the message after one whose task failed.
Listening == \A c \in Callbacks : task[c].at # "failed"

\* listen(): whoever waits longest for a message of this name gets it.
Receive ==
    /\ Alive /\ down # <<>>
    /\ LET msg == Head(down)
           queue == waiting[msg.action]
           t == Head(queue)
           rest == [waiting EXCEPT ![msg.action] = Tail(queue)]
       IN /\ msg.action \in Actions /\ queue # <<>>
          /\ IF msg.action = "requestInfo" THEN Reload(t, msg, rest)
             ELSE /\ \/ /\ task[t].at = "register" /\ msg.from = "push"   \* no "success"
                        /\ task' = [task EXCEPT ![t] = Resting]
                        /\ waiting' = rest
                        /\ Missing({task[t].ev})
                        /\ UNCHANGED up
                     \/ /\ task[t].at = "register" /\ msg.from = "reply"
                        /\ NextOption(t, task[t].ev, Keys(msg.success), rest)
                        /\ UNCHANGED gone
                     \/ /\ task[t].at = "option"
                        /\ NextOption(t, task[t].ev, task[t].left, rest)
                        /\ UNCHANGED gone
                  /\ down' = Tail(down)
                  /\ UNCHANGED <<bridge, whitelist>>
    /\ hears' = Listening
    /\ UNCHANGED <<told, version, cloudSide, counters>>

\* A push nobody waits for: "updateStatus" starts a reload, others are logged.
ReceivePush ==
    /\ Alive /\ down # <<>>
    /\ LET msg == Head(down)
       IN \/ /\ msg.action = "updateStatus"
             /\ \E c \in Callbacks :
                  /\ task[c] = Resting
                  /\ Sends(c, [at |-> "info"], [action |-> "requestInfo", by |-> c])
                  /\ waiting' = [waiting EXCEPT !["requestInfo"] = Append(@, c)]
          \/ /\ msg.action \in Actions /\ waiting[msg.action] = <<>>
             /\ UNCHANGED <<task, waiting, up>>
    /\ down' = Tail(down)
    /\ hears' = Listening
    /\ UNCHANGED <<told, version, bridge, cloudSide, whitelist, gone, counters>>

Restart ==
    /\ bridge = "down" /\ up = <<>>
    /\ bridge' = "up" /\ hears' = TRUE
    /\ UNCHANGED <<told, version, task, waiting, up, down, cloudSide, whitelist, gone, counters>>

\* Another exception reaches run(), or the connection is lost.
BridgeFails ==
    /\ bridge = "up" /\ faults < MaxFaults /\ faults' = faults + 1
    /\ Crashed /\ up' = Orphans /\ Missing(Handled)
    /\ UNCHANGED <<told, version, hears, cloudSide, whitelist, seen, users>>

LoseConnection ==
    /\ Alive /\ faults < MaxFaults /\ faults' = faults + 1
    /\ hears' = FALSE /\ Ended /\ Missing(Unsent)
    /\ UNCHANGED <<told, version, bridge, task, waiting, cloudSide, whitelist, seen, users>>

-----------------------------------------------------------------------------
(* The backend.  It answers a connection's messages one by one.            *)

Ignored == {d \in Reported : status[d] = 0}
NoMac   == \E d \in Ignored : options[d].mac = Unknown

Info == [action |-> "requestInfo", from |-> "reply", ignored |-> Ignored,
         fails |-> NoMac]

Answers(msg, messages) == down' = IF msg.by # "nobody" THEN down \o messages ELSE down

RegisterDevice(msg) ==
    /\ msg.action = "registerDevice"
    /\ IF status[msg.dev] # Unknown
       THEN Answers(msg, <<Reply("registerDevice", FALSE)>>) /\ UNCHANGED <<status, stray>>
       ELSE /\ status' = [status EXCEPT ![msg.dev] = 1]
            /\ stray' = stray \ {msg.dev}
            /\ Answers(msg, <<Push("registerDevice"), Reply("registerDevice", TRUE)>>)
    /\ up' = Tail(up)
    /\ UNCHANGED <<options, gone>>

UpdateOption(msg) ==
    /\ msg.action = "updateOption"
    /\ options' = [options EXCEPT ![msg.dev][msg.key] = msg.value]
    /\ Answers(msg, <<Push("updateOption"), Reply("updateOption", TRUE)>>)
    /\ up' = Tail(up)
    /\ UNCHANGED <<status, stray, gone>>

RequestInfo(msg) ==
    /\ msg.action = "requestInfo" /\ stray = {}
    /\ Answers(msg, <<Info>>)
    /\ up' = Tail(up)
    /\ UNCHANGED <<cloudSide, gone>>

Serve ==
    /\ up # <<>>
    /\ RegisterDevice(Head(up)) \/ UpdateOption(Head(up)) \/ RequestInfo(Head(up))
    /\ UNCHANGED <<told, version, bridge, hears, task, waiting, whitelist, counters>>

\* An option of a device that is not registered is a KeyError, and a request
\* that fails ends the connection.  The answer has no data: a KeyError again.
InfoFails ==
    /\ up # <<>> /\ Head(up).action = "requestInfo" /\ stray # {}
    /\ \/ /\ Head(up).by = "heartbeat"
          /\ Crashed /\ up' = <<>> /\ Missing(Handled \cup Unsent)
          /\ UNCHANGED hears
       \/ /\ Head(up).by \in Callbacks
          /\ hears' = FALSE /\ Ended /\ Missing(Unsent)
          /\ UNCHANGED <<bridge, task, waiting>>
       \/ /\ Head(up).by = "nobody"
          /\ Ended /\ Missing(Unsent)
          /\ UNCHANGED <<bridge, hears, task, waiting>>
    /\ UNCHANGED <<told, version, cloudSide, whitelist, counters>>

\* A request of a user; what it changes is broadcast to the watchdog.
ByUser(push) ==
    /\ users < MaxUser /\ users' = users + 1
    /\ down' = IF Alive THEN Append(down, push) ELSE down
    /\ UNCHANGED <<told, version, bridge, hears, task, waiting, up, whitelist, gone, seen, faults>>

UserStatus(d, s) ==
    /\ status[d] # Unknown
    /\ status' = [status EXCEPT ![d] = s]
    /\ ByUser(Push("updateStatus"))
    /\ UNCHANGED <<options, stray>>

\* Users may give any device number an option.
UserOption(d) ==
    /\ stray' = IF status[d] = Unknown THEN stray \cup {d} ELSE stray
    /\ ByUser(Push("updateOption"))
    /\ UNCHANGED <<status, options>>

-----------------------------------------------------------------------------

Dispatch == Receive \/ ReceivePush

ReportNext ==
    \/ \E d \in Reported : ReportDevice(d) \/ UserOption(d) \/ \E s \in {0, 1} : UserStatus(d, s)
    \/ \E h \in Handlers : TakeReport(h)
    \/ Beat \/ Dispatch \/ Restart \/ Serve \/ InfoFails
    \/ BridgeFails \/ LoseConnection

\* Tasks that can run do, timers expire and messages are delivered.
ReportFairness ==
    /\ WF_reportVars(\E h \in Handlers : TakeReport(h))
    /\ WF_reportVars(Beat) /\ WF_reportVars(Dispatch)
    /\ WF_reportVars(Restart) /\ WF_reportVars(Serve \/ InfoFails)

ReportSpec == ReportInit /\ [][ReportNext]_reportVars /\ ReportFairness

-----------------------------------------------------------------------------
(* Properties.                                                             *)

ReportTypeOK ==
    /\ version \in [Reported -> 0 .. MaxReports] /\ gone \in [Reported -> 0 .. MaxReports]
    /\ status \in [Reported -> {0, 1, Unknown}]
    /\ stray \subseteq {d \in Reported : status[d] = Unknown}
    /\ whitelist \subseteq Reported
    /\ \A i \in 1 .. Len(waiting["requestInfo"]) :
         task[waiting["requestInfo"][i]].at = "info"

\* When nothing is under way the cloud shows of every device its last report,
\* however handlers interleave on the one connection and whatever messages they
\* take for their answers, unless the handler of that very report died: by the
\* first message of a new device's registration, which has no "success".
ReportSettled ==
    (told = <<>> /\ up = <<>> /\ \A h \in Handlers : task[h] = Resting) =>
        \A d \in Reported : gone[d] = version[d] \/ options[d].ipv4 = version[d]

\* Sooner or later the spoofer leaves alone exactly what the user decided, for
\* good: unless the bridge no longer hears the backend, or cannot read its
\* answer (an ignored device has no MAC address yet, an option has no device).
WhitelistFollows ==
    <>[](whitelist = Ignored \/ ~hears \/ NoMac \/ stray # {})

=============================================================================
