-------------------------- MODULE MonitoringStore --------------------------
(***************************************************************************)
(* The monitoring backend, src/monitoring_backend/src/app.py: statistics,  *)
(* at most one of a kind per watchdog and hour, logs and notifications,    *)
(* which come as lists, and a configuration per watchdog.  Two processes   *)
(* serve it; a request is a sequence of statements (module Service).       *)
(*                                                                         *)
(* clean_logs is no action: start-up awaits WebsocketManager.work(), which *)
(* does not return, before it (app.py:427-436), so nothing is ever         *)
(* deleted.  Notifications are stored as logs are, and forwarded (module   *)
(* Hub).  Kinds of statistics do not meet: there is one.                   *)
(***************************************************************************)
EXTENDS Service

CONSTANTS
    Homes,          \* watchdogs
    Sensors,        \* their devices
    MaxHour,        \* bound: hours that pass
    MaxUploads,     \* bound: lists of logs
    Entries         \* bound: messages in a list

ASSUME MonitoringAssumption == MaxHour \in Nat /\ MaxUploads \in Nat /\ Entries \in Nat

VARIABLES
    hour,           \* the time
    statistics,     \* table statistics
    logs,           \* table logs: <<upload, number in its list>>
    remotes,        \* table configs: which insertConfig wrote it, by watchdog
    uploads,        \* lists uploaded so far
    finished,       \* those answered with success
    configured      \* watchdogs whose insertConfig was answered with success

monitorVars == <<serviceVars, hour, statistics, logs, remotes, uploads, finished, configured>>

MonitoringTypeOK ==
    /\ hour \in 0 .. MaxHour
    /\ \A s \in statistics : s.home \in Homes /\ s.sensor \in Sensors /\ s.hour <= hour
    /\ logs \subseteq (1 .. uploads) \X (1 .. Entries)
    /\ remotes \subseteq Homes

MonitoringInit ==
    /\ ServiceInit
    /\ hour = 0 /\ statistics = {} /\ logs = {} /\ remotes = {}
    /\ uploads = 0 /\ finished = {} /\ configured = {}

HourPasses ==
    /\ hour < MaxHour /\ hour' = hour + 1
    /\ UNCHANGED <<serviceVars, statistics, logs, remotes, uploads, finished, configured>>

-----------------------------------------------------------------------------
(* submitStatistics: the limit does not look at the device.                *)

Ever(home) == {}                                                     \* mutant
TooEarly(home) == {s \in statistics : s.home = home /\ hour - s.hour < 1}

SubmitStatistics(w, home, sensor) ==
    /\ TooEarly(home) = {}
    /\ Receive(w, [op |-> "submit", at |-> "insert", home |-> home, sensor |-> sensor])
    /\ UNCHANGED <<hour, statistics, logs, remotes, uploads, finished, configured>>

\* The time is part of the key and never the same, so by is what tells them apart.
InsertStatistics(w) ==
    /\ At(w, "submit", "insert") /\ Answer(w)
    /\ statistics' = statistics \cup
         {[home |-> req[w].home, sensor |-> req[w].sensor, hour |-> hour, by |-> w]}
    /\ UNCHANGED <<hour, logs, remotes, uploads, finished, configured>>

-----------------------------------------------------------------------------
(* uploadLogs and uploadNotifications: a statement per message.  One that  *)
(* lacks a field is a KeyError, and what was inserted stays.               *)

UploadLogs(w) ==
    /\ uploads < MaxUploads /\ uploads' = uploads + 1
    /\ \E n \in 1 .. Entries, bad \in 1 .. Entries + 1 :
         Receive(w, [op |-> "upload", at |-> "insert", list |-> uploads + 1, next |-> 1,
                     length |-> n, bad |-> bad])
    /\ UNCHANGED <<hour, statistics, logs, remotes, finished, configured>>

InsertLog(w) ==
    /\ At(w, "upload", "insert")
    /\ LET r == req[w]
       IN IF r.next = r.bad
          THEN Answer(w) /\ UNCHANGED <<logs, finished>>
          ELSE /\ logs' = logs \cup {<<r.list, r.next>>}
               /\ IF r.next = r.length
                  THEN finished' = finished \cup {<<r.list, r.length>>} /\ Answer(w)
                  ELSE Continue(w, [r EXCEPT !.next = @ + 1]) /\ UNCHANGED finished
    /\ UNCHANGED <<hour, statistics, remotes, uploads, configured>>

-----------------------------------------------------------------------------
(* insertConfig: INSERT, and UPDATE when there is one already.             *)

InsertConfig(w, home) ==
    /\ Receive(w, [op |-> "config", at |-> "insert", home |-> home])
    /\ UNCHANGED <<hour, statistics, logs, remotes, uploads, finished, configured>>

WriteConfig(w) ==
    /\ \/ At(w, "config", "insert") /\ req[w].home \in remotes
          /\ Goto(w, "update") /\ UNCHANGED <<remotes, configured>>
       \/ At(w, "config", "insert") /\ req[w].home \notin remotes
          /\ remotes' = remotes \cup {req[w].home}
          /\ configured' = configured \cup {req[w].home} /\ Answer(w)
       \/ At(w, "config", "update")
          /\ configured' = configured \cup {req[w].home} /\ Answer(w) /\ UNCHANGED remotes
    /\ UNCHANGED <<hour, statistics, logs, uploads, finished>>

MonitoringCrash(w) ==
    /\ w \in alive /\ Answer(w)
    /\ UNCHANGED <<hour, statistics, logs, remotes, uploads, finished, configured>>

MonitoringNext ==
    \/ HourPasses
    \/ \E w \in Workers :
         \/ \E h \in Homes : InsertConfig(w, h) \/ \E s \in Sensors : SubmitStatistics(w, h, s)
         \/ InsertStatistics(w) \/ UploadLogs(w) \/ InsertLog(w) \/ WriteConfig(w)
         \/ MonitoringCrash(w)

MonitoringSpec == MonitoringInit /\ [][MonitoringNext]_monitorVars

-----------------------------------------------------------------------------
(* Properties.                                                             *)

\* A watchdog's statistics of one hour are at most one, or one per process when
\* several processes look at the table before one of them inserts.
HourlyLimit ==
    \A h \in Homes, t \in 0 .. MaxHour :
        Cardinality({s \in statistics : s.home = h /\ s.hour = t}) <= Cardinality(alive)

\* Success means that all of the list, or the configuration, is stored, and what
\* is stored of a list that failed is its beginning.
UploadsWhole ==
    /\ \A f \in finished : \A i \in 1 .. f[2] : <<f[1], i>> \in logs
    /\ \A l \in logs : \A i \in 1 .. l[2] : <<l[1], i>> \in logs
    /\ configured \subseteq remotes

MonitoringSound == HourlyLimit /\ UploadsWhole

=============================================================================
