------------------------------- MODULE Cloud -------------------------------
(***************************************************************************)
(* The backends that keep their state in a database, side by side.  They   *)
(* share no table and send each other nothing: a service reads of another  *)
(* only the signed tokens of the auth backend, which every copy of         *)
(* backend_lib/auth.py verifies by itself.  So nothing is lost when a      *)
(* behaviour follows one of them, chosen at the start, and leaves the      *)
(* others as they were set up.                                             *)
(***************************************************************************)
EXTENDS AuthStore, AddonStore, ModelStore, ControlStore, MonitoringStore

VARIABLE service    \* the backend this behaviour is about

authOnly    == <<authDb, issued, cache, bodies, authHist>>
addonOnly   == <<tables, parked, hist>>
modelOnly   == <<models, devices, pulled, named, halved, telling>>
controlOnly == <<gadgets, settings, decided, welcomed, homeless, confused, mailVars>>
monitorOnly == <<hour, statistics, logs, remotes, uploads, finished, configured>>

cloudVars == <<service, serviceVars, authOnly, addonOnly, modelOnly, controlOnly, monitorOnly>>

CloudInit ==
    /\ service \in {"auth", "addon", "ml", "control", "monitoring"}
    /\ AuthInit /\ AddonInit /\ ModelInit /\ ControlInit /\ MonitoringInit

CloudNext ==
    /\ \/ service = "auth"       /\ AuthNext       /\ UNCHANGED <<addonOnly, modelOnly, controlOnly, monitorOnly>>
       \/ service = "addon"      /\ AddonNext      /\ UNCHANGED <<authOnly, modelOnly, controlOnly, monitorOnly>>
       \/ service = "ml"         /\ ModelNext      /\ UNCHANGED <<authOnly, addonOnly, controlOnly, monitorOnly>>
       \/ service = "control"    /\ ControlNext    /\ UNCHANGED <<authOnly, addonOnly, modelOnly, monitorOnly>>
       \/ service = "monitoring" /\ MonitoringNext /\ UNCHANGED <<authOnly, addonOnly, modelOnly, controlOnly>>
    /\ UNCHANGED service

CloudSpec == CloudInit /\ [][CloudNext]_cloudVars

\* The tables hold what their columns say, keys refer to rows that exist, and
\* a request never knows more than its statements gave it.
CloudTypeOK ==
    CASE service = "auth"  -> AuthTypeOK
      [] service = "addon" -> AddonTypeOK
      [] service = "ml"    -> ModelTypeOK
      [] service = "control" -> ControlTypeOK
      [] service = "monitoring" -> MonitoringTypeOK

\* Devices and their options, statistics, logs and configurations, and models:
\* what the modules ControlStore, MonitoringStore and ModelStore state.
StoresSound == ControlSound /\ MonitoringSound /\ NextVersionFree /\ PullReaches

=============================================================================
