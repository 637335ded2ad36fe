------------------------------ MODULE Watchdog ------------------------------
(***************************************************************************)
(* The modules of the watchdog that only meet in the events the master     *)
(* routes: the table of devices, the bridge's report of them, the device   *)
(* scanner, the filters of the interceptor, the master itself, the way of  *)
(* the log, and the adblocker addon.  Each is modelled with its events     *)
(* arriving in every order its queue allows, so a behaviour follows one of *)
(* them, chosen at the start, and the others rest.                         *)
(***************************************************************************)
EXTENDS DeviceTable, DeviceReport, Interception, Master, CloudLog, Adblocker,
        DeviceScanner

VARIABLE part       \* what this behaviour is about

watchdogVars == <<part, tableVars, reportVars, icVars, masterVars, logVars, adblockVars,
                  scannerVars>>

WatchdogInit ==
    /\ part \in {"table", "report", "interception", "master", "log", "adblocker", "scanner"}
    /\ TableInit /\ ReportInit /\ InterceptionInit /\ MasterInit /\ LogInit /\ AdblockInit /\ ScannerInit

\* Only this part moves.
InTable(A)  == part = "table" /\ A
               /\ UNCHANGED <<part, reportVars, icVars, masterVars, logVars, adblockVars, scannerVars>>
InReport(A) == part = "report" /\ A
               /\ UNCHANGED <<part, tableVars, icVars, masterVars, logVars, adblockVars, scannerVars>>
InMaster(A) == part = "master" /\ A
               /\ UNCHANGED <<part, tableVars, reportVars, icVars, logVars, adblockVars, scannerVars>>

WatchdogNext ==
    \/ InTable(TableNext) \/ InReport(ReportNext) \/ InMaster(MasterNext)
    \/ /\ part = "interception" /\ InterceptionNext
       /\ UNCHANGED <<part, tableVars, reportVars, masterVars, logVars, adblockVars, scannerVars>>
    \/ /\ part = "log" /\ LogNext
       /\ UNCHANGED <<part, tableVars, reportVars, icVars, masterVars, adblockVars, scannerVars>>
    \/ /\ part = "adblocker" /\ AdblockNext
       /\ UNCHANGED <<part, tableVars, reportVars, icVars, masterVars, logVars, scannerVars>>
    \/ /\ part = "scanner" /\ ScannerNext
       /\ UNCHANGED <<part, tableVars, reportVars, icVars, masterVars, logVars, adblockVars>>

\* The fairness of the parts with liveness properties: what TableFairness,
\* ReportFairness and MasterFairness say of them.
WatchdogFairness ==
    /\ \A h \in Slots : WF_watchdogVars(InTable(HandlerStep(h)))
    /\ WF_watchdogVars(InTable(\E h \in Slots : OnNodeconfig(h)))
    /\ WF_watchdogVars(InReport(\E h \in Handlers : TakeReport(h)))
    /\ WF_watchdogVars(InReport(Beat)) /\ WF_watchdogVars(InReport(Dispatch))
    /\ WF_watchdogVars(InReport(Restart)) /\ WF_watchdogVars(InReport(Serve \/ InfoFails))
    /\ WF_watchdogVars(InMaster(MasterStep))
    /\ \A m \in Modules : WF_watchdogVars(InMaster(ModuleSends(m)))

WatchdogSpec == WatchdogInit /\ [][WatchdogNext]_watchdogVars /\ WatchdogFairness

-----------------------------------------------------------------------------
(* Properties.                                                             *)

\* The part keeps its variables in range and consistent with each other.
WatchdogTypeOK ==
    CASE part = "table"  -> TableTypeOK
      [] part = "report" -> ReportTypeOK
      [] part = "master" -> MasterTypeOK
      [] part = "interception" -> InterceptionTypeOK
      [] OTHER -> TRUE

\* What holds of the part when nothing is under way in it (see the modules).
WatchdogSettled ==
    CASE part = "table"  -> TableSettled
      [] part = "report" -> ReportSettled
      [] part = "master" -> MasterSettled
      [] part = "log"    -> LogConserved
      [] part = "interception" -> InterceptionSettled
      [] part = "adblocker"    -> AdblockSound
      [] part = "scanner"      -> ScannerSound

\* Sooner or later the spoofer leaves alone what the user decided (see the
\* module DeviceReport); of course only if the bridge takes part.
SpooferFollows == part = "report" => WhitelistFollows

=============================================================================
