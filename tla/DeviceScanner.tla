--------------------------- MODULE DeviceScanner ---------------------------
(***************************************************************************)
(* The device scanner (modules/devicescanner.py and the package            *)
(* DeviceIdentifier): in rounds ten seconds apart mDNS and UPnP ask every  *)
(* device for its name, model and manufacturer, the answers are merged per *)
(* address, and device identification gets one event per address.          *)
(*                                                                         *)
(* The third protocol, NetBIOS, never has an answer: it asks str(d.ip) of  *)
(* every node, d.ip is four bytes, and the text of a bytes object is no    *)
(* address (sendto raises, the address is skipped).  So the nodes of the   *)
(* nodeconfig, which are only for it, make no difference.                  *)
(***************************************************************************)
EXTENDS Naturals, Sequences

CONSTANTS
    Scanned,        \* the addresses that answer
    Properties,     \* answers of mDNS: sequences of records with n, fn and md
    Descriptions,   \* UPnP: records location, friendlyName, modelDescription,
                    \* modelName, manufacturer
    NoAnswer,       \* of an address that did not answer
    MaxRounds,      \* bound: scans
    MaxErrors       \* bound: scans that raise

ASSUME ScannerAssumption ==
    /\ Descriptions \subseteq [location : STRING, friendlyName : STRING, modelDescription : STRING,
                              modelName : STRING, manufacturer : STRING]
    /\ NoAnswer \notin Descriptions \cup Seq(Descriptions)
    /\ MaxRounds \in Nat /\ MaxErrors \in Nat

Fields == {"name", "model", "manufacturer"}

VARIABLES
    mdns,       \* the answers of this round to mDNS, per address
    services,   \* the module's global: per address NoAnswer, or the
                \* descriptions of the locations that were named there
    scan,       \* where scan() is: which scanners it waits for, what it reports
    scans, errors,
    heard       \* history: the descriptions read from each address

scannerVars == <<mdns, services, scan, scans, errors, heard>>

ScannerInit ==
    /\ mdns = [a \in Scanned |-> NoAnswer] /\ services = [a \in Scanned |-> NoAnswer]
    /\ scan = [at |-> "sleep"] /\ scans = 0 /\ errors = 0
    /\ heard = [a \in Scanned |-> {}]

-----------------------------------------------------------------------------
(* What the parsers make of the answers; a field that is not there is "".  *)

Full(ts) == {k \in DOMAIN ts : ts[k] # ""}
First(ts) == IF Full(ts) = {} THEN "" ELSE ts[CHOOSE k \in Full(ts) : \A j \in Full(ts) : k <= j]
FinalOf(ts) == IF Full(ts) = {} THEN "" ELSE ts[CHOOSE k \in Full(ts) : \A j \in Full(ts) : j <= k]
Said(s, f) == [k \in DOMAIN s |-> s[k][f]]

\* mDNS: the first name (fn before n), the last model, which serves as
\* manufacturer.
ParseMdns(ps) ==
    LET names == [k \in DOMAIN ps |-> IF ps[k].fn # "" THEN ps[k].fn ELSE ps[k].n]
    IN [name  |-> First(names),
        model |-> FinalOf(Said(ps, "md")), manufacturer |-> FinalOf(Said(ps, "md"))]

\* UPnP: of each field the first; a description of the model before its name.
ParseSsdp(ds) ==
    LET models == [k \in DOMAIN ds |-> IF ds[k].modelDescription # ""
                                       THEN ds[k].modelDescription ELSE ds[k].modelName]
    IN [name  |-> First(Said(ds, "friendlyName")),
        model |-> First(models),
        manufacturer |-> First(Said(ds, "manufacturer"))]

\* addinfo: a field of the later protocol counts unless it is empty.
AddAll(result, new) == new                                           \* mutant
AddInfo(result, new) ==
    [f \in Fields |-> IF new[f] # "" THEN new[f] ELSE result[f]]

\* createResults for both, and the default of what nobody knows.
MergeInfo(a) ==
    LET result == CASE services[a] = NoAnswer -> ParseMdns(mdns[a])
                    [] mdns[a] = NoAnswer     -> ParseSsdp(services[a])
                    [] OTHER -> AddInfo(ParseMdns(mdns[a]), ParseSsdp(services[a]))
    IN [f \in Fields |-> IF result[f] = "" THEN "UNKNOWN" ELSE result[f]]

-----------------------------------------------------------------------------
(* A round.                                                                *)

StartScan ==
    /\ scan.at = "sleep" /\ scans < MaxRounds
    /\ scans' = scans + 1
    /\ scan' = [at |-> "scan", left |-> {"mdns", "ssdp"}]
    /\ UNCHANGED <<mdns, services, errors, heard>>

Gathered(p) == scan' = [scan EXCEPT !.left = @ \ {p}]

MdnsScan ==
    /\ scan.at = "scan" /\ "mdns" \in scan.left
    /\ \E answers \in [Scanned -> Properties \cup {NoAnswer}] : mdns' = answers
    /\ Gathered("mdns")
    /\ UNCHANGED <<services, scans, errors, heard>>

\* An address that names a location gets an entry, and its description is read
\* and kept if it can be and the location is new.  Nothing is ever removed.
ReadAgain(a, d, readable) ==                                         \* mutant
    LET old == IF services[a] = NoAnswer THEN <<>> ELSE services[a]
    IN IF readable THEN Append(old, d) ELSE old

Read(a, d, readable) ==
    LET old == IF services[a] = NoAnswer THEN <<>> ELSE services[a]
    IN IF readable /\ \A k \in DOMAIN old : old[k].location # d.location
       THEN Append(old, d) ELSE old

SsdpScan ==
    /\ scan.at = "scan" /\ "ssdp" \in scan.left
    /\ \E answers \in [Scanned -> Descriptions \cup {NoAnswer}], readable \in SUBSET Scanned :
         /\ services' = [a \in Scanned |-> IF answers[a] = NoAnswer THEN services[a]
                                           ELSE Read(a, answers[a], a \in readable)]
         /\ heard' = [a \in Scanned |-> heard[a] \cup (IF a \in readable /\ answers[a] # NoAnswer THEN {answers[a]} ELSE {})]
    /\ Gathered("ssdp")
    /\ UNCHANGED <<mdns, scans, errors>>

\* Both are there: the results are merged, and reported one after the other.
Collect ==
    /\ scan.at = "scan" /\ scan.left = {}
    /\ scan' = [at |-> "report",
                results |-> {[ip |-> a, info |-> MergeInfo(a)] :
                             a \in {b \in Scanned : mdns[b] # NoAnswer \/ services[b] # NoAnswer}}]
    /\ UNCHANGED <<mdns, services, scans, errors, heard>>

ReportFound ==
    /\ scan.at = "report"
    /\ IF scan.results = {} THEN scan' = [at |-> "sleep"]
       ELSE \E r \in scan.results : scan' = [scan EXCEPT !.results = @ \ {r}]
    /\ UNCHANGED <<mdns, services, scans, errors, heard>>

\* An answer without cache-control, or no socket: the scan raises, and the
\* module starts again in the same process, which keeps its globals.
ScanRaises ==
    /\ scan.at = "scan" /\ scan.left # {} /\ errors < MaxErrors
    /\ errors' = errors + 1
    /\ scan' = [at |-> "sleep"]
    /\ UNCHANGED <<mdns, services, scans, heard>>

ScannerNext == StartScan \/ MdnsScan \/ SsdpScan \/ Collect \/ ReportFound \/ ScanRaises

ScannerSpec == ScannerInit /\ [][ScannerNext]_scannerVars

-----------------------------------------------------------------------------
(* Properties.                                                             *)

Results == IF scan.at = "report" THEN scan.results ELSE {}

\* What the protocols, by either kind of answer, know of a field.
KnownOf(a, f) ==
    {answer[f] : answer \in
        (IF mdns[a] = NoAnswer THEN {} ELSE {ParseMdns(mdns[a])})
        \cup (IF services[a] = NoAnswer THEN {} ELSE {ParseSsdp(services[a])})} \ {""}

\* Whatever one protocol has found out is reported, whatever the other one
\* leaves empty or was not able to read.
FoundIsKept ==
    \A r \in Results : \A f \in Fields :
        IF KnownOf(r.ip, f) = {} THEN r.info[f] = "UNKNOWN" ELSE r.info[f] \in KnownOf(r.ip, f)

\* What is reported was said at this address: in this round, or in a description
\* that was once read there, although the device may have become another one.
SaidThere ==
    \A r \in Results :
      \/ mdns[r.ip] # NoAnswer
      \/ \A f \in Fields : r.info[f] # "UNKNOWN" =>
           \E d \in heard[r.ip] : r.info[f] \in {d[g] : g \in DOMAIN d \ {"location"}}

\* A location is described once, however often and by whomever it is named.
OneEach ==
    \A a \in Scanned : services[a] # NoAnswer =>
      \A j, k \in DOMAIN services[a] :
        services[a][j].location = services[a][k].location => j = k

ScannerSound == FoundIsKept /\ SaidThere /\ OneEach
=============================================================================
