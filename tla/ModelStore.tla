----------------------------- MODULE ModelStore -----------------------------
(***************************************************************************)
(* The machine-learning backend, src/ml_backend/src/app.py: models by name *)
(* and version, the model each device uses, and the model every watchdog   *)
(* has pulled for a device.  A request is a sequence of statements (module *)
(* Service); `UNIQUE(modelName, version)` and the primary keys are checked *)
(* by the database, and a duplicate the code does not catch ends the       *)
(* request with an error 500.                                              *)
(*                                                                         *)
(* A model stands for its row of `models`: rows are never changed and      *)
(* never deleted, so the SELECT of the version or the name behind an id    *)
(* needs no step of its own.  The binaries, the types of the devices, the  *)
(* alarms and the packets' metadata, which are only ever inserted, are     *)
(* left out.  A watchdog that is told to pull (requestPullLatestModel) has *)
(* been sent a message; whether it arrives is the business of module Hub.  *)
(***************************************************************************)
EXTENDS Service

CONSTANTS
    Boxes,      \* the watchdogs that pull models
    Things,     \* the devices models are made for
    Names,      \* the names of models
    MaxVersion  \* bound: the highest version of a model

ASSUME ModelAssumption == MaxVersion \in Nat

VARIABLES
    models,     \* table models
    devices,    \* table devices: the model of a device, a partial function
    pulled,     \* table wds: the model of a watchdog and a device, likewise
    named,      \* named[d]: the names of all models stored for device d
    halved,     \* names of models whose device a crash kept from being updated
    telling     \* per process, the watchdogs it is telling to pull; bound: one
                \* such request at a time, whichever process has it

modelVars == <<serviceVars, models, devices, pulled, named, halved, telling>>

Silent == [told |-> {}]

Model == [name : Names, version : 1 .. MaxVersion]
Pairs == Boxes \X Things

\* A partial function f with k mapped to v.
Put(f, k, v) == [x \in DOMAIN f \cup {k} |-> IF x = k THEN v ELSE f[x]]

ModelInit ==
    /\ ServiceInit
    /\ models = {} /\ halved = {}
    /\ devices = [d \in {} |-> 0] /\ pulled = [p \in {} |-> 0]
    /\ named = [d \in Things |-> {}]
    /\ telling = [w \in Workers |-> Silent]

-----------------------------------------------------------------------------
(* storeModel: a first model for a device gets version 1, a later one the  *)
(* version after that of the device's model, whatever the names.           *)

StoreModel(w, d, n) ==
    LET known == d \in DOMAIN devices
        version == IF known THEN devices[d].version + 1 ELSE 1
    IN /\ version <= MaxVersion
       /\ Receive(w, [op |-> "store", at |-> "models", dev |-> d, known |-> known,
                      model |-> [name |-> n, version |-> version]])
       /\ UNCHANGED <<models, devices, pulled, named, halved, telling>>

ModelNotStored(w) ==                                                 \* mutant
    /\ At(w, "store", "models")
    /\ named' = [named EXCEPT ![req[w].dev] = @ \cup {req[w].model.name}]
    /\ Goto(w, "devices")
    /\ UNCHANGED <<models, devices, pulled, halved, telling>>

DuplicateStored(w) ==                                                \* mutant
    /\ At(w, "store", "models")
    /\ models' = models \cup {req[w].model}
    /\ named' = [named EXCEPT ![req[w].dev] = @ \cup {req[w].model.name}]
    /\ Goto(w, "devices")
    /\ UNCHANGED <<devices, pulled, halved, telling>>

InsertModel(w) ==
    /\ At(w, "store", "models")
    /\ IF req[w].model \in models
       THEN Answer(w) /\ UNCHANGED <<models, named>>
       ELSE /\ models' = models \cup {req[w].model}
            /\ named' = [named EXCEPT ![req[w].dev] = @ \cup {req[w].model.name}]
            /\ Goto(w, "devices")
    /\ UNCHANGED <<devices, pulled, halved, telling>>

FirstModelKept(w) ==                                                 \* mutant
    /\ At(w, "store", "devices")
    /\ devices' = IF req[w].dev \notin DOMAIN devices
                  THEN Put(devices, req[w].dev, req[w].model)
                  ELSE devices
    /\ Answer(w)
    /\ UNCHANGED <<models, pulled, named, halved, telling>>

\* INSERT INTO devices, where the row of another request is a duplicate, or
\* UPDATE devices.
AssignModel(w) ==
    /\ At(w, "store", "devices")
    /\ devices' = IF req[w].known \/ req[w].dev \notin DOMAIN devices
                  THEN Put(devices, req[w].dev, req[w].model)
                  ELSE devices
    /\ Answer(w)
    /\ UNCHANGED <<models, pulled, named, halved, telling>>

-----------------------------------------------------------------------------
(* getModelByDeviceName and getLatestModelByDeviceName: both note that the *)
(* watchdog has the device's latest model, the first one also when it      *)
(* delivers an older version.                                              *)

GetModel(w, b, d, version) ==
    /\ d \in DOMAIN devices
    /\ Receive(w, [op |-> "pull", at |-> "models", pair |-> <<b, d>>, model |-> devices[d],
                   version |-> version])
    /\ UNCHANGED <<models, devices, pulled, named, halved, telling>>

FindVersion(w) ==
    /\ At(w, "pull", "models")
    /\ IF [req[w].model EXCEPT !.version = req[w].version] \in models
       THEN Goto(w, "insert") ELSE Answer(w)
    /\ UNCHANGED <<models, devices, pulled, named, halved, telling>>

GetLatestModel(w, b, d) ==
    /\ d \in DOMAIN devices
    /\ Receive(w, [op |-> "pull", at |-> "insert", pair |-> <<b, d>>, model |-> devices[d]])
    /\ UNCHANGED <<models, devices, pulled, named, halved, telling>>

\* Watchdog p[1] takes model m of device p[2] while others are told to pull.
TakenMeanwhile(p, m) ==
    telling' = [v \in Workers |->
        IF telling[v] # Silent /\ telling[v].dev = p[2] /\ telling[v].model = m
        THEN [telling[v] EXCEPT !.late = @ \cup {p[1]}] ELSE telling[v]]

\* updateWDModelMapping: INSERT, and on a duplicate UPDATE.
InsertPulled(w) ==
    /\ At(w, "pull", "insert")
    /\ IF req[w].pair \in DOMAIN pulled
       THEN Goto(w, "update") /\ UNCHANGED <<pulled, telling>>
       ELSE /\ pulled' = Put(pulled, req[w].pair, req[w].model) /\ Answer(w)
            /\ TakenMeanwhile(req[w].pair, req[w].model)
    /\ UNCHANGED <<models, devices, named, halved>>

UpdateEveryDevice(w) ==                                              \* mutant
    /\ At(w, "pull", "update")
    /\ pulled' = [p \in DOMAIN pulled |->
                    IF p[1] = req[w].pair[1] THEN req[w].model ELSE pulled[p]]
    /\ TakenMeanwhile(req[w].pair, req[w].model) /\ Answer(w)
    /\ UNCHANGED <<models, devices, named, halved>>

UpdatePulled(w) ==
    /\ At(w, "pull", "update")
    /\ pulled' = [pulled EXCEPT ![req[w].pair] = req[w].model]
    /\ TakenMeanwhile(req[w].pair, req[w].model) /\ Answer(w)
    /\ UNCHANGED <<models, devices, named, halved>>

-----------------------------------------------------------------------------
(* requestPullLatestModel: SELECT the watchdogs that have the model, then  *)
(* tell one after the other; the process takes other requests while the    *)
(* message is on its way.                                                  *)

SelectAffected(w, d, m) ==
    /\ Free(w) /\ \A v \in Workers : telling[v] = Silent
    /\ telling' = [telling EXCEPT ![w] = [dev |-> d, model |-> m, told |-> {}, late |-> {},
          affected |-> {b \in Boxes : <<b, d>> \in DOMAIN pulled /\ pulled[<<b, d>>] = m}]]
    /\ Counted /\ UNCHANGED <<alive, req, models, devices, pulled, named, halved>>

TellNext(w, b) ==
    /\ Free(w) /\ telling[w] # Silent /\ b \in telling[w].affected
    /\ telling' = [telling EXCEPT ![w].affected = @ \ {b}, ![w].told = @ \cup {b}]
    /\ UNCHANGED <<serviceVars, models, devices, pulled, named, halved>>

AllTold(w) ==
    /\ Free(w) /\ telling[w] # Silent /\ telling[w].affected = {}
    /\ telling' = [telling EXCEPT ![w] = Silent]
    /\ UNCHANGED <<serviceVars, models, devices, pulled, named, halved>>

\* A process dies and is started again.
ModelCrash(w) ==
    /\ w \in alive
    /\ halved' = IF At(w, "store", "devices") THEN halved \cup {req[w].model.name} ELSE halved
    /\ Answer(w) /\ telling' = [telling EXCEPT ![w] = Silent]
    /\ UNCHANGED <<models, devices, pulled, named>>

ModelNext ==
    \E w \in Workers :
        \/ \E d \in Things, n \in Names : StoreModel(w, d, n)
        \/ InsertModel(w) \/ AssignModel(w)
        \/ \E b \in Boxes, d \in Things :
             GetLatestModel(w, b, d) \/ \E v \in 1 .. MaxVersion : GetModel(w, b, d, v)
        \/ FindVersion(w) \/ InsertPulled(w) \/ UpdatePulled(w)
        \/ \E d \in Things, m \in models : SelectAffected(w, d, m)
        \/ \E b \in Boxes : TellNext(w, b)
        \/ AllTold(w)
        \/ ModelCrash(w)

ModelSpec == ModelInit /\ [][ModelNext]_modelVars

-----------------------------------------------------------------------------
(* Properties.                                                             *)

ModelTypeOK ==
    /\ models \subseteq Model
    /\ DOMAIN devices \subseteq Things /\ \A d \in DOMAIN devices : devices[d] \in models
    /\ DOMAIN pulled \subseteq Pairs /\ \A p \in DOMAIN pulled : pulled[p] \in models
    /\ named \in [Things -> SUBSET Names] /\ halved \subseteq Names

OneName(d) == Cardinality(named[d]) <= 1

\* A device whose models all have one name only moves to a higher version,
\* however many processes store models for it at once: a process that read an
\* old version finds the next one taken (the UNIQUE key) and gives up.  With
\* several names it may go back.
VersionsGrow ==
    [][\A d \in DOMAIN devices :
         (OneName(d) /\ devices'[d] # devices[d]) =>
             devices'[d].version > devices[d].version]_modelVars

\* A further model can be stored for a device: the version after its own is
\* free, unless a request is about to move the device there, a process died
\* between the INSERT of a model and the update of its device, or the name is
\* used for another device, too.
NextVersionFree ==
    \A d \in DOMAIN devices :
        LET n == devices[d].name
            next == [devices[d] EXCEPT !.version = @ + 1]
        IN \/ next \notin models
           \/ ~OneName(d) \/ n \in halved
           \/ \E e \in Things \ {d} : n \in named[e]
           \/ \E w \in Workers : At(w, "store", "devices") /\ req[w].model = next

\* When all were told to pull, every watchdog that has the older model was told,
\* or took it (again, or as a request of another process had it in hand) meanwhile.
PullReaches ==
    \A w \in Workers : telling[w] # Silent =>
        LET t == telling[w]
        IN /\ \A b \in t.told \cup t.affected : <<b, t.dev>> \in DOMAIN pulled
           /\ \A b \in Boxes :
                (<<b, t.dev>> \in DOMAIN pulled /\ pulled[<<b, t.dev>>] = t.model) =>
                    b \in t.told \cup t.affected \cup t.late

\* One process: what is noted for a watchdog never goes back to an older model
\* of the device, so that requestPullLatestModel for the older one does not
\* reach it again.
NotedForward ==
    [][Sequential =>
         \A p \in DOMAIN pulled : pulled'[p].version >= pulled[p].version]_modelVars

=============================================================================
