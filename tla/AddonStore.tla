----------------------------- MODULE AddonStore -----------------------------
(***************************************************************************)
(* The addon backend, src/addon_backend/src/app.py: the catalogue of addon *)
(* types with a default configuration each, and for every watchdog the     *)
(* relations (watchdog, addon, device) with a configuration of their own;  *)
(* device "NULL" stands for every device that has no relation.             *)
(*                                                                         *)
(* A request is a sequence of statements (module Service).  The foreign    *)
(* keys and the primary keys of the tables are checked by the database: a  *)
(* statement that breaks one fails and ends the request, except where the  *)
(* code catches the duplicate and updates the row instead.  What a         *)
(* configuration says, the URL of a type and the flag `enabled` are left   *)
(* out, and so are the requests and statements that only read or rewrite   *)
(* them (getType, the UPDATE of a configuration's text).                   *)
(***************************************************************************)
EXTENDS Service, Sequences

CONSTANTS
    Watchdogs, Addons, Devices,
    NullDevice,     \* the device of the fall-back relation
    Mandatory,      \* the addons getAddon installs by itself, in their order
    NoDevice,       \* a getAddon that names no device
    MaxConfig       \* bound: configurations ever created

ASSUME AddonAssumption ==
    /\ NullDevice \notin Devices
    /\ Mandatory \in Seq(Addons)
    /\ MaxConfig \in Nat

VARIABLES
    configs,        \* table configs: the ids of its rows
    addons,         \* table addons: the default configuration of each type
    wds,            \* table wds
    lastConfig,     \* the last id drawn from the SERIAL column
    parked,         \* getAddon requests that await the delivery of a message
    disturbed,      \* processes whose watchdog lost an addon during a getAddon
    lost            \* configurations a request held when its process died

addonVars == <<serviceVars, configs, addons, wds, lastConfig, parked, disturbed, lost>>

ConfigId == 1 .. MaxConfig
Relation == [wd : Watchdogs, addon : Addons, device : Devices \cup {NullDevice},
             config : ConfigId]

AddonInit ==
    /\ ServiceInit
    /\ configs = {} /\ wds = {} /\ lastConfig = 0
    /\ addons = [a \in {} |-> 0]
    /\ parked = {} /\ disturbed = {} /\ lost = {}

-----------------------------------------------------------------------------
(* Tables.                                                                 *)

Types == DOMAIN addons
Rows(wd, a) == {r \in wds : r.wd = wd /\ r.addon = a}
RowAt(wd, a, d) == {r \in Rows(wd, a) : r.device = d}

\* The configurations some row of another table refers to.
Referenced == {r.config : r \in wds} \cup {addons[a] : a \in Types}

tables == <<configs, addons, wds, lastConfig>>
hist   == <<disturbed, lost>>

\* DELETE FROM configs: refused by the foreign keys while a row refers to it.
Deletable(id) == id \notin Referenced

-----------------------------------------------------------------------------
(* modifyType: a new type gets a new default configuration; an existing    *)
(* one keeps its own, whose text is overwritten.                           *)

ModifyType(w, a) ==
    /\ IF a \in Types
       THEN Receive(w, [op |-> "type", at |-> "row", addon |-> a, id |-> addons[a]])
       ELSE Receive(w, [op |-> "type", at |-> "new", addon |-> a, id |-> 0])
    /\ UNCHANGED <<tables, parked, hist>>

\* updateConfig without an id: INSERT INTO configs ... RETURNING configID.
NewConfig(w) ==
    /\ req[w].op \in {"type", "install", "get", "modify"} /\ req[w].at = "new"
    /\ lastConfig < MaxConfig
    /\ lastConfig' = lastConfig + 1
    /\ configs' = configs \cup {lastConfig + 1}
    /\ Continue(w, [req[w] EXCEPT !.at = "row", !.id = lastConfig + 1])
    /\ UNCHANGED <<addons, wds, parked, hist>>

\* updateType: INSERT, and on a duplicate UPDATE.
InsertType(w) ==
    /\ At(w, "type", "row")
    /\ LET a == req[w].addon
           id == req[w].id
       IN IF a \in Types THEN Goto(w, "update") /\ UNCHANGED addons
          ELSE /\ addons' = IF id \in configs
                            THEN [b \in Types \cup {a} |-> IF b = a THEN id ELSE addons[b]]
                            ELSE addons
               /\ Answer(w)
    /\ UNCHANGED <<configs, wds, lastConfig, parked, hist>>

UpdateType(w) ==
    /\ At(w, "type", "update")
    /\ LET a == req[w].addon
           id == req[w].id
       IN addons' = IF a \in Types /\ id \in configs THEN [addons EXCEPT ![a] = id] ELSE addons
    /\ Answer(w)
    /\ UNCHANGED <<configs, wds, lastConfig, parked, hist>>

-----------------------------------------------------------------------------
(* installAddon: a relation of the watchdog with the NULL device, with a   *)
(* copy of the type's default configuration.  getAddon installs missing    *)
(* mandatory addons with the same statements, and modifyAddon ends with    *)
(* them.                                                                   *)

Install(w, wd, a) ==
    /\ Rows(wd, a) = {}
    /\ Receive(w, [op |-> "install", at |-> "type", wd |-> wd, addon |-> a,
                   device |-> NullDevice, id |-> 0])
    /\ UNCHANGED <<tables, parked, hist>>

\* selectType: without the type the request is answered False.
UnknownSkipped(w) ==                                                 \* mutant
    /\ req[w].op \in {"install", "get"} /\ req[w].at = "type"
    /\ IF req[w].addon \in Types
       THEN Continue(w, [req[w] EXCEPT !.at = "copy", !.id = addons[req[w].addon]])
       ELSE IF req[w].op = "get"
            THEN Continue(w, [req[w] EXCEPT !.at = "check", !.todo = Tail(@)])
            ELSE Answer(w)
    /\ UNCHANGED <<tables, parked, hist>>

SelectType(w) ==
    /\ req[w].op \in {"install", "get"} /\ req[w].at = "type"
    /\ IF req[w].addon \in Types
       THEN Continue(w, [req[w] EXCEPT !.at = "copy", !.id = addons[req[w].addon]])
       ELSE Answer(w)
    /\ UNCHANGED <<tables, parked, hist>>

\* selectConfig of the configuration to copy: None is not subscriptable.
CopyForgotten(w) ==                                                  \* mutant
    /\ req[w].op \in {"install", "get", "modify"} /\ req[w].at = "copy"
    /\ IF req[w].id \in configs THEN Goto(w, "row") ELSE Answer(w)
    /\ UNCHANGED <<tables, parked, hist>>

CopyConfig(w) ==
    /\ req[w].op \in {"install", "get", "modify"} /\ req[w].at = "copy"
    /\ IF req[w].id \in configs THEN Goto(w, "new") ELSE Answer(w)
    /\ UNCHANGED <<tables, parked, hist>>

\* The end of updateRelation: getAddon goes on with the next mandatory addon,
\* for a user after a message whose delivery it awaits.
RelationDone(w) ==
    IF req[w].op # "get" THEN Answer(w) /\ UNCHANGED parked
    ELSE LET next == [req[w] EXCEPT !.at = "check", !.todo = Tail(@)]
         IN IF req[w].user
            THEN Answer(w) /\ parked' = parked \cup {[w |-> w, req |-> next]}
            ELSE Continue(w, next) /\ UNCHANGED parked

\* updateRelation: INSERT, and on a duplicate UPDATE.
InsertRelation(w) ==
    /\ req[w].op \in {"install", "get", "modify"} /\ req[w].at = "row"
    /\ LET r == req[w]
       IN \/ /\ RowAt(r.wd, r.addon, r.device) # {}
             /\ Goto(w, "update")
             /\ UNCHANGED <<wds, parked>>
          \/ /\ RowAt(r.wd, r.addon, r.device) = {}
             /\ r.addon \in Types /\ r.id \in configs
             /\ wds' = wds \cup {[wd |-> r.wd, addon |-> r.addon, device |-> r.device,
                                  config |-> r.id]}
             /\ RelationDone(w)
          \/ /\ RowAt(r.wd, r.addon, r.device) = {}
             /\ ~(r.addon \in Types /\ r.id \in configs)
             /\ Answer(w)
             /\ UNCHANGED <<wds, parked>>
    /\ UNCHANGED <<configs, addons, lastConfig, hist>>

UpdateRelation(w) ==
    /\ req[w].op \in {"install", "get", "modify"} /\ req[w].at = "update"
    /\ LET r == req[w]
           old == RowAt(r.wd, r.addon, r.device)
       IN IF r.id \in configs \/ old = {}
          THEN /\ wds' = (wds \ old) \cup {[o EXCEPT !.config = r.id] : o \in old}
               /\ RelationDone(w)
          ELSE Answer(w) /\ UNCHANGED <<wds, parked>>
    /\ UNCHANGED <<configs, addons, lastConfig, hist>>

-----------------------------------------------------------------------------
(* modifyAddon: a device with a relation keeps its configuration; one that *)
(* has only the fall-back gets a relation with a new one, given in the     *)
(* request or copied.                                                      *)

ModifyAddon(w, wd, a, d, config) ==
    /\ \/ \E r \in RowAt(wd, a, d) :
             Receive(w, [op |-> "modify", at |-> "row", wd |-> wd, addon |-> a,
                         device |-> d, id |-> r.config, config |-> config])
       \/ /\ RowAt(wd, a, d) = {} /\ d # NullDevice
          /\ Receive(w, [op |-> "modify", at |-> "fallback", wd |-> wd, addon |-> a,
                         device |-> d, id |-> 0, config |-> config])
    /\ UNCHANGED <<tables, parked, hist>>

SelectFallback(w) ==
    /\ At(w, "modify", "fallback")
    /\ LET null == RowAt(req[w].wd, req[w].addon, NullDevice)
       IN IF null = {} THEN Answer(w)
          ELSE \E r \in null :
                 IF req[w].config THEN Goto(w, "new")
                 ELSE Continue(w, [req[w] EXCEPT !.at = "copy", !.id = r.config])
    /\ UNCHANGED <<tables, parked, hist>>

-----------------------------------------------------------------------------
(* getAddon: install what is missing of the mandatory addons, then list.   *)

GetAddon(w, wd, d, user) ==
    /\ Receive(w, [op |-> "get", at |-> "check", wd |-> wd, dev |-> d, user |-> user,
                   todo |-> Mandatory, addon |-> Mandatory[1], device |-> NullDevice, id |-> 0])
    /\ disturbed' = IF \E p \in parked : p.w = w THEN disturbed ELSE disturbed \ {w}
    /\ UNCHANGED <<tables, parked, lost>>

\* selectRelation: the relation of the device asked for, else the fall-back.
CheckMandatory(w) ==
    /\ At(w, "get", "check") /\ req[w].todo # <<>>
    /\ LET a == Head(req[w].todo)
       IN IF RowAt(req[w].wd, a, req[w].dev) # {}
          THEN Continue(w, [req[w] EXCEPT !.todo = Tail(@)])
          ELSE Continue(w, [req[w] EXCEPT !.at = "null", !.addon = a])
    /\ UNCHANGED <<tables, parked, hist>>

CheckFallback(w) ==
    /\ At(w, "get", "null")
    /\ IF RowAt(req[w].wd, req[w].addon, NullDevice) # {}
       THEN Continue(w, [req[w] EXCEPT !.at = "check", !.todo = Tail(@)])
       ELSE Goto(w, "type")
    /\ UNCHANGED <<tables, parked, hist>>

\* The message is delivered; the handler runs on when the event loop is free.
Unpark(w, p) ==
    /\ Free(w) /\ p.w = w
    /\ parked' = parked \ {p}
    /\ Continue(w, p.req)
    /\ UNCHANGED <<tables, hist>>

\* SELECT of all relations, whose configurations are then read one by one; a
\* request that names a device is answered with that relation only.
ListAddons(w) ==
    /\ At(w, "get", "check") /\ req[w].todo = <<>>
    /\ IF req[w].dev = NoDevice
       THEN Continue(w, [op |-> "listed", rows |-> {r \in wds : r.wd = req[w].wd}])
       ELSE Answer(w)
    /\ UNCHANGED <<tables, parked, hist>>

SendList(w) ==
    /\ req[w].op = "listed"
    /\ Answer(w)
    /\ UNCHANGED <<tables, parked, hist>>

-----------------------------------------------------------------------------
(* getType: SELECT one type, or all, then their default configurations one *)
(* by one; where another process deleted one, None is not subscriptable.   *)

GetType(w, as) ==
    /\ as \subseteq Types
    /\ Receive(w, [op |-> "types", at |-> "configs", ids |-> {addons[a] : a \in as}, none |-> FALSE])
    /\ UNCHANGED <<tables, parked, hist>>

SelectConfig(w) ==
    /\ At(w, "types", "configs") /\ ~req[w].none
    /\ \E id \in req[w].ids :
         Continue(w, IF id \in configs THEN [req[w] EXCEPT !.ids = @ \ {id}]
                     ELSE [req[w] EXCEPT !.none = TRUE])
    /\ UNCHANGED <<tables, parked, hist>>

SendTypes(w) ==
    /\ At(w, "types", "configs") /\ (req[w].none \/ req[w].ids = {})
    /\ Answer(w)
    /\ UNCHANGED <<tables, parked, hist>>

-----------------------------------------------------------------------------
(* uninstallAddon and removeType: note the configurations, delete the      *)
(* relations, (delete the type and its default,) delete what was noted.    *)

Uninstall(w, wd, a) ==
    /\ a \in Types
    /\ Receive(w, [op |-> "drop", at |-> "default", addon |-> a, wds |-> {wd}, whole |-> FALSE,
                   default |-> 0, ids |-> {}])
    /\ UNCHANGED <<tables, parked, hist>>

RemoveType(w, a) ==
    /\ a \in Types
    /\ Receive(w, [op |-> "drop", at |-> "default", addon |-> a, wds |-> Watchdogs, whole |-> TRUE,
                   default |-> 0, ids |-> {}])
    /\ UNCHANGED <<tables, parked, hist>>

\* selectType(addonName)[-1], a second SELECT: None is not subscriptable.
SelectDefault(w) ==
    /\ At(w, "drop", "default")
    /\ IF req[w].addon \in Types
       THEN Continue(w, [req[w] EXCEPT !.at = "ids", !.default = addons[req[w].addon]])
       ELSE Answer(w)
    /\ UNCHANGED <<tables, parked, hist>>

Dropped(w) == {r \in wds : r.addon = req[w].addon /\ r.wd \in req[w].wds}

FallbackNoted(w) ==                                                  \* mutant
    /\ At(w, "drop", "ids")
    /\ Continue(w, [req[w] EXCEPT !.at = "rows",
                     !.ids = {r.config : r \in {s \in Dropped(w) : s.device = NullDevice}}])
    /\ UNCHANGED <<tables, parked, hist>>

SelectIds(w) ==
    /\ At(w, "drop", "ids")
    /\ Continue(w, [req[w] EXCEPT !.at = "rows", !.ids = {r.config : r \in Dropped(w)}])
    /\ UNCHANGED <<tables, parked, hist>>

DeleteRelations(w) ==
    /\ At(w, "drop", "rows")
    /\ wds' = wds \ Dropped(w)
    /\ disturbed' = disturbed \cup
         {v \in Workers : \E r \in {req[v]} \cup {p.req : p \in {q \in parked : q.w = v}} :
            r.op \in {"get"} /\ r.wd \in req[w].wds}
    /\ Goto(w, IF req[w].whole THEN "addon" ELSE "configs")
    /\ UNCHANGED <<configs, addons, lastConfig, parked, lost>>

DeleteType(w) ==
    /\ At(w, "drop", "addon")
    /\ IF \E r \in wds : r.addon = req[w].addon
       THEN Answer(w) /\ UNCHANGED addons
       ELSE /\ addons' = [a \in Types \ {req[w].addon} |-> addons[a]]
            /\ Goto(w, "defaults")
    /\ UNCHANGED <<configs, wds, lastConfig, parked, hist>>

DeleteDefault(w) ==
    /\ At(w, "drop", "defaults")
    /\ IF Deletable(req[w].default)
       THEN configs' = configs \ {req[w].default} /\ Goto(w, "configs")
       ELSE Answer(w) /\ UNCHANGED configs
    /\ UNCHANGED <<addons, wds, lastConfig, parked, hist>>

\* uninstallAddon skips the default configuration, removeType deleted it.
DeleteConfig(w) ==
    /\ At(w, "drop", "configs")
    /\ LET ids == IF req[w].whole THEN req[w].ids ELSE req[w].ids \ {req[w].default}
       IN IF ids = {} THEN Answer(w) /\ UNCHANGED configs
          ELSE \E id \in ids :
                 IF Deletable(id)
                 THEN /\ configs' = configs \ {id}
                      /\ Continue(w, [req[w] EXCEPT !.ids = ids \ {id}])
                 ELSE Answer(w) /\ UNCHANGED configs
    /\ UNCHANGED <<addons, wds, lastConfig, parked, hist>>

-----------------------------------------------------------------------------

\* The configurations the request of process w knows and has yet to place or delete.
Held(w) ==
    CASE req[w].op = "drop" -> req[w].ids \cup {req[w].default}
      [] req[w].op \in {"type", "install", "get", "modify"} -> {req[w].id}
      [] OTHER -> {}

\* A process dies and is started again.
AddonCrash(w) ==
    /\ w \in alive
    /\ lost' = lost \cup (Held(w) \cap configs)
    /\ Answer(w)
    /\ parked' = {p \in parked : p.w # w}
    /\ UNCHANGED <<tables, disturbed>>

AddonNext ==
    \E w \in Workers :
        \/ \E a \in Addons : ModifyType(w, a) \/ RemoveType(w, a)
        \/ NewConfig(w) \/ InsertType(w) \/ UpdateType(w)
        \/ \E wd \in Watchdogs, a \in Addons :
             \/ Install(w, wd, a) \/ Uninstall(w, wd, a)
             \/ \E d \in Devices \cup {NullDevice}, config \in BOOLEAN :
                  ModifyAddon(w, wd, a, d, config)
        \/ SelectType(w) \/ CopyConfig(w) \/ InsertRelation(w) \/ UpdateRelation(w)
        \/ SelectFallback(w)
        \/ \E wd \in Watchdogs, d \in Devices \cup {NoDevice}, user \in BOOLEAN :
             GetAddon(w, wd, d, user)
        \/ CheckMandatory(w) \/ CheckFallback(w) \/ ListAddons(w) \/ SendList(w)
        \/ \E p \in parked : Unpark(w, p)
        \/ \E as \in {{a} : a \in Addons} \cup {Types} : GetType(w, as)
        \/ SelectConfig(w) \/ SendTypes(w)
        \/ SelectDefault(w) \/ SelectIds(w) \/ DeleteRelations(w)
        \/ DeleteType(w) \/ DeleteDefault(w) \/ DeleteConfig(w)
        \/ AddonCrash(w)

AddonSpec == AddonInit /\ [][AddonNext]_addonVars

-----------------------------------------------------------------------------
(* Properties.                                                             *)

AddonTypeOK ==
    /\ configs \subseteq ConfigId /\ lastConfig \in 0 .. MaxConfig
    /\ Types \subseteq Addons /\ \A a \in Types : addons[a] \in ConfigId
    /\ wds \subseteq Relation
    /\ disturbed \subseteq Workers /\ lost \subseteq ConfigId
    /\ \A p \in parked : p.w \in Workers

\* No two relations share a configuration and none uses the default of a type,
\* so that a change for one device of one watchdog never reaches another
\* (modifyAddon: an entry "already has a unique configID number, compared to
\* the defaultConfigID"), however the statements of the requests interleave.
PrivateConfigs ==
    /\ \A r, s \in wds : r.config = s.config => r = s
    /\ \A r \in wds, a \in Types : r.config # addons[a]

\* One process: a configuration in the table is in use, or the request that
\* is about to place or delete it is still running, or was when its process
\* died: nothing that install, modify, uninstall and remove do leaves one over.
NoOrphanConfig ==
    Sequential =>
        configs \subseteq Referenced \cup lost \cup UNION {Held(w) : w \in Workers}

\* A default configuration vanishes under getType only by another process.
TypesReadable ==
    \A w \in Workers : (req[w].op = "types" /\ req[w].none) => ~Sequential

\* The list getAddon sends names every mandatory addon, unless a relation of
\* this watchdog was deleted while the request was handled: by another
\* process, or by the same one while a message was being delivered.
MandatoryListed ==
    \A w \in Workers : req[w].op = "listed" =>
        \/ w \in disturbed
        \/ \A i \in DOMAIN Mandatory : \E r \in req[w].rows : r.addon = Mandatory[i]

\* What the service keeps for its watchdogs: configurations are private, none is
\* left without its relation, and the mandatory addons are listed.
AddonsSound == PrivateConfigs /\ NoOrphanConfig /\ TypesReadable /\ MandatoryListed

=============================================================================
