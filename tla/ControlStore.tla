---------------------------- MODULE ControlStore ----------------------------
(***************************************************************************)
(* The database of the device control backend, src/device_control_backend: *)
(* the devices of a watchdog with their status, and options of devices,    *)
(* requested by the watchdog (module DeviceReport) and by its users.       *)
(*                                                                         *)
(* Two processes serve it (templates/deployment.yaml).  A request is a     *)
(* sequence of statements (module Service); a row that is there already is *)
(* an error of the database that no handler catches, which ends the        *)
(* request and the connection.  Watchdogs do not see each other's rows:    *)
(* there is one.  A change made by the watchdog that no connection of its  *)
(* users is told of, because the broker is away or late, is mailed.  Types *)
(* are left out, and so are mail policies that ask for no mail.            *)
(***************************************************************************)
EXTENDS Service

CONSTANTS
    Gadgets,        \* device numbers
    Settings,       \* keys of options
    MailPolicy,     \* the option that asks for mails
    Statuses,       \* WHITELISTED, NORMAL and QUARANTINED
    Normal          \* the one that a new device has

ASSUME ControlAssumption == Normal \in Statuses /\ MailPolicy \in Settings

VARIABLES
    gadgets,        \* table devices: status by device, a partial function
    settings,       \* table optionals: pairs of device and key
    decided,        \* per device, the status that was asked for last
    welcomed,       \* devices whose registration was answered with success
    homeless,       \* options that a user gave a device nobody registered
    confused,       \* devices that were lacking when an answer was put together
    notices,        \* <<process, device>>: a change that the users are being told of
    owner,          \* table wdcodes has a row with the address of a user
    mailed,         \* devices whose change was mailed
    unmailed        \* devices whose change ended in an IndexError instead

mailVars == <<notices, owner, mailed, unmailed>>
controlVars == <<serviceVars, gadgets, settings, decided, welcomed, homeless, confused, mailVars>>

Registered == DOMAIN gadgets

ControlTypeOK ==
    /\ Registered \subseteq Gadgets /\ gadgets \in [Registered -> Statuses]
    /\ settings \subseteq Gadgets \X Settings /\ homeless \subseteq settings
    /\ welcomed \subseteq Registered /\ confused \subseteq Gadgets
    /\ notices \subseteq Workers \X Registered /\ owner \in BOOLEAN /\ mailed \cup unmailed \subseteq Registered

ControlInit ==
    /\ ServiceInit
    /\ gadgets = [g \in {} |-> Normal] /\ settings = {}
    /\ decided = [g \in Gadgets |-> Normal] /\ welcomed = {} /\ homeless = {} /\ confused = {}
    /\ notices = {} /\ owner = FALSE /\ mailed = {} /\ unmailed = {}

-----------------------------------------------------------------------------
(* websocket_endpoint: the first user of a watchdog leaves an address.     *)

ConnectUser(w) ==
    /\ ~owner /\ Receive(w, [op |-> "user", at |-> "insert"])
    /\ UNCHANGED <<gadgets, settings, decided, welcomed, homeless, confused, mailVars>>

\* The one duplicate that is caught.
InsertUser(w) ==
    /\ At(w, "user", "insert") /\ Answer(w)
    /\ owner' = TRUE
    /\ UNCHANGED <<gadgets, settings, decided, welcomed, homeless, confused, notices, mailed, unmailed>>

-----------------------------------------------------------------------------
(* A change that the watchdog made of device g: send waits for the hub     *)
(* while the process takes other requests; when it fails, lookupEmail.     *)

Notify(w, g) ==
    /\ notices' = notices \cup {<<w, g>>}
    /\ UNCHANGED <<owner, mailed, unmailed>>

Heard(w, g) ==
    /\ <<w, g>> \in notices /\ notices' = notices \ {<<w, g>>}
    /\ UNCHANGED <<serviceVars, gadgets, settings, decided, welcomed, homeless, confused, owner, mailed, unmailed>>

Unheard(w, g) ==
    /\ Free(w)
    /\ <<w, g>> \in notices /\ notices' = notices \ {<<w, g>>}
    /\ Continue(w, [op |-> "mail", at |-> "policy", dev |-> g])
    /\ UNCHANGED <<gadgets, settings, decided, welcomed, homeless, confused, owner, mailed, unmailed>>

SelectPolicy(w) ==
    /\ At(w, "mail", "policy")
    /\ Continue(w, [op |-> "mail", at |-> "email", dev |-> req[w].dev,
                    policy |-> <<req[w].dev, MailPolicy>> \in settings])
    /\ UNCHANGED <<gadgets, settings, decided, welcomed, homeless, confused, mailVars>>

\* Without a policy of the device the one of the user would do, but the SELECT
\* asks for the address only.
SelectEmail(w) ==
    /\ At(w, "mail", "email") /\ Answer(w)
    /\ mailed' = IF owner /\ req[w].policy THEN mailed \cup {req[w].dev} ELSE mailed
    /\ unmailed' = IF owner /\ ~req[w].policy THEN unmailed \cup {req[w].dev} ELSE unmailed
    /\ UNCHANGED <<gadgets, settings, decided, welcomed, homeless, confused, notices, owner>>

-----------------------------------------------------------------------------
(* registerDevice.                                                         *)

RegisterGadget(w, g) ==
    /\ Receive(w, [op |-> "gadget", at |-> IF g \in Registered THEN "known" ELSE "insert", dev |-> g])
    /\ UNCHANGED <<gadgets, settings, decided, welcomed, homeless, confused, mailVars>>

\* "Non unique device id!"
GadgetKnown(w) ==
    /\ At(w, "gadget", "known") /\ Answer(w)
    /\ UNCHANGED <<gadgets, settings, decided, welcomed, homeless, confused, mailVars>>

WithGadget(g) == [h \in Registered \cup {g} |-> IF h = g THEN Normal ELSE gadgets[h]]

InsertOrReplace(w) ==                                                \* mutant
    /\ At(w, "gadget", "insert") /\ Answer(w)
    /\ gadgets' = WithGadget(req[w].dev) /\ welcomed' = welcomed \cup {req[w].dev}
    /\ Notify(w, req[w].dev)
    /\ UNCHANGED <<settings, decided, homeless, confused>>

InsertGadget(w) ==
    /\ At(w, "gadget", "insert") /\ Answer(w)
    /\ IF req[w].dev \in Registered THEN UNCHANGED <<gadgets, welcomed, mailVars>>
       ELSE /\ gadgets' = WithGadget(req[w].dev) /\ welcomed' = welcomed \cup {req[w].dev}
            /\ Notify(w, req[w].dev)
    /\ UNCHANGED <<settings, decided, homeless, confused>>

-----------------------------------------------------------------------------
(* updateStatus: one statement, whoever asks; a user's is not mailed.      *)

UpdateStatus(w, g, s, user) ==
    /\ Free(w) /\ UNCHANGED serviceVars
    /\ g \in Registered
    /\ gadgets' = [gadgets EXCEPT ![g] = s] /\ decided' = [decided EXCEPT ![g] = s]
    /\ IF user THEN UNCHANGED mailVars ELSE Notify(w, g)
    /\ UNCHANGED <<settings, welcomed, homeless, confused>>

\* updateType, which changes the type only.
UpdateGadgetType(w, g) ==
    /\ Free(w) /\ UNCHANGED serviceVars
    /\ g \in Registered /\ Notify(w, g)
    /\ UNCHANGED <<gadgets, settings, decided, welcomed, homeless, confused>>

-----------------------------------------------------------------------------
(* updateOption: the watchdog's needs the device, a user's does not.       *)

UpdateSetting(w, g, k, user) ==
    /\ user \/ g \in Registered
    /\ Receive(w, [op |-> "setting", at |-> IF <<g, k>> \in settings THEN "update" ELSE "insert",
                   row |-> <<g, k>>, user |-> user])
    /\ UNCHANGED <<gadgets, settings, decided, welcomed, homeless, confused, mailVars>>

\* Options are never deleted, so UPDATE finds its row; INSERT may not be the first.
WriteSetting(w) ==
    /\ At(w, "setting", "insert") \/ At(w, "setting", "update")
    /\ Answer(w)
    /\ settings' = settings \cup {req[w].row}
    /\ homeless' = IF req[w].user /\ req[w].row[1] \notin Registered
                   THEN homeless \cup {req[w].row} ELSE homeless
    /\ UNCHANGED <<gadgets, decided, welcomed, confused, mailVars>>

-----------------------------------------------------------------------------
(* requestInfo: SELECT the devices, then SELECT the options and put each   *)
(* into its device, a KeyError when that is not among the devices.         *)

RequestDevices(w) ==
    /\ Receive(w, [op |-> "info", at |-> "options", read |-> Registered])
    /\ UNCHANGED <<gadgets, settings, decided, welcomed, homeless, confused, mailVars>>

Lacking(w) == {row[1] : row \in settings} \ req[w].read

RequestOptions(w) ==
    /\ At(w, "info", "options") /\ Answer(w)
    /\ confused' = confused \cup Lacking(w)
    /\ UNCHANGED <<gadgets, settings, decided, welcomed, homeless, mailVars>>

ControlCrash(w) ==
    /\ w \in alive /\ Answer(w)
    /\ notices' = {n \in notices : n[1] # w}
    /\ UNCHANGED <<gadgets, settings, decided, welcomed, homeless, confused, owner, mailed, unmailed>>

ControlNext ==
    \E w \in Workers :
        \/ \E g \in Gadgets :
             \/ RegisterGadget(w, g) \/ UpdateGadgetType(w, g)
             \/ \E s \in Statuses, user \in BOOLEAN : UpdateStatus(w, g, s, user)
             \/ Heard(w, g) \/ Unheard(w, g)
             \/ \E k \in Settings, user \in BOOLEAN : UpdateSetting(w, g, k, user)
        \/ ConnectUser(w) \/ InsertUser(w) \/ SelectPolicy(w) \/ SelectEmail(w)
        \/ GadgetKnown(w) \/ InsertGadget(w) \/ WriteSetting(w)
        \/ RequestDevices(w) \/ RequestOptions(w) \/ ControlCrash(w)

ControlSpec == ControlInit /\ [][ControlNext]_controlVars

-----------------------------------------------------------------------------
(* Properties.                                                             *)

\* A device keeps the status that was decided for it: a registration that
\* another process overtook neither resets it nor counts as a new device.
StatusAsDecided == \A g \in Registered : gadgets[g] = decided[g]

\* Only a registered device has options, except for what users asked for; and the
\* list for a client fails for such options only, or in another process's way.
OptionsHaveDevice ==
    /\ \A row \in settings : row[1] \in Registered \/ row \in homeless
    /\ \A g \in confused : (\E row \in homeless : row[1] = g) \/ ~Sequential

\* A mail is only sent for a registered device, when a user left an address and
\* asked for mails about it; and a change ends in an error instead only when there
\* is somebody who is not told now.
MailsWanted ==
    /\ mailed \cup unmailed # {} => owner
    /\ \A g \in mailed : <<g, MailPolicy>> \in settings
    /\ mailed \cup unmailed \subseteq Registered

ControlSound == StatusAsDecided /\ OptionsHaveDevice /\ MailsWanted

=============================================================================
