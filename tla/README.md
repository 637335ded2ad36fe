# A TLA+ model of Bitahoy

Bitahoy is a home-network security box: the *watchdog* (`src/client`) redirects the traffic of
the devices in a home through itself by ARP spoofing, hands packets to addons, and is controlled
through a set of web services (`src/*_backend`). This directory holds TLA+ modules for the parts
whose correctness depends on interleaving, failure, order and boundaries, the TLC runs that check
them on small instances, and proofs that TLAPS checks for every instance. `PROJECT.json` lists
components, runs, mutants, findings, hazards and theorems, and maps every definition to the lines
it stands for.

## 1. Inventory

| component | state it keeps | talks to | hard part | modules |
|---|---|---|---|---|
| packet framing (`ipc/serializers.py`) | none | both ends of every queue | bytes arrive in arbitrary pieces; escapes at the boundary | Serializer |
| inter-process queue (`ipc/queue.py`) | deque, semaphore, a task with locals per connection, buffers on both sides | all processes, over Unix sockets | tasks suspended in a write, death of any process, put-back at the head | QueueServer, LossyQueue |
| events (`ipc/event.py`) | handlers | a queue and a module | one task per event: handlers interleave | as tasks in every module with handlers |
| master (`modules/master.py`, `core/processes.py`) | workers, queues of addons | every module | SIGINT, dead workers, queues of addons that are gone, order of the shutdown | Master |
| spoofer (`modules/spoofer.py`, `network/arpspoof.py`) | nodes, packets, interface, blacklist | ARP listener, bridge, devices' ARP tables | two coroutines share attributes; termination runs beside them | Spoofer |
| ARP listener, prober | ARP cache, network configuration | spoofer, interceptors, device identification | stale configuration and entries | DeviceTable, Prober, SocketFilters |
| device identification (`modules/deviceid.py`) | devices by id, MAC and IPv4; data that waits for a device | ARP, DHCP, discovery, bridge | consistency of the indexes across awaits | DeviceTable |
| device scanners (`modules/devicescanner.py`, `DeviceIdentifier`) | descriptions read so far, a global | device identification | what one answer does to a later scan | DeviceScanner |
| addon manager (`modules/addon_manager.py`, `core/addon.py`) | active addons and their processes, filters per interceptor, listeners | bridge, interceptors, addon processes | check, await, insert; stale filters | AddonManager, Interception, AddonSender |
| interceptor (`modules/interceptor.py`) | filters, socket, node table | addon manager, addons | filters compiled concurrently; a socket that is replaced | Interception, Packets |
| bridge (`modules/bridge.py`, `core/cloud.py`) | last device info, token cache | backends, spoofer, addon manager, identification | answers matched by name only; connections that are never re-opened | DeviceReport, BackendWS |
| backend client (`bitahoy_sdk/backend.py`) | websocket, callbacks by action, three tasks | a backend | connections die; answers carry no identity | BackendWS |
| logging (`core/logging.py`, `modules/logger.py`) | two lists, a batch | every module, the monitoring backend | lists appended to and taken between awaits | CloudLog |
| packet library (`network/*.py`) | none (queues of the two worker processes apart) | interceptor, addon manager, prober | fragments, checksums, next hops, filters of sockets | Packets, AddonSender, SocketFilters |
| DHCP server (`network/dhcp.py`) | leases | devices | limits of the pool, options as bytes | Leases |
| addon SDK filters (`bitahoy_sdk/filter`) | none | addons, the kernel | two implementations of one language | FilterLanguage |
| adblocker addon | blacklists, counters, resolver's queue | devices, addon manager, monitoring | update, counters and requests interleave | Adblocker |
| websocket hub (`backend_lib/websocket_manager.py`) | connections per code, pending answers, link to the broker | clients, broker | late answers, reused ids, lists that change under an iteration | Hub |
| notification broker (`backend_zmq_server`) | instances, pending queries | hubs of all instances | instances that leave with queries open | Hub |
| auth backend | users, codes, pending requests, token cache | everybody | expiry, uniqueness, several statements per request | AuthStore |
| addon backend | types, configurations, relations | clients | several statements per request | AddonStore |
| device control backend | devices, status, options | clients, hub, mail | two processes; notification or mail | ControlStore |
| monitoring backend | statistics, logs, notifications, configurations | clients, hub | limits counted before the insert | MonitoringStore |
| machine-learning backend | models, devices' models, what watchdogs pulled | watchdogs, hub | versions computed before the insert; notes read before they are used | ModelStore |
| configuration, image build and set-up | a file; none | | scripts and lookups | not modelled |

How they interact: every module of the watchdog is a process with an asyncio loop; events go through
queues (a Unix socket each) to the master, which routes them to the modules. The bridge is the only
module that talks to the backends, over one websocket per backend. Backends run as replicas
(two for device control and monitoring, one for the others: `src/*/templates/deployment.yaml`)
whose hubs reach each other's clients through the broker.

What makes each component correct is listed with its hazards in `PROJECT.json`, each at the line
where it bites, with the properties that would notice.

## 2. Conventions

A *step* is what an asyncio task does between two suspension points, or what one process does
between two system calls (or SQL statements) that another process can observe. Kernel sockets are
bounded sequences that deliver any prefix of what they hold. A killed process loses its locals and
its receive buffers, nothing else. History variables are marked "history" in the modules; no action
reads them. Definitions marked `\* mutant` are deliberately wrong versions of the definition that
follows them; no module uses them, they show that a property can fail.

The backends' steps are statements: `auth_backend` and the others connect with autocommit, so each
statement is a transaction of its own; a handler keeps the event loop from one statement to the next
(the drivers block), so inside a process requests only interleave where a handler awaits, and
between processes everywhere (module `Service`). Processes may die between any two statements.
Ids and secrets that the code draws from a large space are fresh, where the module does not say
otherwise (the broker's ids are one of a thousand and may repeat).

Three modules compose parts that only meet in events or not at all, and a behaviour follows one of
their parts, chosen in the initial state, while the others rest: `Wire` (framing, filters, packets,
sender, leases, prober, sockets), `Watchdog` (table, report, interception, master, log, adblocker,
scanner) and `Cloud` (auth, addon, ml, control, monitoring). These are sums, not products: what they
show is what each part shows by itself, in an environment that sends its inputs in every order. Where
parts do act on each other they are in one module: listener, cache and table of devices in `DeviceTable`,
bridge and device control in `DeviceReport`, manager and interceptor in `Interception`, hubs and
broker in `Hub`, the queue server with its clients in `QueueServer`.

## 3. Modules

**Serializer.** `serialize` and `deserialize` on sequences of bytes; `FrameLen` is `parse`. The loops are
recursive functions: `EscapeAfter(data)[i]` and `ReadAfter(data)[i]` are the locals after `i` bytes. The
machine is the longest path of a packet: `ClientPut`, socket, `_sender` (`ServerRecv`, `ServerForward`),
socket, `get` (`ClientRecv`, `ClientYield`).

**LossyQueue, QueueServer.** `LossyQueue` is the promise: a packet enters once, is given to at most
one receiver, is read in the order it was given, and is lost only with its receiver or the queue.
`QueueServer` has the deque, the semaphore and one task per connection (`task[c]`: where its
coroutine is suspended, with the locals `buf`, `packet`, `unsent`). A frame is a sequence of pieces
of which the last carries the terminator. `Put`/`PutMore`, `SenderTask`/`SenderEOF` (`_sender`),
`Take`/`Resume`/`Slept` (`_receiver`), `Recv`/`Yield` (get), `SenderDies`, `ReceiverDies`, `Close`,
`QueueClosed`.

**Spoofer.** `OnNodeconfig`/`OnWhitelist`/`Configure` are event_listener (it awaits the logger before
it publishes new packets); `SpoofStart`, `SpoofRound`, `SpoofSend`, `SpoofRoundDone` are spoof;
`Fail`, `Restart`, `Interrupt`, `Restore`, `RestoreFails`, `Sigkill` are the process. `arp` is the
effect on the world: whose entry for whom points to the watchdog; with `broadcast`, the default, a packet
for one device is heard by all, and `Corrected` is a device that hears the owner of an address
again. `Interrupt` may kill the coroutine
that was executing; the others stay pending on the loop on which on_terminate then runs.

**BackendWS.** `ws`, `authenticated`, the callbacks per action, where each caller of `request` is, the
listen and keepalive tasks with their retries, one connection at a time. `Lost` is the exception
handler of `__action`. The server is what a client observes of it: authentication first, one answer
per message, in order, and for the actions in `Echoed` a notification of the same name before it.

**AddonManager.** `active_addons` in order, the AddonEntry objects with the state of their processes,
the directory of each addon, the handlers of ADDONLIST and the health check; git's steps are
`CloneBegin`, `CloneEnd`, `CloneFail`, `Checkout`.

**Interception.** From an addon's registration to the socket: the manager's filters per interceptor
and its words to the logger before it sends them (`OnUpdate`, `Forward`), the interceptor's concurrent
handlers (`OnOrder`, `Wake`, `Compiled`), its listener that opens and replaces sockets (`Open`,
`Attach`), and the reload when the network changes (`AddressChanges`, `OnNewAddress`). A class may have
several processes, one after another or at once, as the addon manager can start a second one
(`OneProcess`, section 5); all speak for the class. Manager and interceptor start anew after an
exception (`ManagerFails`, `InterceptorFails`), which empties their tables while the addons' processes
go on, and leaves a connection nobody reads, on which events are lost (`UpdateLost`, `OrderLost`).

**DeviceTable.** The ARP cache and its broadcasts, the handlers of deviceid in `Slots` tasks, data of
DHCP and discovery that waits for a device, the merge, the reports.

**DeviceReport.** Handlers of the bridge that report devices over one connection, the callbacks that
match answers by name, pushes and the heartbeat that reload the device information, the whitelist
for the spoofer, and the user who decides.

**DeviceScanner.** Rounds of mDNS, SSDP and NetBIOS, what the parsers take, the merge and the reports;
`services` survives an exception, as the process does.

**Master.** Inbox, routing, addons' queues that appear and vanish, also of two processes of one class
that live at once, workers that die, the shutdown with
its two deadlines, the logger's special part, interrupts.

**CloudLog, Adblocker.** The way of a log message from its handler to the upload; lists, counters and
the resolver of the adblocker.

**Packets, AddonSender, SocketFilters, Prober, Leases, FilterLanguage.** Pure algorithms against a
reference, and small machines: fragmentation against reassembly, the checksum against its definition
in one's complement arithmetic, next hops (for devices without an address too: correct.py provides for
them when it shows a packet, not when it sends one, although the ARP listener has none such); the packets
of an addon on their way to a worker's socket, which is closed and opened again; the generated BPF programs against what they are for; networks in
their serialized form; leases; the filter language's evaluator against the program that is compiled
from the same filter. Widths are parameters (`Width`, `ByteBase`, `AddressBits`): a carry, a truncation
or an odd length happens with six bits as with sixteen.

**Hub.** Two instances with their connections, the broker's list and queries, links that break, ids that
repeat, messages distributed with an await per connection, answers after two seconds.

**Service, AuthStore, AddonStore, ModelStore, ControlStore, MonitoringStore.** Rows as records, a
request as an operation with the statement it is at and what it has read so far.

## 4. Runs

| run | properties | what it shows |
|---|---|---|
| `wire` | InOrderIntact, NothingStuck, CodecsSound | what is read is a prefix of what was put, byte for byte, and drained sockets leave empty buffers; the codecs and small machines of section 3 |
| `queue` | TypeOK, SemMatchesQueue, FramesIntact, OnlyRequeuedOvertaken, ImplementsLossyQueue, Drains, CloseReachesReceivers | the queue refines `LossyQueue`, keeps frames whole and ordered through deaths of anybody, drains and ends its readers |
| `spoofer` | QuietTerminateRestores, NoSpoofBeforeWhitelist, ExclusionTakesEffect, KnownDevicesAreSpoofed | with broadcasts, the default, and without, through exceptions and restarts: no spoofing before the exclusions are known, nobody stays redirected *away from* an excluded device, known devices are spoofed; an excluded device is left alone itself only without broadcasts |
| `backend_ws` | TypeOK, OwnAnswer, AtMostOnce, AnsweredOrLost, LossNoticed | requests get their own answer, are executed once at most, are answered or lost with the connection |
| `addon_manager` | ActiveIsComplete, SoleProcessUnlessOverlap, Converges, TerminatedAreRestarted | active addons follow the list; dead processes are restarted; processes are sole as long as nothing overlapped |
| `hub` | HubTypeOK, EveryoneOnce, LinksStayUp, SenderIsFound, QueryOwed | a message reaches everybody once; the protocol by itself loses no instance; no question hangs |
| `cloud` | CloudTypeOK, AccountsSound, AddonsSound, StoresSound, OneBox, VersionsGrow, NotedForward | the tables stay consistent between any two statements of one or two processes, with deaths |
| `watchdog` | WatchdogTypeOK, WatchdogSettled, TableCatchesUp, SpooferFollows, StopsWhenItMust | when a part is at rest nothing was lost; the table catches up with the network, the spoofer with the user; a dead module or an interrupt stops the watchdog |
| `spoofer_restore`, `backend_ws_retry`, `backend_ws_push`, `addon_manager_once` | one each | expected violations (section 5) |

Properties such as `CodecsSound`, `WatchdogSettled`, `StoresSound` are conjunctions or cases of the
properties that the parts' modules state, each with the comment that says what it is about and which
exceptions it names. An exception in a property ("unless an addon died") is behaviour of the code,
described in section 5.

**Bounds.** They are constants, named in the modules and given in the `.cfg` files.

* *framing*: alphabet {terminator, escape, ordinary}; every payload of at most two bytes and two of
  three that look like frame ends; two packets; every splitting of the streams. Larger payloads add no
  new adjacency of special bytes.
* *queue*: two senders, the first with a two-piece packet, two receivers, sockets of one piece: every
  write of the long packet is suspended, on both sides, and any process may die anywhere.
* *spoofer*: three devices, two node lists and two exclusion lists, which leave three, two, one and no
  device to spoof; `MaxEvents` 3 (nodes, exclusions and a change of either while packets go out), one
  exception, `broadcast` on or off.
* *backend client*: three requests, two of one action, one of an echoed action; `MaxConns` 2; three
  retries as in the code.
* *addon manager*: two addons, one with two interceptors, two lists, two changes of the list, two
  handlers at a time (`MaxTasks`), one failure. Eleven entries (`MaxEntries`) always leave a free one.
* *hub*: two instances, each dying once at most, a broker (`MaxEpoch` 2), two connections at an
  instance, two ids so that one repeats, two messages. A third instance adds no new
  kind of participant: with two there is an asker, somebody who replies, and somebody who dies.
* *backends*: one process with any number of requests, two processes with `MaxOverlap` 4 requests (a
  race of the kinds listed needs two or three). Two e-mail addresses and secrets for one code, `MaxUid`
  2, `MaxTokens` 1, `MaxLink` 2: two people compete for one code, and one of them tries again. One
  mandatory addon, one device and `NULL`, `MaxConfig` 4. Two devices, two names, `MaxVersion` 3: a
  version is computed from another one that is computed. Two devices with one option. Two hours
  (`MaxHour`), two lists (`MaxUploads`) of two `Entries`. Workers, names, e-mail addresses and secrets
  are symmetric: no module orders them or singles one out.
* *watchdog*: two devices, addresses and handlers (a handler overtakes another); two reports, one
  fault, one decision of the user; three filters of which one diverts, one does not compile and one
  only watches, two changes of filters, two addresses, one failure of a process, the manager or the
  interceptor; two classes of addons, one of which may have two processes, one after the other or at
  once; in the master two modules besides the logger, one class of addons, two generations of its
  process, one death, two interrupts (the second hits the shutdown); three log messages; two updates and one crash of the adblocker, three requests by
  both ways; two rounds of the scanner, one exception.
* *packets*: checksums of six bits over two-bit words of carries, packets of 13 units and links of 2, 4
  and 8 (so fragments of fragments occur), two fields, pools of two leases, options of at most two
  values, networks of one and two bits in four-bit addresses.

Parts that stop at their bounds are why `CHECK_DEADLOCK FALSE` is in those configurations; the runs of
the addon manager check deadlock.

**Fairness.** Weak fairness of a task that is ready (asyncio resumes it), of timers, of a module's
main loop that does nothing but `get`, of a connected server's answers. Nothing is assumed of users,
senders, failures, or of connections. The addon manager's handlers have strong fairness: lists come every
six seconds and awaits of the logger take milliseconds, so handlers meet in such waits at most
`MaxCoincidences` times (`Pace`), which disables steps again and again; without it two handlers could
destroy each other's clones for ever. `StopsWhenItMust` needs that modules do not fall silent, as
the master looks at its workers only after an event; `KnownDevicesAreSpoofed` needs nobody to send
events. The hub and the backends have safety properties only: they promise nothing that does not
depend on a client asking again.

## 5. What the code does otherwise than it says, or than one expects

Checked as expected violations (a run each):

* `TerminateRestoresArp`: the docstring of `on_terminate` (spoofer.py:85-87) promises the ARP state
  of before the launch; `spoof()` keeps sending on the same loop and redirects a device again.
* `RetriedAfterLoss`: the comment at backend.py:160 says a request whose connection died "will be
  retried"; only a request that could not be *sent* is.
* `RequestReturnsReply`: device_control_backend/README.md:20-21 promises a reply with `success`; the
  client takes the notification that is broadcast under the same action for the reply.
* `OneProcess`: the assertion at addon_manager.py:354-355 should keep an interceptor from being
  started while its process is alive. It sees one entry only: a list that comes during `git checkout`
  starts the addon, and the handler that installed it starts it again and forgets the first process.

Modelled as the code does it, and named as exceptions in the properties or met while modelling:

* *Master*: it waits for ever in connect() for the queue of an addon that ended between its
  ADDONQUEUE event and its handling (queue.py:139). A dead worker is noticed after the next event only
  (master.py:292). An interrupt during the shutdown, or a logger that died earlier (master.py:184),
  leaves it joining processes that ignore SIGINT. Stopping for a dead worker sends no SIGINT, so
  on_terminate does not run. The process of an addon's queue outlives the addon. Of two living processes
  of a class (`OneProcess`) the older gets no events any more, not even after the newer has ended
  (master.py:252-258).
* *Spoofer*: excluded devices are taken out of the pairs (spoofer.py:25, 33), and `build_arp_packets` is
  documented to spoof its `receiver` (arpspoof.py:13). But with broadcasts, the default (arpspoof.py:59,
  spoofer.py:95), everybody hears the packets of the other pairs, so excluded devices are spoofed all the
  same, as the comment at arpspoof.py:36-37 admits ("we no longer can exclude devices from being
  spoofed"). What an exclusion achieves either way is that nobody is redirected *away from* the excluded
  device; `ExclusionTakesEffect` says that, and that the device is left alone itself without broadcasts.
* *Interception*: `run` of the addon manager starts with empty dictionaries (addon_manager.py:472-477)
  while the addons' processes live on and do not repeat their filters. The interceptor keeps the last
  filters until any addon changes its own; then those of all addons that have not spoken since are
  switched off (`forgotten` in `OrdersFollow`). Two living processes of a class overwrite each other's
  filters, as these are kept by class (addon_manager.py:455). After a restart of manager or interceptor an
  event may go to the connection of the previous instance, which nobody reads. The last filters do not
  get to the socket when one does not compile, when the socket is being replaced, or when an older
  handler attaches last (interceptor.py:70); filters of dead processes stay until another process of the
  class registers some (addon_manager.py:455); a configuration that comes during the attach is
  forgotten (interceptor.py:217). The manager's clean-up passes entries where hashes are expected
  (addon_manager.py:486) and closes nothing.
* *Bridge*: it authenticates once per run (bridge.py:165-169): a lost connection is never opened
  again. The first handler of a new device dies of a KeyError on the broadcast (bridge.py:122). A reload
  that raises in a push's callback ends the listen task with the next message. Waiting requests are
  woken before the token is sent (backend.py:86).
* *Identification*: DHCP data is never matched (bytes against a string, dhcp_listener.py:24-28,
  deviceid.py:101-106); a device that moves when data waits at its new address may go unreported
  (74-80); by_ipv4 keeps a stale entry (66). The ARP cache never expires (arp_listener.py:71).
* *Scanner*: NetBIOS is asked at `str(bytes)` and never answers (netbiosScanner.py:162-175); SSDP
  describes an address for ever by what it first read there; an answer without cache-control ends the
  scan.
* *Prober*: without routes at the first read it waits for a configuration that nobody reads again
  (arp_probe.py:21-23). The broadcast address of the network is routed to the gateway.
* *Packets*: `fo & 0b10` tests a bit of the offset (packet.py:97), so some fragments are forwarded whole;
  carries are folded once (checksums.py:50). The ARP filter for the own replies compares words of the
  other byte order. Sends between the closing and the opening of a socket fail in a task nobody awaits.
* *DHCP*: every discover takes a lease; exhaustion raises a TypeError (dhcp.py:283) that the handler of
  ValueError does not catch; an ACK carries no address.
* *Filters*: a load beyond the packet is padded by the evaluator to `r-l` (eval.py:60) and ends the
  kernel's program whatever the NOT around it; fields of 3, 6 or 16 bytes do not compile.
* *Logging*: every message is uploaded twice (logger.py:17-22). *Adblocker*: lists are empty while an
  update runs; one failed tunnel ends the resolver's only task (adblocker.py:80).
* *Hub and broker*: the death of one instance can throw another that replied off the list; an answer
  after two seconds answers a later question of the same id; a connection whose own notify is in flight
  gets no message; a closed link is opened again after the next failing send only.
* *Auth*: a token issued between a registration's INSERT and its UPDATE names no code, for the ten
  minutes it is cached; an older token's unregister releases a code that is somebody else's by now.
* *Device control and monitoring*: two replicas look for a row and then insert it; the second INSERT
  ends request and connection. The mail for a change is sent only when the send itself fails, as the
  watchdog's own connection counts as success (app.py:185-187); a user without a policy ends in an
  IndexError (app.py:80) after the status was stored. Logs are never deleted: `clean_logs` does not
  start (app.py:427-436). The limit per hour is one per process.
* *Machine learning*: a crash between INSERT and UPDATE, or two devices with one name, block the
  name's next version; what is noted as pulled is the latest model, not the version delivered.

## 6. What is proved

Eight modules hold proofs, for every value of the constants under the assumptions the modules name.

**QueueServerProofs** (`QueueAssumption`). `TypeCorrect == Spec => []TypeOK` and `SemCounts == Spec =>
[]SemMatchesQueue`. Neither is inductive. `IInv` adds that no frame in the deque is empty (otherwise
`packet[r]` would be `<<>>` while a task writes it, and `finally: if packet` would not put it back),
that sockets hold at most `Cap` pieces, and that a connection that was never opened has no task. `Cut`
returns as many non-empty frames as there are terminators (`NthEndExists`, `NthEndIncreases`,
`CutType`); each action has a lemma.

`FramesStayIntact == Spec => []FramesIntact`, `OvertakenOnlyIfRequeued == Spec =>
[]OnlyRequeuedOvertaken` and `QueueImplementsLossyQueue == Spec => ImplementsLossyQueue` rest on `FInv`,
which follows the pieces from the put() to the get(). What a sender has written and the server has not
cut (`Upstream`), and what the server has written or is writing and the receiver has not cut
(`Downstream`), is a `Chain`: a sequence of frames of which only the last may be unfinished; `Whole` says
that it is not, as long as nobody has died. `UpInv` adds that upstream there is nothing the server has had
before, in the order of the put()s. `HoldInv`: a frame that the server has is once in the deque or with
one task that has an unfinished write, and what that task has yet to write is an end of the frame.
`OrderInv`: of two frames of one sender that are in the wrong order, in the deque, in a stream or between
the places a receiver's frames pass through, the later one was put back. The lemmas about streams say what
`Cut` makes of one to which something is added (`CutConcat`, `CutUnended`, `CutEnded`), what it makes of a
chain (`CutIsFrame`), and what a chain remains when something is taken from it. The refinement takes a
step of the server to Enter, of a task's last write to Give, of get() to Read, and every other one to
no step.

**SpooferProofs** (`SpooferAssumption`). `NobodyBeforeWhitelist == Spec => NoSpoofBeforeWhitelist`. `GInv`:
the ARP tables keep their type, and spoof() is not past its start before the exclusions of this run have
arrived; and a restart, which forgets them, starts it anew. `QuietTerminateUndoes == Spec =>
[]QuietTerminateRestores`. `RInv`: the attributes stay lists of different nodes (`WithoutIsNodes`), and
from the signal to the exit, while nothing else runs, two nodes see each other or the packet that makes
them is still to be sent. That on_terminate sends one for every ordered pair is `AllPairs`, about the
quotients and rests by which `Permutations2` numbers the pairs.

**BackendWSProofs** (`BackendAssumption`). `FuturesResolvedOnce == Spec => []TypeOK`, `ExecutedOnce ==
Spec => []AtMostOnce` and `OwnAnswers == Spec => []OwnAnswer`. `IInv` is the conjunction of the types, of `Waiters` (who is in a callback list waits
for a future that is unresolved) and `OnTheWay` (a request that has not been sent is in no message, one
that was sent is in at most one message that the server has yet to execute, and in none after that). For
`OwnAnswer` there are two parts more. `Connection`: without a connection nobody waits, unless
the client was closed and nobody reads. `Own`: for each name under which the server sends nothing unasked, the answers that are still to
be read from this connection are those to the requests in the callback list, in its order and without a
gap (`Matches`), so the answer read next belongs to the first who waits. It needs that no caller
sends a request under the names `auth` and `keepalive`, which the client uses itself.

**CloudProofs** (finite `Workers`) holds the proofs about the five backends with tables and about their
composition.

*Accounts and codes*: `SecretsStay == AuthSpec => OneBox` and `AccountsStaySound ==
AuthSpec => []AccountsSound`. `AInv`, for one process: what a request has read is still true when its
next statement runs, as the only process alive is working on it (`Claims`, `Secrecy`, `Registering`,
`Verifying`, `Proving`). `OInv`, for any number: numbers of accounts are drawn once; a token names every
code its account has, unless it was made before the account got its code, which is on record
(`TokenFine`); so a code without an account is on the list of an unregister that is under way (`Owned`),
and who claims a code has an account or an excuse (`RequestFine`). `VInv`, for one process: from the link
to the account the code is free (`Verified`), so a verification takes no code from anybody.

*Addons*: `AddonsStaySound == AddonSpec => []AddonsSound`, by four invariants. `PInv`, for any
number of processes though nothing is locked: two rows never hold one configuration, and none holds a
default, as a configuration is made for one place, with a number nobody had before (`Numbers`); what
a request is about to write is nowhere but where it writes it (`Claim`, `RowsApart`); and two
requests that are about to write the same one, as two changes of one row do, write it to the same
place (`Agree`). `KeyInv`: what a row refers to is there, and no DELETE takes it. `ListInv`: a getAddon has
found or installed the mandatory addons it has passed, or is marked disturbed. `SoleInv`: in one process,
what the running request has read is still so, and it alone knows configurations that nothing refers
to, but those that a crash left over.

*Device control*: `DevicesAsDecided == ControlSpec => []ControlSound`. Rows of the table are never
deleted, so a row that was found is still there when the next statement runs (`Grounded`); a device that
nobody registered has the status of a new one (`NewAsDecided`); and a process that is alone has read
every device there is (`ReadAll`).

*Machine learning*: `VersionsOnlyGrow == ModelSpec => VersionsGrow`, for any number of processes. `MInv`:
what is about to be assigned to a device was stored by that one request (the UNIQUE key), and as long as
the device's models have one name, all versions up to its own are there and no request is ahead of the
next one: two that read the same version cannot both go on. `NotesOnlyGrow == ModelSpec =>
NotedForward` for one process (`SInv`: no watchdog is noted to have a newer model than the device's, and
what the running request has read is current).
`NextFreeAllTold == ModelSpec => [](NextVersionFree /\ PullReaches)`, for any number of processes.
`Accounted`: each stored model of a name that no other device has is at or below the device's version,
or about to be assigned to it, or was left behind by a process that died between the two statements;
`Reach`: who is still to be told is in the request's list.

*The composition*: `StoresStaySound == CloudSpec => []StoresSound` carries what is proved of the two
over (`CloudInv`: the tables of the backends that a behaviour does not follow are as
they were set up). For the monitoring backend it has an invariant of its own, `NInv`: an hour has at most
one statistic per process, by an injection of the open ones into the live processes, and the
stored entries of an uploaded list are its first ones, as many as the request says. `CloudTypes == CloudSpec
=> []CloudTypeOK` for all five: what a request has read is in range when it is written
rows later, although other processes change the tables meanwhile. The type of a table alone is not inductive.
`AuthTypes` adds that tokens, in use, in a cache or in a request that unregisters, name existing codes
(`NamedCodes`; no statement deletes a code), as `unregister` writes to the rows of what its token
names. `AddonTypes`, `ModelTypes` and `ControlTypes` start from `AddonInv`, `MInv` and `CInv` above
and add the bounds of numbers drawn and what a request knows at each of its statements
(`ControlRows`: a row is the row of the device it is filed under).

**HubProofs** (`HubAssumption`: finitely many instances, at least one link for each). Five theorems,
one for each property of the run: `TablesStaySound == HubSpec => []HubTypeOK`, `NobodyTwiceNobodyMissed`
(`EveryoneOnce`), `NoInstanceIsDropped` (`LinksStayUp`), `NobodyIsDenied` (`SenderIsFound`) and
`QuestionsAreOwed` (`QueryOwed`). `HInv` has two halves. What holds whatever fails: types, the broker's
tables (`BInv`), connections numbered without a gap and registered at one instance (`MInv`), one id for
each message on its way (`UInv`), and `FInv`: a message is at one stage, asked for and not yet read by the
broker, or before an instance, or being distributed by it, and nobody who is ahead in the list has got
it. That is why a message cannot come to a connection twice, although the list shrinks under the
loop. What holds as long as nothing failed and no id was drawn twice (`QInv`): all links are those of the
start, an id is that of one message, and the broker waits for an instance exactly as long as that one
owes an answer (`WaitsForOwing`), so the last answer finds the query and no handler raises; and who
waits is a connection of an instance that never answers False (`AskersFound`). Each handler of the
hub and of the broker has a lemma for each half.

**AddonManagerProofs** (`AddonManagerAssumption`). `ActiveStaysComplete == Spec => []ActiveIsComplete`,
whatever overtakes what: `BInv` says that the entry a handler is starting is in no other hands, not
active and not under the health check, and that the processes before the one it waits for have been
started (`Starting`); that what it closes is an entry of the hash it goes on to delete (`Closing`);
and that the dictionary has one entry for a hash (`OneEach`). `SoleProcess == Spec =>
[]SoleProcessUnlessOverlap` needs what holds until handlers overlap or the module fails (`Undisturbed`):
there is one handler (`OneHandler`); what it read of the active addons before its await is still so
after it (`StillSo`); the entry that the health check restarts is active; and whatever was started is
active or in the hands of the handler that starts it (`Owned`).

**WatchdogProofs** (the assumptions of the parts' modules). `WatchdogTypes == WatchdogSpec =>
[]WatchdogTypeOK` and `WatchdogStaysSettled == WatchdogSpec => []WatchdogSettled`, put together from one
theorem for each of the seven parts (`TableStaysSettled`, `ReportStaysSettled`,
`InterceptionStaysSettled`, `MasterStaysSettled`, `LogStaysConserved`, `AdblockerSound`,
`ScannerStaysSound`). What a part promises when it is at rest says nothing of the way there; each invariant
says where the thing promised is meanwhile.
*Table* (`TableInv`): a change that the bridge has not been told of is in the hands of a handler that is
about to report this device, or was hidden by a merge (`InHands`); data waits only where no device is
(`WaitsApart`), between any two steps and not only at rest.
*Report* (`ReportInv`): the reports of a device keep the order they were made in along the inbox, the
tasks that wait to register, and those that upload, as answers are matched to whoever waits
longest (`ReportOrder`); so the last address on its way, or stored, is that of the last report, or a handler
with it died (`Destiny`).
*Interception* (`ICInv`): the last update of a class on its way, or what the manager has of it, is what its
process that spoke last registered, unless the manager forgot it (`UpdatesArrive`); what the manager
ordered last is what it has merged, unless it started anew and is about to order or silent (`LastOrdered`);
the last order on its way is that one (`OrdersArrive`); and who compiles for the socket that is
in use has the address of now, or the change is noted as missed (`AddressesArrive`).
*Master* (`MasterInv`): queues are announced in the order of the generations (`NewestLast`), and the newest
one of a class that runs is known, in the inbox or in hand (`Addressed`).
*Log* (`LogInv`): a message that was handled is twice in one of the lists, batches and prints that are
under way; what has to be proved is that a batch taken over by a task that has one adds up.
*Adblocker* (`AdblockInv`): the counters not yet reported, on their way and reported add up to the requests
that were blocked (`AllCounted`), the lists read so far are the blacklist (`ListsRead`), the queue has
each request the resolver owes once (`Owed`).
*Scanner* (`ScannerInv`): what is yet to be reported is what a merge makes of the answers of this round, and
what was read at an address stays read.

**The framing** (in QueueServerProofs, `FramingAssumption`: payloads are byte strings).
`FramesArriveIntact == FramingSpec => []InOrderIntact` and `NoFrameWaits == FramingSpec => []NothingStuck`, for
payloads of any length and content. `FramingSpec` is the framing part of `Wire`, whose run checks both next to
the codecs; `Wire` as a whole reaches their recursive operators, so no theorem can be about it. `FrameLayout` says where in a frame the bytes of the payload are;
`NoEarlyEnd` that `parse` is in escaped state behind none of them, so in whatever begins as a frame does it
finds the end of that frame or nothing (`ParseFindsFrame`); `DeserializeUndoes` that `deserialize`
is the inverse of `serialize` and raises nothing. `FramingInv`: each buffer with the wire behind
it is the frames of some consecutive packets (`Stream`), the first from where the second ends, which begins
where `yielded` ends; what recv() moves from wire to buffer changes neither. The recursive functions are shown to
exist by the least element of the lengths for which they do not (`StepByStep`).

**SequenceFacts** holds what the others need to know of sequences: what `list.remove` leaves of a list, in
which order; that a list without duplicates is no longer than the set it is from; that a set of positions
has a k-th one (`NthPosition`). Induction on numbers is replaced by the least element of a set
(`LeastElement`), which the provers can use.

Only model-checked: liveness and what rests on ENABLED (`Drains`, `CloseReachesReceivers`,
`ExclusionTakesEffect`, `KnownDevicesAreSpoofed`, `AnsweredOrLost`, `LossNoticed`, `Converges`,
`TerminatedAreRestarted`, `TableCatchesUp`, `SpooferFollows`, `StopsWhenItMust`), which the
provers have no rules for; and `CodecsSound`, the one invariant without a theorem: the filter
language's two meanings, the interpreter of the socket filters' programs and the DHCP options are
recursive operators over syntax trees, programs and option lists, whose induction the provers
cannot instantiate. The other codecs it covers (fragments, checksums, networks) are checked
over all inputs of their bounds together with them.

## 7. Not modelled

* *Configuration, image build and set-up* (`core/config.py`, `watchdog-setup`, `arpjet.py`,
  `hardware/setup.py`): a file read once, and scripts of one process on files of the machine.
* *Payloads and formats*: pickles, headers of packets, DNS, mDNS, UPnP and NetBIOS messages, HTTP and JSON
  forms, hashing and signatures, contents of configurations, of logs and of models, wording of logs and
  mails. They are abstracted to what the properties tell apart.
* *Requests that only read* in the monitoring and addon backends, alarms and metadata in the
  machine-learning backend (inserted, never read), types of devices.
* *The packet loop of the addon manager*, which holds no state; packets name a listener by a number and
  the listeners' list shrinks (addon_manager.py:218), so a packet may reach another listener: nothing
  in the code says which one is right.
* *Code that is never run*: `Bridge.worker`, the broker's cache (off unless WITH_CACHE), the timeouts
  of the queue, `VerbosePickleSerializer`, two of the socket filters' callers, `clean_logs`.
* *The spoofer with spoofing disabled*, and `InvalidStatusCode` on connecting (authenticate raises to
  the bridge, whose process restarts).
* *The SDK's emulator*, a tool for tests of addons.
* *Vendored copies* of backend_lib in each backend: `Hub` is modelled from device control's copy. The
  monitoring copy adds messages that keep a connection alive, those of auth and addon are older, and all
  backends but device control and monitoring run without a link to a broker.

A product of the watchdog's parts with the cloud's (bridge, client, hub and store in one behaviour)
is beyond TLC at any bound that is not trivial; `DeviceReport` has the part of it where
they meet, the reports, answers and pushes on one connection.
